------------------------------- MODULE MCHttp ---------------------------------
(***************************************************************************)
(* The accept loop, the proxy handler and the file handler for TLC. A      *)
(* child shares no state with the server after its fork, so that a run     *)
(* takes one of them.                                                      *)
(***************************************************************************)
EXTENDS HttpServerProps, HttpProxyProps, HttpFilesProps

CONSTANTS a, b

VARIABLE part

(* No byte, one byte, and two bytes: files may grow and shrink.            *)
MCContents == {<<>>, <<a>>, <<b, a>>}

httpvars == <<part, vars, proxyvars, filesvars>>

MCInit ==
  /\ part \in {"server", "proxy", "files"}
  /\ Init /\ ProxyInit /\ FilesInit
  /\ part = "proxy" \/ gone = {}
  /\ part = "files" \/ (request = "whole" /\ fs = CHOOSE t \in Trees : TRUE)

ServerStep == part = "server" /\ Next /\ UNCHANGED <<proxyvars, filesvars>>
ProxyStep == part = "proxy" /\ ProxyNext /\ UNCHANGED <<vars, filesvars>>
FilesStep == part = "files" /\ FilesNext /\ UNCHANGED <<vars, proxyvars>>
MCNext == (ServerStep \/ ProxyStep \/ FilesStep) /\ UNCHANGED part

(* In the parts not taken nothing has begun, so that nothing is enabled.   *)
MCSpec == MCInit /\ [][MCNext]_httpvars /\ Fairness /\ WF_proxyvars(Relay)
================================================================================
