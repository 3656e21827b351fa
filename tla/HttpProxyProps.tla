---------------------------- MODULE HttpProxyProps ----------------------------
(***************************************************************************)
(* The properties of the proxy of hw2.                                     *)
(***************************************************************************)
EXTENDS HttpProxy

(***************************************************************************)
(* What an end has sent is, in order and without a gap or a repetition,    *)
(* what the other end got, then what the proxy holds, then what waits in   *)
(* the socket; only what was written to an end that had left is missing.   *)
(***************************************************************************)
Held(e) == IF stage = "write" /\ from = e THEN buf ELSE <<>>
Relayed ==
  \A e \in Ends :
    Other(e) \notin gone =>
      got[Other(e)] \o Held(e) \o queue[e] = [k \in 1 .. sent[e] |-> k]

(* Types of the variables. With Relayed this is inductive.                 *)
ProxyTypeOK ==
  /\ stage \in {"select", "read", "write", "fatal", "closed", "killed"}
  /\ from \in Ends /\ buf \in Seq(Nat) /\ buffers \in Nat
  /\ sent \in [Ends -> Nat] /\ queue \in [Ends -> Seq(Nat)] /\ got \in [Ends -> Seq(Nat)]
  /\ fin \subseteq Ends /\ gone \subseteq Ends

(***************************************************************************)
(* As long as nobody hangs up, and memory lasts for a buffer a byte, every *)
(* byte that was sent arrives: neither direction starves the other for     *)
(* good, although the client always goes first.                            *)
(***************************************************************************)
EverythingArrives ==
  \A e \in Ends, k \in 1 .. MaxSent :
    sent[e] = k ~> (Len(got[Other(e)]) >= k \/ fin # {})

-----------------------------------------------------------------------------
(* What a comment says, and the code does not do.                          *)

(* "someone hung up, exiting...": then the loop ends and both sockets are  *)
(* closed. The loop ends only for a negative bytes_sent.                   *)
EndsOnHangup == (fin = Ends) ~> (stage = "closed")
=============================================================================
