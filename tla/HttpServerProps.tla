---------------------------- MODULE HttpServerProps ----------------------------
(***************************************************************************)
(* The properties of the accept loop of hw2.                               *)
(***************************************************************************)
EXTENDS HttpServer

(* Every variable has its type, and fork stays within the process limit.   *)
TypeOK ==
  /\ pc \in {"accept", "fork", "close", "exited", "interrupted"}
  /\ accepted \in Conns \cup {None}
  /\ conn \in [Conns -> {"idle", "backlog", "open", "ended"}]
  /\ child \in [Conns -> {"none", "forked", "handling", "zombie"}]
  /\ holds \in [Conns -> SUBSET Conns]
  /\ Procs <= MaxProcs
  /\ parent \subseteq Conns /\ listening \subseteq Conns \cup {None}

(***************************************************************************)
(* No process has a copy of another connection's socket: a child inherits  *)
(* what the parent has open at the fork, and that is one client socket.    *)
(***************************************************************************)
SocketsApart ==
  /\ \A c \in Conns : holds[c] \subseteq {c}
  /\ parent \subseteq {accepted}

(***************************************************************************)
(* After the parent is gone the port is free again as soon as no child is  *)
(* left between its fork and its first close, however long requests run.   *)
(***************************************************************************)
PortFreed ==
  Gone /\ (\A c \in Conns : child[c] # "forked") => listening = {}

(***************************************************************************)
(* A client whose connection was accepted sees its end once its own        *)
(* handler has returned, whatever other connections are still open, and    *)
(* also if no child could be forked for it or ^C was pressed.              *)
(***************************************************************************)
ClientSeesEnd == \A c \in Conns : conn[c] = "open" ~> conn[c] = "ended"

(***************************************************************************)
(* A connection in the backlog gets its handler, whatever the other        *)
(* children do, unless ^C is pressed or all the processes there may be are *)
(* there: the server never gives up before that.                           *)
(***************************************************************************)
BacklogServed ==
  \A c \in Conns :
    (conn[c] = "backlog" /\ pc # "exited") ~>
      (child[c] \in {"handling", "zombie"} \/ pc = "interrupted" \/ Procs = MaxProcs)
-----------------------------------------------------------------------------
(***************************************************************************)
(* The inductive invariant: which sockets the parent has open at each      *)
(* step, and that only a child that is new has the listening socket.       *)
(***************************************************************************)
ParentInv ==
  /\ pc \in {"fork", "close"} => accepted \in Conns /\ parent = {accepted}
  /\ pc \notin {"fork", "close"} => parent = {}
ListeningInv ==
  /\ Gone => None \notin listening
  /\ \A c \in Conns : c \in listening => child[c] = "forked"
IInv == TypeOK /\ SocketsApart /\ ParentInv /\ ListeningInv
=============================================================================
