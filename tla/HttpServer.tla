------------------------------ MODULE HttpServer ------------------------------
(***************************************************************************)
(* The server of hw2/httpserver.c: serve_forever accepts connections and   *)
(* forks a child for each, and the child runs the request handler. What    *)
(* the handler does with its socket is not in this module.                 *)
(*                                                                         *)
(* A socket is known by its connection. The processes that hold a copy of  *)
(* it are what matters: its client sees the end of the connection when the *)
(* last copy is closed.                                                    *)
(*                                                                         *)
(* Each definition whose comment starts with "Fault" is a faulty variant of *)
(* the definition after it, with which a property must fail to hold.       *)
(***************************************************************************)
EXTENDS Integers, FiniteSets

CONSTANTS
  Conns,      (* The connections clients make.                              *)
  MaxProcs,   (* The processes the server and its children may be, zombies  *)
              (* included, before fork fails.                               *)
  MaxLive,    (* The connections that clients have going at a time.         *)
  Interrupts  (* May the user press ^C?                                     *)

ASSUME HttpServerAssumption ==
  /\ IsFiniteSet(Conns) /\ "none" \notin Conns /\ MaxProcs \in Nat \ {0}
  /\ MaxLive \in Nat /\ Interrupts \in BOOLEAN

VARIABLES
  pc,       (* What the parent does next.                                   *)
  accepted, (* client_socket_number, as the connection it belongs to.       *)
  conn,     (* conn[c]: how far connection c has come.                      *)
  child,    (* child[c]: the process forked for c.                          *)
  holds,    (* holds[c]: the sockets that the child of c has copies of.     *)
  parent,   (* The client sockets that the parent has copies of.            *)
  listening (* The processes with a copy of the listening socket: the       *)
            (* parent, None, and children before they close it.             *)

vars == <<pc, accepted, conn, child, holds, parent, listening>>

None == "none"

Init ==
  /\ pc = "accept" /\ accepted = None
  /\ conn = [c \in Conns |-> "idle"]
  /\ child = [c \in Conns |-> "none"]
  /\ holds = [c \in Conns |-> {}]
  /\ parent = {} /\ listening = {None}

Procs == 1 + Cardinality({c \in Conns : child[c] # "none"})
-----------------------------------------------------------------------------
(* A client connects: the connection waits in the backlog. Without a       *)
(* listening socket it is refused.                                         *)
Connect(c) ==
  /\ conn[c] = "idle" /\ listening # {}
  /\ Cardinality({d \in Conns : conn[d] \in {"backlog", "open"}}) < MaxLive
  /\ conn' = [conn EXCEPT ![c] = "backlog"]
  /\ UNCHANGED <<pc, accepted, child, holds, parent, listening>>

Accept(c) ==
  /\ pc = "accept" /\ conn[c] = "backlog"
  /\ conn' = [conn EXCEPT ![c] = "open"]
  /\ accepted' = c /\ parent' = parent \cup {c} /\ pc' = "fork"
  /\ UNCHANGED <<child, holds, listening>>

(* An accept that fails is tried again.                                    *)
AcceptError ==
  /\ pc = "accept" /\ UNCHANGED vars

(* Fault: the process to be forked is counted twice.                       *)
CanForkOneLess == Procs + 1 < MaxProcs

CanFork == Procs < MaxProcs

Fork ==
  /\ pc = "fork" /\ CanFork
  /\ child' = [child EXCEPT ![accepted] = "forked"]
  /\ holds' = [holds EXCEPT ![accepted] = parent]
  /\ listening' = listening \cup {accepted}
  /\ pc' = "close"
  /\ UNCHANGED <<accepted, conn, parent>>

(* fork failed: the server exits, and its copies of the sockets are gone.  *)
ForkError ==
  /\ pc = "fork" /\ ~CanFork
  /\ pc' = "exited" /\ accepted' = None
  /\ parent' = {} /\ listening' = listening \ {None}
  /\ UNCHANGED <<conn, child, holds>>

(* Fault: the parent keeps the client's socket.                            *)
KeepClient == parent' = parent

CloseClient == parent' = parent \ {accepted}

Close ==
  /\ pc = "close" /\ CloseClient
  /\ accepted' = None /\ pc' = "accept"
  /\ UNCHANGED <<conn, child, holds, listening>>
-----------------------------------------------------------------------------
(* Fault: the child keeps the listening socket.                            *)
KeepListening(c) == listening

(* The child closes the listening socket and runs the handler.             *)
WithoutListening(c) == listening \ {c}

Handle(c) ==
  /\ child[c] = "forked"
  /\ child' = [child EXCEPT ![c] = "handling"]
  /\ listening' = WithoutListening(c)
  /\ UNCHANGED <<pc, accepted, conn, holds, parent>>

ChildEnds(c) == /\ child' = [child EXCEPT ![c] = "zombie"]
                /\ holds' = [holds EXCEPT ![c] = {}]
                /\ listening' = listening \ {c}

(* The handler returned, or exited, or crashed. Nobody waits for the       *)
(* child: it stays a zombie as long as the parent lives.                   *)
Finish(c) ==
  /\ child[c] = "handling" /\ ChildEnds(c)
  /\ UNCHANGED <<pc, accepted, conn, parent>>

Gone == pc \in {"exited", "interrupted"}

(* init reaps the zombies of a parent that is gone.                        *)
Reap(c) ==
  /\ Gone /\ child[c] = "zombie"
  /\ child' = [child EXCEPT ![c] = "none"]
  /\ UNCHANGED <<pc, accepted, conn, holds, parent, listening>>

(* The last copy of the client's socket is closed.                         *)
Copies(c) == {d \in Conns : c \in holds[d]}
Ended(c) ==
  /\ conn[c] = "open" /\ Copies(c) = {} /\ c \notin parent
  /\ conn' = [conn EXCEPT ![c] = "ended"]
  /\ UNCHANGED <<pc, accepted, child, holds, parent, listening>>

(* The listening socket is gone: so are the connections in its backlog.    *)
Reset(c) ==
  /\ conn[c] = "backlog" /\ listening = {}
  /\ conn' = [conn EXCEPT ![c] = "ended"]
  /\ UNCHANGED <<pc, accepted, child, holds, parent, listening>>

(***************************************************************************)
(* ^C goes to the whole foreground group. The parent runs                  *)
(* signal_callback_handler, and so does a child that has not reset the     *)
(* handler; the others die of the signal.                                  *)
(***************************************************************************)
Interrupt ==
  /\ Interrupts /\ ~Gone
  /\ pc' = "interrupted" /\ accepted' = None /\ parent' = {} /\ listening' = {}
  /\ child' = [c \in Conns |-> IF child[c] = "none" THEN "none" ELSE "zombie"]
  /\ holds' = [c \in Conns |-> {}]
  /\ UNCHANGED conn
-----------------------------------------------------------------------------
Next ==
  \/ AcceptError \/ Fork \/ ForkError \/ Close \/ Interrupt
  \/ \E c \in Conns : Connect(c) \/ Accept(c) \/ Handle(c) \/ Finish(c)
                      \/ Reap(c) \/ Ended(c) \/ Reset(c)

Parent == (\E c \in Conns : Accept(c)) \/ Fork \/ ForkError \/ Close
Fairness == /\ WF_vars(Parent)
            /\ \A c \in Conns : /\ WF_vars(Handle(c)) /\ WF_vars(Finish(c))
                                /\ WF_vars(Ended(c)) /\ WF_vars(Reset(c))
                                /\ SF_vars(Accept(c))

Spec == Init /\ [][Next]_vars /\ Fairness
=============================================================================
