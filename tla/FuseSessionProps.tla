--------------------------- MODULE FuseSessionProps ---------------------------
(***************************************************************************)
(* The properties of the threads and requests of libfuse.                  *)
(***************************************************************************)
EXTENDS FuseSession

HandlerAt(r) == {pc[w] : w \in {v \in Workers : job[v] = [kind |-> "op", r |-> r]}}
InterrupterAt(r) == {pc[w] : w \in {v \in Workers : job[v] = [kind |-> "interrupt", r |-> r]}}

(***************************************************************************)
(* Nobody uses a request after it was freed: its memory is there as long   *)
(* as its handler or an interrupting thread refers to it. And while that   *)
(* thread is in fuse_interrupt, the data it was given, which are on the    *)
(* stack of the handler, are still there.                                  *)
(***************************************************************************)
NothingDangles ==
  \A r \in Ops :
    /\ (HandlerAt(r) \cap {"handle", "fs", "returned", "finished", "reply", "free"} # {}
        \/ InterrupterAt(r) \cap {"ilock", "icall", "iend"} # {}) => req[r].ctr > 0
    /\ "icall" \in InterrupterAt(r) => HandlerAt(r) \cap {"fs", "returned", "finished"} # {}

(***************************************************************************)
(* An INTERRUPT that is kept for later is kept once, and never for a       *)
(* request that is being handled.                                          *)
(***************************************************************************)
KeptForLater == IsInjective(interrupts) /\ Range(interrupts) \cap list = {}

(***************************************************************************)
(* numavail says how many threads are not at work on a request other than  *)
(* a FORGET, whichever of them come, go and fail to be started.            *)
(***************************************************************************)
AtWork(w) == Counts(w) = 1 /\ pc[w] \notin {"loop", "read", "got", "dead", "none"}
AvailTrue == main \in {"check", "goes", "wait", "cancel"} =>
               numavail = Cardinality({w \in listed : ~AtWork(w)})

(***************************************************************************)
(* When fuse_session_loop_mt returns, no thread is left that uses its      *)
(* variables: threads are joined, or have left the list before.            *)
(***************************************************************************)
AllJoined == main = "ended" => \A w \in Workers : pc[w] \in {"none", "dead"}

(***************************************************************************)
(* All of these.                                                           *)
(***************************************************************************)
SessionSound == NothingDangles /\ KeptForLater /\ AvailTrue /\ AllJoined

(* Nobody reads the device: all threads are at work, as no more of them    *)
(* could be started, or the session is about to end.                       *)
NoReader == exited \/ main = "ended" \/ \A w \in listed : pc[w] \notin {"loop", "read", "got", "process"}

(***************************************************************************)
(* When the file system is unmounted, fuse_session_loop_mt returns.        *)
(***************************************************************************)
UnmountEnds == ~mounted ~> main = "ended"

(***************************************************************************)
(* An operation that waits for a signal ends if its caller is interrupted  *)
(* while the file system is at it, unless at last nobody reads any more    *)
(* what the kernel sends.                                                  *)
(***************************************************************************)
InterruptEnds == \A r \in Stuck :
  \/ <>[]NoReader
  \/ intr[r].at = "queued" /\ "fs" \in HandlerAt(r) ~> ask[r] = "answered"

-----------------------------------------------------------------------------
(***************************************************************************)
(* The inductive invariant. Each request is received by one worker once,   *)
(* and its INTERRUPT is with one worker or in the list of f, not both.     *)
(***************************************************************************)
OpMessage(r) == [kind |-> "op", r |-> r]
InterruptMessage(r) == [kind |-> "interrupt", r |-> r]
Jobs == {OpMessage(r) : r \in Ops} \cup {InterruptMessage(r) : r \in Ops}
                \cup {[kind |-> "forget", r |-> r] : r \in Forgets} \cup {NoJob}
Whereabouts == {"none", "queued", "sent", "answered"}
Request == [ctr : Int, interrupted : BOOLEAN, func : BOOLEAN, locker : Workers \cup {Nobody},
            finished : BOOLEAN]

Serves == {"handle", "fs", "returned", "finished", "reply", "free"}
Refers == {"ilock", "icall", "iend"}
Idles == {"loop", "read", "got", "dead", "none"}

SessionTypeOK ==
  /\ ask \in [Ops \cup Forgets -> Whereabouts] /\ intr \in [Ops -> [at : Whereabouts, again : Nat]]
  /\ mounted \in BOOLEAN /\ exited \in BOOLEAN /\ mt_exit \in BOOLEAN
  /\ main \in {"check", "goes", "wait", "cancel", "join", "ended"} /\ finish \in Nat
  /\ listed \subseteq Workers /\ cancelled \subseteq Workers /\ numavail \in Int
  /\ pc \in [Workers -> Serves \cup Refers \cup Idles \cup {"process", "worked"}]
  /\ job \in [Workers -> Jobs]
  /\ list \subseteq Ops /\ interrupts \in Seq(Ops)
  /\ req \in [Ops -> Request] /\ sig \in [Ops -> BOOLEAN]

(* The threads: who is in the list of mt, and when.                        *)
ThreadsListed ==
  /\ mt_exit <=> main \in {"join", "ended"}
  /\ \A w \in Workers : pc[w] \notin {"none", "dead"} => w \in listed
  /\ \A w \in Workers : pc[w] = "none" => w \notin listed
  /\ ~mt_exit => \A w \in Workers : pc[w] # "none" => w \in listed
  /\ main = "ended" => listed = {}
ThreadInv == ThreadsListed /\ AvailTrue

(* The operation r, and who handles it.                                    *)
Handling(w, r) == job[w] = OpMessage(r)
HandledOnce(r) ==
  /\ \A v, w \in Workers : Handling(v, r) /\ Handling(w, r) => v = w
  /\ ask[r] \in {"none", "queued"} => \A w \in Workers : ~Handling(w, r)
  /\ r \in list <=> \E w \in Workers : Handling(w, r) /\ pc[w] \in Serves

(* Its INTERRUPT, and who deals with it.                                   *)
Interrupting(w, r) == job[w] = InterruptMessage(r) /\ pc[w] \in Refers \cup {"got", "process"}
InterruptedOnce(r) ==
  /\ \A v, w \in Workers : Interrupting(v, r) /\ Interrupting(w, r) => v = w
  /\ \A w \in Workers : Interrupting(w, r) => r \notin Range(interrupts) /\ intr[r].at = "sent"
  /\ r \in Range(interrupts) => r \notin list /\ intr[r].at = "sent"

(* Who is in fuse_interrupt for r has its lock, while its handler waits.   *)
Referring(w, r) == job[w] = InterruptMessage(r) /\ pc[w] \in Refers
LockHeld(r) ==
  /\ \A w \in Workers : Referring(w, r) /\ pc[w] # "ilock" => req[r].locker = w
  /\ \A w \in Workers : Referring(w, r) /\ pc[w] = "icall" => req[r].func
  /\ req[r].func => \E w \in Workers : Handling(w, r) /\ pc[w] \in {"fs", "returned", "finished"}

(* The references of r; there are none before it is handled.               *)
Referred(r) == \E w \in Workers : Referring(w, r)
CtrTrue(r) ==
  /\ req[r].ctr = (IF r \in list THEN 1 ELSE 0) + (IF Referred(r) THEN 1 ELSE 0)
  /\ Referred(r) => /\ ask[r] \notin {"none", "queued"}
                    /\ \A w \in Workers : Handling(w, r) => pc[w] \notin {"got", "process"}

RequestInv(r) == HandledOnce(r) /\ InterruptedOnce(r) /\ LockHeld(r) /\ CtrTrue(r)
SessionInv ==
  SessionTypeOK /\ ThreadInv /\ IsInjective(interrupts) /\ \A r \in Ops : RequestInv(r)
=============================================================================
