----------------------------- MODULE FuseSession ------------------------------
(***************************************************************************)
(* How requests go through libfuse: the threads of fuse_loop_mt.c, which   *)
(* come and go with the load; the requests of fuse_lowlevel.c with their   *)
(* references, locks and interrupts; and, around the call of the file      *)
(* system, the interrupts of fuse.c, which send a signal to the thread.    *)
(* What happens under one hold of mt.lock, of the lock of fuse_ll or of    *)
(* the lock of struct fuse is one action.                                  *)
(*                                                                         *)
(* The file system is mounted with -o intr. The kernel sends each request  *)
(* once, and an INTERRUPT for those whose caller got a signal.             *)
(*                                                                         *)
(* Each definition whose comment starts with "Fault" is a faulty variant of *)
(* the definition after it, with which a property must fail to hold.       *)
(***************************************************************************)
EXTENDS Integers, SequencesExt, FiniteSets

CONSTANTS
  Workers,   (* Bound: the threads that there can be at a time.              *)
  Ops,       (* The requests for an operation of the file system.            *)
  Stuck,     (* Those which end only when their thread gets a signal.        *)
  Forgets,   (* The FORGET requests.                                         *)
  MaxIdle,   (* How many threads may be idle: 10.                            *)
  MaxAgain,  (* Bound: how often the kernel repeats an INTERRUPT.            *)
  Kills      (* Whether the daemon may get a signal to exit.                 *)

Nobody == "nobody"

ASSUME FuseSessionAssumption ==
  /\ IsFiniteSet(Workers) /\ Nobody \notin Workers /\ Workers # {}
  /\ Stuck \subseteq Ops /\ Ops \cap Forgets = {} /\ {MaxIdle, MaxAgain} \subseteq Nat

VARIABLES
  ask,        (* ask[r]: where the kernel is with r: "none", "queued",       *)
              (* "sent", "answered".                                         *)
  intr,       (* intr[r]: the same for the INTERRUPT of r, and how many      *)
              (* times it was sent again.                                    *)
  mounted,
  exited,     (* se->exited                                                  *)
  main,       (* Where fuse_session_loop_mt is.                              *)
  finish,     (* The semaphore mt.finish.                                    *)
  mt_exit,
  listed,     (* The workers in the list of mt.                              *)
  numavail,
  cancelled,  (* The workers that pthread_cancel was called for.             *)
  pc, job,    (* pc[w], job[w]: what the worker does, and with which message.*)
  list,       (* f->list                                                     *)
  interrupts, (* f->interrupts: the requests they are for.                   *)
  req,        (* req[r]: the struct fuse_req of r, and the fuse_intr_data on  *)
              (* the stack of its handler.                                   *)
  sig         (* sig[r]: whether the handler of r was sent a signal.         *)

kernel == <<ask, intr, mounted>>
mtvars == <<finish, mt_exit, listed, numavail, cancelled>>
llvars == <<list, interrupts, req, sig>>
sessionvars == <<ask, intr, mounted, exited, main, finish, mt_exit, listed, numavail,
                 cancelled, pc, job, list, interrupts, req, sig>>

NoJob == [kind |-> "none", r |-> Nobody]
NoReq == [ctr |-> 0, interrupted |-> FALSE, func |-> FALSE, locker |-> Nobody, finished |-> FALSE]

SessionInit ==
  /\ ask = [r \in Ops \cup Forgets |-> "none"]
  /\ intr = [r \in Ops |-> [at |-> "none", again |-> 0]]
  /\ mounted = TRUE /\ exited = FALSE /\ main = "check" /\ finish = 0 /\ mt_exit = FALSE
  /\ LET w == CHOOSE w \in Workers : TRUE
     IN  /\ listed = {w} /\ numavail = 1
         /\ pc = [v \in Workers |-> IF v = w THEN "loop" ELSE "none"]
  /\ cancelled = {} /\ job = [w \in Workers |-> NoJob]
  /\ list = {} /\ interrupts = <<>> /\ req = [r \in Ops |-> NoReq] /\ sig = [r \in Ops |-> FALSE]

Go(w, to) == pc' = [pc EXCEPT ![w] = to]
-----------------------------------------------------------------------------
(***************************************************************************)
(* The kernel.                                                             *)
(***************************************************************************)
Call(r) ==
  /\ mounted /\ ask[r] = "none" /\ ask' = [ask EXCEPT ![r] = "queued"]
  /\ UNCHANGED <<intr, mounted, exited, main, mtvars, pc, job, llvars>>

(* The caller of r gets a signal. An INTERRUPT is queued once r is sent.   *)
CallerSignalled(r) ==
  /\ ask[r] = "sent" /\ intr[r].at = "none" /\ intr' = [intr EXCEPT ![r].at = "queued"]
  /\ UNCHANGED <<ask, mounted, exited, main, mtvars, pc, job, llvars>>

Unmount ==
  /\ mounted /\ \A r \in DOMAIN ask : ask[r] \in {"none", "answered"}
  /\ mounted' = FALSE
  /\ UNCHANGED <<ask, intr, exited, main, mtvars, pc, job, llvars>>

(* What read returns next: INTERRUPTs come first.                          *)
Messages ==
  LET first == {r \in Ops : intr[r].at = "queued" /\ ask[r] = "sent"}
  IN  IF first # {} THEN {[kind |-> "interrupt", r |-> r] : r \in first}
      ELSE {[kind |-> IF r \in Ops THEN "op" ELSE "forget", r |-> r] :
              r \in {q \in DOMAIN ask : ask[q] = "queued"}}

Sent(m) ==
  IF m.kind = "interrupt" THEN intr' = [intr EXCEPT ![m.r].at = "sent"] /\ UNCHANGED ask
  ELSE /\ ask' = [ask EXCEPT ![m.r] = IF m.kind = "op" THEN "sent" ELSE "answered"]
       /\ UNCHANGED intr

(* An INTERRUPT answered with EAGAIN is queued again if r is not answered. *)
SendAgain(r) ==
  intr' = [intr EXCEPT ![r] =
    IF ask[r] = "sent" /\ @.again < MaxAgain THEN [at |-> "queued", again |-> @.again + 1]
                                             ELSE [@ EXCEPT !.at = "answered"]]
-----------------------------------------------------------------------------
(***************************************************************************)
(* The loop of a worker, fuse_do_work.                                     *)
(***************************************************************************)

(* Fault: a worker that leaves the loop does not tell.                     *)
LeavesQuietly(w) == UNCHANGED finish /\ Go(w, "dead")

(* It leaves the loop: sem_post.                                           *)
LeavesLoop(w) == finish' = finish + 1 /\ Go(w, "dead")

Loop(w) ==
  /\ pc[w] = "loop"
  /\ IF exited THEN LeavesLoop(w) ELSE Go(w, "read") /\ UNCHANGED finish
  /\ UNCHANGED <<kernel, exited, main, mt_exit, listed, numavail, cancelled, job, llvars>>

(* fuse_kern_chan_receive, with a message. It is lost if the session has   *)
(* ended meanwhile.                                                        *)
Receive(w) ==
  /\ pc[w] = "read" /\ mounted
  /\ \E m \in Messages :
       /\ Sent(m)
       /\ IF exited THEN LeavesLoop(w) /\ UNCHANGED job
          ELSE job' = [job EXCEPT ![w] = m] /\ Go(w, "got") /\ UNCHANGED finish
  /\ UNCHANGED <<mounted, exited, main, mt_exit, listed, numavail, cancelled, llvars>>

(* ENODEV                                                                  *)
ReceiveUnmounted(w) ==
  /\ pc[w] = "read" /\ ~mounted
  /\ exited' = TRUE /\ LeavesLoop(w)
  /\ UNCHANGED <<kernel, main, mt_exit, listed, numavail, cancelled, job, llvars>>

(* A worker can be cancelled while it reads only.                          *)
Cancelled(w) ==
  /\ pc[w] = "read" /\ w \in cancelled /\ Go(w, "dead")
  /\ UNCHANGED <<kernel, exited, main, mtvars, job, llvars>>

Counts(w) == IF job[w].kind = "forget" THEN 0 ELSE 1

(* The threads that fuse_loop_start_thread may add when n are available:   *)
(* one or, if that fails, none.                                            *)
NewThreads(n) == {{}} \cup (IF n = 0 THEN {{v} : v \in {u \in Workers : pc[u] = "none"}} ELSE {})

(* Under mt.lock: the worker is no longer available.                       *)
TakeJob(w) ==
  /\ pc[w] = "got"
  /\ IF mt_exit THEN Go(w, "dead") /\ UNCHANGED <<listed, numavail>>
     ELSE \E new \in NewThreads(numavail - Counts(w)) :
            /\ listed' = listed \cup new
            /\ numavail' = numavail - Counts(w) + Cardinality(new)
            /\ pc' = [v \in Workers |-> IF v = w THEN "process" ELSE IF v \in new THEN "loop" ELSE pc[v]]
  /\ UNCHANGED <<kernel, exited, main, finish, mt_exit, cancelled, job, llvars>>

(* Under mt.lock, after the request: there may be too many workers.        *)
JobDone(w) ==
  /\ pc[w] = "worked"
  /\ LET n == numavail + Counts(w)
     IN  IF n > MaxIdle /\ ~mt_exit
         THEN /\ listed' = listed \ {w} /\ numavail' = n - 1 /\ Go(w, "none")
         ELSE /\ Go(w, IF n > MaxIdle THEN "dead" ELSE "loop")
              /\ numavail' = n /\ UNCHANGED listed
  /\ job' = [job EXCEPT ![w] = NoJob]
  /\ UNCHANGED <<kernel, exited, main, finish, mt_exit, cancelled, llvars>>
-----------------------------------------------------------------------------
(***************************************************************************)
(* fuse_session_loop_mt                                                    *)
(***************************************************************************)
ToMain(at) == main' = at /\ UNCHANGED <<kernel, pc, job, llvars>>

(* while (!fuse_session_exited(se)) sem_wait(&mt.finish); "goes" is between *)
(* the test and the wait.                                                  *)
MainChecks ==
  /\ main = "check" /\ ToMain(IF exited THEN "cancel" ELSE "goes") /\ UNCHANGED <<exited, mtvars>>
MainWaits ==
  /\ main = "goes" /\ ToMain("wait") /\ UNCHANGED <<exited, mtvars>>
MainWoken ==
  /\ main = "wait" /\ finish > 0 /\ ToMain("check") /\ finish' = finish - 1
  /\ UNCHANGED <<exited, mt_exit, listed, numavail, cancelled>>

(* exit_handler, which interrupts sem_wait.                                *)
ExitHandler ==
  /\ Kills /\ ~exited /\ main \in {"check", "goes", "wait"}
  /\ exited' = TRUE /\ ToMain(IF main = "wait" THEN "check" ELSE main) /\ UNCHANGED mtvars

MainCancels ==
  /\ main = "cancel" /\ ToMain("join") /\ cancelled' = listed /\ mt_exit' = TRUE
  /\ UNCHANGED <<exited, finish, listed, numavail>>

(* fuse_join_worker; the session is reset after the last one.              *)
MainJoins ==
  /\ main = "join"
  /\ \/ \E w \in listed : pc[w] = "dead" /\ listed' = listed \ {w} /\ ToMain("join") /\ UNCHANGED exited
     \/ listed = {} /\ ToMain("ended") /\ exited' = FALSE /\ UNCHANGED listed
  /\ UNCHANGED <<finish, mt_exit, numavail, cancelled>>
-----------------------------------------------------------------------------
(***************************************************************************)
(* A request, fuse_ll_process_buf.                                         *)
(***************************************************************************)
Locked(r) == req[r].locker # Nobody

(* check_interrupt: the INTERRUPT of r, if it was there first, is taken    *)
(* from the list; otherwise the oldest one, to be answered with EAGAIN.    *)
Matched(r) == Contains(interrupts, r)
Oldest == IF interrupts = <<>> THEN Nobody ELSE Head(interrupts)
CheckInterrupt(r) ==
  IF Matched(r) THEN interrupts' = RemoveFirst(interrupts, r) /\ UNCHANGED intr
  ELSE IF interrupts = <<>> THEN UNCHANGED <<interrupts, intr>>
  ELSE interrupts' = Tail(interrupts) /\ SendAgain(Oldest)

ProcessOp(w, r) ==
  /\ CheckInterrupt(r)
  /\ list' = list \cup {r}
  /\ req' = [req EXCEPT ![r] = [NoReq EXCEPT !.ctr = 1, !.interrupted = Matched(r)]]
  /\ Go(w, "handle") /\ UNCHANGED sig

(* It gets no reply. Forgetting itself is in FuseNodes.                    *)
ProcessForget(w, r) ==
  /\ CheckInterrupt(r) /\ Go(w, "worked") /\ UNCHANGED <<list, req, sig>>

(* Fault: the request is used without a reference.                         *)
FindNoReference(r) == req

FindReference(r) == [req EXCEPT ![r].ctr = @ + 1]

(* Fault: only requests that are still to come are interrupted.            *)
ProcessKept(w, r) ==
  /\ interrupts' = IF Matched(r) THEN interrupts ELSE Append(interrupts, r)
  /\ Go(w, "worked") /\ UNCHANGED <<intr, list, req, sig>>

(* do_interrupt, to where find_interrupted drops f->lock.                  *)
ProcessInterrupt(w, r) ==
  /\ IF r \in list THEN req' = FindReference(r) /\ Go(w, "ilock") /\ UNCHANGED interrupts
     ELSE /\ interrupts' = IF Matched(r) THEN interrupts ELSE Append(interrupts, r)
          /\ Go(w, "worked") /\ UNCHANGED req
  /\ UNCHANGED <<intr, list, sig>>

Process(w) ==
  /\ pc[w] = "process"
  /\ LET m == job[w]
     IN  \/ m.kind = "op" /\ ProcessOp(w, m.r)
         \/ m.kind = "forget" /\ ProcessForget(w, m.r)
         \/ m.kind = "interrupt" /\ ProcessInterrupt(w, m.r)
  /\ UNCHANGED <<ask, mounted, exited, main, mtvars, job>>

(* The steps of a handler change the request of w only.                    *)
Handler(w, from, to, r) ==
  /\ pc[w] = from /\ job[w] = [kind |-> "op", r |-> r] /\ Go(w, to)
  /\ UNCHANGED <<mounted, exited, main, mtvars, job, interrupts>>

(* fuse_prepare_interrupt. If r was interrupted before, fuse_interrupt is  *)
(* called here, finds that it is in the thread of r and returns.           *)
Prepare(w, r) ==
  /\ Handler(w, "handle", "fs", r) /\ ~Locked(r)
  /\ req' = [req EXCEPT ![r].func = TRUE, ![r].finished = FALSE]
  /\ UNCHANGED <<ask, intr, list, sig>>

(* The file system returns; a stuck operation after a signal only.         *)
FsReturns(w, r) ==
  /\ Handler(w, "fs", "returned", r) /\ (r \in Stuck => sig[r])
  /\ UNCHANGED <<ask, intr, list, req, sig>>

(* fuse_do_finish_interrupt, under the lock of struct fuse.                *)
Finish(w, r) ==
  /\ Handler(w, "returned", "finished", r) /\ req' = [req EXCEPT ![r].finished = TRUE]
  /\ UNCHANGED <<ask, intr, list, sig>>

(* The rest of it waits until no thread is in fuse_interrupt for r.        *)
Unregister(w, r) ==
  /\ Handler(w, "finished", "reply", r) /\ ~Locked(r)
  /\ req' = [req EXCEPT ![r].func = FALSE]
  /\ UNCHANGED <<ask, intr, list, sig>>

Reply(w, r) ==
  /\ Handler(w, "reply", "free", r) /\ ask' = [ask EXCEPT ![r] = "answered"]
  /\ UNCHANGED <<intr, list, req, sig>>

(* fuse_free_req                                                           *)
FreeReq(w, r) ==
  /\ Handler(w, "free", "worked", r)
  /\ list' = list \ {r} /\ req' = [req EXCEPT ![r].ctr = @ - 1]
  /\ UNCHANGED <<ask, intr, sig>>

Handle(w) == \E r \in Ops : \/ Prepare(w, r) \/ FsReturns(w, r) \/ Finish(w, r) \/ Unregister(w, r)
                            \/ Reply(w, r) \/ FreeReq(w, r)
-----------------------------------------------------------------------------
(***************************************************************************)
(* The rest of find_interrupted, and fuse_interrupt.                       *)
(***************************************************************************)
Interrupter(w, from, r) ==
  /\ pc[w] = from /\ job[w] = [kind |-> "interrupt", r |-> r]
  /\ UNCHANGED <<kernel, exited, main, mtvars, job, list, interrupts>>

InterruptLocks(w, r) ==
  /\ Interrupter(w, "ilock", r) /\ ~Locked(r)
  /\ req' = [req EXCEPT ![r].locker = w, ![r].interrupted = TRUE]
  /\ Go(w, IF req[r].func THEN "icall" ELSE "iend") /\ UNCHANGED sig

(* The signal is sent again each second, until the handler has finished.   *)
InterruptSignals(w, r) ==
  /\ Interrupter(w, "icall", r) /\ ~req[r].finished /\ ~sig[r]
  /\ sig' = [sig EXCEPT ![r] = TRUE] /\ UNCHANGED <<pc, req>>

InterruptReturns(w, r) ==
  /\ Interrupter(w, "icall", r) /\ req[r].finished /\ Go(w, "iend") /\ UNCHANGED <<req, sig>>

(* curr->lock is given back and, under f->lock, the reference.             *)
InterruptUnlocks(w, r) ==
  /\ Interrupter(w, "iend", r)
  /\ req' = [req EXCEPT ![r].locker = Nobody, ![r].ctr = @ - 1]
  /\ Go(w, "worked") /\ UNCHANGED sig

Interrupt(w) == \E r \in Ops : \/ InterruptLocks(w, r) \/ InterruptSignals(w, r)
                               \/ InterruptReturns(w, r) \/ InterruptUnlocks(w, r)
-----------------------------------------------------------------------------
Worker(w) == \/ Loop(w) \/ Receive(w) \/ ReceiveUnmounted(w) \/ Cancelled(w) \/ TakeJob(w)
             \/ Process(w) \/ Handle(w) \/ Interrupt(w) \/ JobDone(w)

Main == MainChecks \/ MainWaits \/ MainWoken \/ MainCancels \/ MainJoins

SessionNext ==
  \/ \E r \in Ops \cup Forgets : Call(r)
  \/ \E r \in Ops : CallerSignalled(r)
  \/ Unmount \/ ExitHandler \/ Main
  \/ \E w \in Workers : Worker(w)

(* The threads run and the file system returns.                            *)
SessionFairness == WF_sessionvars(Main) /\ \A w \in Workers : WF_sessionvars(Worker(w))

SessionSpec == SessionInit /\ [][SessionNext]_sessionvars /\ SessionFairness
=============================================================================
