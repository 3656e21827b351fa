------------------------------- MODULE Ulockmgr --------------------------------
(***************************************************************************)
(* The lock manager: ulockmgr_op of lib/ulockmgr.c, in the threads of a    *)
(* file system, and util/ulockmgr_server.c, which has a process for each   *)
(* owner of locks, as the locks of the kernel belong to processes. In such *)
(* a process, each request that must wait has a thread.                    *)
(*                                                                         *)
(* A lock is on a whole file; the kernel's locks of an owner are the one   *)
(* that its process has on each file.                                      *)
(***************************************************************************)
EXTENDS Integers, Sequences, FiniteSets

CONSTANTS
  Callers,  (* Bound: the threads that call ulockmgr_op.                     *)
  OwnerOf,  (* OwnerOf[t]: the owner a caller locks for.                     *)
  Requests, (* Requests[t]: what a caller asks for: records of cmd, type     *)
            (* (none to unlock), fd, all (the whole range).                  *)
  FileOf,   (* FileOf[fd]: the file that a file descriptor is open on.       *)
  MaxIntr   (* Bound: interrupts on their way to a process.                  *)

(* Only what unlocks is for the whole range.                               *)
Asking == [cmd : {"getlk", "setlk", "setlkw"}, type : {"none", "read", "write"}, fd : DOMAIN FileOf, all : BOOLEAN]

ASSUME UlockmgrAssumption ==
  /\ IsFiniteSet(Callers) /\ "free" \notin Callers /\ "none" \notin DOMAIN FileOf
  /\ DOMAIN OwnerOf = Callers /\ MaxIntr \in Nat
  /\ \A t \in Callers : Requests[t] \subseteq {r \in Asking : r.all => r.type = "none"}

VARIABLES
  caller,   (* A call: where it is (at), cmd, type, fd, whether it unlocks   *)
            (* all (all), has no fd in its message (nofd). What it returns   *)
            (* is left out.                                                  *)
  mutex,    (* ulockmgr_lock: the caller that has it, or "free".             *)
  owner,    (* owner[o]: whether it is in owner_list (up), whether there was *)
            (* a process for it (alive), and fds: inuse of each fd_store.    *)
  server,   (* server[o]: the fds of its process, the same way.              *)
  chan,     (* chan[o]: the messages that its process has not read.          *)
  told,     (* told[t]: the replies a caller has not read.                   *)
  job,      (* job[t]: the thread of its request in the process.             *)
  posix     (* posix[o][file]: none, read or write.                          *)

ulockvars == <<caller, mutex, owner, server, chan, told, job, posix>>
-----------------------------------------------------------------------------
LockOwners == {OwnerOf[t] : t \in Callers}
Fds == DOMAIN FileOf
LockedFiles == {FileOf[fd] : fd \in Fds}
NotCalling == [at |-> "idle", cmd |-> "none", type |-> "none", fd |-> "none", all |-> FALSE, nofd |-> FALSE]
Missing == -1
NoFds == [fd \in Fds |-> Missing]
NoOwner == [up |-> FALSE, alive |-> FALSE, fds |-> NoFds]

UlockInit ==
  /\ caller = [t \in Callers |-> NotCalling] /\ mutex = "free"
  /\ owner = [o \in LockOwners |-> NoOwner] /\ server = [o \in LockOwners |-> NoFds]
  /\ chan = [o \in LockOwners |-> <<>>] /\ told = [t \in Callers |-> <<>>]
  /\ job = [t \in Callers |-> "none"]
  /\ posix = [o \in LockOwners |-> [f \in LockedFiles |-> "none"]]

Conflicts(o, f, type) ==
  {p \in LockOwners \ {o} : posix[p][f] = "write" \/ (posix[p][f] = "read" /\ type = "write")}
TypeOf(t) == caller[t].type
FileFor(t) == FileOf[caller[t].fd]
Blockers(t) == Conflicts(OwnerOf[t], FileFor(t), TypeOf(t))
Locked(t) == [posix EXCEPT ![OwnerOf[t]][FileFor(t)] = TypeOf(t)]
-----------------------------------------------------------------------------
(***************************************************************************)
(* ulockmgr_op. An unlock does not wait; all is unlocked when the range is *)
(* everything.                                                             *)
(***************************************************************************)
UlockOp(t, r) ==
  /\ caller[t].at = "idle"
  /\ caller' = [caller EXCEPT ![t] = [NotCalling EXCEPT !.at = "want", !.type = r.type, !.fd = r.fd, !.all = r.all,
                                     !.cmd = IF r.type = "none" THEN "setlk" ELSE r.cmd]]
  /\ UNCHANGED <<mutex, owner, server, chan, told, job, posix>>

Return(t) == caller' = [caller EXCEPT ![t] = NotCalling]

(* ulockmgr_send_request without an owner.                                 *)
SendNowhere(t) ==
  /\ caller[t].at = "want" /\ mutex = "free" /\ ~owner[OwnerOf[t]].up
  /\ caller[t].cmd = "getlk" \/ caller[t].type = "none"
  /\ Return(t)
  /\ UNCHANGED <<mutex, owner, server, chan, told, job, posix>>

(* main of the server: there may be no process for an owner.               *)
Forked(alive) == [NoOwner EXCEPT !.up = TRUE, !.alive = alive]

(* ulockmgr_new_owner.                                                     *)
NewOwner(t, alive) ==
  /\ caller[t].at = "want" /\ mutex = "free" /\ ~owner[OwnerOf[t]].up
  /\ caller[t].cmd # "getlk" /\ caller[t].type # "none"
  /\ owner' = [owner EXCEPT ![OwnerOf[t]] = Forked(alive)]
  /\ UNCHANGED <<caller, mutex, server, chan, told, job, posix>>
SendFails(t) ==
  /\ caller[t].at = "want" /\ mutex = "free"
  /\ Return(t)
  /\ UNCHANGED <<mutex, owner, server, chan, told, job, posix>>
SendToNobody(t) ==
  /\ caller[t].at = "want" /\ mutex = "free"
  /\ owner[OwnerOf[t]].up /\ ~owner[OwnerOf[t]].alive
  /\ Return(t)
  /\ UNCHANGED <<mutex, owner, server, chan, told, job, posix>>

(* The file descriptor is passed with the first request that is about it.  *)
SendRequest1(t) ==
  LET o == OwnerOf[t]
      c == caller[t]
      n == owner[o].fds[c.fd]
      msg == [c EXCEPT !.nofd = c.all \/ n # Missing]
  IN  /\ c.at = "want" /\ mutex = "free" /\ owner[o].up /\ owner[o].alive
      /\ chan' = [chan EXCEPT ![o] = Append(@, [from |-> t, intr |-> FALSE])]
      /\ owner' = IF c.all THEN owner
                  ELSE [owner EXCEPT ![o].fds[c.fd] = IF n = Missing THEN 1 ELSE n + 1]
      /\ caller' = [caller EXCEPT ![t] = [msg EXCEPT !.at = "sent"]]
      /\ mutex' = t
      /\ UNCHANGED <<server, told, job, posix>>

(* After the reply.                                                        *)
DropFd(fds, fd) == IF fds[fd] = 0 THEN [fds EXCEPT ![fd] = Missing] ELSE fds

Finish(t) ==
  LET o == OwnerOf[t]
      c == caller[t]
      fds == IF c.all THEN DropFd(owner[o].fds, c.fd) ELSE [owner[o].fds EXCEPT ![c.fd] = @ - 1]
      gone == c.all /\ fds = NoFds
  IN  /\ owner' = [owner EXCEPT ![o] = IF gone THEN NoOwner ELSE [@ EXCEPT !.fds = fds]]
      /\ chan' = IF gone THEN [chan EXCEPT ![o] = <<>>] ELSE chan
      /\ server' = IF gone THEN [server EXCEPT ![o] = NoFds] ELSE server
      /\ Return(t)
      /\ mutex' = "free"

FirstReply(t) ==
  /\ caller[t].at = "sent" /\ told[t] # <<>>
  /\ told' = [told EXCEPT ![t] = Tail(@)]
  /\ IF caller[t].cmd = "setlkw" /\ Head(told[t]) = "EAGAIN"
     THEN /\ caller' = [caller EXCEPT ![t].at = "wait"] /\ mutex' = "free"
          /\ UNCHANGED <<owner, chan, server>>
     ELSE Finish(t)
  /\ UNCHANGED <<job, posix>>

(* A signal while it waits for the second reply.                           *)
Signalled(t) ==
  LET o == OwnerOf[t]
  IN  /\ caller[t].at = "wait" /\ told[t] = <<>>
      /\ Cardinality({i \in DOMAIN chan[o] : chan[o][i].intr}) < MaxIntr
      /\ chan' = [chan EXCEPT ![o] = Append(@, [from |-> t, intr |-> TRUE])]
      /\ UNCHANGED <<caller, mutex, owner, server, told, job, posix>>
SecondReply(t) ==
  /\ caller[t].at = "wait" /\ told[t] # <<>>
  /\ caller' = [caller EXCEPT ![t].at = "back"]
  /\ told' = [told EXCEPT ![t] = Tail(@)]
  /\ UNCHANGED <<mutex, owner, server, chan, job, posix>>
Back(t) ==
  /\ caller[t].at = "back" /\ mutex = "free"
  /\ Finish(t)
  /\ UNCHANGED <<told, job, posix>>
-----------------------------------------------------------------------------
(***************************************************************************)
(* The process of an owner: process_owner.                                 *)
(***************************************************************************)
Replies1(t, err) == told' = [told EXCEPT ![t] = Append(@, err)]
ReceiveNow(o) == chan' = [chan EXCEPT ![o] = Tail(@)]
Next1(o, intr) == chan[o] # <<>> /\ Head(chan[o]).intr = intr

(* An interrupt is for the thread that waited. If that has ended, it may   *)
(* reach one that was begun since. A thread that does not wait yet, or no  *)
(* longer, does not notice.                                                *)
Interrupt(o, t) ==
  /\ Next1(o, TRUE)
  /\ ReceiveNow(o)
  /\ OwnerOf[t] = o
  /\ LET from == Head(chan[o]).from
     IN  job[from] # "none" => t = from
  /\ job' = IF job[t] = "block" THEN [job EXCEPT ![t] = "EINTR"] ELSE job
  /\ UNCHANGED <<caller, mutex, owner, server, told, posix>>

(* process_message. Closing a file drops the locks of the process on it.   *)
ProcessUnlockAll(o) ==
  /\ Next1(o, FALSE) /\ ReceiveNow(o)
  /\ LET t == Head(chan[o]).from
         fd == caller[t].fd
         closes == server[o][fd] = 0
     IN  /\ caller[t].all
         /\ server' = [server EXCEPT ![o] = DropFd(@, fd)]
         /\ posix' = IF closes THEN [posix EXCEPT ![o][FileOf[fd]] = "none"] ELSE posix
         /\ Replies1(t, "ok")
  /\ UNCHANGED <<caller, mutex, owner, job>>

(* It knows the file descriptor, or is given it.                           *)
Knows(o, t) == ~caller[t].nofd \/ server[o][caller[t].fd] # Missing
With(o, fd) == IF server[o][fd] = Missing THEN [server EXCEPT ![o][fd] = 0] ELSE server
ProcessUnknown(o) ==
  /\ Next1(o, FALSE) /\ ReceiveNow(o)
  /\ LET t == Head(chan[o]).from
     IN  ~caller[t].all /\ ~Knows(o, t) /\ Replies1(t, "EIO")
  /\ UNCHANGED <<caller, mutex, owner, server, job, posix>>
ProcessNow(o) ==
  /\ Next1(o, FALSE) /\ ReceiveNow(o)
  /\ LET t == Head(chan[o]).from
         c == caller[t]
         free == c.cmd = "getlk" \/ c.type = "none" \/ Blockers(t) = {}
     IN  /\ ~c.all /\ Knows(o, t) /\ c.cmd \in {"getlk", "setlk"}
         /\ server' = With(o, c.fd)
         /\ posix' = IF c.cmd = "setlk" /\ free THEN Locked(t) ELSE posix
         /\ Replies1(t, IF free THEN "ok" ELSE "EAGAIN")
  /\ UNCHANGED <<caller, mutex, owner, job>>
ProcessWait(o) ==
  /\ Next1(o, FALSE) /\ ReceiveNow(o)
  /\ LET t == Head(chan[o]).from
         c == caller[t]
     IN  /\ ~c.all /\ Knows(o, t) /\ c.cmd = "setlkw"
         /\ server' = [With(o, c.fd) EXCEPT ![o][c.fd] = @ + 1]
         /\ job' = [job EXCEPT ![t] = "try"]
  /\ UNCHANGED <<caller, mutex, owner, told, posix>>
(* There is no memory, or no thread: what was new is forgotten.            *)
ProcessFails(o) ==
  /\ Next1(o, FALSE) /\ ReceiveNow(o)
  /\ LET t == Head(chan[o]).from
     IN  ~caller[t].all /\ Knows(o, t) /\ (~caller[t].nofd \/ caller[t].cmd = "setlkw") /\ Replies1(t, "ENOLCK")
  /\ UNCHANGED <<caller, mutex, owner, server, job, posix>>

(* process_request. (Fault: a caller is not told that it has to wait.)     *)
TellLater(t) == told
TellWait(t) == [told EXCEPT ![t] = Append(@, "EAGAIN")]
TryLock(t) ==
  /\ job[t] = "try"
  /\ IF Blockers(t) = {} THEN posix' = Locked(t) /\ job' = [job EXCEPT ![t] = "ok"] /\ UNCHANGED told
     ELSE told' = TellWait(t) /\ job' = [job EXCEPT ![t] = "told"] /\ UNCHANGED posix
  /\ UNCHANGED <<caller, mutex, owner, server, chan>>
(* The kernel does not let two owners wait for each other.                 *)
WaitsFor(o, p) == \E t \in Callers : OwnerOf[t] = o /\ job[t] = "block" /\ p \in Blockers(t)
BlockLock(t) ==
  /\ job[t] = "told"
  /\ job' = [job EXCEPT ![t] = IF \E p \in Blockers(t) : WaitsFor(p, OwnerOf[t]) THEN "EDEADLK" ELSE "block"]
  /\ UNCHANGED <<caller, mutex, owner, server, chan, told, posix>>
GetLock(t) ==
  /\ job[t] = "block" /\ Blockers(t) = {}
  /\ posix' = Locked(t) /\ job' = [job EXCEPT ![t] = "ok"]
  /\ UNCHANGED <<caller, mutex, owner, server, chan, told>>
EndRequest(t) ==
  /\ job[t] \in {"ok", "EINTR", "EDEADLK"}
  /\ server' = [server EXCEPT ![OwnerOf[t]][caller[t].fd] = @ - 1]
  /\ Replies1(t, job[t])
  /\ job' = [job EXCEPT ![t] = "none"]
  /\ UNCHANGED <<caller, mutex, owner, chan, posix>>
-----------------------------------------------------------------------------
UlockCalls(t) ==
  \/ \E r \in Requests[t] : UlockOp(t, r)
  \/ SendFails(t) \/ Signalled(t)
  \/ \E alive \in BOOLEAN : NewOwner(t, alive)
UlockSteps(t) ==
  \/ SendNowhere(t) \/ SendToNobody(t) \/ SendRequest1(t) \/ FirstReply(t) \/ SecondReply(t) \/ Back(t)
  \/ TryLock(t) \/ BlockLock(t) \/ GetLock(t) \/ EndRequest(t)
ServerSteps(o) ==
  \/ \E t \in Callers : Interrupt(o, t)
  \/ ProcessUnlockAll(o) \/ ProcessUnknown(o) \/ ProcessNow(o) \/ ProcessWait(o) \/ ProcessFails(o)
UlockNext ==
  \/ \E t \in Callers : UlockCalls(t) \/ UlockSteps(t)
  \/ \E o \in LockOwners : ServerSteps(o)

UlockSpec == UlockInit /\ [][UlockNext]_ulockvars
-----------------------------------------------------------------------------
(***************************************************************************)
(* No caller and no thread uses what has been freed: what a call waits for *)
(* is there, here and in the process, whoever unlocks everything at the    *)
(* same time; and an owner that goes leaves no lock, and no thread in its  *)
(* process.                                                                *)
(***************************************************************************)
NoneFreed ==
  /\ \A t \in Callers : caller[t].at \in {"sent", "wait", "back"} =>
       owner[OwnerOf[t]].up /\ (~caller[t].all => owner[OwnerOf[t]].fds[caller[t].fd] > 0)
  /\ \A t \in Callers : job[t] # "none" => server[OwnerOf[t]][caller[t].fd] > 0
  /\ \A o \in LockOwners : ~owner[o].up => \A f \in LockedFiles : posix[o][f] = "none"

(***************************************************************************)
(* Nobody has to wait for a lock while it holds ulockmgr_lock: a caller    *)
(* that has it will be answered, as soon as the process has read what was  *)
(* sent before.                                                            *)
(***************************************************************************)
MutexMoves ==
  \A t \in Callers : mutex = t =>
    \/ told[t] # <<>>
    \/ job[t] \in {"try", "ok", "EINTR", "EDEADLK"}
    \/ \E i \in DOMAIN chan[OwnerOf[t]] : chan[OwnerOf[t]][i] = [from |-> t, intr |-> FALSE]

(***************************************************************************)
(* Both: whichever calls of an owner meet, and whenever a signal comes.    *)
(***************************************************************************)
CallsEnd == NoneFreed /\ MutexMoves
=============================================================================
