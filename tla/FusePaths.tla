------------------------------ MODULE FusePaths -------------------------------
(***************************************************************************)
(* The path locks of libfuse (lib/fuse.c). Every operation of the high     *)
(* level interface takes the path of its node and keeps it true until the  *)
(* file system is done: each node on the path has a treelock that counts   *)
(* readers, and what unlink and rename change is locked for writing. Who   *)
(* cannot get all of its path waits in f->lockq.                           *)
(*                                                                         *)
(* Which node is where is all that this module knows of the tree: lifetime *)
(* and contents of nodes are in FuseNodes. Several threads of              *)
(* fuse_loop_mt run; what happens under one hold of f->lock is one action. *)
(*                                                                         *)
(* Each definition whose comment starts with "Fault" is a faulty variant of *)
(* the definition after it, with which a property must fail to hold.       *)
(***************************************************************************)
EXTENDS Integers, Sequences, FiniteSets

CONSTANTS
  Root,     (* FUSE_ROOT_ID.                                                *)
  Dirs,     (* The other nodes that are directories.                        *)
  Files,    (* The nodes that are not.                                      *)
  Names,    (* The names of directory entries.                              *)
  Threads,  (* The threads that handle requests.                            *)
  Places,   (* Where each node is at first: its directory and its name.     *)
  Requests  (* The requests that the kernel may send.                       *)

Nodes == Dirs \cup Files
None == "none"

(* TREELOCK_WRITE and TREELOCK_WAIT_OFFSET: INT_MIN, far below any number  *)
(* of readers. Here it is the first number that is.                        *)
Write == -1
WaitOffset == -2 * Cardinality(Threads) - 2

(* What get_path and its relatives are asked for: the path of dir, or of   *)
(* name in dir, with what is there locked for writing if write holds.      *)
NoName == "no name"
Nowhere == [dir |-> None, name |-> NoName]
Spots == [dir : {Root} \cup Nodes, name : Names]
Asks == [dir : {Root} \cup Nodes, name : Names \cup {NoName}, write : BOOLEAN]

(* A request: "path" (all operations that only use a path), "open" (the    *)
(* reply leaves before the path is freed), "unlink" (and rmdir), "rename", *)
(* "link" and "forget".                                                    *)
Kinds == {"path", "open", "unlink", "rename", "link", "forget"}
RequestOK(r) ==
  /\ r.kind \in Kinds /\ r.asks \in Seq(Asks)
  /\ Len(r.asks) = IF r.kind \in {"rename", "link"} THEN 2 ELSE 1
  /\ \A i \in DOMAIN r.asks : /\ r.asks[i].write <=> r.kind \in {"unlink", "rename"}
                              /\ r.asks[i].write => r.asks[i].name # NoName
  /\ r.kind = "forget" => r.asks[1].dir # Root

(* The nodes from n up to the root, or to one that is nowhere, when p says *)
(* where each node is.                                                     *)
Ancestors(p, n) ==
  {m \in Nodes : \A S \in SUBSET Nodes :
     ({n} \cup {p[k].dir : k \in S}) \cap Nodes \subseteq S => m \in S}

(* One node per entry, and none above itself.                              *)
IsTree(p) ==
  /\ \A n, m \in Nodes : p[n] = p[m] /\ n # m => p[n] = Nowhere
  /\ \A n \in Nodes : n \notin Ancestors(p, p[n].dir)

ASSUME FusePathsAssumption ==
  /\ IsFiniteSet(Nodes) /\ Root \notin Nodes /\ Dirs \cap Files = {}
  /\ None \notin Nodes \cup {Root} /\ NoName \notin Names
  /\ Places \in [Nodes -> Spots \cup {Nowhere}] /\ IsTree(Places)
  /\ IsFiniteSet(Threads) /\ \A r \in Requests : RequestOK(r)

VARIABLES
  place,    (* place[n]: the parent and name of n, Nowhere if unhashed.      *)
  treelock, (* treelock[n]                                                  *)
  lockq,    (* f->lockq: the threads in the order they wait.                *)
  request,  (* request[t]: the request that t handles.                      *)
  stage,    (* stage[t]: "idle", "wait" (for qe.cond), "held" (its paths),  *)
            (* "done" (the tree is as the file system is), "replied",       *)
            (* "failed" (without a path).                                   *)
  got,      (* got[t][i]: the i-th path of t, by the nodes that it passes   *)
            (* and where they are, with the lock that came with it,         *)
            (* NotLocked before and after.                                  *)
  verdict   (* verdict[t]: "again" until qe.done, then qe.err. For forget,  *)
            (* whether qe.cond was signalled.                               *)

vars == <<place, treelock, lockq, request, stage, got, verdict>>
locks == <<treelock, got, verdict>>

Idle == [kind |-> "idle", asks |-> <<>>]
NotLocked == [chain |-> [n \in {} |-> Nowhere], wnode |-> None, locked |-> FALSE]
Both(one, two) == [i \in {1, 2} |-> IF i = 1 THEN one ELSE two]

Init ==
  /\ place = Places
  /\ treelock = [n \in Nodes |-> 0]
  /\ lockq = <<>>
  /\ request = [t \in Threads |-> Idle]
  /\ stage = [t \in Threads |-> "idle"]
  /\ got = [t \in Threads |-> Both(NotLocked, NotLocked)]
  /\ verdict = [t \in Threads |-> "again"]
-----------------------------------------------------------------------------
(***************************************************************************)
(* The tree.                                                               *)
(***************************************************************************)
Lookup(dir, name) ==
  IF \E n \in Nodes : place[n] = [dir |-> dir, name |-> name]
  THEN CHOOSE n \in Nodes : place[n] = [dir |-> dir, name |-> name]
  ELSE None

Above(n) == Ancestors(place, n)
Trail(n) == [m \in Above(n) |-> place[m]]
-----------------------------------------------------------------------------
(***************************************************************************)
(* One path. What try_get_path returns: err, the treelocks, and the path.  *)
(***************************************************************************)

(* Fault: a writer that waits leaves no mark, and readers keep coming.     *)
NoMark(tl, w) == tl

(* A writer that must wait keeps new readers out.                          *)
MarkWaiting(tl, w) == IF tl[w] > 0 THEN [tl EXCEPT ![w] = @ + WaitOffset] ELSE tl

Busy(tl, w) == tl[w] # 0

(* A node without a name ends the way up before its lock is looked at.     *)
TryGetPath(tl, ask) ==
  LET w     == IF ask.write THEN Lookup(ask.dir, ask.name) ELSE None
      above == Above(ask.dir)
  IN  IF w # None /\ Busy(tl, w)
      THEN [err |-> "again", tl |-> MarkWaiting(tl, w), path |-> NotLocked]
      ELSE IF \E n \in above : place[n] # Nowhere /\ tl[n] < 0
      THEN [err |-> "again", tl |-> tl, path |-> NotLocked]
      ELSE IF \E n \in above : place[n] = Nowhere
      THEN [err |-> "noent", tl |-> tl, path |-> NotLocked]
      ELSE [err |-> "ok",
            tl  |-> [n \in Nodes |-> IF n = w THEN Write ELSE IF n \in above THEN tl[n] + 1 ELSE tl[n]],
            path |-> [chain |-> Trail(ask.dir), wnode |-> w, locked |-> TRUE]]

(* Fault: the mark of a waiting writer outlives the readers.               *)
KeepMark(v) == v

ClearMark(v) == IF v = WaitOffset THEN 0 ELSE v

(* unlock_path follows the parents as they are now.                        *)
UnlockPath(tl, ask, path) ==
  [n \in Nodes |-> IF n = path.wnode THEN 0
                   ELSE IF n \in Above(ask.dir) THEN ClearMark(tl[n] - 1)
                   ELSE tl[n]]

(* queue_element_unlock: the paths of t, as far as they are locked.        *)
UnlockBoth(tl, t, gt) ==
  LET one == IF gt[1].locked THEN UnlockPath(tl, request[t].asks[1], gt[1]) ELSE tl
  IN  IF gt[2].locked THEN UnlockPath(one, request[t].asks[2], gt[2]) ELSE one
-----------------------------------------------------------------------------
(***************************************************************************)
(* The queue. s stands for the locks while it is gone through.             *)
(***************************************************************************)
Locks == [treelock |-> treelock, got |-> got, verdict |-> verdict]

Release(s, t) == [s EXCEPT !.treelock = UnlockBoth(s.treelock, t, s.got[t]),
                           !.got[t] = Both(NotLocked, NotLocked)]

(* Only the first element may be locked in part.                           *)
MayKeepPart(t) == t = Head(lockq)

Try(s, t, i) ==
  IF s.got[t][i].locked THEN [s |-> s, err |-> "ok"]
  ELSE LET r == TryGetPath(s.treelock, request[t].asks[i])
       IN  [s |-> [s EXCEPT !.treelock = r.tl, !.got[t][i] = r.path], err |-> r.err]

QueueElementWakeup(s, t) ==
  IF request[t].kind = "forget"
  THEN IF s.treelock[request[t].asks[1].dir] = 0 THEN [s EXCEPT !.verdict[t] = "ok"] ELSE s
  ELSE LET one == Try(s, t, 1)
           two == IF Len(request[t].asks) = 2 /\ one.err # "noent" THEN Try(one.s, t, 2)
                                                             ELSE [one EXCEPT !.err = "ok"]
       IN  IF "noent" \in {one.err, two.err}
           THEN [Release(two.s, t) EXCEPT !.verdict[t] = "noent"]
           ELSE IF {one.err, two.err} = {"ok"}
           THEN [two.s EXCEPT !.verdict[t] = "ok"]
           ELSE IF MayKeepPart(t) THEN two.s ELSE Release(two.s, t)

(* Woken(s)[i]: after the first i elements.                                *)
Woken(s) ==
  LET woken[i \in 0..Len(lockq)] == IF i = 0 THEN s ELSE QueueElementWakeup(woken[i - 1], lockq[i])
  IN  woken

WakeUpQueued(s) == Woken(s)[Len(lockq)]

Dequeued(t) ==
  LET i == CHOOSE j \in DOMAIN lockq : lockq[j] = t
  IN  SubSeq(lockq, 1, i - 1) \o SubSeq(lockq, i + 1, Len(lockq))

SetLocks(s) == treelock' = s.treelock /\ got' = s.got /\ verdict' = s.verdict
-----------------------------------------------------------------------------
(***************************************************************************)
(* What the kernel guarantees while a request is pending: it holds the     *)
(* mutexes of the directories that the request changes and of the victim,  *)
(* and one mutex for renames between directories.                          *)
(***************************************************************************)
Pending(t) == stage[t] \notin {"idle", "replied"}
Mutexes(r) ==
  LET ask == r.asks
  IN  CASE r.kind = "unlink" -> {ask[1].dir, Lookup(ask[1].dir, ask[1].name)} \ {None}
        [] r.kind = "rename" -> {ask[1].dir, ask[2].dir, Lookup(ask[2].dir, ask[2].name)} \ {None}
        [] r.kind = "link"   -> {ask[1].dir, ask[2].dir}
        [] OTHER -> {}
CrossDirectory(r) == r.kind = "rename" /\ r.asks[1].dir # r.asks[2].dir

Known(n) == n = Root \/ (n \in Nodes /\ place[n] # Nowhere)
Empty(n) == \A m \in Nodes : place[m] # Nowhere => place[m].dir # n
Uses(r, n) == \E i \in DOMAIN r.asks : n \in {r.asks[i].dir, Lookup(r.asks[i].dir, r.asks[i].name)}

(* The kernel sends r: it knows the nodes of r and has checked r. What it  *)
(* forgets has no entries and no user, and gets none any more.             *)
Sends(r) ==
  LET ask == r.asks
      old == Lookup(ask[1].dir, ask[1].name)
      new == Lookup(ask[2].dir, ask[2].name)
  IN  /\ \A u \in Threads : Pending(u) =>
           /\ Mutexes(r) \cap Mutexes(request[u]) = {}
           /\ ~(CrossDirectory(r) /\ CrossDirectory(request[u]))
           /\ request[u].kind = "forget" => ~Uses(r, request[u].asks[1].dir)
           /\ r.kind = "forget" => ~Uses(request[u], r.asks[1].dir)
      /\ CASE r.kind \in {"path", "open"} -> ask[1].dir \in Nodes
           [] r.kind = "unlink" -> Known(ask[1].dir) /\ old # None
           [] r.kind = "rename" -> /\ Known(ask[1].dir) /\ Known(ask[2].dir) /\ old # None
                                   /\ old # new /\ old \notin Above(ask[2].dir)
                                   /\ new \notin Above(ask[1].dir)
                                   /\ new # None => (old \in Dirs <=> new \in Dirs)
           [] r.kind = "link" -> /\ Known(ask[1].dir) /\ Known(ask[2].dir)
                                 /\ Lookup(ask[2].dir, ask[2].name) = None
           [] OTHER -> Known(ask[1].dir) /\ Empty(ask[1].dir)
-----------------------------------------------------------------------------
(***************************************************************************)
(* The operations.                                                         *)
(***************************************************************************)

(* get_path_common and get_path2: both paths at once, or none of them and  *)
(* the thread waits.                                                       *)
GetPath(t, r) ==
  /\ stage[t] = "idle" /\ r.kind # "forget" /\ Sends(r)
  /\ request' = [request EXCEPT ![t] = r]
  /\ LET one == TryGetPath(treelock, r.asks[1])
         two == IF Len(r.asks) = 2 /\ one.err = "ok" THEN TryGetPath(one.tl, r.asks[2])
                                                     ELSE [one EXCEPT !.path = NotLocked]
     IN  CASE two.err = "ok" ->
                /\ treelock' = two.tl /\ got' = [got EXCEPT ![t] = Both(one.path, two.path)]
                /\ stage' = [stage EXCEPT ![t] = "held"]
                /\ UNCHANGED <<lockq, verdict>>
           [] two.err = "again" ->
                /\ treelock' = IF one.err = "ok" THEN UnlockPath(two.tl, r.asks[1], one.path)
                                                 ELSE two.tl
                /\ lockq' = Append(lockq, t) /\ stage' = [stage EXCEPT ![t] = "wait"]
                /\ verdict' = [verdict EXCEPT ![t] = "again"]
                /\ UNCHANGED got
           [] OTHER ->
                /\ treelock' = IF one.err = "ok" THEN UnlockPath(two.tl, r.asks[1], one.path)
                                                 ELSE two.tl
                /\ stage' = [stage EXCEPT ![t] = "failed"]
                /\ UNCHANGED <<lockq, got, verdict>>
  /\ UNCHANGED place

(* wait_path returns: the element leaves the queue.                        *)
WaitPath(t) ==
  /\ stage[t] = "wait" /\ request[t].kind # "forget" /\ verdict[t] # "again"
  /\ lockq' = Dequeued(t)
  /\ stage' = [stage EXCEPT ![t] = IF verdict[t] = "ok" THEN "held" ELSE "failed"]
  /\ UNCHANGED <<place, treelock, request, got, verdict>>

Done(t) == /\ stage' = [stage EXCEPT ![t] = "idle"]
           /\ request' = [request EXCEPT ![t] = Idle]

(* The error is the reply.                                                 *)
ReplyError(t) ==
  /\ stage[t] = "failed" /\ Done(t)
  /\ UNCHANGED <<place, treelock, lockq, got, verdict>>

(* remove_node: the file system has removed the entry.                     *)
RemoveNode(t) ==
  /\ stage[t] = "held" /\ request[t].kind = "unlink"
  /\ LET w == Lookup(request[t].asks[1].dir, request[t].asks[1].name)
     IN  /\ w # None => Empty(w)
         /\ place' = [n \in Nodes |-> IF n = w THEN Nowhere ELSE place[n]]
  /\ stage' = [stage EXCEPT ![t] = "done"]
  /\ UNCHANGED <<treelock, lockq, request, got, verdict>>

(* rename_node: what was there before is unhashed.                         *)
RenameNode(t) ==
  /\ stage[t] = "held" /\ request[t].kind = "rename"
  /\ LET to  == request[t].asks[2]
         old == Lookup(request[t].asks[1].dir, request[t].asks[1].name)
         new == Lookup(to.dir, to.name)
     IN  /\ new # None => Empty(new)
         /\ place' = [n \in Nodes |->
                        IF old = None THEN place[n]
                        ELSE IF n = old THEN [dir |-> to.dir, name |-> to.name]
                        ELSE IF n = new THEN Nowhere ELSE place[n]]
  /\ stage' = [stage EXCEPT ![t] = "done"]
  /\ UNCHANGED <<treelock, lockq, request, got, verdict>>

(* The reply to an open leaves before its path is freed, so the kernel may *)
(* forget the node meanwhile.                                              *)
ReplyOpen(t) ==
  /\ stage[t] = "held" /\ request[t].kind = "open"
  /\ stage' = [stage EXCEPT ![t] = "replied"]
  /\ UNCHANGED <<place, treelock, lockq, request, got, verdict>>

(* free_path and free_path2, after the file system failed or the tree was  *)
(* changed; who waits is tried again.                                      *)
FreePath(t) ==
  /\ \/ stage[t] \in {"done", "replied"}
     \/ stage[t] = "held" /\ request[t].kind # "open"
  /\ SetLocks(WakeUpQueued(Release(Locks, t)))
  /\ Done(t)
  /\ UNCHANGED <<place, lockq>>

(* forget_node on a node of which nothing is left in the kernel.           *)
ForgetNode(t, r) ==
  /\ stage[t] = "idle" /\ r.kind = "forget" /\ Sends(r)
  /\ LET n == r.asks[1].dir
     IN  IF treelock[n] = 0
         THEN place' = [place EXCEPT ![n] = Nowhere] /\ UNCHANGED <<lockq, request, stage, verdict>>
         ELSE /\ lockq' = Append(lockq, t) /\ request' = [request EXCEPT ![t] = r]
              /\ stage' = [stage EXCEPT ![t] = "wait"] /\ verdict' = [verdict EXCEPT ![t] = "again"]
              /\ UNCHANGED place
  /\ UNCHANGED <<treelock, got>>

(* Its condition was signalled; it is tested again.                        *)
ForgetWoken(t) ==
  /\ stage[t] = "wait" /\ request[t].kind = "forget" /\ verdict[t] = "ok"
  /\ LET n == request[t].asks[1].dir
     IN  IF treelock[n] = 0
         THEN /\ place' = [place EXCEPT ![n] = Nowhere]
              /\ lockq' = Dequeued(t)
              /\ Done(t) /\ UNCHANGED verdict
         ELSE /\ verdict' = [verdict EXCEPT ![t] = "again"]
              /\ UNCHANGED <<place, lockq, request, stage>>
  /\ UNCHANGED <<treelock, got>>
-----------------------------------------------------------------------------
Step(t) == \/ WaitPath(t) \/ ReplyError(t) \/ RemoveNode(t) \/ RenameNode(t)
           \/ ReplyOpen(t) \/ FreePath(t) \/ ForgetWoken(t)

Next == \E t \in Threads : Step(t) \/ \E r \in Requests : GetPath(t, r) \/ ForgetNode(t, r)

(* The file system answers, and the threads run. That t goes on is said of *)
(* stage alone: it is what every step of t but the waits changes.         *)
GoesOn(t) ==
  /\ stage[t] \in {"held", "done", "replied", "failed"}
  /\ \E next \in {"done", "replied", "idle"} \ {stage[t]} : stage' = [stage EXCEPT ![t] = next]

Fairness == \A t \in Threads :
              WF_stage(GoesOn(t)) /\ WF_vars(WaitPath(t)) /\ WF_vars(ForgetWoken(t))

Spec == Init /\ [][Next]_vars /\ Fairness
=============================================================================
