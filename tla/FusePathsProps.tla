---------------------------- MODULE FusePathsProps ----------------------------
(***************************************************************************)
(* The properties of the path locks of libfuse.                            *)
(***************************************************************************)
EXTENDS FusePaths

Holding == {x \in Threads \X {1, 2} : got[x[1]][x[2]].locked}
Ask(x) == request[x[1]].asks[x[2]]
Path(x) == got[x[1]][x[2]]

(***************************************************************************)
(* While the file system works on a path, the path leads to the node it    *)
(* was computed for: nothing above it, and nothing it locked for writing,  *)
(* is renamed, removed or forgotten by another thread.                     *)
(***************************************************************************)
PathsHold ==
  \A x \in Holding :
    /\ Trail(Ask(x).dir) = Path(x).chain
    /\ (Ask(x).write /\ stage[x[1]] # "done") => Lookup(Ask(x).dir, Ask(x).name) = Path(x).wnode

(***************************************************************************)
(* Each treelock counts exactly the paths that go through its node; a node *)
(* locked for writing has one owner and no reader; and the mark of a       *)
(* waiting writer is there only as long as there are readers.              *)
(***************************************************************************)
Readers(n) == Cardinality({x \in Holding : n \in DOMAIN Path(x).chain})
Writers(n) == Cardinality({x \in Holding : Path(x).wnode = n})
LocksExact ==
  \A n \in Nodes :
    \/ Writers(n) = 1 /\ Readers(n) = 0 /\ treelock[n] = Write
    \/ Writers(n) = 0 /\ treelock[n] = Readers(n)
    \/ Writers(n) = 0 /\ Readers(n) > 0 /\ treelock[n] = Readers(n) + WaitOffset

(***************************************************************************)
(* Both.                                                                   *)
(***************************************************************************)
PathsSound == PathsHold /\ LocksExact

(***************************************************************************)
(* The first element of the queue holds one of its paths and waits for the *)
(* other one, on which a writer behind it has left its mark because of the *)
(* very path that the first element holds.                                 *)
(***************************************************************************)
FirstBlocksItself ==
  /\ lockq # <<>>
  /\ \E i \in {1, 2} : LET path == got[Head(lockq)][i]
                        IN  path.locked /\ \E n \in DOMAIN path.chain : treelock[n] < 0

(***************************************************************************)
(* Whoever waits in the queue gets its path or an error, whatever requests *)
(* keep coming: writers do not starve and no wakeup is lost. The one way   *)
(* to wait for ever is that the first element blocks itself for ever.      *)
(***************************************************************************)
ServedOrBlocked ==
  \A t \in Threads : <>[](stage[t] = "wait") => <>[]FirstBlocksItself

(***************************************************************************)
(* That the first element may be locked in part lets it not starve, says   *)
(* the comment in queue_element_wakeup: whoever waits is served.           *)
(***************************************************************************)
EveryoneServed == \A t \in Threads : stage[t] = "wait" ~> stage[t] # "wait"
-----------------------------------------------------------------------------
(***************************************************************************)
(* What every step keeps, and PathsSound rests on. The values first.       *)
(***************************************************************************)
PathRecs ==
  [chain : UNION {[S -> Spots \cup {Nowhere}] : S \in SUBSET Nodes},
   wnode : Nodes \cup {None}, locked : BOOLEAN]
PathsTypes ==
  /\ place \in [Nodes -> Spots \cup {Nowhere}]
  /\ treelock \in [Nodes -> Int] /\ lockq \in Seq(Threads)
  /\ request \in [Threads -> Requests \cup {Idle}]
  /\ stage \in [Threads -> {"idle", "wait", "held", "done", "replied", "failed"}]
  /\ got \in [Threads -> [{1, 2} -> PathRecs]]
  /\ verdict \in [Threads -> {"again", "ok", "noent"}]

(* The treelocks are what the paths g add up to.                           *)
GotOf(g) == {x \in Threads \X {1, 2} : g[x[1]][x[2]].locked}
Reading(g, n) == {x \in GotOf(g) : n \in DOMAIN g[x[1]][x[2]].chain}
Writing(g, n) == {x \in GotOf(g) : g[x[1]][x[2]].wnode = n}
TreelocksTrue(tl, g) ==
  \A n \in Nodes :
    \/ Cardinality(Writing(g, n)) = 1 /\ Reading(g, n) = {} /\ tl[n] = Write
    \/ Writing(g, n) = {} /\ tl[n] = Cardinality(Reading(g, n))
    \/ /\ Writing(g, n) = {} /\ Reading(g, n) # {}
       /\ tl[n] = Cardinality(Reading(g, n)) + WaitOffset

(* A path that is held is whole and leads where it led when it was locked; *)
(* a node locked for writing is the one that its request names or, once    *)
(* unlink or rename are done, is gone or at one of the entries they name.  *)
Spot(a) == [dir |-> a.dir, name |-> a.name]
Unbroken(d) == \A n \in Above(d) : place[n] # Nowhere
HeldTrue(q, t, i, path) ==
  /\ i \in DOMAIN q[t].asks
  /\ path.chain = Trail(q[t].asks[i].dir) /\ Unbroken(q[t].asks[i].dir)
  /\ path.wnode # None => q[t].asks[i].write
  /\ IF stage[t] = "done"
     THEN path.wnode # None => \/ place[path.wnode] = Nowhere
                               \/ \E j \in DOMAIN q[t].asks : place[path.wnode] = Spot(q[t].asks[j])
     ELSE q[t].asks[i].write => path.wnode = Lookup(q[t].asks[i].dir, q[t].asks[i].name)
PathsTrue(g, q) ==
  \A t \in Threads, i \in {1, 2} :
    IF g[t][i].locked THEN HeldTrue(q, t, i, g[t][i]) ELSE g[t][i] = NotLocked

(* What a request holds at each of its stages: all of its paths when the   *)
(* file system works on them, none when it failed; and who gave up with    *)
(* ENOENT was right, for a way that is broken stays broken.                *)
Whole(g, q, t) == \A i \in DOMAIN q[t].asks : g[t][i].locked
Nothing(g, t) == ~g[t][1].locked /\ ~g[t][2].locked
VerdictTrue(g, q, v, t) ==
  /\ q[t].kind = "forget" => Nothing(g, t)
  /\ q[t].kind # "forget" /\ v[t] = "ok" => Whole(g, q, t)
  /\ v[t] = "noent" => /\ Nothing(g, t)
                       /\ \E i \in DOMAIN q[t].asks : ~Unbroken(q[t].asks[i].dir)
StageTrue(t) ==
  /\ stage[t] = "idle" <=> request[t] = Idle
  /\ stage[t] \in {"idle", "failed"} => Nothing(got, t)
  /\ stage[t] \in {"held", "done", "replied"} => Whole(got, request, t) /\ request[t].kind # "forget"
  /\ stage[t] = "wait" => VerdictTrue(got, request, verdict, t)
  /\ stage[t] = "replied" => request[t].kind = "open"
  /\ stage[t] = "done" => request[t].kind \in {"unlink", "rename"}
(* In the queue is who waits, and once.                                    *)
QueueTrue ==
  /\ \A i, j \in DOMAIN lockq : lockq[i] = lockq[j] => i = j
  /\ \A t \in Threads : stage[t] = "wait" <=> \E i \in DOMAIN lockq : lockq[i] = t
(* The kernel holds the mutexes of the directories that unlink and rename  *)
(* change, so that no two of these share one.                              *)
Changes(r) == r.kind \in {"unlink", "rename"}
MutexTrue ==
  \A t, u \in Threads : t # u /\ Changes(request[t]) /\ Changes(request[u]) =>
    \A i \in DOMAIN request[t].asks, j \in DOMAIN request[u].asks :
      request[t].asks[i].dir # request[u].asks[j].dir

PathsInv ==
  /\ PathsTypes /\ IsTree(place) /\ PathsTrue(got, request) /\ TreelocksTrue(treelock, got)
  /\ QueueTrue /\ MutexTrue /\ \A t \in Threads : StageTrue(t)
=============================================================================
