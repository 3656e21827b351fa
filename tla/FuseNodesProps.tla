---------------------------- MODULE FuseNodesProps -----------------------------
(***************************************************************************)
(* The properties of the nodes of libfuse.                                 *)
(***************************************************************************)
EXTENDS FuseNodes

Alive == {n \in Ids : node[n].is}
Holding(n) == {t \in Threads : Busy(t) /\ work[t].found = n /\ work[t].pc # "idle"
                                 /\ ~(work[t].kind = "create" /\ work[t].pc = "free")}

(***************************************************************************)
(* A node lives exactly as long as something needs it: refctr counts its   *)
(* children and, once, the lookups; nlookup counts what the kernel has and *)
(* what replies are about to give it, and one for remember. So get_node,   *)
(* which aborts the process for an id it does not find, always finds what  *)
(* the kernel or a thread means, and the assertions of forget_node and     *)
(* delete_node hold.                                                       *)
(***************************************************************************)
Children(n) == Cardinality({m \in Alive : node[m].name # None /\ node[m].dir = n})
NodesCounted ==
  /\ \A n \in Alive :
       /\ node[n].refctr = Children(n) + (IF node[n].nlookup > 0 THEN 1 ELSE 0)
       /\ node[n].nlookup = known[n] + Cardinality(Holding(n))
                            + (IF mode.remember /\ node[n].name # None THEN 1 ELSE 0)
       /\ node[n].refctr > 0 /\ node[n].open >= 0
  /\ \A n \in Ids : known[n] > 0 \/ Holding(n) # {} => n \in Alive
  /\ \A t \in Threads : Locks(t) \subseteq Alive

(***************************************************************************)
(* A file keeps its node and a node its file: while nobody is changing it, *)
(* the path of a node leads to the file as which the kernel got to know    *)
(* the node. Only a hidden file may be gone, once release has decided so.  *)
(* And a node keeps its path as long as the kernel has it open.            *)
(***************************************************************************)
Changing(n) == \E t \in Threads : Busy(t) /\ (n \in work[t].write \/ node[n].dir \in work[t].write)
SameFile ==
  /\ \A n \in inodes :
       (HasPath(n) /\ ~Changing(n)) =>
          \/ Resolve(PathOf(n)) = file[n]
          \/ node[n].name \in Range(Hidden) /\ ~node[n].hidden
  /\ \A h \in Handles :
       LET n == handle[h].node
       IN  n # None => /\ handle[h].obj = file[n]
                       /\ HasPath(n) \/ Changing(n) \/ mode.hardRemove

(***************************************************************************)
(* fuse_do_release decides that a hidden file may be removed only when the *)
(* kernel has no handle of it any more.                                    *)
(***************************************************************************)
HiddenUntilReleased ==
  [][\A n \in Ids : (node[n].hidden /\ ~node'[n].hidden) => \A h \in Handles : handle[h].node # n]_vars

(***************************************************************************)
(* README 210: a file that is removed while it is open is renamed to a     *)
(* hidden one, which is only removed when the file is finally released. So *)
(* an open file is somewhere in the file system.                           *)
(***************************************************************************)
OpenStays == \A h \in Handles : handle[h] # Closed => Linked(handle[h].obj)
=============================================================================
