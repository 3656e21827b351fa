------------------------------ MODULE KvfsProps ------------------------------
(***************************************************************************)
(* The properties of the file system of hw4.                               *)
(***************************************************************************)
EXTENDS Kvfs

Content(f) == [k \in 1 .. f.size |-> f.data[k - 1]]
Tree(table) == [n \in {f.name : f \in ToSet(table)} |->
                  Content(table[Lookup(table, n)])]

(***************************************************************************)
(* Each handler changes the file it is asked to change and no other:       *)
(* unlink's shift of the table and rename's edit leave every other name    *)
(* with its own content.                                                   *)
(***************************************************************************)
TouchesOne ==
  pc = "ready" /\ files' # files => \A n \in Names :
    LET others == (DOMAIN Tree(files) \cup DOMAIN Tree(files')) \ {n} IN
    /\ Unlink(n) => Tree(files') = Restrict(Tree(files), others)
    /\ (\E off \in 0 .. MaxData, buf \in Buffers : Write(n, off, buf)) =>
         Restrict(Tree(files'), others) = Restrict(Tree(files), others)
    /\ \A m \in Names : Rename(n, m) =>
         /\ Tree(files')[m] = Tree(files)[n]
         /\ Restrict(Tree(files'), others \ {m}) = Restrict(Tree(files), others \ {m})
OthersUntouched == [][TouchesOne]_vars

(***************************************************************************)
(* When nobody has a file open and no save is under way, every byte that   *)
(* was ever written to a file that still exists is on disk: the flush that *)
(* comes with each close suffices, though another user's writes and closes *)
(* may fall in between. Only files no one has written yet may be missing, and  *)
(* a removed file comes back only if the removal's save was interrupted.   *)
(* (With a disk that fills up, this can be asked only after a save that    *)
(* came through.)                                                          *)
(***************************************************************************)
AllSaved ==
  \A n \in DOMAIN Tree(files) :
    Tree(files)[n] # <<>> => n \in DOMAIN Tree(last) /\ Tree(last)[n] = Tree(files)[n]
ClosedMeansSaved ==
  pc = "ready" /\ open = 0 /\ ~(DiskFull /\ torn) =>
    /\ AllSaved
    /\ ~torn => DOMAIN Tree(last) \subseteq DOMAIN Tree(files)

(***************************************************************************)
(* A read of a whole file from its start gives its content, no byte more   *)
(* and none less, whatever was written to it in which pieces: whether the  *)
(* size that getattr gave is asked for or, as the kernel does, a page.     *)
(***************************************************************************)
ReadsWhole == \A n \in DOMAIN Tree(files), len \in {0, MaxData - 1} :
                ReadReply(n, GetattrSize(n) + len, 0) = Tree(files)[n]

(***************************************************************************)
(* The table, its saves and its mounts implement a flat directory. So,     *)
(* wherever a save was interrupted, a mount finds the last complete save,  *)
(* or, after a save that was not completed, nothing, or it refuses: never  *)
(* a mixture of two tables.                                                *)
(***************************************************************************)
Flat == INSTANCE FlatFiles WITH
  Contents <- UNION {[1 .. k -> Bytes \cup {Junk}] : k \in 0 .. MaxData},
  Empty <- <<>>,
  state <- IF pc \in {"unmounted", "format", "extend"} THEN "down"
           ELSE IF pc = "refused" THEN "refused" ELSE "up",
  tree <- Tree(files), saved <- Tree(last)
ImplementsFlatFiles == Flat!Spec

-----------------------------------------------------------------------------
(***************************************************************************)
(* The inductive invariant, when nobody renames a file onto another.       *)
(***************************************************************************)

(* Tables have no name twice.                                              *)
FileNodes == [name : Names, data : Data, size : 0 .. MaxData, time : Times]
Tables == {t \in Seq(FileNodes) : \A i, j \in DOMAIN t : t[i].name = t[j].name => i = j}
TypeOK ==
  /\ pc \in {"unmounted", "refused", "format", "extend", "ready", "count", "nodes"}
  /\ files \in Tables /\ last \in Tables
  /\ disk \in [exists : BOOLEAN, count : Nat \cup {NoCount}, nodes : Seq(FileNodes),
               padded : BOOLEAN]
  /\ open \in Nat /\ flushed \in Nat /\ torn \in BOOLEAN

(* What a mount would find: the last complete save, or nothing or an error *)
(* once a later save was begun.                                            *)
LoadInv == IF torn THEN Loaded(disk) \subseteq {<<>>} ELSE Loaded(disk) = {last}

(* How far a save or the making of .superblock has come.                   *)
StepInv ==
  /\ pc \in {"count", "nodes"} => torn /\ disk.nodes = <<>>
  /\ pc = "count" => disk.count = NoCount
  /\ pc = "nodes" => disk.count = Len(files) \/ (DiskFull /\ disk.count = NoCount)
  /\ pc \in {"unmounted", "refused", "format", "extend"} => files = <<>>
  /\ pc \in {"format", "extend"} \/ ~disk.exists => last = <<>> /\ ~torn
  /\ ~disk.exists => pc = "unmounted"

(* What is on disk of the files that nobody has open.                      *)
SavedInv ==
  pc = "ready" =>
    /\ open = 0 => AllSaved \/ (DiskFull /\ torn)
    /\ ~torn => DOMAIN Tree(last) \subseteq DOMAIN Tree(files)

IInv == TypeOK /\ LoadInv /\ StepInv /\ SavedInv

-----------------------------------------------------------------------------
(* What the code itself says, and does not do.                             *)

(* The checks of write_superblock mean to stop the daemon when .superblock *)
(* was not written in full: a handler never returns after such a save.     *)
SavedInFull == pc = "ready" => ~torn
=============================================================================
