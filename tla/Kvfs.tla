--------------------------------- MODULE Kvfs ---------------------------------
(***************************************************************************)
(* The file system of hw4/kvfs.c, mounted with -s: the handlers run one at *)
(* a time. The table of files lives in memory; the file .superblock next   *)
(* to the mount point holds the number of entries and then the entries.    *)
(*                                                                         *)
(* A handler that only changes the table is one action. A save takes three *)
(* system calls and the daemon may die between any two of them, so it is   *)
(* three actions: clear_superblock (O_TRUNC), the write of the count, and  *)
(* the write of the entries.                                               *)
(*                                                                         *)
(* Each definition whose comment starts with "Fault" is a faulty variant of *)
(* the definition after it, with which a property must fail to hold.       *)
(***************************************************************************)
EXTENDS Integers, SequencesExt

CONSTANTS
  Names,       (* Path names, each shorter than NAME_SIZE.                  *)
  Bytes,       (* The bytes users write.                                    *)
  Junk,        (* A byte nobody wrote: mknod's fnode is on the stack.       *)
  Times,       (* Time stamps.                                              *)
  MaxData,     (* DATA_SIZE - METADATASIZE.                                 *)
  MaxFiles,    (* Bound on the files that exist at a time.                  *)
  MaxOpen,     (* Bound on the open files.                                  *)
  Holes,       (* May users seek past the end of a file and write there?    *)
  RenameOnto,  (* May users rename a file onto one that exists?             *)
  DiskFull,    (* May the disk that holds .superblock fill up?              *)
  Crashes      (* May the daemon be killed?                                 *)

ASSUME KvfsAssumption ==
  /\ Junk \notin Bytes
  /\ MaxData \in Nat /\ MaxFiles \in Nat /\ MaxOpen \in Nat
  /\ {Holes, RenameOnto, DiskFull, Crashes} \subseteq BOOLEAN

VARIABLES
  pc,       (* What the daemon is about to do.                              *)
  files,    (* kvfs->data[0 .. size-1].                                     *)
  disk,     (* The file .superblock.                                        *)
  open,     (* Open descriptors of users: writes come through them.         *)
  flushed,  (* Descriptors closed and flushed whose release is to come.     *)
  last,     (* History: the table the last complete save wrote.             *)
  torn      (* History: the file was cleared and no save completed since.   *)

vars == <<pc, files, disk, open, flushed, last, torn>>
handles == <<open, flushed>>

Data == [0 .. MaxData - 1 -> Bytes \cup {Junk}]

(***************************************************************************)
(* .superblock: its count (-1 when the file is too short to hold one), the *)
(* entries that are there in full, and whether it is as long as kvfs_init  *)
(* made it. Reading -1 leaves num_files = 0.                               *)
(***************************************************************************)
NoCount == -1
Cleared == [exists |-> TRUE, count |-> NoCount, nodes |-> <<>>, padded |-> FALSE]
Garbage == MaxFiles + 1   (* The first bytes of a name, read as a count.    *)

Init ==
  /\ pc = "unmounted" /\ files = <<>>
  /\ disk = [Cleared EXCEPT !.exists = FALSE]
  /\ open = 0 /\ flushed = 0
  /\ last = <<>> /\ torn = FALSE

-----------------------------------------------------------------------------
(* lookup: the first entry with the name, 0 when there is none.            *)
Lookup(table, n) == SelectInSeq(table, LAMBDA f : f.name = n)

(* write(2) at an offset: the entries beyond what is written stay.         *)
Overlay(old, new) == new \o SubSeq(old, Len(new) + 1, Len(old))

(* memcpy(data + METADATASIZE + off, buf, size).                           *)
Patch(data, off, buf) ==
  [i \in DOMAIN data |-> IF i \in off .. off + Len(buf) - 1
                         THEN buf[i - off + 1] ELSE data[i]]
-----------------------------------------------------------------------------
(* kvfs_init. Without a .superblock one is made in three system calls;     *)
(* with one, it is read.                                                   *)
Format ==
  /\ pc \in {"unmounted", "refused"} /\ ~disk.exists
  /\ disk' = Cleared /\ pc' = "format"
  /\ UNCHANGED <<files, handles, last, torn>>

FormatCount ==
  /\ pc = "format"
  /\ disk' = [disk EXCEPT !.count = 0] /\ pc' = "extend"
  /\ UNCHANGED <<files, handles, last, torn>>

FormatExtend ==
  /\ pc = "extend"
  /\ disk' = [disk EXCEPT !.padded = TRUE] /\ pc' = "ready"
  /\ UNCHANGED <<files, handles, last, torn>>

(* read_superblock: the table a mount takes from the file, {} when it      *)
(* exits because an entry is missing ("corrupt superblock").               *)
Loaded(d) == IF d.count = NoCount THEN {<<>>}
             ELSE IF d.count > Len(d.nodes) THEN {}
             ELSE {SubSeq(d.nodes, 1, d.count)}

Mount ==
  /\ pc \in {"unmounted", "refused"} /\ disk.exists
  /\ \/ Loaded(disk) = {} /\ pc' = "refused" /\ files' = <<>>
     \/ files' \in Loaded(disk) /\ pc' = "ready"
  /\ UNCHANGED <<disk, handles, last, torn>>
-----------------------------------------------------------------------------
(* Fault: the file is opened without O_TRUNC.                              *)
ClearNothing == disk' = disk

(* clear_superblock, the first step of every save.                         *)
ClearSuperblock == disk' = Cleared

BeginSave == ClearSuperblock /\ torn' = TRUE /\ pc' = "count"

(***************************************************************************)
(* write_superblock. Its tests of what write returned, "!write_sz == n",   *)
(* are never true: a write that failed or came up short goes unnoticed,    *)
(* and after a count that was not written the entries land in its place.   *)
(***************************************************************************)
WriteCount ==
  /\ pc = "count" /\ pc' = "nodes"
  /\ \/ disk' = [disk EXCEPT !.count = Len(files)]
     \/ DiskFull /\ UNCHANGED disk
  /\ UNCHANGED <<files, handles, last, torn>>

Written(k) ==
  IF disk.count # NoCount
  THEN [disk EXCEPT !.nodes = Overlay(@, SubSeq(files, 1, k))]
  ELSE IF k = 0 THEN disk ELSE [disk EXCEPT !.count = Garbage]

WriteNodes ==
  /\ pc = "nodes" /\ pc' = "ready"
  /\ \E k \in IF DiskFull THEN 0 .. Len(files) ELSE {Len(files)} :
       /\ disk' = Written(k)
       /\ IF disk.count # NoCount /\ k = Len(files)
          THEN last' = files /\ torn' = FALSE
          ELSE UNCHANGED <<last, torn>>
  /\ UNCHANGED <<files, handles>>
-----------------------------------------------------------------------------
(* kvfs_mknod. The kernel asks for it only when the name was not found.    *)
NewNode(n, t) == [name |-> n, data |-> [i \in 0 .. MaxData - 1 |-> Junk],
                  size |-> 0, time |-> t]

Mknod(n, t) ==
  /\ pc = "ready" /\ Len(files) < MaxFiles
  /\ Lookup(files, n) = 0
  /\ files' = Append(files, NewNode(n, t))
  /\ UNCHANGED <<pc, disk, handles, last, torn>>

(* kvfs_open: -EACCES, and no open file, when the name is not found.       *)
Open(n) ==
  /\ pc = "ready" /\ open + flushed < MaxOpen
  /\ Lookup(files, n) # 0
  /\ open' = open + 1
  /\ UNCHANGED <<pc, files, disk, flushed, last, torn>>

(* kvfs_write. It returns 0, and writes nothing, when the bytes do not fit *)
(* or the name is not found.                                               *)
WriteReply(n, off, buf) ==
  IF off + Len(buf) > MaxData \/ Lookup(files, n) = 0 THEN 0 ELSE Len(buf)

(* memcpy, and the new st_size: where this write ends.                     *)
Rewritten(f, off, buf) ==
  [f EXCEPT !.data = Patch(@, off, buf), !.size = off + Len(buf)]

Write(n, off, buf) ==
  /\ pc = "ready" /\ open > 0
  /\ LET i == Lookup(files, n) IN
       /\ ~Holes /\ i # 0 => off <= files[i].size
       /\ IF WriteReply(n, off, buf) = 0 THEN UNCHANGED files
          ELSE files' = [files EXCEPT ![i] = Rewritten(@, off, buf)]
  /\ UNCHANGED <<pc, disk, handles, last, torn>>

(* kvfs_utimens.                                                           *)
Utimens(n, t) ==
  /\ pc = "ready" /\ Lookup(files, n) # 0
  /\ files' = [files EXCEPT ![Lookup(files, n)].time = t]
  /\ UNCHANGED <<pc, disk, handles, last, torn>>

(* Fault: the entries move up one place late.                              *)
RemoveNext(table, i) == RemoveAt(table, IF i < Len(table) THEN i + 1 ELSE i)

(* kvfs_unlink: the entries after the first with the name move up.         *)
RemoveEntry(table, i) == RemoveAt(table, i)

Unlink(n) ==
  /\ pc = "ready" /\ Lookup(files, n) # 0
  /\ files' = RemoveEntry(files, Lookup(files, n))
  /\ BeginSave
  /\ UNCHANGED <<handles, last>>

(* kvfs_rename. An entry that has the new name already stays where it is.  *)
Rename(n, m) ==
  /\ pc = "ready" /\ n # m
  /\ Lookup(files, n) # 0 /\ (RenameOnto \/ Lookup(files, m) = 0)
  /\ files' = [files EXCEPT ![Lookup(files, n)].name = m]
  /\ BeginSave
  /\ UNCHANGED <<handles, last>>

(* Fault: nothing is saved when a descriptor is closed.                    *)
FlushNothing ==
  /\ pc = "ready" /\ open > 0
  /\ \/ open' = open - 1 /\ flushed' = flushed + 1
     \/ UNCHANGED handles
  /\ UNCHANGED <<pc, files, disk, last, torn>>

(* kvfs_flush: a descriptor is closed, the last of its open file or not.   *)
Flush ==
  /\ pc = "ready" /\ open > 0
  /\ \/ open' = open - 1 /\ flushed' = flushed + 1
     \/ UNCHANGED handles
  /\ BeginSave
  /\ UNCHANGED <<files, last>>

(* kvfs_release does nothing.                                              *)
Release ==
  /\ pc = "ready" /\ flushed > 0 /\ flushed' = flushed - 1
  /\ UNCHANGED <<pc, files, disk, open, last, torn>>
-----------------------------------------------------------------------------
(* There is no destroy handler: unmounting saves nothing. fusermount -u    *)
(* succeeds only when no file is open.                                     *)
Unmount ==
  /\ pc = "ready" /\ open = 0 /\ flushed = 0
  /\ pc' = "unmounted" /\ files' = <<>>
  /\ UNCHANGED <<disk, handles, last, torn>>

(* The daemon is killed.                                                   *)
Crash ==
  /\ Crashes /\ pc \notin {"unmounted", "refused"}
  /\ pc' = "unmounted" /\ files' = <<>> /\ open' = 0 /\ flushed' = 0
  /\ UNCHANGED <<disk, last, torn>>
-----------------------------------------------------------------------------
(* The handlers that change nothing, by what they answer.                  *)

(* kvfs_getattr: the size in the answer, -1 for -ENOENT.                   *)
GetattrSize(n) == IF Lookup(files, n) = 0 THEN -1 ELSE files[Lookup(files, n)].size

(* Fault: the size of the file does not limit the copy.                    *)
CopySizeUnlimited(f, len, off) == IF MaxData < off + len THEN MaxData - off ELSE len

(* kvfs_read. An offset beyond the data makes the unsigned difference      *)
(* huge, and st_size is all that limits the copy.                          *)
CopySize(f, len, off) ==
  LET room == IF MaxData >= off + len THEN len
              ELSE IF off > MaxData THEN f.size ELSE MaxData - off
  IN IF room > f.size THEN f.size ELSE room

ReadReply(n, len, off) ==
  IF Lookup(files, n) = 0 THEN <<>>
  ELSE LET f == files[Lookup(files, n)] IN
       [k \in 1 .. CopySize(f, len, off) |->
          IF off + k - 1 < MaxData THEN f.data[off + k - 1] ELSE Junk]
-----------------------------------------------------------------------------
Buffers == UNION {[1 .. k -> Bytes] : k \in 1 .. MaxData + 1}

Next ==
  \/ Format \/ FormatCount \/ FormatExtend \/ Mount
  \/ WriteCount \/ WriteNodes
  \/ \E n \in Names, t \in Times : Mknod(n, t) \/ Utimens(n, t)
  \/ \E n \in Names : Open(n) \/ Unlink(n)
  \/ \E n, m \in Names : Rename(n, m)
  \/ \E n \in Names, off \in 0 .. MaxData, buf \in Buffers : Write(n, off, buf)
  \/ Flush \/ Release \/ Unmount \/ Crash

Spec == Init /\ [][Next]_vars
=============================================================================
