------------------------------- MODULE FuseDir --------------------------------
(***************************************************************************)
(* One open directory of libfuse (lib/fuse.c): struct fuse_dh, filled by   *)
(* fill_dir and read in pieces. A file system either passes offset 0 for   *)
(* each entry, and all of the directory is kept in the handle until it is  *)
(* rewound, or passes the offset of the next entry, and each request asks  *)
(* it again. Positions in the first mode are bytes of the kept contents.   *)
(*                                                                         *)
(* Inode numbers and types of entries are left out. The kernel sends one   *)
(* request for a directory at a time.                                      *)
(***************************************************************************)
EXTENDS Integers, Sequences, FiniteSets, Functions

CONSTANTS
  Entries,     (* The names a directory may hold, in the order of the file   *)
               (* system: a sequence. Their places are its offsets.          *)
  EntrySize,   (* EntrySize[n]: fuse_dirent_size of the name, in words.      *)
  ReadSize,    (* What the kernel asks for: a page.                          *)
  Chunk,       (* The first size of the contents: 1024 bytes.                *)
  Limits,      (* The sizes above which realloc may fail.                    *)
  SeeksAtEnd   (* Whether the reader may seek back after it met the end.     *)

ASSUME FuseDirAssumption ==
  /\ Entries \in Seq(Range(Entries)) /\ IsInjective(Entries) /\ Chunk \in Nat \ {0}
  /\ \A n \in Range(Entries) : EntrySize[n] \in 1..ReadSize
  /\ ReadSize \in Nat /\ Limits \subseteq Nat /\ SeeksAtEnd \in BOOLEAN

VARIABLES
  style,   (* "whole" or "offsets": what the file system passes.             *)
  present, (* The names in the directory of the file system.                 *)
  dh,      (* The handle: contents (entries with the position after each),   *)
           (* len (of these), size (of its memory), filled. ClosedDir if     *)
           (* there is none.                                                 *)
  pos,     (* The kernel's position in the directory.                        *)
  ended,   (* Whether the last read found no entry.                          *)
  seen,    (* The entries returned since the last rewind, up to pos.         *)
  stable,  (* The names that were present all the time since then.           *)
  ever     (* The names that were present at some time since then.           *)

dirvars == <<style, present, dh, pos, ended, seen, stable, ever>>

ClosedDir == [contents |-> <<>>, len |-> 0, size |-> -1, filled |-> FALSE]

DirInit ==
  /\ style \in {"whole", "offsets"} /\ present = Range(Entries) /\ dh = ClosedDir
  /\ pos = 0 /\ ended = FALSE /\ seen = <<>> /\ stable = {} /\ ever = {}
-----------------------------------------------------------------------------
Offset(n) == CHOOSE i \in DOMAIN Entries : Entries[i] = n

(* What start becomes when it is doubled k times, k <= min.                *)
Doubled(start, min) ==
  LET double[k \in 0..min] == IF k = 0 THEN start ELSE 2 * double[k - 1] IN double

(* The size to which extend_contents doubles, -1 if there is no memory.    *)
ExtendContents(size, min, memory) ==
  IF min <= size THEN size
  ELSE LET double == Doubled(IF size = 0 THEN Chunk ELSE size, min)
           new    == double[CHOOSE k \in 0..min : double[k] >= min /\ \A j \in 0..k - 1 : double[j] < min]
       IN  IF new > memory THEN -1 ELSE new

(* s.stop: the filler has returned 1, and the file system stops.           *)
FillDir(s, n, memory) ==
  LET newlen == s.len + EntrySize[n]
      size   == ExtendContents(s.size, IF style = "whole" THEN newlen ELSE ReadSize, memory)
      next   == IF style = "whole" THEN newlen ELSE Offset(n)
  IN  IF s.stop THEN s
      ELSE IF size = -1 THEN [s EXCEPT !.stop = TRUE, !.error = TRUE]
      ELSE IF style = "offsets" /\ newlen > ReadSize
      THEN [s EXCEPT !.size = size, !.filled = FALSE, !.stop = TRUE]
      ELSE [contents |-> Append(s.contents, [name |-> n, next |-> next]), len |-> newlen, size |-> size,
            filled |-> s.filled /\ style = "whole", stop |-> FALSE, error |-> FALSE]

(* What the file system passes to the filler.                              *)
Listed(i) == Entries[i] \in present /\ (style = "whole" \/ i > pos)

(* readdir_fill, when the file system has come to its entry k.             *)
Filled(memory) ==
  LET start == [contents |-> <<>>, len |-> 0, size |-> dh.size, filled |-> TRUE, stop |-> FALSE, error |-> FALSE]
      fill[k \in 0..Len(Entries)] ==
        IF k = 0 THEN start
        ELSE IF Listed(k) THEN FillDir(fill[k - 1], Entries[k], memory) ELSE fill[k - 1]
  IN  fill

(* The file system may fail after any entry, or there is no path.          *)
Fails(s) == [s EXCEPT !.error = TRUE]
NoPath == [contents |-> dh.contents, len |-> dh.len, size |-> dh.size, filled |-> TRUE, stop |-> FALSE, error |-> TRUE]
Fills ==
  {Filled(memory)[Len(Entries)] : memory \in Limits}
    \cup {Fails(Filled(memory)[k]) : memory \in Limits, k \in 0..Len(Entries)}
    \cup {NoPath}

(* The whole entries in the first bytes of the contents, as a number.      *)
Whole(contents, bytes) ==
  CHOOSE i \in 0..Len(contents) : /\ \A j \in 1..i : contents[j].next <= bytes
                                  /\ i = Len(contents) \/ contents[i + 1].next > bytes

(* Fault: a reply that is cut short ends with the kept contents.           *)
ReplyFromStart(s) == IF s.filled THEN SubSeq(s.contents, 1, Whole(s.contents, ReadSize)) ELSE s.contents

(* The whole entries in the reply: at most ReadSize bytes of the contents  *)
(* from the position, or all contents if they were made for it.            *)
ReplyBuf(s) ==
  IF ~s.filled THEN s.contents
  ELSE SubSeq(s.contents, Whole(s.contents, pos) + 1, Whole(s.contents, pos + ReadSize))
-----------------------------------------------------------------------------
Handle(s) == [contents |-> s.contents, len |-> s.len, size |-> s.size, filled |-> s.filled /\ ~s.error]

(* fuse_lib_opendir. The entry stays closed if memory, the path or the     *)
(* file system fails, or if the kernel no longer wants the reply.          *)
Opendir ==
  /\ dh = ClosedDir /\ dh' = [contents |-> <<>>, len |-> 0, size |-> 0, filled |-> FALSE]
  /\ pos' = 0 /\ ended' = FALSE /\ seen' = <<>> /\ stable' = present /\ ever' = present
  /\ UNCHANGED <<style, present>>

(* The kernel takes the first entries of a reply, as far as its caller has *)
(* room for them, and goes on behind them. No entry is the end.            *)
Receives(reply) ==
  IF reply = <<>> THEN ended' = TRUE /\ UNCHANGED <<pos, seen>>
  ELSE \E k \in 1..Len(reply) :
         pos' = reply[k].next /\ seen' = seen \o SubSeq(reply, 1, k) /\ ended' = FALSE

StaysFilled == dh.filled /\ pos # 0

(* fuse_lib_readdir                                                        *)
Readdir ==
  /\ dh # ClosedDir /\ ~ended
  /\ \/ StaysFilled /\ UNCHANGED dh /\ Receives(ReplyBuf(dh))
     \/ ~StaysFilled /\ \E s \in Fills :
          /\ dh' = Handle(s)
          /\ IF s.error THEN UNCHANGED <<pos, ended, seen>> ELSE Receives(ReplyBuf(s))
  /\ UNCHANGED <<style, present, stable, ever>>

(* rewinddir                                                               *)
Rewind ==
  /\ dh # ClosedDir /\ pos' = 0 /\ ended' = FALSE /\ seen' = <<>> /\ stable' = present /\ ever' = present
  /\ UNCHANGED <<style, present, dh>>

(* seekdir, to where telldir was after one of the entries.                 *)
Seek(i) ==
  /\ dh # ClosedDir /\ (ended => SeeksAtEnd)
  /\ pos' = seen[i].next /\ seen' = SubSeq(seen, 1, i) /\ ended' = FALSE
  /\ UNCHANGED <<style, present, dh, stable, ever>>

Releasedir ==
  /\ dh # ClosedDir /\ dh' = ClosedDir
  /\ pos' = 0 /\ ended' = FALSE /\ seen' = <<>> /\ stable' = {} /\ ever' = {}
  /\ UNCHANGED <<style, present>>

(* The directory changes meanwhile.                                        *)
Enters(n) == /\ n \notin present /\ present' = present \cup {n} /\ ever' = ever \cup {n}
             /\ UNCHANGED <<style, dh, pos, ended, seen, stable>>
Leaves(n) == /\ n \in present /\ present' = present \ {n} /\ stable' = stable \ {n}
             /\ UNCHANGED <<style, dh, pos, ended, seen, ever>>

DirNext ==
  \/ Opendir \/ Readdir \/ Rewind \/ Releasedir
  \/ \E i \in DOMAIN seen : Seek(i)
  \/ \E n \in Range(Entries) : Enters(n) \/ Leaves(n)
-----------------------------------------------------------------------------
(***************************************************************************)
(* However large the pieces in which a directory is read and whatever      *)
(* fails or changes meanwhile: the reader never gets a name twice or one   *)
(* that was never there, when it meets the end it has got each name that   *)
(* was there all the time, and the contents fit into their memory.         *)
(***************************************************************************)
EntriesOnce ==
  /\ \A i, j \in DOMAIN seen : seen[i].name = seen[j].name => i = j
  /\ \A i \in DOMAIN seen : seen[i].name \in ever
  /\ ended => \A n \in stable : \E i \in DOMAIN seen : seen[i].name = n
  /\ dh # ClosedDir => dh.len <= dh.size
=============================================================================
