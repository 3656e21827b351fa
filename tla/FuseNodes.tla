------------------------------ MODULE FuseNodes -------------------------------
(***************************************************************************)
(* The nodes of libfuse (lib/fuse.c) and the operations that make, find,   *)
(* rename, hide, release and forget them, several threads at a time. A     *)
(* node stands for a name and not for a file: its path is all the file     *)
(* system below is ever given. Between the steps of an operation, each of  *)
(* which is one hold of f->lock or one call of the file system, other      *)
(* threads run. The path locks are those of FusePaths, without their queue:*)
(* who cannot have its path is not here yet.                               *)
(*                                                                         *)
(* The kernel (dentries, inodes, handles, mutexes of directories) and the  *)
(* file system below (disk, a tree of objects) are external.               *)
(***************************************************************************)
EXTENDS Integers, SequencesExt, FiniteSets

CONSTANTS
  Ids,         (* Node ids other than the root's.                            *)
  Names,       (* Names that users give.                                     *)
  Hidden,      (* The names .fuse_hidden... in the order hidectr makes them. *)
  Threads,
  Handles,     (* Open files the kernel may have.                            *)
  MaxObjs,     (* Bound: how many files and directories are ever made.       *)
  MaxKnown,    (* Bound: how often the kernel has a node before it asks no   *)
               (* more for it.                                               *)
  Modes        (* What the kernel sends and which options are set.           *)

None == "none"
Root == "root"
AllNames == Names \cup Range(Hidden)
Objs == 1..MaxObjs
Makes == {"mknod", "mkdir", "create"}

ASSUME FuseNodesAssumption ==
  /\ Root \notin Ids /\ None \notin Ids \cup AllNames
  /\ \A m \in Modes :
       /\ m.kinds \subseteq Makes \cup {"lookup", "unlink", "rmdir", "rename", "open", "release"}
       /\ m.givesUp \subseteq m.kinds
       /\ m.remember \in BOOLEAN /\ m.hardRemove \in BOOLEAN

VARIABLES
  mode,     (* conf.remember (for a time, or not at all), conf.hard_remove,  *)
            (* the operations the kernel sends and those that it may give up *)
            (* before they are answered.                                     *)
  node,     (* node[n]: what is known of n, NoNode if there is no such node. *)
  lru,      (* f->lru_table: what only remember keeps.                       *)
  hidectr,  (* f->hidectr                                                    *)
  disk,     (* disk[<<o, name>>]: the object of that name in directory o.    *)
  isdir,    (* isdir[i]: whether the i-th object is a directory.             *)
  work,     (* work[t]: where t is in which request.                         *)
  dentry,   (* The kernel's dentries: directory, name, node.                 *)
  known,    (* known[n]: how often the kernel was given n and has not        *)
            (* returned it.                                                  *)
  inodes,   (* The nodes of which the kernel has an inode.                   *)
  file,     (* file[n]: the object as which that inode was found.            *)
  handle    (* handle[h]: the node and the object that are open.             *)

tree   == <<node, lru, hidectr>>
below  == <<disk, isdir>>
kernel == <<dentry, known, inodes, file, handle>>
vars   == <<mode, tree, below, work, kernel>>

NoNode == [is |-> FALSE, dir |-> None, name |-> None, nlookup |-> 0, refctr |-> 0,
           open |-> 0, hidden |-> FALSE]
Closed == [node |-> None, obj |-> 0]
Idle == [pc |-> "idle", kind |-> "idle"]

Init ==
  /\ mode \in Modes
  /\ node = [n \in Ids \cup {Root} |->
               IF n = Root THEN [NoNode EXCEPT !.is = TRUE, !.nlookup = 1, !.refctr = 1] ELSE NoNode]
  /\ lru = {} /\ hidectr = 0
  /\ disk = [e \in (Objs \cup {0}) \X AllNames |-> 0] /\ isdir = <<>>
  /\ work = [t \in Threads |-> Idle]
  /\ dentry = {} /\ known = [n \in Ids |-> 0] /\ inodes = {}
  /\ file = [n \in Ids |-> 0]
  /\ handle = [h \in Handles |-> Closed]
-----------------------------------------------------------------------------
(***************************************************************************)
(* The table of nodes. nt stands for it while it is changed.               *)
(***************************************************************************)
LookupNode(nt, dir, name) ==
  LET of == {n \in Ids : nt[n].is /\ nt[n].dir = dir /\ nt[n].name = name}
  IN  IF of = {} THEN None ELSE CHOOSE n \in of : TRUE

(* Fault: the first lookup takes no reference.                             *)
IncNlookupOnly(nt, n) == [nt EXCEPT ![n].nlookup = @ + 1]

IncNlookup(nt, n) ==
  [nt EXCEPT ![n].refctr = IF nt[n].nlookup = 0 THEN @ + 1 ELSE @, ![n].nlookup = @ + 1]

HashName(nt, n, dir, name) ==
  [nt EXCEPT ![dir].refctr = @ + 1, ![n].dir = dir, ![n].name = name]

RECURSIVE UnrefNode(_, _)
UnhashName(nt, n) ==
  IF nt[n].name = None THEN nt
  ELSE UnrefNode([nt EXCEPT ![n].dir = None, ![n].name = None], nt[n].dir)

DeleteNode(nt, n) == [UnhashName(nt, n) EXCEPT ![n] = NoNode]

UnrefNode(nt, n) ==
  IF nt[n].refctr = 1 THEN DeleteNode(nt, n) ELSE [nt EXCEPT ![n].refctr = @ - 1]

(* find_node and next_id: the ids are taken in turn, any free one here.    *)
FindNode(nt, dir, name, new) ==
  LET old == LookupNode(nt, dir, name)
      fresh == [nt EXCEPT ![new] = [NoNode EXCEPT !.is = TRUE]]
  IN  IF old # None THEN IncNlookup(nt, old)
      ELSE IncNlookup(HashName(IF mode.remember THEN IncNlookup(fresh, new) ELSE fresh, new, dir, name), new)

UnlinkNode(nt, n) ==
  UnhashName(IF mode.remember THEN [nt EXCEPT ![n].nlookup = @ - 1] ELSE nt, n)

RemoveNode(nt, dir, name) ==
  LET n == LookupNode(nt, dir, name) IN IF n = None THEN nt ELSE UnlinkNode(nt, n)

(* Fault: what had the name before keeps it.                               *)
RenameOver(nt, olddir, oldname, newdir, newname, hide) ==
  LET n == LookupNode(nt, olddir, oldname)
  IN  IF n = None THEN nt ELSE [HashName(UnhashName(nt, n), n, newdir, newname) EXCEPT ![n].hidden = hide]

RenameNode(nt, olddir, oldname, newdir, newname, hide) ==
  LET n == LookupNode(nt, olddir, oldname)
  IN  IF n = None THEN nt
      ELSE [HashName(UnhashName(RemoveNode(nt, newdir, newname), n), n, newdir, newname)
              EXCEPT ![n].hidden = @ \/ hide]

(* forget_node, once its wait is over.                                     *)
ForgetNode(nt, n, nlookup) ==
  LET less == [nt EXCEPT ![n].nlookup = @ - nlookup]
  IN  IF nt[n].nlookup = nlookup THEN UnrefNode(less, n) ELSE less

IsOpen(dir, name) ==
  LET n == LookupNode(node, dir, name) IN n # None /\ node[n].open > 0
-----------------------------------------------------------------------------
(***************************************************************************)
(* Paths, and what they mean on disk. Directories are nested once.         *)
(***************************************************************************)
Up(n) == IF n = Root THEN {} ELSE {n} \cup (IF node[n].dir \in Ids THEN {node[n].dir} ELSE {})
HasPath(n) == \A m \in Up(n) : node[m].name # None
PathOf(n) ==
  IF n = Root THEN <<>>
  ELSE IF node[n].dir = Root THEN <<node[n].name>>
  ELSE <<node[node[n].dir].name, node[n].name>>

NoPath == <<None>>
At(o, name) == IF o >= 0 /\ <<o, name>> \in DOMAIN disk /\ disk[<<o, name>>] # 0
               THEN disk[<<o, name>>] ELSE -1
Resolve(path) == FoldLeft(At, 0, path)
Exists(path) == Resolve(path) >= 0
Entry(path) == <<Resolve(Front(path)), Last(path)>>
Linked(o) == o \in Range(disk)
EmptyDir(o) == \A name \in AllNames : disk[<<o, name>>] = 0
-----------------------------------------------------------------------------
(***************************************************************************)
(* The locks of a thread: the nodes of its paths for reading, what it      *)
(* changes for writing.                                                    *)
(***************************************************************************)
Victims(r) ==
  {LookupNode(node, e[1], e[2]) : e \in CASE r.kind \in {"unlink", "rmdir"} -> {<<r.dir, r.name>>}
                                          [] r.kind = "rename" -> {<<r.dir, r.name>>, <<r.dir2, r.name2>>}
                                          [] OTHER -> {}} \ {None}

Read(r) == UNION {Up(n) : n \in CASE r.kind \in {"open", "release"} -> {r.node}
                                  [] r.kind = "rename" -> {r.dir, r.dir2}
                                  [] OTHER -> {r.dir}}

Busy(t) == work[t].pc # "idle"
Locks(t) == IF Busy(t) THEN work[t].read \cup work[t].write ELSE {}

Free(r) ==
  \A t \in Threads : Busy(t) =>
    work[t].write \cap (Read(r) \cup Victims(r)) = {} /\ work[t].read \cap Victims(r) = {}
-----------------------------------------------------------------------------
(***************************************************************************)
(* The kernel. While a request is unanswered it holds the mutexes of the   *)
(* directories that it changes; looking a known name up again, opening and *)
(* releasing need none.                                                    *)
(***************************************************************************)
Asked(t) == Busy(t) /\ ~work[t].answered
Mutexes(r) == CASE r.kind = "lookup" -> IF r.again THEN {} ELSE {r.dir}
                [] r.kind \in {"open", "release"} -> {}
                [] r.kind = "rename" -> {r.dir, r.dir2}
                [] OTHER -> {r.dir}
Uses(t, n) == Asked(t) /\ \/ n \in {work[t].dir, work[t].dir2, work[t].node}
                          \/ n \in work[t].write

Dentry(dir, name) ==
  LET of == {d \in dentry : d.dir = dir /\ d.name = name}
  IN  IF of = {} THEN None ELSE (CHOOSE d \in of : TRUE).node
IsDir(n) == n = Root \/ (n \in inodes /\ node[n].is /\ HasPath(n) /\ Exists(PathOf(n))
                          /\ isdir[Resolve(PathOf(n))])

(* What the kernel learns when it looks a name up before it renames to it. *)
Found(dir, name) == At(Resolve(PathOf(dir)), name) >= 0

Request == [kind |-> "lookup", dir |-> Root, name |-> None, dir2 |-> Root, name2 |-> None,
            node |-> Root, handle |-> None, again |-> FALSE]

Sent ==
  LET dirs == {n \in {Root} \cup inodes : IsDir(n)}
      known1(kind) == {[Request EXCEPT !.kind = kind, !.dir = d.dir, !.name = d.name] : d \in dentry}
      unknown(kind) == {[Request EXCEPT !.kind = kind, !.dir = d, !.name = nm] :
                          d \in {x \in dirs : kind = "mkdir" => x = Root}, nm \in Names}
  IN  UNION {CASE kind = "create" -> {[r EXCEPT !.handle = h] :
                    r \in {x \in unknown(kind) : Dentry(x.dir, x.name) = None},
                    h \in {x \in Handles : handle[x] = Closed}}
               [] kind \in {"mknod", "mkdir"} -> {r \in unknown(kind) : Dentry(r.dir, r.name) = None}
               [] kind = "lookup" -> {[r EXCEPT !.again = Dentry(r.dir, r.name) # None,
                                                !.node = IF Dentry(r.dir, r.name) = None THEN Root
                                                         ELSE Dentry(r.dir, r.name)] :
                                        r \in {x \in unknown(kind) : \A n \in Ids : known[n] < MaxKnown}}
               [] kind = "unlink" -> {r \in known1(kind) : ~IsDir(Dentry(r.dir, r.name))}
               [] kind = "rmdir" -> {r \in known1(kind) : IsDir(Dentry(r.dir, r.name))}
               [] kind = "rename" ->
                    {r \in {[q EXCEPT !.dir2 = d, !.name2 = nm] : q \in known1(kind), d \in dirs, nm \in Names} :
                       /\ <<r.dir, r.name>> # <<r.dir2, r.name2>>
                       /\ IsDir(Dentry(r.dir, r.name)) => r.dir2 = Root
                       /\ Dentry(r.dir2, r.name2) = None => ~Found(r.dir2, r.name2)
                       /\ Dentry(r.dir2, r.name2) # None =>
                            (IsDir(Dentry(r.dir, r.name)) <=> IsDir(Dentry(r.dir2, r.name2)))}
               [] kind = "open" -> {[Request EXCEPT !.kind = kind, !.node = n, !.handle = h] :
                                      n \in {m \in inodes : ~IsDir(m)},
                                      h \in {x \in Handles : handle[x] = Closed}}
               [] kind = "release" -> {[Request EXCEPT !.kind = kind, !.node = handle[h].node, !.handle = h] :
                                         h \in {x \in Handles : handle[x] # Closed}}
               [] OTHER -> {} : kind \in mode.kinds}

MaySend(r) ==
  \A u \in Threads : Asked(u) =>
    /\ Mutexes(r) \cap Mutexes(work[u]) = {}
    /\ r.handle # None => r.handle # work[u].handle
    /\ \A m \in {r.dir, r.dir2} \cap inodes : m \notin work[u].write
    /\ Victims(r) \cap {work[u].dir, work[u].dir2} = {}
-----------------------------------------------------------------------------
(***************************************************************************)
(* The operations, step by step. The file system below may fail whenever   *)
(* it is called.                                                           *)
(***************************************************************************)
Goes(t, pc) == work' = [work EXCEPT ![t].pc = pc]
Path(t) == work[t].path
Opens == {"create", "open"}

(* The node that is opened or released.                                    *)
Target(t) == IF work[t].kind = "create" THEN work[t].found ELSE work[t].node

First(kind) == CASE kind \in {"unlink", "rename"} -> "check"
                 [] kind = "release" -> "drop"
                 [] OTHER -> "fs"

(* The request arrives, and get_path or one of its relatives succeeds, or  *)
(* finds a node without a name. Only release goes on without a path.       *)
Begin(t, r) ==
  /\ ~Busy(t) /\ MaySend(r) /\ Free(r)
  /\ LET own  == r.kind \in {"open", "release"}
         ok   == HasPath(IF own THEN r.node ELSE r.dir) /\ HasPath(r.dir2)
         path == IF ~ok THEN NoPath
                 ELSE IF own THEN PathOf(r.node) ELSE Append(PathOf(r.dir), r.name)
     IN  work' = [work EXCEPT ![t] =
           r @@ [pc |-> IF ok \/ r.kind = "release" THEN First(r.kind) ELSE "reply",
                 read |-> IF ok THEN Read(r) ELSE {}, write |-> IF ok THEN Victims(r) ELSE {},
                 path |-> path, path2 |-> IF ok THEN Append(PathOf(r.dir2), r.name2) ELSE NoPath,
                 obj |-> 0, found |-> None, hiding |-> None,
                 err |-> ~ok /\ r.kind # "release", answered |-> FALSE, lost |-> FALSE]]
  /\ handle' = IF r.kind = "release" THEN [handle EXCEPT ![r.handle] = Closed] ELSE handle
  /\ UNCHANGED <<mode, tree, below, dentry, known, inodes, file>>

(* What a call does to the disk: the pairs of the new disk and isdir, none *)
(* if it must fail.                                                        *)
Made(path, dir) ==
  IF Len(isdir) < MaxObjs /\ Entry(path) \in DOMAIN disk /\ ~Exists(path)
  THEN {<<[disk EXCEPT ![Entry(path)] = Len(isdir) + 1], Append(isdir, dir)>>} ELSE {}
Unlinked(path, dir) ==
  IF Exists(path) /\ isdir[Resolve(path)] = dir /\ (dir => EmptyDir(Resolve(path)))
  THEN {<<[disk EXCEPT ![Entry(path)] = 0], isdir>>} ELSE {}
Renamed(from, to) ==
  IF /\ Exists(from) /\ Entry(to) \in DOMAIN disk
     /\ Exists(to) => /\ isdir[Resolve(to)] = isdir[Resolve(from)]
                      /\ isdir[Resolve(to)] => EmptyDir(Resolve(to))
  THEN {<<[disk EXCEPT ![Entry(from)] = 0, ![Entry(to)] = Resolve(from)], isdir>>} ELSE {}

FsCall(r) == CASE r.kind \in Makes -> Made(r.path, r.kind = "mkdir")
               [] r.kind = "unlink" -> Unlinked(r.path, FALSE)
               [] r.kind = "rmdir" -> Unlinked(r.path, TRUE)
               [] r.kind = "rename" -> Renamed(r.path, r.path2)
               [] OTHER -> IF Exists(r.path) THEN {<<disk, isdir>>} ELSE {}

(* is_open: an open file is hidden instead of removed.                     *)
Check(t) ==
  /\ work[t].pc = "check"
  /\ LET r == work[t]
         open == IF r.kind = "unlink" THEN IsOpen(r.dir, r.name) ELSE IsOpen(r.dir2, r.name2)
     IN  Goes(t, IF ~mode.hardRemove /\ open THEN "hide" ELSE "fs")
  /\ UNCHANGED <<mode, tree, below, kernel>>

Hides(t) == IF work[t].kind = "unlink"
            THEN [dir |-> work[t].dir, name |-> work[t].name, path |-> Path(t)]
            ELSE [dir |-> work[t].dir2, name |-> work[t].name2, path |-> work[t].path2]

HiddenName(t) ==
  /\ work[t].pc = "hide" /\ hidectr < Len(Hidden)
  /\ hidectr' = hidectr + 1
  /\ work' = [work EXCEPT ![t].pc = "hidefs", ![t].hiding = Hidden[hidectr + 1]]
  /\ UNCHANGED <<mode, node, lru, below, kernel>>

HideFs(t) ==
  /\ work[t].pc = "hidefs"
  /\ \E d \in Renamed(Hides(t).path, Append(Front(Hides(t).path), work[t].hiding)) :
       disk' = d[1] /\ isdir' = d[2]
  /\ Goes(t, "hidenode")
  /\ UNCHANGED <<mode, tree, kernel>>

HideNode(t) ==
  /\ work[t].pc = "hidenode"
  /\ node' = RenameNode(node, Hides(t).dir, Hides(t).name, Hides(t).dir, work[t].hiding, TRUE)
  /\ Goes(t, IF work[t].kind = "unlink" THEN "free" ELSE "fs")
  /\ UNCHANGED <<mode, lru, hidectr, below, kernel>>

(* The operation's call of the file system.                                *)
Fs(t) ==
  /\ work[t].pc = "fs"
  /\ \E d \in FsCall(work[t]) : disk' = d[1] /\ isdir' = d[2]
  /\ work' = [work EXCEPT
       ![t].pc = CASE work[t].kind \in Makes -> "stat"
                   [] work[t].kind = "lookup" -> "find"
                   [] work[t].kind = "open" -> "count"
                   [] OTHER -> "change",
       ![t].obj = IF work[t].kind \in {"lookup", "open"} THEN Resolve(Path(t)) ELSE 0]
  /\ UNCHANGED <<mode, tree, kernel>>

FsFails(t) ==
  /\ work[t].pc \in {"hidefs", "fs", "stat"}
  /\ work' = [work EXCEPT ![t].pc = IF work[t].kind \in Opens THEN "reply" ELSE "free",
                          ![t].err = TRUE]
  /\ UNCHANGED <<mode, tree, below, kernel>>

(* lookup_path: getattr and then find_node.                                *)
Stat(t) ==
  /\ work[t].pc = "stat" /\ Exists(Path(t))
  /\ work' = [work EXCEPT ![t].pc = "find", ![t].obj = Resolve(Path(t))]
  /\ UNCHANGED <<mode, tree, below, kernel>>

Find(t) ==
  /\ work[t].pc = "find"
  /\ LET old == LookupNode(node, work[t].dir, work[t].name)
         new == {n \in Ids : ~node[n].is}
     IN  \E n \in IF old # None THEN {old} ELSE IF new = {} THEN {} ELSE {CHOOSE m \in new : TRUE} :
           /\ node' = FindNode(node, work[t].dir, work[t].name, n)
           /\ lru' = lru \ {n}
           /\ work' = [work EXCEPT ![t].pc = IF work[t].kind = "create" THEN "count" ELSE "free",
                                   ![t].found = n]
  /\ UNCHANGED <<mode, hidectr, below, kernel>>

(* The names of nodes follow those of the files.                           *)
Change(t) ==
  /\ work[t].pc = "change"
  /\ LET r == work[t]
     IN  node' = IF r.kind = "rename" THEN RenameNode(node, r.dir, r.name, r.dir2, r.name2, FALSE)
                                      ELSE RemoveNode(node, r.dir, r.name)
  /\ Goes(t, "free")
  /\ UNCHANGED <<mode, lru, hidectr, below, kernel>>

Count(t) ==
  /\ work[t].pc = "count"
  /\ node' = [node EXCEPT ![Target(t)].open = @ + 1]
  /\ Goes(t, "reply")
  /\ UNCHANGED <<mode, lru, hidectr, below, kernel>>

(* Fault: any release removes the hidden file.                             *)
AnyRelease(n) == node[n].hidden

LastRelease(n) == node[n].hidden /\ node[n].open = 1

(* fuse_do_release, also of an open that the kernel gave up.               *)
AfterRelease(t) == IF work[t].kind = "create" THEN "forget" ELSE "free"
Drop(t) ==
  /\ work[t].pc = "drop"
  /\ LET n == Target(t)
     IN  /\ node' = [node EXCEPT ![n].open = @ - 1, ![n].hidden = @ /\ ~LastRelease(n)]
         /\ Goes(t, IF LastRelease(n) /\ Path(t) # NoPath THEN "unlinkhidden" ELSE AfterRelease(t))
  /\ UNCHANGED <<mode, lru, hidectr, below, kernel>>

UnlinkHidden(t) ==
  /\ work[t].pc = "unlinkhidden"
  /\ IF Unlinked(Path(t), FALSE) = {} THEN UNCHANGED below
     ELSE \E d \in Unlinked(Path(t), FALSE) : disk' = d[1] /\ isdir' = d[2]
  /\ Goes(t, AfterRelease(t))
  /\ UNCHANGED <<mode, tree, kernel>>

(* free_path and its relatives.                                            *)
FreePath(t) ==
  /\ work[t].pc = "free"
  /\ work' = [work EXCEPT ![t] = IF work[t].kind \in Opens THEN Idle
                                 ELSE [@ EXCEPT !.pc = "reply", !.read = {}, !.write = {}]]
  /\ UNCHANGED <<mode, tree, below, kernel>>

(* forget_node waits for the path locks of who is still using the node.    *)
MayForget(n, nlookup) ==
  node[n].nlookup = nlookup => \A t \in Threads : n \notin Locks(t)
Forgets(n, nlookup) ==
  /\ MayForget(n, nlookup)
  /\ node' = ForgetNode(node, n, nlookup)
  /\ lru' = IF mode.remember /\ node[n].nlookup = nlookup + 1 THEN lru \cup {n} ELSE lru

(* The kernel has given up the request that found the node.                *)
ForgetFound(t) ==
  /\ work[t].pc = "forget"
  /\ Forgets(work[t].found, 1)
  /\ work' = [work EXCEPT ![t] = IF work[t].kind = "create" THEN [@ EXCEPT !.pc = "free"] ELSE Idle]
  /\ UNCHANGED <<mode, hidectr, below, kernel>>

(* fuse_clean_cache, when conf.remember has passed. It looks neither at    *)
(* treelock nor at replies under way: no request takes as long as that,    *)
(* nor does the kernel keep a node that it did not want.                   *)
CleanCache(n) ==
  /\ n \in lru /\ node[n].refctr = 1
  /\ known[n] > 0 => n \in inodes
  /\ \A t \in Threads : Busy(t) => n \notin Locks(t) /\ work[t].found # n
  /\ node' = UnrefNode(UnhashName([node EXCEPT ![n].nlookup = 0], n), n)
  /\ lru' = lru \ {n}
  /\ UNCHANGED <<mode, hidectr, below, work, kernel>>
-----------------------------------------------------------------------------
(***************************************************************************)
(* Replies, and what the kernel does with them.                            *)
(***************************************************************************)
Childless(n, ds) == \A d \in ds : d.dir # n
Without(n) == IF Childless(n, dentry) THEN {d \in dentry : d.node # n} ELSE dentry
Put(dir, name, n) == {d \in dentry : <<d.dir, d.name>> # <<dir, name>>}
                       \cup IF n = None THEN {} ELSE {[dir |-> dir, name |-> name, node |-> n]}

Accept(r) ==
  /\ known' = [known EXCEPT ![r.found] = @ + 1]
  /\ inodes' = inodes \cup {r.found}
  /\ file' = [file EXCEPT ![r.found] = IF r.found \in inodes THEN @ ELSE r.obj]
  /\ dentry' = Put(r.dir, r.name, r.found)

Answered(t) ==
  LET r == work[t]
  IN  CASE r.kind = "lookup" /\ r.again /\ (r.err \/ r.found # r.node) ->
             /\ dentry' = Without(r.node)
             /\ known' = IF r.err THEN known ELSE [known EXCEPT ![r.found] = @ + 1]
             /\ UNCHANGED <<inodes, file, handle>>
        [] r.kind = "lookup" /\ r.again /\ ~r.err /\ r.found = r.node ->
             /\ known' = [known EXCEPT ![r.found] = @ + 1]
             /\ UNCHANGED <<dentry, inodes, file, handle>>
        [] ~r.err /\ (r.kind \in Makes \/ (r.kind = "lookup" /\ ~r.again)) ->
             /\ Accept(r)
             /\ handle' = IF r.kind # "create" THEN handle
                          ELSE [handle EXCEPT ![r.handle] = [node |-> r.found, obj |-> r.obj]]
        [] ~r.err /\ r.kind \in {"unlink", "rmdir"} ->
             dentry' = Put(r.dir, r.name, None) /\ UNCHANGED <<known, inodes, file, handle>>
        [] ~r.err /\ r.kind = "rename" ->
             /\ dentry' = {d \in Put(r.dir2, r.name2, Dentry(r.dir, r.name)) :
                             <<d.dir, d.name>> # <<r.dir, r.name>>}
             /\ UNCHANGED <<known, inodes, file, handle>>
        [] ~r.err /\ r.kind = "open" ->
             /\ handle' = [handle EXCEPT ![r.handle] = [node |-> r.node, obj |-> r.obj]]
             /\ UNCHANGED <<dentry, known, inodes, file>>
        [] OTHER -> UNCHANGED kernel

Reply(t) ==
  /\ work[t].pc = "reply" /\ ~work[t].lost
  /\ Answered(t)
  /\ work' = [work EXCEPT ![t] = IF work[t].kind \in Opens
                                 THEN [@ EXCEPT !.pc = "free", !.answered = TRUE] ELSE Idle]
  /\ UNCHANGED <<mode, tree, below>>

(* The kernel gives up a request; the reply to it fails with ENOENT.       *)
GiveUp(t) ==
  /\ Asked(t) /\ work[t].kind \in mode.givesUp
  /\ work' = [work EXCEPT ![t].lost = TRUE, ![t].answered = TRUE]
  /\ UNCHANGED <<mode, tree, below, kernel>>

ReplyLost(t) ==
  /\ work[t].pc = "reply" /\ work[t].lost
  /\ work' = [work EXCEPT ![t] =
       IF work[t].kind \in Opens THEN [@ EXCEPT !.pc = IF work[t].err THEN "free" ELSE "drop"]
       ELSE IF work[t].found # None THEN [@ EXCEPT !.pc = "forget"] ELSE Idle]
  /\ UNCHANGED <<mode, tree, below, kernel>>

(* The kernel evicts an inode, or returns a node that it did not want.     *)
Forget(n) ==
  /\ known[n] > 0
  /\ n \in inodes => /\ Childless(n, dentry) /\ \A h \in Handles : handle[h].node # n
                     /\ \A t \in Threads : ~Uses(t, n)
  /\ Forgets(n, known[n])
  /\ known' = [known EXCEPT ![n] = 0]
  /\ inodes' = inodes \ {n} /\ file' = [file EXCEPT ![n] = 0]
  /\ dentry' = {d \in dentry : d.node # n}
  /\ UNCHANGED <<mode, hidectr, below, work, handle>>
-----------------------------------------------------------------------------
Step(t) ==
  \/ Check(t) \/ HiddenName(t) \/ HideFs(t) \/ HideNode(t) \/ Fs(t) \/ FsFails(t) \/ Stat(t)
  \/ Find(t) \/ Change(t) \/ Count(t) \/ Drop(t) \/ UnlinkHidden(t) \/ FreePath(t)
  \/ ForgetFound(t) \/ Reply(t) \/ ReplyLost(t)

Next ==
  \/ \E t \in Threads : Step(t) \/ GiveUp(t) \/ \E r \in Sent : Begin(t, r)
  \/ \E n \in Ids : Forget(n) \/ CleanCache(n)

Spec == Init /\ [][Next]_vars
=============================================================================
