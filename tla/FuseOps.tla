------------------------------- MODULE FuseOps --------------------------------
(***************************************************************************)
(* What libfuse makes of each request: the checks and the dispatch of      *)
(* fuse_lowlevel.c, the handlers fuse_lib_* of fuse.c, and the calls       *)
(* fuse_fs_* of the file system, which may lack an operation. One request  *)
(* at a time; the others are in FuseNodes, FusePaths and FuseSession.      *)
(*                                                                         *)
(* A file or directory is known by the handle it is open with. The tree of *)
(* names is in FuseNodes: here a node either has a path or has lost it.    *)
(***************************************************************************)
EXTENDS Integers, Sequences, FiniteSets

CONSTANTS
  Systems,  (* File systems, with how they are mounted: records of ops (the  *)
            (* operations), nullpath_ok, nopath, omit_ok (flags of them),    *)
            (* hard_remove, allow_root (options).                            *)
  OpenFiles,  (* Bound: the files and directories that may be open at a time.  *)
  Minors    (* The minor versions of the protocol that the kernel may have.  *)

Options == {"nullpath_ok", "nopath", "omit_ok", "hard_remove", "allow_root"}
ASSUME FuseOpsAssumption ==
  /\ \A s \in Systems : DOMAIN s = Options \cup {"ops"} /\ \A o \in Options : s[o] \in BOOLEAN
  /\ 0 \notin OpenFiles /\ Minors \subseteq Nat

VARIABLES
  fs,       (* The file system that is mounted.                              *)
  conn,     (* f->conn: minor and what was agreed; got_init, got_destroy.    *)
  opened,   (* opened[h]: the struct node behind h, and whether the kernel   *)
            (* has h.                                                        *)
  held,     (* held[h]: how often the file system has it open. 0 is for a    *)
            (* file that mknod opens.                                        *)
  current,  (* The request.                                                  *)
  called    (* The last operation the request led to, with which path.       *)

opsvars == <<fs, conn, opened, held, current, called>>
-----------------------------------------------------------------------------
(***************************************************************************)
(* The requests that do_* of fuse_lowlevel.c hand on, in the order of the  *)
(* file: what each is about (a name, a node, a file or directory that is   *)
(* open, or a new one) and what a success is answered with. FORGET and     *)
(* INTERRUPT are in FuseNodes and FuseSession.                             *)
(***************************************************************************)
About(on, answer) == [on |-> on, answer |-> answer]
Joined(f, g) == [x \in DOMAIN f \cup DOMAIN g |-> IF x \in DOMAIN f THEN f[x] ELSE g[x]]

NodeOps == [lookup |-> About("name", "entry"), getattr |-> About("node", "attr"), setattr |-> About("node", "attr"),
            access |-> About("node", "none"), readlink |-> About("node", "readlink"), mknod |-> About("name", "entry")]
NameOps == [mkdir |-> About("name", "entry"), unlink |-> About("file name", "none"), rmdir |-> About("dir name", "none"),
            symlink |-> About("name", "entry"), rename |-> About("name", "none"), link |-> About("name", "entry"),
            create |-> About("new", "create")]
FileOps == [open |-> About("new", "open"), read |-> About("file", "data"), write |-> About("file", "write"),
            flush |-> About("file", "none"), release |-> About("file", "none")]
DirOps == [fsync |-> About("file", "none"), opendir |-> About("new", "open"), readdir |-> About("dir", "data"),
           releasedir |-> About("dir", "none"), fsyncdir |-> About("dir", "none")]
TreeOps == [statfs |-> About("node", "statfs"), setxattr |-> About("node", "none"), getxattr |-> About("node", "xattr"),
            listxattr |-> About("node", "xattr"), removexattr |-> About("node", "none")]
LockOps == [getlk |-> About("file", "lock"), setlk |-> About("file", "none"), flock |-> About("file", "none")]
DeviceOps == [bmap |-> About("node", "bmap"), ioctl |-> About("handle", "ioctl"), poll |-> About("file", "poll"),
              fallocate |-> About("file", "none")]
Opcodes == Joined(NodeOps, Joined(NameOps, Joined(FileOps, Joined(DirOps,
             Joined(TreeOps, Joined(LockOps, DeviceOps))))))
On(op) == Opcodes[op].on
Kind(op) == Opcodes[op].answer
-----------------------------------------------------------------------------
(***************************************************************************)
(* The calls fuse_fs_*, in the order of the file: the operations that can  *)
(* serve each, the first one there is, and what it returns if there is     *)
(* none.                                                                   *)
(***************************************************************************)
By(operations, absent) == [by |-> operations, absent |-> absent]
Only(operation) == By(<<operation>>, "ENOSYS")

AttrCalls == [getattr |-> Only("getattr"), fgetattr |-> By(<<"fgetattr", "getattr">>, "ENOSYS"),
              rename |-> Only("rename"), unlink |-> Only("unlink"), rmdir |-> Only("rmdir"),
              symlink |-> Only("symlink"), link |-> Only("link")]
OpenCalls == [release |-> By(<<"release">>, "ok"), opendir |-> By(<<"opendir">>, "ok"), open |-> By(<<"open">>, "ok")]
DataCalls == [read |-> By(<<"read_buf", "read">>, "ENOSYS"), write |-> By(<<"write_buf", "write">>, "ENOSYS")]
SyncCalls == [fsync |-> Only("fsync"), fsyncdir |-> Only("fsyncdir"), flush |-> Only("flush"),
              statfs |-> By(<<"statfs">>, "ok"), releasedir |-> By(<<"releasedir">>, "ok")]
ListCalls == [readdir |-> By(<<"readdir", "getdir">>, "ENOSYS"), create |-> Only("create"),
              lock |-> Only("lock"), flock |-> Only("flock")]
ChangeCalls == [chown |-> Only("chown"), truncate |-> Only("truncate"),
                ftruncate |-> By(<<"ftruncate", "truncate">>, "ENOSYS"), utimens |-> By(<<"utimens", "utime">>, "ENOSYS"),
                access |-> Only("access"), readlink |-> Only("readlink"), mknod |-> Only("mknod"), mkdir |-> Only("mkdir")]
ExtraCalls == [setxattr |-> Only("setxattr"), getxattr |-> Only("getxattr"), listxattr |-> Only("listxattr"),
               bmap |-> Only("bmap"), removexattr |-> Only("removexattr"), ioctl |-> Only("ioctl"),
               poll |-> Only("poll"), fallocate |-> Only("fallocate")]
ModeCalls == [chmod |-> Only("chmod")]
Calls == Joined(ModeCalls, Joined(AttrCalls, Joined(OpenCalls, Joined(DataCalls, Joined(SyncCalls,
           Joined(ListCalls, Joined(ChangeCalls, ExtraCalls)))))))
Servers(call) == Calls[call].by

(* Those that take the place of one for an open file need a path.          *)
CanServe(call, o, path) ==
  o \in fs.ops /\ (call \in {"fgetattr", "ftruncate"} /\ o # call => path # "null")
Server(call, path) ==
  LET can == {i \in DOMAIN Servers(call) : CanServe(call, Servers(call)[i], path)}
  IN  IF can = {} THEN "none" ELSE Servers(call)[CHOOSE i \in can : \A j \in can : i <= j]
-----------------------------------------------------------------------------
(***************************************************************************)
(* A request: at is where it is; node the handle of the node it is about   *)
(* (0 for none), fi whether it is about the handle itself; bits what       *)
(* setattr is to set; other whether another user sends it; plan the calls  *)
(* that are left, done those made with their results.                      *)
(***************************************************************************)
IdleReq == [at |-> "idle", op |-> "none", node |-> 0, fi |-> FALSE, bits |-> {}, other |-> FALSE,
            path |-> "null", err |-> "ok", plan |-> <<>>, done |-> <<>>, answer |-> "none"]
NoCall == [op |-> "none", path |-> "null"]
Unopened == [at |-> "none", dir |-> FALSE, named |-> FALSE, hidden |-> FALSE]

OpsInit ==
  /\ fs \in Systems
  /\ conn = [minor |-> 0, agreed |-> {}, got_init |-> FALSE, got_destroy |-> FALSE]
  /\ opened = [h \in OpenFiles |-> Unopened]
  /\ held = [h \in OpenFiles \cup {0} |-> 0]
  /\ current = IdleReq /\ called = NoCall
-----------------------------------------------------------------------------
(***************************************************************************)
(* INIT and DESTROY.                                                       *)
(***************************************************************************)

(* fuse_fs_init: what the file system cannot do is not wanted.             *)
FsInit(want) == want \ ((IF "write_buf" \in fs.ops THEN {} ELSE {"splice_read"})
                        \cup (IF "lock" \in fs.ops THEN {} ELSE {"posix_locks"})
                        \cup (IF "flock" \in fs.ops THEN {} ELSE {"flock_locks"}))

(* do_init, with the options that ask for all there is. llop.getlk is      *)
(* there if the file system has lock, llop.flock always.                   *)
Wanted(minor) ==
  {"atomic_o_trunc", "flock_locks", "big_writes", "export_support"}
  \cup (IF "lock" \in fs.ops THEN {"posix_locks"} ELSE {})
  \cup (IF minor >= 14 THEN {"splice_read", "splice_write", "splice_move"} ELSE {})

DoInit(major, minor) ==
  /\ current.at \in {"idle", "answered"} /\ ~conn.got_destroy
  /\ conn' = IF conn.got_init \/ major # 7 THEN conn
             ELSE [conn EXCEPT !.minor = minor, !.got_init = TRUE, !.agreed = FsInit(Wanted(minor))]
  /\ UNCHANGED <<fs, opened, held, current, called>>

(* do_destroy, and fuse_ll_destroy when there was no DESTROY.              *)
DoDestroy ==
  /\ current.at \in {"idle", "answered"} /\ conn.got_init /\ ~conn.got_destroy
  /\ \A h \in OpenFiles : opened[h].at = "none"
  /\ conn' = [conn EXCEPT !.got_destroy = TRUE]
  /\ UNCHANGED <<fs, opened, held, current, called>>
-----------------------------------------------------------------------------
(***************************************************************************)
(* The kernel sends a request. Locks that were not agreed on it keeps to   *)
(* itself. A name that is removed is that of an open file or directory.    *)
(***************************************************************************)
Agreed(op) == /\ op \in {"getlk", "setlk"} => "posix_locks" \in conn.agreed
              /\ op = "flock" => "flock_locks" \in conn.agreed
Fits(on, n) ==
  CASE on = "file"      -> n.at = "open" /\ ~n.dir
    [] on = "dir"       -> n.at = "open" /\ n.dir
    [] on = "new"       -> n.at = "none"
    [] on = "file name" -> n.at = "open" /\ n.named /\ ~n.hidden /\ ~n.dir
    [] on = "dir name"  -> n.at = "open" /\ n.named /\ n.dir
    [] on = "name"      -> TRUE
    [] OTHER            -> n.at = "open"

(* About the handle, not the name: always so, never so, or as the caller   *)
(* asks. What setattr is to set; that release flushes.                     *)
MayUseHandle(op, n) ==
  IF On(op) \in {"file", "dir", "handle"} THEN {TRUE}
  ELSE IF ~n.dir /\ (op = "setattr" \/ (op = "getattr" /\ conn.minor >= 9)) THEN BOOLEAN ELSE {FALSE}
MaySet(op) ==
  CASE op = "setattr"                      -> (SUBSET {"mode", "owner", "size", "atime", "mtime"}) \ {{}}
    [] op = "release" /\ conn.minor >= 8 -> {{}, {"flush"}}
    [] OTHER                               -> {{}}

SendRequest(op, h) ==
  /\ current.at \in {"idle", "answered"} /\ ~conn.got_destroy /\ Agreed(op) /\ Fits(On(op), opened[h])
  /\ \E fi \in MayUseHandle(op, opened[h]), bits \in MaySet(op), other \in BOOLEAN :
       /\ other => op \in {"getattr", "read"}
       /\ current' = [IdleReq EXCEPT !.at = "sent", !.op = op, !.node = h, !.fi = fi,
                                     !.bits = bits, !.other = other]
  /\ called' = NoCall
  /\ UNCHANGED <<fs, conn, opened, held>>
-----------------------------------------------------------------------------
(***************************************************************************)
(* fuse_ll_process_buf and do_*: what is answered at once.                 *)
(***************************************************************************)
ForOthers == {"read", "write", "fsync", "release", "readdir", "fsyncdir", "releasedir"}
Refusal(r) ==
  IF ~conn.got_init THEN "EIO"
  ELSE IF fs.allow_root /\ r.other /\ r.op \notin ForOthers THEN "EACCES"
  ELSE IF r.op \in {"getlk", "setlk"} /\ "lock" \notin fs.ops THEN "ENOSYS"
  ELSE IF r.op = "ioctl" /\ opened[r.node].dir /\ "ioctl_dir" \notin conn.agreed THEN "ENOTTY" ELSE "ok"

Dispatch ==
  /\ current.at = "sent"
  /\ current' = [current EXCEPT !.err = Refusal(current),
                                !.at = IF Refusal(current) = "ok" THEN "path" ELSE "reply"]
  /\ UNCHANGED <<fs, conn, opened, held, called>>
-----------------------------------------------------------------------------
(***************************************************************************)
(* The path. get_path_nullok is for requests about an open file: the path  *)
(* may be NULL if the file system has said so.                             *)
(***************************************************************************)
NullOk(r) ==
  \/ On(r.op) \in {"file", "dir", "handle"}
  \/ (r.op = "getattr" /\ r.fi /\ "fgetattr" \in fs.ops)
  \/ (r.op = "setattr" /\ r.fi /\ r.bits = {"size"} /\ {"ftruncate", "fgetattr"} \subseteq fs.ops)

(* These do not look at the error.                                         *)
GoesOn(r) == r.op \in {"flush", "release", "releasedir"}

(* A path and an error. There may be no memory for the path, and the       *)
(* directory of a name may be gone.                                        *)
PathResults(r) ==
  IF NullOk(r) /\ fs.nopath THEN {<<"null", "ok">>}
  ELSE {<<"null", "ENOMEM">>}
       \cup (IF On(r.op) \in {"name", "new", "file name", "dir name"} THEN {<<"path", "ok">>, <<"null", "ENOENT">>}
             ELSE IF opened[r.node].named THEN {<<"path", "ok">>}
             ELSE {<<"null", IF NullOk(r) /\ fs.nullpath_ok THEN "ok" ELSE "ENOENT">>})

(* What each handler calls if all goes well.                               *)
Getattr(r) == IF r.fi THEN <<"fgetattr">> ELSE <<"getattr">>
Calling(cond, call) == IF cond THEN <<call>> ELSE <<>>
SetsTimes(r) ==
  LET times == r.bits \cap {"atime", "mtime"}
  IN  IF fs.omit_ok THEN times # {} ELSE times = {"atime", "mtime"}
SetattrPlan(r) ==
  Calling("mode" \in r.bits, "chmod") \o Calling("owner" \in r.bits, "chown")
  \o Calling("size" \in r.bits, IF r.fi THEN "ftruncate" ELSE "truncate")
  \o Calling(SetsTimes(r), "utimens") \o Getattr(r)
FlushPlan == <<"flush", "lock">>
ReleasePlan(r) == (IF r.bits = {} THEN <<>> ELSE FlushPlan) \o <<"release">>
Plan(r) ==
  CASE r.op = "lookup"                       -> <<"getattr">>
    [] r.op = "getattr"                      -> Getattr(r)
    [] r.op = "setattr"                      -> SetattrPlan(r)
    [] r.op \in {"mknod", "create"}          -> <<"create">>
    [] r.op \in {"mkdir", "symlink", "link"} -> <<r.op, "getattr">>
    [] r.op = "unlink"                       -> IF fs.hard_remove THEN <<"unlink">> ELSE <<"rename">>
    [] r.op = "flush"                        -> FlushPlan
    [] r.op = "release"                      -> ReleasePlan(r)
    [] r.op \in {"getlk", "setlk"}           -> <<"lock">>
    [] OTHER                                 -> <<r.op>>

TakePath ==
  /\ current.at = "path"
  /\ \E res \in PathResults(current) :
       LET goes == res[2] = "ok" \/ GoesOn(current)
       IN  current' = [current EXCEPT !.path = res[1], !.err = IF goes THEN "ok" ELSE res[2],
                                      !.plan = IF goes THEN Plan(current) ELSE <<>>,
                                      !.at = IF goes THEN "call" ELSE "reply"]
  /\ UNCHANGED <<fs, conn, opened, held, called>>
-----------------------------------------------------------------------------
(***************************************************************************)
(* A call of the file system, which may fail, or return ENOSYS as if it    *)
(* had no such operation. "odd": what was created is no regular file.      *)
(***************************************************************************)
Results(r, call) ==
  IF Server(call, r.path) = "none" THEN {Calls[call].absent}
  ELSE {"ok", "EIO", "ENOSYS"} \cup (IF r.op = "create" /\ call = "fgetattr" THEN {"odd"} ELSE {})

(* release and releasedir get "-" where they did before there were flags.  *)
(* Hidden files are removed by their path.                                 *)
PathGiven(r, call) ==
  IF call \in {"release", "releasedir"} /\ r.path = "null" /\ ~fs.nullpath_ok /\ ~fs.nopath THEN "-"
  ELSE IF r.op = "release" /\ call = "unlink" THEN "path" ELSE r.path

(* Fault: the last call decides.                                           *)
ErrorOfLast(r, call, res) == res

(* The error so far, which release does not change. If there is lock,      *)
(* FLUSH is needed even if there is no flush.                              *)
Error(r, call, res) ==
  IF call \in {"release", "releasedir"} \/ (r.op = "release" /\ call = "unlink") THEN r.err
  ELSE IF r.op \in {"flush", "release"} /\ call = "lock"
  THEN IF res # "ENOSYS" /\ r.err = "ENOSYS" THEN "ok" ELSE r.err
  ELSE IF res = "odd" THEN "EIO" ELSE res

(* A file that was unlinked while it was open is removed when it is closed. *)
RemovesHidden(r) == opened[r.node].hidden /\ (r.path = "path" \/ fs.nopath)

(* The calls that are left after one.                                      *)
Rest(r, call, res) ==
  LET err == Error(r, call, res)
  IN  CASE r.op = "mknod" /\ call = "create"   -> IF res = "ok" THEN <<"fgetattr", "release">>
                                                  ELSE IF res = "ENOSYS" THEN <<"mknod", "getattr">> ELSE <<>>
        [] r.op = "mknod" /\ call = "release"  -> IF err = "ENOSYS" THEN <<"mknod", "getattr">> ELSE <<>>
        [] r.op = "mknod" /\ call = "fgetattr" -> <<"release">>
        [] r.op = "create" /\ call = "create"  -> IF res = "ok" THEN <<"fgetattr">> ELSE <<>>
        [] r.op = "create" /\ call = "fgetattr" -> IF err = "ok" THEN <<>> ELSE <<"release">>
        [] r.op = "release" /\ call = "release" -> Calling(RemovesHidden(r), "unlink")
        [] r.op \in {"flush", "release"} /\ call # "release" -> Tail(r.plan)
        [] OTHER                               -> IF err = "ok" THEN Tail(r.plan) ELSE <<>>

(* What the file system has open.                                          *)
Held(r, call, res) ==
  LET h == IF r.op = "mknod" THEN 0 ELSE r.node
  IN  IF call \in {"open", "opendir", "create"} /\ res = "ok" THEN [held EXCEPT ![h] = @ + 1]
      ELSE IF call \in {"release", "releasedir"} THEN [held EXCEPT ![h] = @ - 1] ELSE held

(* remove_node and hide_node.                                              *)
Removed(r, call, res) ==
  IF res # "ok" \/ r.op \notin {"unlink", "rmdir"} THEN opened
  ELSE IF call = "rename" THEN [opened EXCEPT ![r.node].hidden = TRUE]
  ELSE [opened EXCEPT ![r.node].named = FALSE]

CallFs ==
  /\ current.at = "call"
  /\ LET r == current
         call == Head(r.plan)
         path == PathGiven(r, call)
     IN  \E res \in Results([r EXCEPT !.path = path], call) :
           LET rest == Rest(r, call, res)
               err == Error(r, call, res)
           IN  /\ current' = [r EXCEPT !.err = err, !.plan = rest, !.done = Append(@, <<call, res>>),
                                       !.at = IF rest # <<>> THEN "call"
                                              ELSE IF r.answer = "lost" THEN "answered" ELSE "reply"]
               /\ held' = Held(r, call, res) /\ opened' = Removed(r, call, res)
               /\ called' = IF Server(call, path) = "none" THEN called
                            ELSE [op |-> Server(call, path), path |-> path]
  /\ UNCHANGED <<fs, conn>>
-----------------------------------------------------------------------------
(***************************************************************************)
(* The answer.                                                             *)
(***************************************************************************)

(* What the kernel keeps of it.                                            *)
Kept(r) ==
  CASE On(r.op) = "new" /\ r.err = "ok"       -> [opened EXCEPT ![r.node] =
                                                 [at |-> "open", dir |-> r.op = "opendir", named |-> TRUE, hidden |-> FALSE]]
    [] r.op \in {"release", "releasedir"}   -> [opened EXCEPT ![r.node] = Unopened]
    [] OTHER                                -> opened

(* Release does not fail for want of a flush; ioctl has a result.          *)
Answer(r) ==
  IF \/ r.err = "ok" \/ (r.op = "release" /\ r.err = "ENOSYS")
     \/ (r.op = "ioctl" /\ r.done # <<>>)
  THEN Kind(r.op) ELSE r.err

ReplySent ==
  /\ current.at = "reply"
  /\ current' = [current EXCEPT !.at = "answered", !.answer = Answer(current)]
  /\ opened' = Kept(current)
  /\ UNCHANGED <<fs, conn, held, called>>

(* Fault: nothing is done about an answer nobody waited for.               *)
ForgetLost(r) == [r EXCEPT !.at = "answered", !.answer = "lost"]

(* The caller was interrupted: the open is cancelled.                      *)
CancelOpen(r) ==
  [r EXCEPT !.at = "call", !.answer = "lost", !.plan = <<IF r.op = "opendir" THEN "releasedir" ELSE "release">>]

ReplyNotSent ==
  /\ current.at = "reply" /\ On(current.op) = "new" /\ current.err = "ok"
  /\ current' = CancelOpen(current)
  /\ UNCHANGED <<fs, conn, opened, held, called>>
-----------------------------------------------------------------------------
OpsNext ==
  \/ \E major \in 6..8, minor \in Minors : DoInit(major, minor)
  \/ DoDestroy
  \/ \E op \in DOMAIN Opcodes, h \in OpenFiles : SendRequest(op, h)
  \/ Dispatch \/ TakePath \/ CallFs \/ ReplySent \/ ReplyNotSent

OpsSpec == OpsInit /\ [][OpsNext]_opsvars
=============================================================================
