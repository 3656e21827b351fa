----------------------------- MODULE FuseOpsProps -----------------------------
(***************************************************************************)
(* The properties of the handlers.                                         *)
(***************************************************************************)
EXTENDS FuseOps

WasAnswered == current.at = "answered" /\ current.answer # "lost"
Success == current.answer = Kind(current.op)
Tried(r) == {r.done[i][1] : i \in DOMAIN r.done}
Did(r, call) == \E i \in DOMAIN r.done : r.done[i] = <<call, "ok">>

(* What a success stands for. A single time is not set for a file system   *)
(* that has not said that it knows UTIME_OMIT, and flush may be missing if *)
(* there is lock.                                                          *)
WasDone(r) ==
  CASE r.op = "lookup"   -> Did(r, "getattr")
    [] r.op = "mknod"    -> (Did(r, "create") /\ Did(r, "fgetattr")) \/ (Did(r, "mknod") /\ Did(r, "getattr"))
    [] r.op = "setattr"  -> /\ "mode" \in r.bits => Did(r, "chmod")
                            /\ "owner" \in r.bits => Did(r, "chown")
                            /\ "size" \in r.bits => Did(r, "truncate") \/ Did(r, "ftruncate")
                            /\ {"atime", "mtime"} \subseteq r.bits => Did(r, "utimens")
                            /\ Did(r, "getattr") \/ Did(r, "fgetattr")
    [] r.op = "getattr"  -> Did(r, "getattr") \/ Did(r, "fgetattr")
    [] r.op = "unlink"   -> Did(r, "unlink") \/ Did(r, "rename")
    [] r.op = "flush"    -> Did(r, "flush") \/ Did(r, "lock") \/ <<"lock", "EIO">> \in {r.done[i] : i \in DOMAIN r.done}
    [] r.op \in {"release", "releasedir", "ioctl"} -> r.op \in Tried(r)
    [] r.op \in {"getlk", "setlk"} -> Did(r, "lock")
    [] OTHER             -> Did(r, r.op)

(***************************************************************************)
(* A request is answered with a success if, and only if, all it asks for   *)
(* was done by the file system, with every operation that is missing, each *)
(* that fails and every path that is gone; a request that is refused       *)
(* reaches no operation, and the first failure of several calls is the     *)
(* last call that is made and the one that is reported. No lock fails for  *)
(* want of an operation: the kernel was told to keep those to itself.      *)
(***************************************************************************)
AnswersTrue == WasAnswered =>
  /\ Success => WasDone(current)
  /\ ~Success => \/ /\ Tried(current) = {}
                    /\ current.answer \in {"EIO", "EACCES", "ENOSYS", "ENOTTY", "ENOMEM", "ENOENT"}
                 \/ \E i \in DOMAIN current.done :
                      /\ current.done[i][2] \in {current.answer, "odd"}
                      /\ \A j \in DOMAIN current.done : j > i => current.done[j][1] \in {"lock", "release", "unlink"}
  /\ current.op \in {"getlk", "setlk", "flock"} /\ current.answer = "ENOSYS" => called.op # "none"

(***************************************************************************)
(* What the file system has open is what the kernel has open, whichever    *)
(* call failed and whichever answer was lost. So each open has one release *)
(* and no request comes for a file that is not open.                       *)
(***************************************************************************)
HandlesPaired ==
  current.at \in {"idle", "sent", "path", "answered"} =>
    /\ held[0] = 0
    /\ \A h \in OpenFiles : held[h] = IF opened[h].at = "open" THEN 1 ELSE 0
=============================================================================
