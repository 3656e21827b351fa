------------------------------ MODULE MCFuseParts ------------------------------
(***************************************************************************)
(* Parts of libfuse that share no state, for TLC: the tables of nodes, the *)
(* record locks, directories, the handlers, the copying of buffers, and    *)
(* the lock manager. A run takes one of them.                              *)
(***************************************************************************)
EXTENDS FuseTables, FuseLocks, FuseDir, FuseOpsProps, FuseBuffers, Ulockmgr, TLC

CONSTANTS t1, t2, t3, o1, o2, fd1

VARIABLE part

(* Directories: four entries, two longer ones among them.                  *)
MCEntries == <<"a", "b", "c", "d">>
MCEntrySize == [n \in {"a", "b", "c", "d"} |-> IF n \in {"a", "d"} THEN 1 ELSE 2]

(* Handlers: kvfs, a file system with everything, an old one, and none.    *)
System(ops, nullpath_ok, nopath, omit_ok, hard_remove, allow_root) ==
  [ops |-> ops, nullpath_ok |-> nullpath_ok, nopath |-> nopath, omit_ok |-> omit_ok,
   hard_remove |-> hard_remove, allow_root |-> allow_root]
KvfsOps == {"getattr", "truncate", "open", "flush", "release", "mknod", "utimens", "write", "read", "unlink", "rename"}
AllOps == DOMAIN Calls \cup {"read_buf", "write_buf", "utime"}
OldOps == (DOMAIN Calls \ {"create", "fgetattr", "ftruncate", "utimens", "readdir", "flock", "flush"}) \cup {"utime", "getdir"}
MCSystems ==
  { System(KvfsOps, FALSE, FALSE, FALSE, FALSE, FALSE),
    System(KvfsOps, FALSE, FALSE, FALSE, TRUE, TRUE),
    System(AllOps, TRUE, FALSE, TRUE, TRUE, FALSE),
    System(AllOps, TRUE, TRUE, TRUE, FALSE, FALSE),
    System(OldOps, FALSE, FALSE, FALSE, TRUE, FALSE),
    System({}, FALSE, FALSE, FALSE, FALSE, FALSE) }

(* Buffers: memory and files, with less in them than they promise.         *)
Buf(kind, size, eof, seek, retry) == [kind |-> kind, size |-> size, eof |-> eof, seek |-> seek, retry |-> retry]
Mem(n) == Buf("mem", n, n, FALSE, FALSE)
SomeFiles == {Buf("fd", n, eof, seek, retry) : n \in {2, 3}, eof \in 1..3, seek \in BOOLEAN, retry \in BOOLEAN}
MCReplies == {<<Mem(0)>>, <<Mem(2)>>, <<Mem(1), Mem(1)>>}
             \cup {r \in {<<x>> : x \in SomeFiles} \cup {<<Mem(1), x>> : x \in SomeFiles} \cup {<<x, Mem(1)>> : x \in SomeFiles} :
                     \A i \in DOMAIN r : r[i].eof <= r[i].size}

(* The lock manager: two threads lock for one owner.                       *)
MCOwnerOf == t1 :> o1 @@ t2 :> o1 @@ t3 :> o2
MCFileOf == fd1 :> "file"
Wants(cmd, type, all) == [cmd |-> cmd, type |-> type, fd |-> fd1, all |-> all]
ReadNow == Wants("setlk", "read", FALSE)
WriteWait == Wants("setlkw", "write", FALSE)
AllFree == Wants("setlkw", "none", TRUE)
MCRequests == t1 :> {ReadNow, WriteWait, AllFree, Wants("setlk", "none", FALSE)}
              @@ t2 :> {Wants("getlk", "read", FALSE), WriteWait, AllFree} @@ t3 :> {ReadNow, WriteWait, AllFree}
-----------------------------------------------------------------------------
PartsInit ==
  /\ part \in {"tables", "locks", "dir", "ops", "buffers", "ulock"}
  /\ TablesInit /\ LocksInit /\ DirInit /\ OpsInit /\ BuffersInit /\ UlockInit
  /\ part = "dir" \/ style = "whole"
  /\ part = "ops" \/ fs = CHOOSE s \in Systems : TRUE

TablesStep == part = "tables" /\ TablesNext /\ UNCHANGED <<lockvars, dirvars, opsvars, buffervars, ulockvars>>
LocksStep == part = "locks" /\ LocksNext /\ UNCHANGED <<tables, dirvars, opsvars, buffervars, ulockvars>>
DirStep == part = "dir" /\ DirNext /\ UNCHANGED <<tables, lockvars, opsvars, buffervars, ulockvars>>
OpsStep == part = "ops" /\ OpsNext /\ UNCHANGED <<tables, lockvars, dirvars, buffervars, ulockvars>>
BuffersStep == part = "buffers" /\ BuffersNext /\ UNCHANGED <<tables, lockvars, dirvars, opsvars, ulockvars>>
UlockStep == part = "ulock" /\ UlockNext /\ UNCHANGED <<tables, lockvars, dirvars, opsvars, buffervars>>
PartsNext ==
  /\ TablesStep \/ LocksStep \/ DirStep \/ OpsStep \/ BuffersStep \/ UlockStep
  /\ UNCHANGED part

PartsSpec == PartsInit /\ [][PartsNext]_<<part, tables, lockvars, dirvars, opsvars, buffervars, ulockvars>>
===============================================================================
