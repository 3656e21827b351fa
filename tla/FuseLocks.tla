------------------------------ MODULE FuseLocks ------------------------------
(***************************************************************************)
(* The record of POSIX locks that libfuse keeps with a node (lib/fuse.c):  *)
(* a list of byte ranges. The file system grants a lock; only afterwards,  *)
(* under f->lock, is it entered in the list, from which F_GETLK is         *)
(* answered. Each owner (a process) has one request at a time, the         *)
(* requests of different owners run concurrently. There is memory for all. *)
(***************************************************************************)
EXTENDS Integers, Sequences

CONSTANTS
  Owners,   (* fi->lock_owner                                                *)
  MaxByte   (* OFFSET_MAX                                                    *)

ASSUME FuseLocksAssumption == MaxByte \in Nat

Bytes == 0..MaxByte
Unlock == "unlock"
Types == {"read", "write", Unlock}
Ranges == {r \in [type : Types, start : Bytes, end : Bytes] : r.start <= r.end}

VARIABLES
  locks,   (* node->locks                                                    *)
  granted, (* granted[o][b]: the lock of o on byte b in the file system.     *)
  entering (* entering[o]: what o was granted and not yet entered.           *)

lockvars == <<locks, granted, entering>>
-----------------------------------------------------------------------------
(***************************************************************************)
(* A range travels as start and length; a length of 0 is "to the end".     *)
(***************************************************************************)
ConvertFuseFileLock(r) ==
  [type |-> r.type, start |-> r.start, len |-> IF r.end = MaxByte THEN 0 ELSE r.end - r.start + 1]
FlockToLock(fl, o) ==
  [type |-> fl.type, start |-> fl.start,
   end |-> IF fl.len # 0 THEN fl.start + fl.len - 1 ELSE MaxByte, owner |-> o]
LockToFlock(l) ==
  [type |-> l.type, start |-> l.start, len |-> IF l.end = MaxByte THEN 0 ELSE l.end - l.start + 1]

Clash(l, m) ==
  /\ l.owner # m.owner /\ "write" \in {l.type, m.type}
  /\ m.start <= l.end /\ l.start <= m.end
LocksConflict(list, lock) == {i \in DOMAIN list : Clash(list[i], lock)}

(* What becomes of one range l of the owner while lock is entered: the     *)
(* ranges before lock, those behind it, lock itself, and whether the list  *)
(* is gone through further ("scan"), lock goes in here ("here") or is      *)
(* there already ("there").                                                *)
Keep(l, lock)   == [before |-> <<l>>, after |-> <<>>, lock |-> lock, go |-> "scan"]
Delete(lock)    == [before |-> <<>>, after |-> <<>>, lock |-> lock, go |-> "scan"]
Stop(lock, ls)  == [before |-> <<>>, after |-> ls, lock |-> lock, go |-> "here"]

Join(l, lock) ==
  CASE l.end < lock.start - 1 -> Keep(l, lock)
    [] lock.end < l.start - 1 -> Stop(lock, <<l>>)
    [] l.start <= lock.start /\ lock.end <= l.end ->
         [before |-> <<>>, after |-> <<l>>, lock |-> lock, go |-> "there"]
    [] OTHER -> Delete([lock EXCEPT !.start = IF l.start < @ THEN l.start ELSE @,
                                    !.end = IF @ < l.end THEN l.end ELSE @])

(* Fault: a range in the middle of which another one is entered loses its  *)
(* end.                                                                    *)
CutShort(l, lock) ==
  IF l.end < lock.start THEN Keep(l, lock)
  ELSE IF lock.end < l.start THEN Stop(lock, <<l>>)
  ELSE IF lock.start <= l.start /\ l.end <= lock.end THEN Delete(lock)
  ELSE IF l.start < lock.start THEN Keep([l EXCEPT !.end = lock.start - 1], lock)
  ELSE Stop(lock, <<[l EXCEPT !.start = lock.end + 1]>>)

Cut(l, lock) ==
  IF l.end < lock.start THEN Keep(l, lock)
  ELSE IF lock.end < l.start THEN Stop(lock, <<l>>)
  ELSE IF lock.start <= l.start /\ l.end <= lock.end THEN Delete(lock)
  ELSE IF l.end <= lock.end THEN Keep([l EXCEPT !.end = lock.start - 1], lock)
  ELSE IF lock.start <= l.start THEN Stop(lock, <<[l EXCEPT !.start = lock.end + 1]>>)
  ELSE [before |-> <<[l EXCEPT !.end = lock.start - 1]>>,
        after |-> <<[l EXCEPT !.start = lock.end + 1]>>, lock |-> lock, go |-> "here"]

(* locks_insert: the loop over the list, and the list it leaves.           *)
New(lock) == IF lock.type = Unlock THEN <<>> ELSE <<lock>>
Enter(s, l) ==
  IF s.go # "scan" \/ l.owner # s.lock.owner THEN [s EXCEPT !.list = Append(@, l)]
  ELSE LET c == IF l.type = s.lock.type THEN Join(l, s.lock) ELSE Cut(l, s.lock)
       IN  [list |-> s.list \o c.before \o (IF c.go = "here" THEN New(c.lock) ELSE <<>>) \o c.after,
            lock |-> c.lock, go |-> c.go]
Scans(list, lock) ==
  LET scan[i \in 0..Len(list)] ==
        IF i = 0 THEN [list |-> <<>>, lock |-> lock, go |-> "scan"] ELSE Enter(scan[i - 1], list[i])
  IN  scan
LocksInsert(list, lock) ==
  LET end == Scans(list, lock)[Len(list)]
  IN  IF end.go = "scan" THEN end.list \o New(end.lock) ELSE end.list
-----------------------------------------------------------------------------
Nothing == [type |-> "nothing", start |-> 0, len |-> 0]
NoLocks == [b \in Bytes |-> Unlock]

LocksInit ==
  /\ locks = <<>>
  /\ granted = [o \in Owners |-> NoLocks]
  /\ entering = [o \in Owners |-> Nothing]

(* The file system grants what no other owner's locks keep it from.        *)
Grants(o, r) ==
  \A p \in Owners \ {o}, b \in r.start..r.end :
    r.type # Unlock /\ granted[p][b] # Unlock => "write" \notin {r.type, granted[p][b]}

(* fuse_lib_setlk as far as fuse_fs_lock, and fuse_flush_common, which     *)
(* unlocks all.                                                            *)
Setlk(o, r) ==
  /\ entering[o] = Nothing /\ Grants(o, r)
  /\ granted' = [granted EXCEPT ![o] = [b \in Bytes |-> IF b \in r.start..r.end THEN r.type ELSE @[b]]]
  /\ entering' = [entering EXCEPT ![o] = ConvertFuseFileLock(r)]
  /\ UNCHANGED locks

Flush(o) == Setlk(o, [type |-> Unlock, start |-> 0, end |-> MaxByte])

Entered(o) ==
  /\ entering[o] # Nothing
  /\ locks' = LocksInsert(locks, FlockToLock(entering[o], o))
  /\ entering' = [entering EXCEPT ![o] = Nothing]
  /\ UNCHANGED granted

LocksNext == \E o \in Owners : Flush(o) \/ Entered(o) \/ \E r \in Ranges : Setlk(o, r)

(* fuse_lib_getlk: the conflict in the list, before the file system is     *)
(* asked.                                                                  *)
Getlk(o, r) ==
  LET found == LocksConflict(locks, FlockToLock(ConvertFuseFileLock(r), o))
  IN  IF found = {} THEN Nothing
      ELSE LockToFlock(locks[CHOOSE i \in found : \A j \in found : i <= j])
-----------------------------------------------------------------------------
(***************************************************************************)
(* Of an owner that is not just entering a lock, the list says of every    *)
(* byte what the file system granted; its ranges are in order, and no two  *)
(* of one kind touch, so that F_GETLK tells the whole range.               *)
(***************************************************************************)
Covers(l, o, b) == l.owner = o /\ l.start <= b /\ b <= l.end
TypesAt(o, b) == {locks[i].type : i \in {j \in DOMAIN locks : Covers(locks[j], o, b)}}
Apart(l, m) == l.owner = m.owner => l.end < m.start /\ (l.type = m.type => l.end + 1 < m.start)
InOrder(list) == \A i, j \in DOMAIN list : i < j => Apart(list[i], list[j])
ListTrue ==
  /\ InOrder(locks)
  /\ \A o \in Owners : entering[o] = Nothing => \A b \in Bytes : TypesAt(o, b) = {granted[o][b]} \ {Unlock}

(***************************************************************************)
(* When no lock is just being entered, what F_GETLK finds in the list is a *)
(* lock that keeps the file system from granting the request, and it finds *)
(* one whenever there is one.                                              *)
(***************************************************************************)
GetlkTrue ==
  (\A o \in Owners : entering[o] = Nothing) =>
    \A o \in Owners, r \in Ranges : r.type # Unlock =>
      (Getlk(o, r) = Nothing <=> Grants(o, r))

(***************************************************************************)
(* However the owners lock, unlock and are refused: the list agrees with   *)
(* the file system, and F_GETLK with both.                                 *)
(***************************************************************************)
LocksTrue == ListTrue /\ GetlkTrue
=============================================================================
