--------------------------- MODULE FuseFilesProofs ---------------------------
(***************************************************************************)
(* Proofs about what libfuse keeps of files, directories and nodes. For    *)
(* any owners, ranges and lengths of files, the list of record locks       *)
(* agrees with the file system, and F_GETLK with both. For any entries and *)
(* any pieces in which it is read, a directory is read once. For any       *)
(* number of nodes, each is where the tables and its slab look for it, and *)
(* has an id that nobody had before in its generation.                     *)
(***************************************************************************)
EXTENDS FuseLocks, FuseDir, FuseTables, SequenceTheorems, FiniteSetTheorems, WellFoundedInduction, TLAPS

LocksSpec == LocksInit /\ [][LocksNext]_lockvars
-----------------------------------------------------------------------------
(***************************************************************************)
(* A set of numbers that is not empty has a least one.                     *)
(***************************************************************************)
LEMMA Least ==
  ASSUME NEW S, S \subseteq Nat, S # {}
  PROVE  \E m \in S : \A n \in S : m <= n
<1>1. PICK m \in S : \A n \in S : ~(<<n, m>> \in OpToRel(<, Nat))
  BY NatLessThanWellFounded, WFMin
<1>2. ASSUME NEW n \in S PROVE m <= n
  <2>1. ~(n < m)
    BY <1>1 DEF OpToRel
  <2>2. n \in Nat /\ m \in Nat
    OBVIOUS
  <2> QED BY <2>1, <2>2
<1> QED BY <1>2

Kinds == {"read", "write"}
LockRecord == {l \in [type : Kinds, start : Bytes, end : Bytes, owner : Owners] : l.start <= l.end}
LockEntry == {l \in [type : Types, start : Bytes, end : Bytes, owner : Owners] : l.start <= l.end}
Scan == [list : Seq(LockRecord), lock : LockEntry, go : {"scan", "here", "there"}]

(***************************************************************************)
(* What a list says of a byte and an owner: all of it, up to a place, or   *)
(* from one. All of a list is before a range.                              *)
(***************************************************************************)
Says(list, o, b, k) == \E i \in DOMAIN list : Covers(list[i], o, b) /\ list[i].type = k
SaysUpTo(list, n, o, b, k) == \E i \in 1..n : Covers(list[i], o, b) /\ list[i].type = k
SaysFrom(list, n, o, b, k) == \E i \in n..Len(list) : Covers(list[i], o, b) /\ list[i].type = k
AllBefore(list, l) == \A i \in DOMAIN list : Apart(list[i], l)

LEMMA RangesAre ==
  ASSUME NEW l, l \in LockRecord \/ l \in LockEntry
  PROVE  /\ l \in LockEntry /\ l.type \in Types /\ l.owner \in Owners /\ l.start \in Int /\ l.end \in Int
         /\ l.start \in Bytes /\ l.end \in Bytes /\ l.start <= l.end
         /\ l \in LockRecord <=> l.type # Unlock
         /\ l = [type |-> l.type, start |-> l.start, end |-> l.end, owner |-> l.owner]
<1>1. Kinds \subseteq Types /\ Unlock \notin Kinds /\ \A k \in Types : k # Unlock => k \in Kinds
  BY DEF Kinds, Types, Unlock
<1>2. Bytes \subseteq Int
  BY FuseLocksAssumption DEF Bytes
<1> QED BY <1>1, <1>2 DEF LockRecord, LockEntry

(***************************************************************************)
(* A range is put behind a list.                                           *)
(***************************************************************************)
LEMMA Appended ==
  ASSUME NEW list, list \in Seq(LockRecord), NEW l, l \in LockRecord
  PROVE  /\ Append(list, l) \in Seq(LockRecord)
         /\ InOrder(Append(list, l)) <=> InOrder(list) /\ AllBefore(list, l)
         /\ \A m : AllBefore(Append(list, l), m) <=> AllBefore(list, m) /\ Apart(l, m)
         /\ \A o, b, k : Says(Append(list, l), o, b, k) <=> Says(list, o, b, k) \/ (Covers(l, o, b) /\ l.type = k)
<1> DEFINE new == Append(list, l)
<1>1. /\ new \in Seq(LockRecord) /\ Len(list) \in Nat /\ DOMAIN list = 1..Len(list)
      /\ DOMAIN new = 1..(Len(list) + 1) /\ new[Len(list) + 1] = l
      /\ \A i \in 1..Len(list) : new[i] = list[i]
  OBVIOUS
<1> HIDE DEF new
<1>2. \A m : AllBefore(new, m) <=> AllBefore(list, m) /\ Apart(l, m)
  <2> TAKE m
  <2>1. ASSUME AllBefore(new, m) PROVE AllBefore(list, m) /\ Apart(l, m)
    BY <1>1, <2>1 DEF AllBefore
  <2>2. ASSUME AllBefore(list, m), Apart(l, m) PROVE AllBefore(new, m)
    BY <1>1, <2>2 DEF AllBefore
  <2> QED BY <2>1, <2>2
<1>3. InOrder(new) <=> InOrder(list) /\ AllBefore(list, l)
  <2>1. ASSUME InOrder(new) PROVE InOrder(list)
    BY <1>1, <2>1 DEF InOrder
  <2>2. ASSUME InOrder(new) PROVE AllBefore(list, l)
    <3> SUFFICES ASSUME NEW i \in DOMAIN list PROVE Apart(list[i], l)
      BY DEF AllBefore
    <3>1. i \in DOMAIN new /\ Len(list) + 1 \in DOMAIN new /\ i < Len(list) + 1
      BY <1>1
    <3> QED BY <3>1, <2>2, <1>1 DEF InOrder
  <2>3. ASSUME InOrder(list), AllBefore(list, l) PROVE InOrder(new)
    <3> SUFFICES ASSUME NEW i \in DOMAIN new, NEW j \in DOMAIN new, i < j PROVE Apart(new[i], new[j])
      BY DEF InOrder
    <3>1. i \in DOMAIN list
      BY <1>1
    <3>2. CASE j = Len(list) + 1
      BY <3>1, <3>2, <1>1, <2>3 DEF AllBefore
    <3>3. CASE j # Len(list) + 1
      <4>1. j \in DOMAIN list
        BY <3>3, <1>1
      <4> QED BY <4>1, <3>1, <1>1, <2>3 DEF InOrder
    <3> QED BY <3>2, <3>3
  <2> QED BY <2>1, <2>2, <2>3
<1>4. \A o, b, k : Says(new, o, b, k) <=> Says(list, o, b, k) \/ (Covers(l, o, b) /\ l.type = k)
  <2> TAKE o, b, k
  <2>1. ASSUME Says(new, o, b, k) PROVE Says(list, o, b, k) \/ (Covers(l, o, b) /\ l.type = k)
    <3>1. PICK i \in DOMAIN new : Covers(new[i], o, b) /\ new[i].type = k
      BY <2>1 DEF Says
    <3>2. CASE i = Len(list) + 1
      BY <3>1, <3>2, <1>1
    <3>3. CASE i # Len(list) + 1
      <4>1. i \in DOMAIN list
        BY <3>3, <1>1
      <4> QED BY <4>1, <3>1, <1>1 DEF Says
    <3> QED BY <3>2, <3>3
  <2>2. ASSUME Says(list, o, b, k) PROVE Says(new, o, b, k)
    <3>1. PICK i \in DOMAIN list : Covers(list[i], o, b) /\ list[i].type = k
      BY <2>2 DEF Says
    <3> QED BY <3>1, <1>1 DEF Says
  <2>3. ASSUME Covers(l, o, b), l.type = k PROVE Says(new, o, b, k)
    <3>1. Len(list) + 1 \in DOMAIN new
      BY <1>1
    <3> QED BY <3>1, <2>3, <1>1 DEF Says
  <2> QED BY <2>1, <2>2, <2>3
<1> QED BY <1>1, <1>2, <1>3, <1>4 DEF new

(***************************************************************************)
(* The list that is gone through, around its next range.                   *)
(***************************************************************************)
LEMMA NextRange ==
  ASSUME NEW list, list \in Seq(LockRecord), NEW n \in Nat, n + 1 <= Len(list)
  PROVE  /\ n + 1 \in DOMAIN list /\ list[n + 1] \in LockRecord
         /\ \A o, b, k : SaysUpTo(list, n + 1, o, b, k)
                           <=> SaysUpTo(list, n, o, b, k) \/ (Covers(list[n + 1], o, b) /\ list[n + 1].type = k)
         /\ \A o, b, k : SaysFrom(list, n + 1, o, b, k)
                           <=> SaysFrom(list, n + 2, o, b, k) \/ (Covers(list[n + 1], o, b) /\ list[n + 1].type = k)
         /\ \A o, b, k : Says(list, o, b, k) <=> SaysUpTo(list, n + 1, o, b, k) \/ SaysFrom(list, n + 2, o, b, k)
<1>1. Len(list) \in Nat /\ DOMAIN list = 1..Len(list) /\ \A i \in DOMAIN list : list[i] \in LockRecord
  OBVIOUS
<1>2. n + 1 \in DOMAIN list
  BY <1>1
<1>3. \A o, b, k : SaysUpTo(list, n + 1, o, b, k)
                     <=> SaysUpTo(list, n, o, b, k) \/ (Covers(list[n + 1], o, b) /\ list[n + 1].type = k)
  <2>1. \A i : i \in 1..(n + 1) <=> (i \in 1..n \/ i = n + 1)
    OBVIOUS
  <2> QED BY <2>1 DEF SaysUpTo
<1>4. \A o, b, k : SaysFrom(list, n + 1, o, b, k)
                     <=> SaysFrom(list, n + 2, o, b, k) \/ (Covers(list[n + 1], o, b) /\ list[n + 1].type = k)
  <2>1. \A i : i \in (n + 1)..Len(list) <=> (i \in (n + 2)..Len(list) \/ i = n + 1)
    BY <1>1
  <2> QED BY <2>1 DEF SaysFrom
<1>5. \A o, b, k : Says(list, o, b, k) <=> SaysUpTo(list, n + 1, o, b, k) \/ SaysFrom(list, n + 2, o, b, k)
  <2>1. \A i : i \in DOMAIN list <=> (i \in 1..(n + 1) \/ i \in (n + 2)..Len(list))
    BY <1>1
  <2> QED BY <2>1 DEF SaysFrom, SaysUpTo, Says
<1> QED BY <1>1, <1>2, <1>3, <1>4, <1>5

(***************************************************************************)
(* The list in order, after n ranges have been gone through: what is kept  *)
(* is in order and before the ranges to come. While the scan goes on, it   *)
(* is before the lock, which has grown only over ranges of its type, and   *)
(* is what the lock does not cover; then, with the rest, it is the result. *)
(***************************************************************************)
Ahead(kept, list, n) == \A j \in n..Len(list) : AllBefore(kept, list[j])
Wanted(list, lock, o, b, k) ==
  IF Covers(lock, o, b) THEN k = lock.type /\ k # Unlock ELSE Says(list, o, b, k)

Scanned(list, lock, n, s) ==
  /\ s \in Scan /\ InOrder(s.list) /\ Ahead(s.list, list, n + 1)
  /\ s.go # "scan" => \A o, b : b \in Bytes => \A k :
       Says(s.list, o, b, k) \/ SaysFrom(list, n + 1, o, b, k) <=> Wanted(list, lock, o, b, k)
  /\ s.go = "scan" =>
       /\ s.lock.type = lock.type /\ s.lock.owner = lock.owner
       /\ s.lock.start <= lock.start /\ lock.end <= s.lock.end
       /\ AllBefore(s.list, s.lock)
       /\ \A o, b : b \in Bytes =>
            /\ \A k : Says(s.list, o, b, k) <=> SaysUpTo(list, n, o, b, k) /\ ~Covers(s.lock, o, b)
            /\ Covers(s.lock, o, b) /\ ~Covers(lock, o, b) => SaysUpTo(list, n, o, b, lock.type)

(***************************************************************************)
(* Behind a list in order, there are only bytes that the ranges before do  *)
(* not cover.                                                              *)
(***************************************************************************)
LEMMA ApartIsDisjoint ==
  ASSUME NEW l, l \in LockEntry, NEW m, m \in LockEntry, Apart(l, m), NEW o, NEW b \in Bytes
  PROVE  ~(Covers(l, o, b) /\ Covers(m, o, b))
<1>1. l.end \in Int /\ m.start \in Int /\ b \in Int /\ Bytes \subseteq Int
  BY RangesAre, FuseLocksAssumption DEF Bytes
<1> QED BY <1>1 DEF Apart, Covers

LEMMA OrderIsDisjoint ==
  ASSUME NEW list, list \in Seq(LockRecord), InOrder(list), NEW n \in Nat, n + 1 <= Len(list),
         NEW o, NEW b \in Bytes, NEW k, Covers(list[n + 1], o, b)
  PROVE  ~SaysUpTo(list, n, o, b, k) /\ ~SaysFrom(list, n + 2, o, b, k)
<1>1. Len(list) \in Nat /\ DOMAIN list = 1..Len(list) /\ \A i \in DOMAIN list : list[i] \in LockRecord
  OBVIOUS
<1>2. \A i \in DOMAIN list : list[i] \in LockEntry
  BY <1>1, RangesAre
<1>3. n + 1 \in DOMAIN list
  BY <1>1
<1>4. ~SaysUpTo(list, n, o, b, k)
  <2> SUFFICES ASSUME NEW i \in 1..n, Covers(list[i], o, b) PROVE FALSE
    BY DEF SaysUpTo
  <2>1. i \in DOMAIN list /\ i < n + 1
    BY <1>1
  <2>2. Apart(list[i], list[n + 1])
    BY <2>1, <1>3 DEF InOrder
  <2> QED BY <2>1, <2>2, <1>2, <1>3, ApartIsDisjoint
<1>5. ~SaysFrom(list, n + 2, o, b, k)
  <2> SUFFICES ASSUME NEW i \in (n + 2)..Len(list), Covers(list[i], o, b) PROVE FALSE
    BY DEF SaysFrom
  <2>1. i \in DOMAIN list /\ n + 1 < i
    BY <1>1
  <2>2. Apart(list[n + 1], list[i])
    BY <2>1, <1>3 DEF InOrder
  <2> QED BY <2>1, <2>2, <1>2, <1>3, ApartIsDisjoint
<1> QED BY <1>4, <1>5

(***************************************************************************)
(* The next range is put behind the list, whole or up to the lock: what    *)
(* comes behind the range comes behind that, too.                          *)
(***************************************************************************)
PartOf(m, l) == m.owner = l.owner /\ m.type = l.type /\ l.start <= m.start /\ m.end <= l.end

LEMMA PartIsApart ==
  ASSUME NEW l, l \in LockEntry, NEW m, m \in LockEntry, PartOf(m, l), NEW x, x \in LockEntry
  PROVE  /\ Apart(l, x) => Apart(m, x)
         /\ Apart(x, l) => Apart(x, m)
<1>1. /\ l.start \in Int /\ l.end \in Int /\ m.start \in Int /\ m.end \in Int /\ x.start \in Int /\ x.end \in Int
  BY RangesAre
<1> QED BY <1>1 DEF Apart, PartOf

LEMMA AheadOfNext ==
  ASSUME NEW list, list \in Seq(LockRecord), InOrder(list), NEW n \in Nat, n + 1 <= Len(list),
         NEW kept, kept \in Seq(LockRecord), Ahead(kept, list, n + 1),
         NEW m, m \in LockRecord, PartOf(m, list[n + 1])
  PROVE  /\ AllBefore(kept, m) /\ Ahead(kept, list, n + 2) /\ Ahead(Append(kept, m), list, n + 2)
         /\ \A j \in (n + 2)..Len(list) : Apart(m, list[j])
<1>1. /\ Len(list) \in Nat /\ DOMAIN list = 1..Len(list) /\ \A i \in DOMAIN list : list[i] \in LockEntry
      /\ \A i \in DOMAIN kept : kept[i] \in LockEntry
      /\ m \in LockEntry
  <2>1. /\ Len(list) \in Nat /\ DOMAIN list = 1..Len(list) /\ \A i \in DOMAIN list : list[i] \in LockRecord
        /\ \A i \in DOMAIN kept : kept[i] \in LockRecord
    OBVIOUS
  <2> QED BY <2>1, RangesAre
<1>2. n + 1 \in DOMAIN list /\ n + 1 \in (n + 1)..Len(list)
  BY <1>1
<1>3. AllBefore(kept, m)
  <2>1. AllBefore(kept, list[n + 1])
    BY <1>2 DEF Ahead
  <2> QED BY <2>1, <1>1, <1>2, PartIsApart DEF AllBefore
<1>4. Ahead(kept, list, n + 2)
  BY <1>1 DEF Ahead
<1>5. \A j \in (n + 2)..Len(list) : Apart(m, list[j])
  <2> TAKE j \in (n + 2)..Len(list)
  <2>1. j \in DOMAIN list /\ n + 1 < j
    BY <1>1
  <2>2. Apart(list[n + 1], list[j])
    BY <2>1, <1>2 DEF InOrder
  <2> QED BY <2>1, <2>2, <1>1, <1>2, PartIsApart
<1>6. Ahead(Append(kept, m), list, n + 2)
  BY <1>4, <1>5, Appended DEF Ahead
<1> QED BY <1>3, <1>4, <1>5, <1>6

(***************************************************************************)
(* Keep: what of a range the lock does not cover stays before it, or all   *)
(* of it if it is of another owner.                                        *)
(***************************************************************************)
LEMMA ScanKeeps ==
  ASSUME NEW list, list \in Seq(LockRecord), InOrder(list), NEW lock, lock \in LockEntry,
         NEW n \in Nat, n + 1 <= Len(list), NEW s, Scanned(list, lock, n, s), s.go = "scan",
         NEW m, m \in LockRecord, PartOf(m, list[n + 1]), Apart(m, s.lock),
         \A o : \A b \in Bytes : Covers(m, o, b) <=> Covers(list[n + 1], o, b) /\ ~Covers(s.lock, o, b)
  PROVE  Scanned(list, lock, n + 1, [s EXCEPT !.list = Append(@, m)])
<1> DEFINE t == [s EXCEPT !.list = Append(@, m)]
<1>1. s.list \in Seq(LockRecord) /\ s \in Scan
  BY DEF Scanned, Scan
<1>2. t.list = Append(s.list, m) /\ t.lock = s.lock /\ t.go = "scan" /\ t \in Scan
  <2>1. Append(s.list, m) \in Seq(LockRecord)
    BY <1>1, Appended
  <2> QED BY <1>1, <2>1 DEF Scan
<1>3. AllBefore(s.list, m) /\ Ahead(t.list, list, n + 2)
  BY <1>1, <1>2, AheadOfNext DEF Scanned
<1>4. InOrder(t.list) /\ AllBefore(t.list, t.lock)
  BY <1>1, <1>2, <1>3, Appended DEF Scanned
<1>5. ASSUME NEW o, NEW b, b \in Bytes
      PROVE  /\ \A k : Says(t.list, o, b, k) <=> SaysUpTo(list, n + 1, o, b, k) /\ ~Covers(t.lock, o, b)
             /\ Covers(t.lock, o, b) /\ ~Covers(lock, o, b) => SaysUpTo(list, n + 1, o, b, lock.type)
  <2>1. Covers(s.lock, o, b) /\ ~Covers(lock, o, b) => SaysUpTo(list, n, o, b, lock.type)
    BY <1>5 DEF Scanned
  <2>2. \A k : Says(s.list, o, b, k) <=> SaysUpTo(list, n, o, b, k) /\ ~Covers(s.lock, o, b)
    BY <1>5 DEF Scanned
  <2>3. \A k : Says(t.list, o, b, k) <=> Says(s.list, o, b, k) \/ (Covers(m, o, b) /\ m.type = k)
    BY <1>1, <1>2, Appended
  <2>4. \A k : SaysUpTo(list, n + 1, o, b, k)
                 <=> SaysUpTo(list, n, o, b, k) \/ (Covers(list[n + 1], o, b) /\ list[n + 1].type = k)
    BY NextRange
  <2>5. m.type = list[n + 1].type
    BY DEF PartOf
  <2> QED BY <1>2, <1>5, <2>1, <2>2, <2>3, <2>4, <2>5
<1>6. n + 1 + 1 = n + 2
  OBVIOUS
<1> HIDE DEF t
<1>7. /\ t.lock.type = lock.type /\ t.lock.owner = lock.owner
      /\ t.lock.start <= lock.start /\ lock.end <= t.lock.end
  BY <1>2 DEF Scanned
<1>8. Scanned(list, lock, n + 1, t)
  BY <1>2, <1>3, <1>4, <1>5, <1>6, <1>7 DEF Scanned
<1> QED BY <1>8 DEF t

(***************************************************************************)
(* Delete: the lock covers the range, now or already.                      *)
(***************************************************************************)
LEMMA ScanDeletes ==
  ASSUME NEW list, list \in Seq(LockRecord), InOrder(list), NEW lock, lock \in LockEntry,
         NEW n \in Nat, n + 1 <= Len(list), NEW s, Scanned(list, lock, n, s), s.go = "scan",
         NEW c, c \in LockEntry, c.type = s.lock.type, c.owner = s.lock.owner,
         c.start <= s.lock.start, s.lock.end <= c.end, AllBefore(s.list, c),
         c = s.lock \/ list[n + 1].type = c.type,
         \A o : \A b \in Bytes : Covers(c, o, b) <=> Covers(s.lock, o, b) \/ Covers(list[n + 1], o, b)
  PROVE  Scanned(list, lock, n + 1, [s EXCEPT !.lock = c])
<1> DEFINE t == [s EXCEPT !.lock = c]
<1>1. s.list \in Seq(LockRecord) /\ s \in Scan /\ s.lock \in LockEntry
  BY DEF Scanned, Scan
<1>2. t.list = s.list /\ t.lock = c /\ t.go = "scan" /\ t \in Scan
  BY <1>1 DEF Scan
<1>3. list[n + 1] \in LockRecord /\ PartOf(list[n + 1], list[n + 1])
  <2>1. list[n + 1] \in LockRecord
    BY NextRange
  <2> QED BY <2>1, RangesAre DEF PartOf
<1>4. AllBefore(s.list, list[n + 1]) /\ Ahead(t.list, list, n + 2)
  BY <1>1, <1>2, <1>3, AheadOfNext DEF Scanned
<1>5. ASSUME NEW o, NEW b, b \in Bytes
      PROVE  /\ \A k : Says(t.list, o, b, k) <=> SaysUpTo(list, n + 1, o, b, k) /\ ~Covers(t.lock, o, b)
             /\ Covers(t.lock, o, b) /\ ~Covers(lock, o, b) => SaysUpTo(list, n + 1, o, b, lock.type)
  <2>1. Covers(s.lock, o, b) /\ ~Covers(lock, o, b) => SaysUpTo(list, n, o, b, lock.type)
    BY <1>5 DEF Scanned
  <2>2. \A k : Says(s.list, o, b, k) <=> SaysUpTo(list, n, o, b, k) /\ ~Covers(s.lock, o, b)
    BY <1>5 DEF Scanned
  <2>3. \A k : SaysUpTo(list, n + 1, o, b, k)
                 <=> SaysUpTo(list, n, o, b, k) \/ (Covers(list[n + 1], o, b) /\ list[n + 1].type = k)
    BY NextRange
  <2>4. \A k : Covers(list[n + 1], o, b) => ~SaysUpTo(list, n, o, b, k)
    BY <1>5, OrderIsDisjoint
  <2>5. s.lock.type = lock.type
    BY DEF Scanned
  <2>6. Covers(c, o, b) <=> Covers(s.lock, o, b) \/ Covers(list[n + 1], o, b)
    BY <1>5
  <2> QED BY <1>2, <2>1, <2>2, <2>3, <2>4, <2>5, <2>6
<1>6. n + 1 + 1 = n + 2
  OBVIOUS
<1> HIDE DEF t
<1>7. /\ t.lock.type = lock.type /\ t.lock.owner = lock.owner
      /\ t.lock.start <= lock.start /\ lock.end <= t.lock.end
  <2>1. /\ s.lock.type = lock.type /\ s.lock.owner = lock.owner
        /\ s.lock.start <= lock.start /\ lock.end <= s.lock.end
    BY DEF Scanned
  <2>2. /\ s.lock.start \in Int /\ s.lock.end \in Int /\ c.start \in Int /\ c.end \in Int
        /\ lock.start \in Int /\ lock.end \in Int
    BY <1>1, RangesAre
  <2> QED BY <1>2, <2>1, <2>2
<1>8. InOrder(t.list) /\ AllBefore(t.list, t.lock)
  BY <1>2 DEF Scanned
<1>9. Scanned(list, lock, n + 1, t)
  BY <1>2, <1>4, <1>5, <1>6, <1>7, <1>8 DEF Scanned
<1> QED BY <1>9 DEF t

(***************************************************************************)
(* The lock has been met in the list: the rest of it stays.                *)
(***************************************************************************)
LEMMA ScanRests ==
  ASSUME NEW list, list \in Seq(LockRecord), InOrder(list), NEW lock, lock \in LockEntry,
         NEW n \in Nat, n + 1 <= Len(list), NEW s, Scanned(list, lock, n, s), s.go # "scan"
  PROVE  Scanned(list, lock, n + 1, [s EXCEPT !.list = Append(@, list[n + 1])])
<1> DEFINE l == list[n + 1]
           t == [s EXCEPT !.list = Append(@, l)]
<1>1. s.list \in Seq(LockRecord) /\ s \in Scan /\ l \in LockRecord /\ PartOf(l, l)
  <2>1. s.list \in Seq(LockRecord) /\ s \in Scan
    BY DEF Scanned, Scan
  <2>2. l \in LockRecord
    BY NextRange
  <2> QED BY <2>1, <2>2, RangesAre DEF PartOf
<1>2. t.list = Append(s.list, l) /\ t.go = s.go /\ t \in Scan
  <2>1. Append(s.list, l) \in Seq(LockRecord)
    BY <1>1, Appended
  <2> QED BY <1>1, <2>1 DEF Scan
<1>3. AllBefore(s.list, l) /\ Ahead(t.list, list, n + 2)
  BY <1>1, <1>2, AheadOfNext DEF Scanned
<1>4. InOrder(t.list)
  BY <1>1, <1>2, <1>3, Appended DEF Scanned
<1>5. ASSUME NEW o, NEW b, b \in Bytes, NEW k
      PROVE  Says(t.list, o, b, k) \/ SaysFrom(list, n + 2, o, b, k) <=> Wanted(list, lock, o, b, k)
  <2>1. Says(s.list, o, b, k) \/ SaysFrom(list, n + 1, o, b, k) <=> Wanted(list, lock, o, b, k)
    BY <1>5 DEF Scanned
  <2>2. Says(t.list, o, b, k) <=> Says(s.list, o, b, k) \/ (Covers(l, o, b) /\ l.type = k)
    BY <1>1, <1>2, Appended
  <2>3. SaysFrom(list, n + 1, o, b, k) <=> SaysFrom(list, n + 2, o, b, k) \/ (Covers(l, o, b) /\ l.type = k)
    BY NextRange
  <2> QED BY <2>1, <2>2, <2>3
<1>6. n + 1 + 1 = n + 2
  OBVIOUS
<1> HIDE DEF t
<1>7. Scanned(list, lock, n + 1, t)
  BY <1>2, <1>3, <1>4, <1>5, <1>6 DEF Scanned
<1> QED BY <1>7 DEF t

(***************************************************************************)
(* Out: the next range already holds what is to be entered.                *)
(***************************************************************************)
LEMMA ScanThere ==
  ASSUME NEW list, list \in Seq(LockRecord), InOrder(list), NEW lock, lock \in LockEntry,
         NEW n \in Nat, n + 1 <= Len(list), NEW s, Scanned(list, lock, n, s), s.go = "scan",
         list[n + 1].type = s.lock.type, list[n + 1].owner = s.lock.owner,
         list[n + 1].start <= s.lock.start, s.lock.end <= list[n + 1].end
  PROVE  Scanned(list, lock, n + 1, [list |-> Append(s.list, list[n + 1]), lock |-> s.lock, go |-> "there"])
<1> DEFINE l == list[n + 1]
           t == [list |-> Append(s.list, l), lock |-> s.lock, go |-> "there"]
<1>1. s.list \in Seq(LockRecord) /\ s \in Scan /\ l \in LockRecord /\ PartOf(l, l) /\ s.lock \in LockEntry
  <2>1. s.list \in Seq(LockRecord) /\ s \in Scan /\ s.lock \in LockEntry
    BY DEF Scanned, Scan
  <2>2. l \in LockRecord
    BY NextRange
  <2> QED BY <2>1, <2>2, RangesAre DEF PartOf
<1>2. t.list = Append(s.list, l) /\ t.go = "there" /\ t \in Scan
  <2>1. Append(s.list, l) \in Seq(LockRecord)
    BY <1>1, Appended
  <2> QED BY <1>1, <2>1 DEF Scan
<1>3. AllBefore(s.list, l) /\ Ahead(t.list, list, n + 2)
  BY <1>1, <1>2, AheadOfNext DEF Scanned
<1>4. InOrder(t.list)
  BY <1>1, <1>2, <1>3, Appended DEF Scanned
<1>5. ASSUME NEW o, NEW b, b \in Bytes, NEW k
      PROVE  Says(t.list, o, b, k) \/ SaysFrom(list, n + 2, o, b, k) <=> Wanted(list, lock, o, b, k)
  <2>1. Says(s.list, o, b, k) <=> SaysUpTo(list, n, o, b, k) /\ ~Covers(s.lock, o, b)
    BY <1>5 DEF Scanned
  <2>2. Says(t.list, o, b, k) <=> Says(s.list, o, b, k) \/ (Covers(l, o, b) /\ l.type = k)
    BY <1>1, <1>2, Appended
  <2>3. SaysUpTo(list, n + 1, o, b, k) <=> SaysUpTo(list, n, o, b, k) \/ (Covers(l, o, b) /\ l.type = k)
    BY NextRange
  <2>4. Says(list, o, b, k) <=> SaysUpTo(list, n + 1, o, b, k) \/ SaysFrom(list, n + 2, o, b, k)
    BY NextRange
  <2>5. Covers(l, o, b) => ~SaysUpTo(list, n, o, b, k) /\ ~SaysFrom(list, n + 2, o, b, k)
    BY <1>5, OrderIsDisjoint
  <2>6. l.type = lock.type /\ l.type # Unlock
    BY <1>1, RangesAre DEF Scanned
  <2>7. (Covers(lock, o, b) => Covers(s.lock, o, b)) /\ (Covers(s.lock, o, b) => Covers(l, o, b))
    <3>1. /\ s.lock.owner = lock.owner /\ s.lock.start <= lock.start /\ lock.end <= s.lock.end
      BY DEF Scanned
    <3>2. /\ s.lock.start \in Int /\ s.lock.end \in Int /\ l.start \in Int /\ l.end \in Int
          /\ lock.start \in Int /\ lock.end \in Int /\ b \in Int
      BY <1>1, <1>5, RangesAre, FuseLocksAssumption DEF Bytes
    <3> QED BY <3>1, <3>2 DEF Covers
  <2> QED BY <2>1, <2>2, <2>3, <2>4, <2>5, <2>6, <2>7 DEF Wanted
<1>6. n + 1 + 1 = n + 2
  OBVIOUS
<1> HIDE DEF t
<1>7. Scanned(list, lock, n + 1, t)
  BY <1>2, <1>3, <1>4, <1>5, <1>6 DEF Scanned
<1> QED BY <1>7 DEF t

LEMMA OneKind ==
  ASSUME NEW list, list \in Seq(LockRecord), InOrder(list), NEW n \in Nat, n <= Len(list),
         NEW o, NEW b \in Bytes, NEW j, SaysUpTo(list, n, o, b, j), NEW k, SaysUpTo(list, n, o, b, k)
  PROVE  k = j /\ k # Unlock
<1>1. PICK x \in 1..n : Covers(list[x], o, b) /\ list[x].type = j
  BY DEF SaysUpTo
<1>2. PICK y \in 1..n : Covers(list[y], o, b) /\ list[y].type = k
  BY DEF SaysUpTo
<1>3. /\ x \in DOMAIN list /\ y \in DOMAIN list /\ x \in Int /\ y \in Int
      /\ list[x] \in LockRecord /\ list[y] \in LockRecord
  OBVIOUS
<1>4. list[x] \in LockEntry /\ list[y] \in LockEntry /\ list[y].type # Unlock
  BY <1>3, RangesAre
<1>5. ~(x < y) /\ ~(y < x)
  BY <1>1, <1>2, <1>3, <1>4, ApartIsDisjoint DEF InOrder
<1> QED BY <1>1, <1>2, <1>3, <1>4, <1>5

(***************************************************************************)
(* Break: the lock goes in behind what is before it, and in front of what  *)
(* of the next range it does not cover.                                    *)
(***************************************************************************)
LEMMA ScanHere ==
  ASSUME NEW list, list \in Seq(LockRecord), InOrder(list), NEW lock, lock \in LockEntry,
         NEW n \in Nat, n + 1 <= Len(list), NEW s, Scanned(list, lock, n, s), s.go = "scan",
         list[n + 1].owner = s.lock.owner,
         NEW kept, kept \in Seq(LockRecord), InOrder(kept), AllBefore(kept, s.lock), Ahead(kept, list, n + 2),
         NEW m, m \in LockRecord, PartOf(m, list[n + 1]), m.end = list[n + 1].end,
         Apart(s.lock, m), AllBefore(kept, m),
         \A o, b : b \in Bytes => \A k :
           Says(kept, o, b, k) \/ (Covers(m, o, b) /\ m.type = k)
             <=> SaysUpTo(list, n + 1, o, b, k) /\ ~Covers(s.lock, o, b)
  PROVE  Scanned(list, lock, n + 1, [list |-> kept \o New(s.lock) \o <<m>>, lock |-> s.lock, go |-> "here"])
<1> DEFINE with == kept \o New(s.lock)
           t == [list |-> with \o <<m>>, lock |-> s.lock, go |-> "here"]
<1>1. s.list \in Seq(LockRecord) /\ s \in Scan /\ s.lock \in LockEntry
  BY DEF Scanned, Scan
<1>2. \A x \in Seq(LockRecord) : x \o <<>> = x /\ \A y \in LockRecord : x \o <<y>> = Append(x, y)
  OBVIOUS
<1>3. IF s.lock.type = Unlock THEN with = kept ELSE s.lock \in LockRecord /\ with = Append(kept, s.lock)
  <2>1. s.lock.type # Unlock => s.lock \in LockRecord
    BY <1>1, RangesAre
  <2> QED BY <1>2, <2>1 DEF New
<1> HIDE DEF with
<1>4. with \in Seq(LockRecord) /\ InOrder(with) /\ AllBefore(with, m)
  <2>1. CASE s.lock.type = Unlock
    BY <2>1, <1>3
  <2>2. CASE s.lock.type # Unlock
    <3>1. /\ Append(kept, s.lock) \in Seq(LockRecord) /\ InOrder(Append(kept, s.lock))
          /\ AllBefore(Append(kept, s.lock), m)
      BY <2>2, <1>3, Appended
    <3> QED BY <2>2, <3>1, <1>3
  <2> QED BY <2>1, <2>2
<1>5. \A o, b, k : Says(with, o, b, k)
                     <=> Says(kept, o, b, k) \/ (s.lock.type # Unlock /\ Covers(s.lock, o, b) /\ s.lock.type = k)
  <2>1. CASE s.lock.type = Unlock
    BY <2>1, <1>3
  <2>2. CASE s.lock.type # Unlock
    <3>1. \A o, b, k : Says(Append(kept, s.lock), o, b, k)
                         <=> Says(kept, o, b, k) \/ (Covers(s.lock, o, b) /\ s.lock.type = k)
      BY <2>2, <1>3, Appended
    <3> QED BY <2>2, <3>1, <1>3, ZenonT(60)
  <2> QED BY <2>1, <2>2
<1>6. \A j \in (n + 2)..Len(list) : Apart(s.lock, list[j])
  <2> TAKE j \in (n + 2)..Len(list)
  <2>1. Len(list) \in Nat /\ j \in DOMAIN list /\ n + 1 \in DOMAIN list /\ n + 1 < j
    OBVIOUS
  <2>2. list[j] \in LockRecord /\ list[n + 1] \in LockRecord /\ Apart(list[n + 1], list[j])
    BY <2>1 DEF InOrder
  <2>3. /\ list[j].start \in Int /\ s.lock.end \in Int /\ m.start \in Int /\ m.end \in Int /\ m.start <= m.end
    BY <2>2, <1>1, RangesAre
  <2>4. list[j].owner = s.lock.owner => m.end < list[j].start
    BY <2>2 DEF Apart
  <2>5. s.lock.end < m.start
    BY DEF Apart, PartOf
  <2> QED BY <2>3, <2>4, <2>5, SMTT(30) DEF Apart
<1>7. Ahead(with, list, n + 2)
  <2>1. \A j \in (n + 2)..Len(list) : AllBefore(kept, list[j])
    BY DEF Ahead
  <2>2. CASE s.lock.type = Unlock
    BY <2>1, <2>2, <1>3 DEF Ahead
  <2>3. CASE s.lock.type # Unlock
    <3>1. \A j \in (n + 2)..Len(list) : AllBefore(Append(kept, s.lock), list[j])
      BY <2>1, <2>3, <1>3, <1>6, Appended
    <3> QED BY <2>3, <3>1, <1>3 DEF Ahead
  <2> QED BY <2>2, <2>3
<1>8. t.list = Append(with, m) /\ t.list \in Seq(LockRecord) /\ InOrder(t.list) /\ Ahead(t.list, list, n + 2)
  <2>1. t.list = Append(with, m)
    BY <1>2, <1>4
  <2>2. \A j \in (n + 2)..Len(list) : Apart(m, list[j])
    BY <1>1, AheadOfNext DEF Scanned
  <2>3. Append(with, m) \in Seq(LockRecord) /\ InOrder(Append(with, m))
    BY <1>4, Appended
  <2>4. \A j \in (n + 2)..Len(list) : AllBefore(Append(with, m), list[j])
    BY <2>2, <1>4, <1>7, Appended DEF Ahead
  <2> QED BY <2>1, <2>3, <2>4 DEF Ahead
<1>9. t \in Scan /\ t.go = "here"
  BY <1>8, <1>1 DEF Scan
<1>10. ASSUME NEW o, NEW b, b \in Bytes, NEW k
      PROVE  Says(t.list, o, b, k) \/ SaysFrom(list, n + 2, o, b, k) <=> Wanted(list, lock, o, b, k)
  <2>1. Says(t.list, o, b, k) <=> Says(with, o, b, k) \/ (Covers(m, o, b) /\ m.type = k)
    <3>1. Says(Append(with, m), o, b, k) <=> Says(with, o, b, k) \/ (Covers(m, o, b) /\ m.type = k)
      BY <1>4, Appended
    <3> QED BY <3>1, <1>8
  <2>2. Says(kept, o, b, k) \/ (Covers(m, o, b) /\ m.type = k)
          <=> SaysUpTo(list, n + 1, o, b, k) /\ ~Covers(s.lock, o, b)
    BY <1>10
  <2>3. Says(with, o, b, k)
          <=> Says(kept, o, b, k) \/ (s.lock.type # Unlock /\ Covers(s.lock, o, b) /\ s.lock.type = k)
    BY <1>5
  <2>4. Says(list, o, b, k) <=> SaysUpTo(list, n + 1, o, b, k) \/ SaysFrom(list, n + 2, o, b, k)
    BY NextRange
  <2>5. Covers(s.lock, o, b) /\ ~Covers(lock, o, b) => SaysUpTo(list, n, o, b, lock.type)
    BY <1>10 DEF Scanned
  <2>6. s.lock.type = lock.type
    BY DEF Scanned
  <2>7. SaysUpTo(list, n + 1, o, b, k)
          <=> SaysUpTo(list, n, o, b, k) \/ (Covers(list[n + 1], o, b) /\ list[n + 1].type = k)
    BY NextRange
  <2>8. Covers(list[n + 1], o, b) => ~SaysUpTo(list, n, o, b, lock.type)
    BY <1>10, OrderIsDisjoint
  <2>9. Covers(s.lock, o, b) => ~SaysFrom(list, n + 2, o, b, k)
    <3> SUFFICES ASSUME NEW j \in (n + 2)..Len(list), Covers(list[j], o, b), Covers(s.lock, o, b) PROVE FALSE
      BY DEF SaysFrom
    <3>1. Len(list) \in Nat /\ list[j] \in LockRecord
      OBVIOUS
    <3>2. Apart(s.lock, list[j]) /\ list[j] \in LockEntry
      BY <3>1, <1>6, RangesAre
    <3> QED BY <3>2, <1>1, <1>10, ApartIsDisjoint
  <2>10. SaysUpTo(list, n, o, b, lock.type) =>
           /\ lock.type # Unlock
           /\ SaysUpTo(list, n, o, b, k) => k = lock.type
    <3>1. n <= Len(list)
      OBVIOUS
    <3> QED BY <3>1, <1>10, OneKind
  <2>11. Covers(lock, o, b) => Covers(s.lock, o, b)
    <3>1. /\ s.lock.owner = lock.owner /\ s.lock.start <= lock.start /\ lock.end <= s.lock.end
      BY DEF Scanned
    <3>2. /\ s.lock.start \in Int /\ s.lock.end \in Int /\ lock.start \in Int /\ lock.end \in Int /\ b \in Int
      BY <1>1, <1>10, RangesAre, FuseLocksAssumption, SMTT(30) DEF Bytes
    <3> QED BY <3>1, <3>2 DEF Covers
  <2>12. CASE Covers(lock, o, b)
    BY <2>1, <2>2, <2>3, <2>6, <2>9, <2>11, <2>12 DEF Wanted
  <2>13. CASE ~Covers(lock, o, b) /\ Covers(s.lock, o, b)
    BY <2>1, <2>2, <2>3, <2>4, <2>5, <2>6, <2>7, <2>8, <2>9, <2>10, <2>13 DEF Wanted
  <2>14. CASE ~Covers(lock, o, b) /\ ~Covers(s.lock, o, b)
    BY <2>1, <2>2, <2>3, <2>4, <2>14 DEF Wanted
  <2> QED BY <2>12, <2>13, <2>14
<1>11. n + 1 + 1 = n + 2
  OBVIOUS
<1> HIDE DEF t
<1>12. Scanned(list, lock, n + 1, t)
  BY <1>8, <1>9, <1>10, <1>11 DEF Scanned
<1> QED BY <1>12 DEF t, with

LEMMA ScanExcept ==
  ASSUME NEW s \in Scan, NEW x
  PROVE  /\ s = [list |-> s.list, lock |-> s.lock, go |-> s.go]
         /\ [s EXCEPT !.list = x] = [list |-> x, lock |-> s.lock, go |-> s.go]
         /\ [s EXCEPT !.lock = x] = [list |-> s.list, lock |-> x, go |-> s.go]
<1>1. s = [list |-> s.list, lock |-> s.lock, go |-> s.go]
  BY DEF Scan
<1>2. PICK a, b, c : s = [list |-> a, lock |-> b, go |-> c] /\ a = s.list /\ b = s.lock /\ c = s.go
  BY <1>1
<1>3. [s EXCEPT !.list = x] = [list |-> x, lock |-> b, go |-> c]
  BY <1>2
<1>4. [s EXCEPT !.lock = x] = [list |-> a, lock |-> x, go |-> c]
  BY <1>2
<1> QED BY <1>1, <1>2, <1>3, <1>4

(***************************************************************************)
(* What the loop makes of a range, as the lemmas above have it.            *)
(***************************************************************************)
Meets(l, k) == IF l.type = k.type THEN Join(l, k) ELSE Cut(l, k)

LEMMA EnterMeets ==
  ASSUME NEW s \in Scan, NEW l \in LockRecord, s.go = "scan", l.owner = s.lock.owner,
         NEW c, c = Meets(l, s.lock)
  PROVE  /\ s.list \in Seq(LockRecord) /\ s.list \o <<>> = s.list
         /\ \A m \in LockRecord : s.list \o <<m>> = Append(s.list, m) /\ s.list \o <<m>> \o <<>> = Append(s.list, m)
         /\ Enter(s, l) =
              [list |-> s.list \o c.before \o (IF c.go = "here" THEN New(c.lock) ELSE <<>>) \o c.after,
               lock |-> c.lock, go |-> c.go]
<1>1. s.list \in Seq(LockRecord)
  BY DEF Scan
<1>2. \A x \in Seq(LockRecord) : x \o <<>> = x /\ \A y \in LockRecord : x \o <<y>> = Append(x, y) /\ x \o <<y>> \in Seq(LockRecord)
  OBVIOUS
<1>3. Enter(s, l) =
        [list |-> s.list \o c.before \o (IF c.go = "here" THEN New(c.lock) ELSE <<>>) \o c.after,
         lock |-> c.lock, go |-> c.go]
  BY DEF Enter, Meets
<1> QED BY <1>1, <1>2, <1>3

LEMMA EnterKeeps ==
  ASSUME NEW s \in Scan, NEW l \in LockRecord, s.go = "scan", l.owner = s.lock.owner,
         NEW m \in LockRecord, Meets(l, s.lock) = Keep(m, s.lock)
  PROVE  Enter(s, l) = [s EXCEPT !.list = Append(@, m)]
<1> DEFINE c == Keep(m, s.lock)
<1>1. c.before = <<m>> /\ c.after = <<>> /\ c.lock = s.lock /\ c.go = "scan"
  BY DEF Keep
<1> HIDE DEF c
<1>2. c = Meets(l, s.lock)
  BY DEF c
<1>3. Enter(s, l) = [list |-> s.list \o <<m>> \o <<>> \o <<>>, lock |-> s.lock, go |-> "scan"]
  BY <1>1, <1>2, EnterMeets
<1>4. s.list \o <<m>> \o <<>> \o <<>> = Append(s.list, m)
  <2>1. s.list \in Seq(LockRecord)
    BY DEF Scan
  <2> QED BY <2>1
<1>5. [s EXCEPT !.list = Append(@, m)] = [list |-> Append(s.list, m), lock |-> s.lock, go |-> "scan"]
  BY ScanExcept
<1> QED BY <1>3, <1>4, <1>5

LEMMA EnterDeletes ==
  ASSUME NEW s \in Scan, NEW l \in LockRecord, s.go = "scan", l.owner = s.lock.owner,
         NEW k, Meets(l, s.lock) = Delete(k)
  PROVE  Enter(s, l) = [s EXCEPT !.lock = k]
<1> DEFINE c == Delete(k)
<1>1. c.before = <<>> /\ c.after = <<>> /\ c.lock = k /\ c.go = "scan"
  BY DEF Delete
<1> HIDE DEF c
<1>2. c = Meets(l, s.lock)
  BY DEF c
<1>3. Enter(s, l) = [list |-> s.list \o <<>> \o <<>> \o <<>>, lock |-> k, go |-> "scan"]
  BY <1>1, <1>2, EnterMeets
<1>4. s.list \o <<>> \o <<>> \o <<>> = s.list
  <2>1. s.list \in Seq(LockRecord)
    BY DEF Scan
  <2> QED BY <2>1
<1>5. [s EXCEPT !.lock = k] = [list |-> s.list, lock |-> k, go |-> "scan"]
  BY DEF Scan
<1> QED BY <1>3, <1>4, <1>5

LEMMA EnterStops ==
  ASSUME NEW s \in Scan, NEW l \in LockRecord, s.go = "scan", l.owner = s.lock.owner,
         NEW m \in LockRecord, Meets(l, s.lock) = Stop(s.lock, <<m>>)
  PROVE  Enter(s, l) = [list |-> s.list \o New(s.lock) \o <<m>>, lock |-> s.lock, go |-> "here"]
<1> DEFINE c == Stop(s.lock, <<m>>)
<1>1. c.before = <<>> /\ c.after = <<m>> /\ c.lock = s.lock /\ c.go = "here"
  BY DEF Stop
<1> HIDE DEF c
<1>2. c = Meets(l, s.lock)
  BY DEF c
<1>3. Enter(s, l) = [list |-> s.list \o <<>> \o New(s.lock) \o <<m>>, lock |-> s.lock, go |-> "here"]
  BY <1>1, <1>2, EnterMeets
<1>4. s.list \o <<>> = s.list
  BY EnterMeets
<1> QED BY <1>3, <1>4

(***************************************************************************)
(* Break at a range, before which nothing is cut off.                      *)
(***************************************************************************)
LEMMA ScanStops ==
  ASSUME NEW list, list \in Seq(LockRecord), InOrder(list), NEW lock, lock \in LockEntry,
         NEW n \in Nat, n + 1 <= Len(list), NEW s, Scanned(list, lock, n, s), s.go = "scan",
         list[n + 1].owner = s.lock.owner,
         NEW m, m \in LockRecord, PartOf(m, list[n + 1]), m.end = list[n + 1].end, Apart(s.lock, m),
         \A o : \A b \in Bytes : Covers(m, o, b) <=> Covers(list[n + 1], o, b) /\ ~Covers(s.lock, o, b)
  PROVE  Scanned(list, lock, n + 1, [list |-> s.list \o New(s.lock) \o <<m>>, lock |-> s.lock, go |-> "here"])
<1>1. s.list \in Seq(LockRecord) /\ InOrder(s.list) /\ AllBefore(s.list, s.lock) /\ Ahead(s.list, list, n + 1)
  BY DEF Scanned, Scan
<1>2. AllBefore(s.list, m) /\ Ahead(s.list, list, n + 2)
  BY <1>1, AheadOfNext
<1>3. ASSUME NEW o, NEW b, b \in Bytes, NEW k
      PROVE  Says(s.list, o, b, k) \/ (Covers(m, o, b) /\ m.type = k)
               <=> SaysUpTo(list, n + 1, o, b, k) /\ ~Covers(s.lock, o, b)
  <2>1. Says(s.list, o, b, k) <=> SaysUpTo(list, n, o, b, k) /\ ~Covers(s.lock, o, b)
    BY <1>3 DEF Scanned
  <2>2. SaysUpTo(list, n + 1, o, b, k)
          <=> SaysUpTo(list, n, o, b, k) \/ (Covers(list[n + 1], o, b) /\ list[n + 1].type = k)
    BY NextRange
  <2>3. m.type = list[n + 1].type
    BY DEF PartOf
  <2> QED BY <1>3, <2>1, <2>2, <2>3
<1> QED BY <1>1, <1>2, <1>3, ScanHere

(***************************************************************************)
(* The cases of a range l of the same type as the lock k.                  *)
(***************************************************************************)
Joined(l, k) ==
  [k EXCEPT !.start = IF l.start < @ THEN l.start ELSE @, !.end = IF @ < l.end THEN l.end ELSE @]

LEMMA JoinIs ==
  ASSUME NEW l, NEW k, l.start \in Int, l.end \in Int, k.start \in Int, k.end \in Int,
         l.start <= l.end, k.start <= k.end
  PROVE  /\ l.end < k.start - 1 => Join(l, k) = Keep(l, k)
         /\ ~(l.end < k.start - 1) /\ k.end < l.start - 1 => Join(l, k) = Stop(k, <<l>>)
         /\ ~(l.end < k.start - 1) /\ ~(k.end < l.start - 1) /\ l.start <= k.start /\ k.end <= l.end =>
              Join(l, k) = [before |-> <<>>, after |-> <<l>>, lock |-> k, go |-> "there"]
         /\ ~(l.end < k.start - 1) /\ ~(k.end < l.start - 1) /\ ~(l.start <= k.start /\ k.end <= l.end) =>
              Join(l, k) = Delete(Joined(l, k))
BY DEF Join, Joined

LEMMA JoinedIs ==
  ASSUME NEW l, l \in LockRecord, NEW k, k \in LockEntry
  PROVE  /\ Joined(l, k) \in LockEntry /\ Joined(l, k).type = k.type /\ Joined(l, k).owner = k.owner
         /\ Joined(l, k).start = IF l.start < k.start THEN l.start ELSE k.start
         /\ Joined(l, k).end = IF k.end < l.end THEN l.end ELSE k.end
<1> DEFINE j == Joined(l, k)
<1>1. /\ j.type = k.type /\ j.owner = k.owner
      /\ j.start = (IF l.start < k.start THEN l.start ELSE k.start)
      /\ j.end = (IF k.end < l.end THEN l.end ELSE k.end)
      /\ j \in [type : Types, start : Bytes, end : Bytes, owner : Owners]
  <2>1. /\ l.start \in Bytes /\ l.end \in Bytes /\ k \in [type : Types, start : Bytes, end : Bytes, owner : Owners]
    BY RangesAre DEF LockEntry
  <2> QED BY <2>1 DEF Joined
<1>2. /\ l.start \in Int /\ l.end \in Int /\ k.start \in Int /\ k.end \in Int /\ l.start <= l.end /\ k.start <= k.end
  BY RangesAre
<1> HIDE DEF j
<1>3. j.start <= j.end
  BY <1>1, <1>2
<1>4. j \in LockEntry
  BY <1>1, <1>3 DEF LockEntry
<1> QED BY <1>1, <1>4 DEF j

(***************************************************************************)
(* locks_insert meets a range of the same type.                            *)
(***************************************************************************)
LEMMA ScanJoins ==
  ASSUME NEW list, list \in Seq(LockRecord), InOrder(list), NEW lock, lock \in LockEntry,
         NEW n \in Nat, n + 1 <= Len(list), NEW s, Scanned(list, lock, n, s), s.go = "scan",
         list[n + 1].owner = s.lock.owner, list[n + 1].type = s.lock.type
  PROVE  Scanned(list, lock, n + 1, Enter(s, list[n + 1]))
<1>1. PICK l : l = list[n + 1]
  OBVIOUS
<1> DEFINE c == Join(l, s.lock)
<1>2. s \in Scan /\ s.lock \in LockEntry /\ s.list \in Seq(LockRecord) /\ l \in LockRecord
  <2>1. l \in LockRecord
    BY <1>1, NextRange
  <2> QED BY <2>1 DEF Scanned, Scan
<1>3. PICK a \in Int : a = l.start
  BY <1>2, RangesAre
<1>4. PICK e \in Int : e = l.end
  BY <1>2, RangesAre
<1>5. PICK ka \in Int : ka = s.lock.start
  BY <1>2, RangesAre
<1>6. PICK ke \in Int : ke = s.lock.end
  BY <1>2, RangesAre
<1>7. a <= e /\ ka <= ke
  BY <1>2, <1>3, <1>4, <1>5, <1>6, RangesAre
<1>8. \A b \in Bytes : b \in Int
  BY FuseLocksAssumption DEF Bytes
<1>9. PartOf(l, l)
  BY <1>3, <1>4 DEF PartOf
<1>10. Meets(l, s.lock) = c /\ l.owner = s.lock.owner
  BY <1>1 DEF Meets
<1>11. CASE e < ka - 1
  <2>1. c = Keep(l, s.lock)
    BY <1>11, <1>3, <1>4, <1>5, <1>6, <1>7, JoinIs
  <2>2. Enter(s, l) = [s EXCEPT !.list = Append(@, l)]
    BY <1>2, <1>10, <2>1, EnterKeeps
  <2>3. Apart(l, s.lock)
    BY <1>11, <1>4, <1>5 DEF Apart
  <2>4. \A o : \A b \in Bytes : Covers(l, o, b) <=> Covers(l, o, b) /\ ~Covers(s.lock, o, b)
    BY <1>11, <1>3, <1>4, <1>5, <1>6, <1>8 DEF Covers
  <2>5. /\ PartOf(l, list[n + 1]) /\ Apart(l, s.lock)
        /\ \A o : \A b \in Bytes : Covers(l, o, b) <=> Covers(list[n + 1], o, b) /\ ~Covers(s.lock, o, b)
    BY <1>1, <1>9, <2>3, <2>4
  <2>6. Scanned(list, lock, n + 1, [s EXCEPT !.list = Append(@, l)])
    BY <1>2, <2>5, ScanKeeps
  <2> QED BY <1>1, <2>2, <2>6
<1>12. CASE ~(e < ka - 1) /\ ke < a - 1
  <2>1. c = Stop(s.lock, <<l>>)
    BY <1>12, <1>3, <1>4, <1>5, <1>6, <1>7, JoinIs
  <2>2. Enter(s, l) = [list |-> s.list \o New(s.lock) \o <<l>>, lock |-> s.lock, go |-> "here"]
    BY <1>2, <1>10, <2>1, EnterStops
  <2>3. Apart(s.lock, l)
    BY <1>12, <1>3, <1>6 DEF Apart
  <2>4. \A o : \A b \in Bytes : Covers(l, o, b) <=> Covers(l, o, b) /\ ~Covers(s.lock, o, b)
    BY <1>12, <1>3, <1>4, <1>5, <1>6, <1>8 DEF Covers
  <2>5. /\ PartOf(l, list[n + 1]) /\ Apart(s.lock, l) /\ l.end = list[n + 1].end
        /\ \A o : \A b \in Bytes : Covers(l, o, b) <=> Covers(list[n + 1], o, b) /\ ~Covers(s.lock, o, b)
    BY <1>1, <1>9, <2>3, <2>4
  <2>6. Scanned(list, lock, n + 1, [list |-> s.list \o New(s.lock) \o <<l>>, lock |-> s.lock, go |-> "here"])
    BY <1>2, <2>5, ScanStops
  <2> QED BY <1>1, <2>2, <2>6
<1>13. CASE ~(e < ka - 1) /\ ~(ke < a - 1) /\ a <= ka /\ ke <= e
  <2>1. c = [before |-> <<>>, after |-> <<l>>, lock |-> s.lock, go |-> "there"]
    BY <1>13, <1>3, <1>4, <1>5, <1>6, <1>7, JoinIs
  <2>2. Enter(s, l) = [list |-> Append(s.list, l), lock |-> s.lock, go |-> "there"]
    <3>1. Enter(s, l) = [list |-> s.list \o <<>> \o <<>> \o <<l>>, lock |-> s.lock, go |-> "there"]
      BY <1>1, <2>1 DEF Enter
    <3>2. s.list \o <<>> \o <<>> \o <<l>> = Append(s.list, l)
      BY <1>2
    <3> QED BY <3>1, <3>2
  <2> QED BY <1>1, <1>13, <1>3, <1>4, <1>5, <1>6, <2>2, ScanThere
<1>14. CASE ~(e < ka - 1) /\ ~(ke < a - 1) /\ ~(a <= ka /\ ke <= e)
  <2> DEFINE k == Joined(l, s.lock)
  <2>1. c = Delete(k)
    BY <1>14, <1>3, <1>4, <1>5, <1>6, <1>7, JoinIs
  <2>2. Enter(s, l) = [s EXCEPT !.lock = k]
    BY <1>2, <1>10, <2>1, EnterDeletes
  <2>3. /\ k.type = s.lock.type /\ k.owner = s.lock.owner
        /\ k.start = (IF a < ka THEN a ELSE ka) /\ k.end = (IF ke < e THEN e ELSE ke)
    BY <1>2, <1>3, <1>4, <1>5, <1>6, JoinedIs
  <2>4. k \in LockEntry
    BY <1>2, JoinedIs
  <2> HIDE DEF k
  <2>5. k.start <= s.lock.start /\ s.lock.end <= k.end
    BY <1>5, <1>6, <2>3
  <2>6. AllBefore(s.list, k)
    <3>1. AllBefore(s.list, s.lock) /\ AllBefore(s.list, l)
      BY <1>1, <1>2, <1>9, AheadOfNext DEF Scanned
    <3> SUFFICES ASSUME NEW i \in DOMAIN s.list PROVE Apart(s.list[i], k)
      BY DEF AllBefore
    <3>2. Apart(s.list[i], s.lock) /\ Apart(s.list[i], l)
      BY <3>1 DEF AllBefore
    <3>3. s.list[i] \in LockRecord
      BY <1>2
    <3>4. PICK end \in Int : end = s.list[i].end
      BY <3>3, RangesAre
    <3>5. k.start = s.lock.start \/ k.start = l.start
      BY <1>3, <1>5, <2>3
    <3>6. k.owner = s.lock.owner /\ k.owner = l.owner /\ k.type = s.lock.type /\ k.type = l.type
      BY <1>1, <2>3
    <3> QED BY <3>2, <3>5, <3>6 DEF Apart
  <2>7. \A o : \A b \in Bytes : Covers(k, o, b) <=> Covers(s.lock, o, b) \/ Covers(l, o, b)
    <3> TAKE o
    <3> TAKE b \in Bytes
    <3>1. PICK kb \in Int, kd \in Int : kb = k.start /\ kd = k.end
      BY <2>3
    <3>2. kb = (IF a < ka THEN a ELSE ka) /\ kd = (IF ke < e THEN e ELSE ke)
      BY <2>3, <3>1
    <3>3. b \in Int
      BY <1>8
    <3>4. (kb <= b /\ b <= kd) <=> (ka <= b /\ b <= ke) \/ (a <= b /\ b <= e)
      BY <1>7, <1>14, <3>2, <3>3
    <3>5. k.owner = s.lock.owner /\ l.owner = s.lock.owner
      BY <1>1, <2>3
    <3> QED BY <1>3, <1>4, <1>5, <1>6, <3>1, <3>4, <3>5 DEF Covers
  <2>8. /\ list[n + 1].type = k.type
        /\ \A o : \A b \in Bytes : Covers(k, o, b) <=> Covers(s.lock, o, b) \/ Covers(list[n + 1], o, b)
    BY <1>1, <2>3, <2>7
  <2>9. Scanned(list, lock, n + 1, [s EXCEPT !.lock = k])
    BY <2>3, <2>4, <2>5, <2>6, <2>8, ScanDeletes
  <2> QED BY <1>1, <2>2, <2>9
<1> QED BY <1>11, <1>12, <1>13, <1>14

(***************************************************************************)
(* The cases of a range l of another type than the lock k; what of it is   *)
(* before the lock, and what behind.                                       *)
(***************************************************************************)
FrontOf(l, k) == [l EXCEPT !.end = k.start - 1]
BackOf(l, k) == [l EXCEPT !.start = k.end + 1]

LEMMA CutIs ==
  ASSUME NEW l, NEW k, l.start \in Int, l.end \in Int, k.start \in Int, k.end \in Int,
         l.start <= l.end, k.start <= k.end
  PROVE  /\ l.end < k.start => Cut(l, k) = Keep(l, k)
         /\ k.end < l.start => Cut(l, k) = Stop(k, <<l>>)
         /\ k.start <= l.start /\ l.end <= k.end => Cut(l, k) = Delete(k)
         /\ l.start < k.start /\ k.start <= l.end /\ l.end <= k.end => Cut(l, k) = Keep(FrontOf(l, k), k)
         /\ k.start <= l.start /\ l.start <= k.end /\ k.end < l.end => Cut(l, k) = Stop(k, <<BackOf(l, k)>>)
         /\ l.start < k.start /\ k.end < l.end =>
              Cut(l, k) = [before |-> <<FrontOf(l, k)>>, after |-> <<BackOf(l, k)>>, lock |-> k, go |-> "here"]
BY DEF Cut, FrontOf, BackOf

LEMMA FrontIs ==
  ASSUME NEW l, l \in LockRecord, NEW k, k \in LockEntry, l.start < k.start, k.start <= l.end, l.type # k.type
  PROVE  /\ FrontOf(l, k) \in LockRecord /\ PartOf(FrontOf(l, k), l) /\ Apart(FrontOf(l, k), k)
         /\ FrontOf(l, k).end = k.start - 1 /\ FrontOf(l, k).start = l.start
<1> DEFINE f == FrontOf(l, k)
<1>1. /\ l.start \in Int /\ l.end \in Int /\ k.start \in Int /\ k.end \in Int /\ l.start <= l.end /\ k.start <= k.end
      /\ l.start \in 0..MaxByte /\ l.end \in 0..MaxByte /\ k.start \in 0..MaxByte
  BY RangesAre DEF Bytes
<1>2. k.start - 1 \in 0..MaxByte
  BY <1>1, FuseLocksAssumption
<1>3. /\ f.type = l.type /\ f.owner = l.owner /\ f.start = l.start /\ f.end = k.start - 1
      /\ f \in [type : Kinds, start : Bytes, end : Bytes, owner : Owners]
  <2>1. l \in [type : Kinds, start : Bytes, end : Bytes, owner : Owners] /\ k.start - 1 \in Bytes
    BY <1>2 DEF LockRecord, Bytes
  <2> QED BY <2>1 DEF FrontOf
<1> HIDE DEF f
<1>4. f \in LockRecord
  BY <1>1, <1>3 DEF LockRecord
<1>5. PartOf(f, l) /\ Apart(f, k)
  BY <1>1, <1>3 DEF PartOf, Apart
<1> QED BY <1>3, <1>4, <1>5 DEF f

LEMMA BackIs ==
  ASSUME NEW l, l \in LockRecord, NEW k, k \in LockEntry, l.start <= k.end, k.end < l.end, l.type # k.type
  PROVE  /\ BackOf(l, k) \in LockRecord /\ PartOf(BackOf(l, k), l) /\ Apart(k, BackOf(l, k))
         /\ BackOf(l, k).end = l.end /\ BackOf(l, k).start = k.end + 1
<1> DEFINE f == BackOf(l, k)
<1>1. /\ l.start \in Int /\ l.end \in Int /\ k.start \in Int /\ k.end \in Int /\ l.start <= l.end /\ k.start <= k.end
      /\ l.start \in 0..MaxByte /\ l.end \in 0..MaxByte /\ k.end \in 0..MaxByte
  BY RangesAre DEF Bytes
<1>2. k.end + 1 \in 0..MaxByte
  BY <1>1, FuseLocksAssumption
<1>3. /\ f.type = l.type /\ f.owner = l.owner /\ f.start = k.end + 1 /\ f.end = l.end
      /\ f \in [type : Kinds, start : Bytes, end : Bytes, owner : Owners]
  <2>1. l \in [type : Kinds, start : Bytes, end : Bytes, owner : Owners] /\ k.end + 1 \in Bytes
    BY <1>2 DEF LockRecord, Bytes
  <2> QED BY <2>1 DEF BackOf
<1> HIDE DEF f
<1>4. f \in LockRecord
  BY <1>1, <1>3 DEF LockRecord
<1>5. PartOf(f, l) /\ Apart(k, f)
  BY <1>1, <1>3 DEF PartOf, Apart
<1> QED BY <1>3, <1>4, <1>5 DEF f

(***************************************************************************)
(* locks_insert meets a range of another type.                             *)
(***************************************************************************)
LEMMA ScanCuts ==
  ASSUME NEW list, list \in Seq(LockRecord), InOrder(list), NEW lock, lock \in LockEntry,
         NEW n \in Nat, n + 1 <= Len(list), NEW s, Scanned(list, lock, n, s), s.go = "scan",
         list[n + 1].owner = s.lock.owner, list[n + 1].type # s.lock.type
  PROVE  Scanned(list, lock, n + 1, Enter(s, list[n + 1]))
<1>1. PICK l : l = list[n + 1]
  OBVIOUS
<1>2. PICK k : k = s.lock
  OBVIOUS
<1>3. s \in Scan /\ k \in LockEntry /\ s.list \in Seq(LockRecord) /\ l \in LockRecord
  <2>1. l \in LockRecord
    BY <1>1, NextRange
  <2> QED BY <1>2, <2>1 DEF Scanned, Scan
<1>4. PICK a \in Int, e \in Int : a = l.start /\ e = l.end
  BY <1>3, RangesAre
<1>5. PICK ka \in Int, ke \in Int : ka = k.start /\ ke = k.end
  BY <1>3, RangesAre
<1>6. a <= e /\ ka <= ke
  BY <1>3, <1>4, <1>5, RangesAre
<1>7. \A b \in Bytes : b \in Int
  BY FuseLocksAssumption DEF Bytes
<1>8. PartOf(l, l) /\ l.owner = k.owner /\ l.type # k.type
  BY <1>1, <1>2, <1>4 DEF PartOf
<1>9. Meets(l, s.lock) = Cut(l, k)
  BY <1>2, <1>8 DEF Meets
<1>10. CASE e < ka
  <2>1. Enter(s, l) = [s EXCEPT !.list = Append(@, l)]
    <3>1. Cut(l, k) = Keep(l, k)
      BY <1>4, <1>5, <1>6, <1>10, CutIs
    <3> QED BY <1>2, <1>3, <1>8, <1>9, <3>1, EnterKeeps
  <2>2. Apart(l, k)
    BY <1>4, <1>5, <1>8, <1>10 DEF Apart
  <2>3. \A o : \A b \in Bytes : Covers(l, o, b) <=> Covers(l, o, b) /\ ~Covers(k, o, b)
    BY <1>4, <1>5, <1>7, <1>10 DEF Covers
  <2>4. /\ PartOf(l, list[n + 1]) /\ Apart(l, s.lock)
        /\ \A o : \A b \in Bytes : Covers(l, o, b) <=> Covers(list[n + 1], o, b) /\ ~Covers(s.lock, o, b)
    BY <1>1, <1>2, <1>8, <2>2, <2>3
  <2>5. Scanned(list, lock, n + 1, [s EXCEPT !.list = Append(@, l)])
    BY <1>3, <2>4, ScanKeeps
  <2> QED BY <1>1, <2>1, <2>5
<1>11. CASE ke < a
  <2>1. Enter(s, l) = [list |-> s.list \o New(k) \o <<l>>, lock |-> k, go |-> "here"]
    <3>1. Cut(l, k) = Stop(k, <<l>>)
      BY <1>4, <1>5, <1>6, <1>11, CutIs
    <3> QED BY <1>2, <1>3, <1>8, <1>9, <3>1, EnterStops
  <2>2. Apart(k, l)
    BY <1>4, <1>5, <1>8, <1>11 DEF Apart
  <2>3. \A o : \A b \in Bytes : Covers(l, o, b) <=> Covers(l, o, b) /\ ~Covers(k, o, b)
    BY <1>4, <1>5, <1>7, <1>11 DEF Covers
  <2>4. /\ PartOf(l, list[n + 1]) /\ Apart(s.lock, l) /\ l.end = list[n + 1].end
        /\ \A o : \A b \in Bytes : Covers(l, o, b) <=> Covers(list[n + 1], o, b) /\ ~Covers(s.lock, o, b)
    BY <1>1, <1>2, <1>8, <2>2, <2>3
  <2>5. Scanned(list, lock, n + 1, [list |-> s.list \o New(s.lock) \o <<l>>, lock |-> s.lock, go |-> "here"])
    BY <1>1, <1>3, <1>8, <2>4, ScanStops
  <2> QED BY <1>1, <1>2, <2>1, <2>5
<1>12. CASE ka <= a /\ e <= ke
  <2>1. Enter(s, l) = [s EXCEPT !.lock = k]
    <3>1. Cut(l, k) = Delete(k)
      BY <1>4, <1>5, <1>6, <1>12, CutIs
    <3> QED BY <1>2, <1>3, <1>8, <1>9, <3>1, EnterDeletes
  <2>2. AllBefore(s.list, k) /\ k.start <= k.start /\ k.end <= k.end
    BY <1>2, <1>5 DEF Scanned
  <2>3. \A o : \A b \in Bytes : Covers(k, o, b) <=> Covers(k, o, b) \/ Covers(l, o, b)
    BY <1>4, <1>5, <1>7, <1>8, <1>12 DEF Covers
  <2>4. \A o : \A b \in Bytes : Covers(k, o, b) <=> Covers(s.lock, o, b) \/ Covers(list[n + 1], o, b)
    BY <1>1, <1>2, <2>3
  <2>5. Scanned(list, lock, n + 1, [s EXCEPT !.lock = k])
    BY <1>2, <1>3, <2>2, <2>4, ScanDeletes
  <2> QED BY <1>1, <2>1, <2>5
<1>13. CASE a < ka /\ ka <= e /\ e <= ke
  <2>1. PICK m : m = FrontOf(l, k)
    OBVIOUS
  <2>2. /\ m \in LockRecord /\ PartOf(m, l) /\ Apart(m, k) /\ m.end = ka - 1 /\ m.start = a
    BY <1>3, <1>4, <1>5, <1>8, <1>13, <2>1, FrontIs
  <2>3. Enter(s, l) = [s EXCEPT !.list = Append(@, m)]
    <3>1. Cut(l, k) = Keep(m, k)
      BY <1>4, <1>5, <1>6, <1>13, <2>1, CutIs
    <3> QED BY <1>2, <1>3, <1>8, <1>9, <2>2, <3>1, EnterKeeps
  <2>4. \A o : \A b \in Bytes : Covers(m, o, b) <=> Covers(l, o, b) /\ ~Covers(k, o, b)
    BY <1>4, <1>5, <1>7, <1>8, <1>13, <2>2 DEF Covers, PartOf
  <2>5. /\ PartOf(m, list[n + 1]) /\ Apart(m, s.lock)
        /\ \A o : \A b \in Bytes : Covers(m, o, b) <=> Covers(list[n + 1], o, b) /\ ~Covers(s.lock, o, b)
    BY <1>1, <1>2, <2>2, <2>4
  <2>6. Scanned(list, lock, n + 1, [s EXCEPT !.list = Append(@, m)])
    BY <2>2, <2>5, ScanKeeps
  <2> QED BY <1>1, <2>3, <2>6
<1>14. CASE ka <= a /\ a <= ke /\ ke < e
  <2>1. PICK m : m = BackOf(l, k)
    OBVIOUS
  <2>2. /\ m \in LockRecord /\ PartOf(m, l) /\ Apart(k, m) /\ m.end = e /\ m.start = ke + 1
    BY <1>3, <1>4, <1>5, <1>8, <1>14, <2>1, BackIs
  <2>3. Enter(s, l) = [list |-> s.list \o New(k) \o <<m>>, lock |-> k, go |-> "here"]
    <3>1. Cut(l, k) = Stop(k, <<m>>)
      BY <1>4, <1>5, <1>6, <1>14, <2>1, CutIs
    <3> QED BY <1>2, <1>3, <1>8, <1>9, <2>2, <3>1, EnterStops
  <2>4. \A o : \A b \in Bytes : Covers(m, o, b) <=> Covers(l, o, b) /\ ~Covers(k, o, b)
    BY <1>4, <1>5, <1>7, <1>8, <1>14, <2>2 DEF Covers, PartOf
  <2>5. /\ PartOf(m, list[n + 1]) /\ Apart(s.lock, m) /\ m.end = list[n + 1].end
        /\ list[n + 1].owner = s.lock.owner
        /\ \A o : \A b \in Bytes : Covers(m, o, b) <=> Covers(list[n + 1], o, b) /\ ~Covers(s.lock, o, b)
    BY <1>1, <1>2, <1>4, <1>8, <2>2, <2>4
  <2>6. Scanned(list, lock, n + 1, [list |-> s.list \o New(s.lock) \o <<m>>, lock |-> s.lock, go |-> "here"])
    BY <2>2, <2>5, ScanStops
  <2> QED BY <1>1, <1>2, <2>3, <2>6
<1>15. CASE a < ka /\ ke < e
  <2>1. PICK f, m : f = FrontOf(l, k) /\ m = BackOf(l, k)
    OBVIOUS
  <2>2. /\ f \in LockRecord /\ PartOf(f, l) /\ Apart(f, k) /\ f.end = ka - 1 /\ f.start = a
    BY <1>3, <1>4, <1>5, <1>6, <1>8, <1>15, <2>1, FrontIs
  <2>3. /\ m \in LockRecord /\ PartOf(m, l) /\ Apart(k, m) /\ m.end = e /\ m.start = ke + 1
    BY <1>3, <1>4, <1>5, <1>6, <1>8, <1>15, <2>1, BackIs
  <2>4. Apart(f, m)
    BY <1>6, <2>2, <2>3 DEF Apart
  <2>5. PICK kept : kept = Append(s.list, f)
    OBVIOUS
  <2>6. Enter(s, l) = [list |-> kept \o New(k) \o <<m>>, lock |-> k, go |-> "here"]
    <3>1. Cut(l, k) = [before |-> <<f>>, after |-> <<m>>, lock |-> k, go |-> "here"]
      BY <1>4, <1>5, <1>6, <1>15, <2>1, CutIs
    <3>2. Enter(s, l) = [list |-> s.list \o <<f>> \o New(k) \o <<m>>, lock |-> k, go |-> "here"]
      <4> DEFINE c == [before |-> <<f>>, after |-> <<m>>, lock |-> k, go |-> "here"]
      <4>1. c.before = <<f>> /\ c.after = <<m>> /\ c.lock = k /\ c.go = "here" /\ c = Meets(l, s.lock)
        BY <1>9, <3>1
      <4> HIDE DEF c
      <4>2. s.lock.owner = l.owner
        BY <1>2, <1>8
      <4>3. Enter(s, l) = [list |-> s.list \o c.before \o (IF c.go = "here" THEN New(c.lock) ELSE <<>>) \o c.after,
                           lock |-> c.lock, go |-> c.go]
        BY <1>3, <4>1, <4>2, EnterMeets
      <4> QED BY <4>1, <4>3
    <3>3. s.list \o <<f>> = kept
      BY <1>3, <2>2, <2>5
    <3> QED BY <3>2, <3>3
  <2>7. Ahead(s.list, list, n + 1) /\ AllBefore(s.list, k) /\ InOrder(s.list)
    BY <1>2 DEF Scanned
  <2>8. AllBefore(s.list, f) /\ AllBefore(s.list, m) /\ Ahead(kept, list, n + 2)
    BY <1>1, <1>3, <2>2, <2>3, <2>5, <2>7, AheadOfNext
  <2>9. kept \in Seq(LockRecord) /\ InOrder(kept) /\ AllBefore(kept, k) /\ AllBefore(kept, m)
    BY <1>3, <2>2, <2>4, <2>5, <2>7, <2>8, Appended
  <2>10. ASSUME NEW o, NEW b, b \in Bytes, NEW j
         PROVE  Says(kept, o, b, j) \/ (Covers(m, o, b) /\ m.type = j)
                  <=> SaysUpTo(list, n + 1, o, b, j) /\ ~Covers(k, o, b)
    <3>1. Says(s.list, o, b, j) <=> SaysUpTo(list, n, o, b, j) /\ ~Covers(k, o, b)
      BY <1>2, <2>10 DEF Scanned
    <3>2. SaysUpTo(list, n + 1, o, b, j) <=> SaysUpTo(list, n, o, b, j) \/ (Covers(l, o, b) /\ l.type = j)
      BY <1>1, NextRange
    <3>3. Says(kept, o, b, j) <=> Says(s.list, o, b, j) \/ (Covers(f, o, b) /\ f.type = j)
      BY <1>3, <2>2, <2>5, Appended
    <3>4. f.type = l.type /\ m.type = l.type
      BY <2>2, <2>3 DEF PartOf
    <3>5. Covers(f, o, b) \/ Covers(m, o, b) <=> Covers(l, o, b) /\ ~Covers(k, o, b)
      BY <1>4, <1>5, <1>6, <1>7, <1>8, <1>15, <2>2, <2>3, <2>10, SMTT(30) DEF Covers, PartOf
    <3> QED BY <3>1, <3>2, <3>3, <3>4, <3>5
  <2>11. /\ PartOf(m, list[n + 1]) /\ Apart(s.lock, m) /\ m.end = list[n + 1].end
         /\ list[n + 1].owner = s.lock.owner /\ AllBefore(kept, s.lock)
         /\ \A o, b : b \in Bytes => \A j :
              Says(kept, o, b, j) \/ (Covers(m, o, b) /\ m.type = j)
                <=> SaysUpTo(list, n + 1, o, b, j) /\ ~Covers(s.lock, o, b)
    BY <1>1, <1>2, <1>4, <1>8, <2>3, <2>9, <2>10
  <2>12. Scanned(list, lock, n + 1, [list |-> kept \o New(s.lock) \o <<m>>, lock |-> s.lock, go |-> "here"])
    BY <2>3, <2>8, <2>9, <2>11, ScanHere
  <2> QED BY <1>1, <1>2, <2>6, <2>12
<1> QED BY <1>6, <1>10, <1>11, <1>12, <1>13, <1>14, <1>15

(***************************************************************************)
(* A step of the loop of locks_insert.                                     *)
(***************************************************************************)
LEMMA ScanSteps ==
  ASSUME NEW list, list \in Seq(LockRecord), InOrder(list), NEW lock, lock \in LockEntry,
         NEW n \in Nat, n + 1 <= Len(list), NEW s, Scanned(list, lock, n, s)
  PROVE  Scanned(list, lock, n + 1, Enter(s, list[n + 1]))
<1>1. PICK l : l = list[n + 1]
  OBVIOUS
<1>2. s \in Scan /\ s.lock \in LockEntry /\ s.list \in Seq(LockRecord) /\ l \in LockRecord
  <2>1. l \in LockRecord
    BY <1>1, NextRange
  <2> QED BY <2>1 DEF Scanned, Scan
<1>3. CASE s.go # "scan"
  <2>1. Enter(s, l) = [s EXCEPT !.list = Append(@, l)]
    BY <1>3 DEF Enter
  <2>2. Scanned(list, lock, n + 1, [s EXCEPT !.list = Append(@, list[n + 1])])
    BY <1>3, ScanRests
  <2> QED BY <1>1, <2>1, <2>2
<1>4. CASE s.go = "scan" /\ l.owner # s.lock.owner
  <2>1. Enter(s, l) = [s EXCEPT !.list = Append(@, l)]
    BY <1>4 DEF Enter
  <2>2. PartOf(l, list[n + 1]) /\ Apart(l, s.lock)
    BY <1>1, <1>2, <1>4, RangesAre DEF PartOf, Apart
  <2>3. \A o : \A b \in Bytes : Covers(l, o, b) <=> Covers(list[n + 1], o, b) /\ ~Covers(s.lock, o, b)
    BY <1>1, <1>4 DEF Covers
  <2>4. Scanned(list, lock, n + 1, [s EXCEPT !.list = Append(@, l)])
    BY <1>2, <1>4, <2>2, <2>3, ScanKeeps
  <2> QED BY <1>1, <2>1, <2>4
<1>5. CASE s.go = "scan" /\ l.owner = s.lock.owner
  <2>1. list[n + 1].owner = s.lock.owner /\ s.go = "scan"
    BY <1>1, <1>5
  <2>2. CASE list[n + 1].type = s.lock.type
    BY <2>1, <2>2, ScanJoins
  <2>3. CASE list[n + 1].type # s.lock.type
    BY <2>1, <2>3, ScanCuts
  <2> QED BY <2>2, <2>3
<1> QED BY <1>3, <1>4, <1>5

(***************************************************************************)
(* The loop as the recursion that it is.                                   *)
(***************************************************************************)
ScanStart(lock) == [list |-> <<>>, lock |-> lock, go |-> "scan"]
ScansUpTo(list, lock, n, f) ==
  /\ f = [i \in 0..n |-> f[i]] /\ f[0] = ScanStart(lock)
  /\ \A i \in 1..n : f[i] = Enter(f[i - 1], list[i])

LEMMA ScansExist ==
  ASSUME NEW list, Len(list) \in Nat, NEW lock
  PROVE  \A n \in 0..Len(list) : \E f : ScansUpTo(list, lock, n, f)
<1> DEFINE Bad == {n \in 0..Len(list) : ~ \E f : ScansUpTo(list, lock, n, f)}
<1>1. SUFFICES ASSUME Bad # {} PROVE FALSE
  OBVIOUS
<1>2. PICK m \in Bad : \A n \in Bad : m <= n
  <2>1. Bad \subseteq Nat
    OBVIOUS
  <2> QED BY <1>1, <2>1, Least
<1>3. m \in 0..Len(list) /\ m \in Nat
  BY <1>2
<1>4. m # 0
  <2>1. ScansUpTo(list, lock, 0, [i \in 0..0 |-> ScanStart(lock)])
    BY DEF ScansUpTo
  <2> QED BY <2>1, <1>2
<1>5. PICK f : ScansUpTo(list, lock, m - 1, f)
  <2>1. m - 1 \in 0..Len(list) /\ ~(m <= m - 1)
    BY <1>3, <1>4
  <2> QED BY <2>1, <1>2
<1>6. PICK new : new = Enter(f[m - 1], list[m])
  OBVIOUS
<1> DEFINE g == [i \in 0..m |-> IF i = m THEN new ELSE f[i]]
<1>7. ScansUpTo(list, lock, m, g)
  <2>1. f[0] = ScanStart(lock) /\ \A i \in 1..(m - 1) : f[i] = Enter(f[i - 1], list[i])
    BY <1>5 DEF ScansUpTo
  <2>2. g[0] = ScanStart(lock)
    BY <2>1, <1>3, <1>4
  <2>3. \A i \in 1..m : g[i] = Enter(g[i - 1], list[i])
    <3> TAKE i \in 1..m
    <3>1. CASE i = m
      <4>1. g[i] = new /\ g[i - 1] = f[m - 1]
        BY <3>1, <1>3, <1>4
      <4> QED BY <4>1, <3>1, <1>6
    <3>2. CASE i # m
      <4>1. i \in 1..(m - 1) /\ g[i] = f[i] /\ g[i - 1] = f[i - 1]
        BY <3>2, <1>3
      <4> QED BY <4>1, <2>1
    <3> QED BY <3>1, <3>2
  <2>4. g = [i \in 0..m |-> g[i]]
    OBVIOUS
  <2> HIDE DEF g
  <2> QED BY <2>2, <2>3, <2>4 DEF ScansUpTo
<1> QED BY <1>2, <1>7

LEMMA ScansAre ==
  ASSUME NEW list, Len(list) \in Nat, NEW lock
  PROVE  /\ Scans(list, lock)[0] = ScanStart(lock)
         /\ \A i \in 1..Len(list) : Scans(list, lock)[i] = Enter(Scans(list, lock)[i - 1], list[i])
<1>1. PICK f : ScansUpTo(list, lock, Len(list), f)
  <2>1. Len(list) \in 0..Len(list)
    OBVIOUS
  <2> QED BY <2>1, ScansExist
<1> DEFINE Next(s) == [i \in 0..Len(list) |->
                        IF i = 0 THEN [list |-> <<>>, lock |-> lock, go |-> "scan"] ELSE Enter(s[i - 1], list[i])]
<1>2. f = Next(f)
  <2>1. f = [i \in 0..Len(list) |-> f[i]]
    BY <1>1 DEF ScansUpTo
  <2>2. \A i \in 0..Len(list) : f[i] = Next(f)[i]
    <3> TAKE i \in 0..Len(list)
    <3>1. CASE i = 0
      BY <3>1, <1>1 DEF ScansUpTo, ScanStart
    <3>2. CASE i # 0
      <4>1. i \in 1..Len(list)
        BY <3>2
      <4> QED BY <4>1, <3>2, <1>1 DEF ScansUpTo
    <3> QED BY <3>1, <3>2
  <2>3. Next(f) = [i \in 0..Len(list) |-> Next(f)[i]]
    OBVIOUS
  <2> QED BY <2>1, <2>2, <2>3
<1>3. Scans(list, lock) = CHOOSE s : s = Next(s)
  BY DEF Scans
<1>4. Scans(list, lock) = Next(Scans(list, lock))
  BY <1>2, <1>3
<1> QED BY <1>4 DEF ScanStart

LEMMA ScannedAll ==
  ASSUME NEW list, list \in Seq(LockRecord), InOrder(list), NEW lock, lock \in LockEntry
  PROVE  Scanned(list, lock, Len(list), Scans(list, lock)[Len(list)])
<1> DEFINE s == Scans(list, lock)
           Bad == {n \in 0..Len(list) : ~Scanned(list, lock, n, s[n])}
<1>1. Len(list) \in Nat
  OBVIOUS
<1>2. s[0] = ScanStart(lock) /\ \A i \in 1..Len(list) : s[i] = Enter(s[i - 1], list[i])
  BY <1>1, ScansAre
<1> HIDE DEF s
<1>3. Scanned(list, lock, 0, ScanStart(lock))
  <2> DEFINE t == ScanStart(lock)
  <2>1. t.list = <<>> /\ t.lock = lock /\ t.go = "scan" /\ t \in Scan
    BY DEF ScanStart, Scan
  <2> HIDE DEF t
  <2>2. DOMAIN t.list = {}
    BY <2>1
  <2>3. InOrder(t.list) /\ Ahead(t.list, list, 0 + 1) /\ AllBefore(t.list, t.lock)
    BY <2>2 DEF InOrder, Ahead, AllBefore
  <2>4. \A o, b, k : ~Says(t.list, o, b, k) /\ ~SaysUpTo(list, 0, o, b, k)
    BY <2>2 DEF Says, SaysUpTo
  <2>5. lock.start <= lock.start /\ lock.end <= lock.end
    BY RangesAre
  <2> QED BY <2>1, <2>3, <2>4, <2>5 DEF Scanned, t
<1>4. Bad = {}
  <2>1. SUFFICES ASSUME Bad # {} PROVE FALSE
    OBVIOUS
  <2>2. PICK m \in Bad : \A n \in Bad : m <= n
    <3>1. Bad \subseteq Nat
      BY <1>1
    <3> QED BY <2>1, <3>1, Least
  <2>3. m \in 0..Len(list) /\ m # 0
    BY <1>2, <1>3, <2>2
  <2>4. PICK n \in Nat : m = n + 1
    BY <1>1, <2>3
  <2>5. n \in 0..Len(list) /\ ~(m <= n) /\ n + 1 <= Len(list) /\ n + 1 \in 1..Len(list) /\ n + 1 - 1 = n
    BY <1>1, <2>3, <2>4
  <2>6. Scanned(list, lock, n, s[n])
    BY <2>2, <2>5
  <2>7. Scanned(list, lock, n + 1, Enter(s[n], list[n + 1]))
    BY <2>5, <2>6, ScanSteps
  <2>8. s[n + 1] = Enter(s[n], list[n + 1])
    BY <1>2, <2>5
  <2> QED BY <2>2, <2>4, <2>7, <2>8
<1> QED BY <1>1, <1>4 DEF s

(***************************************************************************)
(* locks_insert: the list stays one of ranges in order, and says of each   *)
(* byte of the range what is entered, of the others what it said before.   *)
(***************************************************************************)
LEMMA Inserted ==
  ASSUME NEW list, list \in Seq(LockRecord), InOrder(list), NEW lock, lock \in LockEntry,
         NEW new, new = LocksInsert(list, lock)
  PROVE  /\ new \in Seq(LockRecord) /\ InOrder(new)
         /\ \A o, b : b \in Bytes => \A k : Says(new, o, b, k) <=> Wanted(list, lock, o, b, k)
<1> DEFINE n == Len(list)
<1>1. PICK s : s = Scans(list, lock)[n]
  OBVIOUS
<1>2. Scanned(list, lock, n, s)
  BY <1>1, ScannedAll
<1>3. n \in Nat /\ DOMAIN list = 1..n
  OBVIOUS
<1>4. s \in Scan /\ s.list \in Seq(LockRecord) /\ s.lock \in LockEntry /\ InOrder(s.list)
  BY <1>2 DEF Scanned, Scan
<1>5. new = IF s.go = "scan" THEN s.list \o New(s.lock) ELSE s.list
  BY <1>1 DEF LocksInsert
<1>6. \A o, b, k : ~SaysFrom(list, n + 1, o, b, k)
  BY <1>3 DEF SaysFrom
<1>7. \A o, b, k : SaysUpTo(list, n, o, b, k) <=> Says(list, o, b, k)
  BY <1>3 DEF SaysUpTo, Says
<1>8. CASE s.go # "scan"
  BY <1>2, <1>4, <1>5, <1>6, <1>8 DEF Scanned
<1>9. CASE s.go = "scan"
  <2>1. AllBefore(s.list, s.lock) /\ s.lock.type = lock.type /\ s.lock.owner = lock.owner
        /\ s.lock.start <= lock.start /\ lock.end <= s.lock.end
    BY <1>2, <1>9 DEF Scanned
  <2>2. new \in Seq(LockRecord) /\ InOrder(new) /\
        \A o, b, k : Says(new, o, b, k)
                       <=> Says(s.list, o, b, k) \/ (s.lock.type # Unlock /\ Covers(s.lock, o, b) /\ s.lock.type = k)
    <3>1. CASE s.lock.type = Unlock
      <4>1. new = s.list
        BY <1>4, <1>5, <1>9, <3>1 DEF New
      <4> QED BY <4>1, <3>1, <1>4
    <3>2. CASE s.lock.type # Unlock
      <4>1. s.lock \in LockRecord
        BY <1>4, <3>2, RangesAre
      <4>2. new = Append(s.list, s.lock)
        BY <1>4, <1>5, <1>9, <3>2, <4>1 DEF New
      <4>3. Append(s.list, s.lock) \in Seq(LockRecord) /\ InOrder(Append(s.list, s.lock))
        BY <1>4, <2>1, <4>1, Appended
      <4>4. \A o, b, k : Says(Append(s.list, s.lock), o, b, k)
                           <=> Says(s.list, o, b, k) \/ (Covers(s.lock, o, b) /\ s.lock.type = k)
        BY <1>4, <4>1, Appended
      <4> QED BY <3>2, <4>2, <4>3, <4>4
    <3> QED BY <3>1, <3>2
  <2>3. ASSUME NEW o, NEW b, b \in Bytes, NEW k
        PROVE  Says(new, o, b, k) <=> Wanted(list, lock, o, b, k)
    <3>1. Says(s.list, o, b, k) <=> Says(list, o, b, k) /\ ~Covers(s.lock, o, b)
      BY <1>2, <1>7, <1>9, <2>3 DEF Scanned
    <3>2. Covers(s.lock, o, b) /\ ~Covers(lock, o, b) => SaysUpTo(list, n, o, b, lock.type)
      BY <1>2, <1>9, <2>3 DEF Scanned
    <3>3. SaysUpTo(list, n, o, b, lock.type) =>
            lock.type # Unlock /\ (SaysUpTo(list, n, o, b, k) => k = lock.type)
      <4>1. n <= Len(list)
        BY <1>3
      <4> QED BY <1>3, <4>1, <2>3, OneKind
    <3>4. Covers(lock, o, b) => Covers(s.lock, o, b)
      <4>1. /\ s.lock.start \in Int /\ s.lock.end \in Int /\ lock.start \in Int /\ lock.end \in Int /\ b \in Int
        BY <1>4, <2>3, RangesAre, FuseLocksAssumption DEF Bytes
      <4> QED BY <2>1, <4>1 DEF Covers
    <3> QED BY <1>7, <2>1, <2>2, <3>1, <3>2, <3>3, <3>4 DEF Wanted
  <2> QED BY <2>2, <2>3
<1> QED BY <1>8, <1>9

(***************************************************************************)
(* The inductive invariant: the list is one of ranges in order, and agrees *)
(* with the file system but for the bytes of a lock that is being entered, *)
(* which the file system has granted as it is going to be entered.         *)
(***************************************************************************)
BeingEntered(o) == FlockToLock(entering[o], o)
LocksTypeOK ==
  /\ locks \in Seq(LockRecord)
  /\ granted \in [Owners -> [Bytes -> Types]]
  /\ entering \in [Owners -> {Nothing} \cup {ConvertFuseFileLock(r) : r \in Ranges}]
Agrees(o, b) ==
  IF entering[o] # Nothing /\ Covers(BeingEntered(o), o, b) THEN granted[o][b] = entering[o].type
  ELSE TypesAt(o, b) = {granted[o][b]} \ {Unlock}
LocksInv == LocksTypeOK /\ InOrder(locks) /\ \A o \in Owners, b \in Bytes : Agrees(o, b)

LEMMA TypesAre ==
  ASSUME NEW o, NEW b, NEW k
  PROVE  k \in TypesAt(o, b) <=> Says(locks, o, b, k)
BY DEF TypesAt, Says

LEMMA TypesAfter ==
  ASSUME NEW o, NEW b, NEW k
  PROVE  k \in TypesAt(o, b)' <=> Says(locks', o, b, k)
BY DEF TypesAt, Says

(***************************************************************************)
(* A range survives its way as start and length, also to the end of all.   *)
(***************************************************************************)
LEMMA Converted ==
  ASSUME NEW r \in Ranges, NEW o \in Owners
  PROVE  LET f == ConvertFuseFileLock(r)
             l == FlockToLock(f, o)
         IN  /\ f.type = r.type /\ f # Nothing
             /\ l \in LockEntry /\ l.type = r.type /\ l.start = r.start /\ l.end = r.end /\ l.owner = o
<1> DEFINE f == ConvertFuseFileLock(r)
           l == FlockToLock(f, o)
<1>1. /\ r.type \in Types /\ r.start \in Bytes /\ r.end \in Bytes /\ r.start <= r.end
  BY DEF Ranges
<1>2. r.start \in Int /\ r.end \in Int /\ MaxByte \in Int
  BY <1>1, FuseLocksAssumption DEF Bytes
<1>3. f.type = r.type /\ f.start = r.start /\ f.len = IF r.end = MaxByte THEN 0 ELSE r.end - r.start + 1
  BY DEF ConvertFuseFileLock
<1>4. f # Nothing
  <2>1. r.type # "nothing"
    BY <1>1 DEF Types, Unlock
  <2>2. Nothing.type = "nothing"
    BY DEF Nothing
  <2> QED BY <1>3, <2>1, <2>2
<1> HIDE DEF f
<1>5. l.type = r.type /\ l.start = r.start /\ l.owner = o
      /\ l.end = IF f.len # 0 THEN f.start + f.len - 1 ELSE MaxByte
  BY <1>3 DEF FlockToLock
<1>6. l.end = r.end
  <2>1. PICK a \in Int, e \in Int : a = r.start /\ e = r.end
    BY <1>2
  <2>2. CASE e = MaxByte
    BY <1>3, <1>5, <2>1, <2>2
  <2>3. CASE e # MaxByte
    <3>1. f.len = e - a + 1 /\ f.start = a /\ a <= e
      BY <1>1, <1>3, <2>1, <2>3
    <3>2. e - a + 1 # 0 /\ a + (e - a + 1) - 1 = e
      BY <2>1, <3>1
    <3> QED BY <1>5, <2>1, <3>1, <3>2
  <2> QED BY <2>2, <2>3
<1>7. l = [type |-> r.type, start |-> r.start, end |-> r.end, owner |-> o]
  BY <1>5, <1>6 DEF FlockToLock
<1>8. l \in LockEntry
  BY <1>1, <1>7 DEF LockEntry
<1> QED BY <1>3, <1>4, <1>5, <1>6, <1>8 DEF f

LEMMA LocksInitInv == LocksInit => LocksInv
<1> SUFFICES ASSUME LocksInit PROVE LocksInv
  OBVIOUS
<1>1. locks = <<>> /\ granted = [o \in Owners |-> NoLocks] /\ entering = [o \in Owners |-> Nothing]
  BY DEF LocksInit
<1>2. locks \in Seq(LockRecord) /\ DOMAIN locks = {}
  BY <1>1
<1>3. LocksTypeOK
  <2>1. NoLocks \in [Bytes -> Types]
    BY DEF NoLocks, Types
  <2> QED BY <1>1, <1>2, <2>1 DEF LocksTypeOK
<1>4. InOrder(locks)
  BY <1>2 DEF InOrder
<1>5. ASSUME NEW o \in Owners, NEW b \in Bytes PROVE Agrees(o, b)
  <2>1. entering[o] = Nothing /\ granted[o][b] = Unlock
    BY <1>1 DEF NoLocks
  <2>2. TypesAt(o, b) = {}
    BY <1>2 DEF TypesAt
  <2> QED BY <2>1, <2>2 DEF Agrees
<1> QED BY <1>3, <1>4, <1>5 DEF LocksInv

(***************************************************************************)
(* The file system grants a lock.                                          *)
(***************************************************************************)
LEMMA SetlkInv ==
  ASSUME LocksInv, NEW o \in Owners, NEW r \in Ranges, Setlk(o, r)
  PROVE  LocksInv'
<1>1. /\ LocksTypeOK /\ InOrder(locks) /\ locks' = locks
      /\ entering[o] = Nothing /\ entering' = [entering EXCEPT ![o] = ConvertFuseFileLock(r)]
      /\ granted' = [granted EXCEPT ![o] = [b \in Bytes |-> IF b \in r.start..r.end THEN r.type ELSE @[b]]]
  BY DEF LocksInv, Setlk
<1>2. r.type \in Types /\ r.start \in Int /\ r.end \in Int /\ \A b \in Bytes : b \in Int
  BY FuseLocksAssumption DEF Ranges, Bytes
<1>3. granted \in [Owners -> [Bytes -> Types]] /\ entering \in [Owners -> {Nothing} \cup {ConvertFuseFileLock(q) : q \in Ranges}]
  BY <1>1 DEF LocksTypeOK
<1>4. granted' \in [Owners -> [Bytes -> Types]]
  <2>1. [b \in Bytes |-> IF b \in r.start..r.end THEN r.type ELSE granted[o][b]] \in [Bytes -> Types]
    BY <1>2, <1>3
  <2> QED BY <1>1, <1>3, <2>1
<1>5. entering' \in [Owners -> {Nothing} \cup {ConvertFuseFileLock(q) : q \in Ranges}]
  BY <1>1, <1>3
<1>6. LocksTypeOK'
  BY <1>1, <1>4, <1>5 DEF LocksTypeOK
<1>7. InOrder(locks)'
  BY <1>1 DEF InOrder
<1>8. ASSUME NEW p \in Owners, NEW b \in Bytes PROVE Agrees(p, b)'
  <2>1. Agrees(p, b)
    BY DEF LocksInv
  <2>2. TypesAt(p, b)' = TypesAt(p, b)
    BY <1>1 DEF TypesAt
  <2>3. CASE p # o
    <3>1. granted'[p] = granted[p] /\ entering'[p] = entering[p]
      BY <1>1, <1>3, <2>3
    <3> QED BY <2>1, <2>2, <3>1 DEF Agrees, BeingEntered
  <2>4. CASE p = o
    <3>1. entering'[o] = ConvertFuseFileLock(r)
      BY <1>1, <1>3
    <3>2. granted'[o][b] = IF b \in r.start..r.end THEN r.type ELSE granted[o][b]
      BY <1>1, <1>3
    <3>3. TypesAt(o, b) = {granted[o][b]} \ {Unlock}
      BY <1>1, <2>1, <2>4 DEF Agrees
    <3>4. Covers(FlockToLock(ConvertFuseFileLock(r), o), o, b) <=> b \in r.start..r.end
      BY <1>2, Converted DEF Covers
    <3>5. ConvertFuseFileLock(r).type = r.type
      BY Converted
    <3>6. BeingEntered(o)' = FlockToLock(ConvertFuseFileLock(r), o)
      BY <3>1 DEF BeingEntered
    <3>7. Agrees(o, b)' <=> IF entering'[o] # Nothing /\ Covers(BeingEntered(o)', o, b)
                            THEN granted'[o][b] = entering'[o].type
                            ELSE TypesAt(o, b)' = {granted'[o][b]} \ {Unlock}
      BY DEF Agrees
    <3>8. entering'[o] # Nothing
      BY <3>1, Converted
    <3>9. CASE b \in r.start..r.end
      BY <2>4, <3>1, <3>2, <3>4, <3>5, <3>6, <3>7, <3>8, <3>9
    <3>10. CASE b \notin r.start..r.end
      BY <2>2, <2>4, <3>2, <3>3, <3>4, <3>6, <3>7, <3>10
    <3> QED BY <3>9, <3>10
  <2> QED BY <2>3, <2>4
<1> QED BY <1>6, <1>7, <1>8 DEF LocksInv

(***************************************************************************)
(* It is entered in the list.                                              *)
(***************************************************************************)
LEMMA EnteredInv ==
  ASSUME LocksInv, NEW o \in Owners, Entered(o)
  PROVE  LocksInv'
<1>1. /\ LocksTypeOK /\ InOrder(locks) /\ granted' = granted
      /\ entering[o] # Nothing /\ entering' = [entering EXCEPT ![o] = Nothing]
      /\ locks' = LocksInsert(locks, FlockToLock(entering[o], o))
  BY DEF LocksInv, Entered
<1>2. /\ locks \in Seq(LockRecord) /\ granted \in [Owners -> [Bytes -> Types]]
      /\ entering \in [Owners -> {Nothing} \cup {ConvertFuseFileLock(q) : q \in Ranges}]
  BY <1>1 DEF LocksTypeOK
<1>3. PICK r \in Ranges : entering[o] = ConvertFuseFileLock(r)
  BY <1>1, <1>2
<1>4. PICK lock : lock = FlockToLock(entering[o], o)
  OBVIOUS
<1>5. lock \in LockEntry /\ lock.owner = o /\ lock.type = entering[o].type
  BY <1>3, <1>4, Converted
<1>6. /\ locks' \in Seq(LockRecord) /\ InOrder(locks')
      /\ \A p, b : b \in Bytes => \A k : Says(locks', p, b, k) <=> Wanted(locks, lock, p, b, k)
  BY <1>1, <1>2, <1>4, <1>5, Inserted
<1>7. LocksTypeOK'
  <2>1. entering' \in [Owners -> {Nothing} \cup {ConvertFuseFileLock(q) : q \in Ranges}]
    BY <1>1, <1>2
  <2> QED BY <1>1, <1>2, <1>6, <2>1 DEF LocksTypeOK
<1>8. ASSUME NEW p \in Owners, NEW b \in Bytes PROVE Agrees(p, b)'
  <2>1. Agrees(p, b)
    BY DEF LocksInv
  <2>2. \A k : k \in TypesAt(p, b)' <=> Wanted(locks, lock, p, b, k)
    BY <1>6, TypesAfter
  <2>3. \A k : k \in TypesAt(p, b) <=> Says(locks, p, b, k)
    BY TypesAre
  <2>4. CASE p # o
    <3>1. granted'[p] = granted[p] /\ entering'[p] = entering[p]
      BY <1>1, <1>2, <2>4
    <3>2. ~Covers(lock, p, b)
      BY <1>5, <2>4 DEF Covers
    <3>3. TypesAt(p, b)' = TypesAt(p, b)
      BY <2>2, <2>3, <3>2 DEF Wanted
    <3> QED BY <2>1, <3>1, <3>3 DEF Agrees, BeingEntered
  <2>5. CASE p = o
    <3>1. granted'[o][b] = granted[o][b] /\ entering'[o] = Nothing
      BY <1>1, <1>2
    <3>2. CASE Covers(lock, o, b)
      <4>1. granted[o][b] = lock.type
        BY <1>1, <1>4, <1>5, <2>1, <2>5, <3>2 DEF Agrees, BeingEntered
      <4>2. TypesAt(p, b)' = {lock.type} \ {Unlock}
        BY <2>2, <2>5, <3>2 DEF Wanted
      <4> QED BY <2>5, <3>1, <4>1, <4>2 DEF Agrees
    <3>3. CASE ~Covers(lock, o, b)
      <4>1. TypesAt(o, b) = {granted[o][b]} \ {Unlock}
        BY <1>1, <1>4, <2>1, <2>5, <3>3 DEF Agrees, BeingEntered
      <4>2. TypesAt(p, b)' = TypesAt(p, b)
        BY <2>2, <2>3, <2>5, <3>3 DEF Wanted
      <4> QED BY <2>5, <3>1, <4>1, <4>2 DEF Agrees
    <3> QED BY <3>2, <3>3
  <2> QED BY <2>4, <2>5
<1> QED BY <1>6, <1>7, <1>8 DEF LocksInv

LEMMA LocksNextInv ==
  ASSUME LocksInv, [LocksNext]_lockvars
  PROVE  LocksInv'
<1>1. CASE LocksNext
  <2>1. PICK o \in Owners : Flush(o) \/ Entered(o) \/ \E r \in Ranges : Setlk(o, r)
    BY <1>1 DEF LocksNext
  <2>2. [type |-> Unlock, start |-> 0, end |-> MaxByte] \in Ranges
    BY FuseLocksAssumption DEF Ranges, Types, Bytes
  <2>3. CASE Flush(o)
    BY <2>2, <2>3, SetlkInv DEF Flush
  <2> QED BY <2>1, <2>3, SetlkInv, EnteredInv
<1>2. CASE UNCHANGED lockvars
  <2>1. locks' = locks /\ granted' = granted /\ entering' = entering
    BY <1>2 DEF lockvars
  <2>2. LocksTypeOK' /\ InOrder(locks)'
    BY <2>1 DEF LocksInv, LocksTypeOK, InOrder
  <2>3. ASSUME NEW o \in Owners, NEW b \in Bytes PROVE Agrees(o, b)'
    <3>1. Agrees(o, b)
      BY DEF LocksInv
    <3> QED BY <2>1, <3>1 DEF Agrees, BeingEntered, TypesAt
  <2> QED BY <2>2, <2>3 DEF LocksInv
<1> QED BY <1>1, <1>2

(***************************************************************************)
(* What the invariant says of F_GETLK.                                     *)
(***************************************************************************)
LEMMA GetlkFinds ==
  ASSUME LocksInv, \A o \in Owners : entering[o] = Nothing,
         NEW o \in Owners, NEW r \in Ranges, r.type # Unlock
  PROVE  LocksConflict(locks, FlockToLock(ConvertFuseFileLock(r), o)) = {} <=> Grants(o, r)
<1>1. PICK lock : lock = FlockToLock(ConvertFuseFileLock(r), o)
  OBVIOUS
<1>2. lock \in LockEntry /\ lock.type = r.type /\ lock.start = r.start /\ lock.end = r.end /\ lock.owner = o
  BY <1>1, Converted
<1>3. locks \in Seq(LockRecord) /\ granted \in [Owners -> [Bytes -> Types]]
  BY DEF LocksInv, LocksTypeOK
<1>4. ASSUME NEW p \in Owners, NEW b \in Bytes, NEW k
      PROVE  Says(locks, p, b, k) <=> k = granted[p][b] /\ k # Unlock
  <2>1. TypesAt(p, b) = {granted[p][b]} \ {Unlock}
    BY <1>4 DEF LocksInv, Agrees
  <2> QED BY <2>1, TypesAre
<1>5. /\ r.start \in Int /\ r.end \in Int /\ r.start \in Bytes /\ r.end \in Bytes /\ Bytes \subseteq Int
      /\ \A b : b \in r.start..r.end => b \in Bytes
  <2>1. r.start \in 0..MaxByte /\ r.end \in 0..MaxByte
    BY DEF Ranges, Bytes
  <2> QED BY <2>1, FuseLocksAssumption DEF Bytes
<1>6. ASSUME Grants(o, r), NEW i \in DOMAIN locks, Clash(locks[i], lock) PROVE FALSE
  <2>1. PICK l : l = locks[i]
    OBVIOUS
  <2>2. l \in LockRecord /\ l.owner # o /\ "write" \in {l.type, lock.type} /\ lock.start <= l.end /\ l.start <= lock.end
    BY <1>2, <1>3, <1>6, <2>1 DEF Clash
  <2>3. l.owner \in Owners /\ l.start \in Bytes /\ l.start <= l.end /\ l.type # Unlock /\ l.start \in Int /\ l.end \in Int
    BY <2>2, RangesAre
  <2>4. r.start <= r.end
    BY DEF Ranges
  <2>5. PICK b \in Bytes : b \in r.start..r.end /\ l.start <= b /\ b <= l.end
    <3>1. CASE l.start <= r.start
      BY <1>2, <1>5, <2>2, <2>3, <2>4, <3>1
    <3>2. CASE ~(l.start <= r.start)
      <4>1. l.start \in r.start..r.end
        BY <1>2, <1>5, <2>2, <2>3, <3>2
      <4> QED BY <2>3, <4>1
    <3> QED BY <3>1, <3>2
  <2>6. Says(locks, l.owner, b, l.type)
    BY <2>1, <2>5 DEF Says, Covers
  <2>7. l.type = granted[l.owner][b]
    BY <1>4, <2>3, <2>6
  <2> QED BY <1>2, <1>6, <2>2, <2>3, <2>5, <2>7 DEF Grants
<1>7. ASSUME ~Grants(o, r) PROVE \E i \in DOMAIN locks : Clash(locks[i], lock)
  <2>1. PICK p \in Owners \ {o}, b \in r.start..r.end :
          granted[p][b] # Unlock /\ "write" \in {r.type, granted[p][b]}
    BY <1>7 DEF Grants
  <2>2. b \in Bytes /\ b \in Int
    BY <1>5
  <2>3. Says(locks, p, b, granted[p][b])
    BY <1>4, <2>1, <2>2
  <2>4. PICK i \in DOMAIN locks : Covers(locks[i], p, b) /\ locks[i].type = granted[p][b]
    BY <2>3 DEF Says
  <2>5. PICK l : l = locks[i]
    OBVIOUS
  <2>6. l \in LockRecord /\ l.start \in Int /\ l.end \in Int
    BY <1>3, <2>5, RangesAre
  <2>7. l.owner = p /\ l.start <= b /\ b <= l.end /\ l.type = granted[p][b]
    BY <2>4, <2>5 DEF Covers
  <2>8. lock.start <= l.end /\ l.start <= lock.end
    BY <1>2, <1>5, <2>1, <2>2, <2>6, <2>7
  <2>9. Clash(l, lock)
    BY <1>2, <2>1, <2>7, <2>8 DEF Clash
  <2> QED BY <2>5, <2>9
<1>8. LocksConflict(locks, lock) = {} <=> Grants(o, r)
  BY <1>6, <1>7 DEF LocksConflict
<1> QED BY <1>1, <1>8

LEMMA LocksInvTrue == LocksInv => LocksTrue
<1> SUFFICES ASSUME LocksInv PROVE LocksTrue
  OBVIOUS
<1>1. ListTrue
  <2>1. \A o \in Owners : entering[o] = Nothing => \A b \in Bytes : TypesAt(o, b) = {granted[o][b]} \ {Unlock}
    BY DEF LocksInv, Agrees
  <2> QED BY <2>1 DEF ListTrue, LocksInv
<1>2. GetlkTrue
  <2> SUFFICES ASSUME \A p \in Owners : entering[p] = Nothing, NEW o \in Owners, NEW r \in Ranges, r.type # Unlock
               PROVE  Getlk(o, r) = Nothing <=> Grants(o, r)
    BY DEF GetlkTrue
  <2> DEFINE found == LocksConflict(locks, FlockToLock(ConvertFuseFileLock(r), o))
  <2>1. found = {} <=> Grants(o, r)
    BY GetlkFinds
  <2>2. found \subseteq DOMAIN locks
    BY DEF LocksConflict
  <2>3. Getlk(o, r) = IF found = {} THEN Nothing ELSE LockToFlock(locks[CHOOSE i \in found : \A j \in found : i <= j])
    BY DEF Getlk
  <2> HIDE DEF found
  <2>4. ASSUME found # {} PROVE Getlk(o, r) # Nothing
    <3>1. locks \in Seq(LockRecord)
      BY DEF LocksInv, LocksTypeOK
    <3>2. DOMAIN locks \subseteq Nat
      BY <3>1
    <3>3. \E i \in found : \A j \in found : i <= j
      BY <2>2, <2>4, <3>2, Least
    <3>4. PICK i \in found : i = CHOOSE x \in found : \A j \in found : x <= j
      BY <3>3
    <3>5. locks[i] \in LockRecord
      BY <2>2, <3>1
    <3>6. LockToFlock(locks[i]).type = locks[i].type
      BY DEF LockToFlock
    <3>7. locks[i].type # "nothing" /\ Nothing.type = "nothing"
      BY <3>5 DEF LockRecord, Kinds, Nothing
    <3> QED BY <2>3, <2>4, <3>4, <3>6, <3>7
  <2> QED BY <2>1, <2>3, <2>4
<1> QED BY <1>1, <1>2 DEF LocksTrue

(***************************************************************************)
(* For all owners, ranges and interleavings, and files of any length: the  *)
(* list of locks of libfuse agrees with what the file system has granted,  *)
(* its ranges are in order and joined, and F_GETLK finds a conflict if and *)
(* only if there is one.                                                   *)
(***************************************************************************)
THEOREM ListAgrees == LocksSpec => []LocksTrue
<1>1. LocksInv /\ [LocksNext]_lockvars => LocksInv'
  BY LocksNextInv
<1> QED BY <1>1, LocksInitInv, LocksInvTrue, PTL DEF LocksSpec

-----------------------------------------------------------------------------
(***************************************************************************)
(*                               Directories.                              *)
(***************************************************************************)
DirSpec == DirInit /\ [][DirNext]_dirvars

Names == Range(Entries)
DirEntry == [name : Names, next : Nat]

(***************************************************************************)
(* Lists of entries: in the order of the file system, and without holes in *)
(* the memory.                                                             *)
(***************************************************************************)
StartOf(c, i) == IF i = 1 THEN 0 ELSE c[i - 1].next
EndOf(c) == IF c = <<>> THEN 0 ELSE c[Len(c)].next
Packed(c) == \A i \in DOMAIN c : c[i].next = StartOf(c, i) + EntrySize[c[i].name]
Ascending(c) ==
  \A i, j \in DOMAIN c : i < j => Offset(c[i].name) < Offset(c[j].name) /\ c[i].next < c[j].next
Has(c, n) == \E i \in DOMAIN c : c[i].name = n
Begins(s, c) == Len(s) <= Len(c) /\ \A i \in DOMAIN s : s[i] = c[i]

LEMMA EntryPlaces ==
  /\ Len(Entries) \in Nat /\ DOMAIN Entries = 1..Len(Entries)
  /\ \A i \in 1..Len(Entries) : Entries[i] \in Names /\ Offset(Entries[i]) = i
  /\ \A n \in Names : Offset(n) \in 1..Len(Entries) /\ Entries[Offset(n)] = n
  /\ \A n \in Names : EntrySize[n] \in Nat /\ EntrySize[n] > 0 /\ EntrySize[n] <= ReadSize
<1>1. Len(Entries) \in Nat /\ DOMAIN Entries = 1..Len(Entries)
  BY FuseDirAssumption, LenProperties
<1>2. ASSUME NEW n \in Names PROVE Offset(n) \in DOMAIN Entries /\ Entries[Offset(n)] = n
  <2>1. \E i \in DOMAIN Entries : Entries[i] = n
    BY DEF Names, Range
  <2> QED BY <2>1 DEF Offset
<1>3. ASSUME NEW i \in DOMAIN Entries PROVE Entries[i] \in Names /\ Offset(Entries[i]) = i
  <2>1. Entries[i] \in Names
    BY DEF Names, Range
  <2>2. Offset(Entries[i]) \in DOMAIN Entries /\ Entries[Offset(Entries[i])] = Entries[i]
    BY <2>1, <1>2
  <2> QED BY <2>1, <2>2, FuseDirAssumption DEF IsInjective
<1>4. \A n \in Names : EntrySize[n] \in Nat /\ EntrySize[n] > 0 /\ EntrySize[n] <= ReadSize
  BY FuseDirAssumption DEF Names
<1> QED BY <1>1, <1>2, <1>3, <1>4

\* A list of entries is a function of its places.
LEMMA EntriesOf ==
  ASSUME NEW c \in Seq(DirEntry)
  PROVE  /\ Len(c) \in Nat /\ DOMAIN c = 1..Len(c)
         /\ \A i \in DOMAIN c : c[i] \in DirEntry /\ c[i].name \in Names /\ c[i].next \in Nat
         /\ c = <<>> <=> Len(c) = 0
         /\ EndOf(c) \in Nat
<1>1. Len(c) \in Nat /\ DOMAIN c = 1..Len(c)
  BY LenProperties
<1>2. \A i \in DOMAIN c : c[i] \in DirEntry
  BY <1>1, ElementOfSeq
<1>3. \A i \in DOMAIN c : c[i].name \in Names /\ c[i].next \in Nat
  BY <1>2 DEF DirEntry
<1>4. c = <<>> <=> Len(c) = 0
  BY EmptySeq
<1>5. EndOf(c) \in Nat
  BY <1>1, <1>3, <1>4 DEF EndOf
<1> QED BY <1>1, <1>2, <1>3, <1>4, <1>5

-----------------------------------------------------------------------------
(***************************************************************************)
(* extend_contents.                                                        *)
(***************************************************************************)
DoublesUpTo(start, n, f) ==
  /\ f = [k \in 0..n |-> f[k]] /\ f[0] = start
  /\ \A k \in 1..n : f[k] = 2 * f[k - 1]

LEMMA DoublesExist ==
  ASSUME NEW start, NEW min \in Nat
  PROVE  \A n \in 0..min : \E f : DoublesUpTo(start, n, f)
<1> DEFINE Bad == {n \in 0..min : ~ \E f : DoublesUpTo(start, n, f)}
<1>1. SUFFICES ASSUME Bad # {} PROVE FALSE
  OBVIOUS
<1>2. PICK m \in Bad : \A n \in Bad : m <= n
  <2>1. Bad \subseteq Nat
    OBVIOUS
  <2> QED BY <1>1, <2>1, Least
<1>3. m \in 0..min /\ m \in Nat
  BY <1>2
<1>4. m # 0
  <2>1. DoublesUpTo(start, 0, [k \in 0..0 |-> start])
    BY DEF DoublesUpTo
  <2> QED BY <2>1, <1>2
<1>5. PICK f : DoublesUpTo(start, m - 1, f)
  <2>1. m - 1 \in 0..min /\ ~(m <= m - 1)
    BY <1>3, <1>4
  <2> QED BY <2>1, <1>2
<1>6. PICK new : new = 2 * f[m - 1]
  OBVIOUS
<1> DEFINE g == [k \in 0..m |-> IF k = m THEN new ELSE f[k]]
<1>7. DoublesUpTo(start, m, g)
  <2>1. f[0] = start /\ \A k \in 1..(m - 1) : f[k] = 2 * f[k - 1]
    BY <1>5 DEF DoublesUpTo
  <2>2. g[0] = start
    BY <2>1, <1>3, <1>4
  <2>3. \A k \in 1..m : g[k] = 2 * g[k - 1]
    <3> TAKE k \in 1..m
    <3>1. CASE k = m
      <4>1. g[k] = new /\ g[k - 1] = f[m - 1]
        BY <3>1, <1>3, <1>4
      <4> QED BY <4>1, <3>1, <1>6
    <3>2. CASE k # m
      <4>1. k \in 1..(m - 1) /\ g[k] = f[k] /\ g[k - 1] = f[k - 1]
        BY <3>2, <1>3
      <4> QED BY <4>1, <2>1
    <3> QED BY <3>1, <3>2
  <2>4. g = [k \in 0..m |-> g[k]]
    OBVIOUS
  <2> HIDE DEF g
  <2> QED BY <2>2, <2>3, <2>4 DEF DoublesUpTo
<1> QED BY <1>2, <1>7

LEMMA DoubledIs ==
  ASSUME NEW start, NEW min \in Nat
  PROVE  /\ Doubled(start, min)[0] = start
         /\ \A k \in 1..min : Doubled(start, min)[k] = 2 * Doubled(start, min)[k - 1]
<1>1. PICK f : DoublesUpTo(start, min, f)
  <2>1. min \in 0..min
    OBVIOUS
  <2> QED BY <2>1, DoublesExist
<1> DEFINE Next(d) == [k \in 0..min |-> IF k = 0 THEN start ELSE 2 * d[k - 1]]
<1>2. f = Next(f)
  <2>1. f = [k \in 0..min |-> f[k]]
    BY <1>1 DEF DoublesUpTo
  <2>2. \A k \in 0..min : f[k] = Next(f)[k]
    <3> TAKE k \in 0..min
    <3>1. CASE k = 0
      BY <3>1, <1>1 DEF DoublesUpTo
    <3>2. CASE k # 0
      <4>1. k \in 1..min
        BY <3>2
      <4> QED BY <4>1, <3>2, <1>1 DEF DoublesUpTo
    <3> QED BY <3>1, <3>2
  <2>3. Next(f) = [k \in 0..min |-> Next(f)[k]]
    OBVIOUS
  <2> QED BY <2>1, <2>2, <2>3
<1>3. Doubled(start, min) = CHOOSE d : d = Next(d)
  BY DEF Doubled
<1>4. Doubled(start, min) = Next(Doubled(start, min))
  BY <1>2, <1>3
<1> QED BY <1>4

\* Doubled k times, a size that is not 0 is greater than k.
LEMMA DoublingGrows ==
  ASSUME NEW start \in Nat, start > 0, NEW min \in Nat
  PROVE  \A k \in 0..min : Doubled(start, min)[k] \in Nat /\ Doubled(start, min)[k] > k
<1> DEFINE d == Doubled(start, min)
<1>1. d[0] = start /\ \A k \in 1..min : d[k] = 2 * d[k - 1]
  BY DoubledIs
<1> HIDE DEF d
<1> DEFINE Bad == {n \in 0..min : ~ (d[n] \in Nat /\ d[n] > n)}
<1>2. SUFFICES ASSUME Bad # {} PROVE FALSE
  BY DEF d
<1>3. PICK m \in Bad : \A n \in Bad : m <= n
  <2>1. Bad \subseteq Nat
    OBVIOUS
  <2> QED BY <1>2, <2>1, Least
<1>4. m # 0
  BY <1>1, <1>3
<1>5. m - 1 \in 0..min /\ m - 1 \notin Bad /\ m \in 1..min
  <2>1. m \in 1..min
    BY <1>3, <1>4
  <2>2. ~(m <= m - 1) /\ m - 1 \in 0..min
    BY <2>1
  <2> QED BY <2>1, <2>2, <1>3
<1>6. PICK x \in Nat : x = d[m - 1] /\ x > m - 1
  BY <1>5
<1>7. d[m] = 2 * x
  BY <1>1, <1>5, <1>6
<1>8. 2 * x \in Nat /\ 2 * x > m
  BY <1>5, <1>6
<1> QED BY <1>3, <1>7, <1>8

\* extend_contents finds no memory or enough.
LEMMA Extended ==
  ASSUME NEW size \in Nat, NEW min \in Nat, NEW memory \in Nat
  PROVE  LET x == ExtendContents(size, min, memory) IN
         x = -1 \/ (x \in Nat /\ x >= min /\ x >= size)
<1>1. CASE min <= size
  BY <1>1 DEF ExtendContents
<1>2. CASE ~(min <= size)
  <2>1. PICK start \in Nat : start = (IF size = 0 THEN Chunk ELSE size) /\ start > 0
    BY FuseDirAssumption
  <2> DEFINE d == Doubled(start, min)
             Enough(k) == d[k] >= min /\ \A j \in 0..k - 1 : d[j] < min
  <2>2. \A k \in 0..min : d[k] \in Nat /\ d[k] > k
    BY <2>1, DoublingGrows
  <2>3. ExtendContents(size, min, memory) = LET new == d[CHOOSE k \in 0..min : Enough(k)]
                                            IN  IF new > memory THEN -1 ELSE new
    BY <1>2, <2>1 DEF ExtendContents
  <2> HIDE DEF d
  <2>4. \E k \in 0..min : Enough(k)
    <3> DEFINE S == {k \in 0..min : d[k] >= min}
    <3>1. min \in S
      BY <2>2
    <3>2. PICK m \in S : \A n \in S : m <= n
      <4>1. S \subseteq Nat /\ S # {}
        BY <3>1
      <4> HIDE DEF S
      <4> QED BY <4>1, Least
    <3>3. ASSUME NEW j \in 0..m - 1 PROVE d[j] < min
      <4>1. j \in 0..min /\ ~(m <= j)
        BY <3>2
      <4>2. j \notin S
        BY <4>1, <3>2
      <4> QED BY <4>1, <4>2, <2>2
    <3> QED BY <3>2, <3>3
  <2>5. PICK k \in 0..min : k = (CHOOSE i \in 0..min : Enough(i)) /\ Enough(k)
    BY <2>4
  <2>6. ExtendContents(size, min, memory) = IF d[k] > memory THEN -1 ELSE d[k]
    BY <2>3, <2>5
  <2>7. PICK x \in Nat : x = d[k] /\ x >= min
    BY <2>2, <2>5
  <2>8. x >= min /\ x >= size
    BY <2>7, <1>2
  <2> QED BY <2>6, <2>7, <2>8
<1> QED BY <1>1, <1>2

-----------------------------------------------------------------------------
(***************************************************************************)
(* readdir_fill: what is in the contents when the file system has come to  *)
(* its entry k.                                                            *)
(***************************************************************************)
FillType ==
  [contents : Seq(DirEntry), len : Nat, size : Nat, filled : BOOLEAN, stop : BOOLEAN, error : BOOLEAN]

InPlace(s, k) ==
  /\ s.error => s.stop
  /\ s.len <= s.size
  /\ Ascending(s.contents)
  /\ \A i \in DOMAIN s.contents : Offset(s.contents[i].name) <= k /\ Listed(Offset(s.contents[i].name))
  /\ ~s.stop => \A j \in 1..k : Listed(j) => Has(s.contents, Entries[j])
AllKept(s) ==
  /\ s.filled /\ Packed(s.contents) /\ s.len = EndOf(s.contents)
  /\ s.stop => s.error
SomeKept(s, k) ==
  /\ \A i \in DOMAIN s.contents : s.contents[i].next = Offset(s.contents[i].name)
  /\ s.contents = <<>> => s.len = 0
  /\ ~s.error => /\ s.filled <=> s.contents = <<>>
                 /\ s.contents = <<>> => ~s.stop
                 /\ \A j \in 1..k : Listed(j) => \/ Has(s.contents, Entries[j])
                                                 \/ \A i \in DOMAIN s.contents : s.contents[i].next < j
FillInv(s, k) ==
  /\ s \in FillType /\ InPlace(s, k)
  /\ style = "whole" => AllKept(s)
  /\ style = "offsets" => SomeKept(s, k)

FillStart ==
  [contents |-> <<>>, len |-> 0, size |-> dh.size, filled |-> TRUE, stop |-> FALSE, error |-> FALSE]
FillStep(s, k, memory) == IF Listed(k) THEN FillDir(s, Entries[k], memory) ELSE s

FillsUpTo(memory, n, f) ==
  /\ f = [k \in 0..n |-> f[k]] /\ f[0] = FillStart
  /\ \A k \in 1..n : f[k] = FillStep(f[k - 1], k, memory)

LEMMA FillsExist ==
  ASSUME NEW memory
  PROVE  \A n \in 0..Len(Entries) : \E f : FillsUpTo(memory, n, f)
<1> DEFINE Bad == {n \in 0..Len(Entries) : ~ \E f : FillsUpTo(memory, n, f)}
<1>1. SUFFICES ASSUME Bad # {} PROVE FALSE
  OBVIOUS
<1>2. PICK m \in Bad : \A n \in Bad : m <= n
  <2>1. Bad \subseteq Nat
    OBVIOUS
  <2> QED BY <1>1, <2>1, Least
<1>3. m \in 0..Len(Entries) /\ m \in Nat
  BY <1>2
<1>4. m # 0
  <2>1. FillsUpTo(memory, 0, [k \in 0..0 |-> FillStart])
    BY DEF FillsUpTo
  <2> QED BY <2>1, <1>2
<1>5. PICK f : FillsUpTo(memory, m - 1, f)
  <2>1. m - 1 \in 0..Len(Entries) /\ ~(m <= m - 1)
    BY <1>3, <1>4, EntryPlaces
  <2> QED BY <2>1, <1>2
<1>6. PICK new : new = FillStep(f[m - 1], m, memory)
  OBVIOUS
<1> DEFINE g == [k \in 0..m |-> IF k = m THEN new ELSE f[k]]
<1>7. FillsUpTo(memory, m, g)
  <2>1. f[0] = FillStart /\ \A k \in 1..(m - 1) : f[k] = FillStep(f[k - 1], k, memory)
    BY <1>5 DEF FillsUpTo
  <2>2. g[0] = FillStart
    BY <2>1, <1>3, <1>4
  <2>3. \A k \in 1..m : g[k] = FillStep(g[k - 1], k, memory)
    <3> TAKE k \in 1..m
    <3>1. CASE k = m
      <4>1. g[k] = new /\ g[k - 1] = f[m - 1]
        BY <3>1, <1>3, <1>4
      <4> QED BY <4>1, <3>1, <1>6
    <3>2. CASE k # m
      <4>1. k \in 1..(m - 1) /\ g[k] = f[k] /\ g[k - 1] = f[k - 1]
        BY <3>2, <1>3
      <4> QED BY <4>1, <2>1
    <3> QED BY <3>1, <3>2
  <2>4. g = [k \in 0..m |-> g[k]]
    OBVIOUS
  <2> HIDE DEF g
  <2> QED BY <2>2, <2>3, <2>4 DEF FillsUpTo
<1> QED BY <1>2, <1>7

LEMMA FilledIs ==
  ASSUME NEW memory
  PROVE  /\ Filled(memory)[0] = FillStart
         /\ \A k \in 1..Len(Entries) : Filled(memory)[k] = FillStep(Filled(memory)[k - 1], k, memory)
<1>1. PICK f : FillsUpTo(memory, Len(Entries), f)
  <2>1. Len(Entries) \in 0..Len(Entries)
    BY EntryPlaces
  <2> QED BY <2>1, FillsExist
<1> DEFINE Next(s) == [k \in 0..Len(Entries) |->
                         IF k = 0 THEN FillStart
                         ELSE IF Listed(k) THEN FillDir(s[k - 1], Entries[k], memory) ELSE s[k - 1]]
<1>2. f = Next(f)
  <2>1. f = [k \in 0..Len(Entries) |-> f[k]]
    BY <1>1 DEF FillsUpTo
  <2>2. \A k \in 0..Len(Entries) : f[k] = Next(f)[k]
    <3> TAKE k \in 0..Len(Entries)
    <3>1. CASE k = 0
      BY <3>1, <1>1 DEF FillsUpTo
    <3>2. CASE k # 0
      <4>1. k \in 1..Len(Entries)
        BY <3>2, EntryPlaces
      <4>2. f[k] = FillStep(f[k - 1], k, memory)
        BY <4>1, <1>1 DEF FillsUpTo
      <4> QED BY <4>2, <3>2 DEF FillStep
    <3> QED BY <3>1, <3>2
  <2>3. Next(f) = [k \in 0..Len(Entries) |-> Next(f)[k]]
    OBVIOUS
  <2> QED BY <2>1, <2>2, <2>3
<1>3. Filled(memory) = CHOOSE s : s = Next(s)
  BY DEF Filled, FillStart
<1>4. Filled(memory) = Next(Filled(memory))
  BY <1>2, <1>3
<1>5. Filled(memory)[0] = FillStart
  BY <1>4, EntryPlaces
<1>6. ASSUME NEW k \in 1..Len(Entries)
      PROVE  Filled(memory)[k] = FillStep(Filled(memory)[k - 1], k, memory)
  <2>1. k \in 0..Len(Entries) /\ k # 0
    BY EntryPlaces
  <2> QED BY <1>4, <2>1 DEF FillStep
<1> QED BY <1>5, <1>6

\* An entry is added to a list.
WithEntry(c, e, u) ==
  /\ u \in Seq(DirEntry) /\ u # <<>> /\ Ascending(u) /\ EndOf(u) = e.next
  /\ \A n : Has(u, n) <=> Has(c, n) \/ n = e.name
  /\ \A i \in DOMAIN u : (i \in DOMAIN c /\ u[i] = c[i]) \/ u[i] = e
  /\ Packed(c) /\ e.next = EndOf(c) + EntrySize[e.name] => Packed(u)

LEMMA EntryAppended ==
  ASSUME NEW c \in Seq(DirEntry), NEW e \in DirEntry, Ascending(c),
         \A i \in DOMAIN c : Offset(c[i].name) < Offset(e.name) /\ c[i].next < e.next
  PROVE  WithEntry(c, e, Append(c, e))
<1> DEFINE u == Append(c, e)
<1>1. /\ Len(c) \in Nat /\ DOMAIN c = 1..Len(c) /\ (c = <<>> <=> Len(c) = 0)
  BY EntriesOf
<1>2. /\ u \in Seq(DirEntry) /\ u # <<>> /\ Len(u) = Len(c) + 1
      /\ \A i \in 1..Len(c) : u[i] = c[i]
      /\ u[Len(c) + 1] = e
  BY AppendProperties
<1> HIDE DEF u
<1>3. DOMAIN u = 1..Len(c) + 1
  BY <1>2, LenProperties
<1>4. \A i \in DOMAIN u : (i \in DOMAIN c /\ u[i] = c[i]) \/ (i = Len(c) + 1 /\ u[i] = e)
  BY <1>1, <1>2, <1>3
<1>5. Ascending(u)
  <2> SUFFICES ASSUME NEW i \in DOMAIN u, NEW j \in DOMAIN u, i < j
               PROVE  Offset(u[i].name) < Offset(u[j].name) /\ u[i].next < u[j].next
    BY DEF Ascending
  <2>1. i \in DOMAIN c /\ u[i] = c[i]
    BY <1>1, <1>3, <1>4
  <2>2. CASE j \in DOMAIN c
    BY <2>1, <2>2, <1>1, <1>2 DEF Ascending
  <2>3. CASE j \notin DOMAIN c
    BY <2>1, <2>3, <1>4
  <2> QED BY <2>2, <2>3
<1>6. EndOf(u) = e.next
  BY <1>2 DEF EndOf
<1>7. \A n : Has(u, n) <=> Has(c, n) \/ n = e.name
  <2>1. \A i \in DOMAIN c : i \in DOMAIN u /\ u[i] = c[i]
    BY <1>1, <1>2, <1>3
  <2>2. Len(c) + 1 \in DOMAIN u
    BY <1>1, <1>3
  <2> QED BY <2>1, <2>2, <1>2, <1>4 DEF Has
<1>8. ASSUME Packed(c), e.next = EndOf(c) + EntrySize[e.name]
      PROVE  Packed(u)
  <2> SUFFICES ASSUME NEW i \in DOMAIN u PROVE u[i].next = StartOf(u, i) + EntrySize[u[i].name]
    BY DEF Packed
  <2>1. CASE i \in DOMAIN c
    <3>1. u[i] = c[i] /\ (i # 1 => u[i - 1] = c[i - 1])
      BY <2>1, <1>1, <1>2
    <3> QED BY <3>1, <2>1, <1>8 DEF Packed, StartOf
  <2>2. CASE i \notin DOMAIN c
    <3>1. i = Len(c) + 1 /\ u[i] = e
      BY <2>2, <1>4
    <3>2. StartOf(u, i) = EndOf(c)
      <4>1. CASE Len(c) = 0
        BY <4>1, <3>1, <1>1 DEF StartOf, EndOf
      <4>2. CASE Len(c) # 0
        <5>1. Len(c) \in 1..Len(c) /\ i # 1 /\ i - 1 = Len(c)
          BY <4>2, <3>1, <1>1
        <5>2. u[Len(c)] = c[Len(c)]
          BY <5>1, <1>2
        <5> QED BY <5>1, <5>2, <4>2, <1>1 DEF StartOf, EndOf
      <4> QED BY <4>1, <4>2
    <3> QED BY <3>1, <3>2, <1>8
  <2> QED BY <2>1, <2>2
<1>9. \A i \in DOMAIN u : (i \in DOMAIN c /\ u[i] = c[i]) \/ u[i] = e
  BY <1>4
<1>10. WithEntry(c, e, u)
  BY <1>2, <1>5, <1>6, <1>7, <1>8, <1>9 DEF WithEntry
<1> QED BY <1>10 DEF u

\* No entry of a list is behind its end.
LEMMA BeforeEnd ==
  ASSUME NEW c \in Seq(DirEntry), Ascending(c), NEW i \in DOMAIN c
  PROVE  c[i].next <= EndOf(c)
<1>1. Len(c) \in DOMAIN c /\ (i = Len(c) \/ i < Len(c)) /\ c # <<>> /\ Len(c) \in Nat
  BY EntriesOf
<1>2. EndOf(c) = c[Len(c)].next
  BY <1>1 DEF EndOf
<1>3. c[i].next \in Nat /\ c[Len(c)].next \in Nat
  BY <1>1, EntriesOf
<1>4. i < Len(c) => c[i].next < c[Len(c)].next
  BY <1>1 DEF Ascending
<1> QED BY <1>1, <1>2, <1>3, <1>4

-----------------------------------------------------------------------------
\* An entry that is not listed changes nothing.
LEMMA FillSkips ==
  ASSUME NEW k \in 1..Len(Entries), NEW s, FillInv(s, k - 1), s.stop \/ ~Listed(k), style \in {"whole", "offsets"}
  PROVE  FillInv(s, k)
<1>1. s \in FillType /\ InPlace(s, k - 1) /\ k \in Nat
  BY EntryPlaces DEF FillInv
<1>2. s.contents \in Seq(DirEntry)
  BY <1>1 DEF FillType
<1>3. \A i \in DOMAIN s.contents : Offset(s.contents[i].name) \in Nat
  BY <1>2, EntriesOf, EntryPlaces
<1>4. \A j \in 1..k : j \in 1..k - 1 \/ j = k
  BY <1>1
<1>5. InPlace(s, k)
  <2>1. \A i \in DOMAIN s.contents : Offset(s.contents[i].name) <= k
    BY <1>1, <1>3 DEF InPlace
  <2> QED BY <2>1, <1>1, <1>4 DEF InPlace
<1>6. ASSUME style = "offsets" PROVE SomeKept(s, k)
  <2>1. SomeKept(s, k - 1)
    BY <1>6 DEF FillInv
  <2>2. \A i \in DOMAIN s.contents : s.contents[i].next < k
    BY <2>1, <1>1, <1>3 DEF SomeKept, InPlace
  <2> QED BY <2>1, <2>2, <1>4 DEF SomeKept
<1> QED BY <1>1, <1>5, <1>6 DEF FillInv

LEMMA FillAdds ==
  ASSUME NEW k \in 1..Len(Entries), NEW s, FillInv(s, k - 1), ~s.stop, Listed(k), style \in {"whole", "offsets"},
         NEW memory \in Nat
  PROVE  FillInv(FillDir(s, Entries[k], memory), k)
<1> DEFINE n == Entries[k]
           newlen == s.len + EntrySize[n]
           next == IF style = "whole" THEN newlen ELSE Offset(n)
           t == FillDir(s, n, memory)
<1>1. s \in FillType /\ InPlace(s, k - 1) /\ k \in Nat
  BY EntryPlaces DEF FillInv
<1>2. /\ n \in Names /\ Offset(n) = k /\ EntrySize[n] \in Nat /\ EntrySize[n] > 0 /\ EntrySize[n] <= ReadSize
      /\ \A m \in Names : Offset(m) \in Nat
  BY EntryPlaces
<1>3. /\ s.contents \in Seq(DirEntry) /\ s.len \in Nat /\ s.size \in Nat
      /\ s.filled \in BOOLEAN /\ s.stop = FALSE /\ s.error = FALSE
  BY <1>1 DEF FillType, InPlace
<1>4. newlen \in Nat /\ next \in Nat /\ ReadSize \in Nat
  BY <1>2, <1>3, FuseDirAssumption
<1>5. PICK x : x = ExtendContents(s.size, IF style = "whole" THEN newlen ELSE ReadSize, memory)
  OBVIOUS
<1>6. x = -1 \/ (x \in Nat /\ x >= s.size /\ x >= IF style = "whole" THEN newlen ELSE ReadSize)
  <2>1. (IF style = "whole" THEN newlen ELSE ReadSize) \in Nat
    BY <1>4
  <2> QED BY <2>1, <1>3, <1>5, Extended
<1>7. \A i \in DOMAIN s.contents :
        /\ s.contents[i].name \in Names /\ s.contents[i].next \in Nat
        /\ Offset(s.contents[i].name) <= k - 1 /\ Offset(s.contents[i].name) \in Nat
  BY <1>1, <1>2, <1>3, EntriesOf DEF InPlace
<1>8. \A j \in 1..k : j \in 1..k - 1 \/ j = k
  BY <1>1
<1> HIDE DEF n, newlen, next
<1>9. t = IF x = -1 THEN [s EXCEPT !.stop = TRUE, !.error = TRUE]
          ELSE IF style = "offsets" /\ newlen > ReadSize
          THEN [s EXCEPT !.size = x, !.filled = FALSE, !.stop = TRUE]
          ELSE [contents |-> Append(s.contents, [name |-> n, next |-> next]), len |-> newlen, size |-> x,
                filled |-> s.filled /\ style = "whole", stop |-> FALSE, error |-> FALSE]
  BY <1>3, <1>5 DEF FillDir, newlen, next
<1> HIDE DEF t
<1>10. CASE x = -1
  <2>1. /\ t.contents = s.contents /\ t.len = s.len /\ t.size = s.size /\ t.filled = s.filled
        /\ t.stop = TRUE /\ t.error = TRUE /\ t \in FillType
    BY <1>10, <1>9, <1>1 DEF FillType
  <2>2. InPlace(t, k)
    BY <2>1, <1>1, <1>7 DEF InPlace
  <2>3. style = "whole" => AllKept(t)
    BY <2>1 DEF FillInv, AllKept
  <2>4. style = "offsets" => SomeKept(t, k)
    BY <2>1 DEF FillInv, SomeKept
  <2> QED BY <2>1, <2>2, <2>3, <2>4 DEF FillInv, t, n
<1>11. CASE x # -1 /\ style = "offsets" /\ newlen > ReadSize
  <2>1. x \in Nat /\ x >= s.size
    BY <1>6, <1>11
  <2>2. /\ t.contents = s.contents /\ t.len = s.len /\ t.size = x /\ t.filled = FALSE
        /\ t.stop = TRUE /\ t.error = FALSE /\ t \in FillType
    BY <1>11, <1>9, <1>1, <1>3, <2>1 DEF FillType
  <2>3. t.len <= t.size
    BY <2>1, <2>2, <1>1, <1>3 DEF InPlace
  <2>4. InPlace(t, k)
    BY <2>2, <2>3, <1>1, <1>7 DEF InPlace
  <2>5. SomeKept(s, k - 1)
    BY <1>11 DEF FillInv
  <2>6. s.contents # <<>>
    BY <2>5, <1>2, <1>3, <1>4, <1>11 DEF SomeKept, newlen
  <2>7. \A i \in DOMAIN t.contents : t.contents[i].next < k
    BY <2>2, <2>5, <1>1, <1>7 DEF SomeKept
  <2>8. SomeKept(t, k)
    BY <2>2, <2>5, <2>6, <2>7, <1>3, <1>8 DEF SomeKept
  <2> QED BY <2>2, <2>4, <2>8, <1>11 DEF FillInv, t, n
<1>12. CASE x # -1 /\ ~(style = "offsets" /\ newlen > ReadSize)
  <2>1. PICK e \in DirEntry : e.name = n /\ e.next = next /\ e = [name |-> n, next |-> next]
    BY <1>2, <1>4 DEF DirEntry
  <2>2. PICK u : u = Append(s.contents, e)
    OBVIOUS
  <2>3. /\ t.contents = u /\ t.len = newlen /\ t.size = x /\ t.filled = (s.filled /\ style = "whole")
        /\ t.stop = FALSE /\ t.error = FALSE
    BY <1>9, <1>12, <2>1, <2>2
  <2>4. PICK c \in Seq(DirEntry) : c = s.contents /\ Ascending(c)
    BY <1>1, <1>3 DEF InPlace
  <2>5. ASSUME NEW i \in DOMAIN c
        PROVE  Offset(c[i].name) < Offset(e.name) /\ c[i].next < e.next
    <3>1. Offset(c[i].name) < Offset(e.name)
      BY <2>1, <2>4, <1>1, <1>2, <1>7
    <3>2. CASE style = "whole"
      <4>1. s.len = EndOf(c) /\ c[i].next <= EndOf(c)
        BY <3>2, <2>4, BeforeEnd DEF FillInv, AllKept
      <4>2. next = s.len + EntrySize[n]
        BY <3>2 DEF next, newlen
      <4>3. c[i].next \in Nat
        BY <1>7, <2>4
      <4> QED BY <4>1, <4>2, <4>3, <3>1, <2>1, <1>2, <1>3
    <3>3. CASE style = "offsets"
      <4>1. c[i].next = Offset(c[i].name)
        BY <3>3, <2>4 DEF FillInv, SomeKept
      <4>2. next = Offset(n)
        BY <3>3 DEF next
      <4> QED BY <4>1, <4>2, <3>1, <2>1
    <3> QED BY <3>2, <3>3
  <2>6. /\ u \in Seq(DirEntry) /\ u # <<>> /\ Ascending(u) /\ EndOf(u) = e.next
        /\ \A m : Has(u, m) <=> Has(c, m) \/ m = e.name
        /\ \A i \in DOMAIN u : (i \in DOMAIN c /\ u[i] = c[i]) \/ u[i] = e
        /\ Packed(c) /\ e.next = EndOf(c) + EntrySize[e.name] => Packed(u)
    <3>1. WithEntry(c, e, Append(c, e))
      BY <2>4, <2>5, EntryAppended
    <3>2. WithEntry(c, e, u)
      BY <3>1, <2>2, <2>4
    <3> QED BY <3>2 DEF WithEntry
  <2>7. x \in Nat /\ newlen <= x
    BY <1>4, <1>6, <1>12
  <2>8. t \in FillType
    <3>1. t = [contents |-> u, len |-> newlen, size |-> x,
               filled |-> s.filled /\ style = "whole", stop |-> FALSE, error |-> FALSE]
      BY <1>9, <1>12, <2>1, <2>2
    <3>2. (s.filled /\ style = "whole") \in BOOLEAN
      OBVIOUS
    <3> QED BY <3>1, <3>2, <2>6, <2>7, <1>4 DEF FillType
  <2>9. InPlace(t, k)
    <3>1. ASSUME NEW i \in DOMAIN u PROVE Offset(u[i].name) <= k /\ Listed(Offset(u[i].name))
      <4>1. CASE u[i] = e
        BY <4>1, <2>1, <1>1, <1>2
      <4>2. CASE i \in DOMAIN c /\ u[i] = c[i]
        BY <4>2, <2>4, <1>1, <1>7 DEF InPlace
      <4> QED BY <4>1, <4>2, <2>6
    <3>2. ASSUME NEW j \in 1..k, Listed(j) PROVE Has(u, Entries[j])
      <4>1. CASE j = k
        BY <4>1, <2>1, <2>6 DEF n
      <4>2. CASE j \in 1..k - 1
        BY <4>2, <3>2, <2>4, <2>6, <1>1, <1>3 DEF InPlace
      <4> QED BY <4>1, <4>2, <1>8
    <3> QED BY <3>1, <3>2, <2>3, <2>6, <2>7 DEF InPlace
  <2>10. ASSUME style = "whole" PROVE AllKept(t)
    <3>1. s.filled /\ Packed(c) /\ s.len = EndOf(c)
      BY <2>10, <2>4 DEF FillInv, AllKept
    <3>2. e.next = EndOf(c) + EntrySize[e.name] /\ e.next = newlen
      BY <3>1, <2>1, <2>10 DEF next, newlen
    <3> QED BY <3>1, <3>2, <2>3, <2>6, <2>10 DEF AllKept
  <2>11. ASSUME style = "offsets" PROVE SomeKept(t, k)
    <3>1. e.next = Offset(e.name)
      BY <2>1, <2>11 DEF next
    <3>2. \A i \in DOMAIN c : c[i].next = Offset(c[i].name)
      BY <2>4, <2>11 DEF FillInv, SomeKept
    <3>3. \A i \in DOMAIN u : u[i].next = Offset(u[i].name)
      BY <3>1, <3>2, <2>6
    <3>4. \A j \in 1..k : Listed(j) => Has(u, Entries[j])
      BY <2>3, <2>9 DEF InPlace
    <3> QED BY <3>3, <3>4, <2>3, <2>6, <2>11 DEF SomeKept
  <2> QED BY <2>8, <2>9, <2>10, <2>11 DEF FillInv, t, n
<1> QED BY <1>10, <1>11, <1>12

\* Whatever the file system has come to, the contents are as they should be.
LEMMA FillsGood ==
  ASSUME NEW memory \in Nat, style \in {"whole", "offsets"}, dh.size \in Nat
  PROVE  \A k \in 0..Len(Entries) : FillInv(Filled(memory)[k], k)
<1> DEFINE f == Filled(memory)
<1>1. f[0] = FillStart /\ \A k \in 1..Len(Entries) : f[k] = FillStep(f[k - 1], k, memory)
  BY FilledIs
<1> HIDE DEF f
<1> DEFINE Bad == {n \in 0..Len(Entries) : ~FillInv(f[n], n)}
<1>2. SUFFICES ASSUME Bad # {} PROVE FALSE
  BY DEF f
<1>3. PICK m \in Bad : \A n \in Bad : m <= n
  <2>1. Bad \subseteq Nat
    OBVIOUS
  <2> HIDE DEF Bad
  <2> QED BY <1>2, <2>1, Least
<1>4. FillInv(FillStart, 0)
  <2>1. <<>> \in Seq(DirEntry) /\ DOMAIN <<>> = {} /\ EndOf(<<>>) = 0
    BY EmptySeq DEF EndOf
  <2>2. FillStart \in FillType
    BY <2>1 DEF FillStart, FillType
  <2>3. InPlace(FillStart, 0)
    BY DEF InPlace, FillStart, Ascending, Has
  <2>4. AllKept(FillStart)
    BY <2>1 DEF AllKept, FillStart, Packed
  <2>5. SomeKept(FillStart, 0)
    BY DEF SomeKept, FillStart
  <2> QED BY <2>2, <2>3, <2>4, <2>5 DEF FillInv
<1>5. m \in 1..Len(Entries) /\ m - 1 \in 0..Len(Entries) /\ ~(m <= m - 1)
  <2>1. m # 0
    BY <1>1, <1>3, <1>4
  <2>2. m \in 0..Len(Entries)
    BY <1>3
  <2> QED BY <2>1, <2>2, EntryPlaces
<1>6. FillInv(f[m - 1], m - 1)
  BY <1>3, <1>5
<1>7. FillInv(FillStep(f[m - 1], m, memory), m)
  <2>1. PICK s : s = f[m - 1]
    OBVIOUS
  <2>2. FillInv(s, m - 1)
    BY <1>6, <2>1
  <2>3. CASE s.stop \/ ~Listed(m)
    <3>1. FillStep(s, m, memory) = s
      BY <2>3 DEF FillStep, FillDir
    <3>2. FillInv(s, m)
      BY <1>5, <2>2, <2>3, FillSkips
    <3> QED BY <3>1, <3>2, <2>1
  <2>4. CASE ~s.stop /\ Listed(m)
    <3>1. FillStep(s, m, memory) = FillDir(s, Entries[m], memory)
      BY <2>4 DEF FillStep
    <3>2. FillInv(FillDir(s, Entries[m], memory), m)
      BY <1>5, <2>2, <2>4, FillAdds
    <3> QED BY <3>1, <3>2, <2>1
  <2> QED BY <2>3, <2>4
<1> QED BY <1>1, <1>3, <1>5, <1>7

-----------------------------------------------------------------------------
(***************************************************************************)
(* Replies.                                                                *)
(***************************************************************************)
LEMMA WholeIs ==
  ASSUME NEW c \in Seq(DirEntry), NEW bytes \in Nat
  PROVE  /\ Whole(c, bytes) \in 0..Len(c)
         /\ \A j \in 1..Whole(c, bytes) : c[j].next <= bytes
         /\ Whole(c, bytes) = Len(c) \/ c[Whole(c, bytes) + 1].next > bytes
<1> DEFINE Is(i) == /\ \A j \in 1..i : c[j].next <= bytes
                    /\ i = Len(c) \/ c[i + 1].next > bytes
           S == {i \in 0..Len(c) : i = Len(c) \/ c[i + 1].next > bytes}
<1>1. Len(c) \in Nat /\ \A i \in 1..Len(c) : c[i].next \in Nat
  BY EntriesOf
<1>2. PICK m \in S : \A n \in S : m <= n
  <2>1. S \subseteq Nat /\ Len(c) \in S
    BY <1>1
  <2> HIDE DEF S
  <2> QED BY <2>1, Least
<1>3. ASSUME NEW j \in 1..m PROVE c[j].next <= bytes
  <2>1. j - 1 \in 0..Len(c) /\ ~(m <= j - 1) /\ j \in 1..Len(c) /\ (j - 1) + 1 = j /\ j - 1 # Len(c)
    BY <1>1, <1>2
  <2>2. j - 1 \notin S
    BY <2>1, <1>2
  <2>3. ~(c[j].next > bytes)
    BY <2>1, <2>2
  <2> QED BY <2>1, <2>3, <1>1
<1>4. m \in 0..Len(c) /\ Is(m)
  BY <1>2, <1>3
<1>5. Whole(c, bytes) = CHOOSE i \in 0..Len(c) : Is(i)
  BY DEF Whole
<1>6. Whole(c, bytes) \in 0..Len(c) /\ Is(Whole(c, bytes))
  BY <1>4, <1>5
<1> QED BY <1>6

\* The entries up to a place are those that end by a position.
LEMMA WholeAt ==
  ASSUME NEW c \in Seq(DirEntry), Ascending(c), NEW n \in 0..Len(c), NEW bytes \in Nat,
         n # 0 => c[n].next = bytes, n # Len(c) => c[n + 1].next > bytes
  PROVE  Whole(c, bytes) = n
<1>1. PICK l \in Nat : l = Len(c) /\ DOMAIN c = 1..l /\ \A i \in 1..l : c[i].next \in Nat
  BY EntriesOf
<1>2. PICK w \in 0..l : /\ w = Whole(c, bytes)
                        /\ \A j \in 1..w : c[j].next <= bytes
                        /\ w = l \/ c[w + 1].next > bytes
  BY <1>1, WholeIs
<1>5. /\ n \in 0..l /\ w \in 0..l
      /\ n # 0 => c[n].next = bytes
      /\ n # l => c[n + 1].next > bytes
  BY <1>1, <1>2
<1>3. ~(n < w)
  <2> SUFFICES ASSUME n < w PROVE FALSE
    OBVIOUS
  <2>1. n + 1 \in 1..w /\ n + 1 \in 1..l /\ n # l
    BY <1>5
  <2>2. c[n + 1].next > bytes /\ c[n + 1].next <= bytes /\ c[n + 1].next \in Nat
    BY <2>1, <1>1, <1>2, <1>5
  <2> QED BY <2>2
<1>4. ~(w < n)
  <2> SUFFICES ASSUME w < n PROVE FALSE
    OBVIOUS
  <2>1. w + 1 \in 1..l /\ n \in 1..l /\ (w + 1 = n \/ w + 1 < n) /\ w # l /\ n # 0
    BY <1>5
  <2>2. c[w + 1].next > bytes /\ c[n].next = bytes /\ c[n].next \in Nat /\ c[w + 1].next \in Nat
    BY <2>1, <1>1, <1>2, <1>5
  <2>3. w + 1 < n => c[w + 1].next < c[n].next
    BY <2>1, <1>1 DEF Ascending
  <2> QED BY <2>1, <2>2, <2>3
<1> QED BY <1>2, <1>3, <1>4, <1>5

-----------------------------------------------------------------------------
(***************************************************************************)
(* The invariant. A directory that is kept as a whole has all that was     *)
(* there when it was filled, and the reader has a first part of it. With   *)
(* offsets, the reader has what was there all the time up to its position. *)
(***************************************************************************)
HandleType == [contents : Seq(DirEntry), len : Nat, size : Nat, filled : BOOLEAN]

DirTypes ==
  /\ style \in {"whole", "offsets"} /\ present \subseteq Names /\ stable \subseteq present
  /\ ended \in BOOLEAN /\ seen \in Seq(DirEntry)
SeenInv ==
  /\ Ascending(seen) /\ pos = EndOf(seen)
  /\ \A i \in DOMAIN seen : seen[i].name \in ever /\ seen[i].next > 0
HandleInv ==
  IF dh = ClosedDir THEN stable = {} /\ seen = <<>> /\ ~ended
  ELSE dh \in HandleType /\ dh.len <= dh.size /\ present \subseteq ever
WholeInv ==
  /\ dh.filled => Ascending(dh.contents) /\ Packed(dh.contents)
  /\ seen # <<>> \/ ended =>
       /\ dh.filled /\ Begins(seen, dh.contents)
       /\ \A n \in stable : Has(dh.contents, n)
       /\ \A i \in DOMAIN dh.contents : dh.contents[i].name \in ever
  /\ ended => Len(seen) = Len(dh.contents)
OffsetsInv ==
  /\ \A i \in DOMAIN seen : seen[i].next = Offset(seen[i].name)
  /\ \A n \in stable : Offset(n) <= pos => Has(seen, n)
  /\ ended => \A n \in stable : Offset(n) <= pos
  /\ dh.filled /\ seen # <<>> => ended
DirInv ==
  /\ DirTypes /\ SeenInv /\ HandleInv
  /\ style = "whole" => WholeInv
  /\ style = "offsets" => OffsetsInv

\* What a reply r from the contents c may hold.
Fresh(r) ==
  /\ r \in Seq(DirEntry) /\ Ascending(r)
  /\ \A i \in DOMAIN r : /\ r[i].name \in ever /\ r[i].next > pos
                         /\ \A j \in DOMAIN seen : Offset(seen[j].name) < Offset(r[i].name)
NextPart(r, c) ==
  /\ Ascending(c) /\ Packed(c) /\ Begins(seen, c)
  /\ \A n \in stable : Has(c, n)
  /\ \A i \in DOMAIN c : c[i].name \in ever
  /\ Len(seen) + Len(r) <= Len(c) /\ \A i \in DOMAIN r : r[i] = c[Len(seen) + i]
  /\ r = <<>> => Len(seen) = Len(c)
NextOnes(r, filled) ==
  /\ \A i \in DOMAIN r : r[i].next = Offset(r[i].name)
  /\ \A n \in stable : Offset(n) > pos => r # <<>> /\ (Has(r, n) \/ \A i \in DOMAIN r : r[i].next < Offset(n))
  /\ filled => r = <<>>

\* A part of the kept contents, from the position on.
LEMMA WholeReply ==
  ASSUME DirInv, NEW c \in Seq(DirEntry), Ascending(c), Packed(c), Begins(seen, c),
         \A n \in stable : Has(c, n), \A i \in DOMAIN c : c[i].name \in ever
  PROVE  LET r == SubSeq(c, Whole(c, pos) + 1, Whole(c, pos + ReadSize)) IN Fresh(r) /\ NextPart(r, c)
<1> DEFINE r == SubSeq(c, Whole(c, pos) + 1, Whole(c, pos + ReadSize))
<1> HIDE DEF r
<1>1. PICK m \in Nat : m = Len(c) /\ DOMAIN c = 1..m /\ \A i \in 1..m : c[i] \in DirEntry /\ c[i].next \in Nat
  BY EntriesOf
<1>2. PICK l \in Nat : l = Len(seen) /\ DOMAIN seen = 1..l /\ (seen = <<>> <=> l = 0)
  BY EntriesOf DEF DirInv, DirTypes
<1>3. l <= m /\ \A i \in 1..l : seen[i] = c[i]
  BY <1>1, <1>2 DEF Begins
<1>4. pos \in Nat /\ pos = (IF l = 0 THEN 0 ELSE c[l].next) /\ ReadSize \in Nat
  <2>1. l # 0 => l \in 1..l
    BY <1>2
  <2>2. pos = EndOf(seen)
    BY DEF DirInv, SeenInv
  <2>3. pos = (IF l = 0 THEN 0 ELSE c[l].next)
    BY <2>1, <2>2, <1>2, <1>3 DEF EndOf
  <2>4. l # 0 => l \in 1..m
    BY <1>2, <1>3, <1>1
  <2> QED BY <2>3, <2>4, <1>1, FuseDirAssumption
<1>5. l # m => /\ l + 1 \in 1..m
               /\ c[l + 1].next > pos /\ c[l + 1].next <= pos + ReadSize
  <2> SUFFICES ASSUME l # m PROVE l + 1 \in 1..m /\ c[l + 1].next > pos /\ c[l + 1].next <= pos + ReadSize
    OBVIOUS
  <2>1. l + 1 \in 1..m /\ (l + 1 = 1 <=> l = 0) /\ l + 1 - 1 = l
    BY <1>2, <1>1, <1>3
  <2>2. c[l + 1].next = StartOf(c, l + 1) + EntrySize[c[l + 1].name]
    BY <2>1, <1>1 DEF Packed
  <2>3. StartOf(c, l + 1) = pos
    BY <2>1, <1>4 DEF StartOf
  <2>4. c[l + 1].name \in Names
    BY <2>1, <1>1, EntriesOf
  <2>5. PICK e \in Nat : e = EntrySize[c[l + 1].name] /\ e > 0 /\ e <= ReadSize
    BY <2>4, EntryPlaces
  <2>6. c[l + 1].next = pos + e
    BY <2>2, <2>3, <2>5
  <2> QED BY <2>1, <2>5, <2>6, <1>4
<1>6. Whole(c, pos) = l
  <2>1. l \in 0..Len(c) /\ (l # 0 => c[l].next = pos) /\ (l # Len(c) => c[l + 1].next > pos)
    BY <1>1, <1>2, <1>3, <1>4, <1>5
  <2> QED BY <2>1, <1>4, WholeAt
<1>7. PICK w \in 0..m : w = Whole(c, pos + ReadSize) /\ (w = m \/ c[w + 1].next > pos + ReadSize)
  <2>1. pos + ReadSize \in Nat
    BY <1>4
  <2> QED BY <2>1, <1>1, WholeIs
<1>8. l <= w /\ (l # m => l < w)
  <2> SUFFICES ASSUME w < l \/ (w = l /\ l # m) PROVE FALSE
    BY <1>1, <1>2, <1>7
  <2>1. w + 1 \in 1..m /\ w # m /\ (w = l \/ (l \in 1..m /\ (w + 1 = l \/ w + 1 < l)))
    BY <1>1, <1>2, <1>3, <1>7
  <2>2. CASE w = l
    <3>1. l # m
      BY <2>1, <2>2
    <3>2. c[l + 1].next \in Nat
      BY <3>1, <1>5, <1>1
    <3> QED BY <2>2, <3>1, <3>2, <1>4, <1>5, <1>7
  <2>3. CASE w # l
    <3>1. l \in 1..m /\ (w + 1 = l \/ w + 1 < l) /\ l # 0
      BY <2>1, <2>3
    <3>2. w + 1 < l => c[w + 1].next < c[l].next
      BY <2>1, <3>1, <1>1 DEF Ascending
    <3>3. c[w + 1].next \in Nat /\ c[l].next = pos
      BY <2>1, <3>1, <1>1, <1>4
    <3>4. c[w + 1].next > pos + ReadSize
      BY <2>1, <1>7
    <3> QED BY <3>1, <3>2, <3>3, <3>4, <1>4
  <2> QED BY <2>2, <2>3
<1>9. /\ r \in Seq(DirEntry) /\ Len(r) = w - l /\ DOMAIN r = 1..w - l
      /\ \A i \in 1..w - l : r[i] = c[l + i]
  <2>1. r = SubSeq(c, l + 1, w)
    BY <1>6, <1>7 DEF r
  <2>2. l + 1 \in Int /\ w \in Int /\ \A i \in l + 1..w : c[i] \in DirEntry
    BY <1>1, <1>2, <1>7
  <2>6. /\ SubSeq(c, l + 1, w) \in Seq(DirEntry)
        /\ Len(SubSeq(c, l + 1, w)) = IF l + 1 <= w THEN w - (l + 1) + 1 ELSE 0
        /\ \A i \in 1..w - (l + 1) + 1 : SubSeq(c, l + 1, w)[i] = c[(l + 1) + i - 1]
    BY <2>2, SubSeqProperties
  <2>3. /\ r \in Seq(DirEntry) /\ Len(r) = IF l + 1 <= w THEN w - (l + 1) + 1 ELSE 0
        /\ \A i \in 1..w - (l + 1) + 1 : r[i] = c[(l + 1) + i - 1]
    BY <2>1, <2>6
  <2>4. Len(r) = w - l /\ w - (l + 1) + 1 = w - l /\ \A i \in 1..w - l : (l + 1) + i - 1 = l + i
    BY <2>3, <1>2, <1>7, <1>8
  <2>5. \A i \in 1..w - l : r[i] = c[l + i]
    BY <2>3, <2>4
  <2> QED BY <2>3, <2>4, <2>5, LenProperties
<1>10. \A i \in 1..w - l : l + i \in 1..m /\ l < l + i
  BY <1>2, <1>7, <1>1
<1>11. Ascending(r)
  <2> SUFFICES ASSUME NEW i \in 1..w - l, NEW j \in 1..w - l, i < j
               PROVE  Offset(r[i].name) < Offset(r[j].name) /\ r[i].next < r[j].next
    BY <1>9 DEF Ascending
  <2>1. l + i \in DOMAIN c /\ l + j \in DOMAIN c /\ l + i < l + j
    BY <1>1, <1>10, <1>2
  <2> QED BY <2>1, <1>9 DEF Ascending
<1>12. ASSUME NEW i \in DOMAIN r
       PROVE  /\ r[i].name \in ever /\ r[i].next > pos
              /\ \A j \in DOMAIN seen : Offset(seen[j].name) < Offset(r[i].name)
  <2>1. PICK q \in 1..m : r[i] = c[q] /\ l < q
    BY <1>9, <1>10
  <2>2. r[i].name \in ever
    BY <2>1, <1>1
  <2>3. r[i].next > pos
    <3>1. CASE l = 0
      <4>1. 1 \in 1..m /\ (1 = q \/ 1 < q) /\ l # m
        BY <2>1, <3>1, <1>1
      <4>2. c[1].next > pos /\ c[1].next \in Nat
        BY <4>1, <3>1, <1>5, <1>1
      <4>3. 1 < q => c[1].next < c[q].next
        BY <4>1, <2>1, <1>1 DEF Ascending
      <4>4. c[q].next \in Nat
        BY <1>1
      <4> QED BY <4>1, <4>2, <4>3, <4>4, <2>1, <1>4
    <3>2. CASE l # 0
      <4>1. l \in 1..m /\ c[l].next = pos
        BY <3>2, <1>1, <1>2, <1>3, <1>4
      <4>2. c[l].next < c[q].next
        BY <4>1, <2>1, <1>1 DEF Ascending
      <4>3. c[q].next \in Nat
        BY <1>1
      <4> QED BY <4>1, <4>2, <4>3, <2>1, <1>4
    <3> QED BY <3>1, <3>2
  <2>4. ASSUME NEW j \in DOMAIN seen PROVE Offset(seen[j].name) < Offset(r[i].name)
    <3>1. j \in 1..m /\ seen[j] = c[j] /\ j < q
      BY <2>1, <1>1, <1>2, <1>3
    <3> QED BY <3>1, <2>1, <1>1 DEF Ascending
  <2> QED BY <2>2, <2>3, <2>4
<1>13. Fresh(r)
  BY <1>9, <1>11, <1>12 DEF Fresh
<1>14. r = <<>> => Len(seen) = Len(c)
  <2> SUFFICES ASSUME r = <<>> PROVE l = m
    BY <1>1, <1>2
  <2>1. w - l = 0
    BY <1>9, EmptySeq
  <2> QED BY <2>1, <1>2, <1>7, <1>8
<1>15. Len(seen) + Len(r) <= Len(c) /\ \A i \in DOMAIN r : r[i] = c[Len(seen) + i]
  <2>1. l + (w - l) <= m
    BY <1>2, <1>7
  <2>2. Len(seen) + Len(r) <= Len(c)
    BY <2>1, <1>1, <1>2, <1>9
  <2>3. \A i \in DOMAIN r : r[i] = c[Len(seen) + i]
    BY <1>2, <1>9
  <2> QED BY <2>2, <2>3
<1>16. NextPart(r, c)
  BY <1>14, <1>15 DEF NextPart
<1> QED BY <1>13, <1>16 DEF r

\* The reader takes the first k entries of a reply.
Taken(r, k, v) ==
  /\ v \in Seq(DirEntry) /\ Len(v) = Len(seen) + k
  /\ \A i \in DOMAIN seen : i \in DOMAIN v /\ v[i] = seen[i]
  /\ \A i \in 1..k : Len(seen) + i \in DOMAIN v /\ v[Len(seen) + i] = r[i]
  /\ \A j \in DOMAIN v : j \in DOMAIN seen \/ \E i \in 1..k : j = Len(seen) + i

LEMMA TakenIs ==
  ASSUME seen \in Seq(DirEntry), NEW r \in Seq(DirEntry), NEW k \in 1..Len(r)
  PROVE  Taken(r, k, seen \o SubSeq(r, 1, k))
<1> DEFINE q == SubSeq(r, 1, k)  v == seen \o q
<1>1. PICK l \in Nat : l = Len(seen) /\ DOMAIN seen = 1..l
  BY EntriesOf
<1>2. k \in Nat /\ k > 0 /\ \A i \in 1..k : r[i] \in DirEntry
  BY EntriesOf
<1>3. q \in Seq(DirEntry) /\ Len(q) = k /\ \A i \in 1..k : q[i] = r[i]
  <2>1. /\ q \in Seq(DirEntry) /\ Len(q) = IF 1 <= k THEN k - 1 + 1 ELSE 0
        /\ \A i \in 1..k - 1 + 1 : q[i] = r[1 + i - 1]
    BY <1>2, SubSeqProperties
  <2> QED BY <2>1, <1>2
<1> HIDE DEF q
<1>4. /\ v \in Seq(DirEntry) /\ Len(v) = l + k
      /\ \A i \in 1..l + k : v[i] = IF i <= l THEN seen[i] ELSE q[i - l]
  BY <1>1, <1>3, ConcatProperties
<1> HIDE DEF v
<1>5. DOMAIN v = 1..l + k
  BY <1>4, LenProperties
<1>6. \A i \in 1..l : i \in 1..l + k /\ v[i] = seen[i]
  BY <1>1, <1>2, <1>4
<1>7. ASSUME NEW i \in 1..k PROVE l + i \in 1..l + k /\ v[l + i] = r[i]
  <2>1. l + i \in 1..l + k /\ ~(l + i <= l) /\ (l + i) - l = i
    BY <1>1, <1>2
  <2>2. v[l + i] = q[(l + i) - l]
    BY <2>1, <1>4
  <2> QED BY <2>1, <2>2, <1>3
<1>8. ASSUME NEW j \in 1..l + k PROVE j \in 1..l \/ \E i \in 1..k : j = l + i
  <2>1. CASE j <= l
    BY <2>1, <1>1
  <2>2. CASE ~(j <= l)
    <3>1. j - l \in 1..k /\ j = l + (j - l)
      BY <2>2, <1>1, <1>2
    <3> QED BY <3>1
  <2> QED BY <2>1, <2>2
<1>9. Taken(r, k, v)
  BY <1>1, <1>4, <1>5, <1>6, <1>7, <1>8 DEF Taken
<1> QED BY <1>9 DEF v, q

LEMMA TakenSeen ==
  ASSUME DirInv, NEW r, Fresh(r), NEW k \in 1..Len(r), NEW v, Taken(r, k, v)
  PROVE  /\ Ascending(v) /\ EndOf(v) = r[k].next /\ v # <<>>
         /\ \A i \in DOMAIN v : v[i].name \in ever /\ v[i].next > 0
         /\ r[k].next \in Nat /\ r[k].next > pos
<1>1. PICK l \in Nat : l = Len(seen) /\ DOMAIN seen = 1..l
  BY EntriesOf DEF DirInv, DirTypes
<1>2. k \in Nat /\ k > 0 /\ DOMAIN r = 1..Len(r) /\ 1..k \subseteq DOMAIN r
      /\ \A i \in DOMAIN r : r[i].next \in Nat /\ r[i].name \in Names
  <2>1. r \in Seq(DirEntry)
    BY DEF Fresh
  <2>2. Len(r) \in Nat /\ DOMAIN r = 1..Len(r) /\ \A i \in DOMAIN r : r[i].next \in Nat /\ r[i].name \in Names
    BY <2>1, EntriesOf
  <2> QED BY <2>2
<1>3. pos \in Nat /\ \A i \in DOMAIN seen : seen[i].next <= pos /\ seen[i].next \in Nat
  BY BeforeEnd, EntriesOf DEF DirInv, DirTypes, SeenInv
<1>4. Ascending(v)
  <2> SUFFICES ASSUME NEW i \in DOMAIN v, NEW j \in DOMAIN v, i < j
               PROVE  Offset(v[i].name) < Offset(v[j].name) /\ v[i].next < v[j].next
    BY DEF Ascending
  <2>1. CASE j \in DOMAIN seen
    <3>1. i \in DOMAIN seen
      <4>1. v \in Seq(DirEntry)
        BY DEF Taken
      <4>2. i \in Nat /\ i >= 1
        BY <4>1, EntriesOf
      <4> QED BY <4>2, <2>1, <1>1
    <3>2. v[i] = seen[i] /\ v[j] = seen[j]
      BY <2>1, <3>1 DEF Taken
    <3> QED BY <2>1, <3>1, <3>2 DEF DirInv, SeenInv, Ascending
  <2>2. CASE j \notin DOMAIN seen
    <3>1. PICK b \in 1..k : j = l + b /\ v[j] = r[b] /\ b \in DOMAIN r
      BY <2>2, <1>1, <1>2 DEF Taken
    <3>2. CASE i \in DOMAIN seen
      <4>1. v[i] = seen[i]
        BY <3>2 DEF Taken
      <4>2. Offset(seen[i].name) < Offset(r[b].name) /\ r[b].next > pos
        BY <3>1, <3>2 DEF Fresh
      <4>3. seen[i].next <= pos /\ seen[i].next \in Nat /\ r[b].next \in Nat
        BY <3>1, <3>2, <1>2, <1>3
      <4> QED BY <4>1, <4>2, <4>3, <3>1, <1>3
    <3>3. CASE i \notin DOMAIN seen
      <4>1. PICK a \in 1..k : i = l + a /\ v[i] = r[a] /\ a \in DOMAIN r
        BY <3>3, <1>1, <1>2 DEF Taken
      <4>2. a < b
        BY <4>1, <3>1, <1>1, <1>2
      <4> QED BY <4>1, <4>2, <3>1 DEF Fresh, Ascending
    <3> QED BY <3>2, <3>3
  <2> QED BY <2>1, <2>2
<1>5. EndOf(v) = r[k].next /\ v # <<>>
  <2>1. Len(v) = l + k /\ l + k # 0 /\ k \in 1..k /\ v \in Seq(DirEntry)
    BY <1>1, <1>2 DEF Taken
  <2>2. v[l + k] = r[k]
    BY <2>1, <1>1 DEF Taken
  <2>3. v # <<>>
    BY <2>1, EmptySeq
  <2> QED BY <2>1, <2>2, <2>3 DEF EndOf
<1>6. ASSUME NEW i \in DOMAIN v PROVE v[i].name \in ever /\ v[i].next > 0
  <2>1. CASE i \in DOMAIN seen
    BY <2>1 DEF DirInv, SeenInv, Taken
  <2>2. CASE i \notin DOMAIN seen
    <3>1. PICK b \in DOMAIN r : v[i] = r[b]
      BY <2>2, <1>2 DEF Taken
    <3> QED BY <3>1, <1>2, <1>3 DEF Fresh
  <2> QED BY <2>1, <2>2
<1>7. r[k].next \in Nat /\ r[k].next > pos
  <2>1. k \in DOMAIN r
    BY <1>2
  <2> QED BY <2>1, <1>2 DEF Fresh
<1> QED BY <1>4, <1>5, <1>6, <1>7

\* The reader has a reply, or the end.
LEMMA Answered ==
  ASSUME DirInv, dh # ClosedDir, NEW r, Fresh(r), Receives(r),
         dh' \in HandleType, dh'.len <= dh'.size, dh' # ClosedDir,
         style = "whole" => dh'.filled /\ NextPart(r, dh'.contents),
         style = "offsets" => NextOnes(r, dh'.filled),
         UNCHANGED <<style, present, stable, ever>>
  PROVE  DirInv'
<1>1. /\ style \in {"whole", "offsets"} /\ present \subseteq Names /\ stable \subseteq present
      /\ seen \in Seq(DirEntry) /\ Ascending(seen) /\ pos = EndOf(seen) /\ pos \in Nat
      /\ present \subseteq ever
  BY EntriesOf DEF DirInv, DirTypes, SeenInv, HandleInv
<1>2. HandleInv'
  BY <1>1 DEF HandleInv
<1>3. PICK c : c = dh'.contents
  OBVIOUS
<1>4. r \in Seq(DirEntry) /\ Len(r) \in Nat /\ DOMAIN r = 1..Len(r) /\ (r = <<>> <=> Len(r) = 0)
  BY EntriesOf DEF Fresh
<1>5. CASE r = <<>>
  <2>1. ended' = TRUE /\ pos' = pos /\ seen' = seen
    BY <1>5 DEF Receives
  <2>2. DirTypes'
    BY <2>1, <1>1 DEF DirTypes
  <2>3. SeenInv'
    BY <2>1 DEF SeenInv, DirInv, Ascending, EndOf
  <2>4. ASSUME style = "whole" PROVE WholeInv'
    BY <2>4, <2>1, <1>5 DEF WholeInv, NextPart, Ascending, Packed, StartOf, Begins, Has
  <2>5. ASSUME style = "offsets" PROVE OffsetsInv'
    <3>1. \A n \in stable : ~(Offset(n) > pos)
      BY <2>5, <1>5 DEF NextOnes
    <3>2. \A n \in stable : Offset(n) <= pos
      BY <3>1, <1>1, EntryPlaces
    <3> QED BY <2>1, <2>5, <3>2 DEF OffsetsInv, DirInv, Has
  <2> QED BY <2>2, <2>3, <2>4, <2>5, <1>2 DEF DirInv
<1>6. CASE r # <<>>
  <2>1. PICK k \in 1..Len(r) : pos' = r[k].next /\ seen' = seen \o SubSeq(r, 1, k) /\ ended' = FALSE
    BY <1>6 DEF Receives
  <2>2. PICK v : v = seen'
    OBVIOUS
  <2>3. Taken(r, k, v)
    BY <2>1, <2>2, <1>1, <1>4, TakenIs
  <2>4. /\ Ascending(v) /\ EndOf(v) = r[k].next /\ v # <<>>
        /\ \A i \in DOMAIN v : v[i].name \in ever /\ v[i].next > 0
        /\ r[k].next \in Nat /\ r[k].next > pos
    BY <2>3, TakenSeen
  <2>5. PICK l \in Nat : l = Len(seen) /\ DOMAIN seen = 1..l
    BY <1>1, EntriesOf
  <2>6. k \in Nat /\ k <= Len(r) /\ k \in DOMAIN r /\ \A i \in 1..k : i \in DOMAIN r
    BY <1>4
  <2>7. DirTypes'
    BY <2>1, <2>2, <2>3, <1>1 DEF DirTypes, Taken
  <2>8. SeenInv'
    BY <2>1, <2>2, <2>4 DEF SeenInv, Ascending, EndOf
  <2>9. ASSUME style = "whole" PROVE WholeInv'
    <3>1. /\ Ascending(c) /\ Packed(c) /\ Begins(seen, c) /\ dh'.filled
          /\ \A n \in stable : Has(c, n)
          /\ \A i \in DOMAIN c : c[i].name \in ever
          /\ l + Len(r) <= Len(c) /\ \A i \in DOMAIN r : r[i] = c[l + i]
      BY <2>9, <1>3, <2>5 DEF NextPart
    <3>2. Len(v) <= Len(c)
      <4>1. dh'.contents \in Seq(DirEntry)
        BY DEF HandleType
      <4>2. Len(c) \in Nat
        BY <4>1, <1>3, EntriesOf
      <4>3. Len(v) = l + k
        BY <2>3, <2>5 DEF Taken
      <4> QED BY <4>2, <4>3, <3>1, <2>5, <2>6, <1>4
    <3>3. \A i \in DOMAIN v : v[i] = c[i]
      <4> TAKE i \in DOMAIN v
      <4>1. CASE i \in DOMAIN seen
        BY <4>1, <3>1, <2>3 DEF Begins, Taken
      <4>2. CASE i \notin DOMAIN seen
        <5>1. PICK b \in 1..k : i = l + b /\ v[i] = r[b] /\ b \in DOMAIN r
          BY <4>2, <2>3, <2>5, <2>6 DEF Taken
        <5> QED BY <5>1, <3>1
      <4> QED BY <4>1, <4>2
    <3>4. Begins(v, c)
      BY <3>2, <3>3 DEF Begins
    <3> QED BY <3>1, <3>4, <1>3, <2>1, <2>2 DEF WholeInv, Ascending, Packed, StartOf, Begins, Has
  <2>10. ASSUME style = "offsets" PROVE OffsetsInv'
    <3>1. /\ \A i \in DOMAIN seen : seen[i].next = Offset(seen[i].name)
          /\ \A n \in stable : Offset(n) <= pos => Has(seen, n)
      BY <2>10 DEF DirInv, OffsetsInv
    <3>2. /\ \A i \in DOMAIN r : r[i].next = Offset(r[i].name)
          /\ \A n \in stable : Offset(n) > pos => Has(r, n) \/ \A i \in DOMAIN r : r[i].next < Offset(n)
          /\ ~dh'.filled
      BY <2>10, <1>6 DEF NextOnes
    <3>3. \A i \in DOMAIN v : v[i].next = Offset(v[i].name)
      <4> TAKE i \in DOMAIN v
      <4>1. CASE i \in DOMAIN seen
        BY <4>1, <3>1, <2>3 DEF Taken
      <4>2. CASE i \notin DOMAIN seen
        <5>1. PICK b \in DOMAIN r : v[i] = r[b]
          BY <4>2, <2>3, <2>5, <2>6 DEF Taken
        <5> QED BY <5>1, <3>2
      <4> QED BY <4>1, <4>2
    <3>4. ASSUME NEW n \in stable, Offset(n) <= r[k].next PROVE Has(v, n)
      <4>1. Offset(n) \in Nat
        BY <1>1, EntryPlaces
      <4>2. CASE Offset(n) <= pos
        <5>1. Has(seen, n)
          BY <4>2, <3>1
        <5> QED BY <5>1, <2>3 DEF Has, Taken
      <4>3. CASE Offset(n) > pos
        <5>1. ~ \A i \in DOMAIN r : r[i].next < Offset(n)
          BY <2>4, <2>6, <3>4, <4>1
        <5>2. PICK b \in DOMAIN r : r[b].name = n
          BY <5>1, <4>3, <3>2 DEF Has
        <5>3. r[b].next = Offset(n)
          BY <5>2, <3>2
        <5>4. ~(k < b)
          <6>1. k < b => r[k].next < r[b].next
            BY <2>6 DEF Fresh, Ascending
          <6> QED BY <6>1, <5>3, <3>4, <4>1, <2>4
        <5>5. b \in 1..k
          BY <5>4, <1>4, <2>6
        <5>6. l + b \in DOMAIN v /\ v[l + b] = r[b]
          BY <5>5, <2>3, <2>5 DEF Taken
        <5> QED BY <5>2, <5>6 DEF Has
      <4> QED BY <4>1, <4>2, <4>3, <1>1
    <3> QED BY <3>2, <3>3, <3>4, <2>1, <2>2 DEF OffsetsInv, Has
  <2> QED BY <2>7, <2>8, <2>9, <2>10, <1>2 DEF DirInv
<1> QED BY <1>5, <1>6

LEMMA AtStart ==
  ASSUME DirInv
  PROVE  seen = <<>> <=> pos = 0
<1>1. seen \in Seq(DirEntry) /\ pos = EndOf(seen)
  BY DEF DirInv, DirTypes, SeenInv
<1>2. seen # <<>> => Len(seen) \in DOMAIN seen
  BY <1>1, EntriesOf
<1> QED BY <1>1, <1>2 DEF EndOf, DirInv, SeenInv

\* The position in a directory that is kept as a whole.
LEMMA ReplyOfKept ==
  ASSUME DirInv, StaysFilled, ~ended
  PROVE  /\ style = "whole"
         /\ Fresh(ReplyBuf(dh)) /\ NextPart(ReplyBuf(dh), dh.contents) /\ dh.filled
<1>1. dh.filled /\ seen # <<>>
  BY AtStart DEF StaysFilled
<1>2. style = "whole"
  BY <1>1 DEF DirInv, DirTypes, OffsetsInv
<1>3. dh \in HandleType
  BY <1>1 DEF DirInv, HandleInv
<1>4. PICK c \in Seq(DirEntry) : c = dh.contents
  BY <1>3 DEF HandleType
<1>5. /\ Ascending(c) /\ Packed(c) /\ Begins(seen, c)
      /\ \A n \in stable : Has(c, n)
      /\ \A i \in DOMAIN c : c[i].name \in ever
  BY <1>1, <1>2, <1>4 DEF DirInv, WholeInv
<1>6. /\ Fresh(SubSeq(c, Whole(c, pos) + 1, Whole(c, pos + ReadSize)))
      /\ NextPart(SubSeq(c, Whole(c, pos) + 1, Whole(c, pos + ReadSize)), c)
  BY <1>5, WholeReply
<1>7. ReplyBuf(dh) = SubSeq(c, Whole(c, pos) + 1, Whole(c, pos + ReadSize))
  BY <1>1, <1>4 DEF ReplyBuf
<1> QED BY <1>1, <1>2, <1>4, <1>6, <1>7

\* The first reply of a directory that has just been filled, as a whole.
LEMMA ReplyOfWhole ==
  ASSUME DirInv, dh # ClosedDir, style = "whole", pos = 0, NEW s, FillInv(s, Len(Entries)), ~s.error
  PROVE  Fresh(ReplyBuf(s)) /\ NextPart(ReplyBuf(s), s.contents) /\ s.filled
<1>1. AllKept(s) /\ InPlace(s, Len(Entries)) /\ s \in FillType
  BY DEF FillInv
<1>2. PICK c \in Seq(DirEntry) : c = s.contents
  BY <1>1 DEF FillType
<1>3. Ascending(c) /\ Packed(c) /\ s.filled /\ ~s.stop
  BY <1>1, <1>2 DEF AllKept, InPlace
<1>4. Begins(seen, c)
  <2>1. seen = <<>> /\ Len(seen) = 0 /\ Len(c) \in Nat
    BY AtStart, EntriesOf, EmptySeq
  <2> QED BY <2>1 DEF Begins
<1>5. stable \subseteq present /\ present \subseteq ever /\ present \subseteq Names
  BY DEF DirInv, DirTypes, HandleInv
<1>6. ASSUME NEW n \in stable PROVE Has(c, n)
  <2>1. Offset(n) \in 1..Len(Entries) /\ Entries[Offset(n)] = n
    BY <1>5, EntryPlaces
  <2>2. Listed(Offset(n))
    BY <2>1, <1>5 DEF Listed
  <2> QED BY <2>1, <2>2, <1>1, <1>2, <1>3 DEF InPlace
<1>7. ASSUME NEW i \in DOMAIN c PROVE c[i].name \in ever
  <2>1. Listed(Offset(c[i].name)) /\ c[i].name \in Names
    BY <1>1, <1>2, EntriesOf DEF InPlace
  <2> QED BY <2>1, <1>5, EntryPlaces DEF Listed
<1>8. /\ Fresh(SubSeq(c, Whole(c, pos) + 1, Whole(c, pos + ReadSize)))
      /\ NextPart(SubSeq(c, Whole(c, pos) + 1, Whole(c, pos + ReadSize)), c)
  BY <1>3, <1>4, <1>6, <1>7, WholeReply
<1>9. ReplyBuf(s) = SubSeq(c, Whole(c, pos) + 1, Whole(c, pos + ReadSize))
  BY <1>2, <1>3 DEF ReplyBuf
<1> QED BY <1>2, <1>3, <1>8, <1>9

\* A reply with offsets.
LEMMA ReplyOfOffsets ==
  ASSUME DirInv, dh # ClosedDir, style = "offsets", NEW s, FillInv(s, Len(Entries)), ~s.error
  PROVE  Fresh(ReplyBuf(s)) /\ NextOnes(ReplyBuf(s), s.filled)
<1>1. SomeKept(s, Len(Entries)) /\ InPlace(s, Len(Entries)) /\ s \in FillType
  BY DEF FillInv
<1>2. PICK c \in Seq(DirEntry) : c = s.contents
  BY <1>1 DEF FillType
<1>3. /\ Ascending(c) /\ \A i \in DOMAIN c : c[i].next = Offset(c[i].name)
      /\ (s.filled <=> c = <<>>) /\ (c = <<>> => ~s.stop)
  BY <1>1, <1>2 DEF SomeKept, InPlace
<1>4. ReplyBuf(s) = c
  <2>1. CASE ~s.filled
    BY <2>1, <1>2 DEF ReplyBuf
  <2>2. CASE s.filled
    <3>1. c = <<>> /\ Len(c) = 0
      BY <2>2, <1>3, EmptySeq
    <3>2. pos \in Nat /\ pos + ReadSize \in Nat
      BY EntriesOf, FuseDirAssumption DEF DirInv, DirTypes, SeenInv
    <3>3. Whole(c, pos) \in 0..0 /\ Whole(c, pos + ReadSize) \in 0..0
      BY <3>1, <3>2, WholeIs
    <3>4. ReplyBuf(s) = SubSeq(c, 0 + 1, 0)
      BY <2>2, <3>3, <1>2 DEF ReplyBuf
    <3>5. SubSeq(c, 1, 0) = <<>>
      BY SubSeqEmpty
    <3> QED BY <3>1, <3>4, <3>5
  <2> QED BY <2>1, <2>2
<1>5. stable \subseteq present /\ present \subseteq ever /\ present \subseteq Names
  BY DEF DirInv, DirTypes, HandleInv
<1>6. Fresh(c)
  <2> SUFFICES ASSUME NEW i \in DOMAIN c
               PROVE  /\ c[i].name \in ever /\ c[i].next > pos
                      /\ \A j \in DOMAIN seen : Offset(seen[j].name) < Offset(c[i].name)
    BY <1>3 DEF Fresh
  <2>1. c[i].name \in Names /\ Listed(Offset(c[i].name))
    BY <1>1, <1>2, EntriesOf DEF InPlace
  <2>2. Offset(c[i].name) \in Nat /\ Entries[Offset(c[i].name)] = c[i].name
    BY <2>1, EntryPlaces
  <2>3. c[i].name \in ever /\ Offset(c[i].name) > pos
    BY <2>1, <2>2, <1>5 DEF Listed
  <2>4. ASSUME NEW j \in DOMAIN seen PROVE Offset(seen[j].name) < Offset(c[i].name)
    <3>1. seen[j].next <= pos /\ seen[j].next \in Nat /\ pos \in Nat
      BY BeforeEnd, EntriesOf DEF DirInv, DirTypes, SeenInv
    <3>2. Offset(seen[j].name) = seen[j].next
      BY DEF DirInv, OffsetsInv
    <3> QED BY <3>1, <3>2, <2>2, <2>3
  <2> QED BY <2>3, <2>4, <1>3
<1>7. ASSUME NEW n \in stable, Offset(n) > pos
      PROVE  c # <<>> /\ (Has(c, n) \/ \A i \in DOMAIN c : c[i].next < Offset(n))
  <2>1. Offset(n) \in 1..Len(Entries) /\ Entries[Offset(n)] = n
    BY <1>5, EntryPlaces
  <2>2. Listed(Offset(n))
    BY <2>1, <1>5, <1>7 DEF Listed
  <2>3. Has(c, n) \/ \A i \in DOMAIN c : c[i].next < Offset(n)
    BY <2>1, <2>2, <1>1, <1>2 DEF SomeKept
  <2>4. CASE c = <<>>
    <3>1. Has(c, n)
      BY <2>1, <2>2, <2>4, <1>1, <1>2, <1>3 DEF InPlace
    <3> QED BY <2>4, <3>1 DEF Has
  <2> QED BY <2>3, <2>4
<1>8. NextOnes(c, s.filled)
  BY <1>3, <1>7 DEF NextOnes
<1> QED BY <1>4, <1>6, <1>8

LEMMA ReaddirInv ==
  ASSUME DirInv, Readdir
  PROVE  DirInv'
<1>1. dh # ClosedDir /\ ended = FALSE /\ UNCHANGED <<style, present, stable, ever>>
  BY DEF Readdir, DirInv, DirTypes
<1>2. /\ dh \in HandleType /\ dh.len <= dh.size /\ dh.size \in Nat /\ dh.len \in Nat /\ dh.contents \in Seq(DirEntry)
      /\ style \in {"whole", "offsets"}
  BY <1>1 DEF DirInv, DirTypes, HandleInv, HandleType
<1>3. CASE StaysFilled /\ UNCHANGED dh /\ Receives(ReplyBuf(dh))
  <2>1. style = "whole" /\ Fresh(ReplyBuf(dh)) /\ NextPart(ReplyBuf(dh), dh.contents) /\ dh.filled
    BY <1>1, <1>3, ReplyOfKept
  <2>2. PICK r : r = ReplyBuf(dh)
    OBVIOUS
  <2>3. /\ Fresh(r) /\ Receives(r) /\ dh' \in HandleType /\ dh'.len <= dh'.size /\ dh' # ClosedDir
        /\ (style = "whole" => dh'.filled /\ NextPart(r, dh'.contents))
        /\ (style = "offsets" => NextOnes(r, dh'.filled))
    BY <2>1, <2>2, <1>1, <1>2, <1>3
  <2> QED BY <2>3, <1>1, Answered
<1>4. ASSUME ~StaysFilled, NEW s \in Fills, dh' = Handle(s),
             IF s.error THEN UNCHANGED <<pos, ended, seen>> ELSE Receives(ReplyBuf(s))
      PROVE  DirInv'
  <2>1. ASSUME NEW m \in Limits, NEW k \in 0..Len(Entries) PROVE FillInv(Filled(m)[k], k)
    BY <1>2, FillsGood, FuseDirAssumption
  <2>2. /\ s.contents \in Seq(DirEntry) /\ s.len \in Nat /\ s.size \in Nat /\ s.filled \in BOOLEAN
        /\ s.error \in BOOLEAN /\ s.len <= s.size
        /\ ~s.error => FillInv(s, Len(Entries))
    <3>1. CASE s \in {Filled(m)[Len(Entries)] : m \in Limits}
      <4>1. FillInv(s, Len(Entries))
        BY <3>1, <2>1, EntryPlaces
      <4> QED BY <4>1 DEF FillInv, FillType, InPlace
    <3>2. CASE s \in {Fails(Filled(m)[k]) : m \in Limits, k \in 0..Len(Entries)}
      <4>4. PICK m \in Limits, k \in 0..Len(Entries) : s = Fails(Filled(m)[k])
        BY <3>2
      <4>1. PICK t : s = Fails(t) /\ FillInv(t, k)
        BY <4>4, <2>1
      <4>2. t \in FillType /\ t.len <= t.size
        BY <4>1 DEF FillInv, InPlace
      <4>3. /\ s.contents = t.contents /\ s.len = t.len /\ s.size = t.size /\ s.filled = t.filled
            /\ s.error = TRUE
        BY <4>1, <4>2 DEF Fails, FillType
      <4> QED BY <4>2, <4>3 DEF FillType
    <3>3. CASE s = NoPath
      BY <3>3, <1>2 DEF NoPath
    <3> QED BY <3>1, <3>2, <3>3 DEF Fills
  <2>3. /\ dh'.contents = s.contents /\ dh'.len = s.len /\ dh'.size = s.size
        /\ dh'.filled = (s.filled /\ ~s.error)
    BY <1>4 DEF Handle
  <2>4. dh' \in HandleType /\ dh'.len <= dh'.size /\ dh' # ClosedDir
    <3>1. (s.filled /\ ~s.error) \in BOOLEAN
      OBVIOUS
    <3>2. dh' = [contents |-> s.contents, len |-> s.len, size |-> s.size, filled |-> s.filled /\ ~s.error]
      BY <1>4 DEF Handle
    <3>3. dh' \in HandleType
      BY <3>1, <3>2, <2>2 DEF HandleType
    <3>4. dh' # ClosedDir
      BY <2>2, <2>3 DEF ClosedDir
    <3> QED BY <3>3, <3>4, <2>2, <2>3
  <2>5. CASE s.error
    <3>1. dh'.filled = FALSE /\ UNCHANGED <<pos, ended, seen, style, present, stable, ever>>
      BY <2>3, <2>5, <1>1, <1>4
    <3>2. DirTypes' /\ SeenInv' /\ HandleInv'
      BY <3>1, <2>4, <1>1 DEF DirInv, DirTypes, SeenInv, HandleInv, Ascending, EndOf
    <3>3. ASSUME style = "whole" PROVE WholeInv'
      <4>1. seen = <<>>
        BY <3>3, <1>4, AtStart DEF StaysFilled, DirInv, WholeInv
      <4> QED BY <4>1, <3>1, <1>1 DEF WholeInv
    <3>4. style = "offsets" => OffsetsInv'
      BY <3>1, <1>1 DEF DirInv, OffsetsInv, Has
    <3> QED BY <3>1, <3>2, <3>3, <3>4 DEF DirInv
  <2>6. CASE ~s.error
    <3>1. PICK r : r = ReplyBuf(s)
      OBVIOUS
    <3>2. FillInv(s, Len(Entries)) /\ Receives(r) /\ dh'.filled = s.filled
      BY <2>2, <2>3, <2>6, <3>1, <1>4
    <3>3. style = "whole" => Fresh(r) /\ NextPart(r, dh'.contents) /\ dh'.filled
      <4> SUFFICES ASSUME style = "whole" PROVE Fresh(r) /\ NextPart(r, dh'.contents) /\ dh'.filled
        OBVIOUS
      <4>1. pos = 0
        BY <1>4, AtStart DEF StaysFilled, DirInv, WholeInv
      <4>2. Fresh(ReplyBuf(s)) /\ NextPart(ReplyBuf(s), s.contents) /\ s.filled
        BY <4>1, <3>2, <2>6, <1>1, ReplyOfWhole
      <4> QED BY <4>2, <3>1, <3>2, <2>3
    <3>4. style = "offsets" => Fresh(r) /\ NextOnes(r, dh'.filled)
      BY <3>1, <3>2, <2>6, <1>1, ReplyOfOffsets
    <3>5. Fresh(r)
      BY <3>3, <3>4, <1>2
    <3> QED BY <3>2, <3>3, <3>4, <3>5, <2>4, <1>1, Answered
  <2> QED BY <2>5, <2>6, <2>2
<1> QED BY <1>3, <1>4 DEF Readdir

-----------------------------------------------------------------------------
(***************************************************************************)
(* The other steps.                                                        *)
(***************************************************************************)
LEMMA DirInitInv == DirInit => DirInv
<1> SUFFICES ASSUME DirInit PROVE DirInv
  OBVIOUS
<1>1. /\ seen = <<>> /\ seen \in Seq(DirEntry) /\ DOMAIN seen = {} /\ EndOf(seen) = 0 /\ pos = 0 /\ ended = FALSE
      /\ stable = {} /\ present = Names /\ dh = ClosedDir /\ style \in {"whole", "offsets"}
  BY EmptySeq DEF DirInit, EndOf, Names
<1>2. DirTypes /\ SeenInv /\ HandleInv
  BY <1>1 DEF DirTypes, SeenInv, HandleInv, Ascending
<1>3. WholeInv /\ OffsetsInv
  BY <1>1 DEF WholeInv, OffsetsInv, ClosedDir
<1> QED BY <1>2, <1>3 DEF DirInv

\* A directory is opened, or read from its start again.
LEMMA FreshStart ==
  ASSUME DirInv, dh' \in HandleType, dh'.len <= dh'.size, dh' # ClosedDir,
         dh' = dh \/ dh'.filled = FALSE,
         pos' = 0, ended' = FALSE, seen' = <<>>, stable' = present, ever' = present,
         UNCHANGED <<style, present>>
  PROVE  DirInv'
<1>1. seen' \in Seq(DirEntry) /\ DOMAIN seen' = {} /\ EndOf(seen') = 0
  BY EmptySeq DEF EndOf
<1>2. DirTypes' /\ HandleInv'
  BY <1>1 DEF DirInv, DirTypes, HandleInv
<1>3. SeenInv'
  BY <1>1 DEF SeenInv, Ascending, EndOf
<1>4. style = "whole" => WholeInv'
  BY DEF DirInv, WholeInv, Ascending, Packed, StartOf
<1>5. style = "offsets" => OffsetsInv'
  <2>1. \A n \in stable' : ~(Offset(n) <= 0)
    BY EntryPlaces DEF DirInv, DirTypes
  <2> QED BY <2>1, <1>1 DEF OffsetsInv
<1> QED BY <1>2, <1>3, <1>4, <1>5 DEF DirInv

LEMMA SeekInv ==
  ASSUME DirInv, ~SeeksAtEnd, NEW i \in DOMAIN seen, Seek(i)
  PROVE  DirInv'
<1>1. /\ seen \in Seq(DirEntry) /\ Len(seen) \in Nat /\ DOMAIN seen = 1..Len(seen) /\ i \in Nat /\ i > 0 /\ i <= Len(seen)
      /\ \A j \in DOMAIN seen : seen[j] \in DirEntry /\ seen[j].next \in Nat
  BY EntriesOf DEF DirInv, DirTypes
<1>2. /\ dh # ClosedDir /\ ended = FALSE /\ ended' = FALSE /\ pos' = seen[i].next
      /\ seen' = SubSeq(seen, 1, i) /\ UNCHANGED <<style, present, dh, stable, ever>>
  BY DEF Seek, DirInv, DirTypes
<1>3. PICK v : v = seen'
  OBVIOUS
<1>4. /\ v \in Seq(DirEntry) /\ Len(v) = i /\ \A j \in 1..i : v[j] = seen[j]
  <2>1. /\ SubSeq(seen, 1, i) \in Seq(DirEntry)
        /\ Len(SubSeq(seen, 1, i)) = IF 1 <= i THEN i - 1 + 1 ELSE 0
        /\ \A j \in 1..i - 1 + 1 : SubSeq(seen, 1, i)[j] = seen[1 + j - 1]
    BY <1>1, SubSeqProperties
  <2>2. /\ v \in Seq(DirEntry) /\ Len(v) = IF 1 <= i THEN i - 1 + 1 ELSE 0
        /\ \A j \in 1..i - 1 + 1 : v[j] = seen[1 + j - 1]
    BY <2>1, <1>2, <1>3
  <2> QED BY <2>2, <1>1
<1>5. DOMAIN v = 1..i /\ v # <<>> /\ EndOf(v) = seen[i].next
  <2>1. DOMAIN v = 1..i /\ v # <<>>
    BY <1>1, <1>4, EntriesOf
  <2>2. i \in 1..i
    BY <1>1
  <2> QED BY <2>1, <2>2, <1>4 DEF EndOf
<1>6. \A j \in DOMAIN v : j \in DOMAIN seen /\ v[j] = seen[j]
  BY <1>1, <1>4, <1>5
<1>7. DirTypes' /\ HandleInv'
  BY <1>2, <1>3, <1>4, <1>5 DEF DirInv, DirTypes, HandleInv
<1>8. SeenInv'
  <2>1. Ascending(v) /\ \A j \in DOMAIN v : v[j].name \in ever /\ v[j].next > 0
    BY <1>6 DEF DirInv, SeenInv, Ascending
  <2> QED BY <2>1, <1>2, <1>3, <1>5 DEF SeenInv, Ascending, EndOf
<1>9. ASSUME style = "whole" PROVE WholeInv'
  <2>1. /\ dh.filled /\ Begins(seen, dh.contents)
        /\ \A n \in stable : Has(dh.contents, n)
        /\ \A j \in DOMAIN dh.contents : dh.contents[j].name \in ever
        /\ Ascending(dh.contents) /\ Packed(dh.contents)
    <3>1. seen # <<>>
      BY <1>1, EntriesOf
    <3> QED BY <3>1, <1>9 DEF DirInv, WholeInv
  <2>2. Begins(v, dh.contents)
    <3>1. dh.contents \in Seq(DirEntry)
      BY <1>2 DEF DirInv, HandleInv, HandleType
    <3>2. Len(dh.contents) \in Nat
      BY <3>1, EntriesOf
    <3> QED BY <3>2, <2>1, <1>1, <1>4, <1>6 DEF Begins
  <2> QED BY <2>1, <2>2, <1>2, <1>3 DEF WholeInv, Ascending, Packed, StartOf, Begins, Has
<1>10. ASSUME style = "offsets" PROVE OffsetsInv'
  <2>1. /\ \A j \in DOMAIN seen : seen[j].next = Offset(seen[j].name)
        /\ \A n \in stable : Offset(n) <= pos => Has(seen, n)
        /\ dh.filled /\ seen # <<>> => ended
    BY <1>10 DEF DirInv, OffsetsInv
  <2>2. ASSUME NEW n \in stable, Offset(n) <= seen[i].next PROVE Has(v, n)
    <3>1. seen[i].next <= pos /\ pos \in Nat /\ Offset(n) \in Nat
      BY <1>1, BeforeEnd, EntriesOf, EntryPlaces DEF DirInv, DirTypes, SeenInv
    <3>2. PICK j \in DOMAIN seen : seen[j].name = n /\ seen[j].next = Offset(n)
      <4>1. Offset(n) <= pos
        BY <3>1, <2>2, <1>1
      <4> QED BY <4>1, <2>1 DEF Has
    <3>3. ~(i < j)
      <4>1. i < j => seen[i].next < seen[j].next
        BY DEF DirInv, SeenInv, Ascending
      <4> QED BY <4>1, <3>1, <3>2, <2>2, <1>1
    <3>4. j \in 1..i
      BY <3>3, <1>1
    <3> QED BY <3>2, <3>4, <1>4, <1>5 DEF Has
  <2>3. dh.filled = FALSE
    <3>1. seen # <<>> /\ dh.filled \in BOOLEAN
      BY <1>1, <1>2, EntriesOf DEF DirInv, HandleInv, HandleType
    <3> QED BY <3>1, <2>1, <1>2
  <2>4. \A j \in DOMAIN v : v[j].next = Offset(v[j].name)
    BY <2>1, <1>6
  <2>5. \A n \in stable' : Offset(n) <= pos' => Has(seen', n)
    BY <2>2, <1>2, <1>3
  <2>6. dh'.filled = FALSE /\ ended' = FALSE
    BY <2>3, <1>2
  <2> QED BY <2>4, <2>5, <2>6, <1>3 DEF OffsetsInv, Has
<1> QED BY <1>2, <1>7, <1>8, <1>9, <1>10 DEF DirInv

\* Names come and go.
LEMMA ChangesInv ==
  ASSUME DirInv, NEW n \in Names, Enters(n) \/ Leaves(n)
  PROVE  DirInv'
<1>1. /\ UNCHANGED <<style, dh, pos, ended, seen>> /\ stable' \subseteq stable /\ ever \subseteq ever'
      /\ present' \subseteq Names /\ stable' \subseteq present' /\ (dh # ClosedDir => present' \subseteq ever')
  BY DEF Enters, Leaves, DirInv, DirTypes, HandleInv
<1>2. DirTypes' /\ HandleInv'
  BY <1>1 DEF DirInv, DirTypes, HandleInv
<1>3. SeenInv'
  BY <1>1 DEF DirInv, SeenInv, Ascending, EndOf
<1>4. style = "whole" => WholeInv'
  BY <1>1 DEF DirInv, WholeInv, Ascending, Packed, StartOf, Begins, Has
<1>5. style = "offsets" => OffsetsInv'
  BY <1>1 DEF DirInv, OffsetsInv, Has
<1> QED BY <1>1, <1>2, <1>3, <1>4, <1>5 DEF DirInv

LEMMA DirNextInv ==
  ASSUME DirInv, ~SeeksAtEnd, [DirNext]_dirvars
  PROVE  DirInv'
<1>1. CASE Opendir
  <2>1. /\ dh' = [contents |-> <<>>, len |-> 0, size |-> 0, filled |-> FALSE]
        /\ pos' = 0 /\ ended' = FALSE /\ seen' = <<>> /\ stable' = present /\ ever' = present
        /\ UNCHANGED <<style, present>>
    BY <1>1 DEF Opendir
  <2>2. dh' \in HandleType /\ dh'.len <= dh'.size /\ dh'.filled = FALSE /\ dh' # ClosedDir
    BY <2>1, EmptySeq DEF HandleType, ClosedDir
  <2> QED BY <2>1, <2>2, FreshStart
<1>2. CASE Readdir
  BY <1>2, ReaddirInv
<1>3. CASE Rewind
  <2>1. /\ dh # ClosedDir /\ dh' = dh
        /\ pos' = 0 /\ ended' = FALSE /\ seen' = <<>> /\ stable' = present /\ ever' = present
        /\ UNCHANGED <<style, present>>
    BY <1>3 DEF Rewind
  <2>2. dh' \in HandleType /\ dh'.len <= dh'.size /\ dh' # ClosedDir
    BY <2>1 DEF DirInv, HandleInv
  <2> QED BY <2>1, <2>2, FreshStart
<1>4. CASE Releasedir
  <2>1. /\ dh' = ClosedDir /\ pos' = 0 /\ ended' = FALSE /\ seen' = <<>> /\ stable' = {} /\ ever' = {}
        /\ UNCHANGED <<style, present>>
    BY <1>4 DEF Releasedir
  <2>2. seen' \in Seq(DirEntry) /\ DOMAIN seen' = {} /\ EndOf(seen') = 0
    BY <2>1, EmptySeq DEF EndOf
  <2>3. DirTypes' /\ SeenInv' /\ HandleInv'
    BY <2>1, <2>2 DEF DirInv, DirTypes, SeenInv, HandleInv, Ascending, EndOf
  <2>4. WholeInv' /\ OffsetsInv'
    BY <2>1, <2>2 DEF WholeInv, OffsetsInv, ClosedDir
  <2> QED BY <2>3, <2>4 DEF DirInv
<1>5. ASSUME NEW i \in DOMAIN seen, Seek(i) PROVE DirInv'
  BY <1>5, SeekInv
<1>6. ASSUME NEW n \in Names, Enters(n) \/ Leaves(n) PROVE DirInv'
  BY <1>6, ChangesInv
<1>7. CASE UNCHANGED dirvars
  <2>1. DirTypes' /\ SeenInv' /\ HandleInv'
    BY <1>7 DEF DirInv, DirTypes, SeenInv, HandleInv, Ascending, EndOf, dirvars
  <2>2. style = "whole" => WholeInv'
    BY <1>7 DEF DirInv, WholeInv, Ascending, Packed, StartOf, Begins, Has, dirvars
  <2>3. style = "offsets" => OffsetsInv'
    BY <1>7 DEF DirInv, OffsetsInv, Has, dirvars
  <2> QED BY <2>1, <2>2, <2>3, <1>7 DEF DirInv, dirvars
<1> QED BY <1>1, <1>2, <1>3, <1>4, <1>5, <1>6, <1>7 DEF DirNext, Names

LEMMA DirInvOnce == DirInv => EntriesOnce
<1> SUFFICES ASSUME DirInv PROVE EntriesOnce
  OBVIOUS
<1>1. seen \in Seq(DirEntry) /\ Len(seen) \in Nat /\ DOMAIN seen = 1..Len(seen)
      /\ \A i \in DOMAIN seen : seen[i].name \in Names
  BY EntriesOf DEF DirInv, DirTypes
<1>2. ASSUME NEW i \in DOMAIN seen, NEW j \in DOMAIN seen, seen[i].name = seen[j].name
      PROVE  i = j
  <2>1. Offset(seen[i].name) \in Nat /\ Offset(seen[i].name) = Offset(seen[j].name)
    BY <1>1, <1>2, EntryPlaces
  <2>2. ~(i < j) /\ ~(j < i)
    BY <2>1 DEF DirInv, SeenInv, Ascending
  <2> QED BY <2>2, <1>1
<1>3. ASSUME ended, NEW n \in stable PROVE \E i \in DOMAIN seen : seen[i].name = n
  <2>1. CASE style = "whole"
    <3>1. /\ Has(dh.contents, n) /\ Begins(seen, dh.contents) /\ Len(seen) = Len(dh.contents)
          /\ dh # ClosedDir
      BY <1>3, <2>1 DEF DirInv, WholeInv, HandleInv
    <3>2. dh.contents \in Seq(DirEntry)
      BY <3>1 DEF DirInv, HandleInv, HandleType
    <3>3. DOMAIN dh.contents = DOMAIN seen
      BY <3>1, <3>2, <1>1, EntriesOf
    <3> QED BY <3>1, <3>3 DEF Has, Begins
  <2>2. CASE style = "offsets"
    BY <1>3, <2>2 DEF DirInv, OffsetsInv, Has
  <2> QED BY <2>1, <2>2 DEF DirInv, DirTypes
<1>4. dh # ClosedDir => dh.len <= dh.size
  BY DEF DirInv, HandleInv
<1> QED BY <1>2, <1>3, <1>4 DEF EntriesOnce, DirInv, SeenInv

\* However a directory is filled, cut into replies, changed meanwhile or
\* fails to be read: a reader that does not seek back from the end gets each
\* entry once, and all that were there (fuse_lib_readdir).
THEOREM ReadOnce == ~SeeksAtEnd => (DirSpec => []EntriesOnce)
<1>1. DirInit => DirInv
  BY DirInitInv
<1>2. ASSUME ~SeeksAtEnd PROVE DirSpec => []EntriesOnce
  <2>1. DirInv /\ [DirNext]_dirvars => DirInv'
    BY <1>2, DirNextInv
  <2> QED BY <1>1, <2>1, DirInvOnce, PTL DEF DirSpec
<1> QED BY <1>2
-----------------------------------------------------------------------------
(***************************************************************************)
(* Remainders. A quotient and a remainder are determined by their sum.     *)
(***************************************************************************)
LEMMA NotLess ==
  ASSUME NEW s \in Nat, NEW q \in Int, NEW r \in 0..s - 1, NEW p \in Int, NEW m \in 0..s - 1,
         s * q + r = s * p + m
  PROVE  ~(q > p)
<1> SUFFICES ASSUME q > p PROVE FALSE
  OBVIOUS
<1>1. PICK d \in Nat : q = p + d /\ d >= 1
  <2>1. q - p \in Nat /\ q = p + (q - p) /\ q - p >= 1
    OBVIOUS
  <2> QED BY <2>1
<1>2. s * q = s * p + s * d
  BY <1>1
<1>3. s * d >= s
  BY <1>1
<1>4. s * p \in Int /\ s * d \in Int
  BY <1>1
<1>5. m = s * d + r
  BY <1>2, <1>4
<1> QED BY <1>3, <1>4, <1>5

LEMMA OneRemainder ==
  ASSUME NEW s \in Nat, NEW q \in Int, NEW r \in 0..s - 1, NEW p \in Int, NEW m \in 0..s - 1,
         s * q + r = s * p + m
  PROVE  r = m
<1>1. ~(q > p)
  BY NotLess
<1>2. ~(p > q)
  BY NotLess
<1>3. q = p
  BY <1>1, <1>2
<1> QED BY <1>3

LEMMA Division ==
  ASSUME NEW a \in Nat, NEW w \in Nat, w > 0
  PROVE  \E q \in Nat : \E x \in Nat : x = w * q /\ a = x + (a % w) /\ a % w \in 0..w - 1
<1>1. a % w \in 0..w - 1 /\ a \div w \in Nat /\ a = (w * (a \div w)) + (a % w)
  OBVIOUS
<1>2. PICK q \in Nat : q = a \div w
  BY <1>1
<1>3. PICK x \in Nat : x = w * q
  OBVIOUS
<1>4. a = x + (a % w)
  BY <1>1, <1>2, <1>3
<1> QED BY <1>1, <1>3, <1>4

LEMMA Below ==
  ASSUME NEW a \in Nat, NEW w \in Nat, w > 0, a < 2 * w
  PROVE  a % w = IF a < w THEN a ELSE a - w
OBVIOUS

(* Modulo twice a number, and then modulo the number.                      *)
LEMMA TwiceRemainder ==
  ASSUME NEW a \in Nat, NEW w \in Nat, w > 0
  PROVE  (a % (2 * w)) % w = a % w
<1>1. PICK b \in Nat : b = 2 * w /\ b > 0
  OBVIOUS
<1>2. PICK m \in Nat : m = a % b
  BY <1>1, Division
<1>3. PICK q \in Nat : \E x \in Nat : x = b * q /\ a = x + m
  <2>1. \E i \in Nat : \E x \in Nat : x = b * i /\ a = x + (a % b) /\ a % b \in 0..b - 1
    BY <1>1, Division, Zenon
  <2> QED BY <1>2, <2>1, Zenon
<1>4. PICK r \in 0..w - 1 : r = m % w
  BY Division
<1>5. PICK p \in Nat : \E x \in Nat : x = w * p /\ m = x + r
  <2>1. \E i \in Nat : \E x \in Nat : x = w * i /\ m = x + (m % w) /\ m % w \in 0..w - 1
    BY Division, Zenon
  <2> QED BY <1>4, <2>1, Zenon
<1>6. PICK s \in 0..w - 1 : s = a % w
  BY Division
<1>7. PICK o \in Nat : \E x \in Nat : x = w * o /\ a = x + s
  <2>1. \E i \in Nat : \E x \in Nat : x = w * i /\ a = x + (a % w) /\ a % w \in 0..w - 1
    BY Division, Zenon
  <2> QED BY <1>6, <2>1, Zenon
<1>8. PICK x \in Nat : x = w * q
  OBVIOUS
<1>9. b * q = 2 * x
  <2>1. b * q = (2 * w) * q /\ (2 * w) * q = 2 * (w * q)
    BY <1>1
  <2> QED BY <2>1, <1>8
<1>10. PICK y \in Nat : y = w * p
  OBVIOUS
<1>11. PICK z \in Nat : z = w * o
  OBVIOUS
<1>12. PICK c \in Int : c = 2 * q + p
  OBVIOUS
<1>13. w * c = 2 * x + y
  <2>1. w * (2 * q + p) = 2 * (w * q) + (w * p)
    OBVIOUS
  <2> QED BY <2>1, <1>8, <1>10, <1>12
<1>14. a = 2 * x + m /\ m = y + r /\ a = z + s
  BY <1>3, <1>5, <1>7, <1>9, <1>10, <1>11
<1>15. w * c + r = w * o + s
  BY <1>11, <1>13, <1>14
<1>16. r = s
  BY <1>15, OneRemainder
<1> QED BY <1>1, <1>2, <1>4, <1>6, <1>16

LEMMA Even ==
  ASSUME NEW a \in Nat
  PROVE  /\ a % 2 = 0 => a = 2 * (a \div 2) /\ a \div 2 \in Nat
         /\ (2 * a) % 2 = 0 /\ (2 * a) \div 2 = a
         /\ a % 4 = 0 => a % 2 = 0
OBVIOUS
-----------------------------------------------------------------------------
(***************************************************************************)
(* The sizes that a table may have: the smallest one, doubled some times.  *)
(***************************************************************************)
Sized(s) ==
  \E k \in Nat : \E f \in [0..k -> Nat] :
    f[0] = MinSize /\ (\A i \in 1..k : f[i] = 2 * f[i - 1]) /\ f[k] = s

LEMMA SizedMin == Sized(MinSize)
<1> DEFINE f == [i \in 0..0 |-> MinSize]
<1>1. f \in [0..0 -> Nat] /\ f[0] = MinSize /\ \A i \in 1..0 : f[i] = 2 * f[i - 1]
  BY FuseTablesAssumption
<1> QED BY <1>1 DEF Sized

LEMMA SizedTwice ==
  ASSUME NEW s, Sized(s)
  PROVE  Sized(2 * s)
<1>1. PICK k \in Nat : \E f \in [0..k -> Nat] :
        f[0] = MinSize /\ (\A i \in 1..k : f[i] = 2 * f[i - 1]) /\ f[k] = s
  BY DEF Sized
<1>2. PICK f \in [0..k -> Nat] : f[0] = MinSize /\ (\A i \in 1..k : f[i] = 2 * f[i - 1]) /\ f[k] = s
  BY <1>1
<1> DEFINE g == [i \in 0..k + 1 |-> IF i = k + 1 THEN 2 * s ELSE f[i]]
<1>3. g \in [0..k + 1 -> Nat]
  BY <1>2
<1>4. g[0] = MinSize /\ g[k + 1] = 2 * s
  BY <1>2
<1>5. ASSUME NEW i \in 1..k + 1 PROVE g[i] = 2 * g[i - 1]
  <2>1. i - 1 \in 0..k /\ g[i - 1] = f[i - 1]
    OBVIOUS
  <2>2. CASE i = k + 1
    BY <1>2, <2>1, <2>2
  <2>3. CASE i # k + 1
    <3>1. i \in 1..k
      BY <2>3
    <3> QED BY <1>2, <2>1, <2>3, <3>1
  <2> QED BY <2>2, <2>3
<1> HIDE DEF g
<1>6. k + 1 \in Nat
  OBVIOUS
<1> QED BY <1>3, <1>4, <1>5, <1>6 DEF Sized

(* Each is even, and half of it is one, too, or smaller than the smallest. *)
LEMMA SizedHalf ==
  ASSUME NEW s, Sized(s)
  PROVE  \E half \in Nat : half > 0 /\ s = 2 * half /\ s \div 2 = half /\ (half >= MinSize => Sized(half))
<1>1. PICK k \in Nat : \E f \in [0..k -> Nat] :
        f[0] = MinSize /\ (\A i \in 1..k : f[i] = 2 * f[i - 1]) /\ f[k] = s
  BY DEF Sized
<1>2. PICK f \in [0..k -> Nat] : f[0] = MinSize /\ (\A i \in 1..k : f[i] = 2 * f[i - 1]) /\ f[k] = s
  BY <1>1
<1>3. CASE k = 0
  <2>1. s = MinSize /\ MinSize \in Nat /\ MinSize > 0 /\ MinSize % 4 = 0
    BY <1>2, <1>3, FuseTablesAssumption
  <2>2. PICK m \in Nat : m = MinSize
    BY <2>1
  <2>3. m = 2 * (m \div 2) /\ m \div 2 \in Nat
    BY <2>1, <2>2, Even
  <2>4. PICK half \in Nat : half = m \div 2
    BY <2>3
  <2>5. half > 0 /\ ~(half >= m)
    BY <2>1, <2>2, <2>3, <2>4
  <2> QED BY <2>1, <2>2, <2>3, <2>4, <2>5
<1>4. CASE k # 0
  <2>1. k - 1 \in Nat /\ k \in 1..k /\ k - 1 \in 0..k
    BY <1>4
  <2>2. PICK half \in Nat : half = f[k - 1]
    BY <2>1
  <2>3. s = 2 * half
    BY <1>2, <2>1, <2>2
  <2>4. s \div 2 = half
    BY <2>3, Even
  <2> DEFINE g == [i \in 0..k - 1 |-> f[i]]
  <2>5. g \in [0..k - 1 -> Nat] /\ g[0] = MinSize /\ g[k - 1] = half
    BY <1>2, <2>1, <2>2
  <2>6. ASSUME NEW i \in 1..k - 1 PROVE g[i] = 2 * g[i - 1]
    <3>1. i \in 1..k /\ i \in 0..k - 1 /\ i - 1 \in 0..k - 1
      OBVIOUS
    <3> QED BY <1>2, <3>1
  <2> HIDE DEF g
  <2>7. Sized(half)
    BY <2>1, <2>5, <2>6 DEF Sized
  <2>8. half > 0
    <3> DEFINE Zero == {i \in 0..k : f[i] = 0}
    <3>1. Zero \subseteq Nat
      OBVIOUS
    <3>2. SUFFICES ASSUME Zero # {} PROVE FALSE
      BY <2>1, <2>2
    <3>3. PICK i \in Zero : \A j \in Zero : i <= j
      BY <3>1, <3>2, Least
    <3>4. i # 0
      BY <1>2, <3>3, FuseTablesAssumption
    <3>5. i \in 1..k /\ i - 1 \in 0..k
      BY <3>3, <3>4
    <3>6. f[i] = 2 * f[i - 1] /\ f[i] = 0
      BY <1>2, <3>3, <3>5
    <3>7. f[i - 1] = 0
      <4>1. PICK y \in Nat : y = f[i - 1]
        BY <3>5
      <4> QED BY <3>6, <4>1
    <3> QED BY <3>3, <3>5, <3>7
  <2> QED BY <2>3, <2>4, <2>7, <2>8
<1> QED BY <1>3, <1>4
-----------------------------------------------------------------------------
(***************************************************************************)
(* Tables. A remainder m of twice half has its bucket at m, or at m - half *)
(* if that one has not been split.                                         *)
(***************************************************************************)
Where(m, half, split) == IF m < half \/ m - half < split THEN m ELSE m - half

LEMMA BucketIs ==
  ASSUME NEW t, NEW a \in Nat, NEW half \in Nat, half > 0, t.size = 2 * half, t.split \in Nat
  PROVE  /\ a % (2 * half) \in 0..2 * half - 1
         /\ Bucket(t, a) = Where(a % (2 * half), half, t.split)
<1>1. PICK w \in Nat : w = 2 * half /\ w > 0 /\ w \div 2 = half
  BY Even
<1>2. PICK split \in Nat : split = t.split
  OBVIOUS
<1>3. PICK m \in Nat : m = a % w /\ m < w
  BY <1>1, Division
<1>4. m % half = IF m < half THEN m ELSE m - half
  BY <1>1, <1>3, Below
<1>5. Bucket(t, a) = IF m % half >= split THEN m % half ELSE m
  BY <1>1, <1>2, <1>3 DEF Bucket
<1>6. Bucket(t, a) = Where(m, half, split)
  BY <1>4, <1>5 DEF Where
<1> QED BY <1>1, <1>2, <1>3, <1>6

LEMMA WhereIn ==
  ASSUME NEW half \in Nat, NEW m \in 0..2 * half - 1, NEW split \in 0..half
  PROVE  Where(m, half, split) \in 0..half + split - 1
BY DEF Where

LEMMA WhereSplit ==
  ASSUME NEW half \in Nat, NEW m \in 0..2 * half - 1, NEW split \in 0..half - 1
  PROVE  IF Where(m, half, split) = split THEN Where(m, half, split + 1) \in {split, split + half}
         ELSE Where(m, half, split + 1) = Where(m, half, split)
BY DEF Where

LEMMA WhereMerged ==
  ASSUME NEW half \in Nat, NEW m \in 0..2 * half - 1, NEW split \in 0..half, NEW low \in 0..split
  PROVE  Where(m, half, low) = IF Where(m, half, split) >= half + low THEN Where(m, half, split) - half
                               ELSE Where(m, half, split)
BY DEF Where

Chains(size) == [0..size - 1 -> SUBSET IdRange]
Tables == {t \in [size : Nat, split : Nat, use : Nat, array : UNION {Chains(s) : s \in Nat}] :
             t.array \in Chains(t.size)}
WellMade(t, h, nodes) == t \in Tables /\ Sized(t.size) /\ Sound(t, h, nodes)

At(n, h, half, split) == Where(h[n] % (2 * half), half, split)
InBuckets(array, half, split, h, nodes) ==
  /\ \A n \in nodes : n \in array[At(n, h, half, split)]
  /\ \A i \in 0..2 * half - 1 : \A n \in array[i] : n \in nodes /\ i = At(n, h, half, split)

LEMMA Parts ==
  ASSUME NEW t, NEW h, NEW nodes, \A n \in nodes : h[n] \in Nat,
         WellMade(t, h, nodes)
  PROVE  \E half \in Nat :
           /\ half > 0 /\ t.size = 2 * half /\ t.size \div 2 = half
           /\ t.split \in 0..half /\ t.use = Cardinality(nodes) /\ t.use \in Nat
           /\ t.array \in Chains(2 * half) /\ InBuckets(t.array, half, t.split, h, nodes)
           /\ half >= MinSize => Sized(half)
<1>1. t \in Tables /\ Sized(t.size) /\ Sound(t, h, nodes)
  BY DEF WellMade
<1>2. PICK half \in Nat : half > 0 /\ t.size = 2 * half /\ t.size \div 2 = half /\ (half >= MinSize => Sized(half))
  BY <1>1, SizedHalf
<1>3. t.array \in Chains(2 * half) /\ t.split \in 0..half /\ t.use = Cardinality(nodes) /\ t.use \in Nat
  BY <1>1, <1>2 DEF Tables, Sound
<1>4. ASSUME NEW n \in nodes PROVE Bucket(t, h[n]) = At(n, h, half, t.split)
  <2>1. h[n] \in Nat /\ t.split \in Nat
    BY <1>3
  <2> QED BY <1>2, <2>1, BucketIs DEF At
<1>5. DOMAIN t.array = 0..2 * half - 1
  BY <1>3 DEF Chains
<1>6. InBuckets(t.array, half, t.split, h, nodes)
  BY <1>1, <1>4, <1>5 DEF Sound, InBuckets
<1> QED BY <1>2, <1>3, <1>6

LEMMA Assembled ==
  ASSUME NEW h, NEW nodes, \A n \in nodes : h[n] \in Nat,
         NEW t, NEW half \in Nat, half > 0, NEW split \in 0..half, NEW array \in Chains(2 * half),
         t = [size |-> 2 * half, split |-> split, use |-> Cardinality(nodes), array |-> array],
         Cardinality(nodes) \in Nat,
         Sized(2 * half), InBuckets(array, half, split, h, nodes)
  PROVE  WellMade(t, h, nodes)
<1>1. t.size = 2 * half /\ t.split = split /\ t.use = Cardinality(nodes) /\ t.array = array
  OBVIOUS
<1>2. t \in Tables
  <2>1. PICK s \in Nat : s = 2 * half
    OBVIOUS
  <2>2. array \in UNION {Chains(i) : i \in Nat}
    BY <2>1
  <2>3. split \in Nat
    OBVIOUS
  <2> QED BY <2>1, <2>2, <2>3 DEF Tables
<1>3. ASSUME NEW n \in nodes PROVE Bucket(t, h[n]) = At(n, h, half, split)
  <2>1. h[n] \in Nat /\ t.split \in Nat
    BY <1>1
  <2> QED BY <1>1, <2>1, BucketIs DEF At
<1>4. DOMAIN array = 0..2 * half - 1
  BY DEF Chains
<1>5. t.size \div 2 = half
  BY <1>1, Even
<1>6. Sound(t, h, nodes)
  <2>1. \A n \in nodes : n \in array[Bucket(t, h[n])]
    BY <1>3 DEF InBuckets
  <2>2. \A i \in 0..2 * half - 1 : \A n \in array[i] : n \in nodes /\ i = Bucket(t, h[n])
    BY <1>3 DEF InBuckets
  <2> QED BY <1>1, <1>4, <1>5, <2>1, <2>2 DEF Sound
<1> QED BY <1>1, <1>2, <1>6 DEF WellMade
-----------------------------------------------------------------------------
(***************************************************************************)
(* What becomes of the buckets when one is split or merged, and when the   *)
(* table is doubled or halved.                                             *)
(***************************************************************************)
LEMMA Remainder ==
  ASSUME NEW h, NEW nodes, \A n \in nodes : h[n] \in Nat, NEW n \in nodes,
         NEW half \in Nat, half > 0
  PROVE  \E m \in 0..2 * half - 1 : m = h[n] % (2 * half)
<1>1. PICK w \in Nat : w = 2 * half /\ w > 0
  OBVIOUS
<1>2. h[n] % w \in 0..w - 1
  BY <1>1, Division
<1> QED BY <1>1, <1>2

LEMMA Split ==
  ASSUME NEW h, NEW nodes, \A n \in nodes : h[n] \in Nat,
         NEW half \in Nat, half > 0, NEW split \in 0..half - 1, NEW array \in Chains(2 * half),
         InBuckets(array, half, split, h, nodes), NEW array2,
         array2 = [i \in 0..2 * half - 1 |->
                     (IF i = split THEN {} ELSE array[i]) \cup {n \in array[split] : At(n, h, half, split + 1) = i}]
  PROVE  array2 \in Chains(2 * half) /\ InBuckets(array2, half, split + 1, h, nodes)
<1>1. array2 \in Chains(2 * half)
  BY DEF Chains
<1>2. ASSUME NEW n \in nodes
      PROVE  /\ IF At(n, h, half, split) = split THEN At(n, h, half, split + 1) \in {split, split + half}
                ELSE At(n, h, half, split + 1) = At(n, h, half, split)
             /\ At(n, h, half, split + 1) \in 0..2 * half - 1
  <2>1. PICK m \in 0..2 * half - 1 : m = h[n] % (2 * half)
    BY Remainder
  <2>2. IF Where(m, half, split) = split THEN Where(m, half, split + 1) \in {split, split + half}
        ELSE Where(m, half, split + 1) = Where(m, half, split)
    BY WhereSplit
  <2>3. Where(m, half, split + 1) \in 0..2 * half - 1
    BY DEF Where
  <2> QED BY <2>1, <2>2, <2>3 DEF At
<1>3. ASSUME NEW n \in nodes PROVE n \in array2[At(n, h, half, split + 1)]
  <2>1. n \in array[At(n, h, half, split)]
    BY DEF InBuckets
  <2> QED BY <1>2, <2>1
<1>4. ASSUME NEW i \in 0..2 * half - 1, NEW n \in array2[i]
      PROVE  n \in nodes /\ i = At(n, h, half, split + 1)
  <2>1. CASE n \in array[split] /\ At(n, h, half, split + 1) = i
    BY <2>1 DEF InBuckets
  <2>2. CASE i # split /\ n \in array[i]
    <3>1. n \in nodes /\ i = At(n, h, half, split)
      BY <2>2 DEF InBuckets
    <3> QED BY <1>2, <2>2, <3>1
  <2> QED BY <2>1, <2>2
<1> QED BY <1>1, <1>3, <1>4 DEF InBuckets

LEMMA Merged ==
  ASSUME NEW h, NEW nodes, \A n \in nodes : h[n] \in Nat,
         NEW half \in Nat, half > 0, NEW split \in 0..half, NEW low \in 0..half - 1, low < split,
         NEW array \in Chains(2 * half),
         InBuckets(array, half, split, h, nodes),
         \A i \in low + 1..split - 1 : array[i + half] = {}, NEW array2,
         array2 = [array EXCEPT ![low] = array[low] \cup array[low + half], ![low + half] = {}]
  PROVE  array2 \in Chains(2 * half) /\ InBuckets(array2, half, low, h, nodes)
<1>1. DOMAIN array = 0..2 * half - 1 /\ low \in 0..2 * half - 1 /\ low + half \in 0..2 * half - 1 /\ low # low + half
  BY DEF Chains
<1>2. /\ array2[low] = array[low] \cup array[low + half] /\ array2[low + half] = {}
      /\ \A i \in 0..2 * half - 1 : i # low /\ i # low + half => array2[i] = array[i]
  BY <1>1
<1>3. array2 \in Chains(2 * half)
  BY <1>1 DEF Chains
<1>4. ASSUME NEW n \in nodes
      PROVE  /\ At(n, h, half, low) = IF At(n, h, half, split) >= half + low THEN At(n, h, half, split) - half
                                      ELSE At(n, h, half, split)
             /\ At(n, h, half, split) \in 0..half + split - 1
  <2>1. PICK m \in 0..2 * half - 1 : m = h[n] % (2 * half)
    BY Remainder
  <2>2. low \in 0..split
    OBVIOUS
  <2>3. Where(m, half, low) = IF Where(m, half, split) >= half + low THEN Where(m, half, split) - half
                              ELSE Where(m, half, split)
    BY <2>2, WhereMerged
  <2>4. Where(m, half, split) \in 0..half + split - 1
    BY WhereIn
  <2> QED BY <2>1, <2>3, <2>4 DEF At
<1>5. ASSUME NEW n \in nodes
      PROVE  n \in array[At(n, h, half, split)] /\ At(n, h, half, split) <= half + low
  <2>1. n \in array[At(n, h, half, split)]
    BY DEF InBuckets
  <2>2. ASSUME At(n, h, half, split) > half + low PROVE FALSE
    <3>1. PICK w \in 0..half + split - 1 : w = At(n, h, half, split)
      BY <1>4
    <3>2. w - half \in low + 1..split - 1 /\ w = (w - half) + half
      BY <2>2, <3>1
    <3>3. array[w] = {}
      BY <3>2
    <3> QED BY <2>1, <3>1, <3>3
  <2>3. At(n, h, half, split) \in Int
    BY <1>4
  <2> QED BY <2>1, <2>2, <2>3
<1>6. ASSUME NEW n \in nodes PROVE n \in array2[At(n, h, half, low)]
  <2>1. PICK w \in 0..half + split - 1 : w = At(n, h, half, split)
    BY <1>4
  <2>2. CASE w = half + low
    <3>1. At(n, h, half, low) = w - half
      <4>1. At(n, h, half, low) = IF w >= half + low THEN w - half ELSE w
        BY <1>4, <2>1, Zenon
      <4>2. w >= half + low
        BY <2>2
      <4> QED BY <4>1, <4>2
    <3>2. w - half = low /\ w = low + half
      BY <2>2
    <3>3. n \in array[low + half]
      BY <1>5, <2>1, <3>2
    <3> QED BY <1>2, <3>1, <3>2, <3>3
  <2>3. CASE w < half + low
    <3>1. At(n, h, half, low) = w /\ w \in 0..2 * half - 1 /\ w # low + half
      BY <1>4, <2>1, <2>3
    <3> QED BY <1>2, <1>5, <2>1, <3>1
  <2> QED BY <1>5, <2>1, <2>2, <2>3
<1>7. ASSUME NEW i \in 0..2 * half - 1, NEW n \in array2[i]
      PROVE  n \in nodes /\ i = At(n, h, half, low)
  <2>1. i # low + half
    BY <1>2
  <2>2. PICK j \in 0..2 * half - 1 : n \in array[j] /\ (j = i \/ (i = low /\ j = low + half))
    BY <1>1, <1>2, <2>1
  <2>3. n \in nodes /\ j = At(n, h, half, split)
    BY <2>2 DEF InBuckets
  <2>4. At(n, h, half, low) = IF j >= half + low THEN j - half ELSE j
    BY <1>4, <2>3
  <2>5. j <= half + low
    BY <1>5, <2>3
  <2> QED BY <2>1, <2>2, <2>3, <2>4, <2>5
<1> QED BY <1>3, <1>6, <1>7 DEF InBuckets

LEMMA Resized ==
  ASSUME NEW h, NEW nodes, \A n \in nodes : h[n] \in Nat,
         NEW half \in Nat, half > 0, NEW array \in Chains(2 * half),
         InBuckets(array, half, half, h, nodes), NEW array2,
         array2 = [i \in 0..2 * (2 * half) - 1 |-> IF i < 2 * half THEN array[i] ELSE {}]
  PROVE  array2 \in Chains(2 * (2 * half)) /\ InBuckets(array2, 2 * half, 0, h, nodes)
<1>1. PICK w \in Nat : w = 2 * half /\ w > 0
  OBVIOUS
<1>2. array2 \in Chains(2 * w)
  BY <1>1 DEF Chains
<1>3. ASSUME NEW n \in nodes
      PROVE  At(n, h, w, 0) = At(n, h, half, half) /\ At(n, h, w, 0) \in 0..w - 1
  <2>1. PICK m \in 0..2 * half - 1 : m = h[n] % (2 * half)
    BY Remainder
  <2>2. PICK m2 \in 0..2 * w - 1 : m2 = h[n] % (2 * w)
    BY <1>1, Remainder
  <2>3. m2 % w = m
    <3>1. h[n] \in Nat
      OBVIOUS
    <3>2. (h[n] % (2 * w)) % w = h[n] % w
      BY <1>1, <3>1, TwiceRemainder
    <3> QED BY <1>1, <2>1, <2>2, <3>2
  <2>4. m2 % w = IF m2 < w THEN m2 ELSE m2 - w
    <3>1. m2 \in Nat /\ m2 < 2 * w
      BY <1>1
    <3> QED BY <1>1, <3>1, Below
  <2>5. Where(m2, w, 0) = m /\ Where(m, half, half) = m
    BY <1>1, <2>3, <2>4 DEF Where
  <2> QED BY <1>1, <2>1, <2>2, <2>5 DEF At
<1>4. ASSUME NEW n \in nodes PROVE n \in array2[At(n, h, w, 0)]
  <2>1. n \in array[At(n, h, half, half)]
    BY DEF InBuckets
  <2> QED BY <1>1, <1>3, <2>1
<1>5. ASSUME NEW i \in 0..2 * w - 1, NEW n \in array2[i]
      PROVE  n \in nodes /\ i = At(n, h, w, 0)
  <2>1. i \in 0..2 * half - 1 /\ n \in array[i]
    BY <1>1
  <2>2. n \in nodes /\ i = At(n, h, half, half)
    BY <2>1 DEF InBuckets
  <2> QED BY <1>3, <2>2
<1>6. InBuckets(array2, w, 0, h, nodes)
  BY <1>4, <1>5 DEF InBuckets
<1> QED BY <1>1, <1>2, <1>6

LEMMA Reduced ==
  ASSUME NEW h, NEW nodes, \A n \in nodes : h[n] \in Nat,
         NEW half \in Nat, half > 0, NEW array \in Chains(2 * (2 * half)),
         InBuckets(array, 2 * half, 0, h, nodes), NEW array2,
         array2 = [i \in 0..2 * half - 1 |-> array[i]]
  PROVE  array2 \in Chains(2 * half) /\ InBuckets(array2, half, half, h, nodes)
<1>1. PICK w \in Nat : w = 2 * half /\ w > 0
  OBVIOUS
<1>2. array2 \in Chains(2 * half)
  BY DEF Chains
<1>3. ASSUME NEW n \in nodes
      PROVE  At(n, h, w, 0) = At(n, h, half, half) /\ At(n, h, w, 0) \in 0..w - 1
  <2>1. PICK m \in 0..2 * half - 1 : m = h[n] % (2 * half)
    BY Remainder
  <2>2. PICK m2 \in 0..2 * w - 1 : m2 = h[n] % (2 * w)
    BY <1>1, Remainder
  <2>3. m2 % w = m
    <3>1. h[n] \in Nat
      OBVIOUS
    <3>2. (h[n] % (2 * w)) % w = h[n] % w
      BY <1>1, <3>1, TwiceRemainder
    <3> QED BY <1>1, <2>1, <2>2, <3>2
  <2>4. m2 % w = IF m2 < w THEN m2 ELSE m2 - w
    <3>1. m2 \in Nat /\ m2 < 2 * w
      BY <1>1
    <3> QED BY <1>1, <3>1, Below
  <2>5. Where(m2, w, 0) = m /\ Where(m, half, half) = m
    BY <1>1, <2>3, <2>4 DEF Where
  <2> QED BY <1>1, <2>1, <2>2, <2>5 DEF At
<1>4. ASSUME NEW n \in nodes PROVE n \in array2[At(n, h, half, half)]
  <2>1. n \in array[At(n, h, w, 0)]
    BY <1>1 DEF InBuckets
  <2> QED BY <1>1, <1>3, <2>1
<1>5. ASSUME NEW i \in 0..2 * half - 1, NEW n \in array2[i]
      PROVE  n \in nodes /\ i = At(n, h, half, half)
  <2>1. i \in 0..2 * w - 1 /\ n \in array[i]
    BY <1>1
  <2>2. n \in nodes /\ i = At(n, h, w, 0)
    BY <1>1, <2>1 DEF InBuckets
  <2> QED BY <1>3, <2>2
<1>6. InBuckets(array2, half, half, h, nodes)
  BY <1>4, <1>5 DEF InBuckets
<1> QED BY <1>2, <1>6
-----------------------------------------------------------------------------
(***************************************************************************)
(* The operations on a table keep it well made.                            *)
(***************************************************************************)
LEMMA SplitMade ==
  ASSUME NEW h, NEW nodes, \A n \in nodes : h[n] \in Nat,
         NEW t, WellMade(t, h, nodes), t.split # t.size \div 2
  PROVE  WellMade(SplitBucket(t, h), h, nodes)
<1>1. PICK half \in Nat :
        /\ half > 0 /\ t.size = 2 * half /\ t.size \div 2 = half
        /\ t.split \in 0..half /\ t.use = Cardinality(nodes) /\ t.use \in Nat
        /\ t.array \in Chains(2 * half) /\ InBuckets(t.array, half, t.split, h, nodes)
        /\ half >= MinSize => Sized(half)
  BY Parts
<1>2. PICK split \in 0..half - 1 : split = t.split
  BY <1>1
<1> DEFINE array == t.array
           moved(i) == (IF i = split THEN {} ELSE array[i]) \cup {n \in array[split] : At(n, h, half, split + 1) = i}
           array2 == [i \in 0..2 * half - 1 |-> moved(i)]
           s == [t EXCEPT !.split = @ + 1]
<1>3. array2 \in Chains(2 * half) /\ InBuckets(array2, half, split + 1, h, nodes)
  <2>1. array \in Chains(2 * half) /\ InBuckets(array, half, split, h, nodes) /\ half > 0
    BY <1>1, <1>2
  <2> HIDE DEF array
  <2> QED BY <2>1, Split
<1>4. s.size = 2 * half /\ s.split = split + 1 /\ s.split \in Nat
  BY <1>1, <1>2 DEF WellMade, Tables
<1>5. ASSUME NEW n \in array[split] PROVE Bucket(s, h[n]) = At(n, h, half, split + 1)
  <2>1. n \in nodes
    BY <1>1, <1>2 DEF InBuckets
  <2>2. Bucket(s, h[n]) = Where(h[n] % (2 * half), half, s.split)
    BY <1>1, <1>4, <2>1, BucketIs
  <2> QED BY <1>4, <2>2 DEF At
<1>6. DOMAIN array = 0..2 * half - 1
  BY <1>1 DEF Chains
<1>7. SplitBucket(t, h) = [s EXCEPT !.array = array2]
  BY <1>2, <1>5, <1>6 DEF SplitBucket
<1>8. SplitBucket(t, h) = [size |-> 2 * half, split |-> split + 1, use |-> Cardinality(nodes), array |-> array2]
  BY <1>1, <1>2, <1>7 DEF WellMade, Tables
<1>9. Sized(2 * half) /\ split + 1 \in 0..half /\ Cardinality(nodes) \in Nat
  BY <1>1 DEF WellMade
<1> HIDE DEF array2
<1> QED BY <1>1, <1>3, <1>8, <1>9, Assembled

LEMMA ResizeMade ==
  ASSUME NEW h, NEW nodes, \A n \in nodes : h[n] \in Nat,
         NEW t, WellMade(t, h, nodes), t.split = t.size \div 2
  PROVE  WellMade(NodeTableResize(t), h, nodes)
<1>1. PICK half \in Nat :
        /\ half > 0 /\ t.size = 2 * half /\ t.size \div 2 = half
        /\ t.split \in 0..half /\ t.use = Cardinality(nodes) /\ t.use \in Nat
        /\ t.array \in Chains(2 * half) /\ InBuckets(t.array, half, t.split, h, nodes)
        /\ half >= MinSize => Sized(half)
  BY Parts
<1> DEFINE array == t.array
           array2 == [i \in 0..2 * (2 * half) - 1 |-> IF i < 2 * half THEN array[i] ELSE {}]
<1>2. array2 \in Chains(2 * (2 * half)) /\ InBuckets(array2, 2 * half, 0, h, nodes)
  <2>1. array \in Chains(2 * half) /\ InBuckets(array, half, half, h, nodes) /\ half > 0
    BY <1>1
  <2> HIDE DEF array
  <2> QED BY <2>1, Resized
<1>3. NodeTableResize(t) = [size |-> 2 * (2 * half), split |-> 0, use |-> Cardinality(nodes), array |-> array2]
  <2>1. NodeTableResize(t) = [t EXCEPT !.size = 2 * (2 * half), !.split = 0, !.array = array2]
    BY <1>1 DEF NodeTableResize
  <2> HIDE DEF array2
  <2> QED BY <1>1, <2>1 DEF WellMade, Tables
<1>4. Sized(2 * (2 * half)) /\ 2 * half \in Nat /\ 2 * half > 0 /\ 0 \in 0..2 * half /\ Cardinality(nodes) \in Nat
  BY <1>1, SizedTwice DEF WellMade
<1> HIDE DEF array2
<1> QED BY <1>2, <1>3, <1>4, Assembled

LEMMA RehashMade ==
  ASSUME NEW h, NEW nodes, \A n \in nodes : h[n] \in Nat,
         NEW t, WellMade(t, h, nodes), NEW s \in Rehash(t, h)
  PROVE  WellMade(s, h, nodes)
<1>1. CASE t.split = t.size \div 2
  BY <1>1 DEF Rehash
<1>2. CASE t.split # t.size \div 2
  <2> DEFINE u == SplitBucket(t, h)
  <2>1. WellMade(u, h, nodes)
    BY <1>2, SplitMade
  <2> HIDE DEF u
  <2>2. u.split = u.size \div 2 => WellMade(NodeTableResize(u), h, nodes)
    BY <2>1, ResizeMade
  <2>3. s \in (IF u.split = u.size \div 2 THEN {u, NodeTableResize(u)} ELSE {u})
    BY <1>2 DEF Rehash, u
  <2> QED BY <2>1, <2>2, <2>3
<1> QED BY <1>1, <1>2

LEMMA HashMade ==
  ASSUME NEW h, NEW nodes, IsFiniteSet(nodes), NEW n \in IdRange, n \notin nodes,
         \A m \in nodes \cup {n} : h[m] \in Nat,
         NEW t, WellMade(t, h, nodes), NEW s \in Hash(t, n, h)
  PROVE  WellMade(s, h, nodes \cup {n})
<1>1. PICK half \in Nat :
        /\ half > 0 /\ t.size = 2 * half /\ t.size \div 2 = half
        /\ t.split \in 0..half /\ t.use = Cardinality(nodes) /\ t.use \in Nat
        /\ t.array \in Chains(2 * half) /\ InBuckets(t.array, half, t.split, h, nodes)
        /\ half >= MinSize => Sized(half)
  BY Parts
<1> DEFINE i == At(n, h, half, t.split)
           array2 == [t.array EXCEPT ![i] = @ \cup {n}]
           u == [t EXCEPT !.array[Bucket(t, h[n])] = @ \cup {n}, !.use = @ + 1]
<1>2. Bucket(t, h[n]) = i
  <2>1. h[n] \in Nat /\ t.split \in Nat
    BY <1>1
  <2> QED BY <1>1, <2>1, BucketIs DEF At
<1>3. i \in 0..2 * half - 1
  <2>1. PICK m \in 0..2 * half - 1 : m = h[n] % (2 * half)
    BY <1>1, Remainder
  <2>2. Where(m, half, t.split) \in 0..half + t.split - 1
    BY <1>1, WhereIn
  <2> QED BY <1>1, <2>1, <2>2 DEF At
<1>4. Cardinality(nodes \cup {n}) = Cardinality(nodes) + 1 /\ Cardinality(nodes) \in Nat
  BY FS_AddElement, FS_CardinalityType
<1>5. u = [size |-> 2 * half, split |-> t.split, use |-> Cardinality(nodes \cup {n}), array |-> array2]
  <2>1. u = [t EXCEPT !.array = array2, !.use = t.use + 1]
    <3> HIDE DEF i
    <3> QED BY <1>2 DEF WellMade, Tables
  <2> HIDE DEF array2, u
  <2> QED BY <1>1, <1>4, <2>1 DEF WellMade, Tables
<1> HIDE DEF i
<1>6. array2 \in Chains(2 * half)
  BY <1>1, <1>3 DEF Chains
<1>7. InBuckets(array2, half, t.split, h, nodes \cup {n})
  <2>1. DOMAIN t.array = 0..2 * half - 1
    BY <1>1 DEF Chains
  <2>2. n \in array2[i]
    BY <1>3, <2>1
  <2>3. ASSUME NEW m \in nodes PROVE m \in array2[At(m, h, half, t.split)]
    <3>1. m \in t.array[At(m, h, half, t.split)]
      BY <1>1 DEF InBuckets
    <3> QED BY <1>3, <2>1, <3>1
  <2>4. ASSUME NEW j \in 0..2 * half - 1, NEW m \in array2[j]
        PROVE  m \in nodes \cup {n} /\ j = At(m, h, half, t.split)
    <3>1. m \in t.array[j] \/ (m = n /\ j = i)
      BY <1>3, <2>1
    <3> QED BY <1>1, <3>1 DEF InBuckets, i
  <2> HIDE DEF array2
  <2> QED BY <2>2, <2>3, <2>4 DEF InBuckets, i
<1>8. Sized(2 * half)
  BY <1>1 DEF WellMade
<1> HIDE DEF array2
<1>9. WellMade(u, h, nodes \cup {n})
  <2> HIDE DEF u
  <2>1. t.split \in 0..half /\ half > 0 /\ Cardinality(nodes \cup {n}) \in Nat
    BY <1>1, <1>4
  <2> QED BY <2>1, <1>5, <1>6, <1>7, <1>8, Assembled
<1>10. s \in (IF u.use >= u.size \div 2 THEN Rehash(u, h) ELSE {u})
  BY DEF Hash
<1> HIDE DEF u
<1>11. s \in Rehash(u, h) => WellMade(s, h, nodes \cup {n})
  BY <1>9, RehashMade
<1> QED BY <1>9, <1>10, <1>11

LEMMA ReduceMade ==
  ASSUME NEW h, NEW nodes, \A n \in nodes : h[n] \in Nat,
         NEW t, WellMade(t, h, nodes), t.split = 0
  PROVE  WellMade(NodeTableReduce(t), h, nodes)
<1>1. PICK w \in Nat :
        /\ w > 0 /\ t.size = 2 * w /\ t.size \div 2 = w
        /\ t.split \in 0..w /\ t.use = Cardinality(nodes) /\ t.use \in Nat
        /\ t.array \in Chains(2 * w) /\ InBuckets(t.array, w, t.split, h, nodes)
        /\ w >= MinSize => Sized(w)
  BY Parts
<1>2. CASE w < MinSize
  <2>1. NodeTableReduce(t) = t
    BY <1>1, <1>2 DEF NodeTableReduce
  <2> QED BY <2>1
<1>3. CASE ~(w < MinSize)
  <2>1. Sized(w)
    BY <1>1, <1>3, FuseTablesAssumption
  <2>2. PICK half \in Nat : half > 0 /\ w = 2 * half /\ w \div 2 = half
    BY <2>1, SizedHalf
  <2> DEFINE array == t.array
             array2 == [i \in 0..2 * half - 1 |-> array[i]]
  <2>3. array2 \in Chains(2 * half) /\ InBuckets(array2, half, half, h, nodes)
    <3>1. array \in Chains(2 * (2 * half)) /\ InBuckets(array, 2 * half, 0, h, nodes)
      BY <1>1, <2>2
    <3> HIDE DEF array
    <3> QED BY <3>1, <2>2, Reduced
  <2>4. NodeTableReduce(t) = [size |-> 2 * half, split |-> half, use |-> Cardinality(nodes), array |-> array2]
    <3>1. NodeTableReduce(t) = [t EXCEPT !.size = 2 * half, !.split = half, !.array = array2]
      BY <1>1, <1>3, <2>2 DEF NodeTableReduce
    <3> HIDE DEF array2
    <3> QED BY <1>1, <3>1 DEF WellMade, Tables
  <2>5. half \in 0..half /\ Cardinality(nodes) \in Nat /\ Sized(2 * half)
    BY <1>1, <2>1, <2>2
  <2> HIDE DEF array2
  <2> QED BY <2>2, <2>3, <2>4, <2>5, Assembled
<1> QED BY <1>2, <1>3

LEMMA MergesIs ==
  ASSUME NEW t, t.split \in Nat \ {0}
  PROVE  /\ Merges(t) \in 1..t.split
         /\ \A j \in 1..Merges(t) - 1 : t.array[t.split - j + t.size \div 2] = {}
<1>1. PICK split \in Nat \ {0} : split = t.split
  OBVIOUS
<1>2. PICK most \in 1..split : most = IF split < 8 THEN split ELSE 8
  OBVIOUS
<1> DEFINE tries == 1..(IF t.split < 8 THEN t.split ELSE 8)
           Upper(k) == t.array[t.split - k + t.size \div 2]
           Is(k) == /\ Upper(k) # {} \/ \A j \in tries : j <= k
                    /\ \A j \in 1..k - 1 : Upper(j) = {}
<1>3. tries = 1..most
  BY <1>1, <1>2
<1>4. Merges(t) = CHOOSE k \in tries : Is(k)
  BY DEF Merges
<1> HIDE DEF tries, Upper
<1>5. \E k \in tries : Is(k)
  <2> DEFINE Full == {k \in 1..most : Upper(k) # {}}
  <2>1. CASE Full = {}
    <3>1. most \in tries /\ \A j \in tries : j <= most
      BY <1>3
    <3>2. \A j \in 1..most - 1 : Upper(j) = {}
      BY <2>1
    <3> QED BY <3>1, <3>2
  <2>2. CASE Full # {}
    <3>1. Full \subseteq Nat
      OBVIOUS
    <3>2. PICK k \in Full : \A j \in Full : k <= j
      BY <2>2, <3>1, Least
    <3>3. \A j \in 1..k - 1 : Upper(j) = {}
      <4>1. ASSUME NEW j \in 1..k - 1 PROVE Upper(j) = {}
        <5>1. j \in 1..most /\ ~(k <= j)
          BY <3>2
        <5> QED BY <3>2, <5>1
      <4> QED BY <4>1
    <3>4. k \in tries /\ Upper(k) # {}
      BY <1>3, <3>2
    <3> QED BY <3>3, <3>4
  <2> QED BY <2>1, <2>2
<1>6. Merges(t) \in tries /\ Is(Merges(t))
  <2> HIDE DEF Is
  <2> QED BY <1>4, <1>5
<1>7. Merges(t) \in 1..split
  BY <1>2, <1>3, <1>6
<1> QED BY <1>1, <1>6, <1>7 DEF Upper

LEMMA RemergeMade ==
  ASSUME NEW h, NEW nodes, \A n \in nodes : h[n] \in Nat,
         NEW t, WellMade(t, h, nodes)
  PROVE  WellMade(Remerge(t), h, nodes)
<1> DEFINE s == IF t.split = 0 THEN NodeTableReduce(t) ELSE t
           low == s.split - Merges(s)
           up == low + s.size \div 2
           array2 == [s.array EXCEPT ![low] = s.array[low] \cup s.array[up], ![up] = {}]
<1>1. WellMade(s, h, nodes)
  BY ReduceMade
<1>2. Remerge(t) = IF s.split = 0 THEN s ELSE [s EXCEPT !.split = low, !.array = array2]
  BY DEF Remerge
<1> HIDE DEF s
<1>3. CASE s.split = 0
  BY <1>1, <1>2, <1>3
<1>4. CASE s.split # 0
  <2>1. PICK half \in Nat :
          /\ half > 0 /\ s.size = 2 * half /\ s.size \div 2 = half
          /\ s.split \in 0..half /\ s.use = Cardinality(nodes) /\ s.use \in Nat
          /\ s.array \in Chains(2 * half) /\ InBuckets(s.array, half, s.split, h, nodes)
          /\ half >= MinSize => Sized(half)
    BY <1>1, Parts
  <2>2. PICK split \in 1..half : split = s.split
    BY <1>4, <2>1
  <2>3. /\ Merges(s) \in 1..split
        /\ \A j \in 1..Merges(s) - 1 : s.array[split - j + half] = {}
    BY <2>1, <2>2, MergesIs
  <2>4. PICK k \in 1..split : k = Merges(s)
    BY <2>3
  <2>5. low \in 0..half - 1 /\ low < split /\ low = split - k /\ up = low + half
    BY <2>1, <2>2, <2>4
  <2>6. ASSUME NEW i \in low + 1..split - 1 PROVE s.array[i + half] = {}
    <3>1. split - i \in 1..k - 1 /\ split - (split - i) + half = i + half
      BY <2>5
    <3> QED BY <2>3, <2>4, <3>1
  <2>7. array2 = [s.array EXCEPT ![low] = s.array[low] \cup s.array[low + half], ![low + half] = {}]
    BY <2>5
  <2> HIDE DEF low, up, array2
  <2>8. array2 \in Chains(2 * half) /\ InBuckets(array2, half, low, h, nodes)
    <3>1. PICK array \in Chains(2 * half) : array = s.array
      BY <2>1
    <3>2. InBuckets(array, half, split, h, nodes) /\ half > 0
      BY <2>1, <2>2, <3>1
    <3>3. \A i \in low + 1..split - 1 : array[i + half] = {}
      BY <2>6, <3>1
    <3>4. array2 = [array EXCEPT ![low] = array[low] \cup array[low + half], ![low + half] = {}]
      BY <2>7, <3>1
    <3>5. split \in 0..half /\ low \in 0..half - 1 /\ low < split
      BY <2>5
    <3>6. \A x : x = [array EXCEPT ![low] = array[low] \cup array[low + half], ![low + half] = {}]
                 => x \in Chains(2 * half) /\ InBuckets(x, half, low, h, nodes)
      BY <3>2, <3>3, <3>5, Merged
    <3> QED BY <3>4, <3>6
  <2>9. Remerge(t) = [size |-> 2 * half, split |-> low, use |-> Cardinality(nodes), array |-> array2]
    BY <1>1, <1>2, <1>4, <2>1 DEF WellMade, Tables
  <2>10. low \in 0..half /\ half > 0 /\ Cardinality(nodes) \in Nat /\ Sized(2 * half)
    BY <1>1, <2>1, <2>5 DEF WellMade
  <2> QED BY <2>8, <2>9, <2>10, Assembled
<1> QED BY <1>3, <1>4

LEMMA UnhashMade ==
  ASSUME NEW h, NEW nodes, \A m \in nodes : h[m] \in Nat, IsFiniteSet(nodes), NEW n \in nodes,
         NEW t, WellMade(t, h, nodes)
  PROVE  WellMade(Unhash(t, n, h), h, nodes \ {n})
<1>1. PICK half \in Nat :
        /\ half > 0 /\ t.size = 2 * half /\ t.size \div 2 = half
        /\ t.split \in 0..half /\ t.use = Cardinality(nodes) /\ t.use \in Nat
        /\ t.array \in Chains(2 * half) /\ InBuckets(t.array, half, t.split, h, nodes)
        /\ half >= MinSize => Sized(half)
  BY Parts
<1> DEFINE i == Bucket(t, h[n])
           array2 == [t.array EXCEPT ![i] = @ \ {n}]
           u == [t EXCEPT !.array[i] = @ \ {n}, !.use = @ - 1]
<1>2. i = At(n, h, half, t.split)
  <2>1. h[n] \in Nat /\ t.split \in Nat
    BY <1>1
  <2> QED BY <1>1, <2>1, BucketIs DEF At
<1>3. i \in 0..2 * half - 1
  <2>1. PICK m \in 0..2 * half - 1 : m = h[n] % (2 * half)
    BY <1>1, Remainder
  <2>2. Where(m, half, t.split) \in 0..half + t.split - 1
    BY <1>1, WhereIn
  <2> QED BY <1>1, <1>2, <2>1, <2>2 DEF At
<1>4. n \in t.array[i]
  BY <1>1, <1>2 DEF InBuckets
<1>5. Unhash(t, n, h) = IF u.use < u.size \div 4 THEN Remerge(u) ELSE u
  BY <1>4 DEF Unhash
<1> HIDE DEF i
<1>6. Cardinality(nodes \ {n}) = Cardinality(nodes) - 1 /\ Cardinality(nodes \ {n}) \in Nat
  <2>1. IsFiniteSet(nodes \ {n})
    BY FS_RemoveElement
  <2> QED BY <2>1, FS_RemoveElement, FS_CardinalityType
<1>7. u = [size |-> 2 * half, split |-> t.split, use |-> Cardinality(nodes \ {n}), array |-> array2]
  <2>1. u = [t EXCEPT !.array = array2, !.use = t.use - 1]
    BY DEF WellMade, Tables
  <2> HIDE DEF array2, u
  <2> QED BY <1>1, <1>6, <2>1 DEF WellMade, Tables
<1>8. array2 \in Chains(2 * half)
  BY <1>1, <1>3 DEF Chains
<1>9. InBuckets(array2, half, t.split, h, nodes \ {n})
  <2>1. DOMAIN t.array = 0..2 * half - 1
    BY <1>1 DEF Chains
  <2>2. ASSUME NEW m \in nodes \ {n} PROVE m \in array2[At(m, h, half, t.split)]
    <3>1. m \in t.array[At(m, h, half, t.split)] /\ m # n
      BY <1>1 DEF InBuckets
    <3> QED BY <1>3, <2>1, <3>1
  <2>3. ASSUME NEW j \in 0..2 * half - 1, NEW m \in array2[j]
        PROVE  m \in nodes \ {n} /\ j = At(m, h, half, t.split)
    <3>1. m \in t.array[j] /\ (j = i => m # n)
      BY <1>3, <2>1
    <3>2. m \in nodes /\ j = At(m, h, half, t.split)
      BY <1>1, <3>1 DEF InBuckets
    <3> QED BY <1>2, <3>1, <3>2
  <2> HIDE DEF array2
  <2> QED BY <2>2, <2>3 DEF InBuckets
<1>10. Sized(2 * half)
  BY <1>1 DEF WellMade
<1> HIDE DEF array2
<1>11. WellMade(u, h, nodes \ {n})
  <2> HIDE DEF u
  <2>1. t.split \in 0..half /\ half > 0
    BY <1>1
  <2> QED BY <1>6, <1>7, <1>8, <1>9, <1>10, <2>1, Assembled
<1> HIDE DEF u
<1>12. WellMade(Remerge(u), h, nodes \ {n})
  BY <1>11, RemergeMade
<1> QED BY <1>5, <1>11, <1>12

(* Only what the hash says of the nodes in the table matters.              *)
LEMMA SameHash ==
  ASSUME NEW h, NEW g, NEW nodes, \A n \in nodes : g[n] = h[n],
         NEW t, WellMade(t, h, nodes)
  PROVE  WellMade(t, g, nodes)
<1>1. \A i \in DOMAIN t.array : \A n \in t.array[i] : n \in nodes /\ i = Bucket(t, g[n])
  BY DEF WellMade, Sound
<1> QED BY <1>1 DEF WellMade, Sound
-----------------------------------------------------------------------------
(***************************************************************************)
(* The list of pages with something free.                                  *)
(***************************************************************************)
NoRepeats(s) == \A i, j \in DOMAIN s : s[i] = s[j] => i = j

LEMMA TailOnce ==
  ASSUME NEW S, NEW s \in Seq(S), s # <<>>, NoRepeats(s)
  PROVE  Tail(s) \in Seq(S) /\ NoRepeats(Tail(s)) /\ Range(Tail(s)) = Range(s) \ {Head(s)} /\ Head(s) \in Range(s)
<1>1. PICK l \in Nat : l = Len(s) /\ l > 0 /\ DOMAIN s = 1..l /\ Head(s) = s[1]
  OBVIOUS
<1> DEFINE tail == Tail(s)
<1>2. tail \in Seq(S) /\ DOMAIN tail = 1..l - 1 /\ \A i \in 1..l - 1 : tail[i] = s[i + 1]
  BY <1>1
<1> HIDE DEF tail
<1>3. NoRepeats(tail)
  <2>1. ASSUME NEW i \in 1..l - 1, NEW j \in 1..l - 1, tail[i] = tail[j] PROVE i = j
    <3>1. i + 1 \in 1..l /\ j + 1 \in 1..l /\ s[i + 1] = s[j + 1]
      BY <1>2, <2>1
    <3>2. i + 1 = j + 1
      BY <1>1, <3>1 DEF NoRepeats
    <3> QED BY <3>2
  <2> QED BY <1>2, <2>1 DEF NoRepeats
<1>4. ASSUME NEW x \in Range(tail) PROVE x \in Range(s) \ {Head(s)}
  <2>1. PICK i \in 1..l - 1 : x = tail[i]
    BY <1>2 DEF Range
  <2>2. i + 1 \in 1..l /\ 1 \in 1..l /\ i + 1 # 1 /\ x = s[i + 1]
    BY <1>1, <1>2, <2>1
  <2>3. s[i + 1] # s[1]
    BY <1>1, <2>2 DEF NoRepeats
  <2> QED BY <1>1, <2>2, <2>3 DEF Range
<1>5. ASSUME NEW x \in Range(s), x # Head(s) PROVE x \in Range(tail)
  <2>1. PICK i \in 1..l : x = s[i]
    BY <1>1 DEF Range
  <2>2. i - 1 \in 1..l - 1 /\ (i - 1) + 1 = i
    BY <1>1, <1>5, <2>1
  <2>3. tail[i - 1] = x
    BY <1>2, <2>1, <2>2
  <2> QED BY <1>2, <2>2, <2>3 DEF Range
<1>6. Head(s) \in Range(s)
  BY <1>1 DEF Range
<1> QED BY <1>2, <1>3, <1>4, <1>5, <1>6 DEF tail

LEMMA AppendOnce ==
  ASSUME NEW S, NEW s \in Seq(S), NoRepeats(s), NEW e \in S, e \notin Range(s)
  PROVE  Append(s, e) \in Seq(S) /\ NoRepeats(Append(s, e)) /\ Range(Append(s, e)) = Range(s) \cup {e}
<1>1. PICK l \in Nat : l = Len(s) /\ DOMAIN s = 1..l
  OBVIOUS
<1> DEFINE u == Append(s, e)
<1>2. u \in Seq(S) /\ DOMAIN u = 1..l + 1 /\ u[l + 1] = e /\ \A i \in 1..l : u[i] = s[i]
  BY <1>1
<1> HIDE DEF u
<1>3. ASSUME NEW i \in 1..l PROVE u[i] # e
  BY <1>1, <1>2 DEF Range
<1>4. NoRepeats(u)
  <2>1. ASSUME NEW i \in 1..l + 1, NEW j \in 1..l + 1, u[i] = u[j] PROVE i = j
    <3>1. CASE i \in 1..l /\ j \in 1..l
      BY <1>1, <1>2, <2>1, <3>1 DEF NoRepeats
    <3>2. CASE i = l + 1 \/ j = l + 1
      BY <1>2, <1>3, <2>1, <3>2
    <3> QED BY <3>1, <3>2
  <2> QED BY <1>2, <2>1 DEF NoRepeats
<1>5. Range(u) = Range(s) \cup {e}
  <2>1. ASSUME NEW x \in Range(u) PROVE x \in Range(s) \cup {e}
    <3>1. PICK i \in 1..l + 1 : x = u[i]
      BY <1>2 DEF Range
    <3>2. CASE i \in 1..l
      BY <1>1, <1>2, <3>1, <3>2 DEF Range
    <3>3. CASE i = l + 1
      BY <1>2, <3>1, <3>3
    <3> QED BY <3>2, <3>3
  <2>2. ASSUME NEW x \in Range(s) PROVE x \in Range(u)
    <3>1. PICK i \in 1..l : x = s[i]
      BY <1>1 DEF Range
    <3>2. i \in 1..l + 1
      OBVIOUS
    <3> QED BY <1>2, <3>1, <3>2 DEF Range
  <2>3. e \in Range(u)
    <3>1. l + 1 \in 1..l + 1
      OBVIOUS
    <3> QED BY <1>2, <3>1 DEF Range
  <2> QED BY <2>1, <2>2, <2>3
<1> QED BY <1>2, <1>4, <1>5 DEF u

LEMMA WithoutOnce ==
  ASSUME NEW S, partial \in Seq(S), NoRepeats(partial), NEW page
  PROVE  Without(page) \in Seq(S) /\ NoRepeats(Without(page)) /\ Range(Without(page)) = Range(partial) \ {page}
<1> DEFINE u == Without(page)
<1>1. CASE page \notin Range(partial)
  <2>1. u = partial
    BY <1>1 DEF Without
  <2> QED BY <1>1, <2>1
<1>2. CASE page \in Range(partial)
  <2>1. PICK l \in Nat : l = Len(partial) /\ DOMAIN partial = 1..l
    OBVIOUS
  <2> DEFINE k == CHOOSE j \in DOMAIN partial : partial[j] = page
  <2>2. k \in 1..l /\ partial[k] = page
    <3>1. \E j \in DOMAIN partial : partial[j] = page
      BY <1>2 DEF Range
    <3> QED BY <2>1, <3>1
  <2>3. u = SubSeq(partial, 1, k - 1) \o SubSeq(partial, k + 1, Len(partial))
    BY <1>2 DEF Without
  <2> HIDE DEF k, u
  <2> DEFINE front == SubSeq(partial, 1, k - 1)
             back == SubSeq(partial, k + 1, Len(partial))
  <2>4. front \in Seq(S) /\ Len(front) = k - 1 /\ \A i \in 1..k - 1 : front[i] = partial[i]
    BY <2>1, <2>2
  <2>5. back \in Seq(S) /\ Len(back) = l - k /\ \A i \in 1..l - k : back[i] = partial[k + i]
    BY <2>1, <2>2
  <2>6. u = front \o back
    BY <2>3
  <2> HIDE DEF front, back
  <2>7. u \in Seq(S) /\ Len(u) = l - 1
    <3>1. u \in Seq(S) /\ Len(u) = Len(front) + Len(back)
      BY <2>4, <2>5, <2>6, ConcatProperties
    <3>2. Len(front) + Len(back) = l - 1
      BY <2>2, <2>4, <2>5
    <3> QED BY <3>1, <3>2
  <2>8. ASSUME NEW i \in 1..l - 1 PROVE u[i] = IF i < k THEN partial[i] ELSE partial[i + 1]
    <3>1. CASE i < k
      <4>1. i \in 1..k - 1 /\ u[i] = front[i]
        BY <2>2, <2>4, <2>5, <2>6, <3>1
      <4> QED BY <2>4, <3>1, <4>1
    <3>2. CASE ~(i < k)
      <4>1. i - (k - 1) \in 1..l - k /\ u[i] = back[i - (k - 1)] /\ k + (i - (k - 1)) = i + 1
        BY <2>2, <2>4, <2>5, <2>6, <3>2
      <4> QED BY <2>5, <3>2, <4>1
    <3> QED BY <3>1, <3>2
  <2>9. DOMAIN u = 1..l - 1
    BY <2>1, <2>7
  <2> DEFINE from(i) == IF i < k THEN i ELSE i + 1
  <2>10. ASSUME NEW i \in 1..l - 1 PROVE from(i) \in 1..l /\ from(i) # k /\ u[i] = partial[from(i)]
    BY <2>2, <2>8
  <2>11. NoRepeats(u)
    <3>1. ASSUME NEW i \in 1..l - 1, NEW j \in 1..l - 1, u[i] = u[j] PROVE i = j
      <4>1. from(i) = from(j)
        <5> HIDE DEF from
        <5> QED BY <2>1, <2>10, <3>1 DEF NoRepeats
      <4> QED BY <2>2, <4>1
    <3> QED BY <2>9, <3>1 DEF NoRepeats
  <2>12. ASSUME NEW x \in Range(u) PROVE x \in Range(partial) \ {page}
    <3>1. PICK i \in 1..l - 1 : x = u[i]
      BY <2>9, <2>12 DEF Range
    <3>2. PICK j \in 1..l : j # k /\ x = partial[j]
      BY <2>10, <3>1
    <3>3. partial[j] # partial[k]
      BY <2>1, <2>2, <3>2 DEF NoRepeats
    <3> QED BY <2>1, <2>2, <3>2, <3>3 DEF Range
  <2>13. ASSUME NEW x \in Range(partial), x # page PROVE x \in Range(u)
    <3>1. PICK j \in 1..l : x = partial[j] /\ j # k
      BY <2>1, <2>2, <2>13 DEF Range
    <3>2. PICK i \in 1..l - 1 : from(i) = j
      <4>1. CASE j < k
        <5>1. j \in 1..l - 1 /\ from(j) = j
          BY <2>2, <4>1
        <5> QED BY <5>1
      <4>2. CASE ~(j < k)
        <5>1. j - 1 \in 1..l - 1 /\ from(j - 1) = j
          BY <2>2, <3>1, <4>2
        <5> QED BY <5>1
      <4> QED BY <4>1, <4>2
    <3>3. u[i] = x
      BY <2>10, <3>1, <3>2
    <3> QED BY <2>9, <3>3 DEF Range
  <2> QED BY <2>7, <2>11, <2>12, <2>13 DEF u
<1> QED BY <1>1, <1>2
-----------------------------------------------------------------------------
(***************************************************************************)
(* Nodes in their slabs.                                                   *)
(***************************************************************************)
SlabTypes ==
  /\ DOMAIN slab \subseteq IdRange /\ RootId \in DOMAIN slab /\ Cardinality(DOMAIN slab) <= MaxNodes
  /\ slab \in [DOMAIN slab -> Pages \X (1..PerSlab)]
  /\ partial \in Seq(Pages) /\ NoRepeats(partial) /\ full \subseteq Pages

LEMMA NodesFinite ==
  ASSUME NEW nodes, nodes \subseteq IdRange
  PROVE  IsFiniteSet(nodes) /\ Cardinality(nodes) \in Nat
<1>1. 1 \in Int /\ Wrap - 2 \in Int
  BY FuseTablesAssumption
<1>2. IsFiniteSet(IdRange)
  BY <1>1, FS_Interval DEF IdRange
<1>3. IsFiniteSet(nodes)
  BY <1>2, FS_Subset
<1> QED BY <1>3, FS_CardinalityType

PagesOf(s, page) == {s[n][2] : n \in {m \in DOMAIN s : s[m][1] = page}}

LEMMA UsedIs ==
  /\ \A page : Used(page) = PagesOf(slab, page)
  /\ \A page : Used(page)' = PagesOf(slab', page)
BY DEF Used, PagesOf

LEMMA PlacesUsed ==
  ASSUME NEW s, s \in [DOMAIN s -> Pages \X (1..PerSlab)], NEW page
  PROVE  /\ PagesOf(s, page) \subseteq 1..PerSlab /\ IsFiniteSet(PagesOf(s, page))
         /\ Cardinality(PagesOf(s, page)) \in 0..PerSlab
         /\ Cardinality(PagesOf(s, page)) = 0 <=> \A n \in DOMAIN s : s[n][1] # page
         /\ Cardinality(PagesOf(s, page)) < PerSlab => \E i \in 1..PerSlab : i \notin PagesOf(s, page)
<1> DEFINE P == PagesOf(s, page)
<1>1. P \subseteq 1..PerSlab
  BY DEF PagesOf
<1>2. 1 \in Int /\ PerSlab \in Int /\ PerSlab >= 1
  BY FuseTablesAssumption
<1>3. IsFiniteSet(1..PerSlab) /\ Cardinality(1..PerSlab) = PerSlab
  BY <1>2, FS_Interval
<1>4. P = {} <=> \A n \in DOMAIN s : s[n][1] # page
  BY DEF PagesOf
<1> HIDE DEF P
<1>5. IsFiniteSet(P) /\ Cardinality(P) <= PerSlab
  BY <1>1, <1>3, FS_Subset
<1>6. Cardinality(P) \in Nat /\ (Cardinality(P) = 0 <=> P = {})
  BY <1>5, FS_CardinalityType, FS_EmptySet
<1>7. Cardinality(P) < PerSlab => P # 1..PerSlab
  BY <1>2, <1>3
<1>8. Cardinality(P) < PerSlab => \E i \in 1..PerSlab : i \notin P
  BY <1>1, <1>7
<1> QED BY <1>1, <1>2, <1>4, <1>5, <1>6, <1>8 DEF P

LEMMA PageIsFree ==
  ASSUME SlabTypes, SlabsExact, Cardinality(DOMAIN slab) < MaxNodes
  PROVE  FreshPage \in Pages /\ FreshPage \notin full /\ FreshPage \notin Range(partial)
<1> DEFINE taken == {slab[n][1] : n \in DOMAIN slab}
<1>1. IsFiniteSet(DOMAIN slab) /\ Cardinality(DOMAIN slab) \in Nat
  BY NodesFinite DEF SlabTypes
<1>2. IsFiniteSet(taken) /\ Cardinality(taken) <= Cardinality(DOMAIN slab)
  <2>1. Range([n \in DOMAIN slab |-> slab[n][1]]) = taken
    BY DEF Range
  <2> DEFINE f == [n \in DOMAIN slab |-> slab[n][1]]
  <2>2. f \in Surjection(DOMAIN slab, taken)
    BY DEF Surjection
  <2> HIDE DEF f, taken
  <2> QED BY <1>1, <2>2, FS_Surjection
<1>3. Cardinality(taken) \in Nat
  BY <1>2, FS_CardinalityType
<1>4. IsFiniteSet(Pages) /\ Cardinality(Pages) = MaxNodes
  <2>1. 1 \in Int /\ MaxNodes \in Int /\ MaxNodes >= 1
    BY FuseTablesAssumption
  <2> QED BY <2>1, FS_Interval DEF Pages
<1>5. taken \subseteq Pages
  BY DEF SlabTypes
<1>6. taken # Pages
  <2> HIDE DEF taken
  <2> QED BY <1>1, <1>2, <1>3, <1>4, FuseTablesAssumption
<1>7. PICK page \in Pages : page \notin taken
  BY <1>5, <1>6
<1>8. Cardinality(Used(page)) = 0
  <2>1. \A n \in DOMAIN slab : slab[n][1] # page
    BY <1>7
  <2> QED BY <2>1, PlacesUsed, UsedIs DEF SlabTypes
<1>9. page \notin full /\ page \notin Range(partial)
  BY <1>7, <1>8, FuseTablesAssumption DEF SlabsExact
<1> QED BY <1>7, <1>9 DEF FreshPage

ExactFor(s, listed, filled) ==
  /\ \A n, m \in DOMAIN s : s[n] = s[m] => n = m
  /\ \A p \in Pages : LET used == Cardinality(PagesOf(s, p))
                       IN  /\ p \in listed <=> (used > 0 /\ used < PerSlab)
                           /\ p \in filled <=> used = PerSlab

LEMMA ExactIs ==
  /\ SlabsExact <=> ExactFor(slab, Range(partial), full)
  /\ SlabsExact' <=> ExactFor(slab', Range(partial'), full')
<1>1. SlabsExact <=> ExactFor(slab, Range(partial), full)
  BY DEF SlabsExact, ExactFor, Used, PagesOf
<1>2. SlabsExact' <=> ExactFor(slab', Range(partial'), full')
  BY DEF SlabsExact, ExactFor, Used, PagesOf
<1> QED BY <1>1, <1>2

LEMMA AllocExact ==
  ASSUME NEW s, s \in [DOMAIN s -> Pages \X (1..PerSlab)], NEW listed, NEW filled, ExactFor(s, listed, filled),
         NEW n, n \notin DOMAIN s, NEW page \in Pages, NEW place \in 1..PerSlab, place \notin PagesOf(s, page),
         NEW s2, s2 = [m \in DOMAIN s \cup {n} |-> IF m = n THEN <<page, place>> ELSE s[m]],
         NEW listed2, NEW filled2,
         \A p \in Pages \ {page} : (p \in listed2 <=> p \in listed) /\ (p \in filled2 <=> p \in filled),
         page \in filled2 <=> Cardinality(PagesOf(s, page)) = PerSlab - 1,
         page \in listed2 <=> Cardinality(PagesOf(s, page)) # PerSlab - 1
  PROVE  s2 \in [DOMAIN s2 -> Pages \X (1..PerSlab)] /\ ExactFor(s2, listed2, filled2)
<1>1. DOMAIN s2 = DOMAIN s \cup {n} /\ s2[n] = <<page, place>> /\ \A m \in DOMAIN s : m # n /\ s2[m] = s[m]
  OBVIOUS
<1>2. s2 \in [DOMAIN s2 -> Pages \X (1..PerSlab)]
  OBVIOUS
<1>3. ASSUME NEW m \in DOMAIN s PROVE s[m] # <<page, place>>
  <2>1. s[m] = <<page, place>> => place \in PagesOf(s, page)
    BY DEF PagesOf
  <2> QED BY <2>1
<1>4. \A m, k \in DOMAIN s2 : s2[m] = s2[k] => m = k
  BY <1>1, <1>3 DEF ExactFor
<1>5. PagesOf(s2, page) = PagesOf(s, page) \cup {place}
  <2>1. ASSUME NEW i \in PagesOf(s2, page) PROVE i \in PagesOf(s, page) \cup {place}
    <3>1. PICK m \in DOMAIN s2 : s2[m][1] = page /\ i = s2[m][2]
      BY DEF PagesOf
    <3>2. CASE m = n
      BY <1>1, <3>1, <3>2
    <3>3. CASE m \in DOMAIN s
      BY <1>1, <3>1, <3>3 DEF PagesOf
    <3> QED BY <1>1, <3>2, <3>3
  <2>2. ASSUME NEW i \in PagesOf(s, page) PROVE i \in PagesOf(s2, page)
    <3>1. PICK m \in DOMAIN s : s[m][1] = page /\ i = s[m][2]
      BY DEF PagesOf
    <3> QED BY <1>1, <3>1 DEF PagesOf
  <2>3. place \in PagesOf(s2, page)
    BY <1>1 DEF PagesOf
  <2> QED BY <2>1, <2>2, <2>3
<1>6. ASSUME NEW p \in Pages \ {page} PROVE PagesOf(s2, p) = PagesOf(s, p)
  <2>1. \A m : m \in DOMAIN s2 /\ s2[m][1] = p <=> m \in DOMAIN s /\ s[m][1] = p
    BY <1>1
  <2>2. \A m \in DOMAIN s2 : s2[m][1] = p => s2[m][2] = s[m][2]
    BY <1>1
  <2>3. ASSUME NEW i PROVE i \in PagesOf(s2, p) <=> i \in PagesOf(s, p)
    BY <2>1, <2>2 DEF PagesOf
  <2> QED BY <2>3
<1>7. Cardinality(PagesOf(s2, page)) = Cardinality(PagesOf(s, page)) + 1
  <2>1. IsFiniteSet(PagesOf(s, page))
    BY PlacesUsed
  <2> QED BY <1>5, <2>1, FS_AddElement
<1>8. PICK used \in 0..PerSlab : used = Cardinality(PagesOf(s, page))
  BY PlacesUsed
<1>9. used + 1 <= PerSlab
  <2>1. Cardinality(PagesOf(s2, page)) \in 0..PerSlab
    BY <1>2, PlacesUsed
  <2> QED BY <1>7, <1>8, <2>1
<1>10. ASSUME NEW p \in Pages
       PROVE  /\ p \in listed2 <=> (Cardinality(PagesOf(s2, p)) > 0 /\ Cardinality(PagesOf(s2, p)) < PerSlab)
              /\ p \in filled2 <=> Cardinality(PagesOf(s2, p)) = PerSlab
  <2>1. CASE p = page
    <3>1. Cardinality(PagesOf(s2, p)) = used + 1
      BY <1>7, <1>8, <2>1
    <3>2. (page \in filled2 <=> used = PerSlab - 1) /\ (page \in listed2 <=> used # PerSlab - 1)
      BY <1>8
    <3> QED BY <1>9, <2>1, <3>1, <3>2, FuseTablesAssumption
  <2>2. CASE p # page
    BY <1>6, <2>2 DEF ExactFor
  <2> QED BY <2>1, <2>2
<1> QED BY <1>2, <1>4, <1>10 DEF ExactFor

LEMMA FreeExact ==
  ASSUME NEW s, s \in [DOMAIN s -> Pages \X (1..PerSlab)], NEW listed, NEW filled, ExactFor(s, listed, filled),
         NEW n \in DOMAIN s, NEW page, page = s[n][1],
         NEW s2, s2 = [m \in DOMAIN s \ {n} |-> s[m]],
         NEW listed2, NEW filled2,
         \A p \in Pages \ {page} : (p \in listed2 <=> p \in listed) /\ (p \in filled2 <=> p \in filled),
         page \notin filled2,
         page \in listed2 <=> Cardinality(PagesOf(s, page)) # 1
  PROVE  s2 \in [DOMAIN s2 -> Pages \X (1..PerSlab)] /\ ExactFor(s2, listed2, filled2)
<1>1. DOMAIN s2 = DOMAIN s \ {n} /\ \A m \in DOMAIN s2 : s2[m] = s[m]
  OBVIOUS
<1>2. s2 \in [DOMAIN s2 -> Pages \X (1..PerSlab)]
  OBVIOUS
<1>3. s[n] = <<page, s[n][2]>> /\ page \in Pages
  OBVIOUS
<1>4. \A m, k \in DOMAIN s2 : s2[m] = s2[k] => m = k
  BY <1>1 DEF ExactFor
<1>5. PagesOf(s2, page) = PagesOf(s, page) \ {s[n][2]}
  <2>1. ASSUME NEW i \in PagesOf(s2, page) PROVE i \in PagesOf(s, page) /\ i # s[n][2]
    <3>1. PICK m \in DOMAIN s2 : s2[m][1] = page /\ i = s2[m][2]
      BY DEF PagesOf
    <3>2. m \in DOMAIN s /\ m # n /\ s[m] = <<page, i>>
      BY <1>1, <3>1
    <3>3. s[m] # s[n]
      BY <3>2 DEF ExactFor
    <3> QED BY <1>3, <3>2, <3>3 DEF PagesOf
  <2>2. ASSUME NEW i \in PagesOf(s, page), i # s[n][2] PROVE i \in PagesOf(s2, page)
    <3>1. PICK m \in DOMAIN s : s[m][1] = page /\ i = s[m][2]
      BY DEF PagesOf
    <3>2. m \in DOMAIN s2
      BY <1>1, <2>2, <3>1
    <3> QED BY <1>1, <3>1, <3>2 DEF PagesOf
  <2> QED BY <2>1, <2>2
<1>6. ASSUME NEW p \in Pages \ {page} PROVE PagesOf(s2, p) = PagesOf(s, p)
  <2>1. \A m : m \in DOMAIN s2 /\ s2[m][1] = p <=> m \in DOMAIN s /\ s[m][1] = p
    BY <1>1
  <2>2. \A m \in DOMAIN s2 : s2[m][1] = p => s2[m][2] = s[m][2]
    BY <1>1
  <2>3. ASSUME NEW i PROVE i \in PagesOf(s2, p) <=> i \in PagesOf(s, p)
    BY <2>1, <2>2 DEF PagesOf
  <2> QED BY <2>3
<1>7. Cardinality(PagesOf(s2, page)) = Cardinality(PagesOf(s, page)) - 1
  <2>1. IsFiniteSet(PagesOf(s, page)) /\ s[n][2] \in PagesOf(s, page)
    <3>1. s[n][2] \in PagesOf(s, page)
      BY DEF PagesOf
    <3> QED BY <3>1, PlacesUsed
  <2>2. PICK i, P : i = s[n][2] /\ P = PagesOf(s, page)
    OBVIOUS
  <2>3. IsFiniteSet(P) /\ i \in P
    BY <2>1, <2>2
  <2>4. Cardinality(P \ {i}) = IF i \in P THEN Cardinality(P) - 1 ELSE Cardinality(P)
    BY <2>3, FS_RemoveElement
  <2> QED BY <1>5, <2>2, <2>3, <2>4
<1>8. PICK used \in 0..PerSlab : used = Cardinality(PagesOf(s, page))
  BY PlacesUsed
<1>9. used - 1 >= 0
  <2>1. Cardinality(PagesOf(s2, page)) \in 0..PerSlab
    BY <1>2, PlacesUsed
  <2> QED BY <1>7, <1>8, <2>1
<1>10. ASSUME NEW p \in Pages
       PROVE  /\ p \in listed2 <=> (Cardinality(PagesOf(s2, p)) > 0 /\ Cardinality(PagesOf(s2, p)) < PerSlab)
              /\ p \in filled2 <=> Cardinality(PagesOf(s2, p)) = PerSlab
  <2>1. CASE p = page
    <3>1. Cardinality(PagesOf(s2, p)) = used - 1
      BY <1>7, <1>8, <2>1
    <3>2. page \notin filled2 /\ (page \in listed2 <=> used # 1)
      BY <1>8
    <3> QED BY <1>9, <2>1, <3>1, <3>2, FuseTablesAssumption
  <2>2. CASE p # page
    BY <1>6, <2>2 DEF ExactFor
  <2> QED BY <2>1, <2>2
<1> QED BY <1>2, <1>4, <1>10 DEF ExactFor

LEMMA AllocKeeps ==
  ASSUME SlabTypes, SlabsExact, Cardinality(DOMAIN slab) < MaxNodes,
         NEW n \in IdRange, n \notin DOMAIN slab, AllocNode(n)
  PROVE  SlabTypes' /\ SlabsExact' /\ DOMAIN slab' = DOMAIN slab \cup {n}
<1> DEFINE pages == IF partial = <<>> THEN <<FreshPage>> ELSE partial
           page == Head(pages)
           place == CHOOSE i \in Places \ Used(page) : TRUE
           last == Cardinality(Used(page)) = PerSlab - 1
<1>1. /\ slab' = [m \in DOMAIN slab \cup {n} |-> IF m = n THEN <<page, place>> ELSE slab[m]]
      /\ partial' = IF last THEN Tail(pages) ELSE pages
      /\ full' = IF last THEN full \cup {page} ELSE full
  BY DEF AllocNode
<1>2. /\ pages \in Seq(Pages) /\ pages # <<>> /\ NoRepeats(pages)
      /\ page \in Pages /\ page \notin full /\ page \in Range(pages)
      /\ \A p \in Pages \ {page} : p \in Range(pages) <=> p \in Range(partial)
      /\ Cardinality(Used(page)) < PerSlab
  <2>1. CASE partial = <<>>
    <3>1. FreshPage \in Pages /\ FreshPage \notin full /\ FreshPage \notin Range(partial)
      BY PageIsFree
    <3>2. pages = <<FreshPage>> /\ page = FreshPage
      BY <2>1
    <3>3. Range(pages) = {FreshPage} /\ Range(partial) = {} /\ NoRepeats(pages)
      BY <2>1, <3>2 DEF Range, NoRepeats
    <3>4. Cardinality(Used(page)) \in 0..PerSlab
      BY PlacesUsed, UsedIs DEF SlabTypes
    <3>5. Cardinality(Used(page)) # PerSlab
      <4>1. FreshPage \in full <=> Cardinality(Used(FreshPage)) = PerSlab
        BY <3>1 DEF SlabsExact
      <4> QED BY <3>1, <3>2, <4>1
    <3>6. pages \in Seq(Pages) /\ pages # <<>>
      <4>1. PICK p \in Pages : p = FreshPage
        BY <3>1
      <4>2. <<p>> \in Seq(Pages) /\ <<p>> # <<>>
        OBVIOUS
      <4> QED BY <3>2, <4>1, <4>2
    <3> HIDE DEF pages, page
    <3>7. Cardinality(Used(page)) < PerSlab
      BY <3>4, <3>5, FuseTablesAssumption
    <3>8. \A p \in Pages \ {page} : p \in Range(pages) <=> p \in Range(partial)
      BY <3>2, <3>3
    <3> QED BY <3>1, <3>2, <3>3, <3>6, <3>7, <3>8
  <2>2. CASE partial # <<>>
    <3>1. pages = partial
      BY <2>2
    <3>2. pages \in Seq(Pages) /\ pages # <<>> /\ NoRepeats(pages)
      BY <2>2, <3>1 DEF SlabTypes
    <3> HIDE DEF pages
    <3>3. page \in Range(pages)
      BY <3>2, TailOnce
    <3>4. page \in Pages
      BY <3>2
    <3>5. Cardinality(Used(page)) > 0 /\ Cardinality(Used(page)) < PerSlab
      <4> HIDE DEF page
      <4> QED BY <3>1, <3>3, <3>4 DEF SlabsExact
    <3>6. page \notin full
      <4> HIDE DEF page
      <4>1. page \in full <=> Cardinality(Used(page)) = PerSlab
        BY <3>4 DEF SlabsExact
      <4>2. Cardinality(Used(page)) \in 0..PerSlab
        BY PlacesUsed, UsedIs DEF SlabTypes
      <4> QED BY <3>5, <4>1, <4>2
    <3> HIDE DEF page
    <3> QED BY <3>1, <3>2, <3>3, <3>4, <3>5, <3>6
  <2> QED BY <2>1, <2>2
<1> HIDE DEF pages
<1>3. place \in 1..PerSlab /\ place \notin PagesOf(slab, page)
  <2> HIDE DEF page
  <2>1. \E i \in 1..PerSlab : i \notin PagesOf(slab, page)
    BY <1>2, PlacesUsed, UsedIs DEF SlabTypes
  <2>2. \E i \in Places \ Used(page) : TRUE
    BY <2>1, UsedIs DEF Places
  <2>3. place \in Places \ Used(page)
    BY <2>2
  <2> QED BY <2>3, UsedIs DEF Places
<1>4. /\ Tail(pages) \in Seq(Pages) /\ NoRepeats(Tail(pages)) /\ Range(Tail(pages)) = Range(pages) \ {page}
  BY <1>2, TailOnce
<1> HIDE DEF page, place
<1>5. Cardinality(Used(page)) = Cardinality(PagesOf(slab, page))
  BY UsedIs
<1>6. /\ \A p \in Pages \ {page} : (p \in Range(partial') <=> p \in Range(partial)) /\ (p \in full' <=> p \in full)
      /\ page \in full' <=> Cardinality(PagesOf(slab, page)) = PerSlab - 1
      /\ page \in Range(partial') <=> Cardinality(PagesOf(slab, page)) # PerSlab - 1
  <2>1. CASE last
    <3>1. partial' = Tail(pages) /\ full' = full \cup {page}
      BY <1>1, <2>1
    <3> QED BY <1>2, <1>4, <1>5, <2>1, <3>1
  <2>2. CASE ~last
    <3>1. partial' = pages /\ full' = full
      BY <1>1, <2>2
    <3> QED BY <1>2, <1>5, <2>2, <3>1
  <2> QED BY <2>1, <2>2
<1>7. slab \in [DOMAIN slab -> Pages \X (1..PerSlab)] /\ ExactFor(slab, Range(partial), full) /\ page \in Pages
  BY <1>2, ExactIs DEF SlabTypes
<1>8. slab' = [m \in DOMAIN slab \cup {n} |-> IF m = n THEN <<page, place>> ELSE slab[m]]
  BY <1>1
<1>9. slab' \in [DOMAIN slab' -> Pages \X (1..PerSlab)] /\ ExactFor(slab', Range(partial'), full')
  BY <1>3, <1>6, <1>7, <1>8, AllocExact
<1>10. DOMAIN slab' = DOMAIN slab \cup {n}
  BY <1>1
<1>11. Cardinality(DOMAIN slab') <= MaxNodes
  <2>1. IsFiniteSet(DOMAIN slab) /\ Cardinality(DOMAIN slab) \in Nat
    BY NodesFinite DEF SlabTypes
  <2>2. Cardinality(DOMAIN slab') = Cardinality(DOMAIN slab) + 1
    BY <1>10, <2>1, FS_AddElement
  <2> QED BY <2>1, <2>2, FuseTablesAssumption
<1>12. partial' \in Seq(Pages) /\ NoRepeats(partial') /\ full' \subseteq Pages
  BY <1>1, <1>2, <1>4 DEF SlabTypes
<1>13. SlabTypes'
  BY <1>9, <1>10, <1>11, <1>12 DEF SlabTypes
<1> QED BY <1>9, <1>10, <1>13, ExactIs

LEMMA FreeKeeps ==
  ASSUME SlabTypes, SlabsExact, NEW n \in DOMAIN slab, n # RootId, FreeNodeMem(n)
  PROVE  SlabTypes' /\ SlabsExact' /\ DOMAIN slab' = DOMAIN slab \ {n}
<1> DEFINE page == slab[n][1]
           left == Cardinality(Used(page)) - 1
<1>1. /\ slab' = [m \in DOMAIN slab \ {n} |-> slab[m]]
      /\ partial' = IF left = 0 THEN Without(page)
                    ELSE IF page \in full THEN Append(partial, page) ELSE partial
      /\ full' = full \ {page}
  BY DEF FreeNodeMem
<1>2. page \in Pages
  BY DEF SlabTypes
<1> HIDE DEF page
<1>3. /\ page \in Range(partial) <=> (Cardinality(Used(page)) > 0 /\ Cardinality(Used(page)) < PerSlab)
      /\ page \in full <=> Cardinality(Used(page)) = PerSlab
  BY <1>2 DEF SlabsExact
<1>4. PICK used \in 0..PerSlab : used = Cardinality(Used(page)) /\ used = Cardinality(PagesOf(slab, page)) /\ used > 0
  <2>1. Cardinality(PagesOf(slab, page)) \in 0..PerSlab
    BY PlacesUsed DEF SlabTypes
  <2>2. Cardinality(PagesOf(slab, page)) # 0
    BY PlacesUsed DEF SlabTypes, page
  <2> QED BY <2>1, <2>2, UsedIs
<1>5. Without(page) \in Seq(Pages) /\ NoRepeats(Without(page)) /\ Range(Without(page)) = Range(partial) \ {page}
  BY WithoutOnce DEF SlabTypes
<1>6. page \in full => /\ Append(partial, page) \in Seq(Pages) /\ NoRepeats(Append(partial, page))
                       /\ Range(Append(partial, page)) = Range(partial) \cup {page}
  <2>1. page \in full => page \notin Range(partial)
    BY <1>3, <1>4
  <2> QED BY <1>2, <2>1, AppendOnce DEF SlabTypes
<1>7. /\ \A p \in Pages \ {page} : (p \in Range(partial') <=> p \in Range(partial)) /\ (p \in full' <=> p \in full)
      /\ page \notin full'
      /\ page \in Range(partial') <=> Cardinality(PagesOf(slab, page)) # 1
      /\ partial' \in Seq(Pages) /\ NoRepeats(partial')
  <2>1. CASE left = 0
    <3>1. partial' = Without(page) /\ used = 1
      BY <1>1, <1>4, <2>1
    <3> QED BY <1>1, <1>4, <1>5, <3>1
  <2>2. CASE left # 0 /\ page \in full
    <3>1. partial' = Append(partial, page) /\ used # 1
      BY <1>1, <1>4, <2>2
    <3> QED BY <1>1, <1>4, <1>6, <2>2, <3>1
  <2>3. CASE left # 0 /\ page \notin full
    <3>0. partial' = partial /\ used # 1
      BY <1>1, <1>4, <2>3
    <3>1. used # PerSlab /\ used < PerSlab
      BY <1>3, <1>4, <2>3, FuseTablesAssumption
    <3>2. page \in Range(partial)
      BY <1>3, <1>4, <3>1
    <3> QED BY <1>1, <1>4, <3>0, <3>2 DEF SlabTypes
  <2> QED BY <2>1, <2>2, <2>3
<1>8. slab \in [DOMAIN slab -> Pages \X (1..PerSlab)] /\ ExactFor(slab, Range(partial), full) /\ page = slab[n][1]
  BY ExactIs DEF SlabTypes, page
<1>9. slab' \in [DOMAIN slab' -> Pages \X (1..PerSlab)] /\ ExactFor(slab', Range(partial'), full')
  <2>1. slab' = [m \in DOMAIN slab \ {n} |-> slab[m]]
    BY <1>1
  <2>2. /\ \A p \in Pages \ {page} : (p \in Range(partial') <=> p \in Range(partial)) /\ (p \in full' <=> p \in full)
        /\ page \notin full'
        /\ page \in Range(partial') <=> Cardinality(PagesOf(slab, page)) # 1
    BY <1>7
  <2>3. \A s2 : s2 = [m \in DOMAIN slab \ {n} |-> slab[m]] =>
          s2 \in [DOMAIN s2 -> Pages \X (1..PerSlab)] /\ ExactFor(s2, Range(partial'), full')
    BY <1>8, <2>2, FreeExact
  <2> QED BY <2>1, <2>3
<1>10. DOMAIN slab' = DOMAIN slab \ {n}
  BY <1>1
<1>11. Cardinality(DOMAIN slab') <= MaxNodes
  <2>1. IsFiniteSet(DOMAIN slab) /\ Cardinality(DOMAIN slab) \in Nat
    BY NodesFinite DEF SlabTypes
  <2>2. Cardinality(DOMAIN slab') = Cardinality(DOMAIN slab) - 1
    BY <1>10, <2>1, FS_RemoveElement
  <2> QED BY <2>1, <2>2, FuseTablesAssumption DEF SlabTypes
<1>12. SlabTypes'
  BY <1>1, <1>7, <1>9, <1>10, <1>11 DEF SlabTypes
<1> QED BY <1>9, <1>10, <1>12, ExactIs
-----------------------------------------------------------------------------
(***************************************************************************)
(* What holds in every state.                                              *)
(***************************************************************************)
NamesKept == hash \in [DOMAIN hash -> Nat] /\ DOMAIN hash \subseteq DOMAIN slab
Counted == ctr \in 0..Wrap - 1 /\ generation \in Nat
TablesInv ==
  /\ SlabTypes /\ NamesKept /\ Counted /\ SlabsExact
  /\ WellMade(id_table, IdHash, DOMAIN slab) /\ WellMade(name_table, hash, DOMAIN hash)

LEMMA IdHashIs ==
  ASSUME NEW n \in IdRange
  PROVE  IdHash[n] \in Nat
<1>1. n * Factor \in Nat /\ Wrap \in Nat /\ Wrap > 0
  BY FuseTablesAssumption DEF IdRange
<1>2. PICK a \in Nat : a = n * Factor
  BY <1>1
<1>3. a % Wrap \in 0..Wrap - 1
  BY <1>1, Division
<1>4. IdHash[n] = a % Wrap
  BY <1>2 DEF IdHash
<1> QED BY <1>3, <1>4

LEMMA AfterIs ==
  ASSUME ctr \in 0..Wrap - 1, NEW k \in 1..Wrap
  PROVE  After(k) = IF ctr + k < Wrap THEN ctr + k ELSE ctr + k - Wrap
<1>1. PICK w \in Nat : w = Wrap /\ w > 0
  BY FuseTablesAssumption
<1>2. PICK a \in Nat : a = ctr + k /\ a < 2 * w
  BY <1>1
<1>3. a % w = IF a < w THEN a ELSE a - w
  BY <1>1, <1>2, Below
<1>4. After(k) = a % w
  BY <1>1, <1>2 DEF After
<1> QED BY <1>1, <1>2, <1>3, <1>4

(* There is an id that nobody has, and the counter comes to it.            *)
LEMMA NextIsFree ==
  ASSUME TablesInv, Cardinality(DOMAIN slab) < MaxNodes
  PROVE  Passed \in 1..Wrap /\ After(Passed) \in IdRange /\ After(Passed) \notin DOMAIN slab
<1>1. IsFiniteSet(DOMAIN slab) /\ Cardinality(DOMAIN slab) \in Nat /\ DOMAIN slab \subseteq IdRange
  BY NodesFinite DEF TablesInv, SlabTypes
<1>2. IsFiniteSet(IdRange) /\ Cardinality(IdRange) = Wrap - 2
  <2>1. 1 \in Int /\ Wrap - 2 \in Int /\ Wrap - 2 >= 1
    BY FuseTablesAssumption
  <2> QED BY <2>1, FS_Interval DEF IdRange
<1>3. DOMAIN slab # IdRange
  BY <1>1, <1>2, FuseTablesAssumption
<1>4. PICK id \in IdRange : id \notin DOMAIN slab
  BY <1>1, <1>3
<1>5. ASSUME NEW n \in IdRange PROVE GetNodeNocheck(n) <=> n \in DOMAIN slab
  <2>1. \A m \in DOMAIN slab : IdHash[m] \in Nat
    BY <1>1, IdHashIs
  <2>2. PICK half \in Nat :
          /\ half > 0 /\ id_table.size = 2 * half /\ id_table.size \div 2 = half
          /\ id_table.split \in 0..half /\ id_table.use = Cardinality(DOMAIN slab) /\ id_table.use \in Nat
          /\ id_table.array \in Chains(2 * half) /\ InBuckets(id_table.array, half, id_table.split, IdHash, DOMAIN slab)
          /\ half >= MinSize => Sized(half)
    BY <2>1, Parts DEF TablesInv
  <2>3. Bucket(id_table, IdHash[n]) = At(n, IdHash, half, id_table.split)
    <3>1. IdHash[n] \in Nat /\ id_table.split \in Nat
      BY <2>2, IdHashIs
    <3> QED BY <2>2, <3>1, BucketIs DEF At
  <2>4. At(n, IdHash, half, id_table.split) \in 0..2 * half - 1
    <3>1. PICK m \in 0..2 * half - 1 : m = IdHash[n] % (2 * half)
      BY <2>2, IdHashIs, Remainder
    <3>2. Where(m, half, id_table.split) \in 0..half + id_table.split - 1
      BY <2>2, WhereIn
    <3> QED BY <2>2, <3>1, <3>2 DEF At
  <2> QED BY <2>2, <2>3, <2>4 DEF GetNodeNocheck, InBuckets
<1>6. PICK c \in 0..Wrap - 1 : c = ctr
  BY DEF TablesInv, Counted
<1>7. Wrap \in Nat /\ Wrap > 3
  BY FuseTablesAssumption
<1>8. ASSUME NEW k \in 1..Wrap PROVE After(k) = IF c + k < Wrap THEN c + k ELSE c + k - Wrap
  <2>1. ctr \in 0..Wrap - 1
    BY DEF TablesInv, Counted
  <2> QED BY <1>6, <2>1, AfterIs
<1> DEFINE Is(k) == /\ After(k) \in IdRange /\ ~GetNodeNocheck(After(k))
                    /\ \A j \in 1..k - 1 : After(j) \in IdRange => GetNodeNocheck(After(j))
           Free == {k \in 1..Wrap : After(k) \in IdRange /\ ~GetNodeNocheck(After(k))}
<1>9. Free # {}
  <2> DEFINE k == IF id > c THEN id - c ELSE id - c + Wrap
  <2>1. id \in 1..Wrap - 2
    BY DEF IdRange
  <2>2. k \in 1..Wrap /\ (IF c + k < Wrap THEN c + k ELSE c + k - Wrap) = id
    BY <1>7, <2>1
  <2>3. After(k) = id
    <3> HIDE DEF k
    <3> QED BY <1>8, <2>2
  <2>4. ~GetNodeNocheck(After(k))
    BY <1>4, <1>5, <2>3
  <2>5. k \in Free
    BY <2>2, <2>3, <2>4
  <2> QED BY <2>5
<1>10. \E k \in 1..Wrap : Is(k)
  <2>1. Free \subseteq Nat
    OBVIOUS
  <2>2. PICK k \in Free : \A j \in Free : k <= j
    <3> HIDE DEF Free
    <3> QED BY <1>9, <2>1, Least
  <2>3. ASSUME NEW j \in 1..k - 1, After(j) \in IdRange PROVE GetNodeNocheck(After(j))
    <3>1. k \in 1..Wrap
      BY <2>2
    <3>2. j \in 1..Wrap /\ ~(k <= j)
      BY <1>7, <3>1
    <3> QED BY <2>2, <2>3, <3>2
  <2>4. Is(k)
    BY <2>3
  <2> QED BY <2>4
<1>11. Passed \in 1..Wrap /\ Is(Passed)
  <2>1. Passed = CHOOSE k \in 1..Wrap : Is(k)
    BY DEF Passed
  <2> HIDE DEF Is
  <2> QED BY <1>10, <2>1
<1> QED BY <1>5, <1>11

LEMMA NextIdCounts ==
  ASSUME TablesInv, Cardinality(DOMAIN slab) < MaxNodes, NextId
  PROVE  Counted' /\ Stamp(ctr', generation') > Stamp(ctr, generation) /\ ctr' = After(Passed)
<1>1. PICK k \in 1..Wrap : k = Passed
  BY NextIsFree
<1>2. PICK c \in 0..Wrap - 1, g \in Nat : c = ctr /\ g = generation
  BY DEF TablesInv, Counted
<1>3. Wrap \in Nat /\ Wrap > 3
  BY FuseTablesAssumption
<1>4. PICK a \in Nat : a = c + k /\ a < 2 * Wrap /\ a > c /\ a <= c + Wrap
  BY <1>3
<1>5. After(k) = IF a < Wrap THEN a ELSE a - Wrap
  <2>1. ctr \in 0..Wrap - 1
    BY DEF TablesInv, Counted
  <2>2. PICK x : x = After(k)
    OBVIOUS
  <2>3. x = IF ctr + k < Wrap THEN ctr + k ELSE ctr + k - Wrap
    BY <2>1, <2>2, AfterIs
  <2>4. x = IF a < Wrap THEN a ELSE a - Wrap
    BY <1>2, <1>3, <1>4, <2>3
  <2> QED BY <2>2, <2>4
<1>6. ctr' = After(k) /\ generation' = g + (IF a >= Wrap THEN 1 ELSE 0)
  BY <1>1, <1>2, <1>4 DEF NextId
<1>7. PICK x \in Nat : x = g * Wrap
  BY <1>3
<1>8. (g + 1) * Wrap = x + Wrap
  BY <1>3, <1>7
<1>9. CASE a < Wrap
  <2>1. ctr' = a /\ generation' = g
    BY <1>3, <1>5, <1>6, <1>9
  <2>2. x + a > x + c
    BY <1>4
  <2>3. Stamp(ctr', generation') = x + a /\ Stamp(ctr, generation) = x + c
    BY <1>2, <1>7, <2>1 DEF Stamp
  <2>4. a \in 0..Wrap - 1
    BY <1>3, <1>4, <1>9
  <2>5. ctr' = After(Passed)
    BY <1>1, <1>6
  <2> QED BY <2>1, <2>2, <2>3, <2>4, <2>5 DEF Counted
<1>10. CASE a >= Wrap
  <2>1. ctr' = a - Wrap /\ generation' = g + 1
    BY <1>3, <1>5, <1>6, <1>10
  <2>2. a - Wrap \in 0..Wrap - 1 /\ x + Wrap + (a - Wrap) > x + c
    BY <1>3, <1>4, <1>10
  <2>3. Stamp(ctr', generation') = x + Wrap + (a - Wrap) /\ Stamp(ctr, generation) = x + c
    BY <1>2, <1>7, <1>8, <2>1 DEF Stamp
  <2> QED BY <1>1, <1>6, <2>1, <2>2, <2>3 DEF Counted
<1> QED BY <1>3, <1>4, <1>9, <1>10

LEMMA TableMade ==
  ASSUME NEW h
  PROVE  WellMade(Table, h, {})
<1>1. Sized(MinSize)
  BY SizedMin
<1>2. PICK half \in Nat : half > 0 /\ MinSize = 2 * half /\ MinSize \div 2 = half
  BY <1>1, SizedHalf
<1> DEFINE array == [i \in 0..2 * half - 1 |-> {}]
<1>3. array \in Chains(2 * half) /\ InBuckets(array, half, 0, h, {})
  BY DEF Chains, InBuckets
<1>4. Table = [size |-> 2 * half, split |-> 0, use |-> Cardinality({}), array |-> array]
  BY <1>2, FS_EmptySet DEF Table
<1>5. Sized(2 * half) /\ 0 \in 0..half /\ Cardinality({}) \in Nat
  BY <1>1, <1>2, FS_EmptySet
<1>6. \A n \in {} : h[n] \in Nat
  OBVIOUS
<1> HIDE DEF array
<1> QED BY <1>2, <1>3, <1>4, <1>5, <1>6, Assembled

LEMMA TablesInitInv == TablesInit => TablesInv
<1> SUFFICES ASSUME TablesInit PROVE TablesInv
  OBVIOUS
<1>1. RootId \in IdRange /\ 1 \in Pages /\ 1 \in 1..PerSlab /\ Wrap \in Nat /\ Wrap > 3
  BY FuseTablesAssumption DEF RootId, IdRange, Pages
<1>2. DOMAIN slab = {RootId} /\ slab[RootId] = <<1, 1>> /\ slab \in [DOMAIN slab -> Pages \X (1..PerSlab)]
  <2>1. slab = [n \in {RootId} |-> <<1, 1>>]
    BY DEF TablesInit
  <2> QED BY <1>1, <2>1
<1>3. SlabTypes
  <2>1. Cardinality(DOMAIN slab) = 1
    BY <1>2, FS_Singleton
  <2>2. partial \in Seq(Pages) /\ NoRepeats(partial)
    <3>1. CASE PerSlab = 1
      <4>1. partial = <<>>
        BY <3>1 DEF TablesInit
      <4> QED BY <4>1 DEF NoRepeats
    <3>2. CASE PerSlab # 1
      <4>1. partial = <<1>>
        BY <3>2 DEF TablesInit
      <4> QED BY <1>1, <4>1 DEF NoRepeats
    <3> QED BY <3>1, <3>2
  <2>3. full \subseteq Pages
    BY <1>1 DEF TablesInit
  <2> QED BY <1>1, <1>2, <2>1, <2>2, <2>3, FuseTablesAssumption DEF SlabTypes
<1>4. SlabsExact
  <2>1. ASSUME NEW p \in Pages PROVE PagesOf(slab, p) = IF p = 1 THEN {1} ELSE {}
    BY <1>2 DEF PagesOf
  <2>2. ASSUME NEW p \in Pages PROVE Cardinality(PagesOf(slab, p)) = IF p = 1 THEN 1 ELSE 0
    <3>1. Cardinality({1}) = 1 /\ Cardinality({}) = 0
      BY FS_Singleton, FS_EmptySet
    <3> QED BY <2>1, <3>1
  <2>3. Range(partial) = IF PerSlab = 1 THEN {} ELSE {1}
    <3>1. CASE PerSlab = 1
      <4>1. partial = <<>>
        BY <3>1 DEF TablesInit
      <4> QED BY <3>1, <4>1 DEF Range
    <3>2. CASE PerSlab # 1
      <4>1. partial = <<1>>
        BY <3>2 DEF TablesInit
      <4> QED BY <3>2, <4>1 DEF Range
    <3> QED BY <3>1, <3>2
  <2>4. full = IF PerSlab = 1 THEN {1} ELSE {}
    BY DEF TablesInit
  <2>5. ASSUME NEW p \in Pages
        PROVE  /\ p \in Range(partial) <=> (Cardinality(PagesOf(slab, p)) > 0 /\ Cardinality(PagesOf(slab, p)) < PerSlab)
               /\ p \in full <=> Cardinality(PagesOf(slab, p)) = PerSlab
    BY <2>2, <2>3, <2>4, FuseTablesAssumption
  <2>6. \A n, m \in DOMAIN slab : slab[n] = slab[m] => n = m
    BY <1>2
  <2>7. ExactFor(slab, Range(partial), full)
    BY <2>5, <2>6 DEF ExactFor
  <2> QED BY <2>7, ExactIs
<1>5. WellMade(id_table, IdHash, DOMAIN slab)
  <2>1. WellMade(Table, IdHash, {}) /\ IsFiniteSet({}) /\ {} \cup {RootId} = DOMAIN slab
    BY <1>2, TableMade, FS_EmptySet
  <2>2. id_table \in Hash(Table, RootId, IdHash)
    BY DEF TablesInit
  <2>3. \A m \in {} \cup {RootId} : IdHash[m] \in Nat
    BY <1>1, IdHashIs
  <2>4. WellMade(id_table, IdHash, {} \cup {RootId})
    BY <1>1, <2>1, <2>2, <2>3, HashMade
  <2> QED BY <2>1, <2>4
<1>6. hash = <<>> /\ DOMAIN hash = {} /\ name_table = Table
  BY DEF TablesInit
<1>7. WellMade(name_table, hash, DOMAIN hash)
  BY <1>6, TableMade
<1>8. NamesKept /\ Counted
  BY <1>1, <1>6 DEF NamesKept, Counted, TablesInit
<1> QED BY <1>3, <1>4, <1>5, <1>7, <1>8 DEF TablesInv

LEMMA NewNodeInv ==
  ASSUME TablesInv, NEW h \in Hashes, NewNode(h)
  PROVE  TablesInv' /\ Stamp(ctr', generation') > Stamp(ctr, generation)
<1> DEFINE n == After(Passed)
<1>1. Cardinality(DOMAIN slab) < MaxNodes /\ NextId
  BY DEF NewNode
<1>2. n \in IdRange /\ n \notin DOMAIN slab
  BY <1>1, NextIsFree
<1>3. Counted' /\ Stamp(ctr', generation') > Stamp(ctr, generation)
  BY <1>1, NextIdCounts
<1>4. /\ AllocNode(n)
      /\ hash' = [m \in DOMAIN hash \cup {n} |-> IF m = n THEN h ELSE hash[m]]
      /\ name_table' \in Hash(name_table, n, hash')
      /\ id_table' \in Hash(id_table, n, IdHash)
  BY DEF NewNode
<1> HIDE DEF n
<1>5. SlabTypes' /\ SlabsExact' /\ DOMAIN slab' = DOMAIN slab \cup {n}
  BY <1>1, <1>2, <1>4, AllocKeeps DEF TablesInv
<1>6. h \in Nat
  BY FuseTablesAssumption
<1>7. NamesKept' /\ DOMAIN hash' = DOMAIN hash \cup {n} /\ n \notin DOMAIN hash
  BY <1>2, <1>4, <1>5, <1>6 DEF NamesKept, TablesInv
<1>8. DOMAIN hash \subseteq IdRange /\ DOMAIN slab \subseteq IdRange
  BY DEF TablesInv, NamesKept, SlabTypes
<1>9. IsFiniteSet(DOMAIN hash) /\ IsFiniteSet(DOMAIN slab)
  BY <1>8, NodesFinite
<1>10. WellMade(id_table', IdHash, DOMAIN slab')
  <2>1. \A m \in DOMAIN slab \cup {n} : IdHash[m] \in Nat
    BY <1>2, <1>8, IdHashIs
  <2>2. WellMade(id_table, IdHash, DOMAIN slab)
    BY DEF TablesInv
  <2>3. WellMade(id_table', IdHash, DOMAIN slab \cup {n})
    BY <1>2, <1>4, <1>9, <2>1, <2>2, HashMade
  <2> QED BY <1>5, <2>3
<1>11. WellMade(name_table', hash', DOMAIN hash')
  <2>1. \A m \in DOMAIN hash \cup {n} : hash'[m] \in Nat
    BY <1>4, <1>6 DEF TablesInv, NamesKept
  <2>2. \A m \in DOMAIN hash : hash'[m] = hash[m]
    BY <1>4, <1>7
  <2>3. WellMade(name_table, hash, DOMAIN hash)
    BY DEF TablesInv
  <2>4. WellMade(name_table, hash', DOMAIN hash)
    BY <2>2, <2>3, SameHash
  <2>5. WellMade(name_table', hash', DOMAIN hash \cup {n})
    BY <1>2, <1>4, <1>7, <1>9, <2>1, <2>4, HashMade
  <2> QED BY <1>7, <2>5
<1>12. WellMade(id_table, IdHash, DOMAIN slab)' /\ WellMade(name_table, hash, DOMAIN hash)'
  <2>1. IdHash' = IdHash
    BY DEF IdHash, IdRange
  <2> QED BY <1>10, <1>11
<1> QED BY <1>3, <1>5, <1>7, <1>12 DEF TablesInv

(* A node loses its name.                                                  *)
LEMMA Unnamed ==
  ASSUME TablesInv, NEW n \in DOMAIN slab, NameUnhashed(n)
  PROVE  /\ hash' \in [DOMAIN hash' -> Nat] /\ DOMAIN hash' = DOMAIN hash \ {n}
         /\ WellMade(name_table', hash', DOMAIN hash')
<1>1. hash' = [m \in DOMAIN hash \ {n} |-> hash[m]]
  BY DEF NameUnhashed
<1>2. DOMAIN hash' = DOMAIN hash \ {n} /\ hash' \in [DOMAIN hash' -> Nat]
  BY <1>1 DEF TablesInv, NamesKept
<1>3. WellMade(name_table, hash, DOMAIN hash) /\ \A m \in DOMAIN hash : hash[m] \in Nat
  BY DEF TablesInv, NamesKept
<1>4. IsFiniteSet(DOMAIN hash)
  <2>1. DOMAIN hash \subseteq IdRange
    BY DEF TablesInv, NamesKept, SlabTypes
  <2> QED BY <2>1, NodesFinite
<1>5. WellMade(name_table', hash, DOMAIN hash \ {n})
  <2>1. CASE n \in DOMAIN hash
    <3>1. WellMade(Unhash(name_table, n, hash), hash, DOMAIN hash \ {n})
      BY <1>3, <1>4, <2>1, UnhashMade
    <3> QED BY <2>1, <3>1 DEF NameUnhashed
  <2>2. CASE n \notin DOMAIN hash
    <3>1. DOMAIN hash \ {n} = DOMAIN hash /\ name_table' = name_table
      BY <2>2 DEF NameUnhashed
    <3> QED BY <1>3, <3>1
  <2> QED BY <2>1, <2>2
<1>6. \A m \in DOMAIN hash \ {n} : hash'[m] = hash[m]
  BY <1>1
<1>7. WellMade(name_table', hash', DOMAIN hash \ {n})
  BY <1>5, <1>6, SameHash
<1> QED BY <1>2, <1>7

LEMMA TableDeleteInv ==
  ASSUME TablesInv, NEW n \in DOMAIN slab \ {RootId}, TableDelete(n)
  PROVE  TablesInv' /\ DOMAIN slab' \subseteq DOMAIN slab
<1>1. /\ NameUnhashed(n) /\ id_table' = Unhash(id_table, n, IdHash) /\ FreeNodeMem(n)
      /\ ctr' = ctr /\ generation' = generation
  BY DEF TableDelete
<1>2. SlabTypes' /\ SlabsExact' /\ DOMAIN slab' = DOMAIN slab \ {n}
  BY <1>1, FreeKeeps DEF TablesInv
<1>3. /\ hash' \in [DOMAIN hash' -> Nat] /\ DOMAIN hash' = DOMAIN hash \ {n}
      /\ WellMade(name_table', hash', DOMAIN hash')
  BY <1>1, Unnamed
<1>4. NamesKept' /\ Counted'
  <2>1. NamesKept'
    BY <1>2, <1>3 DEF TablesInv, NamesKept
  <2>2. Counted'
    BY <1>1 DEF TablesInv, Counted
  <2> QED BY <2>1, <2>2
<1>5. WellMade(id_table', IdHash, DOMAIN slab')
  <2>1. DOMAIN slab \subseteq IdRange
    BY DEF TablesInv, SlabTypes
  <2>2. IsFiniteSet(DOMAIN slab) /\ \A m \in DOMAIN slab : IdHash[m] \in Nat
    BY <2>1, NodesFinite, IdHashIs
  <2>3. WellMade(id_table, IdHash, DOMAIN slab)
    BY DEF TablesInv
  <2>4. WellMade(Unhash(id_table, n, IdHash), IdHash, DOMAIN slab \ {n})
    BY <2>2, <2>3, UnhashMade
  <2> QED BY <1>1, <1>2, <2>4
<1>6. WellMade(id_table, IdHash, DOMAIN slab)' /\ WellMade(name_table, hash, DOMAIN hash)'
  BY <1>3, <1>5
<1>7. DOMAIN slab' \subseteq DOMAIN slab
  BY <1>2
<1> QED BY <1>2, <1>4, <1>6, <1>7 DEF TablesInv

LEMMA SlabsRest ==
  ASSUME TablesInv, UNCHANGED <<id_table, slab, partial, full, ctr, generation>>,
         hash' \in [DOMAIN hash' -> Nat], DOMAIN hash' \subseteq DOMAIN hash,
         WellMade(name_table', hash', DOMAIN hash')
  PROVE  TablesInv' /\ DOMAIN slab' \subseteq DOMAIN slab
<1>1. SlabTypes' /\ Counted'
  BY DEF TablesInv, SlabTypes, Counted
<1>2. SlabsExact'
  <2>1. ExactFor(slab, Range(partial), full)
    BY ExactIs DEF TablesInv
  <2> QED BY <2>1, ExactIs
<1>3. NamesKept'
  BY DEF TablesInv, NamesKept
<1>4. WellMade(id_table, IdHash, DOMAIN slab)' /\ WellMade(name_table, hash, DOMAIN hash)'
  <2>1. WellMade(id_table, IdHash, DOMAIN slab)
    BY DEF TablesInv
  <2>2. WellMade(id_table', IdHash, DOMAIN slab')
    BY <2>1
  <2> QED BY <2>2
<1> QED BY <1>1, <1>2, <1>3, <1>4 DEF TablesInv

LEMMA TableUnlinkInv ==
  ASSUME TablesInv, NEW n \in DOMAIN slab \ {RootId}, TableUnlink(n)
  PROVE  TablesInv' /\ DOMAIN slab' \subseteq DOMAIN slab
<1>1. NameUnhashed(n) /\ UNCHANGED <<id_table, slab, partial, full, ctr, generation>>
  BY DEF TableUnlink
<1>2. /\ hash' \in [DOMAIN hash' -> Nat] /\ DOMAIN hash' = DOMAIN hash \ {n}
      /\ WellMade(name_table', hash', DOMAIN hash')
  BY <1>1, Unnamed
<1>3. DOMAIN hash' \subseteq DOMAIN hash
  BY <1>2
<1> QED BY <1>1, <1>2, <1>3, SlabsRest

LEMMA TableRenameInv ==
  ASSUME TablesInv, NEW n \in DOMAIN slab \ {RootId}, NEW h \in Hashes, TableRename(n, h)
  PROVE  TablesInv' /\ DOMAIN slab' \subseteq DOMAIN slab
<1>1. /\ n \in DOMAIN hash /\ hash' = [hash EXCEPT ![n] = h]
      /\ name_table' \in Hash(Unhash(name_table, n, hash), n, hash')
      /\ UNCHANGED <<id_table, slab, partial, full, ctr, generation>>
  BY DEF TableRename
<1>2. h \in Nat
  BY FuseTablesAssumption
<1>3. hash \in [DOMAIN hash -> Nat] /\ WellMade(name_table, hash, DOMAIN hash)
  BY DEF TablesInv, NamesKept
<1>4. /\ DOMAIN hash' = DOMAIN hash /\ hash' \in [DOMAIN hash' -> Nat]
      /\ \A m \in DOMAIN hash \ {n} : hash'[m] = hash[m]
  BY <1>1, <1>2, <1>3
<1>5. IsFiniteSet(DOMAIN hash) /\ IsFiniteSet(DOMAIN hash \ {n}) /\ n \in IdRange
  <2>1. DOMAIN hash \subseteq IdRange
    BY DEF TablesInv, NamesKept, SlabTypes
  <2> QED BY <1>1, <2>1, NodesFinite
<1> DEFINE t == Unhash(name_table, n, hash)
<1>6. WellMade(t, hash, DOMAIN hash \ {n})
  <2>1. \A m \in DOMAIN hash : hash[m] \in Nat
    BY <1>3
  <2> QED BY <1>1, <1>3, <1>5, <2>1, UnhashMade
<1> HIDE DEF t
<1>7. WellMade(t, hash', DOMAIN hash \ {n})
  BY <1>4, <1>6, SameHash
<1>8. WellMade(name_table', hash', (DOMAIN hash \ {n}) \cup {n})
  <2>1. name_table' \in Hash(t, n, hash')
    BY <1>1 DEF t
  <2>2. \A m \in (DOMAIN hash \ {n}) \cup {n} : hash'[m] \in Nat
    BY <1>1, <1>4
  <2>3. n \notin DOMAIN hash \ {n}
    OBVIOUS
  <2> QED BY <1>5, <1>7, <2>1, <2>2, <2>3, HashMade
<1>9. (DOMAIN hash \ {n}) \cup {n} = DOMAIN hash'
  BY <1>1, <1>4
<1>10. WellMade(name_table', hash', DOMAIN hash') /\ DOMAIN hash' \subseteq DOMAIN hash
  BY <1>4, <1>8, <1>9
<1> QED BY <1>1, <1>4, <1>10, SlabsRest

LEMMA NewNodeFailsInv ==
  ASSUME TablesInv, NewNodeFails
  PROVE  TablesInv' /\ DOMAIN slab' \subseteq DOMAIN slab
<1>1. Cardinality(DOMAIN slab) < MaxNodes /\ NextId /\ UNCHANGED <<id_table, name_table, hash, slab, partial, full>>
  BY DEF NewNodeFails
<1>2. Counted'
  BY <1>1, NextIdCounts
<1>3. SlabTypes' /\ NamesKept'
  BY <1>1 DEF TablesInv, SlabTypes, NamesKept
<1>4. SlabsExact'
  <2>1. ExactFor(slab, Range(partial), full)
    BY ExactIs DEF TablesInv
  <2> QED BY <1>1, <2>1, ExactIs
<1>5. WellMade(id_table, IdHash, DOMAIN slab)' /\ WellMade(name_table, hash, DOMAIN hash)'
  <2>1. WellMade(id_table, IdHash, DOMAIN slab) /\ WellMade(name_table, hash, DOMAIN hash)
    BY DEF TablesInv
  <2>2. WellMade(id_table', IdHash, DOMAIN slab') /\ WellMade(name_table', hash', DOMAIN hash')
    BY <1>1, <2>1
  <2> QED BY <2>2
<1>6. DOMAIN slab' \subseteq DOMAIN slab
  BY <1>1
<1> QED BY <1>2, <1>3, <1>4, <1>5, <1>6 DEF TablesInv

(* A step gives nobody an id, or a later one.                              *)
Later == DOMAIN slab' \ DOMAIN slab # {} => Stamp(ctr', generation') > Stamp(ctr, generation)

LEMMA TablesNextInv ==
  ASSUME TablesInv, [TablesNext]_tables
  PROVE  TablesInv' /\ (UNCHANGED tables \/ Later)
<1>1. CASE UNCHANGED tables
  <2>1. UNCHANGED <<id_table, slab, partial, full, ctr, generation>> /\ name_table' = name_table /\ hash' = hash
    BY <1>1 DEF tables
  <2>2. /\ hash' \in [DOMAIN hash' -> Nat] /\ DOMAIN hash' \subseteq DOMAIN hash
        /\ WellMade(name_table', hash', DOMAIN hash')
    BY <2>1 DEF TablesInv, NamesKept
  <2> QED BY <1>1, <2>1, <2>2, SlabsRest
<1>2. ASSUME NEW h \in Hashes, NewNode(h) PROVE TablesInv' /\ Later
  BY <1>2, NewNodeInv DEF Later
<1>3. CASE NewNodeFails
  BY <1>3, NewNodeFailsInv DEF Later
<1>4. ASSUME NEW n \in DOMAIN slab \ {RootId}, TableDelete(n) PROVE TablesInv' /\ Later
  BY <1>4, TableDeleteInv DEF Later
<1>5. ASSUME NEW n \in DOMAIN slab \ {RootId}, TableUnlink(n) PROVE TablesInv' /\ Later
  BY <1>5, TableUnlinkInv DEF Later
<1>6. ASSUME NEW n \in DOMAIN slab \ {RootId}, NEW h \in Hashes, TableRename(n, h) PROVE TablesInv' /\ Later
  BY <1>6, TableRenameInv DEF Later
<1> QED BY <1>1, <1>2, <1>3, <1>4, <1>5, <1>6 DEF TablesNext

LEMMA TablesInvAlways == TablesSpec => []TablesInv
<1>1. TablesInv /\ [TablesNext]_tables => TablesInv'
  BY TablesNextInv
<1> QED BY <1>1, TablesInitInv, PTL DEF TablesSpec

(***************************************************************************)
(* However often the tables double and halve, and whatever ids, names and  *)
(* pages come and go: each node is in the bucket in which it is looked     *)
(* for, and in a place of its own that its page counts (rehash_id,         *)
(* remerge_id, alloc_node, free_node_mem).                                 *)
(***************************************************************************)
THEOREM TablesStaySound == TablesSpec => []TablesSound
<1>1. TablesInv => TablesSound
  BY DEF TablesInv, WellMade, TablesSound, Findable
<1> QED BY <1>1, TablesInvAlways, PTL

(***************************************************************************)
(* Who gets an id from next_id has it with a later generation than anybody *)
(* before him, also when ids have wrapped around.                          *)
(***************************************************************************)
THEOREM IdsOnlyOnce == TablesSpec => IdsNeverReturn
<1>1. TablesInv /\ [TablesNext]_tables => [Later]_tables
  BY TablesNextInv
<1>2. Later <=> (DOMAIN slab' \ DOMAIN slab # {} => Stamp(ctr', generation') > Stamp(ctr, generation))
  BY DEF Later
<1> QED BY <1>1, <1>2, TablesInvAlways, PTL DEF TablesSpec, IdsNeverReturn
=============================================================================
