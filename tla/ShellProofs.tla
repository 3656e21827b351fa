------------------------------ MODULE ShellProofs ------------------------------
(***************************************************************************)
(* Proofs about Shell: for any number of children and any length of the    *)
(* process list, the list agrees with the kernel, the terminal is handed   *)
(* back, and no wait ends too early.                                       *)
(***************************************************************************)
EXTENDS ShellProps, FiniteSetTheorems, SequenceTheorems, TLAPS

-----------------------------------------------------------------------------
(***************************************************************************)
(* The process list: finding an entry, changing a field of it.             *)
(***************************************************************************)

\* A list is a sequence of entries.
LEMMA ListShape ==
  ASSUME NEW l \in Seq(Entry)
  PROVE  /\ Len(l) \in Nat /\ DOMAIN l = 1 .. Len(l)
         /\ \A i \in DOMAIN l : l[i] \in Entry
BY LenProperties, ElementOfSeq

\* A set of numbers that is not empty has a least member.
LEMMA LeastMember ==
  ASSUME NEW S \in SUBSET Nat, S # {}
  PROVE  Min(S) \in S /\ \A k \in S : Min(S) <= k
<1>1. PICK m \in S : \A k \in S : ~(<<k, m>> \in OpToRel(<, Nat))
  BY NatLessThanWellFounded, WFMin
<1>2. ASSUME NEW k \in S PROVE m <= k
  <2>1. k \in Nat /\ m \in Nat
    OBVIOUS
  <2>2. ~(k < m)
    BY <1>1, <2>1 DEF OpToRel
  <2> QED  BY <2>1, <2>2
<1> QED  BY <1>2 DEF Min

\* The first entry with a number.
LEMMA FirstWithPid ==
  ASSUME NEW l \in Seq(Entry), NEW p
  PROVE  \/ WithPid(l, p) = 0 /\ \A j \in DOMAIN l : l[j].pid # p
         \/ /\ WithPid(l, p) \in DOMAIN l /\ WithPid(l, p) # 0
            /\ l[WithPid(l, p)].pid = p
            /\ \A j \in DOMAIN l : l[j].pid = p => WithPid(l, p) <= j
<1> DEFINE I == {i \in 1 .. Len(l) : l[i].pid = p}
<1>1. WithPid(l, p) = IF I # {} THEN Min(I) ELSE 0
  BY DEF WithPid, SelectInSeq
<1>2. DOMAIN l = 1 .. Len(l) /\ Len(l) \in Nat
  BY ListShape
<1>3. CASE I = {}
  BY <1>1, <1>2, <1>3
<1>4. CASE I # {}
  <2>1. I \in SUBSET Nat
    BY <1>2
  <2>2. Min(I) \in I /\ \A k \in I : Min(I) <= k
    BY <1>4, <2>1, LeastMember
  <2> QED  BY <1>1, <1>2, <1>4, <2>2
<1> QED  BY <1>3, <1>4

\* u is l with the fields other than pid, argv changed in places.
Alike(l, u) ==
  /\ u \in Seq(Entry) /\ Len(u) = Len(l) /\ DOMAIN u = DOMAIN l
  /\ \A j \in DOMAIN l : u[j].argv = l[j].argv /\ u[j].pid = l[j].pid

\* u is l with one field of one entry changed.
Changed(l, i, f, v, u) ==
  /\ u \in Seq(Entry) /\ Len(u) = Len(l) /\ DOMAIN u = DOMAIN l
  /\ \A j \in DOMAIN l : u[j] = IF j = i THEN [l[j] EXCEPT ![f] = v] ELSE l[j]

\* Changing a field of an entry, or of first_process, which is not in l.
LEMMA SetShape ==
  ASSUME NEW l \in Seq(Entry), NEW i \in 0 .. Len(l), NEW f, NEW v,
         \A e \in Entry : [e EXCEPT ![f] = v] \in Entry
  PROVE  Changed(l, i, f, v, Set(l, i, f, v))
<1>1. /\ Len(l) \in Nat /\ DOMAIN l = 1 .. Len(l) /\ \A j \in DOMAIN l : l[j] \in Entry
  BY ListShape
<1>2. CASE i = 0
  BY <1>1, <1>2 DEF Set, Changed
<1>3. CASE i # 0
  <2>1. i \in 1 .. Len(l) /\ [l[i] EXCEPT ![f] = v] \in Entry
    BY <1>1, <1>3
  <2>2. Set(l, i, f, v) = [l EXCEPT ![i] = [l[i] EXCEPT ![f] = v]]
    BY <1>3 DEF Set
  <2>3. Set(l, i, f, v) \in Seq(Entry)
    BY <2>1, <2>2, ExceptSeq
  <2>4. Len(Set(l, i, f, v)) = Len(l) /\ DOMAIN Set(l, i, f, v) = DOMAIN l
    BY <1>1, <2>2, <2>3, LenProperties
  <2>5. \A j \in DOMAIN l :
          Set(l, i, f, v)[j] = IF j = i THEN [l[j] EXCEPT ![f] = v] ELSE l[j]
    BY <1>1, <2>1, <2>2
  <2> QED  BY <2>3, <2>4, <2>5 DEF Changed
<1> QED  BY <1>2, <1>3

LEMMA SetStopped ==
  ASSUME NEW l \in Seq(Entry), NEW i \in 0 .. Len(l), NEW v \in BOOLEAN,
         NEW u, u = Set(l, i, "stopped", v)
  PROVE  /\ Alike(l, u)
         /\ \A j \in DOMAIN l : /\ u[j].completed <=> l[j].completed
                                /\ u[j].stopped <=> (j = i /\ v) \/ (j # i /\ l[j].stopped)
<1>1. \A e \in Entry : [e EXCEPT !["stopped"] = v] \in Entry
  BY DEF Entry
<1>2. Changed(l, i, "stopped", v, u)
  BY <1>1, SetShape
<1>3. \A j \in DOMAIN l : /\ u[j].argv = l[j].argv /\ u[j].pid = l[j].pid
                           /\ u[j].completed = l[j].completed
                           /\ u[j].stopped = IF j = i THEN v ELSE l[j].stopped
  BY <1>2, ListShape DEF Changed, Entry
<1> QED  BY <1>2, <1>3 DEF Changed, Alike

\* u is l with the flag completed of one entry changed.
Marked(l, i, v, u) ==
  /\ Alike(l, u)
  /\ \A j \in DOMAIN l : /\ u[j].stopped <=> l[j].stopped
                         /\ u[j].completed <=> (j = i /\ v) \/ (j # i /\ l[j].completed)

LEMMA SetCompleted ==
  ASSUME NEW l \in Seq(Entry), NEW i \in 0 .. Len(l), NEW v \in BOOLEAN,
         NEW u, u = Set(l, i, "completed", v)
  PROVE  Marked(l, i, v, u)
<1>1. \A e \in Entry : [e EXCEPT !["completed"] = v] \in Entry
  BY DEF Entry
<1>2. Changed(l, i, "completed", v, u)
  BY <1>1, SetShape
<1>3. \A j \in DOMAIN l : /\ u[j].argv = l[j].argv /\ u[j].pid = l[j].pid
                           /\ u[j].stopped = l[j].stopped
                           /\ u[j].completed = IF j = i THEN v ELSE l[j].completed
  BY <1>2, ListShape, ZenonT(60) DEF Changed, Entry
<1> QED  BY <1>2, <1>3 DEF Changed, Alike, Marked

LEMMA SetBackground ==
  ASSUME NEW l \in Seq(Entry), NEW i \in 0 .. Len(l), NEW v \in BOOLEAN,
         NEW u, u = Set(l, i, "background", v)
  PROVE  /\ Alike(l, u)
         /\ \A j \in DOMAIN l : /\ u[j].completed <=> l[j].completed
                                /\ u[j].stopped <=> l[j].stopped
<1>1. \A e \in Entry : [e EXCEPT !["background"] = v] \in Entry
  BY DEF Entry
<1>2. Changed(l, i, "background", v, u)
  BY <1>1, SetShape
<1>3. \A j \in DOMAIN l : /\ u[j].argv = l[j].argv /\ u[j].pid = l[j].pid
                           /\ u[j].completed = l[j].completed
                           /\ u[j].stopped = l[j].stopped
  BY <1>2, ListShape DEF Changed, Entry
<1> QED  BY <1>2, <1>3 DEF Changed, Alike

\* u is l with the number of one entry set.
Numbered(l, i, p, u) ==
  /\ u \in Seq(Entry) /\ Len(u) = Len(l) /\ DOMAIN u = DOMAIN l
  /\ \A j \in DOMAIN l : /\ u[j].argv = l[j].argv
                         /\ u[j].completed <=> l[j].completed
                         /\ u[j].stopped <=> l[j].stopped
                         /\ u[j].pid = IF j = i THEN p ELSE l[j].pid

LEMMA SetPid ==
  ASSUME NEW l \in Seq(Entry), NEW i \in DOMAIN l, NEW p \in Pids,
         NEW u, u = Set(l, i, "pid", p)
  PROVE  Numbered(l, i, p, u)
<1>1. \A e \in Entry : [e EXCEPT !["pid"] = p] \in Entry
  BY DEF Entry
<1>2. i \in 0 .. Len(l)
  BY ListShape
<1>3. Changed(l, i, "pid", p, u)
  BY <1>1, <1>2, SetShape
<1>4. \A j \in DOMAIN l : /\ u[j].argv = l[j].argv
                           /\ u[j].completed = l[j].completed
                           /\ u[j].stopped = l[j].stopped
                           /\ u[j].pid = IF j = i THEN p ELSE l[j].pid
  BY <1>3, ListShape DEF Changed, Entry
<1> QED  BY <1>3, <1>4 DEF Changed, Numbered

-----------------------------------------------------------------------------
(***************************************************************************)
(* The purge of the list.                                                  *)
(***************************************************************************)

\* Among those that are kept, an entry's place is before that of a later one.
LEMMA PlacesDiffer ==
  ASSUME NEW l \in Seq(Entry), NEW i \in Kept(l), NEW j \in Kept(l)
  PROVE  /\ Place(l, i) \in 1 .. Cardinality(Kept(l))
         /\ i < j => Place(l, i) < Place(l, j)
<1>1. DOMAIN l = 1 .. Len(l) /\ Len(l) \in Nat /\ Kept(l) \in SUBSET (1 .. Len(l))
  BY ListShape DEF Kept
<1>2. IsFiniteSet(Kept(l))
  <2>1. 1 \in Int /\ Len(l) \in Int
    BY <1>1
  <2>2. IsFiniteSet(1 .. Len(l))
    BY <2>1, FS_Interval
  <2> QED  BY <1>1, <2>2, FS_Subset
<1> DEFINE UpTo(m) == {k \in Kept(l) : k <= m}
<1>3. IsFiniteSet(UpTo(i)) /\ IsFiniteSet(UpTo(j)) /\ Cardinality(UpTo(i)) <= Cardinality(Kept(l))
  BY <1>2, FS_Subset
<1>4. Cardinality(UpTo(i)) \in Nat /\ Cardinality(UpTo(j)) \in Nat /\ Cardinality(Kept(l)) \in Nat
  BY <1>2, <1>3, FS_CardinalityType
<1>5. Cardinality(UpTo(i)) # 0
  <2>1. i \in UpTo(i)
    BY <1>1
  <2> QED  BY <1>3, <2>1, FS_EmptySet
<1>6. ASSUME i < j PROVE Cardinality(UpTo(i)) < Cardinality(UpTo(j))
  <2>1. i \in Nat /\ j \in Nat /\ \A k \in Kept(l) : k \in Nat
    BY <1>1
  <2>2. UpTo(i) \in SUBSET UpTo(j) /\ j \in UpTo(j) /\ j \notin UpTo(i)
    <3>1. \A k \in Kept(l) : k <= i => k <= j
      BY <1>6, <2>1
    <3>2. j <= j /\ ~(j <= i)
      BY <1>6, <2>1
    <3> QED  BY <3>1, <3>2
  <2>3. Cardinality(UpTo(i)) <= Cardinality(UpTo(j)) /\ Cardinality(UpTo(i)) # Cardinality(UpTo(j))
    BY <1>3, <2>2, FS_Subset
  <2> QED  BY <1>4, <2>3
<1>7. Place(l, i) = Cardinality(UpTo(i)) /\ Place(l, j) = Cardinality(UpTo(j))
  BY DEF Place
<1> QED  BY <1>3, <1>4, <1>5, <1>6, <1>7

\* h says which entries of l those of u are: the ones that are not completed.
Purged(l, u, h) ==
  /\ u \in Seq(Entry) /\ DOMAIN u = 1 .. Len(u) /\ h \in [DOMAIN u -> Kept(l)]
  /\ \A k \in DOMAIN u : u[k] = l[h[k]]
  /\ \A k, m \in DOMAIN u : h[k] < h[m] => k < m
  /\ \A k, m \in DOMAIN u : h[k] = h[m] => k = m
  /\ \A i \in Kept(l) : \E k \in DOMAIN u : h[k] = i

LEMMA PurgeShape ==
  ASSUME NEW l \in Seq(Entry)
  PROVE  \E h : Purged(l, Purge(l), h)
<1> DEFINE C == Cardinality(Kept(l))
           r == [i \in Kept(l) |-> Place(l, i)]
           h == [k \in 1 .. C |-> CHOOSE i \in Kept(l) : Place(l, i) = k]
<1>1. DOMAIN l = 1 .. Len(l) /\ Len(l) \in Nat /\ Kept(l) \in SUBSET (1 .. Len(l))
  BY ListShape DEF Kept
<1>2. IsFiniteSet(Kept(l))
  <2>1. 1 \in Int /\ Len(l) \in Int
    BY <1>1
  <2>2. IsFiniteSet(1 .. Len(l))
    BY <2>1, FS_Interval
  <2> QED  BY <1>1, <2>2, FS_Subset
<1>3. C \in Nat
  BY <1>2, FS_CardinalityType
<1>4. \A i, j \in Kept(l) : Place(l, i) = Place(l, j) => i = j
  <2> SUFFICES ASSUME NEW i \in Kept(l), NEW j \in Kept(l), Place(l, i) = Place(l, j)
               PROVE  i = j
    OBVIOUS
  <2>1. i \in Nat /\ j \in Nat
    BY <1>1
  <2>2. ~(i < j) /\ ~(j < i)
    BY <1>3, PlacesDiffer
  <2> QED  BY <2>1, <2>2
<1>5. r \in Injection(Kept(l), 1 .. C)
  BY <1>4, PlacesDiffer DEF Injection, IsInjective
<1>6. r \in Surjection(Kept(l), 1 .. C)
  <2>1. IsFiniteSet(1 .. C) /\ Cardinality(1 .. C) = C
    BY <1>3, FS_Interval
  <2> QED  BY <1>5, <2>1, FS_Injection
<1>7. ASSUME NEW k \in 1 .. C
      PROVE  h[k] \in Kept(l) /\ Place(l, h[k]) = k
  <2>1. \E i \in Kept(l) : Place(l, i) = k
    BY <1>6 DEF Surjection
  <2> QED  BY <2>1
<1>8. Purge(l) = [k \in 1 .. C |-> l[h[k]]]
  BY DEF Purge
<1>9. /\ Purge(l) \in Seq(Entry) /\ DOMAIN Purge(l) = 1 .. C /\ Len(Purge(l)) = C
      /\ \A k \in 1 .. C : Purge(l)[k] = l[h[k]]
  <2>1. \A k \in 1 .. C : l[h[k]] \in Entry
    BY <1>7, ListShape DEF Kept
  <2> HIDE DEF h
  <2> QED  BY <1>3, <1>8, <2>1
<1>10. \A i \in Kept(l) : Place(l, i) \in 1 .. C /\ h[Place(l, i)] = i
  BY <1>4, <1>7, PlacesDiffer
<1>11. h \in [1 .. C -> Kept(l)]
  BY <1>7
<1> HIDE DEF h
<1>12. \A k, m \in 1 .. C : (h[k] < h[m] => k < m) /\ (h[k] = h[m] => k = m)
  BY <1>7, PlacesDiffer
<1> QED  BY <1>9, <1>10, <1>11, <1>12 DEF Purged

-----------------------------------------------------------------------------
(***************************************************************************)
(* The inductive invariant, by what the steps do to it.                    *)
(***************************************************************************)

\* What the type invariant says of the list and its entries.
LEMMA ListTypes ==
  ASSUME TypeOK
  PROVE  /\ list \in Seq(Entry) /\ Len(list) \in Nat /\ DOMAIN list = 1 .. Len(list)
         /\ cur \in 0 .. Len(list) /\ proc \in [Pids -> Process]
         /\ \A i \in DOMAIN list : list[i] \in Entry /\ list[i].pid \in Pids \cup {0}
         /\ \A p \in Pids : p \in Nat /\ p # 0 /\ p # -1
<1>1. list \in Seq(Entry) /\ cur \in 0 .. Len(list) /\ proc \in [Pids -> Process]
  BY DEF TypeOK
<1>2. Len(list) \in Nat /\ DOMAIN list = 1 .. Len(list)
  BY <1>1, ListShape
<1>3. \A i \in DOMAIN list : list[i] \in Entry /\ list[i].pid \in Pids \cup {0}
  BY <1>1, ListShape DEF Entry
<1>4. \A p \in Pids : p \in Nat /\ p # 0 /\ p # -1
  BY ShellAssumption
<1> QED  BY <1>1, <1>2, <1>3, <1>4

LEMMA InitIInv ==
  Init => IInv
<1> SUFFICES ASSUME Init PROVE IInv
  OBVIOUS
<1>1. list = <<>> /\ list \in Seq(Entry) /\ Len(list) = 0 /\ DOMAIN list = {}
  <2>1. list = <<>> /\ list \in Seq(Entry) /\ Len(list) = 0
    BY EmptySeq DEF Init
  <2> QED  BY <2>1, ListShape
<1>2. NoProcess \in Process /\ NoProcess.news = FALSE /\ NoProcess.st = "none"
  BY DEF NoProcess, Process
<1>3. TypeOK
  <2>1. proc \in [Pids -> Process]
    BY <1>2 DEF Init
  <2>2. cur \in 0 .. Len(list)
    BY <1>1 DEF Init
  <2> QED  BY <1>1, <2>1, <2>2 DEF Init, TypeOK
<1>4. Free = Pids
  BY <1>2 DEF Init, Free
<1> QED  BY <1>1, <1>2, <1>3, <1>4 DEF Init, IInv, ListInv, PidsApart, ChildrenListed,
            ProcInv, LineInv, TerminalHandedBack

\* Steps that change no entry's number and begin no line: what is said of
\* lines stays so.
LEMMA LinesKept ==
  ASSUME IInv, Alike(list, list'), pc # "prompt", pc' \notin {"prompt", "fork"},
         pc' = "cmd_wait" => pc = "cmd_wait"
  PROVE  LineInv' /\ PidsApart'
<1>1. /\ DOMAIN list = 1 .. Len(list) /\ Len(list) \in Nat /\ Len(list') = Len(list)
      /\ DOMAIN list' = DOMAIN list
      /\ \A i \in DOMAIN list : list'[i].argv = list[i].argv /\ list'[i].pid = list[i].pid
  BY ListTypes DEF IInv, Alike
<1>2. PidsApart'
  BY <1>1 DEF IInv, ListInv, PidsApart
<1>3. \A i \in DOMAIN list : Behind(i) => Behind(i)'
  BY <1>1 DEF Behind
<1>4. LineInv'
  BY <1>1, <1>3 DEF IInv, LineInv
<1> QED  BY <1>2, <1>4

\* Before a child is reaped in a line, no entry of the list is completed.
LEMMA NoneCompleted ==
  ASSUME IInv, pc \notin {"waitpid", "regain", "cmd_wait", "end"}
  PROVE  \A i \in DOMAIN list : ~list[i].completed
BY DEF IInv, ListInv, EntryTrue

\* A child takes a step, but does not begin to be nor is reaped.
LEMMA ChildStep ==
  ASSUME IInv, NEW p \in Pids, NEW from, NEW to \in Process, Become(p, from, to),
         from \notin {"none", "zombie"}, to.st # "none", to.news => to.st = "stopped",
         from = "stopped" => to.st = "zombie"
  PROVE  IInv'
<1>1. /\ UNCHANGED <<pc, list, cur, cont, term>> /\ proc \in [Pids -> Process]
      /\ proc' = [proc EXCEPT ![p] = to] /\ proc[p].st = from
  BY DEF Become, IInv, TypeOK
<1>2. /\ proc' \in [Pids -> Process] /\ proc'[p] = to
      /\ \A q \in Pids : q # p => proc'[q] = proc[q]
  BY <1>1
<1>3. Free' = Free
  BY <1>1, <1>2 DEF Free
<1>4. TypeOK'
  BY <1>1, <1>2 DEF IInv, TypeOK
<1>5. \A i \in DOMAIN list : EntryTrue(i)'
  <2> SUFFICES ASSUME NEW i \in DOMAIN list PROVE EntryTrue(i)'
    OBVIOUS
  <2>1. EntryTrue(i) /\ list[i].pid \in Pids \cup {0}
    BY ListTypes DEF IInv, ListInv
  <2> QED  BY <1>1, <1>2, <1>3, <2>1 DEF EntryTrue
<1>6. ListInv'
  BY <1>1, <1>3, <1>5 DEF IInv, ListInv, PidsApart, ChildrenListed
<1>7. ProcInv'
  BY <1>2 DEF IInv, ProcInv
<1>8. LineInv' /\ TerminalHandedBack'
  BY <1>1 DEF IInv, LineInv, Behind, TerminalHandedBack, PidOf
<1> QED  BY <1>4, <1>6, <1>7, <1>8 DEF IInv

LEMMA ChildrenIInv ==
  ASSUME IInv, NEW p \in Pids,
         \/ SetPgid(p) \/ Exec(p) \/ Exit(p) \/ TtyRead(p) \/ CtrlC(p) \/ CtrlZ(p) \/ Kill(p)
  PROVE  IInv'
<1>1. \A st \in {"group", "running", "zombie"} :
        InGroup(st) \in Process /\ InGroup(st).st = st /\ ~InGroup(st).news
  BY DEF InGroup, Process
<1>2. Stopped \in Process /\ Stopped.st = "stopped"
  BY DEF Stopped, InGroup, Process
<1>3. CASE SetPgid(p) \/ Exec(p)
  BY <1>1, <1>3, ChildStep DEF SetPgid, Exec
<1>4. CASE Exit(p) \/ CtrlC(p) \/ Kill(p)
  BY <1>1, <1>4, ChildStep DEF Exit, CtrlC, Kill
<1>5. CASE TtyRead(p) \/ CtrlZ(p)
  BY <1>2, <1>5, ChildStep DEF TtyRead, CtrlZ
<1> QED  BY <1>3, <1>4, <1>5

\* waitpid reports a child: the list has an entry for it, and only one.
LEMMA ReportStep ==
  ASSUME IInv, NEW p \in Pids, Reported(p), proc' = AfterReport(p), list' = Mark(p),
         UNCHANGED <<cur, cont, term>>, pc \in {"waitpid", "cmd_wait"},
         pc' = pc \/ (pc = "waitpid" /\ pc' = "regain")
  PROVE  IInv' /\ Alike(list, list')
<1> DEFINE i == WithPid(list, p)
           f == IF proc[p].st = "zombie" THEN "completed" ELSE "stopped"
<1>1. /\ TypeOK /\ list \in Seq(Entry) /\ DOMAIN list = 1 .. Len(list) /\ Len(list) \in Nat
      /\ proc \in [Pids -> Process] /\ p # 0
  BY ListTypes DEF IInv
<1>2. p \notin Free /\ (proc[p].st = "zombie" \/ proc[p].st = "stopped")
  BY <1>1 DEF IInv, ProcInv, Reported, Free
<1>3. i \in DOMAIN list /\ list[i].pid = p /\ ~list[i].completed
  <2>1. PICK j \in DOMAIN list : list[j].pid = p /\ ~list[j].completed
    BY <1>2 DEF IInv, ListInv, ChildrenListed
  <2>2. i \in DOMAIN list /\ list[i].pid = p
    BY <1>1, <2>1, FirstWithPid
  <2> QED  BY <1>1, <2>1, <2>2 DEF IInv, ListInv, PidsApart
<1>4. \A j \in DOMAIN list : j # i => list[j].pid # p
  BY <1>1, <1>3 DEF IInv, ListInv, PidsApart
<1>5. list' = Set(list, i, f, TRUE) /\ i \in 0 .. Len(list)
  BY <1>1, <1>3 DEF Mark
<1>6. /\ proc' \in [Pids -> Process] /\ \A q \in Pids : q # p => proc'[q] = proc[q]
      /\ proc[p].st = "zombie" => proc'[p] = NoProcess
      /\ proc[p].st = "stopped" => proc'[p].st = "stopped" /\ ~proc'[p].news
  <2>1. NoProcess \in Process /\ [proc[p] EXCEPT !.news = FALSE] \in Process
    BY <1>1 DEF NoProcess, Process
  <2>2. AfterReport(p) = [proc EXCEPT ![p] = IF proc[p].st = "zombie" THEN NoProcess
                                             ELSE [proc[p] EXCEPT !.news = FALSE]]
    BY DEF AfterReport
  <2>3. proc[p] \in Process
    BY <1>1
  <2> QED  BY <1>1, <2>1, <2>2, <2>3 DEF Process
<1>7. NoProcess.st = "none" /\ NoProcess.news = FALSE
  BY DEF NoProcess
<1> HIDE DEF i
<1>8. /\ Alike(list, list')
      /\ \A j \in DOMAIN list : j # i => /\ list'[j].completed <=> list[j].completed
                                         /\ list'[j].stopped <=> list[j].stopped
      /\ list'[i].completed <=> proc[p].st = "zombie"
      /\ proc[p].st = "stopped" => list'[i].stopped
  <2>1. CASE proc[p].st = "zombie"
    <3>1. list' = Set(list, i, "completed", TRUE)
      BY <1>5, <2>1
    <3>2. /\ Alike(list, list')
          /\ \A j \in DOMAIN list : /\ list'[j].stopped <=> list[j].stopped
                                    /\ list'[j].completed <=> j = i \/ list[j].completed
      <4>1. Marked(list, i, TRUE, list')
        BY <1>1, <1>5, <3>1, SetCompleted
      <4> QED  BY <4>1 DEF Marked
    <3> QED  BY <1>3, <2>1, <3>2
  <2>2. CASE proc[p].st = "stopped"
    <3>1. list' = Set(list, i, "stopped", TRUE)
      BY <1>5, <2>2
    <3>2. /\ Alike(list, list')
          /\ \A j \in DOMAIN list : /\ list'[j].completed <=> list[j].completed
                                    /\ list'[j].stopped <=> j = i \/ list[j].stopped
      BY <1>1, <1>5, <3>1, SetStopped
    <3> QED  BY <1>3, <2>2, <3>2
  <2> QED  BY <1>2, <2>1, <2>2
<1>9. LineInv' /\ PidsApart'
  BY <1>8, LinesKept
<1>10. /\ list' \in Seq(Entry) /\ DOMAIN list' = DOMAIN list /\ Len(list') = Len(list)
       /\ \A j \in DOMAIN list : list'[j].pid = list[j].pid
  BY <1>8 DEF Alike
<1>11. \A q \in Pids : q # p => (q \in Free' <=> q \in Free)
  BY <1>6 DEF Free
<1>12. p \in Free' <=> proc[p].st = "zombie"
  BY <1>2, <1>6, <1>7 DEF Free
<1>13. TypeOK'
  BY <1>1, <1>6, <1>10 DEF TypeOK
<1>14. ChildrenListed'
  <2> SUFFICES ASSUME NEW q \in Pids \ Free'
               PROVE  \E j \in DOMAIN list : list'[j].pid = q /\ ~list'[j].completed
    BY <1>10 DEF ChildrenListed
  <2>1. CASE q = p
    BY <1>3, <1>8, <1>10, <1>12, <2>1
  <2>2. CASE q # p
    <3>1. PICK j \in DOMAIN list : list[j].pid = q /\ ~list[j].completed
      BY <1>11, <2>2 DEF IInv, ListInv, ChildrenListed
    <3> QED  BY <1>3, <1>8, <1>10, <2>2, <3>1
  <2> QED  BY <2>1, <2>2
<1>15. ASSUME NEW j \in DOMAIN list PROVE EntryTrue(j)'
  <2>1. EntryTrue(j) /\ list[j].pid \in Pids \cup {0}
    BY <1>1, ListTypes DEF IInv, ListInv
  <2>2. CASE j = i
    BY <1>1, <1>2, <1>3, <1>6, <1>8, <1>10, <1>12, <2>2 DEF EntryTrue
  <2>3. CASE j # i
    BY <1>4, <1>6, <1>8, <1>10, <1>11, <2>1, <2>3 DEF EntryTrue
  <2> QED  BY <2>2, <2>3
<1>16. ProcInv'
  BY <1>2, <1>6, <1>7 DEF IInv, ProcInv
<1>17. TerminalHandedBack'
  BY <1>1, <1>10 DEF IInv, TerminalHandedBack, PidOf, TypeOK
<1> QED  BY <1>8, <1>9, <1>10, <1>13, <1>14, <1>15, <1>16, <1>17 DEF IInv, ListInv

LEMMA WaitsIInv ==
  ASSUME IInv, WaitForProcess \/ CmdWait
  PROVE  IInv'
<1>1. ASSUME NEW p \in Pids, Reported(p), proc' = AfterReport(p), list' = Mark(p),
             UNCHANGED <<cur, cont, term>>, pc \in {"waitpid", "cmd_wait"},
             pc' = pc \/ (pc = "waitpid" /\ pc' = "regain")
      PROVE  IInv'
  BY <1>1, ReportStep
<1>2. ASSUME UNCHANGED <<list, proc, cur, cont, term>>,
             \/ pc = "waitpid" /\ pc' = "regain"
             \/ pc = "cmd_wait" /\ pc' = "end"
      PROVE  IInv'
  BY <1>2 DEF IInv, TypeOK, ListInv, PidsApart, ChildrenListed, Free, EntryTrue, ProcInv,
              LineInv, Behind, TerminalHandedBack, PidOf
<1>3. CASE WaitForProcess
  BY <1>1, <1>2, <1>3 DEF WaitForProcess
<1>4. CASE CmdWait
  BY <1>1, <1>2, <1>4 DEF CmdWait
<1> QED  BY <1>3, <1>4

\* The flag that says who has the terminal is set, and the terminal given.
LEMMA TakeTerminalIInv ==
  ASSUME IInv, TakeTerminal
  PROVE  IInv'
<1>1. /\ TypeOK /\ list \in Seq(Entry) /\ cur \in 0 .. Len(list)
      /\ pc = "tcsetpgrp" /\ pc' \in {"continue", "waitpid"}
      /\ UNCHANGED <<cur, cont, proc>> /\ list' = Set(list, cur, "background", FALSE)
  BY ListTypes DEF IInv, TakeTerminal
<1>2. /\ Alike(list, list')
      /\ \A j \in DOMAIN list : /\ list'[j].completed <=> list[j].completed
                                /\ list'[j].stopped <=> list[j].stopped
  BY <1>1, SetBackground
<1>3. /\ list' \in Seq(Entry) /\ DOMAIN list' = DOMAIN list /\ Len(list') = Len(list)
      /\ \A j \in DOMAIN list : list'[j].pid = list[j].pid
  BY <1>2 DEF Alike
<1>4. LineInv' /\ PidsApart'
  BY <1>1, <1>2, LinesKept
<1>5. Free' = Free
  BY <1>1 DEF Free
<1>6. term = Shell /\ term' \in Pids \cup {Shell} /\ (term' # Shell => term' = PidOf(cur))
  BY <1>1 DEF IInv, TerminalHandedBack, TakeTerminal, IsGroup
<1>7. TypeOK'
  BY <1>1, <1>3, <1>6 DEF TypeOK
<1>8. ChildrenListed'
  BY <1>2, <1>3, <1>5 DEF IInv, ListInv, ChildrenListed
<1>9. ASSUME NEW j \in DOMAIN list PROVE EntryTrue(j)'
  BY <1>1, <1>2, <1>3, <1>5 DEF IInv, ListInv, EntryTrue
<1>10. ProcInv'
  BY <1>1 DEF IInv, ProcInv
<1>11. PidOf(cur)' = PidOf(cur)
  <2>1. DOMAIN list = 1 .. Len(list) /\ Len(list) \in Nat
    BY <1>1, ListShape
  <2>2. cur # 0 => cur \in DOMAIN list
    BY <1>1, <2>1
  <2> QED  BY <1>1, <1>3, <2>2 DEF PidOf
<1>12. TerminalHandedBack'
  BY <1>1, <1>6, <1>11 DEF TerminalHandedBack
<1> QED  BY <1>3, <1>4, <1>7, <1>8, <1>9, <1>10, <1>12 DEF IInv, ListInv

\* The process is sent SIGCONT and its flag cleared: Continue and Background.
LEMMA ContinuedStep ==
  ASSUME IInv, pc \in {"continue", "bg"}, pc' \in {"waitpid", "end"},
         pc = "bg" => pc' = "end", pc = "continue" => pc' = "waitpid",
         UNCHANGED <<cur, cont, term>>, proc' = Continued(cur),
         Alike(list, list'),
         \A j \in DOMAIN list : /\ list'[j].completed <=> list[j].completed
                                /\ list'[j].stopped <=> j # cur /\ list[j].stopped
  PROVE  IInv'
<1>1. /\ TypeOK /\ list \in Seq(Entry) /\ DOMAIN list = 1 .. Len(list) /\ Len(list) \in Nat
      /\ cur \in 0 .. Len(list) /\ proc \in [Pids -> Process]
      /\ \A i \in DOMAIN list : list[i].pid \in Pids \cup {0}
      /\ \A p \in Pids : p # 0 /\ p # -1
  BY ListTypes DEF IInv
<1>2. /\ list' \in Seq(Entry) /\ DOMAIN list' = DOMAIN list /\ Len(list') = Len(list)
      /\ \A j \in DOMAIN list : list'[j].pid = list[j].pid
  BY DEF Alike
<1>3. LineInv' /\ PidsApart'
  BY LinesKept
<1>4. /\ proc' \in [Pids -> Process]
      /\ \A p \in Pids : p # PidOf(cur) => proc'[p] = proc[p]
      /\ \A p \in Pids : proc'[p] = proc[p] \/ (/\ proc[p].st = "stopped"
                                                /\ proc'[p].st = "running" /\ ~proc'[p].news)
  <2>1. CASE IsGroup(PidOf(cur)) /\ proc[PidOf(cur)].st = "stopped"
    <3> DEFINE p == PidOf(cur)
    <3>1. p \in Pids /\ proc[p] \in Process /\ proc[p].st = "stopped"
      BY <1>1, <2>1 DEF IsGroup
    <3>2. proc' = [proc EXCEPT ![p] = [proc[p] EXCEPT !.st = "running", !.news = FALSE]]
      BY <1>1, <2>1, <3>1 DEF Continued
    <3> DEFINE r == [proc[p] EXCEPT !.st = "running", !.news = FALSE]
    <3>3. r \in Process /\ r.st = "running" /\ r.news = FALSE
      BY <3>1 DEF Process
    <3> HIDE DEF p, r
    <3>4. proc' = [proc EXCEPT ![p] = r]
      BY <3>2 DEF r
    <3>5. proc' \in [Pids -> Process] /\ proc'[p] = r /\ \A q \in Pids : q # p => proc'[q] = proc[q]
      BY <1>1, <3>1, <3>3, <3>4
    <3> QED  BY <3>1, <3>3, <3>5 DEF p
  <2>2. CASE ~(IsGroup(PidOf(cur)) /\ proc[PidOf(cur)].st = "stopped")
    BY <1>1, <2>2 DEF Continued
  <2> QED  BY <2>1, <2>2
<1>5. Free' = Free
  BY <1>4 DEF Free
<1>6. TypeOK'
  BY <1>1, <1>2, <1>4 DEF TypeOK
<1>7. ChildrenListed'
  BY <1>2, <1>5 DEF IInv, ListInv, ChildrenListed
<1>8. ASSUME NEW j \in DOMAIN list PROVE EntryTrue(j)'
  <2>1. EntryTrue(j) /\ ~list[j].completed
    BY NoneCompleted DEF IInv, ListInv
  <2>2. CASE j = cur
    BY <1>2, <1>5, <2>1, <2>2 DEF EntryTrue
  <2>3. CASE j # cur
    <3>1. ASSUME list[j].pid # 0 PROVE proc'[list[j].pid] = proc[list[j].pid]
      <4>1. list[j].pid # PidOf(cur)
        BY <1>1, <2>3, <3>1 DEF IInv, ListInv, PidsApart, PidOf
      <4> QED  BY <1>1, <1>4, <3>1, <4>1
    <3> QED  BY <1>2, <1>5, <2>1, <2>3, <3>1 DEF EntryTrue
  <2> QED  BY <2>2, <2>3
<1>9. ProcInv'
  BY <1>4 DEF IInv, ProcInv
<1>10. PidOf(cur)' = PidOf(cur)
  BY <1>1, <1>2 DEF PidOf
<1>11. TerminalHandedBack'
  BY <1>10 DEF IInv, TerminalHandedBack
<1> QED  BY <1>2, <1>3, <1>6, <1>7, <1>8, <1>9, <1>11 DEF IInv, ListInv

LEMMA ContinueIInv ==
  ASSUME IInv, Continue \/ Background
  PROVE  IInv'
<1>1. list \in Seq(Entry) /\ cur \in 0 .. Len(list)
  BY ListTypes DEF IInv
<1> DEFINE m == MarkContinued(cur)
<1>2. /\ Alike(list, m)
      /\ \A j \in DOMAIN list : /\ m[j].completed <=> list[j].completed
                                /\ m[j].stopped <=> j # cur /\ list[j].stopped
  <2>1. m = Set(list, cur, "stopped", FALSE)
    BY DEF MarkContinued
  <2> HIDE DEF m
  <2>2. /\ Alike(list, m)
        /\ \A j \in DOMAIN list :
             /\ m[j].completed <=> list[j].completed
             /\ m[j].stopped <=> (j = cur /\ FALSE) \/ (j # cur /\ list[j].stopped)
    BY <1>1, <2>1, SetStopped, ZenonT(60)
  <2> QED  BY <2>2
<1>3. CASE Continue
  BY <1>2, <1>3, ContinuedStep DEF Continue
<1>4. CASE Background
  <2>1. /\ m \in Seq(Entry) /\ cur \in 0 .. Len(m) /\ DOMAIN m = DOMAIN list
        /\ list' = Set(m, cur, "background", TRUE)
    BY <1>1, <1>2, <1>4 DEF Background, Alike
  <2> HIDE DEF m
  <2>2. /\ Alike(m, list')
        /\ \A j \in DOMAIN m : /\ list'[j].completed <=> m[j].completed
                               /\ list'[j].stopped <=> m[j].stopped
    BY <2>1, SetBackground
  <2>3. Alike(list, list')
    BY <1>2, <2>2 DEF Alike
  <2>4. \A j \in DOMAIN list : /\ list'[j].completed <=> list[j].completed
                               /\ list'[j].stopped <=> j # cur /\ list[j].stopped
    BY <1>2, <2>1, <2>2
  <2>5. /\ pc = "bg" /\ pc' = "end" /\ UNCHANGED <<cur, cont, term>>
        /\ proc' = Continued(cur)
    BY <1>4 DEF Background
  <2> QED  BY <2>3, <2>4, <2>5, ContinuedStep
<1> QED  BY <1>3, <1>4

LEMMA RegainTerminalIInv ==
  ASSUME IInv, RegainTerminal
  PROVE  IInv'
<1>1. pc = "regain" /\ pc' = "end" /\ term' = Shell /\ UNCHANGED <<list, cur, cont, proc>>
  BY DEF RegainTerminal, TerminalBack
<1> QED  BY <1>1 DEF IInv, TypeOK, ListInv, PidsApart, ChildrenListed, Free, EntryTrue, ProcInv,
                     LineInv, Behind, TerminalHandedBack

-----------------------------------------------------------------------------
(***************************************************************************)
(* A line: it is read, a child is forked for it, and it ends.              *)
(***************************************************************************)

\* The first entry without a number: it is what the shell looks at.
LEMMA NextEntryIsFirst ==
  ASSUME NEW l \in Seq(Entry), NEW i \in DOMAIN l, l[i].pid = 0
  PROVE  /\ NextEntry(l) \in DOMAIN l /\ l[NextEntry(l)].pid = 0
         /\ \A j \in DOMAIN l : l[j].pid = 0 => NextEntry(l) <= j
<1>1. WithPid(l, 0) # 0
  BY FirstWithPid
<1>2. NextEntry(l) = WithPid(l, 0)
  BY <1>1 DEF NextEntry
<1> QED  BY <1>1, <1>2, FirstWithPid

LEMMA TargetInList ==
  ASSUME NEW l \in Seq(Entry), NEW arg, Target(l, arg) # -1
  PROVE  Target(l, arg) \in 0 .. Len(l)
<1>1. Len(l) \in Nat /\ DOMAIN l = 1 .. Len(l)
  BY ListShape
<1>2. WithPid(l, arg) \in 0 .. Len(l)
  BY <1>1, FirstWithPid
<1> QED  BY <1>1, <1>2 DEF Target

LEMMA ReadLineIInv ==
  ASSUME IInv, NEW w \in Words, NEW bg \in BOOLEAN, NEW arg, ReadLine(w, bg, arg)
  PROVE  IInv'
<1> DEFINE l == Append(list, NewEntry(w, bg))
           n == NextEntry(l)
           N == Len(list) + 1
<1>1. /\ TypeOK /\ list \in Seq(Entry) /\ DOMAIN list = 1 .. Len(list) /\ Len(list) \in Nat
      /\ cur \in 0 .. Len(list) /\ pc = "prompt"
      /\ \A i \in DOMAIN list : list[i].pid \in Pids \cup {0}
  BY ListTypes DEF IInv, ReadLine
<1>2. NewEntry(w, bg) \in Entry /\ NewEntry(w, bg).pid = 0 /\ NewEntry(w, bg).argv = w
      /\ NewEntry(w, bg).stopped = FALSE /\ NewEntry(w, bg).completed = FALSE
  BY DEF NewEntry, Entry
<1>3. /\ l \in Seq(Entry) /\ Len(l) = N /\ DOMAIN l = 1 .. N /\ N \in DOMAIN l
      /\ l[N] = NewEntry(w, bg)
      /\ \A i \in DOMAIN list : i \in DOMAIN l /\ i # N /\ l[i] = list[i]
      /\ \A i \in DOMAIN l : i \in DOMAIN list \/ i = N
  <2>1. /\ l \in Seq(Entry) /\ Len(l) = Len(list) + 1
        /\ \A i \in 1 .. Len(list) : l[i] = list[i]
        /\ l[Len(list) + 1] = NewEntry(w, bg)
    BY <1>1, <1>2, AppendProperties
  <2>2. DOMAIN l = 1 .. Len(l)
    BY <2>1, LenProperties
  <2> QED  BY <1>1, <2>1, <2>2
<1>4. n \in DOMAIN l /\ l[n].pid = 0 /\ \A j \in DOMAIN l : l[j].pid = 0 => n <= j
  BY <1>2, <1>3, NextEntryIsFirst
<1>5. /\ list' = l /\ UNCHANGED <<term, proc>>
      /\ pc' \in {"exited", "cmd_wait", "tcsetpgrp", "bg", "fork", "end"}
      /\ pc' = "fork" => l[n].argv = "program"
      /\ pc' = "cmd_wait" => l[n].argv = "wait"
      /\ cur' = cur \/ (Target(l, arg) # -1 /\ cur' = Target(l, arg))
      /\ cont' = cont \/ cont' = FALSE
           \/ (Target(l, arg) \in DOMAIN l /\ cont' = l[Target(l, arg)].stopped)
  <2>1. /\ list' = l /\ UNCHANGED <<term, proc>>
        /\ pc' = CASE l[n].argv = "quit" -> "exited"
                   [] l[n].argv = "wait" -> "cmd_wait"
                   [] l[n].argv = "fg" /\ Target(l, arg) # -1 -> "tcsetpgrp"
                   [] l[n].argv = "bg" /\ Target(l, arg) # -1 -> "bg"
                   [] l[n].argv = "program" -> "fork"
                   [] OTHER -> "end"
        /\ IF l[n].argv \in {"fg", "bg"} /\ Target(l, arg) # -1
           THEN /\ cur' = Target(l, arg)
                /\ cont' = IF Target(l, arg) = 0 THEN FALSE ELSE l[Target(l, arg)].stopped
           ELSE UNCHANGED <<cur, cont>>
    BY DEF ReadLine
  <2> HIDE DEF l, n
  <2>2. Target(l, arg) # -1 => Target(l, arg) \in 0 .. Len(l)
    BY <1>3, TargetInList
  <2>3. /\ pc' \in {"exited", "cmd_wait", "tcsetpgrp", "bg", "fork", "end"}
        /\ pc' = "fork" => l[n].argv = "program"
        /\ pc' = "cmd_wait" => l[n].argv = "wait"
    BY <2>1
  <2>4. cur' = cur \/ (Target(l, arg) # -1 /\ cur' = Target(l, arg))
    BY <2>1
  <2>5. \/ cont' = cont \/ cont' = FALSE
        \/ Target(l, arg) \in DOMAIN l /\ cont' = l[Target(l, arg)].stopped
    <3>1. Target(l, arg) # -1 /\ Target(l, arg) # 0 => Target(l, arg) \in DOMAIN l
      BY <1>1, <1>3, <2>2
    <3> QED  BY <2>1, <3>1
  <2> QED  BY <2>1, <2>3, <2>4, <2>5
<1> HIDE DEF l, n
<1>6. TypeOK'
  <2>1. cur' \in 0 .. Len(l)
    BY <1>1, <1>3, <1>5, TargetInList
  <2>2. cont' \in BOOLEAN
    BY <1>1, <1>3, <1>5, ListShape DEF TypeOK, Entry
  <2> QED  BY <1>1, <1>3, <1>5, <2>1, <2>2 DEF TypeOK
<1>7. Free' = Free
  BY <1>5 DEF Free
<1>8. PidsApart'
  BY <1>1, <1>2, <1>3, <1>5 DEF IInv, ListInv, PidsApart
<1>9. ChildrenListed'
  <2> SUFFICES ASSUME NEW p \in Pids \ Free
               PROVE  \E i \in DOMAIN l : l[i].pid = p /\ ~l[i].completed
    BY <1>5, <1>7 DEF ChildrenListed
  <2>1. PICK i \in DOMAIN list : list[i].pid = p /\ ~list[i].completed
    BY DEF IInv, ListInv, ChildrenListed
  <2> QED  BY <1>3, <2>1
<1>10. ASSUME NEW i \in DOMAIN l PROVE EntryTrue(i)'
  <2>1. CASE i = N
    BY <1>2, <1>3, <1>5, <2>1 DEF EntryTrue
  <2>2. CASE i \in DOMAIN list
    <3>1. EntryTrue(i) /\ ~list[i].completed
      BY <1>1, <2>2, NoneCompleted DEF IInv, ListInv
    <3> QED  BY <1>3, <1>5, <1>7, <2>2, <3>1 DEF EntryTrue
  <2> QED  BY <1>3, <2>1, <2>2
<1>11. ProcInv'
  BY <1>5 DEF IInv, ProcInv
<1>12. TerminalHandedBack'
  BY <1>1, <1>5 DEF IInv, TerminalHandedBack
<1> DEFINE Earlier(i) == \E j \in 1 .. i - 1 : l[j].argv = "program" /\ l[j].pid = 0
<1>13. ASSUME NEW i \in DOMAIN list, list[i].argv # "program"
       PROVE  Earlier(i)
  <2>1. PICK j \in 1 .. i - 1 : list[j].argv = "program" /\ list[j].pid = 0
    BY <1>1, <1>13 DEF IInv, LineInv, Behind
  <2>2. j \in DOMAIN list
    BY <1>1
  <2> QED  BY <1>3, <2>1, <2>2
<1>14. \A i \in DOMAIN l : Earlier(i) => n < i
  BY <1>3, <1>4
<1>15. n \in DOMAIN list => l[n].argv = "program"
  <2>1. n \in DOMAIN list /\ l[n].argv # "program" => Earlier(n)
    BY <1>3, <1>13
  <2> QED  BY <1>3, <1>4, <1>14, <2>1
<1>16. LineInv'
  <2>1. \A i \in DOMAIN l : Behind(i)' <=> Earlier(i)
    BY <1>5 DEF Behind
  <2>2. \A i \in DOMAIN l : l[i].argv # "program" => Earlier(i) \/ (i = N /\ l[i].pid = 0)
    BY <1>2, <1>3, <1>13
  <2>3. pc' = "fork" => /\ l # <<>> /\ l[Len(l)].pid = 0
                        /\ l[Len(l)].argv = "program" \/ Earlier(Len(l))
    <3>1. l # <<>>
      <4>1. Len(l) # 0 /\ Len(<<>>) = 0
        BY <1>1, <1>3, EmptySeq
      <4> QED  BY <4>1
    <3>2. CASE n = N
      BY <1>2, <1>3, <1>5, <3>1, <3>2
    <3>3. CASE n # N
      <4>1. pc' = "fork" => n \in 1 .. N - 1 /\ l[n].argv = "program" /\ l[n].pid = 0
        BY <1>1, <1>3, <1>4, <1>5, <3>3
      <4> QED  BY <1>2, <1>3, <3>1, <4>1
    <3> QED  BY <3>2, <3>3
  <2>4. pc' = "cmd_wait" => \A i \in DOMAIN l :
          l[i].argv # "program" => i = Len(l) /\ l[i].pid = 0
    <3> SUFFICES ASSUME pc' = "cmd_wait", NEW i \in DOMAIN l, l[i].argv # "program"
                 PROVE  i = Len(l) /\ l[i].pid = 0
      OBVIOUS
    <3>1. n = N
      BY <1>3, <1>4, <1>5, <1>15
    <3>2. ~(i \in DOMAIN list)
      BY <1>1, <1>3, <1>13, <1>14, <3>1
    <3> QED  BY <1>2, <1>3, <3>2
  <2> QED  BY <1>1, <1>3, <1>5, <2>1, <2>2, <2>3, <2>4 DEF LineInv
<1> QED  BY <1>5, <1>6, <1>8, <1>9, <1>10, <1>11, <1>12, <1>16 DEF IInv, ListInv

LEMMA ForkIInv ==
  ASSUME IInv, Fork
  PROVE  IInv'
<1> DEFINE N == Len(list)
<1>1. /\ TypeOK /\ list \in Seq(Entry) /\ DOMAIN list = 1 .. N /\ N \in Nat
      /\ cur \in 0 .. N /\ proc \in [Pids -> Process]
      /\ \A i \in DOMAIN list : list[i].pid \in Pids \cup {0}
      /\ \A p \in Pids : p # 0
  BY ListTypes DEF IInv
<1>2. /\ pc = "fork" /\ list # <<>> /\ list[N].pid = 0
      /\ list[N].argv = "program" \/ Behind(N)
  BY DEF Fork, IInv, LineInv
<1>3. N \in DOMAIN list
  BY <1>1, <1>2, EmptySeq
<1>4. PICK p \in Free : /\ list' = Set(list, N, "pid", p)
                        /\ proc' = [proc EXCEPT ![p] = [NoProcess EXCEPT !.st = "new"]]
  BY DEF Fork
<1>5. p \in Pids /\ p # 0 /\ proc[p].st = "none"
  BY <1>1 DEF Free
<1>6. /\ pc' \in {"end", "tcsetpgrp"} /\ term' = term /\ cur' \in 0 .. N
      /\ cont' = cont \/ cont' = FALSE
  BY <1>1, <1>3 DEF Fork
<1>7. /\ list' \in Seq(Entry) /\ Len(list') = N /\ DOMAIN list' = DOMAIN list
      /\ \A j \in DOMAIN list : /\ list'[j].argv = list[j].argv
                                /\ list'[j].completed <=> list[j].completed
                                /\ list'[j].stopped <=> list[j].stopped
                                /\ list'[j].pid = IF j = N THEN p ELSE list[j].pid
  <2> HIDE DEF N
  <2>1. list' = Set(list, N, "pid", p) /\ Len(list) = N
    BY <1>4 DEF N
  <2>2. Numbered(list, N, p, list')
    BY <1>1, <1>3, <1>5, <2>1, SetPid
  <2> QED  BY <2>1, <2>2 DEF Numbered
<1> DEFINE new == [NoProcess EXCEPT !.st = "new"]
<1>8. new \in Process /\ new.st = "new" /\ new.news = FALSE
  BY DEF NoProcess, Process
<1> HIDE DEF new, N
<1>9. /\ proc' \in [Pids -> Process] /\ proc'[p] = new
      /\ \A q \in Pids : q # p => proc'[q] = proc[q]
  <2>1. proc' = [proc EXCEPT ![p] = new]
    BY <1>4 DEF new
  <2> QED  BY <1>1, <1>5, <1>8, <2>1
<1>10. Free' = Free \ {p}
  BY <1>5, <1>8, <1>9 DEF Free
<1>11. \A j \in DOMAIN list : ~list[j].completed /\ list[j].pid # p
  <2> SUFFICES ASSUME NEW j \in DOMAIN list PROVE ~list[j].completed /\ list[j].pid # p
    OBVIOUS
  <2>1. ~list[j].completed /\ EntryTrue(j)
    BY <1>2, NoneCompleted DEF IInv, ListInv
  <2> QED  BY <1>5, <2>1 DEF EntryTrue
<1>12. TypeOK'
  BY <1>1, <1>6, <1>7, <1>9 DEF TypeOK
<1>13. PidsApart'
  BY <1>5, <1>7, <1>11 DEF IInv, ListInv, PidsApart
<1>14. ChildrenListed'
  <2> SUFFICES ASSUME NEW q \in Pids \ Free'
               PROVE  \E i \in DOMAIN list : list'[i].pid = q /\ ~list'[i].completed
    BY <1>7 DEF ChildrenListed
  <2>1. CASE q = p
    BY <1>3, <1>7, <1>11, <2>1
  <2>2. CASE q # p
    <3>1. PICK i \in DOMAIN list : list[i].pid = q /\ ~list[i].completed
      BY <1>10, <2>2 DEF IInv, ListInv, ChildrenListed
    <3>2. i # N
      BY <1>1, <1>2, <3>1
    <3> QED  BY <1>7, <3>1, <3>2
  <2> QED  BY <2>1, <2>2
<1>15. ASSUME NEW i \in DOMAIN list PROVE EntryTrue(i)'
  <2>1. EntryTrue(i)
    BY DEF IInv, ListInv
  <2>2. CASE i = N
    BY <1>2, <1>5, <1>7, <1>8, <1>9, <1>10, <1>11, <2>1, <2>2 DEF EntryTrue
  <2>3. CASE i # N
    <3>1. list[i].pid # 0 => proc'[list[i].pid] = proc[list[i].pid]
      BY <1>1, <1>9, <1>11
    <3> QED  BY <1>7, <1>10, <1>11, <2>1, <2>3, <3>1 DEF EntryTrue
  <2> QED  BY <2>2, <2>3
<1>16. ProcInv'
  BY <1>8, <1>9 DEF IInv, ProcInv
<1>17. LineInv'
  <2>1. \A i \in DOMAIN list : Behind(i) => Behind(i)'
    <3> SUFFICES ASSUME NEW i \in DOMAIN list, Behind(i) PROVE Behind(i)'
      OBVIOUS
    <3>1. PICK j \in 1 .. i - 1 : list[j].argv = "program" /\ list[j].pid = 0
      BY DEF Behind
    <3>2. j \in DOMAIN list /\ j # N
      BY <1>1
    <3>3. list'[j].argv = "program" /\ list'[j].pid = 0
      BY <1>7, <3>1, <3>2
    <3> QED  BY <3>3 DEF Behind
  <2>2. \A i \in DOMAIN list : list[i].argv # "program" => Behind(i)
    BY <1>2, N = Len(list) DEF IInv, LineInv, N
  <2> QED  BY <1>6, <1>7, <2>1, <2>2 DEF LineInv
<1>18. TerminalHandedBack'
  BY <1>2, <1>6 DEF IInv, TerminalHandedBack
<1> QED  BY <1>7, <1>12, <1>13, <1>14, <1>15, <1>16, <1>17, <1>18 DEF IInv, ListInv

LEMMA ForkErrorIInv ==
  ASSUME IInv, ForkError
  PROVE  IInv'
<1>1. pc = "fork" /\ pc' = "end" /\ UNCHANGED <<list, cur, cont, term, proc>>
  BY DEF ForkError
<1> QED  BY <1>1 DEF IInv, TypeOK, ListInv, PidsApart, ChildrenListed, Free, EntryTrue, ProcInv,
                     LineInv, Behind, TerminalHandedBack, PidOf

\* What is left of the list when a line ends: of a builtin nothing stays.
LEMMA EndLineKeeps ==
  ASSUME IInv, EndLine
  PROVE  \E m \in Seq(Entry) :
           /\ list' = Purge(m) /\ DOMAIN m = DOMAIN list
           /\ \A i \in DOMAIN list : /\ m[i].argv = list[i].argv /\ m[i].pid = list[i].pid
                                     /\ m[i].stopped <=> list[i].stopped
                                     /\ ~m[i].completed => ~list[i].completed
           /\ \A i \in DOMAIN list : list[i].pid # 0 \/ list[i].argv = "program" =>
                (m[i].completed <=> list[i].completed)
           /\ \A i \in Kept(m) : list[i].argv # "program" => Behind(i)
<1> DEFINE n == NextEntry(list)
           N == Len(list)
           ran == n = Len(list) /\ n > 0 /\ list[n].argv # "program"
           m == IF ran THEN Set(list, n, "completed", TRUE) ELSE list
<1>1. /\ list \in Seq(Entry) /\ DOMAIN list = 1 .. N /\ N \in Nat /\ pc = "end"
      /\ list' = Purge(m)
  BY ListTypes DEF IInv, EndLine
<1>2. \A i \in DOMAIN list :
        list[i].argv # "program" => Behind(i) \/ (i = N /\ list[i].pid = 0)
  BY DEF IInv, LineInv
<1>3. \A i \in DOMAIN list : list[i].pid = 0 =>
        /\ n \in DOMAIN list /\ list[n].pid = 0
        /\ \A j \in DOMAIN list : list[j].pid = 0 => n <= j
  BY <1>1, NextEntryIsFirst
<1> HIDE DEF n
<1>4. \A i \in DOMAIN list : Behind(i) => n \in DOMAIN list /\ n < i
  <2> SUFFICES ASSUME NEW i \in DOMAIN list, Behind(i) PROVE n \in DOMAIN list /\ n < i
    OBVIOUS
  <2>1. PICK j \in 1 .. i - 1 : list[j].argv = "program" /\ list[j].pid = 0
    BY DEF Behind
  <2>2. j \in DOMAIN list
    BY <1>1
  <2>3. n \in DOMAIN list /\ n <= j
    BY <1>3, <2>1, <2>2
  <2> QED  BY <1>1, <2>2, <2>3
<1>5. ran => n \in DOMAIN list /\ list[n].pid = 0
  <2>1. ran => n \in DOMAIN list /\ list[n].argv # "program"
    BY <1>1
  <2>2. n \in DOMAIN list => ~(n < n)
    BY <1>1
  <2> QED  BY <1>2, <1>4, <2>1, <2>2
<1>6. ASSUME N \in DOMAIN list, list[N].argv # "program", ~Behind(N)
      PROVE  ran
  <2>1. list[N].pid = 0
    BY <1>2, <1>6
  <2>2. n \in DOMAIN list /\ list[n].pid = 0 /\ n <= N
    BY <1>3, <1>6, <2>1
  <2>3. n = N
    <3>1. CASE list[n].argv = "program" /\ n # N
      <4>1. n \in 1 .. N - 1
        BY <1>1, <2>2, <3>1
      <4> QED  BY <1>6, <2>2, <3>1, <4>1 DEF Behind
    <3>2. CASE list[n].argv # "program" /\ n # N
      <4>1. Behind(n)
        BY <1>2, <2>2, <3>2
      <4>2. n \in Nat
        BY <1>1, <2>2
      <4> QED  BY <1>4, <2>2, <4>1, <4>2
    <3> QED  BY <3>1, <3>2
  <2> QED  BY <1>1, <1>6, <2>3
<1>7. /\ m \in Seq(Entry) /\ DOMAIN m = DOMAIN list
      /\ \A i \in DOMAIN list : /\ m[i].argv = list[i].argv /\ m[i].pid = list[i].pid
                                /\ m[i].stopped <=> list[i].stopped
                                /\ m[i].completed <=> (ran /\ i = n) \/ list[i].completed
  <2>1. CASE ran
    <3>1. n \in 0 .. Len(list) /\ m = Set(list, n, "completed", TRUE)
      BY <1>1, <1>5, <2>1
    <3> HIDE DEF m
    <3>2. /\ Alike(list, m)
          /\ \A j \in DOMAIN list : /\ m[j].stopped <=> list[j].stopped
                                    /\ m[j].completed <=> j = n \/ list[j].completed
      <4>1. Marked(list, n, TRUE, m)
        BY <1>1, <3>1, SetCompleted
      <4> QED  BY <4>1 DEF Marked
    <3> QED  BY <2>1, <3>2 DEF Alike
  <2>2. CASE ~ran
    BY <1>1, <2>2
  <2> QED  BY <2>1, <2>2
<1>8. \A i \in DOMAIN list : list[i].pid # 0 \/ list[i].argv = "program" => ~(ran /\ i = n)
  BY <1>5
<1>9. \A i \in Kept(m) : list[i].argv # "program" => Behind(i)
  <2> SUFFICES ASSUME NEW i \in Kept(m), list[i].argv # "program", ~Behind(i)
               PROVE  FALSE
    OBVIOUS
  <2>1. i \in DOMAIN list /\ ~m[i].completed
    BY <1>7 DEF Kept
  <2>2. i = N
    BY <1>2, <2>1
  <2>3. ran
    BY <1>6, <2>1, <2>2
  <2> QED  BY <1>7, <2>1, <2>2, <2>3
<1> HIDE DEF m, ran
<1>10. /\ \A i \in DOMAIN list : ~m[i].completed => ~list[i].completed
       /\ \A i \in DOMAIN list : list[i].pid # 0 \/ list[i].argv = "program" =>
            (m[i].completed <=> list[i].completed)
  BY <1>7, <1>8
<1> QED  BY <1>1, <1>7, <1>9, <1>10

LEMMA EndLineIInv ==
  ASSUME IInv, EndLine
  PROVE  IInv'
<1>1. PICK m \in Seq(Entry) :
           /\ list' = Purge(m) /\ DOMAIN m = DOMAIN list
           /\ \A i \in DOMAIN list : /\ m[i].argv = list[i].argv /\ m[i].pid = list[i].pid
                                     /\ m[i].stopped <=> list[i].stopped
                                     /\ ~m[i].completed => ~list[i].completed
           /\ \A i \in DOMAIN list : list[i].pid # 0 \/ list[i].argv = "program" =>
                (m[i].completed <=> list[i].completed)
           /\ \A i \in Kept(m) : list[i].argv # "program" => Behind(i)
  BY EndLineKeeps
<1>2. PICK h : Purged(m, list', h)
  BY <1>1, PurgeShape
<1>3. /\ list' \in Seq(Entry) /\ h \in [DOMAIN list' -> Kept(m)] /\ Len(list') \in Nat
      /\ DOMAIN list' = 1 .. Len(list')
      /\ \A k \in DOMAIN list' : list'[k] = m[h[k]]
      /\ \A k, j \in DOMAIN list' : h[k] < h[j] => k < j
      /\ \A k, j \in DOMAIN list' : h[k] = h[j] => k = j
      /\ \A i \in Kept(m) : \E k \in DOMAIN list' : h[k] = i
  BY <1>2, ListShape DEF Purged
<1>4. /\ pc = "end" /\ pc' = "prompt" /\ cur' = 0 /\ cont' = FALSE /\ UNCHANGED <<term, proc>>
      /\ DOMAIN list = 1 .. Len(list) /\ Len(list) \in Nat
      /\ \A i \in DOMAIN list : list[i].pid \in Pids \cup {0}
      /\ \A p \in Pids : p # 0
  BY ListTypes DEF EndLine, IInv
<1>5. Free' = Free
  BY <1>4 DEF Free
<1>6. \A k \in DOMAIN list' : /\ h[k] \in Kept(m) /\ h[k] \in DOMAIN list
                              /\ list'[k].argv = list[h[k]].argv
                              /\ list'[k].pid = list[h[k]].pid
                              /\ list'[k].stopped <=> list[h[k]].stopped
                              /\ ~list'[k].completed /\ ~list[h[k]].completed
  BY <1>1, <1>3 DEF Kept
<1>7. TypeOK'
  <2>1. 0 \in 0 .. Len(list')
    BY <1>3
  <2> QED  BY <1>3, <1>4, <2>1 DEF IInv, TypeOK
<1>8. PidsApart'
  BY <1>3, <1>6 DEF IInv, ListInv, PidsApart
<1>9. ChildrenListed'
  <2> SUFFICES ASSUME NEW p \in Pids \ Free
               PROVE  \E k \in DOMAIN list' : list'[k].pid = p /\ ~list'[k].completed
    BY <1>5 DEF ChildrenListed
  <2>1. PICK i \in DOMAIN list : list[i].pid = p /\ ~list[i].completed
    BY DEF IInv, ListInv, ChildrenListed
  <2>2. i \in Kept(m)
    BY <1>1, <1>4, <2>1 DEF Kept
  <2>3. PICK k \in DOMAIN list' : h[k] = i
    BY <1>3, <2>2
  <2> QED  BY <1>6, <2>1, <2>3
<1>10. ASSUME NEW k \in DOMAIN list' PROVE EntryTrue(k)'
  <2>1. EntryTrue(h[k])
    BY <1>6 DEF IInv, ListInv
  <2> QED  BY <1>4, <1>5, <1>6, <2>1 DEF EntryTrue
<1>11. ProcInv'
  BY <1>4 DEF IInv, ProcInv
<1>12. \A k \in DOMAIN list' : list'[k].argv # "program" => Behind(k)'
  <2> SUFFICES ASSUME NEW k \in DOMAIN list', list'[k].argv # "program"
               PROVE  Behind(k)'
    OBVIOUS
  <2>1. h[k] \in Kept(m) /\ h[k] \in DOMAIN list /\ list[h[k]].argv # "program"
    BY <1>6
  <2>2. Behind(h[k])
    BY <1>1, <2>1
  <2>3. PICK j \in 1 .. h[k] - 1 : list[j].argv = "program" /\ list[j].pid = 0
    BY <2>2 DEF Behind
  <2>4. j \in DOMAIN list /\ j < h[k]
    BY <1>4, <2>1
  <2>5. ~list[j].completed
    BY <2>3, <2>4 DEF IInv, ListInv, EntryTrue
  <2>6. j \in Kept(m)
    BY <1>1, <2>3, <2>4, <2>5 DEF Kept
  <2>7. PICK i \in DOMAIN list' : h[i] = j
    BY <1>3, <2>6
  <2>8. i < k
    BY <1>3, <2>4, <2>7
  <2>9. i \in 1 .. k - 1 /\ list'[i].argv = "program" /\ list'[i].pid = 0
    BY <1>3, <1>6, <2>3, <2>7, <2>8
  <2> QED  BY <2>9 DEF Behind
<1>13. LineInv'
  BY <1>4, <1>12 DEF LineInv
<1>14. TerminalHandedBack'
  BY <1>4 DEF IInv, TerminalHandedBack
<1> QED  BY <1>7, <1>8, <1>9, <1>10, <1>11, <1>13, <1>14 DEF IInv, ListInv

LEMMA NextIInv ==
  ASSUME IInv, [Next]_vars
  PROVE  IInv'
<1>1. CASE UNCHANGED vars
  BY <1>1 DEF vars, IInv, TypeOK, ListInv, PidsApart, ChildrenListed, Free, EntryTrue, ProcInv,
              LineInv, Behind, TerminalHandedBack, PidOf
<1>2. CASE User
  <2>1. \A w \in {"program", "wait", "quit", "other", "blank", "fg", "bg"} : w \in Words
    BY DEF Words, Programs, Builtins
  <2>2. \A w \in Words : \A bg \in BOOLEAN : \A arg : ReadLine(w, bg, arg) => IInv'
    BY ReadLineIInv
  <2> QED  BY <1>2, <2>1, <2>2 DEF User
<1>3. CASE ShellStep
  BY <1>3, ForkIInv, ForkErrorIInv, TakeTerminalIInv, ContinueIInv, WaitsIInv,
     RegainTerminalIInv, EndLineIInv DEF ShellStep
<1>4. CASE \E p \in Pids : \/ SetPgid(p) \/ Exec(p) \/ Exit(p) \/ TtyRead(p)
                           \/ CtrlC(p) \/ CtrlZ(p) \/ Kill(p)
  BY <1>4, ChildrenIInv
<1> QED  BY <1>1, <1>2, <1>3, <1>4 DEF Next

(***************************************************************************)
(* The list, the kernel and the terminal stay in step: IInv holds in every *)
(* state, whatever order the shell, the children and the keyboard act in.  *)
(***************************************************************************)
THEOREM Invariance == Spec => []IInv
<1>1. Init => IInv
  BY InitIInv
<1>2. IInv /\ [Next]_vars => IInv'
  BY NextIInv
<1> QED  BY <1>1, <1>2, PTL DEF Spec

(***************************************************************************)
(* mark_process_status always finds what waitpid reports, and no entry is  *)
(* left that says something else of its process than the kernel.           *)
(***************************************************************************)
THEOREM ListAgrees == Spec => []ListIsTrue
<1>1. IInv => ListIsTrue
  <2> SUFFICES ASSUME IInv PROVE ListIsTrue
    OBVIOUS
  <2>1. ASSUME NEW p \in Pids \ Free PROVE OneEntry(p)
    <3>1. PICK i \in DOMAIN list : list[i].pid = p /\ ~list[i].completed
      BY DEF IInv, ListInv, ChildrenListed
    <3>2. p # 0
      BY ShellAssumption
    <3>3. {j \in DOMAIN list : list[j].pid = p /\ ~list[j].completed} = {i}
      BY <3>1, <3>2 DEF IInv, ListInv, PidsApart
    <3> QED  BY <3>3, FS_Singleton DEF OneEntry
  <2>2. ASSUME NEW i \in DOMAIN list, ~list[i].completed
        PROVE  /\ list[i].pid # 0 => list[i].pid \notin Free
               /\ list[i].stopped => proc[list[i].pid].st \in {"stopped", "zombie"}
    BY <2>2 DEF IInv, ListInv, EntryTrue
  <2> QED  BY <2>1, <2>2 DEF ListIsTrue
<1> QED  BY <1>1, Invariance, PTL

(***************************************************************************)
(* Whoever has the terminal is who the shell waits for, so that the prompt *)
(* always has it: the second tcsetpgrp of put_process_in_foreground is not *)
(* missed on any path.                                                     *)
(***************************************************************************)
THEOREM TerminalComesBack == Spec => []TerminalHandedBack
<1>1. IInv => TerminalHandedBack
  BY DEF IInv
<1> QED  BY <1>1, Invariance, PTL

\* cmd_wait returns: what is not completed is stopped, so no child runs.
LEMMA CmdWaitReturns ==
  ASSUME IInv, [Next]_vars, WaitReturns
  PROVE  NoneRunning
<1>1. pc = "cmd_wait" /\ pc' # "cmd_wait"
  BY DEF WaitReturns
<1>2. CmdWait
  BY <1>1 DEF Next, vars, User, ReadLine, ShellStep, Fork, ForkError, TakeTerminal, Continue,
              WaitForProcess, RegainTerminal, Background, EndLine, SetPgid, Exec, Exit,
              TtyRead, CtrlC, CtrlZ, Kill, Become
<1>3. Active = {}
  BY <1>1, <1>2 DEF CmdWait
<1> SUFFICES ASSUME NEW p \in Pids, p \notin Free
             PROVE  proc[p].st \in {"stopped", "zombie"}
  BY DEF NoneRunning, Free
<1>4. PICK i \in DOMAIN list : list[i].pid = p /\ ~list[i].completed
  BY DEF IInv, ListInv, ChildrenListed
<1>5. p # 0
  BY ShellAssumption
<1>6. list[i].argv # "wait"
  BY <1>1, <1>4, <1>5 DEF IInv, LineInv
<1>7. list[i].stopped
  BY <1>3, <1>4, <1>6 DEF Active
<1> QED  BY <1>4, <1>7 DEF IInv, ListInv, EntryTrue

\* A foreground command returns: its entry was marked, or no child is left.
LEMMA ForegroundWaitReturns ==
  ASSUME IInv, IInv', ForegroundReturns
  PROVE  ItsOwnReport
<1>1. /\ WaitForProcess /\ pc = "waitpid" /\ pc' = "regain"
      /\ cur # 0 /\ PidOf(cur) = list[cur].pid /\ list[cur].pid # 0
  BY DEF ForegroundReturns, PidOf, WaitForProcess
<1>2. /\ cur \in DOMAIN list /\ list[cur].pid \in Pids
      /\ UNCHANGED <<cur, cont, term>>
  <2>1. cur \in DOMAIN list
    BY <1>1, ListTypes DEF IInv
  <2> QED  BY <1>1, <2>1, ListTypes DEF IInv, WaitForProcess
<1>3. CASE Free = Pids /\ UNCHANGED proc
  BY <1>1, <1>2, <1>3 DEF ItsOwnReport, Free
<1>4. ASSUME NEW p \in Pids, Reported(p), proc' = AfterReport(p), list' = Mark(p),
             Waited(list', cur)
      PROVE  ItsOwnReport
  <2>1. Alike(list, list')
    BY <1>1, <1>2, <1>4, ReportStep
  <2>2. cur \in DOMAIN list' /\ list'[cur].pid = list[cur].pid
    BY <1>2, <2>1 DEF Alike
  <2>3. CASE list'[cur].stopped
    BY <2>3 DEF ItsOwnReport
  <2>4. CASE list'[cur].completed
    <3>1. list[cur].pid \in Free'
      BY <1>1, <2>2, <2>4 DEF IInv, ListInv, EntryTrue
    <3> QED  BY <1>1, <3>1 DEF ItsOwnReport, Free
  <2> QED  BY <1>4, <2>3, <2>4 DEF Waited
<1> QED  BY <1>1, <1>3, <1>4 DEF WaitForProcess

(***************************************************************************)
(* No wait ends too early: neither cmd_wait, with any number of children   *)
(* that stop, go on or end meanwhile, nor the wait for a foreground        *)
(* process, of which waitpid(-1) may report every other child first.       *)
(***************************************************************************)
THEOREM WaitsAreExact == Spec => WaitsExact
<1>1. IInv /\ IInv' /\ [Next]_vars => [WaitIsExact]_vars
  BY CmdWaitReturns, ForegroundWaitReturns DEF WaitIsExact
<1> QED  BY <1>1, Invariance, PTL DEF Spec, WaitsExact
=============================================================================
