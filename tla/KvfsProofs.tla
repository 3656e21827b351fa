------------------------------ MODULE KvfsProofs ------------------------------
(***************************************************************************)
(* Proofs about Kvfs: for any names, file sizes and numbers of files, and  *)
(* whether or not the disk fills up or the daemon is killed, the table and *)
(* its saves are a flat directory that is never mixed up.                  *)
(***************************************************************************)
EXTENDS KvfsProps, SequenceTheorems, TLAPS

-----------------------------------------------------------------------------
(***************************************************************************)
(* Tables: looking up a name.                                              *)
(***************************************************************************)

\* A table is a sequence of files.
LEMMA TableShape ==
  ASSUME NEW t \in Tables
  PROVE  /\ t \in Seq(FileNodes) /\ Len(t) \in Nat /\ DOMAIN t = 1 .. Len(t)
         /\ \A i \in DOMAIN t : t[i] \in FileNodes /\ t[i].name \in Names
<1>1. t \in Seq(FileNodes)
  BY DEF Tables
<1>2. Len(t) \in Nat /\ DOMAIN t = 1 .. Len(t)
  BY <1>1, LenProperties
<1>3. \A i \in DOMAIN t : t[i] \in FileNodes
  BY <1>1, <1>2, ElementOfSeq
<1> QED  BY <1>1, <1>2, <1>3 DEF FileNodes

\* lookup finds the entry of a name.
LEMMA LookupFound ==
  ASSUME NEW t \in Tables, NEW i \in DOMAIN t
  PROVE  Lookup(t, t[i].name) = i
<1> DEFINE I == {j \in 1 .. Len(t) : t[j].name = t[i].name}
<1>1. I = {i}
  BY TableShape DEF Tables
<1>2. i \in Nat
  BY TableShape
<1>3. Min({i}) = i
  BY <1>2 DEF Min
<1> QED  BY <1>1, <1>3 DEF Lookup, SelectInSeq

\* lookup of a name that no entry has.
LEMMA LookupMissing ==
  ASSUME NEW t \in Tables, NEW n, \A i \in DOMAIN t : t[i].name # n
  PROVE  Lookup(t, n) = 0
  BY TableShape DEF Lookup, SelectInSeq

\* What lookup returns is 0 or an entry with the name.
LEMMA LookupResult ==
  ASSUME NEW t \in Tables, NEW n
  PROVE  \/ Lookup(t, n) = 0 /\ \A i \in DOMAIN t : t[i].name # n
         \/ /\ Lookup(t, n) \in DOMAIN t /\ Lookup(t, n) # 0
            /\ t[Lookup(t, n)].name = n
<1>1. CASE \A i \in DOMAIN t : t[i].name # n
  BY <1>1, LookupMissing
<1>2. ASSUME NEW i \in DOMAIN t, t[i].name = n
      PROVE  Lookup(t, n) = i /\ i # 0
  BY <1>2, LookupFound, TableShape
<1> QED  BY <1>1, <1>2

\* The directory of a table: its names, and each with the content of its entry.
LEMMA TreeOf ==
  ASSUME NEW t \in Tables
  PROVE  /\ \A n : n \in DOMAIN Tree(t) <=> \E i \in DOMAIN t : t[i].name = n
         /\ \A i \in DOMAIN t : Tree(t)[t[i].name] = Content(t[i])
         /\ Tree(t) = [n \in DOMAIN Tree(t) |-> Tree(t)[n]]
         /\ \A n : n \in DOMAIN Tree(t) <=> Lookup(t, n) # 0
         /\ \A n \in DOMAIN Tree(t) : Tree(t)[n] = Content(t[Lookup(t, n)])
<1>2. \A n : n \in DOMAIN Tree(t) <=> \E i \in DOMAIN t : t[i].name = n
  BY DEF Tree, ToSet
<1>3. \A n \in DOMAIN Tree(t) : Tree(t)[n] = Content(t[Lookup(t, n)])
  BY DEF Tree
<1>4. \A i \in DOMAIN t : Tree(t)[t[i].name] = Content(t[i])
  BY <1>2, <1>3, LookupFound
<1>5. Tree(t) = [n \in DOMAIN Tree(t) |-> Tree(t)[n]]
  BY DEF Tree
<1>6. \A n : n \in DOMAIN Tree(t) <=> Lookup(t, n) # 0
  BY <1>2, LookupResult
<1> QED  BY <1>2, <1>3, <1>4, <1>5, <1>6

\* The empty table is the empty directory.
LEMMA EmptyTable ==
  /\ <<>> \in Tables /\ DOMAIN Tree(<<>>) = {} /\ Tree(<<>>) = Flat!NoFiles
<1>1. <<>> \in Tables
  BY EmptySeq DEF Tables
<1>2. DOMAIN Tree(<<>>) = {}
  <2>1. DOMAIN <<>> = {}
    BY <1>1, TableShape, EmptySeq
  <2> QED  BY <1>1, <2>1, TreeOf
<1> QED  BY <1>1, <1>2, TreeOf DEF Flat!NoFiles

-----------------------------------------------------------------------------
(***************************************************************************)
(* Tables: what the handlers do to them.                                   *)
(***************************************************************************)

\* The contents that files can have, as the directory has them.
Contents == UNION {[1 .. k -> Bytes \cup {Junk}] : k \in 0 .. MaxData}

LEMMA ContentType ==
  ASSUME NEW f \in FileNodes
  PROVE  Content(f) \in Contents
<1>1. /\ f.size \in 0 .. MaxData /\ MaxData \in Nat
      /\ f.data \in [0 .. MaxData - 1 -> Bytes \cup {Junk}]
  BY KvfsAssumption DEF FileNodes, Data
<1>2. \A k \in 1 .. f.size : f.data[k - 1] \in Bytes \cup {Junk}
  BY <1>1
<1>3. Content(f) \in [1 .. f.size -> Bytes \cup {Junk}]
  BY <1>2 DEF Content
<1> QED  BY <1>1, <1>3 DEF Contents

\* A file that nobody has written is empty.
LEMMA EmptyContent ==
  ASSUME NEW f, f.size = 0
  PROVE  Content(f) = <<>>
<1>1. Content(f) = [k \in 1 .. 0 |-> f.data[k - 1]]
  BY DEF Content
<1>2. [k \in 1 .. 0 |-> f.data[k - 1]] \in Seq({}) /\ <<>> \in Seq({})
  BY EmptySeq
<1>3. Len([k \in 1 .. 0 |-> f.data[k - 1]]) = 0 /\ Len(<<>>) = 0
  BY EmptySeq
<1> QED  BY <1>1, <1>2, <1>3, SeqEqual

\* The directory of u is that of t and the new entry f.
Added(t, f, u) ==
  /\ u \in Tables
  /\ DOMAIN Tree(u) = DOMAIN Tree(t) \cup {f.name}
  /\ Tree(u)[f.name] = Content(f)
  /\ \A n \in DOMAIN Tree(t) : Tree(u)[n] = Tree(t)[n]

\* An entry is added at the end: kvfs_mknod.
LEMMA EntryAdded ==
  ASSUME NEW t \in Tables, NEW f \in FileNodes, Lookup(t, f.name) = 0
  PROVE  Added(t, f, Append(t, f))
<1> DEFINE u == Append(t, f)
<1>1. /\ u \in Seq(FileNodes) /\ DOMAIN u = 1 .. Len(t) + 1
      /\ DOMAIN t = 1 .. Len(t) /\ Len(t) \in Nat
      /\ \A i \in DOMAIN t : i \in DOMAIN u /\ u[i] = t[i]
      /\ Len(t) + 1 \in DOMAIN u /\ u[Len(t) + 1] = f
  <2>1. t \in Seq(FileNodes) /\ DOMAIN t = 1 .. Len(t) /\ Len(t) \in Nat
    BY TableShape
  <2>2. /\ u \in Seq(FileNodes) /\ Len(u) = Len(t) + 1
        /\ \A i \in 1 .. Len(t) : u[i] = t[i]
        /\ u[Len(t) + 1] = f
    BY <2>1, AppendProperties
  <2>3. DOMAIN u = 1 .. Len(u)
    BY <2>2, LenProperties
  <2> QED  BY <2>1, <2>2, <2>3
<1> HIDE DEF u
<1>2. \A i \in DOMAIN t : t[i].name # f.name
  BY LookupFound, TableShape
<1>3. u \in Tables
  <2> SUFFICES ASSUME NEW i \in DOMAIN u, NEW j \in DOMAIN u, u[i].name = u[j].name
               PROVE  i = j
    BY <1>1 DEF Tables
  <2>1. CASE i \in DOMAIN t /\ j \in DOMAIN t
    BY <1>1, <2>1 DEF Tables
  <2>2. CASE i \notin DOMAIN t \/ j \notin DOMAIN t
    <3>1. \A k \in DOMAIN u : k \notin DOMAIN t => k = Len(t) + 1
      BY <1>1
    <3> QED  BY <1>1, <1>2, <2>2, <3>1
  <2> QED  BY <2>1, <2>2
<1>4. /\ \A n : n \in DOMAIN Tree(u) <=> \E i \in DOMAIN u : u[i].name = n
      /\ \A i \in DOMAIN u : Tree(u)[u[i].name] = Content(u[i])
      /\ \A n : n \in DOMAIN Tree(t) <=> \E i \in DOMAIN t : t[i].name = n
      /\ \A i \in DOMAIN t : Tree(t)[t[i].name] = Content(t[i])
  BY <1>3, TreeOf
<1>5. DOMAIN Tree(u) = DOMAIN Tree(t) \cup {f.name}
  <2>1. \A i \in DOMAIN u : i \in DOMAIN t \/ i = Len(t) + 1
    BY <1>1
  <2>2. ASSUME NEW n \in DOMAIN Tree(u) PROVE n \in DOMAIN Tree(t) \cup {f.name}
    BY <1>1, <1>4, <2>1
  <2>3. ASSUME NEW n \in DOMAIN Tree(t) PROVE n \in DOMAIN Tree(u)
    BY <1>1, <1>4
  <2>4. f.name \in DOMAIN Tree(u)
    BY <1>1, <1>4
  <2> QED  BY <2>2, <2>3, <2>4
<1>6. Added(t, f, u)
  BY <1>1, <1>3, <1>4, <1>5 DEF Added
<1> QED  BY <1>6 DEF u

\* An entry is edited: the table's shape.
LEMMA EditShape ==
  ASSUME NEW t \in Tables, NEW i \in DOMAIN t, NEW f \in FileNodes
  PROVE  LET u == [t EXCEPT ![i] = f] IN
         /\ u \in Seq(FileNodes) /\ DOMAIN u = DOMAIN t
         /\ u[i] = f /\ \A j \in DOMAIN t \ {i} : u[j] = t[j]
<1>1. t \in Seq(FileNodes) /\ DOMAIN t = 1 .. Len(t) /\ i \in 1 .. Len(t)
  BY TableShape
<1>2. [t EXCEPT ![i] = f] \in Seq(FileNodes)
  BY <1>1, ExceptSeq
<1> QED  BY <1>1, <1>2

\* The directory of u is that of t with entry i edited to f.
Edited(t, i, f, u) ==
  /\ u \in Tables
  /\ DOMAIN Tree(u) = (DOMAIN Tree(t) \ {t[i].name}) \cup {f.name}
  /\ Tree(u)[f.name] = Content(f)
  /\ \A n \in DOMAIN Tree(t) \ {t[i].name} : Tree(u)[n] = Tree(t)[n]

\* An entry is edited, and may get a name that no other has: kvfs_write,
\* kvfs_utimens, kvfs_rename.
LEMMA EntryEdited ==
  ASSUME NEW t \in Tables, NEW i \in DOMAIN t, NEW f \in FileNodes,
         f.name = t[i].name \/ Lookup(t, f.name) = 0,
         NEW u, u \in Seq(FileNodes), DOMAIN u = DOMAIN t, u[i] = f,
         \A j \in DOMAIN t \ {i} : u[j] = t[j]
  PROVE  Edited(t, i, f, u)
<1>1. /\ u \in Seq(FileNodes) /\ DOMAIN u = DOMAIN t
      /\ u[i] = f /\ \A j \in DOMAIN t \ {i} : u[j] = t[j]
  OBVIOUS
<1>2. \A j \in DOMAIN t \ {i} : t[j].name # f.name /\ t[j].name # t[i].name
  BY LookupFound, TableShape DEF Tables
<1>3. u \in Tables
  BY <1>1, <1>2 DEF Tables
<1>4. /\ \A n : n \in DOMAIN Tree(u) <=> \E j \in DOMAIN u : u[j].name = n
      /\ \A j \in DOMAIN u : Tree(u)[u[j].name] = Content(u[j])
      /\ \A n : n \in DOMAIN Tree(t) <=> \E j \in DOMAIN t : t[j].name = n
      /\ \A j \in DOMAIN t : Tree(t)[t[j].name] = Content(t[j])
  BY <1>3, TreeOf
<1>5. DOMAIN Tree(u) = (DOMAIN Tree(t) \ {t[i].name}) \cup {f.name}
  <2>1. ASSUME NEW n \in DOMAIN Tree(u)
        PROVE  n \in (DOMAIN Tree(t) \ {t[i].name}) \cup {f.name}
    <3>1. PICK j \in DOMAIN u : u[j].name = n
      BY <1>4
    <3>2. CASE j # i
      BY <1>1, <1>2, <1>4, <3>1, <3>2
    <3> QED  BY <1>1, <3>1, <3>2
  <2>2. ASSUME NEW n \in DOMAIN Tree(t) \ {t[i].name} PROVE n \in DOMAIN Tree(u)
    <3>1. PICK j \in DOMAIN t \ {i} : t[j].name = n
      BY <1>4
    <3> QED  BY <1>1, <1>4, <3>1
  <2>3. f.name \in DOMAIN Tree(u)
    BY <1>1, <1>4
  <2> QED  BY <2>1, <2>2, <2>3
<1>6. Tree(u)[f.name] = Content(f)
  BY <1>1, <1>4
<1>7. ASSUME NEW n \in DOMAIN Tree(t) \ {t[i].name} PROVE Tree(u)[n] = Tree(t)[n]
  <2>1. PICK j \in DOMAIN t \ {i} : t[j].name = n
    BY <1>4
  <2>2. j \in DOMAIN u /\ u[j] = t[j]
    BY <1>1
  <2>3. Tree(u)[u[j].name] = Content(u[j]) /\ Tree(t)[t[j].name] = Content(t[j])
    BY <1>4, <2>2
  <2> QED  BY <2>1, <2>2, <2>3
<1> QED  BY <1>3, <1>5, <1>6, <1>7 DEF Edited

\* An entry is removed and those after it move up: kvfs_unlink.
LEMMA EntryRemoved ==
  ASSUME NEW t \in Tables, NEW i \in DOMAIN t, NEW u, u = RemoveAt(t, i)
  PROVE  /\ u \in Tables
         /\ DOMAIN Tree(u) = DOMAIN Tree(t) \ {t[i].name}
         /\ \A n \in DOMAIN Tree(u) : Tree(u)[n] = Tree(t)[n]
<1>1. t \in Seq(FileNodes) /\ DOMAIN t = 1 .. Len(t) /\ Len(t) \in Nat /\ i \in 1 .. Len(t)
  BY TableShape
<1>2. \A k \in 1 .. Len(t) : t[k] \in FileNodes
  BY <1>1, TableShape
<1> DEFINE a == SubSeq(t, 1, i - 1)  b == SubSeq(t, i + 1, Len(t))
<1>3. /\ a \in Seq(FileNodes) /\ Len(a) = i - 1 /\ \A k \in 1 .. i - 1 : a[k] = t[k]
  <2>1. i - 1 \in Int /\ \A k \in 1 .. i - 1 : t[k] \in FileNodes
    BY <1>1, <1>2
  <2>2. /\ a \in Seq(FileNodes)
        /\ Len(a) = IF 1 <= i - 1 THEN i - 1 - 1 + 1 ELSE 0
        /\ \A k \in 1 .. i - 1 - 1 + 1 : a[k] = t[1 + k - 1]
    BY <2>1, SubSeqProperties
  <2> QED  BY <1>1, <2>2
<1>4. /\ b \in Seq(FileNodes) /\ Len(b) = Len(t) - i
      /\ \A k \in 1 .. Len(t) - i : b[k] = t[i + k]
  <2>1. i + 1 \in Int /\ \A k \in i + 1 .. Len(t) : t[k] \in FileNodes
    BY <1>1, <1>2
  <2>2. /\ b \in Seq(FileNodes)
        /\ Len(b) = IF i + 1 <= Len(t) THEN Len(t) - (i + 1) + 1 ELSE 0
        /\ \A k \in 1 .. Len(t) - (i + 1) + 1 : b[k] = t[i + 1 + k - 1]
    BY <1>1, <2>1, SubSeqProperties
  <2> QED  BY <1>1, <2>2
<1>5. /\ u \in Seq(FileNodes) /\ DOMAIN u = 1 .. Len(t) - 1
      /\ \A k \in 1 .. Len(t) - 1 : u[k] = IF k < i THEN t[k] ELSE t[k + 1]
  <2> HIDE DEF a, b
  <2>1. u = a \o b
    BY DEF RemoveAt, a, b
  <2>2. /\ a \o b \in Seq(FileNodes) /\ Len(a \o b) = Len(a) + Len(b)
        /\ \A k \in 1 .. Len(a) + Len(b) : (a \o b)[k] = IF k <= Len(a) THEN a[k] ELSE b[k - Len(a)]
    BY <1>3, <1>4, ConcatProperties
  <2>3. Len(a) + Len(b) = Len(t) - 1
    BY <1>1, <1>3, <1>4
  <2>4. DOMAIN (a \o b) = 1 .. Len(t) - 1
    BY <2>2, <2>3, LenProperties
  <2>5. \A k \in 1 .. Len(t) - 1 : u[k] = IF k < i THEN t[k] ELSE t[k + 1]
    <3> SUFFICES ASSUME NEW k \in 1 .. Len(t) - 1
                 PROVE  u[k] = IF k < i THEN t[k] ELSE t[k + 1]
      OBVIOUS
    <3>1. CASE k < i
      BY <1>1, <1>3, <2>1, <2>2, <2>3, <3>1
    <3>2. CASE ~(k < i)
      <4>1. k - Len(a) \in 1 .. Len(t) - i /\ i + (k - Len(a)) = k + 1 /\ ~(k <= Len(a))
        BY <1>1, <1>3, <3>2
      <4> QED  BY <1>4, <2>1, <2>2, <2>3, <3>2, <4>1
    <3> QED  BY <3>1, <3>2
  <2> QED  BY <2>1, <2>2, <2>4, <2>5
<1> HIDE DEF a, b
<1>6. u \in Tables
  <2> SUFFICES ASSUME NEW j \in DOMAIN u, NEW k \in DOMAIN u, u[j].name = u[k].name
               PROVE  j = k
    BY <1>5 DEF Tables
  <2>1. \A x, y \in DOMAIN t : t[x].name = t[y].name => x = y
    BY DEF Tables
  <2>2. PICK x \in DOMAIN t : u[j] = t[x] /\ x = IF j < i THEN j ELSE j + 1
    BY <1>1, <1>5
  <2>3. PICK y \in DOMAIN t : u[k] = t[y] /\ y = IF k < i THEN k ELSE k + 1
    BY <1>1, <1>5
  <2>4. x = y
    BY <2>1, <2>2, <2>3
  <2> QED  BY <1>1, <1>5, <2>2, <2>3, <2>4
<1>7. /\ \A k \in DOMAIN u : \E j \in DOMAIN t \ {i} : u[k] = t[j]
      /\ \A j \in DOMAIN t \ {i} : \E k \in DOMAIN u : u[k] = t[j]
  <2>1. \A k \in DOMAIN u : \E j \in DOMAIN t \ {i} : u[k] = t[j]
    BY <1>1, <1>5
  <2>2. ASSUME NEW j \in DOMAIN t \ {i}
        PROVE  \E k \in DOMAIN u : u[k] = t[j]
    <3>1. CASE j < i
      BY <1>1, <1>5, <3>1
    <3>2. CASE j > i
      <4>1. j - 1 \in DOMAIN u /\ u[j - 1] = t[j]
        BY <1>1, <1>5, <3>2
      <4> QED  BY <4>1
    <3> QED  BY <1>1, <3>1, <3>2
  <2> QED  BY <2>1, <2>2
<1>8. /\ \A n : n \in DOMAIN Tree(u) <=> \E j \in DOMAIN u : u[j].name = n
      /\ \A j \in DOMAIN u : Tree(u)[u[j].name] = Content(u[j])
      /\ \A n : n \in DOMAIN Tree(t) <=> \E j \in DOMAIN t : t[j].name = n
      /\ \A j \in DOMAIN t : Tree(t)[t[j].name] = Content(t[j])
  BY <1>6, TreeOf
<1>9. DOMAIN Tree(u) = DOMAIN Tree(t) \ {t[i].name}
  <2>1. \A j \in DOMAIN t \ {i} : t[j].name # t[i].name
    BY DEF Tables
  <2>2. ASSUME NEW n \in DOMAIN Tree(u) PROVE n \in DOMAIN Tree(t) \ {t[i].name}
    <3>1. PICK k \in DOMAIN u : u[k].name = n
      BY <1>8
    <3>2. PICK j \in DOMAIN t \ {i} : u[k] = t[j]
      BY <1>7
    <3> QED  BY <1>8, <2>1, <3>1, <3>2
  <2>3. ASSUME NEW n \in DOMAIN Tree(t) \ {t[i].name} PROVE n \in DOMAIN Tree(u)
    <3>1. PICK j \in DOMAIN t \ {i} : t[j].name = n
      BY <1>8
    <3>2. PICK k \in DOMAIN u : u[k] = t[j]
      BY <1>7
    <3> QED  BY <1>8, <3>1, <3>2
  <2> QED  BY <2>2, <2>3
<1>10. ASSUME NEW n \in DOMAIN Tree(u)
       PROVE  Tree(u)[n] = Tree(t)[n]
  <2>1. PICK k \in DOMAIN u : n = u[k].name
    BY <1>8
  <2>2. PICK j \in DOMAIN t : u[k] = t[j]
    BY <1>7
  <2> QED  BY <1>8, <2>1, <2>2
<1> QED  BY <1>6, <1>9, <1>10

-----------------------------------------------------------------------------
(***************************************************************************)
(* What each handler does to the directory.                                *)
(***************************************************************************)

\* kvfs_mknod adds an empty file.
LEMMA MknodTree ==
  ASSUME TypeOK, NEW n \in Names, NEW t \in Times, Mknod(n, t)
  PROVE  /\ files' \in Tables /\ n \notin DOMAIN Tree(files)
         /\ DOMAIN Tree(files') = DOMAIN Tree(files) \cup {n}
         /\ Tree(files')[n] = <<>>
         /\ \A m \in DOMAIN Tree(files) : Tree(files')[m] = Tree(files)[m]
<1>1. files \in Tables /\ Lookup(files, n) = 0 /\ files' = Append(files, NewNode(n, t))
  BY DEF TypeOK, Mknod
<1>2. NewNode(n, t) \in FileNodes /\ NewNode(n, t).name = n /\ NewNode(n, t).size = 0
  BY KvfsAssumption DEF NewNode, FileNodes, Data
<1>3. Content(NewNode(n, t)) = <<>>
  BY <1>2, EmptyContent
<1>4. n \notin DOMAIN Tree(files)
  BY <1>1, TreeOf
<1> DEFINE f == NewNode(n, t)
<1>5. f \in FileNodes /\ Lookup(files, f.name) = 0 /\ files' = Append(files, f)
  BY <1>1, <1>2
<1>7. f.name = n /\ Content(f) = <<>>
  BY <1>2, <1>3 DEF f
<1> HIDE DEF f
<1>6. /\ files' \in Tables
      /\ DOMAIN Tree(files') = DOMAIN Tree(files) \cup {f.name}
      /\ Tree(files')[f.name] = Content(f)
      /\ \A m \in DOMAIN Tree(files) : Tree(files')[m] = Tree(files)[m]
  <2>1. Added(files, f, Append(files, f))
    BY <1>1, <1>5, EntryAdded
  <2>2. Added(files, f, files')
    BY <1>5, <2>1
  <2> QED  BY <2>2 DEF Added
<1> QED  BY <1>4, <1>6, <1>7

\* kvfs_utimens leaves all contents as they are.
LEMMA UtimensTree ==
  ASSUME TypeOK, NEW n \in Names, NEW t \in Times, Utimens(n, t)
  PROVE  files' \in Tables /\ Tree(files') = Tree(files)
<1> DEFINE i == Lookup(files, n)
           f == [files[i] EXCEPT !.time = t]
<1>1. /\ files \in Tables /\ i \in DOMAIN files /\ files[i].name = n
      /\ files[i] \in FileNodes /\ n \in DOMAIN Tree(files)
      /\ Tree(files)[n] = Content(files[i])
  BY LookupResult, TableShape, TreeOf DEF TypeOK, Utimens
<1>2. files' = [files EXCEPT ![i] = f]
  BY DEF Utimens
<1>3. f \in FileNodes /\ f.name = n /\ f.size = files[i].size /\ f.data = files[i].data
  BY <1>1 DEF FileNodes
<1> HIDE DEF i, f
<1>4. Content(f) = Content(files[i])
  BY <1>3 DEF Content
<1>5. /\ files' \in Tables /\ DOMAIN Tree(files') = DOMAIN Tree(files)
      /\ \A m \in DOMAIN Tree(files) : Tree(files')[m] = Tree(files)[m]
  <2>1. f.name = files[i].name \/ Lookup(files, f.name) = 0
    BY <1>1, <1>3
  <2>3. /\ files' \in Seq(FileNodes) /\ DOMAIN files' = DOMAIN files /\ files'[i] = f
        /\ \A j \in DOMAIN files \ {i} : files'[j] = files[j]
    BY <1>1, <1>2, <1>3, EditShape
  <2>4. f \in FileNodes /\ i \in DOMAIN files /\ files \in Tables
    BY <1>1, <1>3
  <2>2. Edited(files, i, f, files')
    BY <2>1, <2>3, <2>4, EntryEdited
  <2> QED  BY <1>1, <1>3, <1>4, <2>2 DEF Edited
<1>6. /\ Tree(files) = [m \in DOMAIN Tree(files) |-> Tree(files)[m]]
      /\ Tree(files') = [m \in DOMAIN Tree(files') |-> Tree(files')[m]]
  BY <1>1, <1>5, TreeOf
<1> QED  BY <1>5, <1>6

\* kvfs_write changes the content of its file only.
LEMMA WriteTree ==
  ASSUME TypeOK, NEW n \in Names, NEW off \in 0 .. MaxData, NEW buf \in Buffers,
         Write(n, off, buf)
  PROVE  \/ files' = files
         \/ /\ files' \in Tables /\ n \in DOMAIN Tree(files)
            /\ DOMAIN Tree(files') = DOMAIN Tree(files)
            /\ Tree(files')[n] \in Contents
            /\ \A m \in DOMAIN Tree(files) \ {n} : Tree(files')[m] = Tree(files)[m]
<1> SUFFICES ASSUME files' # files
             PROVE  /\ files' \in Tables /\ n \in DOMAIN Tree(files)
                    /\ DOMAIN Tree(files') = DOMAIN Tree(files)
                    /\ Tree(files')[n] \in Contents
                    /\ \A m \in DOMAIN Tree(files) \ {n} : Tree(files')[m] = Tree(files)[m]
  OBVIOUS
<1> DEFINE i == Lookup(files, n)
           f == Rewritten(files[i], off, buf)
<1>1. /\ WriteReply(n, off, buf) # 0 /\ i # 0
      /\ off + Len(buf) <= MaxData
      /\ files' = [files EXCEPT ![i] = f]
  <2>1. PICK k \in 1 .. MaxData + 1 : buf \in [1 .. k -> Bytes]
    BY DEF Buffers
  <2>2. MaxData \in Nat /\ Len(buf) = k
    BY <2>1, KvfsAssumption
  <2> QED  BY <2>2 DEF Write, WriteReply
<1>2. /\ files \in Tables /\ i \in DOMAIN files /\ files[i].name = n
      /\ files[i] \in FileNodes /\ n \in DOMAIN Tree(files)
  BY <1>1, LookupResult, TableShape, TreeOf DEF TypeOK
<1>3. f \in FileNodes /\ f.name = n
  <2>1. PICK k \in 1 .. MaxData + 1 : buf \in [1 .. k -> Bytes]
    BY DEF Buffers
  <2>2. /\ MaxData \in Nat /\ Len(buf) = k /\ off + Len(buf) \in 0 .. MaxData
        /\ files[i].data \in [0 .. MaxData - 1 -> Bytes \cup {Junk}]
    BY <1>1, <1>2, <2>1, KvfsAssumption DEF FileNodes, Data
  <2>3. Patch(files[i].data, off, buf) \in Data
    <3>1. ASSUME NEW j \in 0 .. MaxData - 1, j \in off .. off + Len(buf) - 1
          PROVE  buf[j - off + 1] \in Bytes
      BY <2>1, <2>2, <3>1
    <3>2. Patch(files[i].data, off, buf)
            = [j \in 0 .. MaxData - 1 |-> IF j \in off .. off + Len(buf) - 1
                                          THEN buf[j - off + 1] ELSE files[i].data[j]]
      BY <2>2 DEF Patch
    <3> QED  BY <2>2, <3>1, <3>2 DEF Data
  <2> QED  BY <1>2, <2>2, <2>3 DEF Rewritten, FileNodes
<1> HIDE DEF i, f
<1>4. Content(f) \in Contents
  BY <1>3, ContentType
<1>5. f.name = files[i].name \/ Lookup(files, f.name) = 0
  BY <1>2, <1>3
<1>7. /\ files' \in Seq(FileNodes) /\ DOMAIN files' = DOMAIN files /\ files'[i] = f
      /\ \A j \in DOMAIN files \ {i} : files'[j] = files[j]
  BY <1>1, <1>2, <1>3, EditShape
<1>8. f \in FileNodes /\ i \in DOMAIN files /\ files \in Tables
  BY <1>2, <1>3
<1>6. Edited(files, i, f, files')
  BY <1>5, <1>7, <1>8, EntryEdited
<1> QED  BY <1>2, <1>3, <1>4, <1>6 DEF Edited

\* kvfs_unlink removes its file.
LEMMA UnlinkTree ==
  ASSUME TypeOK, NEW n \in Names, Unlink(n)
  PROVE  /\ files' \in Tables /\ n \in DOMAIN Tree(files)
         /\ DOMAIN Tree(files') = DOMAIN Tree(files) \ {n}
         /\ \A m \in DOMAIN Tree(files') : Tree(files')[m] = Tree(files)[m]
<1> DEFINE i == Lookup(files, n)
<1>1. /\ files \in Tables /\ i \in DOMAIN files /\ files[i].name = n
      /\ n \in DOMAIN Tree(files)
  BY LookupResult, TreeOf DEF TypeOK, Unlink
<1>2. files' = RemoveAt(files, i)
  BY DEF Unlink, RemoveEntry
<1> QED  BY <1>1, <1>2, EntryRemoved

\* kvfs_rename gives a file another name, and its content is kept.
LEMMA RenameTree ==
  ASSUME TypeOK, ~RenameOnto, NEW n \in Names, NEW m \in Names, Rename(n, m)
  PROVE  /\ files' \in Tables /\ n \in DOMAIN Tree(files) /\ m \notin DOMAIN Tree(files)
         /\ DOMAIN Tree(files') = (DOMAIN Tree(files) \ {n}) \cup {m}
         /\ Tree(files')[m] = Tree(files)[n]
         /\ \A k \in DOMAIN Tree(files) \ {n} : Tree(files')[k] = Tree(files)[k]
<1> DEFINE i == Lookup(files, n)
           f == [files[i] EXCEPT !.name = m]
<1>1. /\ files \in Tables /\ i \in DOMAIN files /\ files[i].name = n
      /\ files[i] \in FileNodes /\ n \in DOMAIN Tree(files)
      /\ Tree(files)[n] = Content(files[i])
  BY LookupResult, TableShape, TreeOf DEF TypeOK, Rename
<1>2. Lookup(files, m) = 0 /\ m \notin DOMAIN Tree(files)
  BY <1>1, TreeOf DEF Rename
<1>3. files' = [files EXCEPT ![i] = f]
  BY DEF Rename
<1>4. f \in FileNodes /\ f.name = m /\ f.size = files[i].size /\ f.data = files[i].data
  BY <1>1 DEF FileNodes
<1> HIDE DEF i, f
<1>5. Content(f) = Content(files[i])
  BY <1>4 DEF Content
<1>6. f.name = files[i].name \/ Lookup(files, f.name) = 0
  BY <1>2, <1>4
<1>8. /\ files' \in Seq(FileNodes) /\ DOMAIN files' = DOMAIN files /\ files'[i] = f
      /\ \A j \in DOMAIN files \ {i} : files'[j] = files[j]
  BY <1>1, <1>3, <1>4, EditShape
<1>9. f \in FileNodes /\ i \in DOMAIN files /\ files \in Tables
  BY <1>1, <1>4
<1>7. Edited(files, i, f, files')
  BY <1>6, <1>8, <1>9, EntryEdited
<1> QED  BY <1>1, <1>2, <1>4, <1>5, <1>7 DEF Edited

-----------------------------------------------------------------------------
(***************************************************************************)
(* What a save leaves on disk.                                             *)
(***************************************************************************)

\* The first entries of a table, written to an empty file.
LEMMA PrefixOf ==
  ASSUME NEW s \in Seq(FileNodes), NEW k \in 0 .. Len(s)
  PROVE  /\ SubSeq(s, 1, k) \in Seq(FileNodes) /\ Len(SubSeq(s, 1, k)) = k
         /\ SubSeq(s, 1, Len(s)) = s /\ SubSeq(s, 1, 0) = <<>>
         /\ Overlay(<<>>, s) = s
<1>1. Len(s) \in Nat /\ DOMAIN s = 1 .. Len(s) /\ \A j \in 1 .. Len(s) : s[j] \in FileNodes
  BY LenProperties, ElementOfSeq
<1>2. ASSUME NEW m \in 0 .. Len(s)
      PROVE  /\ SubSeq(s, 1, m) \in Seq(FileNodes) /\ Len(SubSeq(s, 1, m)) = m
             /\ \A j \in 1 .. m : SubSeq(s, 1, m)[j] = s[j]
  <2>1. m \in Int /\ \A j \in 1 .. m : s[j] \in FileNodes
    BY <1>1
  <2>2. /\ SubSeq(s, 1, m) \in Seq(FileNodes)
        /\ Len(SubSeq(s, 1, m)) = IF 1 <= m THEN m - 1 + 1 ELSE 0
        /\ \A j \in 1 .. m - 1 + 1 : SubSeq(s, 1, m)[j] = s[1 + j - 1]
    BY <2>1, SubSeqProperties
  <2> QED  BY <1>1, <2>2
<1>3. SubSeq(s, 1, Len(s)) = s
  BY <1>1, <1>2, SeqEqual
<1>4. SubSeq(s, 1, 0) = <<>>
  BY <1>1, <1>2, EmptySeq
<1>5. Overlay(<<>>, s) = s
  <2>1. Len(<<>>) = 0 /\ <<>> \in Seq(FileNodes)
    BY EmptySeq
  <2>2. SubSeq(<<>>, Len(s) + 1, 0) = <<>>
    BY <1>1, <2>1, SubSeqProperties, EmptySeq
  <2>3. s \o <<>> = s
    BY ConcatEmptySeq
  <2> QED  BY <2>1, <2>2, <2>3 DEF Overlay
<1>6. SubSeq(s, 1, k) \in Seq(FileNodes) /\ Len(SubSeq(s, 1, k)) = k
  BY <1>2
<1> QED  BY <1>3, <1>4, <1>5, <1>6

\* The entries are written after the count, all of them or the first few.
LEMMA NodesWritten ==
  ASSUME IInv, pc = "nodes", NEW k \in 0 .. Len(files), DiskFull \/ k = Len(files)
  PROVE  /\ Written(k) \in [exists : BOOLEAN, count : Nat \cup {NoCount},
                            nodes : Seq(FileNodes), padded : BOOLEAN]
         /\ Written(k).exists = disk.exists
         /\ disk.count # NoCount /\ k = Len(files) => Loaded(Written(k)) = {files}
         /\ ~(disk.count # NoCount /\ k = Len(files)) =>
              DiskFull /\ Loaded(Written(k)) \subseteq {<<>>}
<1> DEFINE R == [exists : BOOLEAN, count : Nat \cup {NoCount}, nodes : Seq(FileNodes),
                 padded : BOOLEAN]
<1>1. /\ disk \in R /\ disk.nodes = <<>> /\ torn
      /\ files \in Seq(FileNodes) /\ Len(files) \in Nat /\ MaxFiles \in Nat
      /\ disk.count = Len(files) \/ (DiskFull /\ disk.count = NoCount)
      /\ Loaded(disk) \subseteq {<<>>}
  BY TableShape, KvfsAssumption DEF IInv, TypeOK, StepInv, LoadInv, Tables
<1> DEFINE w == SubSeq(files, 1, k)
<1>2. /\ w \in Seq(FileNodes) /\ Len(w) = k /\ Overlay(<<>>, w) = w
      /\ k = Len(files) => w = files
  <2>1. w \in Seq(FileNodes) /\ Len(w) = k /\ (k = Len(files) => w = files)
    BY <1>1, PrefixOf
  <2>2. 0 \in 0 .. Len(w)
    BY <2>1
  <2> HIDE DEF w
  <2>3. Overlay(<<>>, w) = w
    BY <2>1, <2>2, PrefixOf
  <2> QED  BY <2>1, <2>3
<1>3. Len(files) # NoCount /\ Garbage \in Nat \ {0} /\ Garbage # NoCount /\ Len(<<>>) = 0
  BY <1>1, EmptySeq DEF NoCount, Garbage
<1>4. CASE disk.count # NoCount
  <2>1. Written(k) = [disk EXCEPT !.nodes = w]
    BY <1>1, <1>2, <1>4 DEF Written
  <2>2. /\ Written(k) \in R /\ Written(k).exists = disk.exists
        /\ Written(k).count = Len(files) /\ Written(k).nodes = w
    BY <1>1, <1>2, <1>4, <2>1
  <2>3. CASE k = Len(files)
    <3>1. SubSeq(w, 1, Len(files)) = files
      BY <1>1, <1>2, <2>3, PrefixOf
    <3> QED  BY <1>1, <1>2, <1>3, <1>4, <2>2, <2>3, <3>1 DEF Loaded
  <2>4. CASE k # Len(files)
    <3>1. Len(files) > k
      BY <1>1, <2>4
    <3> QED  BY <1>1, <1>2, <1>3, <1>4, <2>2, <2>4, <3>1 DEF Loaded
  <2> QED  BY <2>3, <2>4
<1>5. CASE disk.count = NoCount /\ k = 0
  <2>1. Written(k) = disk
    BY <1>5 DEF Written
  <2> QED  BY <1>1, <1>3, <1>5, <2>1
<1>6. CASE disk.count = NoCount /\ k # 0
  <2>1. Written(k) = [disk EXCEPT !.count = Garbage]
    BY <1>6 DEF Written
  <2>2. /\ Written(k) \in R /\ Written(k).exists = disk.exists
        /\ Written(k).count = Garbage /\ Written(k).nodes = <<>>
    BY <1>1, <1>3, <2>1
  <2> QED  BY <1>1, <1>3, <1>6, <2>2 DEF Loaded
<1> QED  BY <1>4, <1>5, <1>6

-----------------------------------------------------------------------------
(***************************************************************************)
(* The inductive invariant, action by action.                              *)
(***************************************************************************)

LEMMA InitIInv ==
  Init => IInv
<1> SUFFICES ASSUME Init PROVE IInv
  OBVIOUS
<1>1. /\ disk.exists = FALSE /\ disk.count = NoCount /\ disk.nodes = <<>>
      /\ disk \in [exists : BOOLEAN, count : Nat \cup {NoCount}, nodes : Seq(FileNodes),
                   padded : BOOLEAN]
  BY EmptySeq DEF Init, Cleared
<1>2. TypeOK
  BY <1>1, EmptyTable DEF Init, TypeOK
<1>3. LoadInv
  BY <1>1 DEF Init, LoadInv, Loaded
<1> QED  BY <1>1, <1>2, <1>3 DEF Init, IInv, StepInv, SavedInv

\* A save that begins clears the file; nothing else is asked of it yet.
LEMMA BeginSaveIInv ==
  ASSUME IInv, BeginSave, pc = "ready", files' \in Tables,
         UNCHANGED last, open' \in Nat, flushed' \in Nat
  PROVE  IInv'
<1>1. /\ disk'.exists = TRUE /\ disk'.count = NoCount /\ disk'.nodes = <<>>
      /\ disk' \in [exists : BOOLEAN, count : Nat \cup {NoCount}, nodes : Seq(FileNodes),
                    padded : BOOLEAN]
      /\ pc' = "count" /\ torn' = TRUE
  BY EmptySeq DEF BeginSave, ClearSuperblock, Cleared
<1>2. TypeOK'
  BY <1>1 DEF IInv, TypeOK
<1>3. LoadInv'
  BY <1>1 DEF LoadInv, Loaded
<1> QED  BY <1>1, <1>2, <1>3 DEF IInv, StepInv, SavedInv

LEMMA FormatIInv ==
  ASSUME IInv, Format \/ FormatCount \/ FormatExtend
  PROVE  IInv'
<1> USE DEF IInv
<1> DEFINE R == [exists : BOOLEAN, count : Nat \cup {NoCount}, nodes : Seq(FileNodes),
                 padded : BOOLEAN]
<1>1. CASE Format
  <2>1. /\ disk'.exists = TRUE /\ disk'.count = NoCount /\ disk'.nodes = <<>>
        /\ disk' \in R /\ last = <<>> /\ ~torn
    BY <1>1, EmptySeq DEF Format, Cleared, StepInv
  <2>2. TypeOK'
    BY <1>1, <2>1 DEF Format, TypeOK, handles
  <2>3. LoadInv'
    BY <1>1, <2>1 DEF Format, LoadInv, Loaded
  <2> QED  BY <1>1, <2>1, <2>2, <2>3 DEF Format, StepInv, SavedInv, handles
<1>2. CASE FormatCount
  <2>1. /\ disk' \in R /\ disk'.exists = disk.exists /\ disk'.count = 0
        /\ disk'.nodes = disk.nodes /\ last = <<>> /\ ~torn
    BY <1>2 DEF FormatCount, StepInv, TypeOK
  <2>2. TypeOK'
    BY <1>2, <2>1 DEF FormatCount, TypeOK, handles
  <2>3. LoadInv'
    <3>1. disk.nodes \in Seq(FileNodes) /\ Len(disk.nodes) \in Nat
      BY LenProperties DEF TypeOK
    <3>2. SubSeq(disk.nodes, 1, 0) = <<>> /\ 0 # NoCount
      BY <3>1, PrefixOf DEF NoCount
    <3>3. Loaded(disk') = {<<>>}
      <4>1. /\ disk'.count # NoCount /\ ~(disk'.count > Len(disk'.nodes))
            /\ SubSeq(disk'.nodes, 1, disk'.count) = <<>>
        BY <2>1, <3>1, <3>2
      <4> QED  BY <4>1 DEF Loaded
    <3>4. UNCHANGED <<last, torn>>
      BY <1>2 DEF FormatCount
    <3> QED  BY <2>1, <3>3, <3>4 DEF LoadInv
  <2> QED  BY <1>2, <2>1, <2>2, <2>3 DEF FormatCount, StepInv, SavedInv, handles
<1>3. CASE FormatExtend
  <2>1. /\ disk' \in R /\ disk'.exists = disk.exists /\ disk'.count = disk.count
        /\ disk'.nodes = disk.nodes /\ last = <<>> /\ ~torn /\ files = <<>>
    BY <1>3 DEF FormatExtend, StepInv, TypeOK
  <2>2. TypeOK'
    BY <1>3, <2>1 DEF FormatExtend, TypeOK, handles
  <2>3. LoadInv'
    BY <1>3, <2>1 DEF FormatExtend, LoadInv, Loaded
  <2>4. SavedInv'
    <3>1. files' = <<>> /\ last' = <<>>
      BY <1>3, <2>1 DEF FormatExtend
    <3> QED  BY <3>1, EmptyTable DEF SavedInv, AllSaved
  <2> QED  BY <1>3, <2>1, <2>2, <2>3, <2>4 DEF FormatExtend, StepInv, handles
<1> QED  BY <1>1, <1>2, <1>3

LEMMA MountIInv ==
  ASSUME IInv, Mount
  PROVE  IInv'
<1> USE DEF IInv
<1>1. /\ UNCHANGED <<disk, open, flushed, last, torn>> /\ disk.exists
      /\ pc' \in {"refused", "ready"} /\ (pc' = "refused" => files' = <<>>)
      /\ files' = <<>> \/ (~torn /\ files' = last)
  BY DEF Mount, LoadInv, handles
<1>2. TypeOK'
  BY <1>1, EmptyTable DEF TypeOK
<1>3. LoadInv'
  BY <1>1 DEF LoadInv, Loaded
<1>4. StepInv'
  BY <1>1 DEF StepInv, Mount
<1>5. SavedInv'
  <2>1. pc' = "ready" => files' \in Loaded(disk)
    BY DEF Mount
  <2>2. CASE torn
    BY <1>1, <2>2, EmptyTable DEF SavedInv, AllSaved
  <2>3. CASE ~torn /\ pc' = "ready"
    <3>1. files' = last /\ last' = last
      BY <1>1, <2>1, <2>3 DEF LoadInv
    <3> QED  BY <3>1 DEF SavedInv, AllSaved
  <2> QED  BY <2>2, <2>3 DEF SavedInv
<1> QED  BY <1>2, <1>3, <1>4, <1>5

LEMMA WriteSuperblockIInv ==
  ASSUME IInv, WriteCount \/ WriteNodes
  PROVE  IInv'
<1> USE DEF IInv
<1> DEFINE R == [exists : BOOLEAN, count : Nat \cup {NoCount}, nodes : Seq(FileNodes),
                 padded : BOOLEAN]
<1>1. CASE WriteCount
  <2>1. /\ disk \in R /\ disk.nodes = <<>> /\ torn /\ disk.count = NoCount /\ disk.exists
        /\ files \in Seq(FileNodes) /\ Len(files) \in Nat
        /\ UNCHANGED <<files, open, flushed, last, torn>>
    BY <1>1, TableShape DEF WriteCount, TypeOK, StepInv, Tables, handles
  <2>2. /\ disk' \in R /\ disk'.exists = disk.exists /\ disk'.nodes = <<>>
        /\ disk'.count = Len(files) \/ (DiskFull /\ disk'.count = NoCount)
    BY <1>1, <2>1 DEF WriteCount
  <2>3. TypeOK'
    BY <1>1, <2>1, <2>2 DEF WriteCount, TypeOK
  <2>4. Loaded(disk') \subseteq {<<>>}
    <3>1. Len(<<>>) = 0 /\ <<>> \in Seq(FileNodes) /\ Len(files) # NoCount
      BY <2>1, EmptySeq DEF NoCount
    <3>2. SubSeq(<<>>, 1, 0) = <<>>
      BY <3>1, PrefixOf
    <3> QED  BY <2>1, <2>2, <3>1, <3>2 DEF Loaded
  <2>5. LoadInv'
    BY <2>1, <2>4 DEF LoadInv
  <2> QED  BY <1>1, <2>1, <2>2, <2>3, <2>5 DEF WriteCount, StepInv, SavedInv
<1>2. CASE WriteNodes
  <2>1. PICK k \in IF DiskFull THEN 0 .. Len(files) ELSE {Len(files)} :
          /\ disk' = Written(k)
          /\ IF disk.count # NoCount /\ k = Len(files)
             THEN last' = files /\ torn' = FALSE
             ELSE UNCHANGED <<last, torn>>
    BY <1>2 DEF WriteNodes
  <2>2. /\ files \in Tables /\ Len(files) \in Nat /\ k \in 0 .. Len(files)
        /\ DiskFull \/ k = Len(files)
        /\ pc = "nodes" /\ pc' = "ready" /\ torn /\ disk.exists
        /\ UNCHANGED <<files, open, flushed>>
    BY <1>2, <2>1, TableShape DEF WriteNodes, TypeOK, StepInv, handles
  <2>3. /\ disk' \in R /\ disk'.exists = disk.exists
        /\ disk.count # NoCount /\ k = Len(files) => Loaded(disk') = {files}
        /\ ~(disk.count # NoCount /\ k = Len(files)) =>
             DiskFull /\ Loaded(disk') \subseteq {<<>>}
    BY <2>1, <2>2, NodesWritten
  <2>4. \/ last' = files /\ torn' = FALSE /\ Loaded(disk') = {files}
        \/ UNCHANGED <<last, torn>> /\ DiskFull /\ Loaded(disk') \subseteq {<<>>}
    BY <2>1, <2>3
  <2>5. TypeOK'
    BY <2>2, <2>3, <2>4 DEF TypeOK
  <2>6. LoadInv'
    BY <2>2, <2>4 DEF LoadInv
  <2>7. SavedInv'
    BY <2>2, <2>4 DEF SavedInv, AllSaved
  <2> QED  BY <2>2, <2>3, <2>5, <2>6, <2>7 DEF StepInv
<1> QED  BY <1>1, <1>2

\* The handlers that change the table and nothing else, or the descriptors.
LEMMA HandlersIInv ==
  ASSUME IInv, pc = "ready", UNCHANGED <<pc, disk, last, torn>>, files' \in Tables,
         open' \in Nat, flushed' \in Nat,
         open' = 0 => AllSaved' \/ (DiskFull /\ torn),
         DOMAIN Tree(files) \subseteq DOMAIN Tree(files')
  PROVE  IInv'
<1> USE DEF IInv
<1>1. TypeOK'
  BY DEF TypeOK
<1>2. LoadInv'
  BY DEF LoadInv, Loaded
<1>3. StepInv'
  BY DEF StepInv
<1>4. SavedInv'
  BY DEF SavedInv
<1> QED  BY <1>1, <1>2, <1>3, <1>4

LEMMA TableHandlersIInv ==
  ASSUME IInv, \/ \E n \in Names, t \in Times : Mknod(n, t) \/ Utimens(n, t)
               \/ \E n \in Names, off \in 0 .. MaxData, buf \in Buffers : Write(n, off, buf)
  PROVE  IInv'
<1>1. TypeOK
  BY DEF IInv
<1>2. ASSUME NEW n \in Names, NEW t \in Times, Mknod(n, t)
      PROVE  IInv'
  <2>1. /\ files' \in Tables /\ n \notin DOMAIN Tree(files)
        /\ DOMAIN Tree(files') = DOMAIN Tree(files) \cup {n}
        /\ Tree(files')[n] = <<>>
        /\ \A m \in DOMAIN Tree(files) : Tree(files')[m] = Tree(files)[m]
    BY <1>1, <1>2, MknodTree
  <2>2. pc = "ready" /\ UNCHANGED <<pc, disk, last, torn, open, flushed>>
    BY <1>2 DEF Mknod, handles
  <2>3. AllSaved => AllSaved'
    <3> SUFFICES ASSUME AllSaved, NEW m \in DOMAIN Tree(files'), Tree(files')[m] # <<>>
                 PROVE  m \in DOMAIN Tree(last) /\ Tree(last)[m] = Tree(files')[m]
      BY <2>2 DEF AllSaved
    <3>1. m \in DOMAIN Tree(files) /\ Tree(files')[m] = Tree(files)[m]
      BY <2>1
    <3> QED  BY <3>1 DEF AllSaved
  <2>4. open' = 0 => AllSaved' \/ (DiskFull /\ torn)
    BY <2>2, <2>3 DEF IInv, SavedInv
  <2>5. open' \in Nat /\ flushed' \in Nat
    BY <1>1, <2>2 DEF TypeOK
  <2> QED  BY <2>1, <2>2, <2>4, <2>5, HandlersIInv
<1>3. ASSUME NEW n \in Names, NEW t \in Times, Utimens(n, t)
      PROVE  IInv'
  <2>1. files' \in Tables /\ Tree(files') = Tree(files)
    BY <1>1, <1>3, UtimensTree
  <2>2. pc = "ready" /\ UNCHANGED <<pc, disk, last, torn, open, flushed>>
    BY <1>3 DEF Utimens, handles
  <2>3. open' = 0 => AllSaved' \/ (DiskFull /\ torn)
    BY <2>1, <2>2 DEF IInv, SavedInv, AllSaved
  <2>4. open' \in Nat /\ flushed' \in Nat
    BY <1>1, <2>2 DEF TypeOK
  <2> QED  BY <2>1, <2>2, <2>3, <2>4, HandlersIInv
<1>4. ASSUME NEW n \in Names, NEW off \in 0 .. MaxData, NEW buf \in Buffers,
             Write(n, off, buf)
      PROVE  IInv'
  <2>1. files' \in Tables /\ DOMAIN Tree(files) \subseteq DOMAIN Tree(files')
    <3>1. CASE files' = files
      BY <1>1, <3>1 DEF TypeOK
    <3>2. CASE files' # files
      <4>1. files' \in Tables /\ DOMAIN Tree(files') = DOMAIN Tree(files)
        BY <1>1, <1>4, <3>2, WriteTree
      <4> QED  BY <4>1
    <3> QED  BY <3>1, <3>2
  <2>2. pc = "ready" /\ open > 0 /\ UNCHANGED <<pc, disk, last, torn, open, flushed>>
    BY <1>4 DEF Write, handles
  <2>3. open' \in Nat /\ flushed' \in Nat /\ open' # 0
    BY <1>1, <2>2 DEF TypeOK
  <2> QED  BY <2>1, <2>2, <2>3, HandlersIInv
<1> QED  BY <1>2, <1>3, <1>4

LEMMA DescriptorsIInv ==
  ASSUME IInv, (\E n \in Names : Open(n)) \/ Release
  PROVE  IInv'
<1>1. /\ pc = "ready" /\ UNCHANGED <<pc, files, disk, last, torn>>
      /\ open' \in Nat /\ flushed' \in Nat /\ (open' = 0 => open = 0)
  BY DEF IInv, TypeOK, Open, Release
<1>2. files' \in Tables /\ Tree(files') = Tree(files)
  BY <1>1 DEF IInv, TypeOK
<1>3. open' = 0 => AllSaved' \/ (DiskFull /\ torn)
  BY <1>1, <1>2 DEF IInv, SavedInv, AllSaved
<1> QED  BY <1>1, <1>2, <1>3, HandlersIInv

LEMMA SavingHandlersIInv ==
  ASSUME IInv, ~RenameOnto,
         \/ \E n \in Names : Unlink(n)
         \/ \E n, m \in Names : Rename(n, m)
         \/ Flush
  PROVE  IInv'
<1>1. TypeOK
  BY DEF IInv
<1>2. pc = "ready" /\ BeginSave /\ UNCHANGED last
  BY DEF Unlink, Rename, Flush
<1>3. open' \in Nat /\ flushed' \in Nat
  BY <1>1 DEF TypeOK, Unlink, Rename, Flush, handles
<1>4. files' \in Tables
  <2>1. ASSUME NEW n \in Names, Unlink(n) PROVE files' \in Tables
    BY <1>1, <2>1, UnlinkTree
  <2>2. ASSUME NEW n \in Names, NEW m \in Names, Rename(n, m) PROVE files' \in Tables
    BY <1>1, <2>2, RenameTree
  <2>3. ASSUME Flush PROVE files' \in Tables
    BY <1>1, <2>3 DEF Flush, TypeOK
  <2> QED  BY <2>1, <2>2, <2>3
<1> QED  BY <1>2, <1>3, <1>4, BeginSaveIInv

LEMMA EndIInv ==
  ASSUME IInv, Unmount \/ Crash
  PROVE  IInv'
<1> USE DEF IInv
<1>1. /\ pc' = "unmounted" /\ files' = <<>> /\ UNCHANGED <<disk, last, torn>>
      /\ pc # "unmounted" /\ open' \in Nat /\ flushed' \in Nat
  BY DEF Unmount, Crash, TypeOK, handles
<1>2. TypeOK'
  BY <1>1, EmptyTable DEF TypeOK
<1>3. LoadInv'
  BY <1>1 DEF LoadInv, Loaded
<1>4. StepInv'
  BY <1>1 DEF StepInv
<1> QED  BY <1>1, <1>2, <1>3, <1>4 DEF SavedInv

LEMMA NextIInv ==
  ASSUME IInv, ~RenameOnto, [Next]_vars
  PROVE  IInv'
<1>1. CASE UNCHANGED vars
  BY <1>1 DEF vars, handles, IInv, TypeOK, LoadInv, Loaded, StepInv, SavedInv, AllSaved
<1>2. CASE Format \/ FormatCount \/ FormatExtend
  BY <1>2, FormatIInv
<1>3. CASE Mount
  BY <1>3, MountIInv
<1>4. CASE WriteCount \/ WriteNodes
  BY <1>4, WriteSuperblockIInv
<1>5. CASE \/ \E n \in Names, t \in Times : Mknod(n, t) \/ Utimens(n, t)
           \/ \E n \in Names, off \in 0 .. MaxData, buf \in Buffers : Write(n, off, buf)
  BY <1>5, TableHandlersIInv
<1>6. CASE (\E n \in Names : Open(n)) \/ Release
  BY <1>6, DescriptorsIInv
<1>7. CASE (\E n \in Names : Unlink(n)) \/ (\E n, m \in Names : Rename(n, m)) \/ Flush
  BY <1>7, SavingHandlersIInv
<1>8. CASE Unmount \/ Crash
  BY <1>8, EndIInv
<1> QED  BY <1>1, <1>2, <1>3, <1>4, <1>5, <1>6, <1>7, <1>8 DEF Next

\* The inductive invariant holds as long as nobody renames a file onto another
\* one, which leaves two entries of a name in the table of kvfs.c.
THEOREM Invariance ==
  ASSUME ~RenameOnto
  PROVE  Spec => []IInv
<1>1. IInv /\ [Next]_vars => IInv'
  BY NextIInv
<1> QED  BY InitIInv, <1>1, PTL DEF Spec

-----------------------------------------------------------------------------
(***************************************************************************)
(* What users are promised.                                                *)
(***************************************************************************)

\* When nobody has a file open and no save is under way, what was written to
\* the files that exist is on disk: the flush that comes with each close of a
\* descriptor saves the whole table.
THEOREM ClosedFilesAreSaved ==
  ASSUME ~RenameOnto
  PROVE  Spec => []ClosedMeansSaved
<1>1. IInv => ClosedMeansSaved
  BY DEF IInv, SavedInv, ClosedMeansSaved
<1> QED  BY Invariance, <1>1, PTL

\* A read of a whole file from its start copies the content of the file, whether
\* the reader asks for the size that kvfs_getattr gave or for more.
THEOREM ReadsGiveTheContent ==
  ASSUME ~RenameOnto
  PROVE  Spec => []ReadsWhole
<1>1. ASSUME TypeOK, NEW n \in DOMAIN Tree(files), NEW len \in {0, MaxData - 1}
      PROVE  ReadReply(n, GetattrSize(n) + len, 0) = Tree(files)[n]
  <2> DEFINE f == files[Lookup(files, n)]
  <2>1. /\ Lookup(files, n) # 0 /\ Lookup(files, n) \in DOMAIN files
        /\ Tree(files)[n] = Content(f) /\ f \in FileNodes
    BY <1>1, LookupResult, TableShape, TreeOf DEF TypeOK
  <2>2. GetattrSize(n) = f.size
    BY <2>1 DEF GetattrSize
  <2>3. ReadReply(n, f.size + len, 0)
          = [k \in 1 .. CopySize(f, f.size + len, 0) |->
               IF 0 + k - 1 < MaxData THEN f.data[0 + k - 1] ELSE Junk]
    BY <2>1 DEF ReadReply
  <2> HIDE DEF f
  <2>4. f.size \in 0 .. MaxData /\ MaxData \in Nat
    BY <2>1, KvfsAssumption DEF FileNodes
  <2>5. 1 .. CopySize(f, f.size + len, 0) = 1 .. f.size
    BY <2>4 DEF CopySize
  <2>6. \A k \in 1 .. f.size : 0 + k - 1 = k - 1 /\ 0 + k - 1 < MaxData
    BY <2>4
  <2>7. [k \in 1 .. f.size |-> IF 0 + k - 1 < MaxData THEN f.data[0 + k - 1] ELSE Junk]
          = Content(f)
    BY <2>6 DEF Content
  <2> QED  BY <2>1, <2>2, <2>3, <2>5, <2>7
<1>2. IInv => ReadsWhole
  BY <1>1 DEF IInv, ReadsWhole
<1> QED  BY Invariance, <1>2, PTL

\* Each handler changes the file it is asked to change and no other: the shift
\* of the table in kvfs_unlink and the edits of kvfs_write and kvfs_rename leave
\* every other name with its own content.
THEOREM OthersKept ==
  ASSUME ~RenameOnto
  PROVE  Spec => OthersUntouched
<1>1. ASSUME TypeOK, files' # files, NEW n \in Names
      PROVE  LET others == (DOMAIN Tree(files) \cup DOMAIN Tree(files')) \ {n} IN
             /\ Unlink(n) => Tree(files') = Restrict(Tree(files), others)
             /\ (\E off \in 0 .. MaxData, buf \in Buffers : Write(n, off, buf)) =>
                  Restrict(Tree(files'), others) = Restrict(Tree(files), others)
             /\ \A m \in Names : Rename(n, m) =>
                  /\ Tree(files')[m] = Tree(files)[n]
                  /\ Restrict(Tree(files'), others \ {m})
                       = Restrict(Tree(files), others \ {m})
  <2> DEFINE others == (DOMAIN Tree(files) \cup DOMAIN Tree(files')) \ {n}
  <2>1. ASSUME Unlink(n)
        PROVE  Tree(files') = Restrict(Tree(files), others)
    <3>1. /\ files' \in Tables /\ n \in DOMAIN Tree(files)
          /\ DOMAIN Tree(files') = DOMAIN Tree(files) \ {n}
          /\ \A m \in DOMAIN Tree(files') : Tree(files')[m] = Tree(files)[m]
      BY <1>1, <2>1, UnlinkTree
    <3>2. DOMAIN Tree(files') = others
      BY <3>1
    <3>3. Tree(files') = [m \in DOMAIN Tree(files') |-> Tree(files')[m]]
      BY <3>1, TreeOf
    <3> QED  BY <3>1, <3>2, <3>3 DEF Restrict
  <2>2. ASSUME NEW off \in 0 .. MaxData, NEW buf \in Buffers, Write(n, off, buf)
        PROVE  Restrict(Tree(files'), others) = Restrict(Tree(files), others)
    <3>1. /\ DOMAIN Tree(files') = DOMAIN Tree(files)
          /\ \A m \in DOMAIN Tree(files) \ {n} : Tree(files')[m] = Tree(files)[m]
      BY <1>1, <2>2, WriteTree
    <3> QED  BY <3>1 DEF Restrict
  <2>3. ASSUME NEW m \in Names, Rename(n, m)
        PROVE  /\ Tree(files')[m] = Tree(files)[n]
               /\ Restrict(Tree(files'), others \ {m})
                    = Restrict(Tree(files), others \ {m})
    <3>1. /\ DOMAIN Tree(files') = (DOMAIN Tree(files) \ {n}) \cup {m}
          /\ Tree(files')[m] = Tree(files)[n]
          /\ \A k \in DOMAIN Tree(files) \ {n} : Tree(files')[k] = Tree(files)[k]
      BY <1>1, <2>3, RenameTree
    <3>2. \A k \in others \ {m} : Tree(files')[k] = Tree(files)[k]
      BY <3>1
    <3> QED  BY <3>1, <3>2 DEF Restrict
  <2> QED  BY <2>1, <2>2, <2>3
<1>2. IInv /\ [Next]_vars => [TouchesOne]_vars
  BY <1>1 DEF IInv, TouchesOne
<1> QED  BY Invariance, <1>2, PTL DEF Spec, OthersUntouched

-----------------------------------------------------------------------------
(***************************************************************************)
(* The table, its saves and its mounts implement the flat directory.       *)
(***************************************************************************)

\* The state of the flat directory.
UpDown == IF pc \in {"unmounted", "format", "extend"} THEN "down"
          ELSE IF pc = "refused" THEN "refused" ELSE "up"

\* A step that changes nothing of the flat directory.
LEMMA FlatStutter ==
  ASSUME UpDown' = UpDown, Tree(files') = Tree(files), UNCHANGED <<last, torn>>
  PROVE  UNCHANGED Flat!vars
BY DEF Flat!vars, UpDown

\* A step that changes the directory, and begins no save.
LEMMA FlatEdit ==
  ASSUME pc = "ready", pc' = "ready", UNCHANGED <<last, torn>>
  PROVE  Flat!Edit(Tree(files'))
BY DEF Flat!Edit

\* A step that begins a save.
LEMMA FlatBeginSave ==
  ASSUME pc = "ready", BeginSave, UNCHANGED last
  PROVE  Flat!BeginSave(Tree(files'))
BY DEF Flat!BeginSave, BeginSave

LEMMA InitRefines ==
  Init => Flat!Init
BY EmptyTable DEF Init, Flat!Init

LEMMA FormatRefines ==
  ASSUME IInv, Format \/ FormatCount \/ FormatExtend
  PROVE  [Flat!Next]_Flat!vars
<1>1. files = <<>> /\ last = <<>> /\ torn = FALSE
  BY DEF IInv, StepInv, TypeOK, Format, FormatCount, FormatExtend
<1>2. UNCHANGED <<files, last, torn>>
  BY DEF Format, FormatCount, FormatExtend
<1>3. CASE Format \/ FormatCount
  <2>1. UpDown' = UpDown
    BY <1>3 DEF UpDown, Format, FormatCount, IInv, StepInv
  <2> QED  BY <1>2, <2>1, FlatStutter
<1>4. CASE FormatExtend
  <2>1. Flat!Start
    BY <1>1, <1>2, <1>4 DEF FormatExtend, Flat!Start
  <2> QED  BY <2>1 DEF Flat!Next
<1> QED  BY <1>3, <1>4

LEMMA MountRefines ==
  ASSUME IInv, Mount
  PROVE  [Flat!Next]_Flat!vars
<1>1. UNCHANGED <<last, torn>> /\ pc \in {"unmounted", "refused"} /\ torn \in BOOLEAN
  BY DEF Mount, IInv, TypeOK
<1>2. \/ ~torn /\ pc' = "ready" /\ files' = last
      \/ torn /\ pc' = "ready" /\ files' = <<>>
      \/ torn /\ pc' = "refused" /\ files' = <<>>
  BY DEF Mount, IInv, LoadInv
<1>3. Flat!Start
  BY <1>1, <1>2, EmptyTable DEF Flat!Start
<1> QED  BY <1>3 DEF Flat!Next

LEMMA SaveRefines ==
  ASSUME IInv, WriteCount \/ WriteNodes
  PROVE  [Flat!Next]_Flat!vars
<1>1. UNCHANGED files /\ pc \in {"count", "nodes"} /\ pc' \in {"nodes", "ready"} /\ torn
  BY DEF IInv, StepInv, WriteCount, WriteNodes
<1>2. UpDown' = UpDown
  BY <1>1 DEF UpDown
<1>3. UNCHANGED <<last, torn>> \/ (last' = files /\ torn' = FALSE)
  BY DEF WriteCount, WriteNodes
<1>4. CASE last' = files /\ torn' = FALSE
  <2>1. Flat!EndSave
    BY <1>1, <1>4 DEF Flat!EndSave
  <2> QED  BY <2>1 DEF Flat!Next
<1> QED  BY <1>1, <1>2, <1>3, <1>4, FlatStutter

LEMMA TableHandlersRefine ==
  ASSUME IInv, \/ \E n \in Names, t \in Times : Mknod(n, t) \/ Utimens(n, t)
               \/ \E n \in Names, off \in 0 .. MaxData, buf \in Buffers : Write(n, off, buf)
  PROVE  [Flat!Next]_Flat!vars
<1>1. TypeOK /\ pc = "ready" /\ pc' = "ready" /\ UNCHANGED <<last, torn>>
  BY DEF IInv, Mknod, Utimens, Write
<1>2. UpDown' = UpDown /\ Flat!Edit(Tree(files'))
  BY <1>1, FlatEdit DEF UpDown
<1>3. ASSUME NEW n \in Names, NEW t \in Times, Mknod(n, t)
      PROVE  [Flat!Next]_Flat!vars
  <2>1. /\ files' \in Tables /\ n \notin DOMAIN Tree(files)
        /\ DOMAIN Tree(files') = DOMAIN Tree(files) \cup {n}
        /\ Tree(files')[n] = <<>>
        /\ \A m \in DOMAIN Tree(files) : Tree(files')[m] = Tree(files)[m]
    BY <1>1, <1>3, MknodTree
  <2>2. Tree(files') = [m \in DOMAIN Tree(files') |-> Tree(files')[m]]
    BY <2>1, TreeOf
  <2>3. Tree(files') = Flat!Set(n, <<>>)
    BY <2>1, <2>2 DEF Flat!Set
  <2>4. Flat!Create(n)
    BY <1>2, <2>1, <2>3 DEF Flat!Create
  <2> QED  BY <2>4 DEF Flat!Next
<1>4. ASSUME NEW n \in Names, NEW t \in Times, Utimens(n, t)
      PROVE  [Flat!Next]_Flat!vars
  <2>1. Tree(files') = Tree(files)
    BY <1>1, <1>4, UtimensTree
  <2> QED  BY <1>1, <1>2, <2>1, FlatStutter
<1>5. ASSUME NEW n \in Names, NEW off \in 0 .. MaxData, NEW buf \in Buffers,
             Write(n, off, buf)
      PROVE  [Flat!Next]_Flat!vars
  <2>1. CASE files' = files
    BY <1>1, <1>2, <2>1, FlatStutter
  <2>2. CASE files' # files
    <3>1. /\ files' \in Tables /\ n \in DOMAIN Tree(files)
          /\ DOMAIN Tree(files') = DOMAIN Tree(files)
          /\ Tree(files')[n] \in Contents
          /\ \A m \in DOMAIN Tree(files) \ {n} : Tree(files')[m] = Tree(files)[m]
      BY <1>1, <1>5, <2>2, WriteTree
    <3>2. Tree(files') = [m \in DOMAIN Tree(files') |-> Tree(files')[m]]
      BY <3>1, TreeOf
    <3>3. Tree(files') = Flat!Set(n, Tree(files')[n])
      BY <3>1, <3>2 DEF Flat!Set
    <3>4. Flat!Overwrite(n, Tree(files')[n])
      BY <1>2, <3>1, <3>3 DEF Flat!Overwrite
    <3> QED  BY <3>1, <3>4 DEF Flat!Next, Contents
  <2> QED  BY <2>1, <2>2
<1> QED  BY <1>3, <1>4, <1>5

LEMMA SavingHandlersRefine ==
  ASSUME IInv, ~RenameOnto,
         \/ \E n \in Names : Unlink(n)
         \/ \E n, m \in Names : Rename(n, m)
         \/ Flush
  PROVE  [Flat!Next]_Flat!vars
<1>1. TypeOK /\ pc = "ready" /\ BeginSave /\ UNCHANGED last
  BY DEF IInv, Unlink, Rename, Flush
<1>2. Flat!BeginSave(Tree(files'))
  BY <1>1, FlatBeginSave
<1>3. ASSUME NEW n \in Names, Unlink(n)
      PROVE  [Flat!Next]_Flat!vars
  <2>1. /\ files' \in Tables /\ n \in DOMAIN Tree(files)
        /\ DOMAIN Tree(files') = DOMAIN Tree(files) \ {n}
        /\ \A m \in DOMAIN Tree(files') : Tree(files')[m] = Tree(files)[m]
    BY <1>1, <1>3, UnlinkTree
  <2>2. Tree(files') = [m \in DOMAIN Tree(files') |-> Tree(files')[m]]
    BY <2>1, TreeOf
  <2>3. Tree(files') = Flat!Without(n)
    BY <2>1, <2>2 DEF Flat!Without, Flat!Restrict
  <2>4. Flat!Delete(n)
    BY <1>2, <2>1, <2>3 DEF Flat!Delete
  <2> QED  BY <2>4 DEF Flat!Next
<1>4. ASSUME NEW n \in Names, NEW m \in Names, Rename(n, m)
      PROVE  [Flat!Next]_Flat!vars
  <2>1. /\ files' \in Tables /\ n \in DOMAIN Tree(files) /\ m \notin DOMAIN Tree(files)
        /\ DOMAIN Tree(files') = (DOMAIN Tree(files) \ {n}) \cup {m}
        /\ Tree(files')[m] = Tree(files)[n]
        /\ \A k \in DOMAIN Tree(files) \ {n} : Tree(files')[k] = Tree(files)[k]
    BY <1>1, <1>4, RenameTree
  <2>2. Tree(files') = [k \in DOMAIN Tree(files') |-> Tree(files')[k]]
    BY <2>1, TreeOf
  <2>3. Tree(files') = [k \in (DOMAIN Tree(files) \ {n}) \cup {m} |->
                          IF k = m THEN Tree(files)[n] ELSE Tree(files)[k]]
    BY <2>1, <2>2
  <2>4. Flat!Move(n, m)
    BY <1>2, <2>1, <2>3 DEF Flat!Move
  <2> QED  BY <2>4 DEF Flat!Next
<1>5. ASSUME Flush
      PROVE  [Flat!Next]_Flat!vars
  <2>1. Tree(files') = Tree(files)
    BY <1>5 DEF Flush
  <2>2. Flat!Save
    BY <1>2, <2>1 DEF Flat!Save
  <2> QED  BY <2>2 DEF Flat!Next
<1> QED  BY <1>3, <1>4, <1>5

LEMMA DescriptorsRefine ==
  ASSUME (\E n \in Names : Open(n)) \/ Release
  PROVE  [Flat!Next]_Flat!vars
<1>1. UpDown' = UpDown /\ Tree(files') = Tree(files) /\ UNCHANGED <<last, torn>>
  BY DEF Open, Release, UpDown
<1> QED  BY <1>1, FlatStutter

LEMMA EndRefines ==
  ASSUME IInv, Unmount \/ Crash
  PROVE  [Flat!Next]_Flat!vars
<1>1. /\ pc' = "unmounted" /\ files' = <<>> /\ UNCHANGED <<last, torn>>
      /\ pc \in {"format", "extend", "ready", "count", "nodes"}
  BY DEF Unmount, Crash, IInv, TypeOK
<1>2. CASE pc \in {"format", "extend"}
  <2>1. UpDown' = UpDown /\ files = <<>>
    BY <1>1, <1>2 DEF UpDown, IInv, StepInv
  <2> QED  BY <1>1, <2>1, FlatStutter
<1>3. CASE pc \in {"ready", "count", "nodes"}
  <2>1. Flat!Stop
    BY <1>1, <1>3, EmptyTable DEF Flat!Stop
  <2> QED  BY <2>1 DEF Flat!Next
<1> QED  BY <1>1, <1>2, <1>3

\* Every step of the file system is a step of the flat directory or changes
\* nothing of it. So a mount finds the last complete save of kvfs.c, or after an
\* interrupted one nothing, or it refuses: never a mixture of two tables.
THEOREM Implementation ==
  ASSUME ~RenameOnto
  PROVE  Spec => ImplementsFlatFiles
<1>1. ASSUME IInv, [Next]_vars
      PROVE  [Flat!Next]_Flat!vars
  <2>1. CASE UNCHANGED vars
    BY <2>1, FlatStutter DEF vars, UpDown
  <2>2. CASE Format \/ FormatCount \/ FormatExtend
    BY <1>1, <2>2, FormatRefines
  <2>3. CASE Mount
    BY <1>1, <2>3, MountRefines
  <2>4. CASE WriteCount \/ WriteNodes
    BY <1>1, <2>4, SaveRefines
  <2>5. CASE \/ \E n \in Names, t \in Times : Mknod(n, t) \/ Utimens(n, t)
             \/ \E n \in Names, off \in 0 .. MaxData, buf \in Buffers : Write(n, off, buf)
    BY <1>1, <2>5, TableHandlersRefine
  <2>6. CASE (\E n \in Names : Open(n)) \/ Release
    BY <2>6, DescriptorsRefine
  <2>7. CASE (\E n \in Names : Unlink(n)) \/ (\E n, m \in Names : Rename(n, m)) \/ Flush
    BY <1>1, <2>7, SavingHandlersRefine
  <2>8. CASE Unmount \/ Crash
    BY <1>1, <2>8, EndRefines
  <2> QED  BY <1>1, <2>1, <2>2, <2>3, <2>4, <2>5, <2>6, <2>7, <2>8 DEF Next
<1> QED  BY Invariance, InitRefines, <1>1, PTL DEF Spec, ImplementsFlatFiles, Flat!Spec
=============================================================================
