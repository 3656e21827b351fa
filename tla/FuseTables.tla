------------------------------ MODULE FuseTables -----------------------------
(***************************************************************************)
(* The two hash tables in which libfuse finds its nodes, by id and by name *)
(* (lib/fuse.c), and the slabs that nodes are allocated from. A table      *)
(* grows and shrinks bucket by bucket: bucket i of its lower half is split *)
(* into i and i + size / 2 when split passes i, and merged again when      *)
(* split comes back. All runs under f->lock, so each action is one call.   *)
(*                                                                         *)
(* Memory may run out at each allocation. Ids wrap around.                 *)
(***************************************************************************)
EXTENDS Integers, Sequences, FiniteSets, Functions

CONSTANTS
  MinSize,  (* NODE_TABLE_MIN_SIZE                                           *)
  Wrap,     (* Ids are counted modulo Wrap: 2^32.                                *)
  Factor,   (* 2654435761, by which id_hash multiplies.                      *)
  Hashes,   (* The hashes that names may have.                               *)
  PerSlab,  (* How many nodes fit into a page.                               *)
  MaxNodes, (* Bound: how many nodes there are at a time.                    *)
  MaxGen    (* Bound: how often ids wrap around.                             *)

ASSUME FuseTablesAssumption ==
  /\ MinSize \in Nat \ {0} /\ MinSize % 4 = 0 /\ Wrap \in Nat /\ Factor \in Nat
  /\ Hashes \subseteq Nat /\ PerSlab \in Nat \ {0}
  /\ MaxNodes \in Nat \ {0} /\ MaxNodes < Wrap - 2 /\ MaxGen \in Nat

VARIABLES
  id_table,   (* [size, split, use, array]: who is in the chain of bucket i. *)
  name_table,
  hash,       (* hash[n]: the hash of the name of n.                        *)
  slab,       (* slab[n]: the page and the place in it that n is at.        *)
  partial,    (* f->partial_slabs: the pages with something free, in order. *)
  full,       (* f->full_slabs                                              *)
  ctr,        (* f->ctr                                                     *)
  generation  (* f->generation                                              *)

tables == <<id_table, name_table, hash, slab, partial, full, ctr, generation>>

RootId == 1
IdRange == 1..Wrap - 2
IdHash == [n \in IdRange |-> (n * Factor) % Wrap]
Pages == 1..MaxNodes

Table == [size |-> MinSize, split |-> 0, use |-> 0, array |-> [i \in 0..MinSize - 1 |-> {}]]
-----------------------------------------------------------------------------
Bucket(t, h) ==
  LET hashed == h % t.size
      old    == hashed % (t.size \div 2)
  IN  IF old >= t.split THEN old ELSE hashed

(* Who is in the bucket at split goes to the bucket he has from now on.    *)
SplitBucket(t, h) ==
  LET s    == [t EXCEPT !.split = @ + 1]
      Kept(i) == IF i = t.split THEN {} ELSE t.array[i]
  IN  [s EXCEPT !.array = [i \in DOMAIN t.array |-> Kept(i) \cup {n \in t.array[t.split] : Bucket(s, h[n]) = i}]]

NodeTableResize(t) ==
  [t EXCEPT !.size = 2 * t.size, !.split = 0,
            !.array = [i \in 0..2 * t.size - 1 |-> IF i < t.size THEN t.array[i] ELSE {}]]

(* What may become of t: it does not grow if there is no memory.           *)
Rehash(t, h) ==
  IF t.split = t.size \div 2 THEN {t}
  ELSE LET s == SplitBucket(t, h)
       IN  IF s.split = s.size \div 2 THEN {s, NodeTableResize(s)} ELSE {s}

Hash(t, n, h) ==
  LET s == [t EXCEPT !.array[Bucket(t, h[n])] = @ \cup {n}, !.use = @ + 1]
  IN  IF s.use >= s.size \div 2 THEN Rehash(s, h) ELSE {s}

NodeTableReduce(t) ==
  LET size == t.size \div 2
  IN  IF size < MinSize THEN t
      ELSE [t EXCEPT !.size = size, !.split = size \div 2,
                     !.array = [i \in 0..size - 1 |-> t.array[i]]]

(* Up to eight buckets are merged, until one of them was not empty.        *)
Merges(t) ==
  LET tries == 1..(IF t.split < 8 THEN t.split ELSE 8)
      Upper(k) == t.array[t.split - k + t.size \div 2]
  IN  CHOOSE k \in tries : /\ Upper(k) # {} \/ \A j \in tries : j <= k
                           /\ \A j \in 1..k - 1 : Upper(j) = {}

Remerge(t) ==
  LET s   == IF t.split = 0 THEN NodeTableReduce(t) ELSE t
      low == s.split - Merges(s)
      up  == low + s.size \div 2
  IN  IF s.split = 0 THEN s
      ELSE [s EXCEPT !.split = low,
                     !.array = [s.array EXCEPT ![low] = s.array[low] \cup s.array[up], ![up] = {}]]

Unhash(t, n, h) ==
  LET i == Bucket(t, h[n])
      s == [t EXCEPT !.array[i] = @ \ {n}, !.use = @ - 1]
  IN  IF n \notin t.array[i] THEN t
      ELSE IF s.use < s.size \div 4 THEN Remerge(s) ELSE s

GetNodeNocheck(n) == n \in id_table.array[Bucket(id_table, IdHash[n])]
-----------------------------------------------------------------------------
(***************************************************************************)
(* Slabs.                                                                  *)
(***************************************************************************)
Places == 1..PerSlab
Used(page) == {slab[n][2] : n \in {m \in DOMAIN slab : slab[m][1] = page}}
FreshPage == CHOOSE p \in Pages : p \notin full /\ p \notin Range(partial)
Without(page) ==
  IF page \notin Range(partial) THEN partial
  ELSE LET i == CHOOSE j \in DOMAIN partial : partial[j] = page
       IN  SubSeq(partial, 1, i - 1) \o SubSeq(partial, i + 1, Len(partial))

(* alloc_slab, if no page has anything free, and the first free place.     *)
AllocNode(n) ==
  LET pages == IF partial = <<>> THEN <<FreshPage>> ELSE partial
      page  == Head(pages)
      place == CHOOSE i \in Places \ Used(page) : TRUE
      last  == Cardinality(Used(page)) = PerSlab - 1
  IN  /\ slab' = [m \in DOMAIN slab \cup {n} |-> IF m = n THEN <<page, place>> ELSE slab[m]]
      /\ partial' = IF last THEN Tail(pages) ELSE pages
      /\ full' = IF last THEN full \cup {page} ELSE full

(* Fault: a page that was full keeps its place among the full ones.        *)
FreeNodeStayFull(n) ==
  LET page == slab[n][1]
      left == Cardinality(Used(page)) - 1
  IN  /\ slab' = [m \in DOMAIN slab \ {n} |-> slab[m]]
      /\ partial' = IF left = 0 THEN Without(page) ELSE partial
      /\ full' = IF left = 0 THEN full \ {page} ELSE full

FreeNodeMem(n) ==
  LET page == slab[n][1]
      left == Cardinality(Used(page)) - 1
  IN  /\ slab' = [m \in DOMAIN slab \ {n} |-> slab[m]]
      /\ partial' = IF left = 0 THEN Without(page)
                    ELSE IF page \in full THEN Append(partial, page) ELSE partial
      /\ full' = full \ {page}
-----------------------------------------------------------------------------
(***************************************************************************)
(* Nodes.                                                                  *)
(***************************************************************************)
TablesInit ==
  /\ id_table \in Hash(Table, RootId, IdHash)
  /\ name_table = Table /\ hash = <<>>
  /\ slab = [n \in {RootId} |-> <<1, 1>>]
  /\ partial = (IF PerSlab = 1 THEN <<>> ELSE <<1>>) /\ full = (IF PerSlab = 1 THEN {1} ELSE {})
  /\ ctr = 0 /\ generation = 0

(* next_id: how many ids it passes over.                                   *)
After(k) == (ctr + k) % Wrap
Passed == CHOOSE k \in 1..Wrap :
            /\ After(k) \in IdRange /\ ~GetNodeNocheck(After(k))
            /\ \A j \in 1..k - 1 : After(j) \in IdRange => GetNodeNocheck(After(j))

(* Fault: the generation is counted when the next id after 0 is free.      *)
NextIdSameGeneration ==
  /\ ctr' = After(Passed)
  /\ generation' = generation + (IF ctr + Passed = Wrap + 1 THEN 1 ELSE 0)
  /\ generation' <= MaxGen

NextId ==
  /\ ctr' = After(Passed)
  /\ generation' = generation + (IF ctr + Passed >= Wrap THEN 1 ELSE 0)
  /\ generation' <= MaxGen

(* The part of find_node that makes a node.                                *)
NewNode(h) ==
  /\ Cardinality(DOMAIN slab) < MaxNodes
  /\ NextId
  /\ LET n == After(Passed)
     IN  /\ AllocNode(n)
         /\ hash' = [m \in DOMAIN hash \cup {n} |-> IF m = n THEN h ELSE hash[m]]
         /\ name_table' \in Hash(name_table, n, hash')
         /\ id_table' \in Hash(id_table, n, IdHash)

(* There is no memory for its name.                                        *)
NewNodeFails ==
  /\ Cardinality(DOMAIN slab) < MaxNodes
  /\ NextId /\ UNCHANGED <<id_table, name_table, hash, slab, partial, full>>

NameUnhashed(n) ==
  /\ name_table' = IF n \in DOMAIN hash THEN Unhash(name_table, n, hash) ELSE name_table
  /\ hash' = [m \in DOMAIN hash \ {n} |-> hash[m]]

TableDelete(n) ==
  /\ NameUnhashed(n)
  /\ id_table' = Unhash(id_table, n, IdHash)
  /\ FreeNodeMem(n)
  /\ UNCHANGED <<ctr, generation>>

(* unlink_node, of a node that is still in use.                            *)
TableUnlink(n) ==
  /\ n \in DOMAIN hash /\ NameUnhashed(n)
  /\ UNCHANGED <<id_table, slab, partial, full, ctr, generation>>

(* rename_node                                                             *)
TableRename(n, h) ==
  /\ n \in DOMAIN hash
  /\ hash' = [hash EXCEPT ![n] = h]
  /\ name_table' \in Hash(Unhash(name_table, n, hash), n, hash')
  /\ UNCHANGED <<id_table, slab, partial, full, ctr, generation>>

TablesNext ==
  \/ \E h \in Hashes : NewNode(h)
  \/ NewNodeFails
  \/ \E n \in DOMAIN slab \ {RootId} :
       TableDelete(n) \/ TableUnlink(n) \/ \E h \in Hashes : TableRename(n, h)

TablesSpec == TablesInit /\ [][TablesNext]_tables
-----------------------------------------------------------------------------
(***************************************************************************)
(* Wherever split stands, each node is in the table, in the bucket in      *)
(* which it is looked for, and nobody else is.                             *)
(***************************************************************************)
Sound(t, h, nodes) ==
  /\ DOMAIN t.array = 0..t.size - 1 /\ t.split \in 0..t.size \div 2
  /\ t.use = Cardinality(nodes)
  /\ \A n \in nodes : n \in t.array[Bucket(t, h[n])]
  /\ \A i \in DOMAIN t.array : \A n \in t.array[i] : n \in nodes /\ i = Bucket(t, h[n])
Findable == Sound(id_table, IdHash, DOMAIN slab) /\ Sound(name_table, hash, DOMAIN hash)

(***************************************************************************)
(* No two nodes are at one place, and each page with a node is in the list *)
(* in which alloc_node looks for free places if, and only if, it has one:  *)
(* no place is lost and none is given away twice.                          *)
(***************************************************************************)
SlabsExact ==
  /\ \A n, m \in DOMAIN slab : slab[n] = slab[m] => n = m
  /\ \A p \in Pages : LET used == Cardinality(Used(p))
                       IN  /\ p \in Range(partial) <=> (used > 0 /\ used < PerSlab)
                           /\ p \in full <=> used = PerSlab

(***************************************************************************)
(* Whatever order nodes come, go and change their names in, each is found, *)
(* in the tables and in its slab.                                          *)
(***************************************************************************)
TablesSound == Findable /\ SlabsExact

(***************************************************************************)
(* Two nodes never have both the same id and the same generation, by which *)
(* NFS tells a file from one that had its id before: whoever gets an id    *)
(* again gets a later generation.                                          *)
(***************************************************************************)
Stamp(c, g) == g * Wrap + c
IdsNeverReturn == [][DOMAIN slab' \ DOMAIN slab # {} => Stamp(ctr', generation') > Stamp(ctr, generation)]_tables
=============================================================================
