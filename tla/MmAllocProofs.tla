---------------------------- MODULE MmAllocProofs ----------------------------
(***************************************************************************)
(* Proofs about MmAlloc: the list of blocks stays well formed under        *)
(* extend_heap, split_block and fusion, for all sizes, heaps and headers,  *)
(* and with it what the caller holds stays intact.                         *)
(***************************************************************************)
EXTENDS MmAllocProps, TLAPS

-----------------------------------------------------------------------------
(***************************************************************************)
(* Lemmas about the operators on headers.                                  *)
(***************************************************************************)

\* A write that meets no header leaves them all (the memsets of the heap).
LEMMA WipeNothing ==
  ASSUME NEW h, WellTyped(h), NEW lo \in Int, NEW n \in Int,
         \A a \in DOMAIN h : n = 0 \/ a + BLOCK_SIZE <= lo \/ lo + n <= a
  PROVE  Wipe(h, lo, n) = h
<1> DEFINE S == {a \in DOMAIN h : n = 0 \/ a + BLOCK_SIZE <= lo \/ lo + n <= a}
<1>1. S = DOMAIN h
  OBVIOUS
<1>2. Wipe(h, lo, n) = [x \in S |-> h[x]]
  BY DEF Wipe, Restrict
<1> QED  BY <1>1, <1>2 DEF WellTyped

\* A block ends where the next one starts, so blocks never overlap.
LEMMA BlocksSeparate ==
  ASSUME NEW h, NEW hd, NEW top, Heap(h, hd, top)
  PROVE  Separate(h)
<1> SUFFICES ASSUME NEW a \in DOMAIN h, NEW b \in DOMAIN h, a < b
             PROVE  EndOf(h, a) <= b
  BY DEF Separate
<1>1. a \in Nat /\ b \in Nat
  BY DEF Heap, WellTyped
<1>2. h[a].next # NULL
  <2> SUFFICES ASSUME h[a].next = NULL PROVE FALSE
    OBVIOUS
  <2>1. b <= a
    BY DEF Heap, InOrder
  <2> QED  BY <2>1, <1>1
<1>3. h[a].next <= b
  BY <1>1, <1>2 DEF Heap, InOrder
<1>4. EndOf(h, a) = h[a].next
  BY <1>2 DEF Heap, Tiled
<1> QED  BY <1>3, <1>4

\* From h to g, block b absorbs the block nx after it.
FusionOf(g, h, b, nx) ==
  /\ nx \in DOMAIN h /\ b < nx /\ DOMAIN g = DOMAIN h \ {nx}
  /\ g[b].next = h[nx].next /\ g[b].size = h[b].size + h[nx].size + BLOCK_SIZE
  /\ \A a \in DOMAIN g : g[a].free = h[a].free
  /\ \A a \in DOMAIN g \ {b} : g[a].next = h[a].next /\ g[a].size = h[a].size

\* fusion: the block and the one after it become one, and the heap is well
\* formed again. What changes in the other headers is one prev pointer.
LEMMA FusionKeepsHeap ==
  ASSUME NEW h, NEW hd, NEW top \in Nat, Heap(h, hd, top),
         NEW b \in DOMAIN h, CanFuse(h, b), BLOCK_SIZE \in Nat \ {0}
  PROVE  /\ Heap(FusionHdr(h, b), hd, top)
         /\ FusionOf(FusionHdr(h, b), h, b, h[b].next)
<1> DEFINE nx == h[b].next
           nn == h[nx].next
           sum == h[b].size + h[nx].size + BLOCK_SIZE
           more == [h EXCEPT ![b] = [@ EXCEPT !.size = sum, !.next = nn]]
           back == IF nn = NULL THEN more ELSE [more EXCEPT ![nn].prev = h[b].ptr]
           r == Remove(back, nx)
<1>1. /\ nx \in DOMAIN h /\ b < nx /\ nx # NULL
      /\ DOMAIN h \subseteq Nat /\ h \in [DOMAIN h -> HeaderType]
  BY DEF Heap, InOrder, CanFuse, WellTyped, NULL
<1>2. nn # NULL => nn \in DOMAIN h /\ nx < nn
  BY <1>1 DEF Heap, InOrder
<1>3. sum \in Nat /\ nn \in Nat
  BY <1>1 DEF HeaderType
<1>4. /\ r = [a \in DOMAIN h \ {nx} |-> back[a]]
      /\ DOMAIN r = DOMAIN h \ {nx}
  <2>1. DOMAIN back = DOMAIN h
    OBVIOUS
  <2> QED  BY <2>1 DEF Remove, Restrict
<1>5. b # nx /\ b # nn
  BY <1>1, <1>2, <1>3 DEF Heap, InOrder, NULL, WellTyped
<1>6. /\ r[b] = [h[b] EXCEPT !.size = sum, !.next = nn]
      /\ \A a \in DOMAIN r \ {b} :
           r[a] = IF a = nn /\ nn # NULL THEN [h[a] EXCEPT !.prev = h[b].ptr] ELSE h[a]
  BY <1>1, <1>2, <1>3, <1>4, <1>5
<1>7. h[b].ptr = b
  BY DEF Heap, InOrder
<1>a. b \in DOMAIN r /\ b \in Nat /\ \A a \in DOMAIN h : h[a] \in HeaderType
  BY <1>1, <1>4, <1>5
<1>b. b # NULL /\ \A a \in DOMAIN h : a # NULL
  BY <1>1, HeapAssumption DEF Heap, Below, NULL
<1>c. h[b].size \in Nat /\ h[nx].size \in Nat /\ nx \in Nat
  BY <1>1, <1>a DEF HeaderType
<1>d. sum = h[b].size + h[nx].size + BLOCK_SIZE /\ nx = h[b].next /\ nn = h[nx].next
  OBVIOUS
<1> HIDE DEF sum, nn, nx, more, back, r
<1>8. ASSUME NEW a \in DOMAIN r
      PROVE  /\ r[a].free = h[a].free /\ r[a].ptr = h[a].ptr
             /\ r[a] \in HeaderType
  <2>1. a \in DOMAIN h /\ h[a] \in HeaderType
    BY <1>4, <1>a
  <2>2. CASE a = b
    <3>1. r[a] = [h[a] EXCEPT !.size = sum, !.next = nn]
      BY <1>6, <2>2
    <3> QED  BY <3>1, <2>1, <1>3 DEF HeaderType
  <2>3. CASE a # b /\ a = nn /\ nn # NULL
    <3>1. r[a] = [h[a] EXCEPT !.prev = h[b].ptr]
      BY <1>6, <2>3
    <3> QED  BY <3>1, <2>1, <1>7, <1>a DEF HeaderType
  <2>4. CASE a # b /\ ~(a = nn /\ nn # NULL)
    BY <1>6, <2>4, <2>1
  <2> QED  BY <2>2, <2>3, <2>4
<1>9. /\ r[b].next = nn /\ r[b].size = sum /\ r[b].prev = h[b].prev
      /\ \A a \in DOMAIN r \ {b} :
           /\ r[a].next = h[a].next /\ r[a].size = h[a].size
           /\ r[a].prev = IF a = nn /\ nn # NULL THEN b ELSE h[a].prev
  <2>1. h[b] \in HeaderType
    BY <1>a
  <2>2. r[b].next = nn /\ r[b].size = sum /\ r[b].prev = h[b].prev
    BY <1>6, <2>1 DEF HeaderType
  <2>3. ASSUME NEW a \in DOMAIN r \ {b}
        PROVE  /\ r[a].next = h[a].next /\ r[a].size = h[a].size
               /\ r[a].prev = IF a = nn /\ nn # NULL THEN b ELSE h[a].prev
    <3>1. h[a] \in HeaderType
      BY <1>4, <1>a
    <3>2. CASE a = nn /\ nn # NULL
      <4>1. r[a] = [h[a] EXCEPT !.prev = b]
        BY <1>6, <3>2, <1>7
      <4> QED  BY <4>1, <3>1, <3>2 DEF HeaderType
    <3>3. CASE ~(a = nn /\ nn # NULL)
      BY <1>6, <3>3
    <3> QED  BY <3>2, <3>3
  <2> QED  BY <2>2, <2>3
<1>10. WellTyped(r)
  <2>1. r = [a \in DOMAIN r |-> r[a]]
    BY <1>4
  <2>2. DOMAIN r \subseteq Nat
    BY <1>1, <1>4
  <2> QED  BY <2>1, <2>2, <1>8 DEF WellTyped
<1>11. /\ EndOf(h, b) = nx /\ EndOf(r, b) = EndOf(h, nx)
       /\ \A a \in DOMAIN r \ {b} : EndOf(r, a) = EndOf(h, a)
  <2>1. EndOf(h, b) = nx
    BY <1>1, <1>d DEF Heap, Tiled
  <2>2. b + BLOCK_SIZE + h[b].size = nx
    BY <2>1 DEF EndOf
  <2>3. b + BLOCK_SIZE + sum = nx + BLOCK_SIZE + h[nx].size
    BY <2>2, <1>a, <1>c, <1>d
  <2>4. EndOf(r, b) = EndOf(h, nx)
    BY <2>3, <1>9 DEF EndOf
  <2>5. \A a \in DOMAIN r \ {b} : EndOf(r, a) = EndOf(h, a)
    BY <1>9 DEF EndOf
  <2> QED  BY <2>1, <2>4, <2>5
<1>12. Tiled(r, top)
  <2>1. EndOf(h, nx) = IF nn = NULL THEN top ELSE nn
    BY <1>1, <1>d DEF Heap, Tiled
  <2>2. \A a \in DOMAIN r \ {b} :
          EndOf(h, a) = IF h[a].next = NULL THEN top ELSE h[a].next
    BY <1>4 DEF Heap, Tiled
  <2> QED  BY <1>9, <1>11, <2>1, <2>2 DEF Tiled
<1>13. Below(r, top)
  BY <1>11, <1>4, <1>1 DEF Heap, Below
<1>14. InOrder(r, hd)
  <2>1. hd # NULL /\ hd \in DOMAIN r /\ \A c \in DOMAIN r : hd <= c
    BY <1>1, <1>4 DEF Heap, InOrder, WellTyped
  <2>2. \A a \in DOMAIN r : r[a].ptr = a
    BY <1>8, <1>4 DEF Heap, InOrder
  <2>3. ASSUME NEW a \in DOMAIN r
        PROVE  IF r[a].next = NULL THEN \A c \in DOMAIN r : c <= a
               ELSE /\ r[a].next \in DOMAIN r /\ a < r[a].next
                    /\ Linked(r, a, r[a].next)
                    /\ \A c \in DOMAIN r : c <= a \/ r[a].next <= c
    <3>1. CASE a = b
      <4>1. CASE nn = NULL
        <5>1. \A c \in DOMAIN h : c <= nx
          BY <4>1, <1>1, <1>d DEF Heap, InOrder
        <5>2. \A c \in DOMAIN h : c <= b \/ nx <= c
          BY <1>1, <1>d DEF Heap, InOrder
        <5>3. \A c \in DOMAIN r : c <= b
          BY <5>1, <5>2, <1>4, <1>1
        <5> QED  BY <5>3, <4>1, <3>1, <1>9
      <4>2. CASE nn # NULL
        <5>1. \A c \in DOMAIN h : c <= nx \/ nn <= c
          BY <4>2, <1>1, <1>d DEF Heap, InOrder
        <5>2. \A c \in DOMAIN h : c <= b \/ nx <= c
          BY <1>1, <1>d DEF Heap, InOrder
        <5>3. nn \in DOMAIN r /\ b < nn
          BY <4>2, <1>1, <1>2, <1>4
        <5>4. Linked(r, b, nn)
          BY <4>2, <5>3, <1>9, <1>5 DEF Linked
        <5>5. \A c \in DOMAIN r : c <= b \/ nn <= c
          BY <5>1, <5>2, <1>4, <1>1
        <5> QED  BY <5>3, <5>4, <5>5, <4>2, <3>1, <1>9
      <4> QED  BY <4>1, <4>2
    <3>2. CASE a # b
      <4>1. a \in DOMAIN h /\ r[a].next = h[a].next /\ a # nx
        BY <3>2, <1>4, <1>9
      <4>2. CASE h[a].next = NULL
        <5>1. \A c \in DOMAIN r : c <= a
          BY <4>1, <4>2, <1>4 DEF Heap, InOrder
        <5> QED  BY <5>1, <4>1, <4>2
      <4>3. CASE h[a].next # NULL
        <5>1. /\ h[a].next \in DOMAIN h /\ a < h[a].next /\ h[h[a].next].prev = a
              /\ \A c \in DOMAIN h : c <= a \/ h[a].next <= c
          BY <4>1, <4>3 DEF Heap, InOrder, Linked
        <5>2. h[nx].prev = b /\ (nn # NULL => h[nn].prev = nx)
          BY <1>1, <1>d DEF Heap, InOrder, Linked
        <5>3. h[a].next # nx /\ (nn # NULL => h[a].next # nn)
          BY <5>1, <5>2, <4>1, <3>2
        <5>4. r[h[a].next].prev = a
          BY <5>1, <5>3, <1>4, <1>9
        <5> QED  BY <5>1, <5>3, <5>4, <4>1, <4>3, <1>4 DEF Linked
      <4> QED  BY <4>2, <4>3
    <3> QED  BY <3>1, <3>2
  <2>4. ASSUME NEW a \in DOMAIN r
        PROVE  IF r[a].prev = NULL THEN a = hd
               ELSE r[a].prev \in DOMAIN r /\ Linked(r, r[a].prev, a)
    <3>1. CASE a = nn /\ nn # NULL
      <4>1. r[a].prev = b /\ r[b].next = a
        BY <3>1, <1>9, <1>5
      <4> QED  BY <4>1, <1>a, <1>b, <1>9 DEF Linked
    <3>2. CASE ~(a = nn /\ nn # NULL)
      <4>1. a \in DOMAIN h /\ a # nx /\ r[a].prev = h[a].prev
        BY <3>2, <1>4, <1>9
      <4>2. CASE h[a].prev = NULL
        BY <4>1, <4>2 DEF Heap, InOrder
      <4>3. CASE h[a].prev # NULL
        <5>1. h[a].prev \in DOMAIN h /\ h[h[a].prev].next = a
          BY <4>1, <4>3 DEF Heap, InOrder, Linked
        <5>2. h[a].prev # nx /\ h[a].prev # b
          BY <5>1, <3>2, <4>1, <1>b, <1>d
        <5>3. h[a].prev \in DOMAIN r /\ r[h[a].prev].next = a
          BY <5>1, <5>2, <1>4, <1>9
        <5> QED  BY <5>3, <4>1, <4>3 DEF Linked
      <4> QED  BY <4>2, <4>3
    <3> QED  BY <3>1, <3>2
  <2> QED  BY <2>1, <2>2, <2>3, <2>4 DEF InOrder
<1>15. Heap(r, hd, top)
  BY <1>10, <1>12, <1>13, <1>14 DEF Heap
<1>16. FusionHdr(h, b) = r
  <2>1. FusionHdr(h, b) = Wipe(r, Data(b), sum)
    BY DEF FusionHdr, r, back, more, sum, nn, nx
  <2>2. Separate(r)
    BY <1>15, BlocksSeparate
  <2>3. \A a \in DOMAIN r : a + BLOCK_SIZE <= Data(b) \/ Data(b) + sum <= a
    <3> SUFFICES ASSUME NEW a \in DOMAIN r
                 PROVE  a + BLOCK_SIZE <= Data(b) \/ Data(b) + sum <= a
      OBVIOUS
    <3>1. a \in Nat /\ b \in Nat /\ b \in DOMAIN r /\ r[a].size \in Nat
      BY <1>1, <1>4, <1>5, <1>10 DEF WellTyped, HeaderType
    <3>2. Data(b) + sum = EndOf(r, b)
      BY <3>1, <1>3, <1>9 DEF Data, EndOf
    <3>3. CASE b < a
      BY <3>3, <3>2, <3>1, <2>2 DEF Separate
    <3>4. CASE a <= b
      BY <3>4, <3>1 DEF Data
    <3> QED  BY <3>1, <3>3, <3>4
  <2>4. Data(b) \in Int /\ sum \in Int
    BY <1>1, <1>3 DEF Data
  <2> QED  BY <2>1, <2>3, <2>4, <1>10, WipeNothing
<1> QED  BY <1>1, <1>4, <1>8, <1>9, <1>15, <1>16, <1>d DEF FusionOf

\* From h to g, block b is cut to s bytes and the free block rest follows it.
SplitOf(g, h, b, s, rest) ==
  /\ rest \notin DOMAIN h /\ DOMAIN g = DOMAIN h \cup {rest}
  /\ g[b].size = s /\ g[b].next = rest /\ ~g[b].free
  /\ g[rest].next = h[b].next /\ g[rest].free
  /\ \A a \in DOMAIN h \ {b} :
       /\ g[a].size = h[a].size /\ g[a].next = h[a].next
       /\ g[a].free = h[a].free

\* split_block: the block keeps s bytes and a free block follows it; the heap
\* is well formed again.
LEMMA SplitKeepsHeap ==
  ASSUME NEW h, NEW hd, NEW top \in Nat, Heap(h, hd, top),
         NEW b \in DOMAIN h, NEW s \in Nat, h[b].size > s + BLOCK_SIZE,
         BLOCK_SIZE \in Nat \ {0}
  PROVE  /\ Heap(SplitHdr(h, b, s), hd, top)
         /\ SplitOf(SplitHdr(h, b, s), h, b, s, RestOf(h, b, s))
<1> DEFINE rest == RestOf(h, b, s)
           third == h[b].next
           left == h[b].size - s - BLOCK_SIZE
           new == Header(left, third, h[b].ptr, TRUE, rest)
           first == [h EXCEPT ![b] = [@ EXCEPT !.size = s, !.next = rest, !.free = FALSE]]
           back == IF third = NULL THEN first ELSE [first EXCEPT ![third].prev = rest]
           r == Put(back, rest, new)
<1>1. /\ DOMAIN h \subseteq Nat /\ h \in [DOMAIN h -> HeaderType]
      /\ b \in Nat /\ h[b].ptr = b
      /\ \A a \in DOMAIN h : h[a] \in HeaderType
  BY DEF Heap, WellTyped, InOrder
<1>2. \A a \in DOMAIN h : a # NULL
  BY <1>1, HeapAssumption DEF Heap, Below, NULL
<1>3. h[b].size \in Nat /\ third \in Nat /\ left \in Nat /\ rest \in Nat
      /\ rest = b + BLOCK_SIZE + s /\ rest + BLOCK_SIZE + left = EndOf(h, b)
  <2>1. h[b].size \in Nat /\ third \in Nat
    BY <1>1 DEF HeaderType
  <2>2. rest = b + BLOCK_SIZE + s
    BY <1>1 DEF RestOf
  <2>3. left \in Nat
    BY <2>1
  <2>4. rest + BLOCK_SIZE + left = EndOf(h, b)
    BY <2>1, <2>2, <1>1 DEF EndOf
  <2> QED  BY <2>1, <2>2, <2>3, <2>4, <1>1
<1>4. /\ EndOf(h, b) = IF third = NULL THEN top ELSE third
      /\ third # NULL => third \in DOMAIN h /\ b < third
      /\ \A c \in DOMAIN h : c <= b \/ (third # NULL /\ third <= c)
  BY DEF Heap, Tiled, InOrder
<1>5. /\ b < rest /\ rest # NULL
      /\ \A c \in DOMAIN h : c < rest \/ rest < c
      /\ \A c \in DOMAIN h : b < c => rest < c
  <2>1. b < rest /\ rest # NULL
    BY <1>1, <1>3 DEF NULL
  <2>2. third # NULL => rest < third
    BY <1>3, <1>4
  <2>3. \A c \in DOMAIN h : c \in Nat /\ (c <= b \/ (third # NULL /\ third <= c))
    BY <1>1, <1>4
  <2>4. b \in Nat /\ rest \in Nat /\ third \in Nat
    BY <1>1, <1>3
  <2> HIDE DEF rest, third
  <2>5. ASSUME NEW c \in DOMAIN h
        PROVE  (c < rest \/ rest < c) /\ (b < c => rest < c)
    <3>1. CASE c <= b
      BY <3>1, <2>1, <2>3, <2>4
    <3>2. CASE third # NULL /\ third <= c
      BY <3>2, <2>1, <2>2, <2>3, <2>4
    <3> QED  BY <3>1, <3>2, <2>3
  <2> QED  BY <2>1, <2>5
<1>6. rest \notin DOMAIN h /\ rest # b /\ rest # third /\ b # third
  <2>1. rest \notin DOMAIN h
    BY <1>3, <1>5
  <2>2. b # third
    BY <1>1, <1>2, <1>3, <1>4
  <2> QED  BY <2>1, <2>2, <1>4, <1>5
<1>7. DOMAIN back = DOMAIN h
  OBVIOUS
<1>8. DOMAIN r = DOMAIN h \cup {rest}
  BY <1>7 DEF Put
<1>9. /\ r[rest] = new
      /\ r[b] = [h[b] EXCEPT !.size = s, !.next = rest, !.free = FALSE]
      /\ \A a \in DOMAIN h \ {b} :
           r[a] = IF a = third /\ third # NULL THEN [h[a] EXCEPT !.prev = rest] ELSE h[a]
  BY <1>1, <1>4, <1>6, <1>7 DEF Put
<1>10. SplitHdr(h, b, s) = Wipe(Wipe(r, Data(rest), left), Data(b), s)
  <2>1. new.size = left
    BY DEF Header
  <2> QED  BY <2>1 DEF SplitHdr
<1>d. third = h[b].next
  OBVIOUS
<1>n. new \in HeaderType /\ new.size = left /\ new.next = third
      /\ new.prev = b /\ new.free = TRUE /\ new.ptr = rest
  BY <1>1, <1>3 DEF Header, HeaderType
<1> HIDE DEF rest, third, left, new, first, back, r
<1>11. /\ r[b] \in HeaderType /\ r[b].size = s /\ r[b].next = rest /\ r[b].free = FALSE
       /\ r[b].prev = h[b].prev /\ r[b].ptr = b
  <2>1. h[b] \in HeaderType
    BY <1>1
  <2> QED  BY <1>9, <2>1, <1>3, <1>1 DEF HeaderType
<1>12. ASSUME NEW a \in DOMAIN h \ {b}
       PROVE  /\ r[a] \in HeaderType /\ r[a].size = h[a].size /\ r[a].next = h[a].next
              /\ r[a].free = h[a].free /\ r[a].ptr = a
              /\ r[a].prev = IF a = third /\ third # NULL THEN rest ELSE h[a].prev
  <2>1. h[a] \in HeaderType /\ h[a].ptr = a
    BY <1>1 DEF Heap, InOrder
  <2>2. CASE a = third /\ third # NULL
    <3>1. r[a] = [h[a] EXCEPT !.prev = rest]
      BY <1>9, <2>2
    <3> QED  BY <3>1, <2>1, <2>2, <1>3 DEF HeaderType
  <2>3. CASE ~(a = third /\ third # NULL)
    BY <1>9, <2>1, <2>3
  <2> QED  BY <2>2, <2>3
<1>13. WellTyped(r)
  <2>1. r = [a \in DOMAIN r |-> r[a]]
    BY DEF r, Put
  <2>2. DOMAIN r \subseteq Nat
    BY <1>1, <1>3, <1>8
  <2>3. \A a \in DOMAIN r : r[a] \in HeaderType
    BY <1>8, <1>9, <1>11, <1>12, <1>n
  <2> QED  BY <2>1, <2>2, <2>3 DEF WellTyped
<1>e. \A a \in DOMAIN h : h[a].size \in Nat
  BY <1>1 DEF HeaderType
<1>14. /\ EndOf(r, b) = rest /\ EndOf(r, rest) = EndOf(h, b)
       /\ \A a \in DOMAIN h \ {b} : EndOf(r, a) = EndOf(h, a)
  BY <1>3, <1>9, <1>11, <1>12, <1>n, <1>1 DEF EndOf
<1>15. Tiled(r, top)
  <2>1. \A a \in DOMAIN h \ {b} :
          EndOf(h, a) = IF h[a].next = NULL THEN top ELSE h[a].next
    BY DEF Heap, Tiled
  <2>2. EndOf(r, b) = r[b].next /\ r[b].next # NULL
    BY <1>5, <1>11, <1>14
  <2>3. EndOf(r, rest) = IF r[rest].next = NULL THEN top ELSE r[rest].next
    BY <1>4, <1>9, <1>14, <1>n
  <2>4. \A a \in DOMAIN h \ {b} :
          EndOf(r, a) = IF r[a].next = NULL THEN top ELSE r[a].next
    BY <2>1, <1>12, <1>14
  <2> QED  BY <2>2, <2>3, <2>4, <1>8 DEF Tiled
<1>16. Below(r, top)
  <2>1. HeapBase <= b /\ EndOf(h, b) <= top
    BY DEF Heap, Below
  <2>2. HeapBase <= rest /\ rest <= top
    BY <2>1, <1>1, <1>3, HeapAssumption DEF EndOf
  <2> QED  BY <2>1, <2>2, <1>8, <1>14 DEF Heap, Below
<1>17. InOrder(r, hd)
  <2>1. hd # NULL /\ hd \in DOMAIN r /\ \A c \in DOMAIN r : hd <= c
    <3>1. hd # NULL /\ hd \in DOMAIN h /\ \A c \in DOMAIN h : hd <= c
      BY DEF Heap, InOrder
    <3> QED  BY <3>1, <1>1, <1>3, <1>5, <1>8
  <2>2. \A a \in DOMAIN r : r[a].ptr = a
    BY <1>8, <1>9, <1>11, <1>12, <1>n
  <2>3. ASSUME NEW a \in DOMAIN r
        PROVE  IF r[a].next = NULL THEN \A c \in DOMAIN r : c <= a
               ELSE /\ r[a].next \in DOMAIN r /\ a < r[a].next
                    /\ Linked(r, a, r[a].next)
                    /\ \A c \in DOMAIN r : c <= a \/ r[a].next <= c
    <3>1. CASE a = b
      <4>1. Linked(r, b, rest)
        BY <1>9, <1>11, <1>n DEF Linked
      <4>2. \A c \in DOMAIN r : c <= b \/ rest <= c
        BY <1>1, <1>3, <1>5, <1>8
      <4> QED  BY <3>1, <4>1, <4>2, <1>5, <1>8, <1>11
    <3>2. CASE a = rest
      <4>1. \A c \in DOMAIN r : c <= rest \/ (third # NULL /\ third <= c)
        BY <1>1, <1>3, <1>4, <1>5, <1>8
      <4>2. CASE third = NULL
        BY <3>2, <4>1, <4>2, <1>9, <1>n
      <4>3. CASE third # NULL
        <5>1. third \in DOMAIN r /\ rest < third
          BY <4>3, <1>4, <1>5, <1>8
        <5>2. Linked(r, rest, third)
          BY <4>3, <1>4, <1>6, <1>9, <1>12, <1>n DEF Linked
        <5> QED  BY <3>2, <4>1, <4>3, <5>1, <5>2, <1>9, <1>n
      <4> QED  BY <4>2, <4>3
    <3>3. CASE a # b /\ a # rest
      <4>1. a \in DOMAIN h /\ r[a].next = h[a].next
        BY <3>3, <1>8, <1>12
      <4>2. CASE h[a].next = NULL
        <5>1. \A c \in DOMAIN h : c <= a
          BY <4>1, <4>2 DEF Heap, InOrder
        <5>2. rest <= a
          BY <5>1, <4>1, <3>3, <1>1, <1>3, <1>5
        <5> QED  BY <4>1, <4>2, <5>1, <5>2, <1>8
      <4>3. CASE h[a].next # NULL
        <5>1. /\ h[a].next \in DOMAIN h /\ a < h[a].next /\ h[h[a].next].prev = a
              /\ \A c \in DOMAIN h : c <= a \/ h[a].next <= c
          BY <4>1, <4>3 DEF Heap, InOrder, Linked
        <5>2. h[a].next # third
          <6>1. third # NULL => h[third].prev = b
            BY <1>d DEF Heap, InOrder, Linked
          <6> QED  BY <6>1, <5>1, <4>3, <3>3
        <5>3. r[h[a].next].prev = a
          BY <5>1, <5>2, <1>11, <1>12
        <5>4. rest <= a \/ h[a].next <= rest
          BY <5>1, <4>1, <3>3, <1>1, <1>3, <1>5
        <5> QED  BY <4>1, <4>3, <5>1, <5>3, <5>4, <1>8 DEF Linked
      <4> QED  BY <4>2, <4>3
    <3> QED  BY <3>1, <3>2, <3>3
  <2>4. ASSUME NEW a \in DOMAIN r
        PROVE  IF r[a].prev = NULL THEN a = hd
               ELSE r[a].prev \in DOMAIN r /\ Linked(r, r[a].prev, a)
    <3>1. CASE a = rest
      BY <3>1, <1>2, <1>8, <1>9, <1>11, <1>n DEF Linked
    <3>2. CASE a # rest /\ a = third /\ third # NULL
      <4>1. a \in DOMAIN h \ {b} /\ r[a].prev = rest
        BY <3>2, <1>4, <1>6, <1>12
      <4> QED  BY <4>1, <3>2, <1>5, <1>8, <1>9, <1>n DEF Linked
    <3>3. CASE a # rest /\ ~(a = third /\ third # NULL)
      <4>1. a \in DOMAIN h /\ r[a].prev = h[a].prev
        BY <3>3, <1>8, <1>11, <1>12
      <4>2. CASE h[a].prev = NULL
        BY <4>1, <4>2 DEF Heap, InOrder
      <4>3. CASE h[a].prev # NULL
        <5>1. h[a].prev \in DOMAIN h /\ h[h[a].prev].next = a
          BY <4>1, <4>3 DEF Heap, InOrder, Linked
        <5>2. h[a].prev # b
          BY <5>1, <4>1, <3>3, <1>2, <1>d
        <5>3. h[a].prev \in DOMAIN r /\ r[h[a].prev].next = a
          BY <5>1, <5>2, <1>8, <1>12
        <5> QED  BY <5>3, <4>1, <4>3 DEF Linked
      <4> QED  BY <4>2, <4>3
    <3> QED  BY <3>1, <3>2, <3>3
  <2> QED  BY <2>1, <2>2, <2>3, <2>4 DEF InOrder
<1>18. Heap(r, hd, top)
  BY <1>13, <1>15, <1>16, <1>17 DEF Heap
<1>19. SplitHdr(h, b, s) = r
  <2>1. Separate(r)
    BY <1>18, BlocksSeparate
  <2>2. \A a \in DOMAIN r : a + BLOCK_SIZE <= Data(rest) \/ Data(rest) + left <= a
    <3> SUFFICES ASSUME NEW a \in DOMAIN r
                 PROVE  a + BLOCK_SIZE <= Data(rest) \/ Data(rest) + left <= a
      OBVIOUS
    <3>1. a \in Nat /\ rest \in DOMAIN r /\ Data(rest) + left = EndOf(r, rest)
      BY <1>1, <1>3, <1>8, <1>9, <1>n DEF Data, EndOf
    <3>2. CASE rest < a
      BY <3>2, <3>1, <2>1 DEF Separate
    <3>3. CASE a <= rest
      BY <3>3, <3>1, <1>3 DEF Data
    <3> QED  BY <3>1, <3>2, <3>3, <1>3
  <2>3. \A a \in DOMAIN r : a + BLOCK_SIZE <= Data(b) \/ Data(b) + s <= a
    <3> SUFFICES ASSUME NEW a \in DOMAIN r
                 PROVE  a + BLOCK_SIZE <= Data(b) \/ Data(b) + s <= a
      OBVIOUS
    <3>1. a \in Nat /\ b \in DOMAIN r /\ Data(b) + s = EndOf(r, b)
      BY <1>1, <1>3, <1>8, <1>11 DEF Data, EndOf
    <3>2. CASE b < a
      BY <3>2, <3>1, <2>1 DEF Separate
    <3>3. CASE a <= b
      BY <3>3, <3>1, <1>1 DEF Data
    <3> QED  BY <3>1, <3>2, <3>3, <1>1
  <2>4. Data(b) \in Int /\ Data(rest) \in Int /\ left \in Int
    BY <1>1, <1>3 DEF Data
  <2>5. Wipe(r, Data(rest), left) = r
    BY <2>2, <2>4, <1>13, WipeNothing
  <2>6. Wipe(r, Data(b), s) = r
    BY <2>3, <2>4, <1>13, WipeNothing
  <2> QED  BY <2>5, <2>6, <1>10
<1>20. rest = RestOf(h, b, s)
  BY DEF rest
<1>21. /\ r[rest].next = third /\ r[rest].free = TRUE /\ r[b].free = FALSE
       /\ r[b].size = s /\ r[b].next = rest
  BY <1>9, <1>11, <1>n
<1>22. \A a \in DOMAIN h \ {b} :
         r[a].size = h[a].size /\ r[a].next = h[a].next /\ r[a].free = h[a].free
  BY <1>12
<1> QED  BY <1>6, <1>8, <1>18, <1>19, <1>20, <1>21, <1>22, <1>d DEF SplitOf

\* From h to g, an allocated block of n bytes at ad is appended after block l.
ExtensionOf(g, h, l, ad, n) ==
  /\ ad \notin DOMAIN h /\ DOMAIN g = DOMAIN h \cup {ad}
  /\ g[ad].size = n /\ g[ad].next = NULL /\ ~g[ad].free
  /\ \A a \in DOMAIN h :
       /\ g[a].size = h[a].size /\ g[a].free = h[a].free
       /\ g[a].next = IF a = l THEN ad ELSE h[a].next

\* extend_heap: a new block at the break, behind the last one; the heap is
\* well formed again, up to the new break.
LEMMA ExtendKeepsHeap ==
  ASSUME NEW h, NEW hd, Heap(h, hd, brk), brk \in Nat, HeapBase <= brk,
         NEW l, NEW n \in Nat,
         \/ l = NULL /\ hd = NULL
         \/ l \in DOMAIN h /\ h[l].next = NULL,
         BLOCK_SIZE \in Nat \ {0}
  PROVE  /\ Heap(ExtendHdr(h, l, n), IF l = NULL THEN brk ELSE hd, brk + n + BLOCK_SIZE)
         /\ ExtensionOf(ExtendHdr(h, l, n), h, l, brk, n)
<1> DEFINE pv == IF l = NULL THEN NULL ELSE h[l].ptr
           new == Header(n, NULL, pv, FALSE, brk)
           linked == IF l = NULL THEN h ELSE [h EXCEPT ![l].next = brk]
           r == Put(linked, brk, new)
           top == brk + n + BLOCK_SIZE
           first == IF l = NULL THEN brk ELSE hd
<1>1. /\ DOMAIN h \subseteq Nat /\ h \in [DOMAIN h -> HeaderType]
      /\ \A a \in DOMAIN h : h[a] \in HeaderType /\ h[a].size \in Nat /\ a \in Nat
  BY DEF Heap, WellTyped, HeaderType
<1>2. /\ \A a \in DOMAIN h : HeapBase <= a /\ a # NULL
      /\ brk # NULL
  BY <1>1, HeapAssumption DEF Heap, Below, NULL
<1>3. \A a \in DOMAIN h : EndOf(h, a) <= brk /\ a < brk
  BY <1>1 DEF Heap, Below, EndOf
<1>4. brk \notin DOMAIN h
  BY <1>3, <1>1
<1>5. l = NULL => DOMAIN h = {}
  BY <1>2 DEF Heap, InOrder
<1>6. l # NULL => /\ l \in DOMAIN h /\ h[l].ptr = l /\ h[l].next = NULL
                  /\ EndOf(h, l) = brk /\ \A c \in DOMAIN h : c <= l
  BY DEF Heap, InOrder, Tiled
<1>7. /\ DOMAIN r = DOMAIN h \cup {brk} /\ r[brk] = new
      /\ \A a \in DOMAIN h :
           r[a] = IF a = l THEN [h[a] EXCEPT !.next = brk] ELSE h[a]
  BY <1>1, <1>4, <1>5, <1>6 DEF Put
<1>8. /\ new \in HeaderType /\ new.size = n /\ new.next = NULL /\ new.free = FALSE
      /\ new.prev = l /\ new.ptr = brk
  <2>1. pv = l /\ pv \in Nat
    BY <1>1, <1>6 DEF NULL
  <2> HIDE DEF pv
  <2> QED  BY <2>1 DEF Header, HeaderType, NULL
<1>9. ExtendHdr(h, l, n) = Wipe(r, Data(brk), n)
  BY DEF ExtendHdr
<1>10. r = [a \in DOMAIN r |-> r[a]]
  BY DEF Put
<1> HIDE DEF pv, new, linked, r
<1>11. ASSUME NEW a \in DOMAIN h
       PROVE  /\ r[a] \in HeaderType /\ r[a].size = h[a].size /\ r[a].free = h[a].free
              /\ r[a].prev = h[a].prev /\ r[a].ptr = a
              /\ r[a].next = IF a = l THEN brk ELSE h[a].next
  <2>1. h[a] \in HeaderType /\ h[a].ptr = a
    BY <1>1 DEF Heap, InOrder
  <2>2. CASE a = l
    <3>1. r[a] = [h[a] EXCEPT !.next = brk]
      BY <1>7, <2>2
    <3> QED  BY <3>1, <2>1, <2>2 DEF HeaderType
  <2>3. CASE a # l
    BY <1>7, <2>1, <2>3
  <2> QED  BY <2>2, <2>3
<1>12. WellTyped(r)
  BY <1>1, <1>7, <1>8, <1>10, <1>11 DEF WellTyped
<1>13. /\ EndOf(r, brk) = top
       /\ \A a \in DOMAIN h : EndOf(r, a) = EndOf(h, a)
  BY <1>7, <1>8, <1>11 DEF EndOf
<1>14. Below(r, top)
  <2>1. \A a \in DOMAIN h : EndOf(r, a) <= top
    BY <1>1, <1>3, <1>13 DEF EndOf
  <2> QED  BY <2>1, <1>2, <1>7, <1>13 DEF Below
<1>15. Tiled(r, top)
  <2>1. ASSUME NEW a \in DOMAIN h
        PROVE  EndOf(r, a) = IF r[a].next = NULL THEN top ELSE r[a].next
    <3>1. CASE a = l
      BY <3>1, <1>2, <1>6, <1>11, <1>13
    <3>2. CASE a # l
      <4>1. h[a].next # NULL
        <5> SUFFICES ASSUME h[a].next = NULL PROVE FALSE
          OBVIOUS
        <5>1. l # NULL /\ l <= a
          BY <1>5, <1>6 DEF Heap, InOrder
        <5> QED  BY <5>1, <3>2, <1>1, <1>6
      <4> QED  BY <4>1, <3>2, <1>11, <1>13 DEF Heap, Tiled
    <3> QED  BY <3>1, <3>2
  <2> QED  BY <2>1, <1>7, <1>8, <1>13 DEF Tiled
<1>16. InOrder(r, first)
  <2>1. first # NULL /\ first \in DOMAIN r /\ \A c \in DOMAIN r : first <= c
    <3>1. CASE l = NULL
      BY <3>1, <1>2, <1>5, <1>7
    <3>2. CASE l # NULL
      <4>1. hd # NULL /\ hd \in DOMAIN h /\ \A c \in DOMAIN h : hd <= c
        BY <3>2, <1>6 DEF Heap, InOrder
      <4> QED  BY <4>1, <3>2, <1>1, <1>3, <1>7
    <3> QED  BY <3>1, <3>2
  <2>2. \A a \in DOMAIN r : r[a].ptr = a
    BY <1>7, <1>8, <1>11
  <2>3. ASSUME NEW a \in DOMAIN r
        PROVE  IF r[a].next = NULL THEN \A c \in DOMAIN r : c <= a
               ELSE /\ r[a].next \in DOMAIN r /\ a < r[a].next
                    /\ Linked(r, a, r[a].next)
                    /\ \A c \in DOMAIN r : c <= a \/ r[a].next <= c
    <3>1. CASE a = brk
      <4>1. \A c \in DOMAIN r : c <= brk
        BY <1>1, <1>3, <1>7
      <4> QED  BY <3>1, <4>1, <1>7, <1>8
    <3>2. CASE a = l /\ a # brk
      <4>1. a \in DOMAIN h /\ r[a].next = brk
        BY <3>2, <1>7, <1>11
      <4>2. \A c \in DOMAIN r : c <= a \/ brk <= c
        BY <3>2, <4>1, <1>2, <1>6, <1>7
      <4>3. Linked(r, a, brk)
        BY <3>2, <4>1, <1>7, <1>8 DEF Linked
      <4> QED  BY <4>1, <4>2, <4>3, <1>2, <1>3, <1>7
    <3>3. CASE a # l /\ a # brk
      <4>1. a \in DOMAIN h /\ r[a].next = h[a].next
        BY <3>3, <1>7, <1>11
      <4>2. h[a].next # NULL
        <5> SUFFICES ASSUME h[a].next = NULL PROVE FALSE
          OBVIOUS
        <5>1. l # NULL /\ l <= a
          BY <4>1, <1>5, <1>6 DEF Heap, InOrder
        <5> QED  BY <5>1, <3>3, <4>1, <1>1, <1>6
      <4>3. /\ h[a].next \in DOMAIN h /\ a < h[a].next /\ h[h[a].next].prev = a
            /\ \A c \in DOMAIN h : c <= a \/ h[a].next <= c
        BY <4>1, <4>2 DEF Heap, InOrder, Linked
      <4>4. h[a].next <= brk
        BY <4>3, <1>1, <1>3
      <4>5. r[h[a].next].prev = a
        BY <4>3, <1>11
      <4> QED  BY <4>1, <4>2, <4>3, <4>4, <4>5, <1>7 DEF Linked
    <3> QED  BY <3>1, <3>2, <3>3
  <2>4. ASSUME NEW a \in DOMAIN r
        PROVE  IF r[a].prev = NULL THEN a = first
               ELSE r[a].prev \in DOMAIN r /\ Linked(r, r[a].prev, a)
    <3>1. CASE a = brk
      <4>1. r[a].prev = l
        BY <3>1, <1>7, <1>8
      <4>2. CASE l = NULL
        BY <4>1, <4>2, <3>1
      <4>3. CASE l # NULL
        <5>1. l \in DOMAIN r /\ r[l].next = brk
          BY <4>3, <1>6, <1>7, <1>11
        <5> QED  BY <5>1, <4>1, <4>3, <3>1 DEF Linked
      <4> QED  BY <4>2, <4>3
    <3>2. CASE a # brk
      <4>1. a \in DOMAIN h /\ r[a].prev = h[a].prev /\ l # NULL
        BY <3>2, <1>5, <1>7, <1>11
      <4>2. CASE h[a].prev = NULL
        BY <4>1, <4>2 DEF Heap, InOrder
      <4>3. CASE h[a].prev # NULL
        <5>1. h[a].prev \in DOMAIN h /\ h[h[a].prev].next = a
          BY <4>1, <4>3 DEF Heap, InOrder, Linked
        <5>2. h[a].prev # l
          BY <5>1, <4>1, <1>2, <1>6
        <5>3. h[a].prev \in DOMAIN r /\ r[h[a].prev].next = a
          BY <5>1, <5>2, <1>7, <1>11
        <5> QED  BY <5>3, <4>1, <4>3 DEF Linked
      <4> QED  BY <4>2, <4>3
    <3> QED  BY <3>1, <3>2
  <2> HIDE DEF first
  <2> QED  BY <2>1, <2>2, <2>3, <2>4 DEF InOrder
<1>17. Heap(r, first, top)
  BY <1>12, <1>14, <1>15, <1>16 DEF Heap
<1>18. ExtendHdr(h, l, n) = r
  <2>1. \A a \in DOMAIN r : a + BLOCK_SIZE <= Data(brk) \/ Data(brk) + n <= a
    BY <1>1, <1>3, <1>7 DEF Data
  <2>2. Data(brk) \in Int
    BY DEF Data
  <2> QED  BY <2>1, <2>2, <1>9, <1>12, WipeNothing
<1>19. r[brk].size = n /\ r[brk].next = NULL /\ r[brk].free = FALSE
  BY <1>7, <1>8
<1>20. \A a \in DOMAIN h :
         /\ r[a].size = h[a].size /\ r[a].free = h[a].free
         /\ r[a].next = IF a = l THEN brk ELSE h[a].next
  BY <1>11
<1> QED  BY <1>4, <1>7, <1>17, <1>18, <1>19, <1>20 DEF ExtensionOf

\* Marking a block allocated or free changes nothing else.
LEMMA MarkKeepsHeap ==
  ASSUME NEW h, NEW hd, NEW top, Heap(h, hd, top),
         NEW b \in DOMAIN h, NEW v \in BOOLEAN
  PROVE  LET g == [h EXCEPT ![b].free = v] IN
         /\ Heap(g, hd, top)
         /\ DOMAIN g = DOMAIN h /\ g[b].free = v
         /\ \A a \in DOMAIN h :
              /\ g[a].size = h[a].size /\ g[a].next = h[a].next /\ g[a].prev = h[a].prev
              /\ a # b => g[a].free = h[a].free
<1> DEFINE g == [h EXCEPT ![b].free = v]
<1>1. h \in [DOMAIN h -> HeaderType] /\ DOMAIN g = DOMAIN h
  BY DEF Heap, WellTyped
<1>2. g[b] = [h[b] EXCEPT !.free = v] /\ \A a \in DOMAIN h \ {b} : g[a] = h[a]
  BY <1>1
<1>3. g = [a \in DOMAIN h |-> g[a]]
  OBVIOUS
<1> HIDE DEF g
<1>4. ASSUME NEW a \in DOMAIN h
      PROVE  /\ g[a] \in HeaderType
             /\ g[a].size = h[a].size /\ g[a].next = h[a].next /\ g[a].prev = h[a].prev
             /\ g[a].ptr = h[a].ptr
             /\ a # b => g[a].free = h[a].free
             /\ a = b => g[a].free = v
  <2>1. h[a] \in HeaderType
    BY <1>1
  <2>2. CASE a = b
    <3>1. g[a] = [h[a] EXCEPT !.free = v]
      BY <1>2, <2>2
    <3> QED  BY <3>1, <2>1, <2>2 DEF HeaderType
  <2>3. CASE a # b
    BY <1>2, <2>1, <2>3
  <2> QED  BY <2>2, <2>3
<1>5. WellTyped(g)
  BY <1>1, <1>3, <1>4 DEF Heap, WellTyped
<1>6. Below(g, top) /\ Tiled(g, top)
  BY <1>1, <1>4 DEF Heap, Below, Tiled, EndOf
<1>7. InOrder(g, hd)
  <2>1. \A a \in DOMAIN h : h[a].next # NULL => h[a].next \in DOMAIN h
    BY DEF Heap, InOrder
  <2>2. \A a \in DOMAIN h : h[a].prev # NULL => h[a].prev \in DOMAIN h
    BY DEF Heap, InOrder
  <2>3. \A a \in DOMAIN h :
          g[a].next = h[a].next /\ g[a].prev = h[a].prev /\ g[a].ptr = h[a].ptr
    BY <1>4
  <2> QED  BY <1>1, <2>1, <2>2, <2>3 DEF Heap, InOrder, Linked
<1> QED  BY <1>1, <1>4, <1>5, <1>6, <1>7 DEF Heap, g

-----------------------------------------------------------------------------
(***************************************************************************)
(* What follows from the invariant about memory and the list.              *)
(***************************************************************************)

\* The heap in numbers, as the steps below need it.
LEMMA HeapFacts ==
  ASSUME IInv
  PROVE  /\ BLOCK_SIZE \in Nat \ {0} /\ Sizes \subseteq Nat /\ brk \in Nat
         /\ Blocks \subseteq Nat
         /\ \A a \in Blocks : /\ hdr[a] \in HeaderType /\ hdr[a].size \in Nat
                              /\ hdr[a].free \in BOOLEAN
                              /\ a # NULL /\ HeapBase <= a /\ EndOf(hdr, a) <= brk
                              /\ hdr[a].next # NULL => hdr[a].next \in Blocks
                              /\ hdr[a].prev # NULL => hdr[a].prev \in Blocks
         /\ head # NULL => head \in Blocks /\ \A a \in Blocks : head <= a
         /\ head = NULL => Blocks = {}
         /\ \A p \in DOMAIN held : /\ p \in Nat /\ held[p] \in Nat
                                   /\ held[p] \in Sizes
<1>1. BLOCK_SIZE \in Nat \ {0} /\ Sizes \subseteq Nat
  BY BlockSizeAssumption, SizesAssumption
<1>2. /\ Blocks \subseteq Nat /\ brk \in Nat
      /\ \A a \in Blocks : hdr[a] \in HeaderType
  BY DEF IInv, TypeOK, HeapInv, Heap, WellTyped, Blocks
<1>3. \A a \in Blocks : hdr[a].size \in Nat /\ hdr[a].free \in BOOLEAN
  BY <1>2 DEF HeaderType
<1>4. \A a \in Blocks : HeapBase <= a /\ EndOf(hdr, a) <= brk
  BY DEF IInv, HeapInv, Heap, Below, Blocks
<1>5. \A a \in Blocks : a # NULL
  BY <1>1, <1>2, <1>4, HeapAssumption DEF NULL
<1>6. \A a \in Blocks : /\ hdr[a].next # NULL => hdr[a].next \in Blocks
                        /\ hdr[a].prev # NULL => hdr[a].prev \in Blocks
  BY DEF IInv, HeapInv, Heap, InOrder, Blocks
<1>7. /\ head # NULL => head \in Blocks /\ \A a \in Blocks : head <= a
      /\ head = NULL => Blocks = {}
  BY DEF IInv, HeapInv, Heap, InOrder, Blocks
<1>8. \A p \in DOMAIN held : p \in Nat /\ held[p] \in Sizes
  BY DEF IInv, TypeOK
<1> QED  BY <1>1, <1>2, <1>3, <1>4, <1>5, <1>6, <1>7, <1>8

\* What the caller holds lies outside every free block, and below the break.
LEMMA OwnedOutside ==
  ASSUME IInv
  PROVE  /\ Owned \subseteq Int
         /\ \A x \in Owned, b \in Blocks : hdr[b].free => x < b \/ EndOf(hdr, b) <= x
         /\ \A x \in Owned : x < brk
<1>1. Owned = UNION {Bytes(p, held[p]) : p \in DOMAIN held}
  BY DEF IInv, HeapInv, Owned
<1>2. Separate(hdr)
  BY BlocksSeparate DEF IInv, HeapInv
<1> SUFFICES ASSUME NEW p \in DOMAIN held, NEW x \in Bytes(p, held[p])
             PROVE  /\ x \in Int /\ x < brk
                    /\ \A b \in Blocks : hdr[b].free => x < b \/ EndOf(hdr, b) <= x
  BY <1>1
<1> DEFINE a == get_block(p)
<1>3. a \in Blocks /\ ~hdr[a].free /\ held[p] <= hdr[a].size
  BY DEF IInv, HeapInv, Ownership
<1>4. p \in Nat /\ held[p] \in Nat /\ a \in Nat /\ hdr[a].size \in Nat
      /\ EndOf(hdr, a) <= brk /\ brk \in Nat /\ BLOCK_SIZE \in Nat
  BY <1>3, HeapFacts
<1>5. x \in Int /\ p <= x /\ x < p + held[p]
  BY <1>4 DEF Bytes
<1>6. a < x /\ x < EndOf(hdr, a)
  <2>1. p = a + BLOCK_SIZE /\ BLOCK_SIZE > 0
    BY <1>4, HeapFacts DEF get_block
  <2> HIDE DEF a
  <2> QED  BY <2>1, <1>3, <1>4, <1>5 DEF EndOf
<1>7. ASSUME NEW b \in Blocks, hdr[b].free
      PROVE  x < b \/ EndOf(hdr, b) <= x
  <2>1. b \in Nat /\ EndOf(hdr, b) \in Int
    BY HeapFacts DEF EndOf
  <2>2. b # a
    BY <1>3, <1>7
  <2>3. CASE a < b
    <3>1. EndOf(hdr, a) <= b
      BY <2>3, <1>2, <1>3 DEF Separate, Blocks
    <3>2. EndOf(hdr, a) \in Int
      BY <1>4 DEF EndOf
    <3> HIDE DEF a
    <3> QED  BY <3>1, <3>2, <1>5, <1>6, <2>1
  <2>4. CASE b < a
    <3>1. EndOf(hdr, b) <= a
      BY <2>4, <1>2, <1>3 DEF Separate, Blocks
    <3> HIDE DEF a
    <3> QED  BY <3>1, <1>4, <1>5, <1>6, <2>1
  <2> HIDE DEF a
  <2> QED  BY <2>1, <2>2, <2>3, <2>4, <1>4
<1>8. EndOf(hdr, a) \in Int
  BY <1>4 DEF EndOf
<1> HIDE DEF a
<1>9. x < brk
  BY <1>4, <1>5, <1>6, <1>8
<1> QED  BY <1>5, <1>7, <1>9

\* The region of a block that the caller holds, under its own address.
LEMMA HeldBlock ==
  ASSUME IInv, NEW p \in DOMAIN held
  PROVE  /\ get_block(p) \in Blocks /\ ~hdr[get_block(p)].free
         /\ held[p] <= hdr[get_block(p)].size
         /\ Data(get_block(p)) = p
<1>1. BLOCK_SIZE \in Nat /\ p \in Nat
  BY HeapFacts
<1>2. Data(get_block(p)) = p
  BY <1>1 DEF Data, get_block
<1> QED  BY <1>2 DEF IInv, HeapInv, Ownership

-----------------------------------------------------------------------------
(***************************************************************************)
(* The invariant is inductive when the allocator has sbrk for itself and   *)
(* mm_realloc is called with a size not below that of the old block.       *)
(***************************************************************************)
SoleUser == ForeignSizes = {} /\ ReallocUse = "enough"

\* The heap before the first call satisfies the invariant.
LEMMA InitInv == Init => IInv
<1> SUFFICES ASSUME Init PROVE IInv
  OBVIOUS
<1> USE DEF Init, NULL
<1>1. DOMAIN hdr = {} /\ hdr \in [DOMAIN hdr -> HeaderType] /\ Blocks = {}
  BY DEF Blocks
<1>2. DOMAIN held = {} /\ held \in [DOMAIN held -> Sizes]
  OBVIOUS
<1>3. TypeOK
  BY <1>1, <1>2, HeapAssumption DEF TypeOK, PC, WellTyped
<1>4. Heap(hdr, head, brk)
  BY <1>1 DEF Heap, WellTyped, Below, InOrder, Tiled
<1>5. HeapInv
  BY <1>1, <1>2, <1>4, HeapAssumption DEF HeapInv, Ownership
<1>6. CallInv
  BY <1>1 DEF CallInv, FreePairsAtFusion
<1> QED  BY <1>3, <1>5, <1>6 DEF IInv

\* A step that changes neither the list nor the owners keeps HeapInv.
LEMMA QuietStep ==
  ASSUME IInv, UNCHANGED <<heapVars, ghostVars>>
  PROVE  HeapInv' /\ Blocks' = Blocks /\ (FreePairsAtFusion /\ pc # "fuse" => FreePairsAtFusion')
<1>1. Blocks' = Blocks
  BY DEF heapVars, Blocks
<1>2. HeapInv'
  BY <1>1 DEF IInv, HeapInv, heapVars, ghostVars, Ownership
<1>3. FreePairsAtFusion /\ pc # "fuse" => FreePairsAtFusion'
  BY <1>1 DEF FreePairsAtFusion, heapVars
<1> QED  BY <1>1, <1>2, <1>3

\* The calls begin.
LEMMA CallsKeep ==
  ASSUME IInv, SoleUser,
         \/ \E n \in Sizes : MallocCall(n)
         \/ \E p \in DOMAIN held, n \in Sizes : ReallocCall(p, n)
         \/ \E p \in Address : FreeCall(p)
  PROVE  IInv'
<1> USE HeapFacts
<1>1. CASE \E n \in Sizes : MallocCall(n)
  <2>1. PICK n \in Sizes : MallocCall(n)
    BY <1>1
  <2>2. HeapInv' /\ Blocks' = Blocks /\ FreePairsAtFusion'
    BY <2>1, QuietStep DEF MallocCall, IInv, CallInv, heapVars, ghostVars
  <2>3. TypeOK'
    BY <2>1 DEF MallocCall, IInv, TypeOK, heapVars, ghostVars, PC, NULL
  <2>4. Scanning'
    BY <2>1, <2>2 DEF MallocCall, Scanning, heapVars
  <2> QED  BY <2>1, <2>2, <2>3, <2>4 DEF MallocCall, IInv, CallInv
<1>2. CASE \E p \in DOMAIN held, n \in Sizes : ReallocCall(p, n)
  <2>1. PICK p \in DOMAIN held, n \in Sizes : ReallocCall(p, n)
    BY <1>2
  <2>2. HeapInv' /\ Blocks' = Blocks /\ FreePairsAtFusion'
    BY <2>1, QuietStep DEF ReallocCall, IInv, CallInv, heapVars, ghostVars
  <2>3. TypeOK'
    BY <2>1 DEF ReallocCall, IInv, TypeOK, heapVars, ghostVars, PC, NULL
  <2>4. OldIsSmall'
    BY <2>1 DEF ReallocCall, ReallocAllowed, SoleUser, OldIsSmall, heapVars, ghostVars, get_block
  <2>5. Scanning'
    BY <2>1, <2>2, <2>4 DEF ReallocCall, Scanning, heapVars
  <2> QED  BY <2>1, <2>2, <2>3, <2>5 DEF ReallocCall, IInv, CallInv
<1>3. CASE \E p \in Address : FreeCall(p)
  <2>1. PICK p \in Address : FreeCall(p)
    BY <1>3
  <2>2. HeapInv' /\ Blocks' = Blocks /\ FreePairsAtFusion'
    BY <2>1, QuietStep DEF FreeCall, IInv, CallInv, heapVars, ghostVars
  <2>3. get_block(p) \in Int
    BY HeapAssumption DEF Address, get_block
  <2>4. TypeOK'
    BY <2>1, <2>3 DEF FreeCall, IInv, TypeOK, heapVars, ghostVars, PC, NULL
  <2>5. Finding'
    BY <2>1, <2>2 DEF FreeCall, Finding, heapVars
  <2> QED  BY <2>1, <2>2, <2>4, <2>5 DEF FreeCall, IInv, CallInv
<1> QED  BY <1>1, <1>2, <1>3

\* The searches advance, or end with nothing found.
LEMMA SearchesKeep ==
  ASSUME IInv,
         ScanNext \/ ScanExtendFails \/ FindNext \/ FreeRefused \/ CopyCrashes
  PROVE  IInv'
<1> USE HeapFacts
<1>a. HeapInv' /\ Blocks' = Blocks /\ (FreePairsAtFusion /\ pc # "fuse" => FreePairsAtFusion')
  BY QuietStep DEF ScanNext, ScanExtendFails, FindNext, FreeRefused, CopyCrashes,
                   heapVars, ghostVars
<1>1. CASE ScanNext
  <2>1. pc = "scan" /\ pc' = "scan" /\ iter \in Blocks /\ Scanning /\ FreePairsAtFusion'
    BY <1>1, <1>a DEF ScanNext, Intact, Blocks, IInv, CallInv
  <2>2. TypeOK'
    BY <1>1, <2>1 DEF ScanNext, IInv, TypeOK, heapVars, ghostVars, HeaderType
  <2>3. Scanning'
    BY <1>1, <1>a, <2>1 DEF ScanNext, Scanning, OldIsSmall, heapVars, ghostVars
  <2> QED  BY <1>a, <2>1, <2>2, <2>3 DEF IInv, CallInv
<1>2. CASE ScanExtendFails
  <2>1. pc = "scan" /\ Scanning /\ FreePairsAtFusion'
    BY <1>2, <1>a DEF ScanExtendFails, IInv, CallInv
  <2>2. TypeOK'
    BY <1>2 DEF ScanExtendFails, ReturnTo, ForgetLocals, IInv, TypeOK, localVars, heapVars,
                ghostVars, PC, NULL, Data
  <2>3. pc' = "idle" => old' = NULL
    BY <1>2 DEF ScanExtendFails, ReturnTo, ForgetLocals
  <2>4. pc' = "copy" => Copying'
    BY <1>2, <2>1 DEF ScanExtendFails, ReturnTo, ForgetLocals, Copying, OldIsSmall, Scanning,
                localVars, heapVars, ghostVars, Data, NULL, get_block
  <2>5. pc' \in {"idle", "copy"}
    BY <1>2 DEF ScanExtendFails, ReturnTo
  <2> QED  BY <1>a, <2>1, <2>2, <2>3, <2>4, <2>5 DEF IInv, CallInv
<1>3. CASE FindNext
  <2>1. pc = "find" /\ pc' = "find" /\ iter \in Blocks /\ Finding /\ FreePairsAtFusion'
    BY <1>3, <1>a DEF FindNext, Intact, Blocks, IInv, CallInv
  <2>2. TypeOK'
    BY <1>3, <2>1 DEF FindNext, IInv, TypeOK, heapVars, ghostVars, HeaderType
  <2>3. iter' # NULL => iter' \in Blocks
    BY <1>3, <2>1 DEF FindNext
  <2>4. ASSUME blk \in Blocks PROVE iter' # NULL /\ iter' <= blk
    <3>1. iter < blk
      BY <1>3, <2>1, <2>4 DEF FindNext, Finding
    <3>2. iter' = hdr[iter].next
      BY <1>3 DEF FindNext
    <3>3. hdr[iter].next # NULL
      <4> SUFFICES ASSUME hdr[iter].next = NULL PROVE FALSE
        OBVIOUS
      <4>1. blk <= iter
        BY <2>1, <2>4 DEF IInv, HeapInv, Heap, InOrder, Blocks
      <4> QED  BY <4>1, <3>1, <2>1, <2>4
    <3>4. blk <= iter \/ hdr[iter].next <= blk
      BY <2>1, <2>4, <3>3 DEF IInv, HeapInv, Heap, InOrder, Blocks
    <3> QED  BY <3>1, <3>2, <3>3, <3>4, <2>1, <2>4
  <2>5. Finding'
    BY <1>3, <1>a, <2>3, <2>4 DEF FindNext, Finding, heapVars
  <2> QED  BY <1>a, <2>1, <2>2, <2>5 DEF IInv, CallInv
<1>4. CASE FreeRefused
  <2>1. TypeOK' /\ pc' = "exited"
    BY <1>4 DEF FreeRefused, IInv, TypeOK, localVars, heapVars, ghostVars, PC
  <2> QED  BY <1>a, <2>1 DEF IInv, CallInv
<1>5. CASE CopyCrashes
  <2>1. TypeOK' /\ pc' = "crashed"
    BY <1>5 DEF CopyCrashes, IInv, TypeOK, localVars, heapVars, ghostVars, PC
  <2> QED  BY <1>a, <2>1 DEF IInv, CallInv
<1> QED  BY <1>1, <1>2, <1>3, <1>4, <1>5

\* mm_malloc hands out block b: allocated now, free or new before, large
\* enough, and every other block as it was (a new one besides b is free).
LEMMA HandOut ==
  ASSUME IInv, pc = "scan", NEW b \in Nat, MallocReturn(Data(b)),
         b \in Blocks', ~hdr'[b].free, size <= hdr'[b].size,
         b \in Blocks => hdr[b].free,
         \A a \in Blocks \ {b} : /\ a \in Blocks' /\ hdr'[a].free = hdr[a].free
                                 /\ hdr'[a].size = hdr[a].size,
         \A a \in Blocks' \ Blocks : a # b => hdr'[a].free,
         Heap(hdr, head, brk)', brk' \in Nat, head' \in Nat, UNCHANGED clobbered
  PROVE  /\ TypeOK' /\ Ownership' /\ foreign' = {} /\ clobbered' = {}
         /\ pc' \in {"idle", "copy"}
         /\ pc' = "idle" => old' = NULL
         /\ pc' = "copy" => Copying'
<1> USE HeapFacts
<1> DEFINE p == Data(b)
<1>1. p \in Nat /\ get_block(p) = b
  BY DEF Data, get_block
<1>2. /\ ret' = p /\ foreign' = foreign /\ pc' \in {"idle", "copy"}
      /\ DOMAIN held' = DOMAIN held \cup {p} /\ held'[p] = size
      /\ \A q \in DOMAIN held \ {p} : held'[q] = held[q]
      /\ held' = [q \in DOMAIN held' |-> held'[q]]
  BY DEF MallocReturn, ReturnTo, Put
<1>3. Scanning /\ size \in Nat /\ size \in Sizes
  BY DEF IInv, CallInv, Scanning
<1> HIDE DEF p
<1>4. \A q \in DOMAIN held : q # p /\ get_block(q) # b
  <2> SUFFICES ASSUME NEW q \in DOMAIN held PROVE q # p /\ get_block(q) # b
    OBVIOUS
  <2>1. get_block(q) \in Blocks /\ ~hdr[get_block(q)].free
    BY HeldBlock
  <2> QED  BY <2>1, <1>1
<1>5. Ownership'
  <2>1. ASSUME NEW q \in DOMAIN held'
        PROVE  /\ get_block(q) \in Blocks' /\ ~hdr'[get_block(q)].free
               /\ held'[q] <= hdr'[get_block(q)].size
    <3>1. CASE q = p
      BY <3>1, <1>1, <1>2
    <3>2. CASE q # p
      <4>1. q \in DOMAIN held /\ held'[q] = held[q] /\ get_block(q) # b
        BY <3>2, <1>2, <1>4, <2>1
      <4>2. get_block(q) \in Blocks /\ ~hdr[get_block(q)].free
            /\ held[q] <= hdr[get_block(q)].size
        BY <4>1, HeldBlock
      <4> QED  BY <4>1, <4>2
    <3> QED  BY <3>1, <3>2
  <2>2. ASSUME NEW a \in Blocks', ~hdr'[a].free
        PROVE  Data(a) \in DOMAIN held'
    <3>1. CASE a = b
      BY <3>1, <1>2 DEF p
    <3>2. CASE a # b
      <4>1. a \in Blocks /\ ~hdr[a].free
        BY <2>2, <3>2
      <4>2. Data(a) \in DOMAIN held
        BY <4>1 DEF IInv, HeapInv, Ownership
      <4> QED  BY <4>2, <1>2
    <3> QED  BY <3>1, <3>2
  <2> QED  BY <2>1, <2>2 DEF Ownership, get_block, Data
<1>6. TypeOK'
  <2>1. held' \in [DOMAIN held' -> Sizes] /\ DOMAIN held' \subseteq Nat
    BY <1>1, <1>2, <1>3
  <2>2. /\ size' \in Nat /\ iter' \in Nat /\ last' \in Nat /\ blk' \in Int
        /\ fuses' \in 0 .. 2 /\ old' \in Nat
    BY DEF MallocReturn, ReturnTo, ForgetLocals, localVars, IInv, TypeOK, NULL
  <2>3. ret' \in Nat /\ pc' \in PC /\ foreign' \subseteq Nat /\ clobbered' \subseteq Nat
    BY <1>1, <1>2 DEF IInv, TypeOK, PC
  <2> QED  BY <2>1, <2>2, <2>3 DEF TypeOK, Heap
<1>7. pc' = "idle" => old' = NULL
  BY DEF MallocReturn, ReturnTo, ForgetLocals
<1>8. ASSUME pc' = "copy" PROVE Copying'
  <2>1. old # NULL /\ old' = old /\ size' = size
    BY <1>8 DEF MallocReturn, ReturnTo, localVars
  <2>2. old \in DOMAIN held /\ hdr[get_block(old)].size <= size
    BY <2>1, <1>3 DEF Scanning, OldIsSmall
  <2>3. get_block(old) \in Blocks /\ get_block(old) # b /\ old # p
    BY <2>2, <1>4, HeldBlock
  <2>4. hdr'[get_block(old)].size <= size
    BY <2>2, <2>3
  <2> QED  BY <2>1, <2>2, <2>3, <2>4, <1>2 DEF Copying, OldIsSmall, get_block
<1> QED  BY <1>2, <1>5, <1>6, <1>7, <1>8 DEF IInv, HeapInv

\* No two free neighbours while mm_malloc runs.
LEMMA NoPairs ==
  ASSUME IInv, pc \notin {"exited", "crashed", "fuse"}, NEW a \in Blocks, hdr[a].free
  PROVE  hdr[a].next # NULL => ~hdr[hdr[a].next].free
  BY DEF IInv, CallInv, FreePairsAtFusion, CanFuse

\* mm_malloc takes a block of the exact size.
LEMMA ScanExactKeeps ==
  ASSUME IInv, ScanExact
  PROVE  IInv'
<1> USE HeapFacts
<1>1. /\ pc = "scan" /\ iter \in Blocks /\ hdr[iter].free
      /\ hdr[iter].size = size + BLOCK_SIZE /\ size \in Nat
      /\ hdr' = [hdr EXCEPT ![iter].free = FALSE]
      /\ UNCHANGED <<head, brk, clobbered>> /\ MallocReturn(Data(iter))
  BY DEF ScanExact, Intact, Fits, Exact, Blocks, IInv, TypeOK
<1>2. /\ Heap(hdr', head, brk) /\ Blocks' = Blocks /\ ~hdr'[iter].free
      /\ \A a \in Blocks : /\ hdr'[a].size = hdr[a].size /\ hdr'[a].next = hdr[a].next
                           /\ a # iter => hdr'[a].free = hdr[a].free
  BY <1>1, MarkKeepsHeap, ZenonT(60) DEF IInv, HeapInv, Blocks
<1>3. /\ TypeOK' /\ Ownership' /\ foreign' = {} /\ clobbered' = {}
      /\ pc' \in {"idle", "copy"}
      /\ pc' = "idle" => old' = NULL
      /\ pc' = "copy" => Copying'
  <2>1. iter \in Nat /\ size <= hdr'[iter].size /\ head' \in Nat /\ brk' \in Nat
    BY <1>1, <1>2 DEF IInv, TypeOK
  <2>2. Heap(hdr, head, brk)'
    BY <1>1, <1>2
  <2> QED  BY <2>1, <2>2, <1>1, <1>2, HandOut
<1>4. HeapInv'
  BY <1>1, <1>2, <1>3 DEF IInv, HeapInv
<1>5. FreePairsAtFusion'
  <2> SUFFICES ASSUME NEW a \in Blocks, hdr'[a].free, CanFuse(hdr', a)
               PROVE  FALSE
    BY <1>2 DEF FreePairsAtFusion
  <2>1. hdr[a].free /\ a # iter /\ hdr[a].next # NULL /\ hdr'[hdr[a].next].free
    BY <1>2 DEF CanFuse
  <2>2. hdr[hdr[a].next].free
    BY <2>1, <1>1, <1>2
  <2> QED  BY <2>1, <2>2, <1>1, NoPairs
<1> QED  BY <1>3, <1>4, <1>5 DEF IInv, CallInv

\* mm_malloc splits a larger block.
LEMMA ScanSplitKeeps ==
  ASSUME IInv, ScanSplit
  PROVE  IInv'
<1> USE HeapFacts
<1> DEFINE rest == RestOf(hdr, iter, size)
<1>1. /\ pc = "scan" /\ iter \in Blocks /\ hdr[iter].free
      /\ hdr[iter].size > size + BLOCK_SIZE /\ size \in Nat
      /\ hdr' = SplitHdr(hdr, iter, size)
      /\ clobbered' = clobbered \cup (Owned \cap SplitWrites(hdr, iter, size))
      /\ UNCHANGED <<head, brk>> /\ MallocReturn(Data(iter))
  <2>1. size \in Nat /\ iter \in Blocks
    BY DEF ScanSplit, Intact, Blocks, IInv, TypeOK
  <2>2. hdr[iter].size >= size + BLOCK_SIZE /\ hdr[iter].size # size + BLOCK_SIZE
    BY DEF ScanSplit, Fits, Exact
  <2> QED  BY <2>1, <2>2 DEF ScanSplit, Fits
<1>2. /\ Heap(hdr', head, brk) /\ rest \notin Blocks /\ Blocks' = Blocks \cup {rest}
      /\ hdr'[iter].size = size /\ hdr'[iter].next = rest /\ ~hdr'[iter].free
      /\ hdr'[rest].next = hdr[iter].next /\ hdr'[rest].free
      /\ \A a \in Blocks \ {iter} :
           /\ hdr'[a].size = hdr[a].size /\ hdr'[a].next = hdr[a].next
           /\ hdr'[a].free = hdr[a].free
  <2>1. /\ Heap(hdr, head, brk) /\ brk \in Nat /\ iter \in DOMAIN hdr /\ size \in Nat
        /\ hdr[iter].size > size + BLOCK_SIZE /\ BLOCK_SIZE \in Nat \ {0}
    BY <1>1 DEF IInv, HeapInv, Blocks
  <2>2. /\ Heap(SplitHdr(hdr, iter, size), head, brk)
        /\ SplitOf(SplitHdr(hdr, iter, size), hdr, iter, size, RestOf(hdr, iter, size))
    BY ONLY <2>1, SplitKeepsHeap
  <2>3. hdr' = SplitHdr(hdr, iter, size)
    BY <1>1
  <2>4. Heap(hdr', head, brk) /\ SplitOf(hdr', hdr, iter, size, rest)
    BY <2>2, <2>3
  <2> HIDE DEF rest
  <2> QED  BY ONLY <2>4 DEF Blocks, SplitOf
<1>3. Owned \cap SplitWrites(hdr, iter, size) = {}
  <2> SUFFICES ASSUME NEW x \in Owned, x \in SplitWrites(hdr, iter, size)
               PROVE  FALSE
    OBVIOUS
  <2>1. hdr[iter].ptr = iter /\ iter \in Nat /\ hdr[iter].size \in Nat
    BY <1>1 DEF IInv, HeapInv, Heap, InOrder, Blocks
  <2>2. x \in Int /\ (x < iter \/ EndOf(hdr, iter) <= x)
    BY <1>1, OwnedOutside
  <2>3. rest = iter + size + BLOCK_SIZE
    BY <2>1 DEF RestOf
  <2>4. \/ x \in Bytes(Data(iter), size)
        \/ x \in Bytes(rest, BLOCK_SIZE)
        \/ x \in Bytes(Data(rest), hdr[iter].size - size - BLOCK_SIZE)
    BY DEF SplitWrites
  <2> HIDE DEF rest
  <2> QED  BY <2>1, <2>2, <2>3, <2>4, <1>1 DEF Bytes, Data, EndOf
<1> HIDE DEF rest
<1>4. /\ TypeOK' /\ Ownership' /\ foreign' = {} /\ clobbered' = {}
      /\ pc' \in {"idle", "copy"}
      /\ pc' = "idle" => old' = NULL
      /\ pc' = "copy" => Copying'
  <2>1. iter \in Nat /\ size <= hdr'[iter].size /\ head' \in Nat /\ brk' \in Nat
    BY <1>1, <1>2 DEF IInv, TypeOK
  <2>2. UNCHANGED clobbered
    BY <1>1, <1>3
  <2>3. Heap(hdr, head, brk)'
    BY <1>1, <1>2
  <2> QED  BY <2>1, <2>2, <2>3, <1>1, <1>2, HandOut
<1>5. HeapInv'
  BY <1>1, <1>2, <1>4 DEF IInv, HeapInv
<1>6. FreePairsAtFusion'
  <2> SUFFICES ASSUME NEW a \in Blocks', hdr'[a].free, CanFuse(hdr', a)
               PROVE  FALSE
    BY DEF FreePairsAtFusion
  <2>1. CASE a = rest
    <3>1. hdr[iter].next # NULL /\ hdr'[hdr[iter].next].free
      BY <2>1, <1>2 DEF CanFuse
    <3>2. ~hdr[hdr[iter].next].free /\ hdr[iter].next \in Blocks
      BY <3>1, <1>1, NoPairs
    <3> QED  BY <3>1, <3>2, <1>1, <1>2
  <2>2. CASE a # rest
    <3>1. a \in Blocks /\ a # iter
      BY <2>2, <1>2
    <3>2. hdr[a].free /\ hdr[a].next # NULL /\ hdr'[hdr[a].next].free
      BY <3>1, <1>2 DEF CanFuse
    <3>3. ~hdr[hdr[a].next].free /\ hdr[a].next \in Blocks
      BY <3>1, <3>2, <1>1, NoPairs
    <3> QED  BY <3>2, <3>3, <1>1, <1>2
  <2> QED  BY <2>1, <2>2
<1> QED  BY <1>4, <1>5, <1>6 DEF IInv, CallInv

\* mm_malloc grows the heap.
LEMMA ScanExtendKeeps ==
  ASSUME IInv, ScanExtend
  PROVE  IInv'
<1> USE HeapFacts
<1>1. /\ pc = "scan" /\ iter = NULL /\ size \in Nat /\ Scanning
      /\ brk + size + BLOCK_SIZE <= HeapEnd
      /\ hdr' = ExtendHdr(hdr, last, size)
      /\ head' = IF last = NULL THEN brk ELSE head
      /\ brk' = brk + size + BLOCK_SIZE
      /\ clobbered' = clobbered \cup (Owned \cap Bytes(brk, size + BLOCK_SIZE))
      /\ MallocReturn(Data(brk))
  BY HeapAssumption DEF ScanExtend, SbrkFails, IInv, CallInv, TypeOK
<1>2. \/ last = NULL /\ head = NULL
      \/ last \in Blocks /\ hdr[last].next = NULL
  BY <1>1 DEF Scanning
<1>3. HeapBase <= brk /\ Heap(hdr, head, brk)
  BY DEF IInv, HeapInv
<1>4. /\ Heap(hdr', head', brk + size + BLOCK_SIZE) /\ brk \notin Blocks
      /\ Blocks' = Blocks \cup {brk}
      /\ hdr'[brk].size = size /\ hdr'[brk].next = NULL /\ ~hdr'[brk].free
      /\ \A a \in Blocks :
           /\ hdr'[a].size = hdr[a].size /\ hdr'[a].free = hdr[a].free
           /\ hdr'[a].next = IF a = last THEN brk ELSE hdr[a].next
  <2>1. /\ brk \in Nat /\ size \in Nat /\ BLOCK_SIZE \in Nat \ {0}
        /\ \/ last = NULL /\ head = NULL
           \/ last \in DOMAIN hdr /\ hdr[last].next = NULL
    BY <1>1, <1>2 DEF Blocks
  <2>2. /\ Heap(ExtendHdr(hdr, last, size), IF last = NULL THEN brk ELSE head,
                brk + size + BLOCK_SIZE)
        /\ ExtensionOf(ExtendHdr(hdr, last, size), hdr, last, brk, size)
    BY ONLY <2>1, <1>3, ExtendKeepsHeap
  <2>3. Heap(hdr', head', brk + size + BLOCK_SIZE) /\ ExtensionOf(hdr', hdr, last, brk, size)
    BY <2>2, <1>1
  <2> QED  BY ONLY <2>3 DEF Blocks, ExtensionOf
<1>5. Owned \cap Bytes(brk, size + BLOCK_SIZE) = {}
  BY <1>1, OwnedOutside DEF Bytes
<1>6. /\ TypeOK' /\ Ownership' /\ foreign' = {} /\ clobbered' = {}
      /\ pc' \in {"idle", "copy"}
      /\ pc' = "idle" => old' = NULL
      /\ pc' = "copy" => Copying'
  <2>1. brk' \in Nat /\ head' \in Nat /\ size <= hdr'[brk].size
    BY <1>1, <1>4 DEF IInv, TypeOK
  <2>2. UNCHANGED clobbered
    BY <1>1, <1>5
  <2>3. Heap(hdr, head, brk)'
    BY <1>1, <1>4
  <2>4. \A a \in Blocks \ {brk} : /\ a \in Blocks' /\ hdr'[a].free = hdr[a].free
                                  /\ hdr'[a].size = hdr[a].size
    BY <1>4
  <2>5. \A a \in Blocks' \ Blocks : a # brk => hdr'[a].free
    BY <1>4
  <2> QED  BY <2>1, <2>2, <2>3, <2>4, <2>5, <1>1, <1>4, HandOut
<1>7. HeapInv'
  <2>1. brk' <= HeapEnd /\ HeapBase <= brk'
    BY <1>1, <1>3, HeapAssumption
  <2> QED  BY <2>1, <1>1, <1>4, <1>6 DEF HeapInv
<1>8. FreePairsAtFusion'
  <2> SUFFICES ASSUME NEW a \in Blocks', hdr'[a].free, CanFuse(hdr', a)
               PROVE  FALSE
    BY DEF FreePairsAtFusion
  <2>1. a \in Blocks /\ hdr[a].free /\ a # last
    BY <1>4 DEF CanFuse
  <2>2. hdr[a].next # NULL /\ hdr'[hdr[a].next].free
    BY <2>1, <1>4 DEF CanFuse
  <2>3. ~hdr[hdr[a].next].free /\ hdr[a].next \in Blocks
    BY <2>1, <2>2, <1>1, NoPairs
  <2> QED  BY <2>2, <2>3, <1>4
<1> QED  BY <1>6, <1>7, <1>8 DEF IInv, CallInv

\* mm_realloc's copy stays in the new region, and mm_free begins.
LEMMA CopyKeeps ==
  ASSUME IInv, CopyOld
  PROVE  IInv'
<1> USE HeapFacts
<1> DEFINE o == get_block(old)
           n == hdr[o].size
<1>1. /\ pc = "copy" /\ pc' = "find" /\ (ret = Data(NULL) => n = 0)
      /\ hdr' = Wipe(hdr, ret, n)
      /\ clobbered' = clobbered \cup (Bytes(ret, n) \cap (Owned \ Bytes(ret, size)))
      /\ blk' = o /\ iter' = head
      /\ UNCHANGED <<head, brk, size, last, fuses, old, ret, held, foreign>>
  BY DEF CopyOld
<1>2. Copying /\ OldIsSmall /\ o \in Blocks /\ n \in Nat /\ n <= size /\ ret \in Nat
      /\ size \in Nat
  BY <1>1, HeldBlock DEF IInv, CallInv, Copying, OldIsSmall, TypeOK
<1>3. hdr' = hdr
  <2>1. WellTyped(hdr)
    BY DEF IInv, TypeOK
  <2>2. CASE ret = Data(NULL)
    <3>1. n = 0
      BY <1>1, <2>2
    <3> HIDE DEF n, o
    <3> QED  BY <3>1, <2>1, <1>1, <1>2, WipeNothing
  <2>3. CASE ret # Data(NULL)
    <3> DEFINE r == get_block(ret)
    <3>1. ret \in DOMAIN held /\ held[ret] = size
      BY <2>3, <1>2 DEF Copying
    <3>2. r \in Blocks /\ size <= hdr[r].size /\ Data(r) = ret
      BY <3>1, HeldBlock
    <3>3. Separate(hdr)
      BY BlocksSeparate DEF IInv, HeapInv
    <3>4. \A a \in DOMAIN hdr : a + BLOCK_SIZE <= ret \/ ret + n <= a
      <4> SUFFICES ASSUME NEW a \in Blocks
                   PROVE  a + BLOCK_SIZE <= ret \/ ret + n <= a
        BY DEF Blocks
      <4>1. a \in Nat /\ r \in Nat /\ hdr[r].size \in Nat
        BY <3>2
      <4>2. ret = r + BLOCK_SIZE
        BY <3>2 DEF Data
      <4>3. CASE r < a
        <5>1. EndOf(hdr, r) <= a
          BY <4>3, <3>2, <3>3 DEF Separate, Blocks
        <5> HIDE DEF n, r
        <5> QED  BY <5>1, <4>1, <4>2, <3>2, <1>2 DEF EndOf
      <4>4. CASE a <= r
        <5> HIDE DEF n, r
        <5> QED  BY <4>4, <4>1, <4>2
      <4> HIDE DEF r, n
      <4> QED  BY <4>1, <4>3, <4>4
    <3> HIDE DEF n, o
    <3> QED  BY <3>4, <2>1, <1>1, <1>2, WipeNothing
  <2> QED  BY <2>2, <2>3
<1>4. clobbered' = {}
  <2>1. Bytes(ret, n) \subseteq Bytes(ret, size)
    <3> HIDE DEF n
    <3> QED  BY <1>2 DEF Bytes
  <2>2. clobbered = {}
    BY DEF IInv, HeapInv
  <2> QED  BY <2>1, <2>2, <1>1
<1>5. HeapInv' /\ Blocks' = Blocks
  BY <1>1, <1>3, <1>4 DEF IInv, HeapInv, Blocks, Ownership
<1>6. TypeOK'
  <2>1. blk' \in Int
    BY <1>1, <1>2
  <2>2. iter' \in Nat
    BY <1>1 DEF IInv, TypeOK
  <2> HIDE DEF n, o
  <2> QED  BY <2>1, <2>2, <1>1, <1>3, <1>4 DEF IInv, TypeOK, PC
<1>7. Finding'
  BY <1>1, <1>2, <1>5 DEF Finding
<1>8. FreePairsAtFusion'
  BY <1>1, <1>3, <1>5 DEF IInv, CallInv, FreePairsAtFusion
<1> QED  BY <1>1, <1>5, <1>6, <1>7, <1>8 DEF IInv, CallInv

\* mm_free finds the block and marks it free.
LEMMA FindFoundKeeps ==
  ASSUME IInv, FindFound
  PROVE  IInv'
<1> USE HeapFacts
<1> DEFINE prev == hdr[blk].prev
           behind == prev # NULL /\ hdr[prev].free
<1>1. /\ pc = "find" /\ pc' = "fuse" /\ blk \in Blocks /\ ~hdr[blk].free
      /\ blk' = (IF behind THEN prev ELSE blk) /\ fuses' = Fusions(behind)
      /\ hdr' = [hdr EXCEPT ![blk].free = TRUE]
      /\ held' = Remove(held, Data(blk))
      /\ UNCHANGED <<head, brk, size, iter, last, old, ret, foreign, clobbered>>
  BY DEF FindFound, Allocated, Intact, Blocks
<1>2. /\ Heap(hdr', head, brk) /\ Blocks' = Blocks /\ hdr'[blk].free
      /\ \A a \in Blocks : /\ hdr'[a].size = hdr[a].size /\ hdr'[a].next = hdr[a].next
                           /\ a # blk => hdr'[a].free = hdr[a].free
  BY <1>1, MarkKeepsHeap, ZenonT(60) DEF IInv, HeapInv, Blocks
<1>3. /\ DOMAIN held' = DOMAIN held \ {Data(blk)}
      /\ \A p \in DOMAIN held' : held'[p] = held[p]
      /\ held' = [p \in DOMAIN held' |-> held'[p]]
  BY <1>1 DEF Remove, Restrict
<1>4. Ownership'
  <2>1. ASSUME NEW p \in DOMAIN held'
        PROVE  /\ get_block(p) \in Blocks' /\ ~hdr'[get_block(p)].free
               /\ held'[p] <= hdr'[get_block(p)].size
    <3>1. p \in DOMAIN held /\ p # Data(blk) /\ held'[p] = held[p]
      BY <1>3
    <3>2. /\ get_block(p) \in Blocks /\ ~hdr[get_block(p)].free
          /\ held[p] <= hdr[get_block(p)].size /\ Data(get_block(p)) = p
      BY <3>1, HeldBlock
    <3> QED  BY <3>1, <3>2, <1>2
  <2>2. ASSUME NEW a \in Blocks', ~hdr'[a].free
        PROVE  Data(a) \in DOMAIN held'
    <3>1. a # blk /\ a \in Blocks /\ ~hdr[a].free
      BY <2>2, <1>2
    <3>2. Data(a) \in DOMAIN held
      BY <3>1 DEF IInv, HeapInv, Ownership
    <3>3. Data(a) # Data(blk)
      BY <3>1, <1>1 DEF Data
    <3> QED  BY <3>2, <3>3, <1>3
  <2> QED  BY <2>1, <2>2 DEF Ownership, get_block, Data
<1>5. HeapInv'
  BY <1>1, <1>2, <1>4 DEF IInv, HeapInv
<1>6. blk' \in Blocks /\ hdr'[blk'].free /\ fuses' \in {1, 2}
      /\ (behind => hdr[prev].next = blk /\ blk' = prev /\ fuses' = 2)
      /\ (~behind => blk' = blk)
  <2>1. CASE behind
    <3>1. prev \in Blocks /\ hdr[prev].next = blk
      BY <2>1, <1>1 DEF IInv, HeapInv, Heap, InOrder, Linked, Blocks
    <3>2. blk' = prev /\ fuses' = 2
      BY <2>1, <1>1 DEF Fusions
    <3>3. hdr'[prev].free
      BY <3>1, <1>1, <1>2, <2>1
    <3> QED  BY <2>1, <3>1, <3>2, <3>3
  <2>2. CASE ~behind
    BY <2>2, <1>1, <1>2 DEF Fusions
  <2> QED  BY <2>1, <2>2
<1>7. TypeOK'
  <2>1. held' \in [DOMAIN held' -> Sizes] /\ DOMAIN held' \subseteq Nat
    BY <1>3
  <2>2. WellTyped(hdr')
    BY <1>2 DEF Heap
  <2>3. blk' \in Int /\ fuses' \in 0 .. 2
    BY <1>6
  <2> HIDE DEF behind, prev
  <2> QED  BY <2>1, <2>2, <2>3, <1>1 DEF IInv, TypeOK, PC
<1>8. Fusing'
  BY <1>2, <1>6 DEF Fusing
<1>9. FreePairsAtFusion'
  <2> SUFFICES ASSUME NEW a \in Blocks, hdr'[a].free, CanFuse(hdr', a)
               PROVE  a = blk' \/ (fuses' = 2 /\ a = hdr'[blk'].next)
    BY <1>1, <1>2 DEF FreePairsAtFusion
  <2> DEFINE nx == hdr[a].next
  <2>1. nx # NULL /\ nx \in Blocks /\ hdr'[nx].free
    BY <1>2 DEF CanFuse
  <2>2. CASE a = blk
    <3>1. CASE behind
      BY <3>1, <2>2, <1>2, <1>6
    <3>2. CASE ~behind
      BY <3>2, <2>2, <1>6
    <3> QED  BY <3>1, <3>2
  <2>3. CASE a # blk
    <3>1. hdr[a].free
      BY <2>3, <1>2
    <3>2. ~hdr[nx].free
      BY <2>1, <3>1, <1>1, NoPairs
    <3>3. nx = blk
      BY <2>1, <3>2, <1>2
    <3>4. prev = a /\ behind
      BY <3>1, <3>3, <2>1 DEF IInv, HeapInv, Heap, InOrder, Linked, Blocks
    <3> QED  BY <3>4, <1>6
  <2> QED  BY <2>2, <2>3
<1> QED  BY <1>1, <1>5, <1>7, <1>8, <1>9 DEF IInv, CallInv

\* What one fusion leaves of the call: it returns, or fuses once more.
LEMMA AfterFusion ==
  ASSUME IInv, pc = "fuse", FusionReturn
  PROVE  /\ fuses \in {1, 2} /\ blk \in Blocks /\ hdr[blk].free
         /\ UNCHANGED <<head, brk, ret, held, foreign>>
         /\ fuses = 1 => pc' = "idle" /\ old' = NULL
         /\ fuses = 2 => pc' = "fuse" /\ fuses' = 1 /\ blk' = blk
         /\ WellTyped(hdr') /\ clobbered' = {} => TypeOK'
<1>1. fuses \in {1, 2} /\ blk \in Blocks /\ hdr[blk].free
  BY DEF IInv, CallInv, Fusing
<1>2. /\ UNCHANGED <<head, brk, ret, held, foreign>>
      /\ fuses = 1 => pc' = "idle" /\ old' = NULL
      /\ fuses = 2 => pc' = "fuse" /\ fuses' = 1 /\ blk' = blk
  BY DEF FusionReturn, ForgetLocals
<1>3. /\ size' \in Nat /\ iter' \in Nat /\ last' \in Nat /\ blk' \in Int
      /\ fuses' \in 0 .. 2 /\ old' \in Nat
  BY DEF FusionReturn, ForgetLocals, IInv, TypeOK, NULL
<1>4. WellTyped(hdr') /\ clobbered' = {} => TypeOK'
  BY <1>1, <1>2, <1>3 DEF IInv, TypeOK, PC
<1> QED  BY <1>1, <1>2, <1>4

\* fusion absorbs the next block.
LEMMA FuseKeeps ==
  ASSUME IInv, Fuse
  PROVE  IInv'
<1> USE HeapFacts
<1> DEFINE nx == hdr[blk].next
<1>1. /\ pc = "fuse" /\ CanFuse(hdr, blk) /\ hdr' = FusionHdr(hdr, blk) /\ FusionReturn
      /\ clobbered' = clobbered \cup
           (Owned \cap Bytes(Data(blk), hdr[blk].size + hdr[nx].size + BLOCK_SIZE))
      /\ blk \in DOMAIN hdr
  BY DEF Fuse, IntactToFuse, Intact
<1>2. /\ fuses \in {1, 2} /\ blk \in Blocks /\ hdr[blk].free
      /\ UNCHANGED <<head, brk, ret, held, foreign>>
      /\ fuses = 1 => pc' = "idle" /\ old' = NULL
      /\ fuses = 2 => pc' = "fuse" /\ fuses' = 1 /\ blk' = blk
      /\ WellTyped(hdr') /\ clobbered' = {} => TypeOK'
  BY <1>1, AfterFusion
<1>3. Heap(hdr', head, brk) /\ FusionOf(hdr', hdr, blk, nx)
  <2>1. Heap(hdr, head, brk) /\ brk \in Nat /\ BLOCK_SIZE \in Nat \ {0}
    BY DEF IInv, HeapInv
  <2>2. Heap(FusionHdr(hdr, blk), head, brk) /\ FusionOf(FusionHdr(hdr, blk), hdr, blk, nx)
    BY ONLY <2>1, <1>1, FusionKeepsHeap
  <2> QED  BY <2>2, <1>1
<1>4. /\ nx \in Blocks /\ blk < nx /\ Blocks' = Blocks \ {nx}
      /\ hdr'[blk].next = hdr[nx].next /\ hdr'[blk].size \in Nat
      /\ \A a \in Blocks' : hdr'[a].free = hdr[a].free
      /\ \A a \in Blocks' \ {blk} : hdr'[a].next = hdr[a].next /\ hdr'[a].size = hdr[a].size
  BY <1>2, <1>3 DEF FusionOf, Blocks
<1>5. nx # NULL /\ hdr[nx].free
  BY <1>1 DEF CanFuse
<1>6. clobbered' = {}
  <2>1. ASSUME NEW x \in Owned,
               x \in Bytes(Data(blk), hdr[blk].size + hdr[nx].size + BLOCK_SIZE)
        PROVE  FALSE
    <3>1. /\ x \in Int /\ (x < blk \/ EndOf(hdr, blk) <= x)
          /\ (x < nx \/ EndOf(hdr, nx) <= x)
      BY <1>2, <1>4, <1>5, OwnedOutside
    <3>2. EndOf(hdr, blk) = nx
      BY <1>2, <1>5 DEF IInv, HeapInv, Heap, Tiled, Blocks
    <3>3. /\ blk \in Nat /\ nx \in Nat /\ hdr[blk].size \in Nat /\ hdr[nx].size \in Nat
          /\ BLOCK_SIZE \in Nat
      BY <1>2, <1>4
    <3> HIDE DEF nx
    <3> QED  BY <3>1, <3>2, <3>3, <2>1 DEF Bytes, Data, EndOf
  <2>2. clobbered = {}
    BY DEF IInv, HeapInv
  <2> QED  BY <2>1, <2>2, <1>1
<1>7. Ownership'
  <2>1. ASSUME NEW p \in DOMAIN held
        PROVE  /\ get_block(p) \in Blocks' /\ ~hdr'[get_block(p)].free
               /\ held[p] <= hdr'[get_block(p)].size
    <3>1. /\ get_block(p) \in Blocks /\ ~hdr[get_block(p)].free
          /\ held[p] <= hdr[get_block(p)].size
      BY HeldBlock
    <3>2. get_block(p) # nx /\ get_block(p) # blk
      BY <3>1, <1>2, <1>5
    <3> QED  BY <3>1, <3>2, <1>4
  <2>2. \A a \in Blocks' : ~hdr'[a].free => Data(a) \in DOMAIN held
    BY <1>4 DEF IInv, HeapInv, Ownership
  <2> QED  BY <2>1, <2>2, <1>2 DEF Ownership, get_block, Data
<1>8. HeapInv'
  <2>1. foreign' = {}
    BY <1>2 DEF IInv, HeapInv
  <2> QED  BY <2>1, <1>2, <1>3, <1>4, <1>6, <1>7 DEF IInv, HeapInv
<1>9. TypeOK'
  BY <1>2, <1>3, <1>6 DEF Heap
<1>10. hdr'[blk].free /\ blk \in Blocks'
  BY <1>2, <1>4
<1>11. FreePairsAtFusion'
  <2> SUFFICES ASSUME NEW a \in Blocks', hdr'[a].free, CanFuse(hdr', a)
               PROVE  fuses = 2 /\ a = blk
    BY <1>2 DEF FreePairsAtFusion
  <2>1. FreePairsAtFusion
    BY <1>1 DEF IInv, CallInv
  <2>2. a \in Blocks /\ a # nx /\ hdr[a].free
    BY <1>4
  <2>3. CASE a # blk
    <3>1. hdr'[a].next = hdr[a].next /\ hdr[a].next # NULL /\ hdr'[hdr[a].next].free
      BY <2>3, <1>4 DEF CanFuse
    <3>2. hdr[a].next # nx
      <4>1. hdr[nx].prev = blk /\ hdr[hdr[a].next].prev = a
        BY <3>1, <2>2, <1>2, <1>5 DEF IInv, HeapInv, Heap, InOrder, Linked, Blocks
      <4> QED  BY <4>1, <2>3
    <3>3. hdr[hdr[a].next].free
      BY <3>1, <3>2, <2>2, <1>4
    <3> QED  BY <3>1, <3>3, <2>1, <2>2, <2>3 DEF FreePairsAtFusion, CanFuse
  <2>4. CASE a = blk /\ fuses = 1
    <3>1. hdr[nx].next # NULL /\ hdr'[hdr[nx].next].free
      BY <2>4, <1>4 DEF CanFuse
    <3>2. hdr[nx].next \in Blocks /\ hdr[nx].next # nx
      BY <3>1, <1>4 DEF IInv, HeapInv, Heap, InOrder, Blocks
    <3>3. CanFuse(hdr, nx)
      BY <3>1, <3>2, <1>4 DEF CanFuse
    <3>4. nx = blk
      BY <3>3, <1>4, <1>5, <2>1, <2>4 DEF FreePairsAtFusion
    <3>5. blk \in Nat
      BY <1>2
    <3> QED  BY <3>4, <3>5, <1>4
  <2> QED  BY <2>3, <2>4, <1>2
<1>12. CallInv'
  BY <1>2, <1>10, <1>11 DEF CallInv, Fusing
<1> QED  BY <1>8, <1>9, <1>12 DEF IInv

\* fusion finds nothing to absorb.
LEMMA FuseNothingKeeps ==
  ASSUME IInv, FuseNothing
  PROVE  IInv'
<1> USE HeapFacts
<1>1. /\ pc = "fuse" /\ ~CanFuse(hdr, blk) /\ FusionReturn /\ UNCHANGED <<hdr, clobbered>>
  BY DEF FuseNothing
<1>2. /\ fuses \in {1, 2} /\ blk \in Blocks /\ hdr[blk].free
      /\ UNCHANGED <<head, brk, ret, held, foreign>>
      /\ fuses = 1 => pc' = "idle" /\ old' = NULL
      /\ fuses = 2 => pc' = "fuse" /\ fuses' = 1 /\ blk' = blk
      /\ WellTyped(hdr') /\ clobbered' = {} => TypeOK'
  BY <1>1, AfterFusion
<1>3. HeapInv' /\ Blocks' = Blocks
  BY <1>1, <1>2 DEF IInv, HeapInv, Blocks, Ownership
<1>4. TypeOK'
  BY <1>1, <1>2 DEF IInv, HeapInv, TypeOK
<1>5. FreePairsAtFusion'
  <2> SUFFICES ASSUME NEW a \in Blocks, hdr[a].free, CanFuse(hdr, a)
               PROVE  FALSE
    BY <1>1, <1>3 DEF FreePairsAtFusion
  <2>1. a = hdr[blk].next /\ a # NULL
    BY <1>1 DEF IInv, CallInv, FreePairsAtFusion
  <2> QED  BY <2>1, <1>1 DEF CanFuse
<1>6. CallInv'
  BY <1>1, <1>2, <1>3, <1>5 DEF CallInv, Fusing
<1> QED  BY <1>3, <1>4, <1>6 DEF IInv

\* Every pointer the allocator follows leads to an intact header.
LEMMA NeverBroken ==
  ASSUME IInv
  PROVE  ~Broken
<1> USE HeapFacts
<1>1. pc \in {"scan", "find"} => IntactOrNull(iter)
  BY DEF IInv, CallInv, Scanning, Finding, IntactOrNull, Intact, Blocks
<1>2. pc = "scan" /\ Intact(iter) => IntactOrNull(hdr[iter].next)
  BY DEF IntactOrNull, Intact, Blocks
<1>3. pc = "copy" => Intact(get_block(old))
  BY HeldBlock DEF IInv, CallInv, Copying, OldIsSmall, Intact, Blocks
<1>4. pc = "fuse" => IntactToFuse
  BY DEF IInv, CallInv, Fusing, IntactToFuse, IntactOrNull, Intact, Blocks, CanFuse
<1> QED  BY <1>1, <1>2, <1>3, <1>4 DEF Broken

\* Every step of the specification keeps the invariant.
LEMMA StepInv ==
  ASSUME IInv, SoleUser, [Next]_vars
  PROVE  IInv'
<1>1. CASE Caller
  <2>1. ~(\E n \in ForeignSizes : ForeignSbrk(n))
    BY DEF SoleUser
  <2>2. ~ForeignWrite
    BY DEF IInv, HeapInv, ForeignWrite
  <2> QED  BY <1>1, <2>1, <2>2, CallsKeep DEF Caller
<1>2. CASE Allocator
  <2>1. ~GoWild
    BY NeverBroken DEF GoWild
  <2> QED  BY <1>2, <2>1, SearchesKeep, ScanExactKeeps, ScanSplitKeeps, ScanExtendKeeps,
              CopyKeeps, FindFoundKeeps, FuseKeeps, FuseNothingKeeps DEF Allocator
<1>3. CASE UNCHANGED vars
  <2>1. UNCHANGED <<heapVars, ghostVars, pc, localVars, ret>>
    BY <1>3 DEF vars
  <2>2. HeapInv' /\ Blocks' = Blocks
    BY <2>1, QuietStep
  <2>3. TypeOK'
    BY <2>1 DEF IInv, TypeOK, heapVars, ghostVars, localVars
  <2>4. CallInv'
    BY <2>1, <2>2 DEF IInv, CallInv, Scanning, Copying, OldIsSmall, Finding, Fusing,
                      FreePairsAtFusion, heapVars, ghostVars, localVars
  <2> QED  BY <2>2, <2>3, <2>4 DEF IInv
<1> QED  BY <1>1, <1>2, <1>3 DEF Next, Stopped

(***************************************************************************)
(* The invariant holds throughout every sequence of calls.                 *)
(***************************************************************************)
THEOREM Invariance ==
  ASSUME SoleUser
  PROVE  Spec => []IInv
<1>1. IInv /\ [Next]_vars => IInv'
  BY StepInv
<1> QED  BY InitInv, <1>1, PTL DEF Spec

-----------------------------------------------------------------------------
(***************************************************************************)
(* Every variable of the allocator keeps its type: no size of a split or   *)
(* fused block underflows.                                                 *)
(***************************************************************************)
THEOREM TypeCorrect ==
  ASSUME SoleUser
  PROVE  Spec => []TypeOK
<1>1. IInv => TypeOK
  BY DEF IInv
<1> QED  BY Invariance, <1>1, PTL

(***************************************************************************)
(* The allocator never follows a pointer into memory that is no header.    *)
(***************************************************************************)
THEOREM ListNeverBroken ==
  ASSUME SoleUser
  PROVE  Spec => []NeverWild
<1>1. IInv => NeverWild
  BY DEF IInv, CallInv, NeverWild
<1> QED  BY Invariance, <1>1, PTL

(***************************************************************************)
(* No call of mm_malloc, mm_realloc or mm_free writes to what the caller   *)
(* holds, except to the region it hands out.                               *)
(***************************************************************************)
THEOREM PayloadsIntact ==
  ASSUME SoleUser
  PROVE  Spec => []PayloadIntact
<1>1. IInv => PayloadIntact
  BY DEF IInv, HeapInv, PayloadIntact
<1> QED  BY Invariance, <1>1, PTL

(***************************************************************************)
(* The blocks are disjoint, doubly linked in address order, tile the heap  *)
(* from the first block to the break, and are coalesced between calls; the *)
(* allocated ones are exactly what the caller holds.                       *)
(***************************************************************************)
THEOREM HeapWellFormed ==
  ASSUME SoleUser
  PROVE  Spec => [](Disjoint /\ ListInOrder /\ HeapTight /\ Ownership)
<1>1. IInv => Disjoint /\ ListInOrder /\ HeapTight /\ Ownership
  <2> SUFFICES ASSUME IInv
               PROVE  Disjoint /\ ListInOrder /\ HeapTight /\ Ownership
    OBVIOUS
  <2>1. Heap(hdr, head, brk) /\ Ownership
    BY DEF IInv, HeapInv
  <2>2. Disjoint
    BY <2>1, BlocksSeparate DEF Disjoint, Heap
  <2>3. Coalesced
    BY DEF IInv, CallInv, FreePairsAtFusion, Coalesced
  <2> QED  BY <2>1, <2>2, <2>3 DEF Heap, ListInOrder, NothingLost, HeapTight
<1> QED  BY Invariance, <1>1, PTL

(***************************************************************************)
(* In particular a walk along next or prev meets every block, in address   *)
(* order: the searches of mm_malloc and mm_free miss none.                 *)
(***************************************************************************)
THEOREM ListStaysInOrder ==
  ASSUME SoleUser
  PROVE  Spec => []ListInOrder
BY HeapWellFormed, PTL

(***************************************************************************)
(* mm_free goes through with exactly the pointers the caller holds.        *)
(***************************************************************************)
THEOREM FreeGoesByOwnership ==
  ASSUME SoleUser
  PROVE  Spec => FreeIsExact
<1>1. IInv /\ [Next]_vars => [FreeByOwnership]_vars
  <2> SUFFICES ASSUME IInv, Next, pc = "find"
               PROVE  /\ pc' = "fuse"   => Data(blk) \in DOMAIN held
                      /\ pc' = "exited" => Data(blk) \notin DOMAIN held
    BY DEF vars, FreeByOwnership
  <2>1. FindNext \/ FindFound \/ FreeRefused
    <3>1. ~GoWild
      BY NeverBroken DEF GoWild
    <3> QED  BY <3>1 DEF Next, Caller, Allocator, Stopped, Over, MallocCall, ReallocCall,
               FreeCall, ForeignSbrk, ForeignWrite, ScanNext, ScanExact, ScanSplit, ScanExtend,
               ScanExtendFails, CopyOld, CopyCrashes, Fuse, FuseNothing
  <2>2. CASE FindNext
    BY <2>2 DEF FindNext
  <2>3. CASE FindFound
    <3>1. blk \in Blocks /\ ~hdr[blk].free /\ pc' = "fuse"
      BY <2>3 DEF FindFound, Intact, Allocated, Blocks
    <3> QED  BY <3>1 DEF IInv, HeapInv, Ownership
  <2>4. CASE FreeRefused
    <3> SUFFICES ASSUME Data(blk) \in DOMAIN held PROVE FALSE
      BY <2>4 DEF FreeRefused
    <3>1. blk \in Int /\ BLOCK_SIZE \in Nat
      BY HeapFacts DEF IInv, TypeOK
    <3>2. get_block(Data(blk)) = blk
      BY <3>1 DEF get_block, Data
    <3>3. blk \in Blocks /\ ~hdr[blk].free
      BY <3>2, HeldBlock
    <3> QED  BY <3>3, <2>4 DEF FreeRefused, Allocated, IInv, CallInv, Finding
  <2> QED  BY <2>1, <2>2, <2>3, <2>4
<1> QED  BY Invariance, <1>1, PTL DEF Spec, FreeIsExact

-----------------------------------------------------------------------------
(***************************************************************************)
(* The allocator implements the interface of malloc.                       *)
(***************************************************************************)

\* The regions the caller holds are apart and within the address space.
HeldApart ==
  \A p \in DOMAIN held :
    /\ p \in 1 .. HeapEnd /\ p + held[p] <= HeapEnd
    /\ \A q \in DOMAIN held \ {p} : Interface!Apart(p, held[p], q, held[q])

LEMMA RegionsApart == IInv => HeldApart
<1> SUFFICES ASSUME IInv, NEW p \in DOMAIN held
             PROVE  /\ p \in 1 .. HeapEnd /\ p + held[p] <= HeapEnd
                    /\ \A q \in DOMAIN held \ {p} : Interface!Apart(p, held[p], q, held[q])
  BY DEF HeldApart
<1> USE HeapFacts
<1>1. ASSUME NEW r \in DOMAIN held
      PROVE  /\ get_block(r) \in Blocks /\ get_block(r) \in Nat /\ r \in Nat /\ held[r] \in Nat
             /\ r = get_block(r) + BLOCK_SIZE /\ EndOf(hdr, get_block(r)) \in Nat
             /\ r + held[r] <= EndOf(hdr, get_block(r)) /\ get_block(r) < r
  <2> DEFINE a == get_block(r)
  <2>1. a \in Blocks /\ held[r] <= hdr[a].size /\ r = a + BLOCK_SIZE
    BY HeldBlock DEF Data
  <2>2. a \in Nat /\ hdr[a].size \in Nat /\ r \in Nat /\ held[r] \in Nat /\ BLOCK_SIZE \in Nat \ {0}
    BY <2>1
  <2> HIDE DEF a
  <2>3. EndOf(hdr, a) \in Nat /\ r + held[r] <= EndOf(hdr, a) /\ a < r
    BY <2>1, <2>2 DEF EndOf
  <2> QED  BY <2>1, <2>2, <2>3 DEF a
<1>2. brk <= HeapEnd /\ EndOf(hdr, get_block(p)) <= brk /\ HeapEnd \in Nat
  BY <1>1, HeapAssumption DEF IInv, HeapInv
<1>3. p \in 1 .. HeapEnd /\ p + held[p] <= HeapEnd
  <2>1. /\ get_block(p) \in Nat /\ p \in Nat /\ held[p] \in Nat /\ get_block(p) < p
        /\ p + held[p] <= EndOf(hdr, get_block(p)) /\ EndOf(hdr, get_block(p)) \in Nat
    BY <1>1
  <2> QED  BY <2>1, <1>2
<1>4. ASSUME NEW q \in DOMAIN held \ {p}
      PROVE  Interface!Apart(p, held[p], q, held[q])
  <2> DEFINE a == get_block(p)
             b == get_block(q)
  <2>1. /\ a \in Blocks /\ a \in Nat /\ p = a + BLOCK_SIZE /\ a < p /\ p \in Nat
        /\ held[p] \in Nat /\ EndOf(hdr, a) \in Nat /\ p + held[p] <= EndOf(hdr, a)
    BY <1>1
  <2>2. /\ b \in Blocks /\ b \in Nat /\ q = b + BLOCK_SIZE /\ b < q /\ q \in Nat
        /\ held[q] \in Nat /\ EndOf(hdr, b) \in Nat /\ q + held[q] <= EndOf(hdr, b)
    BY <1>1
  <2>3. Separate(hdr)
    BY BlocksSeparate DEF IInv, HeapInv
  <2>4. a < b => EndOf(hdr, a) <= b
    BY <2>1, <2>2, <2>3 DEF Separate, Blocks
  <2>5. b < a => EndOf(hdr, b) <= a
    BY <2>1, <2>2, <2>3 DEF Separate, Blocks
  <2> HIDE DEF a, b
  <2>6. a # b /\ p # q
    BY <2>1, <2>2
  <2>7. CASE a < b
    BY <2>1, <2>2, <2>4, <2>6, <2>7 DEF Interface!Apart
  <2>8. CASE b < a
    BY <2>1, <2>2, <2>5, <2>6, <2>8 DEF Interface!Apart
  <2> QED  BY <2>1, <2>2, <2>6, <2>7, <2>8
<1> QED  BY <1>3, <1>4

\* Handing out block b, free or new before, is an Alloc of the interface.
LEMMA HandOutIsAlloc ==
  ASSUME IInv, IInv', HeldApart', pc = "scan", NEW b \in Nat, MallocReturn(Data(b)),
         b \in Blocks => hdr[b].free
  PROVE  Interface!Next
<1> DEFINE p == Data(b)
<1>1. /\ DOMAIN held' = DOMAIN held \cup {p} /\ held' = Put(held, p, size)
      /\ held'[p] = size /\ \A q \in DOMAIN held \ {p} : held'[q] = held[q]
      /\ pc' \in {"idle", "copy"}
  BY DEF MallocReturn, ReturnTo, Put
<1>2. p \notin DOMAIN held
  <2> SUFFICES ASSUME p \in DOMAIN held PROVE FALSE
    OBVIOUS
  <2>1. get_block(p) \in Blocks /\ ~hdr[get_block(p)].free
    BY HeldBlock
  <2>2. get_block(p) = b
    BY HeapFacts DEF get_block, Data
  <2> QED  BY <2>1, <2>2
<1>3. size \in Sizes
  BY DEF IInv, CallInv, Scanning
<1>4. p \in 1 .. HeapEnd /\ p + size <= HeapEnd
  BY <1>1 DEF HeldApart
<1>5. \A q \in DOMAIN held : Interface!Apart(p, size, q, held[q])
  BY <1>1, <1>2 DEF HeldApart
<1>6. ~Over /\ UNCHANGED (~Over)
  BY <1>1 DEF Over
<1> HIDE DEF p
<1>7. Interface!Alloc(p, size)
  BY <1>1, <1>3, <1>4, <1>5, <1>6 DEF Interface!Alloc, Put
<1> QED  BY <1>3, <1>4, <1>7 DEF Interface!Next

\* Every step is one of the interface, or changes nothing the interface shows.
LEMMA StepImplements ==
  ASSUME IInv, IInv', HeldApart', SoleUser, [Next]_vars
  PROVE  [Interface!Next]_<<held, ~Over>>
<1>a. SUFFICES ASSUME Next PROVE [Interface!Next]_<<held, ~Over>>
  BY DEF vars, ghostVars, Over
<1>1. CASE Caller
  <2>1. UNCHANGED held /\ pc = "idle" /\ pc' \in {"scan", "find", "idle"}
    BY <1>1 DEF Caller, MallocCall, ReallocCall, FreeCall, ForeignSbrk, ForeignWrite, ghostVars
  <2> QED  BY <2>1 DEF Over
<1>2. CASE ScanNext \/ FindNext \/ CopyOld \/ Fuse \/ FuseNothing \/ ScanExtendFails
  <2>1. UNCHANGED held
    BY <1>2 DEF ScanNext, FindNext, CopyOld, Fuse, FuseNothing, ScanExtendFails,
                FusionReturn, ghostVars
  <2>2. pc \in {"scan", "find", "copy", "fuse"} /\ pc' \in {"scan", "find", "copy", "fuse", "idle"}
    BY <1>2 DEF ScanNext, FindNext, CopyOld, Fuse, FuseNothing, ScanExtendFails,
                FusionReturn, ReturnTo
  <2> QED  BY <2>1, <2>2 DEF Over
<1>3. CASE ScanExact
  <2>1. pc = "scan" /\ iter \in Nat /\ MallocReturn(Data(iter)) /\ hdr[iter].free
    BY <1>3 DEF ScanExact, Fits, IInv, TypeOK
  <2> QED  BY <2>1, HandOutIsAlloc
<1>4. CASE ScanSplit
  <2>1. pc = "scan" /\ iter \in Nat /\ MallocReturn(Data(iter)) /\ hdr[iter].free
    BY <1>4 DEF ScanSplit, Fits, IInv, TypeOK
  <2> QED  BY <2>1, HandOutIsAlloc
<1>5. CASE ScanExtend
  <2>1. pc = "scan" /\ brk \in Nat /\ MallocReturn(Data(brk))
    BY <1>5 DEF ScanExtend, IInv, TypeOK
  <2>2. brk \notin Blocks
    <3> SUFFICES ASSUME brk \in Blocks PROVE FALSE
      OBVIOUS
    <3>1. EndOf(hdr, brk) <= brk /\ hdr[brk].size \in Nat /\ BLOCK_SIZE \in Nat \ {0}
      BY HeapFacts
    <3> QED  BY <3>1, <2>1 DEF EndOf
  <2> QED  BY <2>1, <2>2, HandOutIsAlloc
<1>6. CASE FindFound
  <2>1. /\ pc = "find" /\ pc' = "fuse" /\ held' = Remove(held, Data(blk))
        /\ blk \in Blocks /\ ~hdr[blk].free
    BY <1>6 DEF FindFound, Allocated, Intact, Blocks
  <2>2. Data(blk) \in DOMAIN held
    BY <2>1 DEF IInv, HeapInv, Ownership
  <2>3. Interface!Release(Data(blk))
    BY <2>1, <2>2 DEF Interface!Release, Remove, Restrict, Interface!Restrict, Over
  <2> QED  BY <2>2, <2>3 DEF Interface!Next
<1>7. CASE FreeRefused \/ CopyCrashes
  <2>1. UNCHANGED held /\ pc \in {"find", "copy"} /\ pc' \in {"exited", "crashed"}
    BY <1>7 DEF FreeRefused, CopyCrashes, ghostVars
  <2> QED  BY <2>1 DEF Interface!Next, Interface!End, Over
<1>8. CASE Stopped
  BY <1>8 DEF Stopped, vars, ghostVars, Over
<1>9. ~GoWild
  BY NeverBroken DEF GoWild
<1> QED  BY <1>a, <1>1, <1>2, <1>3, <1>4, <1>5, <1>6, <1>7, <1>8, <1>9 DEF Next, Allocator

(***************************************************************************)
(* mm_malloc, mm_realloc and mm_free implement the interface their callers *)
(* rely on: regions never overlap and only a free takes one away.          *)
(***************************************************************************)
THEOREM Implementation ==
  ASSUME SoleUser
  PROVE  Spec => ImplementsInterface
<1>1. Init => Interface!Init
  BY DEF Init, Interface!Init, Over
<1>2. IInv /\ IInv' /\ HeldApart' /\ [Next]_vars => [Interface!Next]_<<held, ~Over>>
  BY StepImplements
<1> QED  BY <1>1, <1>2, Invariance, RegionsApart, PTL
         DEF Spec, ImplementsInterface, Interface!Spec

=============================================================================
