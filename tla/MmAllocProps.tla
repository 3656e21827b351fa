---------------------------- MODULE MmAllocProps ----------------------------
(***************************************************************************)
(* The properties of MmAlloc, and the inductive invariant behind them.     *)
(***************************************************************************)
EXTENDS MmAlloc

Blocks == DOMAIN hdr
EndOf(h, a) == a + BLOCK_SIZE + h[a].size

(***************************************************************************)
(* Type invariant of the allocator's variables (hw3/mm_alloc.c).           *)
(***************************************************************************)
HeaderType == [size : Nat, next : Nat, prev : Nat, free : BOOLEAN, ptr : Nat]
WellTyped(h) == DOMAIN h \subseteq Nat /\ h \in [DOMAIN h -> HeaderType]
PC == {"idle", "scan", "copy", "find", "fuse", "exited", "crashed", "wild"}
TypeOK ==
  /\ head \in Nat /\ brk \in Nat /\ pc \in PC
  /\ WellTyped(hdr)
  /\ size \in Nat /\ iter \in Nat /\ last \in Nat
  /\ blk \in Int /\ fuses \in 0 .. 2 /\ old \in Nat /\ ret \in Nat
  /\ DOMAIN held \subseteq Nat /\ held \in [DOMAIN held -> Sizes]
  /\ foreign \subseteq Nat /\ clobbered \subseteq Nat

-----------------------------------------------------------------------------
(***************************************************************************)
(* No call writes to a byte the caller holds, except to the region it is   *)
(* handing out: the memsets and header copies of extend_heap, split_block  *)
(* and fusion and the memcpy of mm_realloc stay in the allocator's memory. *)
(***************************************************************************)
PayloadIntact == clobbered \subseteq foreign

(***************************************************************************)
(* The blocks do not overlap and lie below the break.                      *)
(***************************************************************************)
Below(h, top) == \A a \in DOMAIN h : HeapBase <= a /\ EndOf(h, a) <= top
Separate(h) == \A a, b \in DOMAIN h : a < b => EndOf(h, a) <= b
Disjoint == Below(hdr, brk) /\ Separate(hdr)

(***************************************************************************)
(* The list is doubly linked in address order, from head, through every    *)
(* block: next is the first block above, prev the first one below.         *)
(***************************************************************************)
Linked(h, a, b) == h[a].next = b /\ h[b].prev = a
InOrder(h, hd) ==
  /\ IF hd = NULL THEN DOMAIN h = {}
     ELSE hd \in DOMAIN h /\ \A b \in DOMAIN h : hd <= b
  /\ \A a \in DOMAIN h :
       /\ h[a].ptr = a
       /\ IF h[a].next = NULL THEN \A b \in DOMAIN h : b <= a
          ELSE /\ h[a].next \in DOMAIN h /\ a < h[a].next
               /\ Linked(h, a, h[a].next)
               /\ \A b \in DOMAIN h : b <= a \/ h[a].next <= b
       /\ IF h[a].prev = NULL THEN a = hd
          ELSE h[a].prev \in DOMAIN h /\ Linked(h, h[a].prev, a)
ListInOrder == InOrder(hdr, head)

(***************************************************************************)
(* The allocated blocks are exactly the regions the caller holds, and each *)
(* is at least as large as what was asked for.                             *)
(***************************************************************************)
Ownership ==
  /\ \A p \in DOMAIN held :
       /\ get_block(p) \in Blocks /\ ~hdr[get_block(p)].free
       /\ held[p] <= hdr[get_block(p)].size
  /\ \A a \in Blocks : ~hdr[a].free => Data(a) \in DOMAIN held

(***************************************************************************)
(* Between calls no free block is followed by a free block: mm_free leaves *)
(* nothing to fuse, and a split never puts its rest beside a free block.   *)
(***************************************************************************)
Coalesced ==
  pc = "idle" => \A a \in Blocks : hdr[a].free => ~CanFuse(hdr, a)

(***************************************************************************)
(* With no other user of sbrk, every byte from the first block to the      *)
(* break is in exactly one block: no step loses track of memory.           *)
(***************************************************************************)
Tiled(h, top) ==
  \A a \in DOMAIN h : EndOf(h, a) = IF h[a].next = NULL THEN top ELSE h[a].next
NothingLost == ForeignSizes = {} => Tiled(hdr, brk)

(***************************************************************************)
(* Together: after any history of splits, fusions and extensions, the free *)
(* memory is one block wherever it is one piece, and none of it is lost.   *)
(***************************************************************************)
HeapTight == Coalesced /\ NothingLost

(***************************************************************************)
(* mm_free goes through with a pointer exactly when the caller holds it:   *)
(* no stale, interior or wild pointer is taken for a block, and no held    *)
(* pointer is refused ("Tried to free a pointer you don't own!").          *)
(***************************************************************************)
FreeByOwnership ==
  /\ (pc = "find" /\ pc' = "fuse")   => Data(blk) \in DOMAIN held
  /\ (pc = "find" /\ pc' = "exited") => Data(blk) \notin DOMAIN held
FreeIsExact == [][FreeByOwnership]_vars

(***************************************************************************)
(* The allocator never follows a pointer to memory that holds no header of *)
(* its list: no call damages the list for the calls after it.              *)
(***************************************************************************)
NeverWild == pc # "wild"

(***************************************************************************)
(* The allocator implements the interface its callers rely on.             *)
(***************************************************************************)
Interface == INSTANCE MallocInterface WITH Limit <- HeapEnd, up <- ~Over
ImplementsInterface == Interface!Spec

-----------------------------------------------------------------------------
(***************************************************************************)
(* The inductive invariant: where each call is in the list, and what it    *)
(* knows there. It holds when the allocator is the only user of sbrk and   *)
(* no mm_realloc copies more than the new size (ReallocUse = "enough").    *)
(***************************************************************************)
Heap(h, hd, top) ==
  WellTyped(h) /\ Below(h, top) /\ InOrder(h, hd) /\ Tiled(h, top)

\* mm_realloc's old block is the caller's and not larger than the new size.
OldIsSmall ==
  /\ old \in DOMAIN held
  /\ hdr[get_block(old)].size <= size

\* mm_malloc's search: last is just behind iter, or both are at the head.
Scanning ==
  /\ size \in Sizes
  /\ old # NULL => OldIsSmall
  /\ iter # NULL => iter \in Blocks
  /\ \/ last = head /\ iter = head
     \/ last \in Blocks /\ hdr[last].next = iter

\* mm_realloc's copy: the new region is the caller's too, or there is none.
Copying ==
  /\ OldIsSmall
  /\ ret # Data(NULL) => ret \in DOMAIN held /\ ret # old /\ held[ret] = size

\* mm_free's search has not passed the block it looks for.
Finding ==
  /\ iter # NULL => iter \in Blocks
  /\ blk \in Blocks => iter # NULL /\ iter <= blk

\* Two free neighbours exist only where mm_free is about to fuse them.
Fusing == blk \in Blocks /\ hdr[blk].free /\ fuses \in {1, 2}
FreePairsAtFusion ==
  \A a \in Blocks :
    hdr[a].free /\ CanFuse(hdr, a) =>
      pc = "fuse" /\ (a = blk \/ (fuses = 2 /\ a = hdr[blk].next))

\* What holds of the heap and its owners at every step of every call.
HeapInv ==
  /\ Heap(hdr, head, brk) /\ Ownership
  /\ foreign = {} /\ clobbered = {}
  /\ HeapBase <= brk /\ (Blocks # {} => brk <= HeapEnd)

\* What holds of the running call.
CallInv ==
  /\ pc # "wild"
  /\ pc = "idle" => old = NULL
  /\ pc = "scan" => Scanning
  /\ pc = "copy" => Copying
  /\ pc = "find" => Finding
  /\ pc = "fuse" => Fusing
  /\ pc \notin {"exited", "crashed"} => FreePairsAtFusion

(***************************************************************************)
(* The strengthening of the safety properties above that every step of     *)
(* mm_malloc, mm_realloc and mm_free preserves.                            *)
(***************************************************************************)
IInv == TypeOK /\ HeapInv /\ CallInv
=============================================================================
