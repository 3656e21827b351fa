------------------------------- MODULE MmAlloc -------------------------------
(***************************************************************************)
(* The memory allocator of hw3/mm_alloc.c.                                 *)
(*                                                                         *)
(* The heap is a doubly linked list of blocks in memory obtained from      *)
(* sbrk. A block is a header of BLOCK_SIZE bytes followed by its data.     *)
(* Memory is modelled by what the allocator reads back from it: hdr maps   *)
(* the address of every header that belongs to the list and is still       *)
(* intact to its fields. A write that covers part of a header removes it   *)
(* from hdr, and following a pointer to an address that holds no intact    *)
(* header leads to pc = "wild", after which nothing is promised.           *)
(*                                                                         *)
(* Each definition whose comment starts with "Fault" is a faulty variant of *)
(* the definition after it, with which a property must fail to hold.       *)
(*                                                                         *)
(* The allocator is sequential. Its loops are modelled one iteration at a  *)
(* time, so that their termination is a property and not an assumption.    *)
(***************************************************************************)
EXTENDS Integers, Functions

CONSTANTS
  BLOCK_SIZE,     (* Bytes of a header (40 in the code).                    *)
  HeapBase,       (* The program break before the first call.               *)
  HeapEnd,        (* sbrk fails when the break would pass this address.     *)
  Sizes,          (* The sizes the caller asks for.                         *)
  ForeignSizes,   (* What other users of sbrk (libc's malloc, from printf)  *)
                  (* take in one step; {} when there are none.              *)
  ReallocUse      (* Which mm_realloc calls the caller makes, see below.    *)

(***************************************************************************)
(* The address of the object at NULL->data is BLOCK_SIZE: it must not be   *)
(* an address of the heap. Sizes are those for which size + BLOCK_SIZE     *)
(* does not wrap around a size_t.                                          *)
(***************************************************************************)
ASSUME BlockSizeAssumption == BLOCK_SIZE \in Nat \ {0}
ASSUME HeapAssumption == /\ HeapBase \in Nat /\ HeapBase > BLOCK_SIZE
                         /\ HeapEnd \in Nat
ASSUME SizesAssumption == Sizes \subseteq Nat /\ ForeignSizes \subseteq Nat
ASSUME ReallocUseAssumption == ReallocUse \in {"enough", "grow", "any"}

VARIABLES
  head,       (* block_list_head                                            *)
  hdr,        (* the intact headers of the list, by address                 *)
  brk,        (* the program break                                          *)
  pc,         (* where the running call is; "idle" between calls            *)
  size,       (* the size argument of the running call                      *)
  iter,       (* the loop variable of mm_malloc and mm_free                 *)
  last,       (* mm_malloc's last_block                                     *)
  blk,        (* mm_free's sbp, then the argument of fusion                 *)
  fuses,      (* calls of fusion that mm_free still makes                   *)
  old,        (* mm_realloc's ptr; NULL in a call of mm_malloc              *)
  ret,        (* the pointer the last call returned                         *)
  held,       (* what the caller holds: pointer -> the size it asked for    *)
  foreign,    (* addresses that other users of sbrk own                     *)
  clobbered   (* owned addresses that the allocator has overwritten         *)

heapVars  == <<head, hdr, brk>>
localVars == <<size, iter, last, blk, fuses, old>>
ghostVars == <<held, foreign, clobbered>>
vars == <<heapVars, pc, localVars, ret, ghostVars>>

NULL == 0
Address == 0 .. HeapEnd

-----------------------------------------------------------------------------
(***************************************************************************)
(* Memory.                                                                 *)
(***************************************************************************)
Bytes(lo, n) == lo .. (lo + n - 1)

\* get_block: from the pointer the caller has to the header before it.
get_block(p) == p - BLOCK_SIZE

\* sp->data, computed without reading memory: for sp = NULL it is not NULL.
Data(b) == b + BLOCK_SIZE

\* The bytes that belong to somebody else than the allocator.
Owned == foreign \cup UNION {Bytes(p, held[p]) : p \in DOMAIN held}

Put(f, x, v) == [y \in DOMAIN f \cup {x} |-> IF y = x THEN v ELSE f[y]]
Remove(f, x) == Restrict(f, DOMAIN f \ {x})

\* The headers of h that a write to the n bytes at lo leaves intact.
Wipe(h, lo, n) ==
  Restrict(h, {a \in DOMAIN h :
                 n = 0 \/ a + BLOCK_SIZE <= lo \/ lo + n <= a})

-----------------------------------------------------------------------------
(***************************************************************************)
(* extend_heap, split_block and fusion: what each leaves in the headers.   *)
(***************************************************************************)
Header(sz, nx, pv, fr, ad) ==
  [size |-> sz, next |-> nx, prev |-> pv, free |-> fr, ptr |-> ad]

\* A new block at the break, appended after block l (or the first block).
ExtendHdr(h, l, n) ==
  LET new == Header(n, NULL, IF l = NULL THEN NULL ELSE h[l].ptr, FALSE, brk)
      linked == IF l = NULL THEN h ELSE [h EXCEPT ![l].next = brk]
  IN  Wipe(Put(linked, brk, new), Data(brk), n)

\* Fault: the rest of the block is put where the data ends less a header.
RestOfNoHeader(h, b, s) == h[b].ptr + s

\* Where the header of what is left of block b goes, and every byte written.
RestOf(h, b, s) == h[b].ptr + s + BLOCK_SIZE
SplitWrites(h, b, s) ==
  LET rest == RestOf(h, b, s)
  IN  Bytes(Data(b), s) \cup Bytes(rest, BLOCK_SIZE)
        \cup Bytes(Data(rest), h[b].size - s - BLOCK_SIZE)

\* Block b keeps s bytes, the rest becomes a free block after it; mm_malloc
\* marks b allocated.
SplitHdr(h, b, s) ==
  LET rest  == RestOf(h, b, s)
      third == h[b].next
      new   == Header(h[b].size - s - BLOCK_SIZE, third, h[b].ptr, TRUE, rest)
      first == [h EXCEPT ![b] = [@ EXCEPT !.size = s, !.next = rest, !.free = FALSE]]
      back  == IF third = NULL THEN first ELSE [first EXCEPT ![third].prev = rest]
  IN  Wipe(Wipe(Put(back, rest, new), Data(rest), new.size), Data(b), s)

\* Fault: fusion does not ask whether the next block is free.
CanFuseAny(h, b) == h[b].next # NULL

\* Does fusion(b) find a free block after b to absorb?
CanFuse(h, b) == h[b].next # NULL /\ h[h[b].next].free

\* Fault: the block two further on keeps its prev.
FusionHdrForward(h, b) ==
  LET next == h[b].next
      sum  == h[b].size + h[next].size + BLOCK_SIZE
      more == [h EXCEPT ![b] = [@ EXCEPT !.size = sum, !.next = h[next].next]]
  IN  Wipe(Remove(more, next), Data(b), sum)

\* Block b absorbs the free block after it, whose header is no longer one.
FusionHdr(h, b) ==
  LET next == h[b].next
      sum  == h[b].size + h[next].size + BLOCK_SIZE
      more == [h EXCEPT ![b] = [@ EXCEPT !.size = sum, !.next = h[next].next]]
      back == IF h[next].next = NULL THEN more
              ELSE [more EXCEPT ![h[next].next].prev = h[b].ptr]
  IN  Wipe(Remove(back, next), Data(b), sum)

-----------------------------------------------------------------------------
(***************************************************************************)
(* mm_malloc                                                               *)
(***************************************************************************)

\* The caller may realloc p to n bytes when:
\*   "any"     - always;
\*   "grow"    - n is at least what it asked for when it got p;
\*   "enough"  - n is at least the size of p's block, which may be larger
\*               than what it asked for and which it has no way to know.
ReallocAllowed(p, n) ==
  \/ ReallocUse = "any"
  \/ ReallocUse = "grow" /\ n >= held[p]
  \/ /\ ReallocUse = "enough"
     /\ get_block(p) \in DOMAIN hdr /\ n >= hdr[get_block(p)].size

\* The locals of a call are gone when it returns.
ForgetLocals ==
  /\ size' = 0 /\ iter' = NULL /\ last' = NULL
  /\ blk' = NULL /\ fuses' = 0 /\ old' = NULL

MallocCall(n) ==
  /\ pc = "idle"
  /\ pc' = "scan" /\ size' = n /\ iter' = head /\ last' = head
  /\ old' = NULL /\ ret' = NULL
  /\ UNCHANGED <<heapVars, blk, fuses, ghostVars>>

ReallocCall(p, n) ==
  /\ pc = "idle" /\ p \in DOMAIN held /\ ReallocAllowed(p, n)
  /\ pc' = "scan" /\ size' = n /\ iter' = head /\ last' = head
  /\ old' = p /\ ret' = NULL
  /\ UNCHANGED <<heapVars, blk, fuses, ghostVars>>

\* Fault: allocated blocks fit.
FitsAllocated(b) == hdr[b].size >= size + BLOCK_SIZE

Fits(b)  == hdr[b].free /\ hdr[b].size >= size + BLOCK_SIZE
Exact(b) == hdr[b].size = size + BLOCK_SIZE

\* Is the header a step is about to follow a pointer to intact?
Intact(b) == b \in DOMAIN hdr
IntactOrNull(b) == b = NULL \/ Intact(b)

ScanNext ==
  /\ pc = "scan" /\ Intact(iter) /\ ~Fits(iter)
  /\ last' = iter /\ iter' = hdr[iter].next
  /\ UNCHANGED <<heapVars, pc, size, blk, fuses, old, ret, ghostVars>>

\* mm_malloc returns p, to the caller or to mm_realloc.
ReturnTo(p) ==
  /\ ret' = p
  /\ \/ old = NULL /\ pc' = "idle" /\ ForgetLocals
     \/ old # NULL /\ pc' = "copy" /\ UNCHANGED localVars

MallocReturn(p) ==
  /\ ReturnTo(p)
  /\ held' = Put(held, p, size)
  /\ UNCHANGED foreign

ScanExact ==
  /\ pc = "scan" /\ Intact(iter) /\ Fits(iter) /\ Exact(iter)
  /\ hdr' = [hdr EXCEPT ![iter].free = FALSE]
  /\ MallocReturn(Data(iter))
  /\ UNCHANGED <<head, brk, clobbered>>

ScanSplit ==
  /\ pc = "scan" /\ Intact(iter) /\ Fits(iter) /\ ~Exact(iter)
  /\ IntactOrNull(hdr[iter].next)
  /\ hdr' = SplitHdr(hdr, iter, size)
  /\ clobbered' = clobbered \cup (Owned \cap SplitWrites(hdr, iter, size))
  /\ MallocReturn(Data(iter))
  /\ UNCHANGED <<head, brk>>

SbrkFails == brk + size + BLOCK_SIZE > HeapEnd

ScanExtend ==
  /\ pc = "scan" /\ iter = NULL /\ ~SbrkFails
  /\ hdr' = ExtendHdr(hdr, last, size)
  /\ head' = IF last = NULL THEN brk ELSE head
  /\ brk' = brk + size + BLOCK_SIZE
  /\ clobbered' = clobbered \cup (Owned \cap Bytes(brk, size + BLOCK_SIZE))
  /\ MallocReturn(Data(brk))

\* extend_heap returns NULL and mm_malloc returns NULL->data.
ScanExtendFails ==
  /\ pc = "scan" /\ iter = NULL /\ SbrkFails
  /\ ReturnTo(Data(NULL))
  /\ UNCHANGED <<heapVars, ghostVars>>

-----------------------------------------------------------------------------
(***************************************************************************)
(* mm_realloc, once mm_malloc has returned                                 *)
(***************************************************************************)

\* memcpy(ptr1, sb_old->data, sb_old->size), then mm_free(ptr).
CopyOld ==
  /\ pc = "copy" /\ Intact(get_block(old))
  /\ LET n == hdr[get_block(old)].size IN
     /\ ret = Data(NULL) => n = 0
     /\ hdr' = Wipe(hdr, ret, n)
     /\ clobbered' = clobbered \cup
          (Bytes(ret, n) \cap (Owned \ Bytes(ret, size)))
  /\ pc' = "find" /\ blk' = get_block(old) /\ iter' = head
  /\ UNCHANGED <<head, brk, size, last, fuses, old, ret, held, foreign>>

\* The copy writes to memory the process does not have: to NULL->data, or
\* beyond the break (where it may also find the rest of a page).
CopyCrashes ==
  /\ pc = "copy" /\ Intact(get_block(old))
  /\ LET n == hdr[get_block(old)].size IN
     n > 0 /\ (ret = Data(NULL) \/ ret + n > brk)
  /\ pc' = "crashed"
  /\ UNCHANGED <<heapVars, localVars, ret, ghostVars>>

-----------------------------------------------------------------------------
(***************************************************************************)
(* mm_free. The caller may pass any address: the code searches the list.   *)
(***************************************************************************)
FreeCall(p) ==
  /\ pc = "idle"
  /\ pc' = "find" /\ blk' = get_block(p) /\ iter' = head
  /\ old' = NULL /\ ret' = NULL
  /\ UNCHANGED <<heapVars, size, last, fuses, ghostVars>>

FindNext ==
  /\ pc = "find" /\ Intact(iter) /\ iter # blk
  /\ iter' = hdr[iter].next
  /\ UNCHANGED <<heapVars, pc, size, last, blk, fuses, old, ret, ghostVars>>

\* Fault: a block that is free already is freed again.
AllocatedAny(b) == TRUE
Allocated(b) == ~hdr[b].free

\* Fault: fusion is never attempted a second time.
FusionsOnce(behind) == 1
Fusions(behind) == IF behind THEN 2 ELSE 1

\* Not in the list, or in the list and free: a message, then exit(1).
FreeRefused ==
  /\ pc = "find"
  /\ \/ iter = NULL
     \/ Intact(iter) /\ iter = blk /\ ~Allocated(blk)
  /\ pc' = "exited"
  /\ UNCHANGED <<heapVars, localVars, ret, ghostVars>>

\* The block is marked free; if the one behind it is free as well, fusion
\* starts there and runs twice.
FindFound ==
  /\ pc = "find" /\ Intact(iter) /\ iter = blk /\ Allocated(blk)
  /\ LET prev == hdr[blk].prev
         behind == prev # NULL /\ hdr[prev].free
     IN  /\ blk' = IF behind THEN prev ELSE blk
         /\ fuses' = Fusions(behind)
  /\ hdr' = [hdr EXCEPT ![blk].free = TRUE]
  /\ held' = Remove(held, Data(blk))
  /\ pc' = "fuse"
  /\ UNCHANGED <<head, brk, size, iter, last, old, ret, foreign, clobbered>>

FusionReturn ==
  /\ \/ fuses = 1 /\ pc' = "idle" /\ ForgetLocals
     \/ /\ fuses = 2 /\ fuses' = 1
        /\ UNCHANGED <<pc, size, iter, last, blk, old>>
  /\ UNCHANGED <<head, brk, ret, held, foreign>>

IntactToFuse ==
  /\ Intact(blk) /\ IntactOrNull(hdr[blk].next)
  /\ CanFuse(hdr, blk) => IntactOrNull(hdr[hdr[blk].next].next)

Fuse ==
  /\ pc = "fuse" /\ IntactToFuse /\ CanFuse(hdr, blk)
  /\ hdr' = FusionHdr(hdr, blk)
  /\ clobbered' = clobbered \cup (Owned \cap
       Bytes(Data(blk), hdr[blk].size + hdr[hdr[blk].next].size + BLOCK_SIZE))
  /\ FusionReturn

FuseNothing ==
  /\ pc = "fuse" /\ IntactToFuse /\ ~CanFuse(hdr, blk)
  /\ FusionReturn
  /\ UNCHANGED <<hdr, clobbered>>

-----------------------------------------------------------------------------
(***************************************************************************)
(* The environment, and the specification.                                 *)
(***************************************************************************)

\* Between two calls another user of sbrk moves the break.
ForeignSbrk(n) ==
  /\ pc = "idle" /\ brk + n <= HeapEnd
  /\ foreign' = foreign \cup Bytes(brk, n)
  /\ brk' = brk + n
  /\ UNCHANGED <<head, hdr, pc, localVars, ret, held, clobbered>>

\* It writes to its memory, over the headers that a split put there.
ForeignWrite ==
  /\ pc = "idle"
  /\ \E a \in foreign : hdr' = Wipe(hdr, a, 1)
  /\ UNCHANGED <<head, brk, pc, localVars, ret, ghostVars>>

\* The running call follows a pointer to a header that was overwritten.
Broken ==
  \/ pc \in {"scan", "find"} /\ ~IntactOrNull(iter)
  \/ /\ pc = "scan" /\ Intact(iter) /\ Fits(iter) /\ ~Exact(iter)
     /\ ~IntactOrNull(hdr[iter].next)
  \/ pc = "copy" /\ ~Intact(get_block(old))
  \/ pc = "fuse" /\ ~IntactToFuse

GoWild ==
  /\ Broken
  /\ pc' = "wild"
  /\ UNCHANGED <<heapVars, localVars, ret, ghostVars>>

Init ==
  /\ head = NULL /\ hdr = [a \in {} |-> Header(0, NULL, NULL, FALSE, NULL)]
  /\ brk = HeapBase /\ pc = "idle"
  /\ size = 0 /\ iter = NULL /\ last = NULL /\ blk = NULL /\ fuses = 0
  /\ old = NULL /\ ret = NULL
  /\ held = [p \in {} |-> 0] /\ foreign = {} /\ clobbered = {}

Caller ==
  \/ \E n \in Sizes : MallocCall(n)
  \/ \E p \in DOMAIN held, n \in Sizes : ReallocCall(p, n)
  \/ \E p \in Address : FreeCall(p)
  \/ \E n \in ForeignSizes : ForeignSbrk(n)
  \/ ForeignWrite

Allocator ==
  \/ ScanNext \/ ScanExact \/ ScanSplit \/ ScanExtend \/ ScanExtendFails
  \/ CopyOld \/ CopyCrashes
  \/ FindNext \/ FindFound \/ FreeRefused
  \/ Fuse \/ FuseNothing
  \/ GoWild

\* The process is gone, or its heap can no longer be trusted.
Over == pc \in {"exited", "crashed", "wild"}
Stopped == Over /\ UNCHANGED vars

Next == Caller \/ Allocator \/ Stopped

\* A call that has been entered runs: the process is scheduled.
Spec == Init /\ [][Next]_vars /\ WF_vars(Allocator)

=============================================================================
