-------------------------------- MODULE Heap --------------------------------
(***************************************************************************)
(* src/kernel/heap.c: a first-fit heap, an address-ordered freelist below a *)
(* bump pointer ("wilderness").                                             *)
(*                                                                         *)
(* kmalloc and kfree hold g_heap_lock throughout, so each is one action.     *)
(* Every address and size the code keeps is a multiple of 16, the unit here; *)
(* a header fills one unit.  The freelist is ordered by address, so it is    *)
(* the function from the free blocks to their sizes.                         *)
(***************************************************************************)
EXTENDS Integers, FiniteSetsExt

CONSTANTS Base,            \* heap_base
          End,             \* heap_end
          Sizes,           \* payload sizes asked for, rounded up
          Aligns           \* alignments asked for; 1 is everything up to 16

HDR == 1                   \* HEAP_HDR_SIZE
MIN_BLOCK == 2             \* HEAP_MIN_BLOCK

ASSUME HeapAssumption ==
    /\ Base \in Nat /\ End \in Nat /\ Base + MIN_BLOCK <= End
    /\ Sizes \subseteq Nat \ {0} /\ Aligns \subseteq Nat \ {0}

VARIABLES free,            \* free_list: free[b] is the size of the free block b
          wilderness,
          used,            \* the blocks handed out: used[b] is the block's size and
                           \* what was asked for
          g_used

heapVars == <<free, wilderness, used, g_used>>

HeapInit == /\ free = << >> /\ used = << >>
            /\ wilderness = Base
            /\ g_used = 0
-----------------------------------------------------------------------------
(* A heap is h = [free, wild].  Removed and put blocks of a function:        *)
Without(f, S) == [b \in DOMAIN f \ S |-> f[b]]
With(f, a, v) == [b \in DOMAIN f \cup {a} |-> IF b = a THEN v ELSE f[b]]

(* freelist_insert of the block at a, n units long: back to the wilderness if *)
(* it ends there, alone or with the free block behind it; otherwise merged    *)
(* with its free neighbours.                                                *)
InsertForward(h, a, n) ==         \* without the merge with the block before
    LET m == IF a + n \in DOMAIN h.free THEN n + h.free[a + n] ELSE n
    IN  IF a + n = h.wild THEN [h EXCEPT !.wild = a]
        ELSE [h EXCEPT !.free = With(Without(h.free, {a + n}), a, m)]

Insert(h, a, n) ==
    LET m == IF a + n \in DOMAIN h.free THEN n + h.free[a + n] ELSE n
        rest == Without(h.free, {a + n})
        before == {b \in DOMAIN h.free : b < a /\ b + h.free[b] = a}
    IN  CASE a + n = h.wild -> [h EXCEPT !.wild = a]
          [] a + n # h.wild /\ a + m = h.wild -> [free |-> rest, wild |-> a]
          [] a + m # h.wild /\ before = {} -> [h EXCEPT !.free = With(rest, a, m)]
          [] OTHER -> LET p == CHOOSE p \in before : TRUE
                      IN  [h EXCEPT !.free = With(rest, p, h.free[p] + m)]

(* take_region(need): the region's start and size, and the heap left; start   *)
(* is -1 when there is none.  split_tail frees a rest that is worth a block,   *)
(* any other stays with the region.                                          *)
TakeRegion(h, need) ==
    LET fits == {b \in DOMAIN h.free : h.free[b] >= need}
    IN  CASE fits # {} ->
                LET b == Min(fits)
                    rest == [h EXCEPT !.free = Without(h.free, {b})]
                IN  IF h.free[b] < need + MIN_BLOCK
                    THEN [at |-> b, size |-> h.free[b], heap |-> rest]
                    ELSE [at |-> b, size |-> need,
                          heap |-> Insert(rest, b + need, h.free[b] - need)]
          [] fits = {} /\ need <= End - h.wild ->
                [at |-> h.wild, size |-> need, heap |-> [h EXCEPT !.wild = @ + need]]
          [] OTHER -> [at |-> -1, size |-> 0, heap |-> h]
-----------------------------------------------------------------------------
heap == [free |-> free, wild |-> wilderness]

SetHeap(h) == free' = h.free /\ wilderness' = h.wild

(* finish_used                                                              *)
HandOut(b, n, size, align) ==
    /\ used' = With(used, b, [size |-> n, want |-> size, align |-> align])
    /\ g_used' = g_used + n

NoMemory == UNCHANGED heapVars

(* alloc_raw_locked                                                         *)
AllocRaw(size) ==
    LET r == TakeRegion(heap, HDR + size)
    IN  \/ r.at < 0 /\ NoMemory
        \/ /\ r.at >= 0
           /\ SetHeap(r.heap)
           /\ HandOut(r.at, r.size, size, 1)

(* The first aligned payload that leaves no lead or one worth a block.       *)
(* UserOfHeader aligns the header in its stead.                              *)
AlignUp(p, align) == ((p + align - 1) \div align) * align
UserOfHeader(start, align) == AlignUp(start, align) + HDR
User(start, align) ==
    LET first == AlignUp(start + HDR, align)
    IN  IF first - HDR - start \in 1 .. MIN_BLOCK - 1 THEN first + align ELSE first

(* alloc_aligned_locked: lead and tail of the region are given back.         *)
AllocAligned(size, align) ==
    LET r == TakeRegion(heap, HDR + size + align + MIN_BLOCK)
        end == r.at + r.size
        hdr == User(r.at, align) - HDR
        lead == hdr - r.at
        left == end - (hdr + HDR + size)
        tail == IF left < MIN_BLOCK THEN 0 ELSE left
        h1 == IF lead >= MIN_BLOCK THEN Insert(r.heap, r.at, lead) ELSE r.heap
        h2 == IF tail > 0 THEN Insert(h1, end - tail, tail) ELSE h1
    IN  \/ r.at < 0 /\ NoMemory
        \/ /\ r.at >= 0
           /\ IF hdr + HDR + size <= end
              THEN SetHeap(h2) /\ HandOut(hdr, end - tail - hdr, size, align)
              ELSE SetHeap(Insert(r.heap, r.at, r.size)) /\ UNCHANGED <<used, g_used>>

(* kmalloc_aligned                                                          *)
Kmalloc(size, align) == IF align = 1 THEN AllocRaw(size) ELSE AllocAligned(size, align)

(* kfree of a block.                                                         *)
Count(b) == g_used' = IF g_used >= used[b].size THEN g_used - used[b].size ELSE 0

Kfree(b) == /\ Count(b)
            /\ SetHeap(Insert(heap, b, used[b].size))
            /\ used' = Without(used, {b})

HeapNext == \/ \E size \in Sizes, align \in Aligns : Kmalloc(size, align)
            \/ \E b \in DOMAIN used : Kfree(b)

HeapSpec == HeapInit /\ [][HeapNext]_heapVars
-----------------------------------------------------------------------------
Size(b) == IF b \in DOMAIN used THEN used[b].size ELSE free[b]
Blocks == DOMAIN used \cup DOMAIN free

(* The walk of heap_free along the blocks of f, from address to address.     *)
Room(f, b) == IF b \in DOMAIN f THEN f[b] ELSE 0
Total(f) ==
    LET below[a \in 0 .. End] == IF a = 0 THEN 0 ELSE below[a - 1] + Room(f, a - 1)
    IN  below[End]
HeapFree == End - wilderness + Total(free)

(* The blocks in use, the free blocks and the wilderness tile the heap: no    *)
(* two overlap and no unit is lost between them, whatever the splits, leads,  *)
(* tails and merges did ("Freed blocks go on an address-ordered freelist and  *)
(* are coalesced", heap.c).                                                 *)
Tiled == /\ DOMAIN used \cap DOMAIN free = {}
         /\ Base \in Blocks \cup {wilderness}
         /\ \A b \in Blocks : /\ b + Size(b) \in Blocks \cup {wilderness}
                              /\ b + Size(b) <= wilderness
                              /\ \A c \in Blocks : b < c => b + Size(b) <= c

(* No two free blocks lie side by side: what was free before an allocation    *)
(* and after the matching free is one block again.                           *)
Coalesced == \A b, c \in DOMAIN free : b + free[b] # c

(* heap_used() and heap_free() add up to the whole heap.                     *)
Accounted == g_used + HeapFree = End - Base

(* Nothing is lost, doubled, left in pieces or miscounted (heap.c:72-372).    *)
HeapSound == Tiled /\ Coalesced /\ Accounted

(* heap.c keeps the promise of an allocator; the refinement forgets blocks    *)
(* and headers.                                                             *)
Live == {[at |-> b + HDR, size |-> used[b].want, align |-> used[b].align] : b \in DOMAIN used}

A == INSTANCE Allocator WITH live <- Live

ImplementsAllocator == A!Spec
=============================================================================
