--------------------------------- MODULE Heap -------------------------------
(***************************************************************************)
(* The first-fit heap of include/stdlib.h: a list of blocks in the order   *)
(* of their addresses, each with a header in front of it in the heap       *)
(* itself.  No code of the kernel calls it yet; it is a header for every   *)
(* file to use, so any sequence of its calls is considered.  A caller      *)
(* frees what it holds, once, and stays inside it.                         *)
(*                                                                         *)
(* paging_init maps only memory below MAPPED: a header written above it    *)
(* is a page fault, which the kernel does not survive.                     *)
(***************************************************************************)
EXTENDS Integers, Sequences

CONSTANTS
    HEAP_START, HEAP_SIZE,  \* KERNEL_HEAP_START and KERNEL_HEAP_SIZE
    HEADER,                 \* sizeof(kblock_t)
    ALIGN,                  \* 8, to which sizes are rounded up
    Word,                   \* 2^32, the modulus of size_t
    MAPPED,                 \* KERNEL_SIZE, the end of the mapped memory
    Size                    \* sizes asked for

ASSUME HeapAssumption ==
    /\ {HEAP_START, HEAP_SIZE, HEADER, ALIGN, Word, MAPPED} \subseteq Nat \ {0}
    /\ HEADER < HEAP_SIZE
    /\ HEAP_START + HEADER <= MAPPED
    /\ HEAP_START + HEAP_SIZE < Word
    /\ Word % ALIGN = 0
    /\ Size \subseteq 0 .. Word - 1

HeapEnd == HEAP_START + HEAP_SIZE

VARIABLES
    blocks,   \* the list from heap_start on; empty while that is NULL
    held,     \* what callers have and not yet freed: pointer and size asked
    faulted   \* the request that a page fault has stopped; 0 without one

vars == <<blocks, held, faulted>>

Block == [addr : HEAP_START .. HeapEnd, size : 0 .. HEAP_SIZE, free : BOOLEAN]

TypeOK ==
    /\ blocks \in Seq(Block)
    /\ \A a \in held : a.ptr \in HEAP_START .. HeapEnd /\ a.asked \in Size
    /\ faulted \in Size \cup {0}

Init ==
    /\ blocks = <<>>
    /\ held = {}
    /\ faulted = 0

-----------------------------------------------------------------------------
\* kheap_init
Initialized ==
    IF blocks # <<>> THEN blocks
    ELSE <<[addr |-> HEAP_START, size |-> HEAP_SIZE - HEADER, free |-> TRUE]>>

\* (size + 7) & ~7 of a size_t
Rounded(n) == LET sum == (n + ALIGN - 1) % Word IN sum - (sum % ALIGN)

\* Mutant: a block of exactly the size is passed over.
Fits_NotExact(b, size) == b.free /\ b.size > size

Fits(b, size) == b.free /\ b.size >= size

\* Mutant: the rest gets every byte that the block does not, without a place
\* for its header.
Pieces_NoHeader(b, size) ==
    <<[b EXCEPT !.size = size, !.free = FALSE],
      [addr |-> b.addr + HEADER + size, size |-> b.size - size,
       free |-> TRUE]>>

\* A block cut into the part handed out and a free rest with a header.
Pieces(b, size) ==
    <<[b EXCEPT !.size = size, !.free = FALSE],
      [addr |-> b.addr + HEADER + size, size |-> b.size - size - HEADER,
       free |-> TRUE]>>

\* Mutant: the block is not marked as taken when it is not split.
HandedOut_StaysFree(b, size) ==
    IF b.size > size + HEADER THEN Pieces(b, size) ELSE <<b>>

\* Mutant: a block is split also when the rest has no room for a header.
HandedOut_AlwaysSplit(b, size) == Pieces(b, size)

HandedOut(b, size) ==
    IF b.size > size + HEADER
       THEN Pieces(b, size) ELSE <<[b EXCEPT !.free = FALSE]>>

\* A rest whose header, written by the split, lies above the mapped memory.
Unmapped(pieces) ==
    Len(pieces) = 2 /\ pieces[2].addr + HEADER > MAPPED

\* kmalloc, when block i of the list is the first that fits.
kmalloc(n) ==
    LET size == Rounded(n)
        list == Initialized
    IN  \E i \in 1 .. Len(list) :
          LET pieces == HandedOut(list[i], size)
              ptr == list[i].addr + HEADER
          IN  /\ n # 0
              /\ Fits(list[i], size)
              /\ \A j \in 1 .. i - 1 : ~Fits(list[j], size)
              /\ IF Unmapped(pieces)
                    THEN /\ faulted' = n
                         /\ blocks' = list
                         /\ UNCHANGED held
                    ELSE /\ blocks' = SubSeq(list, 1, i - 1) \o pieces
                                         \o SubSeq(list, i + 1, Len(list))
                         /\ held' = held \cup {[ptr |-> ptr, asked |-> n]}
                         /\ UNCHANGED faulted

\* No block of the list fits: kmalloc returns NULL.
Refused(n) ==
    \A i \in 1 .. Len(Initialized) : ~Fits(Initialized[i], Rounded(n))

\* kmalloc of nothing, or refused; the heap is made all the same.
kmalloc_NULL(n) ==
    /\ n = 0 \/ Refused(n)
    /\ blocks' = Initialized
    /\ UNCHANGED <<held, faulted>>

\* A block taken into the one in front of it, when both are free.
Join(done, b) ==
    IF done # <<>> /\ done[Len(done)].free /\ b.free
       THEN [done EXCEPT ![Len(done)].size = @ + HEADER + b.size]
       ELSE Append(done, b)

\* The walk of kfree: what it has made of the list up to block i.
Walk(list) ==
    LET walk[i \in 0 .. Len(list)] ==
          IF i = 0 THEN <<>> ELSE Join(walk[i - 1], list[i])
    IN  walk

\* Mutant: the walk goes on also from a block that has joined its successor.
Coalesced_Pairs(list) ==
    LET walk[i \in 0 .. Len(list)] ==
          IF i = 0 THEN <<>>
          ELSE IF i > 1 /\ walk[i - 1][Len(walk[i - 1])].addr = list[i - 1].addr
                  THEN Join(walk[i - 1], list[i])
                  ELSE Append(walk[i - 1], list[i])
    IN  walk[Len(list)]

Coalesced(list) == Walk(list)[Len(list)]

\* The list when the block of pointer ptr has been marked free.
Marked(ptr) ==
    [i \in 1 .. Len(blocks) |->
        IF blocks[i].addr = ptr - HEADER THEN [blocks[i] EXCEPT !.free = TRUE]
                                         ELSE blocks[i]]

kfree(a) ==
    /\ blocks' = Coalesced(Marked(a.ptr))
    /\ held' = held \ {a}
    /\ UNCHANGED faulted

Next ==
    /\ faulted = 0
    /\ \/ \E n \in Size : kmalloc(n) \/ kmalloc_NULL(n)
       \/ \E a \in held : kfree(a)

Spec == Init /\ [][Next]_vars

-----------------------------------------------------------------------------
\* The blocks and their headers cover the heap without a gap or an overlap,
\* however it has been cut and joined: no byte is lost or counted twice, and
\* no size has wrapped below 0.  Free memory is never in two pieces where it
\* could be in one.
Tiled ==
    /\ TypeOK
    /\ blocks # <<>> => blocks[1].addr = HEAP_START
    /\ \A i \in 1 .. Len(blocks) :
          blocks[i].addr + HEADER + blocks[i].size =
             IF i = Len(blocks) THEN HeapEnd ELSE blocks[i + 1].addr
    /\ \A i \in 1 .. Len(blocks) - 1 : ~(blocks[i].free /\ blocks[i + 1].free)

\* kmalloc refuses a request only if no hole between the blocks held, each
\* with its header, has what was asked for and the overhead of a list: the
\* header of the hole, a rest too small to be split off, and the rounding.
Overhead == 2 * HEADER + ALIGN - 1
HeldBytes ==
    UNION {a.ptr - HEADER .. a.ptr + Rounded(a.asked) - 1 : a \in held}
RefusesOnlyWhenFull ==
    \A n \in Size \ {0} :
        n + Overhead <= HEAP_SIZE /\ Refused(n) =>
            \A p \in HEAP_START .. HeapEnd - n - Overhead :
                p .. p + n + Overhead - 1 \cap HeldBytes # {}

Promise ==
    INSTANCE Allocator WITH
        Low <- HEAP_START, High <- HeapEnd, Reached <- MAPPED,
        Margin <- HEADER, Slack <- Overhead + HEADER + ALIGN - 1,
        Modulus <- Word - ALIGN + 1, Ask <- Size,
        live <- {[ptr |-> a.ptr,
                  len |-> IF a.asked < Word - ALIGN + 1 THEN a.asked ELSE 0] :
                 a \in held},
        crashed <- faulted

\* No two callers ever have the same byte, nor one a byte of a header; all
\* that is handed out lies in the heap; and a page fault stops the kernel
\* only in a request for which the mapped part of the heap has no hole.
ImplementsAllocator == Promise!AllocatorSpec
=============================================================================
