---------------------------- MODULE KernelMemory ----------------------------
(***************************************************************************)
(* The physical page allocator and the kernel heap (kernel/memory.c).      *)
(*                                                                         *)
(* The page allocator bumps a pointer through the page-aligned part of     *)
(* every usable region of the boot memory map; pages are never returned.   *)
(* The heap lives in HeapPages contiguous pages and is a singly linked     *)
(* list of blocks, each a header followed by its payload.  headers is the  *)
(* heap's memory as far as the allocator reads it: a header stays readable *)
(* where it was written, also after its block was merged away, until a     *)
(* caller's data overwrites it.                                            *)
(***************************************************************************)
EXTENDS Integers, FiniteSetsExt, SequencesExt

CONSTANTS
    PageSize,       \* ARWILL_MEMORY_PAGE_SIZE
    RangeCapacity,  \* ARWILL_PHYSICAL_ALLOCATOR_RANGE_CAPACITY
    WordMax,        \* UINT64_MAX and SIZE_MAX
    Alignment,      \* heap_alignment
    BlockHeader,    \* sizeof(struct heap_block)
    HhdmOffset,     \* virtual address of physical address 0
    MemoryMaps,     \* the memory maps the boot loader may report
    HeapPages,      \* the pages arch/x86_64/boot/entry.c gives the heap
    Sizes,          \* the sizes callers ask for
    MaxCalls        \* bound on the kmalloc calls and on the pages asked for

ASSUME MemoryAssumption ==
    /\ {PageSize, Alignment, BlockHeader, HhdmOffset, HeapPages} \subseteq Nat \ {0}
    /\ HeapPages <= WordMax \div PageSize

VARIABLES map, allocator, heap, headers, owner, live, freed

memoryVars == <<map, allocator, heap, headers, owner, live, freed>>

(***************************************************************************)
(* Physical pages.                                                         *)
(***************************************************************************)
align_down(value, alignment) == value - (value % alignment)

align_up(value, alignment) ==
    LET gap == (alignment - (value % alignment)) % alignment
    IN  IF value > WordMax - gap THEN WordMax ELSE value + gap

saturating_add(left, right) == IF left > WordMax - right THEN WordMax ELSE left + right

usable_range(region) ==
    [next |-> align_up(region.base, PageSize),
     end  |-> align_down(saturating_add(region.base, region.length), PageSize)]

PagesLeft(ranges) ==
    MapThenSumSet(LAMBDA i : (ranges[i].end - ranges[i].next) \div PageSize, DOMAIN ranges)

physical_allocator_init(regions) ==
    LET usable == SelectSeq(regions, LAMBDA r : r.type = "usable")
        all    == SelectSeq([i \in DOMAIN usable |-> usable_range(usable[i])],
                            LAMBDA r : r.end > r.next)
        ranges == SubSeq(all, 1, Min({Len(all), RangeCapacity}))
    IN  [ranges |-> ranges, total |-> PagesLeft(ranges), free |-> PagesLeft(ranges),
         allocated |-> 0]

arwill_physical_allocate_page(a) ==
    LET open == {i \in DOMAIN a.ranges : a.ranges[i].next < a.ranges[i].end}
        i    == Min(open)
    IN  IF open = {}
        THEN [ok |-> FALSE, page |-> 0, allocator |-> a]
        ELSE [ok |-> TRUE, page |-> a.ranges[i].next,
              allocator |-> [a EXCEPT !.ranges[i].next = @ + PageSize,
                                      !.free = @ - 1, !.allocated = @ + 1]]

(***************************************************************************)
(* The heap.                                                               *)
(***************************************************************************)
heap_payload_offset == align_up(BlockHeader, Alignment)

NoHeap == [base |-> 0, size |-> 0, used |-> 0, allocations |-> 0, frees |-> 0,
           failures |-> 0, initialized |-> FALSE]

\* The pages the heap takes one by one, stopping at the first that is missing or
\* does not follow its predecessor; the pages already taken stay allocated.
heap_pages(a) ==
    LET taken[n \in 0 .. HeapPages] ==
            IF n = 0 THEN [ok |-> TRUE, allocator |-> a, pages |-> <<>>]
            ELSE LET before == taken[n - 1]
                     got    == arwill_physical_allocate_page(before.allocator)
                     pages  == Append(before.pages, got.page)
                 IN  IF ~before.ok THEN before
                     ELSE IF ~got.ok THEN [before EXCEPT !.ok = FALSE]
                     ELSE [ok |-> n = 1 \/ got.page = before.pages[n - 1] + PageSize,
                           allocator |-> got.allocator, pages |-> pages]
    IN  taken[HeapPages]

blocks(h, mem) ==
    LET chain[a \in DOMAIN mem \cup {0}] ==
            IF a = 0 THEN <<>> ELSE <<a>> \o chain[mem[a].next]
    IN  chain[h.base]

heap_coalesce(h, mem) ==
    LET Absorb(walk, b) ==
            IF walk.mem[walk.at].free /\ walk.mem[b].free
            THEN [walk EXCEPT !.mem[walk.at].size = @ + heap_payload_offset + walk.mem[b].size,
                              !.mem[walk.at].next = walk.mem[b].next]
            ELSE [walk EXCEPT !.at = b]
    IN  FoldLeft(Absorb, [mem |-> mem, at |-> h.base], Tail(blocks(h, mem))).mem

\* Wrong variant, for the mutation runs: the remainder's own header is not subtracted.
split_block_overlapping(mem, block, size) ==
    LET rest == block + heap_payload_offset + size
    IN  IF mem[block].size < size + heap_payload_offset + Alignment THEN mem
        ELSE (rest :> [size |-> mem[block].size - size, free |-> TRUE, next |-> mem[block].next])
             @@ [mem EXCEPT ![block].size = size, ![block].next = rest]

split_block(mem, block, size) ==
    LET rest == block + heap_payload_offset + size
    IN  IF mem[block].size < size + heap_payload_offset + Alignment THEN mem
        ELSE (rest :> [size |-> mem[block].size - size - heap_payload_offset,
                       free |-> TRUE, next |-> mem[block].next])
             @@ [mem EXCEPT ![block].size = size, ![block].next = rest]

arwill_kmalloc(h, mem, size) ==
    LET aligned == align_up(size, Alignment)
        fit     == SelectSeq(blocks(h, mem), LAMBDA b : mem[b].free /\ mem[b].size >= aligned)
        split   == split_block(mem, fit[1], aligned)
    IN  IF aligned = WordMax \/ fit = <<>>
        THEN [pointer |-> 0, heap |-> [h EXCEPT !.failures = @ + 1], headers |-> mem]
        ELSE [pointer |-> fit[1] + heap_payload_offset,
              heap    |-> [h EXCEPT !.used = @ + split[fit[1]].size, !.allocations = @ + 1],
              headers |-> [split EXCEPT ![fit[1]].free = FALSE]]

arwill_kfree(h, mem, pointer) ==
    LET block  == pointer - heap_payload_offset
        marked == [mem EXCEPT ![block].free = TRUE]
    IN  IF mem[block].free THEN [heap |-> h, headers |-> mem]
        ELSE [heap    |-> [h EXCEPT !.used = IF @ >= mem[block].size THEN @ - mem[block].size ELSE 0,
                                    !.frees = @ + 1],
              headers |-> heap_coalesce(h, marked)]

arwill_kernel_heap_stats(h) ==
    IF h.initialized THEN [size |-> h.size, used |-> h.used, free |-> h.size - h.used]
                     ELSE [size |-> 0, used |-> 0, free |-> 0]

-----------------------------------------------------------------------------
(***************************************************************************)
(* arwill_memory_init, and the calls of the rest of the kernel.            *)
(***************************************************************************)
MemoryInit ==
    /\ map \in MemoryMaps
    /\ allocator = physical_allocator_init(map)
    /\ heap = NoHeap
    /\ headers = <<>>
    /\ owner = <<>>
    /\ live = <<>>
    /\ freed = {}

\* arwill_kernel_heap_init, called once by the boot code before anything else.
KernelHeapInit ==
    /\ owner = <<>>
    /\ LET got  == heap_pages(allocator)
           base == HhdmOffset + got.pages[1]
           size == HeapPages * PageSize
       IN  /\ allocator' = got.allocator
           /\ owner' = [p \in Range(got.pages) |-> "heap"]
           /\ IF got.ok
              THEN /\ heap' = [NoHeap EXCEPT !.base = base, !.size = size, !.initialized = TRUE]
                   /\ headers' = base :> [size |-> size - heap_payload_offset,
                                          free |-> TRUE, next |-> 0]
              ELSE UNCHANGED <<heap, headers>>
    /\ UNCHANGED <<map, live, freed>>

\* A driver or the user runtime takes a page.
AllocatePage ==
    /\ owner # <<>>
    /\ Cardinality(DOMAIN owner) < HeapPages + MaxCalls
    /\ LET got == arwill_physical_allocate_page(allocator)
       IN  /\ got.ok
           /\ allocator' = got.allocator
           /\ owner' = (got.page :> "other") @@ owner
    /\ UNCHANGED <<map, heap, headers, live, freed>>

\* A caller allocates and fills what it got.
Kmalloc(size) ==
    /\ heap.initialized
    /\ heap.allocations + heap.failures < MaxCalls
    /\ LET got     == arwill_kmalloc(heap, headers, size)
           payload == got.pointer .. got.pointer + size - 1
       IN  /\ heap' = got.heap
           /\ IF got.pointer = 0
              THEN headers' = got.headers /\ UNCHANGED <<live, freed>>
              ELSE /\ headers' = Restrict(got.headers, DOMAIN got.headers \ payload)
                   /\ live' = (got.pointer :> size) @@ live
                   /\ freed' = freed \ {got.pointer}
    /\ UNCHANGED <<map, allocator, owner>>

\* A caller releases an allocation, or releases one a second time while its
\* header still stands.
Kfree(pointer) ==
    /\ pointer \in DOMAIN live \cup freed
    /\ pointer - heap_payload_offset \in DOMAIN headers
    /\ LET got == arwill_kfree(heap, headers, pointer)
       IN  heap' = got.heap /\ headers' = got.headers
    /\ live' = Restrict(live, DOMAIN live \ {pointer})
    /\ freed' = freed \cup {pointer}
    /\ UNCHANGED <<map, allocator, owner>>

MemoryNext ==
    \/ KernelHeapInit
    \/ AllocatePage
    \/ \E size \in Sizes : Kmalloc(size)
    \/ \E pointer \in DOMAIN live \cup freed : Kfree(pointer)

MemorySpec == MemoryInit /\ [][MemoryNext]_memoryVars
-----------------------------------------------------------------------------
Address == HhdmOffset .. HhdmOffset + WordMax

\* Every field of the allocator and of the heap is of the type the code declares.
MemoryTypeOK ==
    /\ map \in MemoryMaps
    /\ allocator.free \in 0 .. WordMax /\ allocator.allocated \in 0 .. WordMax
    /\ heap.used \in 0 .. WordMax /\ heap.initialized \in BOOLEAN
    /\ DOMAIN headers \subseteq Address
    /\ \A a \in DOMAIN headers : headers[a].size \in 0 .. WordMax /\ headers[a].next \in Address \cup {0}
    /\ DOMAIN live \subseteq Address /\ freed \subseteq Address

Bytes(base, length) == base .. base + length - 1

\* Physical pages (arwill_physical_allocate_page): no page is handed out twice, every
\* byte of a page handed out lies in a usable region of the boot map, and the
\* statistics count the pages handed out and the pages left.
PagesAccounted ==
    /\ allocator.allocated = Cardinality(DOMAIN owner)
    /\ allocator.free = PagesLeft(allocator.ranges)
    /\ allocator.total = allocator.free + allocator.allocated
    /\ \A p \in DOMAIN owner :
          \E i \in DOMAIN map :
             /\ map[i].type = "usable"
             /\ Bytes(p, PageSize) \subseteq Bytes(map[i].base, map[i].length)

\* The heap's blocks (split in arwill_kmalloc, merge in heap_coalesce) cover the
\* heap from end to end without a gap or an overlap, and the heap covers only pages
\* that were handed to it.
BlocksTileHeap ==
    heap.initialized =>
        LET list == blocks(heap, headers)
            Stop(i) == list[i] + heap_payload_offset + headers[list[i]].size
        IN  /\ \A i \in 1 .. Len(list) - 1 : Stop(i) = list[i + 1]
            /\ Stop(Len(list)) = heap.base + heap.size
            /\ \A a \in heap.base .. heap.base + heap.size - 1 :
                  LET p == align_down(a - HhdmOffset, PageSize)
                  IN  p \in DOMAIN owner /\ owner[p] = "heap"

\* What arwill_kmalloc returned stays the caller's until arwill_kfree: it has a block
\* of its own, at least as large as asked for, that is not free; all other blocks are
\* free; and used_bytes, which the statistics report, is the sum of those blocks.
LiveAllocationsKept ==
    heap.initialized =>
        LET list == Range(blocks(heap, headers))
            Held == {p - heap_payload_offset : p \in DOMAIN live}
        IN  /\ Held = {b \in list : ~headers[b].free}
            /\ \A p \in DOMAIN live : headers[p - heap_payload_offset].size >= live[p]
            /\ heap.used = MapThenSumSet(LAMBDA b : headers[b].size, Held)
            /\ heap.allocations - heap.frees = Cardinality(Held)
            /\ arwill_kernel_heap_stats(heap).free >= 0

\* Free space never stays split in two: after every call no free block is followed
\* by a free block, so a request fails only when no run of free memory is large
\* enough (heap_coalesce walks the whole list on every arwill_kfree).
FreeBlocksMerged ==
    heap.initialized =>
        LET list == blocks(heap, headers)
        IN  \A i \in 1 .. Len(list) - 1 :
               ~(headers[list[i]].free /\ headers[list[i + 1]].free)

\* The allocator and the heap of kernel/memory.c after every call: the four statements
\* above, on values of their types.
MemoryConsistent ==
    MemoryTypeOK /\ PagesAccounted /\ BlocksTileHeap /\ LiveAllocationsKept /\ FreeBlocksMerged
=============================================================================
