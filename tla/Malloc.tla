------------------------------- MODULE Malloc -------------------------------
(***************************************************************************)
(* The memory of one address space of Winx: sys_malloc() and sys_free()    *)
(* over the pages of malloc_page() and mfree_page() (kernel/memory.c).     *)
(*                                                                         *)
(* A request is served from an arena: a page cut into blocks of one size,  *)
(* whose free blocks are linked into the free list of that size, or, for a *)
(* large request, a run of pages.  Every function here works with the      *)
(* pool's lock held, so each is one action.                                *)
(*                                                                         *)
(* Addresses and sizes count units of memory, Units to a page; the room of *)
(* the arena's header is left out.  Pages are numbered as in the bitmap of *)
(* virtual addresses, frames as in the pool's bitmap, and bitmap_scan()    *)
(* takes the first that fit.                                               *)
(*                                                                         *)
(* The CPU may keep a translation it has used.  page_table_pte_remove() is *)
(* to drop it with invlpg, but gives invlpg the address of its parameter,  *)
(* not the page, so it stays; and the header of an arena is read and       *)
(* written in the frame that the CPU takes for the page.                   *)
(***************************************************************************)
EXTENDS Naturals, FiniteSets, Sequences, Functions

CONSTANTS
    NPages,     \* pages of the virtual address space
    NFrames,    \* frames of the pool
    Units,      \* units of memory in a page
    Sizes,      \* block_size of every descriptor (16 to 1024 bytes)
    LargeCnts,  \* bound: the page counts of large requests
    NULL

ASSUME MallocAssumption ==
    /\ NPages \in Nat \ {0} /\ NFrames \in Nat \ {0} /\ Units \in Nat \ {0}
    /\ Sizes \subseteq 1..Units
    /\ LargeCnts \subseteq Nat \ {0}
    /\ NULL \notin Nat \cup [desc : Sizes \cup {NULL}, cnt : Nat]

VARIABLES
    vused,    \* the set bits of vaddr_bitmap
    pused,    \* the set bits of pool_bitmap
    pte,      \* the frame each page is mapped to, NULL when not present
    header,   \* the arena whose header each frame holds, NULL: other data
    freeList, \* free_list of every descriptor: addresses of blocks
    live,     \* what is handed out: <<address, length>>
    tlb,      \* the translations that the CPU holds, NULL: none
    torn,     \* malloc_page() has failed half-way
    stale,    \* a frame has been taken for a page that is not mapped to it
    fault     \* the ASSERT that failed, "none" before that

vars == <<vused, pused, pte, header, freeList, live, tlb, torn, stale, fault>>

Page == 0..NPages - 1
Frame == 0..NFrames - 1
Address == 0..NPages * Units - 1

blocks_per_arena(s) == Units \div s

\* arena2block() and block2arena().
BlocksOf(p, s) == {p * Units + i * s : i \in 0..blocks_per_arena(s) - 1}

PageOf(b) == b \div Units

Arena == [desc : Sizes \cup {NULL}, cnt : Nat]

TypeOK ==
    /\ vused \subseteq Page /\ pused \subseteq Frame
    /\ pte \in [Page -> Frame \cup {NULL}]
    /\ header \in [Frame -> Arena \cup {NULL}]
    /\ freeList \in [Sizes -> Seq(Address)]
    /\ live \subseteq Address \X (1..NPages * Units)
    /\ tlb \in [Page -> Frame \cup {NULL}]
    /\ torn \in BOOLEAN /\ stale \in BOOLEAN
    /\ fault \in {"none", "memory.c:149", "memory.c:444", "memory.c:455"}

Init ==
    /\ vused = {} /\ pused = {}
    /\ pte = [p \in Page |-> NULL]
    /\ header = [f \in Frame |-> NULL]
    /\ freeList = [s \in Sizes |-> <<>>]
    /\ live = {}
    /\ tlb = [p \in Page |-> NULL]
    /\ torn = FALSE /\ stale = FALSE /\ fault = "none"

----------------------------------------------------------------------------
\* The CPU's access to page p, mapped as in table: it uses the translation it
\* has, and keeps the one it has used.
Seen(p, table) == IF tlb[p] # NULL THEN tlb[p] ELSE table[p]

Access(p, table) ==
    /\ tlb' = [tlb EXCEPT ![p] = Seen(p, table)]
    /\ stale' = (stale \/ Seen(p, table) # table[p])

\* Once a wrong frame has been used, memory holds anything; of what follows only a
\* sys_free() that misses the header, and panics, is modelled.
Sound == fault = "none" /\ ~stale

\* bitmap_scan(): the first run of n clear bits.
Fits(p, n) == p + n <= NPages /\ p..p + n - 1 \cap vused = {}

vaddr_get(p, n) == Fits(p, n) /\ \A q \in Page : Fits(q, n) => p <= q

\* The members of a set of numbers in order, counted from 0.
Rank(S, x) == Cardinality({y \in S : y < x})
Nth(S, i) == CHOOSE x \in S : Rank(S, x) = i

\* palloc() takes the first free frame, then the next.
FirstFrames(n) == {f \in Frame \ pused : Rank(Frame \ pused, f) < n}

\* Mutant of NthFree: palloc() finds the frame again that it has just given out.
NthFree_Same(i) == Nth(Frame \ pused, 0)

NthFree(i) == Nth(Frame \ pused, i)

\* malloc_page(): the pages of the run are marked, then each gets a frame.
malloc_page(p, n) ==
    LET got == Cardinality(FirstFrames(n))
    IN  /\ Sound
        /\ vaddr_get(p, n)
        /\ vused' = vused \cup p..p + n - 1
        /\ pused' = pused \cup FirstFrames(n)
        /\ pte' = [q \in Page |-> IF q \in p..p + got - 1 THEN NthFree(q - p) ELSE pte[q]]
        /\ fault' = IF \E q \in p..p + got - 1 : pte[q] # NULL THEN "memory.c:149" ELSE "none"

\* Without enough frames it returns NULL and leaves what it has done.
malloc_page_Fails(p, n) ==
    /\ Cardinality(Frame \ pused) < n
    /\ malloc_page(p, n)
    /\ torn' = TRUE
    /\ UNCHANGED <<header, freeList, live, tlb, stale>>

\* sys_malloc(), more than 1024 bytes: an arena of n pages.
MallocLarge(p, n) ==
    /\ Cardinality(Frame \ pused) >= n
    /\ malloc_page(p, n)
    /\ Access(p, pte')
    /\ header' = [header EXCEPT ![Seen(p, pte')] = [desc |-> NULL, cnt |-> n]]
    /\ live' = live \cup {<<p * Units, n * Units>>}
    /\ UNCHANGED <<freeList, torn>>

\* sys_malloc() with a block in the free list: the head of the list.
MallocBlock(s) ==
    LET b == Head(freeList[s])
        f == Seen(PageOf(b), pte)
    IN  /\ Sound /\ freeList[s] # <<>>
        /\ Access(PageOf(b), pte)
        /\ freeList' = [freeList EXCEPT ![s] = Tail(@)]
        /\ header' = IF header[f] = NULL \/ header[f].cnt = 0 THEN header
                     ELSE [header EXCEPT ![f].cnt = @ - 1]
        /\ live' = live \cup {<<b, s>>}
        /\ UNCHANGED <<vused, pused, pte, torn, fault>>

\* ... without: a new arena, whose blocks but the first go to the list.
MallocArena(p, s) ==
    /\ freeList[s] = <<>> /\ pused # Frame
    /\ malloc_page(p, 1)
    /\ Access(p, pte')
    /\ header' = [header EXCEPT ![Seen(p, pte')] =
                    [desc |-> s, cnt |-> blocks_per_arena(s) - 1]]
    /\ freeList' = [freeList EXCEPT
                      ![s] = [i \in 1..blocks_per_arena(s) - 1 |-> p * Units + i * s]]
    /\ live' = live \cup {<<p * Units, s>>}
    /\ UNCHANGED torn

----------------------------------------------------------------------------
\* Mutant of mfree_page: the frames stay marked.
mfree_page_KeepsFrames(p, n) ==
    /\ vused' = vused \ p..p + n - 1
    /\ pte' = [q \in Page |-> IF q \in p..p + n - 1 THEN NULL ELSE pte[q]]
    /\ UNCHANGED <<pused, header>>

\* mfree_page(): frames, page table entries and virtual addresses are freed, the
\* CPU's translations are not.  What is left in the frames counts as other data.
mfree_page(p, n) ==
    LET freed == {pte[q] : q \in p..p + n - 1} \ {NULL}
    IN  /\ vused' = vused \ p..p + n - 1
        /\ pused' = pused \ freed
        /\ pte' = [q \in Page |-> IF q \in p..p + n - 1 THEN NULL ELSE pte[q]]
        /\ header' = [f \in Frame |-> IF f \in freed THEN NULL ELSE header[f]]

\* sys_free() of b reads the arena's header, as the CPU sees it.
FreeReads(b) ==
    /\ fault = "none"
    /\ \E len \in 1..NPages * Units : <<b, len>> \in live
    /\ Access(PageOf(b), pte)

HeaderOf(b) == header[Seen(PageOf(b), pte)]

Forget(b) == live' = {r \in live : r[1] # b}

\* ... and panics on what is no header.
FreePanics(b) ==
    /\ FreeReads(b)
    /\ HeaderOf(b) = NULL
    /\ fault' = "memory.c:444"
    /\ UNCHANGED <<vused, pused, pte, header, freeList, live, torn>>

\* A run of pages.
FreeLarge(b) ==
    /\ Sound /\ FreeReads(b)
    /\ HeaderOf(b) # NULL /\ HeaderOf(b).desc = NULL
    /\ mfree_page(PageOf(b), HeaderOf(b).cnt)
    /\ Forget(b)
    /\ UNCHANGED <<freeList, torn, fault>>

\* A block goes to the tail of the list.
FreeBlock(b) ==
    LET a == HeaderOf(b)
    IN  /\ Sound /\ FreeReads(b)
        /\ a # NULL /\ a.desc # NULL /\ a.cnt + 1 # blocks_per_arena(a.desc)
        /\ freeList' = [freeList EXCEPT ![a.desc] = Append(@, b)]
        /\ header' = [header EXCEPT ![Seen(PageOf(b), pte)].cnt = @ + 1]
        /\ Forget(b)
        /\ UNCHANGED <<vused, pused, pte, torn, fault>>

\* list_remove() of the elements in S: those that stay keep their order.
Without(list, S) ==
    LET kept == {i \in DOMAIN list : list[i] \notin S}
    IN  [j \in 1..Cardinality(kept) |-> list[Nth(kept, j - 1)]]

\* Mutant of FreeArena: the arena's blocks stay in the list.
FreeArena_KeepsBlocks(b) ==
    LET a == HeaderOf(b)
    IN  /\ Sound /\ FreeReads(b)
        /\ a # NULL /\ a.desc # NULL /\ a.cnt + 1 = blocks_per_arena(a.desc)
        /\ freeList' = [freeList EXCEPT ![a.desc] = Append(@, b)]
        /\ mfree_page(PageOf(b), 1)
        /\ Forget(b)
        /\ UNCHANGED <<torn, fault>>

\* The last block of an arena: all its blocks leave the list and the page is freed.
FreeArena(b) ==
    LET p == PageOf(b)
        a == HeaderOf(b)
        list == Append(freeList[a.desc], b)
    IN  /\ Sound /\ FreeReads(b)
        /\ a # NULL /\ a.desc # NULL /\ a.cnt + 1 = blocks_per_arena(a.desc)
        /\ freeList' = [freeList EXCEPT ![a.desc] = Without(list, BlocksOf(p, a.desc))]
        /\ fault' = IF BlocksOf(p, a.desc) \subseteq Range(list) THEN "none" ELSE "memory.c:455"
        /\ mfree_page(p, 1)
        /\ Forget(b)
        /\ UNCHANGED torn

----------------------------------------------------------------------------
\* page_dir_activate() loads cr3 at a process switch, which drops all translations;
\* the CPU may drop any one at any time.
page_dir_activate ==
    /\ fault = "none"
    /\ tlb' = [p \in Page |-> NULL]
    /\ UNCHANGED <<vused, pused, pte, header, freeList, live, torn, stale, fault>>

Evict(p) ==
    /\ fault = "none"
    /\ tlb' = [tlb EXCEPT ![p] = NULL]
    /\ UNCHANGED <<vused, pused, pte, header, freeList, live, torn, stale, fault>>

Next == \/ \E p \in Page :
             \/ \E n \in LargeCnts : MallocLarge(p, n)
             \/ \E n \in LargeCnts \cup {1} : malloc_page_Fails(p, n)
             \/ \E s \in Sizes : MallocArena(p, s)
             \/ Evict(p)
        \/ \E s \in Sizes : MallocBlock(s)
        \/ \E b \in Address : FreeLarge(b) \/ FreeBlock(b) \/ FreeArena(b) \/ FreePanics(b)
        \/ page_dir_activate

Spec == Init /\ [][Next]_vars

----------------------------------------------------------------------------
\* Everything holds as long as the CPU has not used an outdated translation.

\* What sys_malloc() hands out never overlaps what it has handed out before, and
\* stays its caller's until sys_free().
Regions == {r[1]..r[1] + r[2] - 1 : r \in live}

H == INSTANCE Heap WITH Address <- Address, regions <- Regions

ImplementsHeap == H!Init /\ [][H!Next \/ stale']_Regions

\* The pages of a live region are mapped, each to a frame of its own that is marked
\* used, so nothing else is ever given that memory.
Backed ==
    ~stale =>
      /\ \A r \in live : \A a \in r[1]..r[1] + r[2] - 1 : pte[PageOf(a)] # NULL
      /\ \A p \in Page : pte[p] # NULL => p \in vused /\ pte[p] \in pused
      /\ \A p, q \in Page : p # q /\ pte[p] # NULL => pte[p] # pte[q]

\* Each mapped page is part of an arena, whose count is that of its blocks in the
\* free list; every block is either free, and then once, or handed out; and no
\* arena without a block in use stays.  Nothing leaks unless malloc_page() failed.
ArenaPages == UNION {PageOf(r[1])..PageOf(r[1] + r[2] - 1) : r \in live}

Accounted ==
    ~stale =>
      /\ ~torn => vused = ArenaPages /\ pused = {pte[p] : p \in vused}
      /\ \A s \in Sizes : Len(freeList[s]) = Cardinality(Range(freeList[s]))
      /\ \A r \in live :
           LET a == header[pte[PageOf(r[1])]]
           IN  a # NULL /\ (a.desc # NULL =>
                 LET blocks == BlocksOf(PageOf(r[1]), a.desc)
                     isFree == blocks \cap Range(freeList[a.desc])
                 IN  /\ a.desc = r[2] /\ a.cnt = Cardinality(isFree)
                     /\ blocks \ isFree = {b \in blocks : <<b, r[2]>> \in live})

\* sys_free() finds the header of an arena where it looks for it (memory.c:444).
HeaderFound == fault # "memory.c:444"
=============================================================================
