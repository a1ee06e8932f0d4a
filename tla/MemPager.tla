------------------------------ MODULE MemPager ------------------------------
(***************************************************************************)
(* mempager of memory.hpp: memory handed out from the current page of a    *)
(* list of pages, all freed together.  Sizes are in bytes.  A page begins  *)
(* with its page_t header; the sizes compared are unsigned.                *)
(***************************************************************************)
EXTENDS Naturals, Sequences, FiniteSets

CONSTANTS Pagers,
          PageSize,          \* size_, the same for every pager
          PtrSize,           \* sizeof(void *)
          HeaderSize,        \* sizeof(page_t)
          Requests,          \* the sizes passed to alloc()
          MaxPages, MaxBlocks

VARIABLES current_,          \* current_[p]: the list of pages of a pager, newest first
          used,              \* used[n]: the used field of page n
          made, freed,       \* pages allocated, and those freed
          blocks,            \* what alloc() has returned, in order
          lost               \* pages no pager refers to any more

PagerAssumption == /\ PtrSize \in Nat \ {0} /\ HeaderSize \in Nat /\ MaxPages \in Nat
                   /\ Requests \subseteq Nat

pagerVars == <<current_, used, made, freed, blocks, lost>>

PagerInit ==
    /\ current_ = [p \in Pagers |-> <<>>] /\ used = [n \in 1..MaxPages |-> 0]
    /\ made = 0 /\ freed = {} /\ blocks = <<>> /\ lost = {}

Items(s) == {s[i] : i \in DOMAIN s}
Huge == 2 ^ 16                                  \* stands for 2^64
Minus(a, b) == (a + Huge - b) % Huge            \* std::size_t subtraction
RoundUp(n) == ((n + PtrSize - 1) \div PtrSize) * PtrSize

-----------------------------------------------------------------------------
(* Mutated forms of definitions below. *)

CopyOver(p, q) == [current_ EXCEPT ![p] = current_[q]]
UsedBefore(n, size) == [used EXCEPT ![n] = @ + PtrSize]

-----------------------------------------------------------------------------

TooLarge(size) == size > Minus(PageSize, PtrSize)
NeedsPage(p, size) ==
    current_[p] # <<>> => size > Minus(PageSize, used[Head(current_[p])])

UsedAfter(n, size) == [used EXCEPT ![n] = @ + size]

Hand(n, from, size) ==
    /\ Len(blocks) < MaxBlocks
    /\ blocks' = Append(blocks, [page |-> n, from |-> from, to |-> from + size])

\* alloc() in the current page; dup(), make() and operator new come here too.
AllocHere(p, n) ==
    LET size == RoundUp(n) IN
    /\ ~TooLarge(size) /\ ~NeedsPage(p, size)
    /\ Hand(Head(current_[p]), used[Head(current_[p])], size)
    /\ used' = UsedAfter(Head(current_[p]), size)
    /\ UNCHANGED <<current_, made, freed, lost>>

\* alloc() in a new page.  A page_alloc() that fails leaves everything as it is.
AllocPage(p, n) ==
    LET size == RoundUp(n) IN
    /\ ~TooLarge(size) /\ NeedsPage(p, size)
    /\ made < MaxPages /\ made' = made + 1
    /\ current_' = [current_ EXCEPT ![p] = <<made + 1>> \o @]
    /\ Hand(made + 1, HeaderSize, size)
    /\ used' = [used EXCEPT ![made + 1] = HeaderSize + size]
    /\ UNCHANGED <<freed, lost>>

\* clear(), and the destructor.
Clear(p) ==
    /\ current_[p] # <<>>
    /\ freed' = freed \cup Items(current_[p])
    /\ current_' = [current_ EXCEPT ![p] = <<>>]
    /\ UNCHANGED <<used, made, blocks, lost>>

TakeOver(p, q) == [current_ EXCEPT ![p] = current_[q], ![q] = <<>>]

\* Move construction and assignment; assignment forgets the target's pages.
Move(p, q) ==
    /\ p # q /\ current_[q] # <<>>
    /\ lost' = lost \cup Items(current_[p])
    /\ current_' = TakeOver(p, q)
    /\ UNCHANGED <<used, made, freed, blocks>>

PagerNext == \E p \in Pagers :
    \/ \E n \in Requests : AllocHere(p, n) \/ AllocPage(p, n)
    \/ Clear(p)
    \/ \E q \in Pagers : Move(p, q)

PagerSpec == PagerInit /\ [][PagerNext]_pagerVars

-----------------------------------------------------------------------------
Overlap(a, b) == a.page = b.page /\ a.from < b.to /\ b.from < a.to

\* Whatever the moves, every page belongs to at most one pager and is freed at
\* most once (a freed page is in no list), and no two blocks of a page overlap
\* each other or its header.
BlocksDisjoint ==
    /\ \A p, q \in Pagers : p # q => Items(current_[p]) \cap Items(current_[q]) = {}
    /\ \A p \in Pagers : Items(current_[p]) \cap (freed \cup lost) = {}
    /\ \A i, j \in DOMAIN blocks : i # j => ~Overlap(blocks[i], blocks[j])
    /\ \A i \in DOMAIN blocks : blocks[i].from >= HeaderSize

\* "Safe low level memory functions": what alloc() returns lies inside a page.
BlocksInPage == \A i \in DOMAIN blocks : blocks[i].to <= PageSize
=============================================================================
