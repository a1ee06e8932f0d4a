------------------------------- MODULE MemPool -------------------------------
(***************************************************************************)
(* mempool<T> and memreuse<T> of memory.hpp.  A mempool hands out the      *)
(* slots of an array, first those never used, before them those given      *)
(* back; it can be moved, and deletes the array if it made it.  A memreuse *)
(* keeps a list of destroyed objects to construct new ones in.             *)
(***************************************************************************)
EXTENDS Naturals, Sequences, FiniteSets

CONSTANTS Pools, Size,       \* Size: slots of an array
          MaxArrays, MaxObjects

VARIABLES ptr_,              \* ptr_[p]: the array of a pool, or 0
          dynamic_, used_, free_,
          arrays, deleted,   \* arrays made, and those deleted
          held,              \* slots callers hold
          cleared,           \* arrays of pools cleared while slots were held
          spare,             \* memreuse: free_[p], a list of objects
          objects,           \* memreuse: objects allocated
          alive,             \* memreuse: objects constructed and not destroyed
          twice              \* memreuse: objects destroyed that were not alive

PoolAssumption == Size \in Nat /\ MaxArrays \in Nat

poolVars == <<ptr_, dynamic_, used_, free_, arrays, deleted, held, cleared>>
reuseVars == <<spare, objects, alive, twice>>
memPoolVars == <<poolVars, reuseVars>>

PoolInit ==
    /\ ptr_ = [p \in Pools |-> 0] /\ dynamic_ = [p \in Pools |-> FALSE]
    /\ used_ = [p \in Pools |-> 0] /\ free_ = [p \in Pools |-> <<>>]
    /\ arrays = 0 /\ deleted = {} /\ held = {} /\ cleared = {}
    /\ spare = [p \in Pools |-> <<>>] /\ objects = 0 /\ alive = {} /\ twice = {}

Items(s) == {s[i] : i \in DOMAIN s}
Slots(p) == {s \in (1..MaxArrays) \X (0..Size-1) : s[1] = ptr_[p]}

-----------------------------------------------------------------------------
(* Mutated forms of definitions below. *)

FreeKept(p, q) == [free_ EXCEPT ![p] = free_[p] \o free_[q], ![q] = <<>>]
SpareStays(p) == spare

-----------------------------------------------------------------------------
(* mempool *)

\* mempool(size) makes its array; the other constructors are given one.
Construct(p, own) ==
    /\ ptr_[p] = 0 /\ arrays < MaxArrays
    /\ arrays' = arrays + 1
    /\ ptr_' = [ptr_ EXCEPT ![p] = arrays + 1] /\ dynamic_' = [dynamic_ EXCEPT ![p] = own]
    /\ used_' = [used_ EXCEPT ![p] = 0] /\ free_' = [free_ EXCEPT ![p] = <<>>]
    /\ UNCHANGED <<deleted, held, cleared, reuseVars>>

\* get() and get_or() take the front of free_ ...
GetFree(p) ==
    /\ free_[p] # <<>>
    /\ held' = held \cup {Head(free_[p])}
    /\ free_' = [free_ EXCEPT ![p] = Tail(@)]
    /\ UNCHANGED <<ptr_, dynamic_, used_, arrays, deleted, cleared, reuseVars>>

\* ... or the next unused slot; otherwise they throw or return the default.
GetNew(p) ==
    /\ free_[p] = <<>> /\ ptr_[p] # 0 /\ used_[p] < Size
    /\ held' = held \cup {<<ptr_[p], used_[p]>>}
    /\ used_' = [used_ EXCEPT ![p] = @ + 1]
    /\ UNCHANGED <<ptr_, dynamic_, free_, arrays, deleted, cleared, reuseVars>>

\* release() appends; reuse() puts the slot in front.
Return(p, s, list) ==
    /\ s \in held \cap Slots(p)
    /\ free_' = [free_ EXCEPT ![p] = list]
    /\ held' = held \ {s}
    /\ UNCHANGED <<ptr_, dynamic_, used_, arrays, deleted, cleared, reuseVars>>

Release(p, s) == Return(p, s, Append(free_[p], s))
Reuse(p, s) == Return(p, s, <<s>> \o free_[p])

Clear(p) ==
    /\ ptr_[p] # 0
    /\ used_' = [used_ EXCEPT ![p] = 0] /\ free_' = [free_ EXCEPT ![p] = <<>>]
    /\ cleared' = IF held \cap Slots(p) # {} THEN cleared \cup {ptr_[p]} ELSE cleared
    /\ UNCHANGED <<ptr_, dynamic_, arrays, deleted, held, reuseVars>>

DeletedBy(p) == IF ptr_[p] # 0 /\ dynamic_[p] THEN {ptr_[p]} ELSE {}
StillHeld(p) == {s \in held : s[1] \notin DeletedBy(p)}

FreeMoved(p, q) == [free_ EXCEPT ![p] = free_[q], ![q] = <<>>]

\* Move construction, and assignment, which first deletes the target's array.
Move(p, q) ==
    /\ p # q /\ ptr_[q] # 0
    /\ deleted' = deleted \cup DeletedBy(p) /\ held' = StillHeld(p)
    /\ ptr_' = [ptr_ EXCEPT ![p] = ptr_[q], ![q] = 0]
    /\ used_' = [used_ EXCEPT ![p] = used_[q], ![q] = 0]
    /\ dynamic_' = [dynamic_ EXCEPT ![p] = dynamic_[q], ![q] = FALSE]
    /\ free_' = FreeMoved(p, q)
    /\ UNCHANGED <<arrays, cleared, reuseVars>>

Destroy(p) ==
    /\ ptr_[p] # 0
    /\ deleted' = deleted \cup DeletedBy(p) /\ held' = StillHeld(p)
    /\ ptr_' = [ptr_ EXCEPT ![p] = 0] /\ free_' = [free_ EXCEPT ![p] = <<>>]
    /\ used_' = [used_ EXCEPT ![p] = 0] /\ dynamic_' = [dynamic_ EXCEPT ![p] = FALSE]
    /\ UNCHANGED <<arrays, cleared, reuseVars>>

PoolNext == \E p \in Pools :
    \/ \E own \in BOOLEAN : Construct(p, own)
    \/ GetFree(p) \/ GetNew(p) \/ Clear(p) \/ Destroy(p)
    \/ \E s \in held : Release(p, s) \/ Reuse(p, s)
    \/ \E q \in Pools : Move(p, q)

-----------------------------------------------------------------------------
(* memreuse *)

TakeSpare(p) == [spare EXCEPT ![p] = Tail(@)]

\* create() in the memory of the first spare object, or in new memory; an
\* alloc_ that returns null changes nothing.
Create(p) ==
    /\ IF spare[p] # <<>>
       THEN /\ spare' = TakeSpare(p)
            /\ alive' = alive \cup {Head(spare[p])} /\ UNCHANGED objects
       ELSE /\ objects < MaxObjects /\ objects' = objects + 1
            /\ alive' = alive \cup {objects + 1} /\ UNCHANGED spare
    /\ UNCHANGED <<twice, poolVars>>

\* renew() destroys and constructs in place: nothing changes here.
ReleaseObject(p, o) ==
    /\ o \in alive
    /\ alive' = alive \ {o} /\ spare' = [spare EXCEPT ![p] = Append(@, o)]
    /\ UNCHANGED <<objects, twice, poolVars>>

\* clear(), and the destructor: delete runs the destructor of each spare
\* object a second time.
ClearSpare(p) ==
    /\ spare[p] # <<>>
    /\ twice' = twice \cup (Items(spare[p]) \ alive)
    /\ spare' = [spare EXCEPT ![p] = <<>>]
    /\ UNCHANGED <<objects, alive, poolVars>>

\* Move construction and assignment; the target's own list is forgotten.
MoveSpare(p, q) ==
    /\ p # q
    /\ spare' = [spare EXCEPT ![p] = spare[q], ![q] = <<>>]
    /\ UNCHANGED <<objects, alive, twice, poolVars>>

ReuseNext == \E p \in Pools :
    \/ Create(p) \/ ClearSpare(p)
    \/ \E o \in alive : ReleaseObject(p, o)
    \/ \E q \in Pools : MoveSpare(p, q)

-----------------------------------------------------------------------------
Free(p) == Items(free_[p])

\* Through any sequence of gets, releases and moves of mempools no slot is both
\* free and held, listed free twice or listed by a pool that does not have its
\* array; size(), the used slots less the free ones, is the number held; and no
\* pool refers to a deleted array.  Only clear() with slots outside breaks this.
SlotsHandedOnce ==
    \A p \in Pools : (ptr_[p] # 0 /\ ptr_[p] \notin cleared) =>
        /\ Free(p) \subseteq Slots(p) \ held
        /\ Len(free_[p]) = Cardinality(Free(p))
        /\ used_[p] = Len(free_[p]) + Cardinality(held \cap Slots(p))
        /\ ptr_[p] \notin deleted

\* memreuse never constructs an object in the memory of one that is alive: no
\* live object is on a list, and none is listed twice or on two lists.
SparesAreDead ==
    \A p, q \in Pools :
        /\ Items(spare[p]) \cap alive = {}
        /\ Len(spare[p]) = Cardinality(Items(spare[p]))
        /\ p # q => Items(spare[p]) \cap Items(spare[q]) = {}
=============================================================================
