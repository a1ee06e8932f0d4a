------------------------------ MODULE SharedMem ------------------------------
(***************************************************************************)
(* shared_mem<T> of memory.hpp: handles that share a block through a       *)
(* std::shared_ptr, the last of which wipes the block.  The destructor     *)
(* reads the use count, then wipes, then gives its reference up, and       *)
(* another thread may destroy its own handle in between.                   *)
(***************************************************************************)
EXTENDS Naturals, FiniteSets

CONSTANTS Handles, Sizes, MaxBlocks

VARIABLES array,       \* array[h]: the block h refers to, or 0
          size_,       \* size_[h]
          pc,          \* pc[h]: "none", "live", "wipe" or "drop"
          made,        \* blocks allocated; block n is written when it is made
          written,     \* written[n]: elements the constructor writes
          wiped, freed,
          raced        \* history: blocks two destructors looked at together, or
                       \* that a move assignment let go

MemAssumption == IsFiniteSet(Handles) /\ Sizes \subseteq Nat /\ MaxBlocks \in Nat

memVars == <<array, size_, pc, made, written, wiped, freed, raced>>

Blocks == 1..MaxBlocks

MemInit ==
    /\ array = [h \in Handles |-> 0] /\ size_ = [h \in Handles |-> 0]
    /\ pc = [h \in Handles |-> "none"]
    /\ made = 0 /\ written = [n \in Blocks |-> 0]
    /\ wiped = {} /\ freed = {} /\ raced = {}

Users(n) == {h \in Handles : array[h] = n}

-----------------------------------------------------------------------------
(* Mutated forms of definitions below. *)

AnyoneMayWipe(h) == TRUE

-----------------------------------------------------------------------------

\* The constructors from a size, a fill value, a key or a pointer; subarray()
\* and clone() build their results with the last of these.
Construct(h, size) ==
    /\ pc[h] = "none" /\ made < MaxBlocks
    /\ made' = made + 1
    /\ array' = [array EXCEPT ![h] = made + 1] /\ size_' = [size_ EXCEPT ![h] = size]
    /\ written' = [written EXCEPT ![made + 1] = size]
    /\ pc' = [pc EXCEPT ![h] = "live"]
    /\ UNCHANGED <<wiped, freed, raced>>

Copy(h, g) ==
    /\ pc[h] = "none" /\ pc[g] = "live"
    /\ array' = [array EXCEPT ![h] = array[g]] /\ size_' = [size_ EXCEPT ![h] = size_[g]]
    /\ pc' = [pc EXCEPT ![h] = "live"]
    /\ UNCHANGED <<made, written, wiped, freed, raced>>

\* A reference to n is given up by h: the block is freed with the last.
FreedBy(h, n) == IF n # 0 /\ Users(n) = {h} THEN freed \cup {n} ELSE freed

\* Move construction of h from g.
MoveConstruct(h, g) ==
    /\ pc[h] = "none" /\ pc[g] = "live"
    /\ array' = [array EXCEPT ![h] = array[g], ![g] = 0]
    /\ size_' = [size_ EXCEPT ![h] = size_[g], ![g] = 0]
    /\ pc' = [pc EXCEPT ![h] = "live"]
    /\ UNCHANGED <<made, written, wiped, freed, raced>>

\* Move assignment: the old block of h is let go without a look at its count.
MoveAssign(h, g) ==
    /\ pc[h] = "live" /\ pc[g] = "live" /\ h # g
    /\ freed' = FreedBy(h, array[h])
    /\ raced' = raced \cup ({array[h]} \ {0})
    /\ array' = [array EXCEPT ![h] = array[g], ![g] = 0]
    /\ size_' = [size_ EXCEPT ![h] = size_[g], ![g] = 0]
    /\ UNCHANGED <<pc, made, written, wiped>>

LastUser(h) == Cardinality(Users(array[h])) = 1

\* The destructor: !empty() && count() == 1 ...
DestroyTest(h) ==
    /\ pc[h] = "live"
    /\ pc' = [pc EXCEPT ![h] = IF size_[h] # 0 /\ LastUser(h) THEN "wipe" ELSE "drop"]
    /\ raced' = IF \E g \in Users(array[h]) \ {h} : pc[g] \in {"wipe", "drop"}
                THEN raced \cup ({array[h]} \ {0}) ELSE raced
    /\ UNCHANGED <<array, size_, made, written, wiped, freed>>

\* ... zero() ...
DestroyWipe(h) ==
    /\ pc[h] = "wipe"
    /\ wiped' = wiped \cup {array[h]}
    /\ pc' = [pc EXCEPT ![h] = "drop"]
    /\ UNCHANGED <<array, size_, made, written, freed, raced>>

\* ... and the shared_ptr goes.
DestroyDrop(h) ==
    /\ pc[h] = "drop"
    /\ freed' = FreedBy(h, array[h])
    /\ array' = [array EXCEPT ![h] = 0] /\ size_' = [size_ EXCEPT ![h] = 0]
    /\ pc' = [pc EXCEPT ![h] = "none"]
    /\ UNCHANGED <<made, written, wiped, raced>>

MemNext == \E h \in Handles :
    \/ \E n \in Sizes : Construct(h, n)
    \/ \E g \in Handles : Copy(h, g) \/ MoveConstruct(h, g) \/ MoveAssign(h, g)
    \/ DestroyTest(h) \/ DestroyWipe(h) \/ DestroyDrop(h)

MemSpec == MemInit /\ [][MemNext]_memVars

-----------------------------------------------------------------------------
\* "finalize shared data": a block that somebody can still read is never wiped
\* under him, and a block is freed with its contents only if two destructors
\* met over it or a move assignment let it go.
WipedWhenLast ==
    /\ \A n \in wiped : \A h \in Users(n) : pc[h] = "drop"
    /\ \A n \in freed : written[n] > 0 => n \in wiped \cup raced
=============================================================================
