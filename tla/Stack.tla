------------------------------- MODULE Stack -------------------------------
(***************************************************************************)
(* atomic::stack_t<T, S> of atomics.hpp.  An operation claims an index by  *)
(* one fetch_add or fetch_sub of count_ and then touches data_ without     *)
(* further synchronisation.  count_ is an int and S a size_t, so that      *)
(* "count >= S" holds of every negative count.                             *)
(***************************************************************************)
EXTENDS Integers, FiniteSets

CONSTANTS Threads, S,
          MaxPush, MaxPop     \* bounds on the calls of push() and of pop()

\* static_assert(S > 2).
StackAssumption == IsFiniteSet(Threads) /\ S \in Nat /\ S > 2

VARIABLES count, data,
          pc, index,          \* pc[t], and the count the thread claimed
          item,               \* item[t]: the item a push() carries
          npush, npop,        \* calls begun; push number n carries item n
          stored,             \* items whose push() returned true
          taken               \* one <<answer, call>> per pop() that answered

stackVars == <<count, data, pc, index, item, npush, npop, stored, taken>>

Unset == 0                    \* a slot of data_ that was never written
Outside == -1                 \* whatever lies beyond the end of data_

StackInit ==
    /\ count = 0 /\ data = [i \in 0..S-1 |-> Unset]
    /\ pc = [t \in Threads |-> "idle"]
    /\ index = [t \in Threads |-> 0] /\ item = [t \in Threads |-> Unset]
    /\ npush = 0 /\ npop = 0 /\ stored = {} /\ taken = {}

\* (Mutated form of AtLeastS.)
AtLeastSSigned(c) == c >= S

\* The comparison count >= S after the conversion of count to size_t.
AtLeastS(c) == c < 0 \/ c >= S

PushClaim(t) ==
    /\ pc[t] = "idle" /\ npush < MaxPush
    /\ npush' = npush + 1 /\ item' = [item EXCEPT ![t] = npush + 1]
    /\ index' = [index EXCEPT ![t] = count] /\ count' = count + 1
    /\ pc' = [pc EXCEPT ![t] = IF AtLeastS(count) THEN "unpush" ELSE "write"]
    /\ UNCHANGED <<data, npop, stored, taken>>

PushFail(t) ==
    /\ pc[t] = "unpush" /\ count' = count - 1
    /\ pc' = [pc EXCEPT ![t] = "idle"]
    /\ UNCHANGED <<data, index, item, npush, npop, stored, taken>>

PushWrite(t) ==
    /\ pc[t] = "write"
    /\ data' = [data EXCEPT ![index[t]] = item[t]]
    /\ stored' = stored \cup {item[t]}
    /\ pc' = [pc EXCEPT ![t] = "idle"]
    /\ UNCHANGED <<count, index, item, npush, npop, taken>>

\* pull() and pop() differ only in how they hand the item over.
PopClaim(t) ==
    /\ pc[t] = "idle" /\ npop < MaxPop
    /\ npop' = npop + 1
    /\ index' = [index EXCEPT ![t] = count] /\ count' = count - 1
    /\ pc' = [pc EXCEPT ![t] = IF count < 0 THEN "unpop" ELSE "read"]
    /\ UNCHANGED <<data, item, npush, stored, taken>>

PopFail(t) ==
    /\ pc[t] = "unpop" /\ count' = count + 1
    /\ pc' = [pc EXCEPT ![t] = "idle"]
    /\ UNCHANGED <<data, index, item, npush, npop, stored, taken>>

PopRead(t) ==
    /\ pc[t] = "read"
    /\ taken' = taken \cup {<<IF index[t] < S THEN data[index[t]] ELSE Outside,
                              Cardinality(taken)>>}
    /\ pc' = [pc EXCEPT ![t] = "idle"]
    /\ UNCHANGED <<count, data, index, item, npush, npop, stored>>

StackNext == \E t \in Threads :
    \/ PushClaim(t) \/ PushFail(t) \/ PushWrite(t)
    \/ PopClaim(t) \/ PopFail(t) \/ PopRead(t)

StackSpec == StackInit /\ [][StackNext]_stackVars

-----------------------------------------------------------------------------
In(where) == {t \in Threads : pc[t] = where}

\* push() writes only inside data_, even when pops of an empty stack have made
\* count_ negative, and count_ is exactly the pushes that took a slot less the
\* pops that took one, plus the corrections still to come: the corrections of
\* failed calls never cancel a claim of another thread.
ClaimsBalance ==
    /\ \A t \in In("write") : index[t] \in 0..S-1
    /\ count = (Cardinality(stored) + Cardinality(In("write")) + Cardinality(In("unpush")))
               - (Cardinality(taken) + Cardinality(In("read")) + Cardinality(In("unpop")))

\* What a stack promises: an item that pop() or pull() hands out was pushed, and
\* is handed out once.
PopsWhatWasPushed ==
    /\ \A x \in taken : x[1] \in stored
    /\ \A x, y \in taken : x[1] = y[1] => x = y
=============================================================================
