----------------------------- MODULE DataProofs -----------------------------
(***************************************************************************)
(* Proofs about the classes MCData puts side by side.  Of atomics.hpp:     *)
(* stack_t and dictionary_t used by any number of threads, buffer_t used   *)
(* by a producer and a consumer, and the words sequence_t, once_t and      *)
(* atomic_ref of any width; of memory.hpp: MemPager, MemPool and SharedMem *)
(* with any number of users; hash64_ring over any nodes and hashes; and    *)
(* args with any options and arguments.                                    *)
(***************************************************************************)
EXTENDS MCData, FiniteSetTheorems, WellFoundedInduction, TLAPS

-----------------------------------------------------------------------------
(* stack_t. *)

PcState == {"idle", "write", "unpush", "read", "unpop"}

\* How many threads are at a point of the code.
Count(f, where) == Cardinality({t \in Threads : f[t] = where})

StackTypes ==
    /\ stackCount \in Int /\ npush \in Nat /\ stackPc \in [Threads -> PcState]
    /\ index \in [Threads -> Int] /\ item \in [Threads -> Nat]

\* Every push() under way carries an item of its own, which nobody has stored yet:
\* a write adds one to the items stored.
ItemsDistinct ==
    /\ stored \subseteq 1..npush
    /\ \A t \in Threads : stackPc[t] = "write" => item[t] \in 1..npush /\ item[t] \notin stored
    /\ \A t, u \in Threads : (t # u /\ stackPc[t] = "write" /\ stackPc[u] = "write") => item[t] # item[u]

\* The answers of pop() are numbered: a read adds one to them.
AnswersNumbered == IsFiniteSet(taken) /\ \A x \in taken : x[2] \in Nat /\ x[2] < Cardinality(taken)

StackIInv == StackTypes /\ ItemsDistinct /\ AnswersNumbered /\ Stack!ClaimsBalance

\* Counting means the same in either module.
LEMMA StackCount == \A X : Stack!Cardinality(X) = Cardinality(X) /\ (Stack!IsFiniteSet(X) <=> IsFiniteSet(X))
BY DEF Stack!Cardinality, Cardinality, Stack!IsFiniteSet, IsFiniteSet

\* What ClaimsBalance says before and after a step.
Balanced ==
    stackCount = (Cardinality(stored) + Count(stackPc, "write") + Count(stackPc, "unpush"))
            - (Cardinality(taken) + Count(stackPc, "read") + Count(stackPc, "unpop"))

WritesInside == \A t \in Threads : stackPc[t] = "write" => index[t] \in 0..S-1

LEMMA BalanceMeans ==
    /\ Stack!ClaimsBalance <=> WritesInside /\ Balanced
    /\ Stack!ClaimsBalance' <=> WritesInside' /\ Balanced'
BY StackCount DEF Stack!ClaimsBalance, Stack!In, WritesInside, Balanced, Count

\* A thread that goes from one point of the code to another is counted there instead.
LEMMA StepMoves ==
    ASSUME Stack!StackAssumption, stackPc \in [Threads -> PcState],
           NEW t \in Threads, NEW to \in PcState, stackPc[t] # to, stackPc' = [stackPc EXCEPT ![t] = to]
    PROVE  /\ \A w : Count(stackPc, w) \in Nat /\ Count(stackPc', w) \in Nat
           /\ Count(stackPc', stackPc[t]) = Count(stackPc, stackPc[t]) - 1
           /\ Count(stackPc', to) = Count(stackPc, to) + 1
           /\ \A w : w # stackPc[t] /\ w # to => Count(stackPc', w) = Count(stackPc, w)
<1> DEFINE At(h, w) == {u \in Threads : h[u] = w}
<1>1. IsFiniteSet(Threads)
  BY StackCount DEF Stack!StackAssumption
<1>2. \A h, w : IsFiniteSet(At(h, w)) /\ Cardinality(At(h, w)) \in Nat
  <2> TAKE h, w
  <2>1. At(h, w) \subseteq Threads
    OBVIOUS
  <2> QED BY <1>1, <2>1, FS_Subset, FS_CardinalityType
<1>3. \A u \in Threads : stackPc'[u] = (IF u = t THEN to ELSE stackPc[u])
  OBVIOUS
<1>4. At(stackPc', stackPc[t]) = At(stackPc, stackPc[t]) \ {t} /\ t \in At(stackPc, stackPc[t])
  BY <1>3
<1>5. At(stackPc', to) = At(stackPc, to) \cup {t} /\ t \notin At(stackPc, to)
  BY <1>3
<1>6. \A w : w # stackPc[t] /\ w # to => At(stackPc', w) = At(stackPc, w)
  BY <1>3
<1>7. \A h, w : Count(h, w) = Cardinality(At(h, w))
  BY DEF Count
<1> HIDE DEF At
<1>8. Cardinality(At(stackPc', stackPc[t])) = Cardinality(At(stackPc, stackPc[t])) - 1
  BY <1>2, <1>4, FS_RemoveElement
<1>9. Cardinality(At(stackPc', to)) = Cardinality(At(stackPc, to)) + 1
  BY <1>2, <1>5, FS_AddElement
<1> QED BY <1>2, <1>6, <1>7, <1>8, <1>9

\* The sets of items and of answers are finite.
LEMMA StackCounts ==
    ASSUME StackIInv
    PROVE  /\ IsFiniteSet(stored) /\ Cardinality(stored) \in Nat
           /\ IsFiniteSet(taken) /\ Cardinality(taken) \in Nat
<1>1. IsFiniteSet(1..npush)
  BY FS_Interval DEF StackIInv, StackTypes
<1>2. IsFiniteSet(stored)
  BY <1>1, FS_Subset DEF StackIInv, ItemsDistinct
<1> QED BY <1>2, FS_CardinalityType DEF StackIInv, AnswersNumbered

LEMMA StackInitHolds == ASSUME Stack!StackAssumption, Stack!StackInit PROVE StackIInv
<1>1. StackTypes
  BY DEF Stack!StackInit, StackTypes, PcState, Stack!Unset
<1>2. ItemsDistinct
  BY DEF Stack!StackInit, ItemsDistinct
<1>3. AnswersNumbered
  BY FS_EmptySet DEF Stack!StackInit, AnswersNumbered
<1>4. WritesInside
  BY DEF Stack!StackInit, WritesInside
<1>5. Balanced
  <2>1. \A w : w # "idle" => Count(stackPc, w) = 0
    <3> SUFFICES ASSUME NEW w, w # "idle" PROVE Count(stackPc, w) = 0
      OBVIOUS
    <3>1. {t \in Threads : stackPc[t] = w} = {}
      BY DEF Stack!StackInit
    <3> QED BY <3>1, FS_EmptySet DEF Count
  <2>2. Cardinality(stored) = 0 /\ Cardinality(taken) = 0 /\ stackCount = 0
    BY FS_EmptySet DEF Stack!StackInit
  <2>3. Count(stackPc, "write") = 0 /\ Count(stackPc, "unpush") = 0 /\ Count(stackPc, "read") = 0 /\ Count(stackPc, "unpop") = 0
    BY <2>1
  <2> QED BY <2>2, <2>3 DEF Balanced
<1> QED BY <1>1, <1>2, <1>3, <1>4, <1>5, BalanceMeans DEF StackIInv

\* push() claims an index: the comparison with S lets only those of data_ through.
LEMMA PushClaimStep ==
    ASSUME Stack!StackAssumption, StackIInv, NEW t \in Threads, Stack!PushClaim(t)
    PROVE  StackIInv'
<1>1. PICK to \in {"unpush", "write"} : to = IF Stack!AtLeastS(stackCount) THEN "unpush" ELSE "write"
  OBVIOUS
<1>2. /\ stackPc[t] = "idle" /\ stackPc' = [stackPc EXCEPT ![t] = to] /\ npush' = npush + 1
      /\ item' = [item EXCEPT ![t] = npush + 1] /\ index' = [index EXCEPT ![t] = stackCount] /\ stackCount' = stackCount + 1
      /\ UNCHANGED <<stored, taken>>
  BY <1>1 DEF Stack!PushClaim
<1>3. /\ stackPc \in [Threads -> PcState] /\ npush \in Nat /\ stackCount \in Int
      /\ index \in [Threads -> Int] /\ item \in [Threads -> Nat]
  BY DEF StackIInv, StackTypes
<1>4. /\ \A u \in Threads : stackPc'[u] = (IF u = t THEN to ELSE stackPc[u])
      /\ \A u \in Threads : item'[u] = (IF u = t THEN npush + 1 ELSE item[u])
      /\ \A u \in Threads : index'[u] = (IF u = t THEN stackCount ELSE index[u])
  BY <1>2, <1>3
<1>5. StackTypes'
  <2>1. to \in PcState
    BY DEF PcState
  <2> QED BY <1>2, <1>3, <2>1 DEF StackTypes
<1>6. ItemsDistinct'
  <2>1. stored' \subseteq 1..npush'
    BY <1>2, <1>3 DEF StackIInv, ItemsDistinct
  <2>2. npush + 1 \notin stored /\ npush + 1 \in 1..npush' /\ \A i \in 1..npush : i \in 1..npush' /\ i # npush + 1
    BY <1>2, <1>3 DEF StackIInv, ItemsDistinct
  <2> QED BY <1>2, <1>4, <2>1, <2>2 DEF StackIInv, ItemsDistinct
<1>7. AnswersNumbered'
  BY <1>2 DEF StackIInv, AnswersNumbered
<1>8. WritesInside'
  <2>1. to = "write" => stackCount \in 0..S-1
    BY <1>1, <1>3 DEF Stack!AtLeastS, Stack!StackAssumption
  <2> QED BY <1>4, <2>1, BalanceMeans DEF StackIInv, WritesInside
<1>9. Balanced'
  <2>1. /\ \A w : Count(stackPc, w) \in Nat /\ Count(stackPc', w) \in Nat
        /\ Count(stackPc', to) = Count(stackPc, to) + 1 /\ \A w : w # "idle" /\ w # to => Count(stackPc', w) = Count(stackPc, w)
    <3>1. to \in PcState /\ stackPc[t] # to
      BY <1>2 DEF PcState
    <3> QED BY <1>2, <1>3, <3>1, StepMoves
  <2>2. Balanced
    BY BalanceMeans DEF StackIInv
  <2>3. CASE to = "write"
    <3>1. Count(stackPc', "write") = Count(stackPc, "write") + 1 /\ Count(stackPc', "unpush") = Count(stackPc, "unpush")
          /\ Count(stackPc', "read") = Count(stackPc, "read") /\ Count(stackPc', "unpop") = Count(stackPc, "unpop")
      BY <2>1, <2>3
    <3> QED BY <1>2, <2>1, <2>2, <3>1, StackCounts DEF Balanced
  <2>4. CASE to = "unpush"
    <3>1. Count(stackPc', "write") = Count(stackPc, "write") /\ Count(stackPc', "unpush") = Count(stackPc, "unpush") + 1
          /\ Count(stackPc', "read") = Count(stackPc, "read") /\ Count(stackPc', "unpop") = Count(stackPc, "unpop")
      BY <2>1, <2>4
    <3> QED BY <1>2, <2>1, <2>2, <3>1, StackCounts DEF Balanced
  <2> QED BY <2>3, <2>4
<1> QED BY <1>5, <1>6, <1>7, <1>8, <1>9, BalanceMeans DEF StackIInv

\* pop() and pull() claim an index.
LEMMA PopClaimStep ==
    ASSUME Stack!StackAssumption, StackIInv, NEW t \in Threads, Stack!PopClaim(t)
    PROVE  StackIInv'
<1>1. PICK to \in {"unpop", "read"} : to = IF stackCount < 0 THEN "unpop" ELSE "read"
  OBVIOUS
<1>2. /\ stackPc[t] = "idle" /\ stackPc' = [stackPc EXCEPT ![t] = to]
      /\ index' = [index EXCEPT ![t] = stackCount] /\ stackCount' = stackCount - 1
      /\ UNCHANGED <<stored, taken, npush, item>>
  BY <1>1 DEF Stack!PopClaim
<1>3. /\ stackPc \in [Threads -> PcState] /\ npush \in Nat /\ stackCount \in Int
      /\ index \in [Threads -> Int] /\ item \in [Threads -> Nat]
  BY DEF StackIInv, StackTypes
<1>4. /\ \A u \in Threads : stackPc'[u] = (IF u = t THEN to ELSE stackPc[u])
      /\ \A u \in Threads : index'[u] = (IF u = t THEN stackCount ELSE index[u])
  BY <1>2, <1>3
<1>5. StackTypes'
  <2>1. to \in PcState
    BY DEF PcState
  <2> QED BY <1>2, <1>3, <2>1 DEF StackTypes
<1>6. ItemsDistinct' /\ AnswersNumbered'
  BY <1>2, <1>4 DEF StackIInv, ItemsDistinct, AnswersNumbered
<1>7. WritesInside'
  BY <1>4, BalanceMeans DEF StackIInv, WritesInside
<1>8. Balanced'
  <2>1. /\ \A w : Count(stackPc, w) \in Nat /\ Count(stackPc', w) \in Nat
        /\ Count(stackPc', to) = Count(stackPc, to) + 1 /\ \A w : w # "idle" /\ w # to => Count(stackPc', w) = Count(stackPc, w)
    <3>1. to \in PcState /\ stackPc[t] # to
      BY <1>2 DEF PcState
    <3> QED BY <1>2, <1>3, <3>1, StepMoves
  <2>2. Balanced
    BY BalanceMeans DEF StackIInv
  <2>3. CASE to = "read"
    <3>1. Count(stackPc', "write") = Count(stackPc, "write") /\ Count(stackPc', "unpush") = Count(stackPc, "unpush")
          /\ Count(stackPc', "read") = Count(stackPc, "read") + 1 /\ Count(stackPc', "unpop") = Count(stackPc, "unpop")
      BY <2>1, <2>3
    <3> QED BY <1>2, <2>1, <2>2, <3>1, StackCounts DEF Balanced
  <2>4. CASE to = "unpop"
    <3>1. Count(stackPc', "write") = Count(stackPc, "write") /\ Count(stackPc', "unpush") = Count(stackPc, "unpush")
          /\ Count(stackPc', "read") = Count(stackPc, "read") /\ Count(stackPc', "unpop") = Count(stackPc, "unpop") + 1
      BY <2>1, <2>4
    <3> QED BY <1>2, <2>1, <2>2, <3>1, StackCounts DEF Balanced
  <2> QED BY <2>3, <2>4
<1> QED BY <1>5, <1>6, <1>7, <1>8, BalanceMeans DEF StackIInv

\* A call that failed takes its claim back.
LEMMA FailStep ==
    ASSUME Stack!StackAssumption, StackIInv, NEW t \in Threads, Stack!PushFail(t) \/ Stack!PopFail(t)
    PROVE  StackIInv'
<1>1. PICK from \in {"unpush", "unpop"} :
          /\ stackPc[t] = from /\ stackPc' = [stackPc EXCEPT ![t] = "idle"]
          /\ stackCount' = (IF from = "unpush" THEN stackCount - 1 ELSE stackCount + 1)
          /\ UNCHANGED <<index, item, npush, stored, taken>>
  BY DEF Stack!PushFail, Stack!PopFail
<1>2. /\ stackPc \in [Threads -> PcState] /\ npush \in Nat /\ stackCount \in Int
      /\ index \in [Threads -> Int] /\ item \in [Threads -> Nat]
  BY DEF StackIInv, StackTypes
<1>3. \A u \in Threads : stackPc'[u] = (IF u = t THEN "idle" ELSE stackPc[u])
  BY <1>1, <1>2
<1>4. StackTypes'
  <2>1. "idle" \in PcState
    BY DEF PcState
  <2>2. stackCount' \in Int
    BY <1>1, <1>2
  <2> QED BY <1>1, <1>2, <2>1, <2>2 DEF StackTypes
<1>5. ItemsDistinct' /\ AnswersNumbered'
  BY <1>1, <1>3 DEF StackIInv, ItemsDistinct, AnswersNumbered
<1>6. WritesInside'
  BY <1>1, <1>3, BalanceMeans DEF StackIInv, WritesInside
<1>7. Balanced'
  <2>1. /\ \A w : Count(stackPc, w) \in Nat /\ Count(stackPc', w) \in Nat
        /\ Count(stackPc', from) = Count(stackPc, from) - 1 /\ \A w : w # "idle" /\ w # from => Count(stackPc', w) = Count(stackPc, w)
    BY <1>1, <1>2, StepMoves DEF PcState
  <2>2. Balanced
    BY BalanceMeans DEF StackIInv
  <2>3. CASE from = "unpush"
    <3>1. Count(stackPc', "write") = Count(stackPc, "write") /\ Count(stackPc', "unpush") = Count(stackPc, "unpush") - 1
          /\ Count(stackPc', "read") = Count(stackPc, "read") /\ Count(stackPc', "unpop") = Count(stackPc, "unpop")
      BY <2>1, <2>3
    <3> QED BY <1>1, <2>1, <2>2, <2>3, <3>1, StackCounts DEF Balanced
  <2>4. CASE from = "unpop"
    <3>1. Count(stackPc', "write") = Count(stackPc, "write") /\ Count(stackPc', "unpush") = Count(stackPc, "unpush")
          /\ Count(stackPc', "read") = Count(stackPc, "read") /\ Count(stackPc', "unpop") = Count(stackPc, "unpop") - 1
      BY <2>1, <2>4
    <3> QED BY <1>1, <2>1, <2>2, <2>4, <3>1, StackCounts DEF Balanced
  <2> QED BY <2>3, <2>4
<1> QED BY <1>4, <1>5, <1>6, <1>7, BalanceMeans DEF StackIInv

\* push() writes its slot: one more item is stored, one thread less is about to.
LEMMA PushWriteStep ==
    ASSUME Stack!StackAssumption, StackIInv, NEW t \in Threads, Stack!PushWrite(t)
    PROVE  StackIInv'
<1>1. /\ stackPc[t] = "write" /\ stackPc' = [stackPc EXCEPT ![t] = "idle"] /\ stored' = stored \cup {item[t]}
      /\ UNCHANGED <<stackCount, index, item, npush, taken>>
  BY DEF Stack!PushWrite
<1>2. /\ stackPc \in [Threads -> PcState] /\ npush \in Nat /\ stackCount \in Int
      /\ index \in [Threads -> Int] /\ item \in [Threads -> Nat]
  BY DEF StackIInv, StackTypes
<1>3. \A u \in Threads : stackPc'[u] = (IF u = t THEN "idle" ELSE stackPc[u])
  BY <1>1, <1>2
<1>4. StackTypes'
  <2>1. "idle" \in PcState
    BY DEF PcState
  <2> QED BY <1>1, <1>2, <2>1 DEF StackTypes
<1>5. ItemsDistinct' /\ AnswersNumbered'
  <2>1. item[t] \in 1..npush /\ \A u \in Threads : u # t /\ stackPc[u] = "write" => item[u] # item[t]
    BY <1>1 DEF StackIInv, ItemsDistinct
  <2>2. stored' \subseteq 1..npush'
    BY <1>1, <2>1 DEF StackIInv, ItemsDistinct
  <2>3. \A u \in Threads : stackPc'[u] = "write" => item'[u] \in 1..npush' /\ item'[u] \notin stored'
    BY <1>1, <1>3, <2>1 DEF StackIInv, ItemsDistinct
  <2>4. \A u, v \in Threads : (u # v /\ stackPc'[u] = "write" /\ stackPc'[v] = "write") => item'[u] # item'[v]
    BY <1>1, <1>3 DEF StackIInv, ItemsDistinct
  <2>5. AnswersNumbered'
    BY <1>1 DEF StackIInv, AnswersNumbered
  <2> QED BY <2>2, <2>3, <2>4, <2>5 DEF ItemsDistinct
<1>6. WritesInside'
  BY <1>1, <1>3, BalanceMeans DEF StackIInv, WritesInside
<1>7. Balanced'
  <2>1. /\ \A w : Count(stackPc, w) \in Nat /\ Count(stackPc', w) \in Nat
        /\ Count(stackPc', "write") = Count(stackPc, "write") - 1 /\ \A w : w # "idle" /\ w # "write" => Count(stackPc', w) = Count(stackPc, w)
    BY <1>1, <1>2, StepMoves DEF PcState
  <2>2. Balanced
    BY BalanceMeans DEF StackIInv
  <2>3. item[t] \notin stored
    BY <1>1 DEF StackIInv, ItemsDistinct
  <2>4. Cardinality(stored') = Cardinality(stored) + 1
    BY <1>1, <2>3, StackCounts, FS_AddElement
  <2>5. Count(stackPc', "unpush") = Count(stackPc, "unpush") /\ Count(stackPc', "read") = Count(stackPc, "read")
        /\ Count(stackPc', "unpop") = Count(stackPc, "unpop")
    BY <2>1
  <2> QED BY <1>1, <2>1, <2>2, <2>4, <2>5, StackCounts DEF Balanced
<1> QED BY <1>4, <1>5, <1>6, <1>7, BalanceMeans DEF StackIInv

\* pop() reads its slot: one more answer, one thread less about to give one.
LEMMA PopReadStep ==
    ASSUME Stack!StackAssumption, StackIInv, NEW t \in Threads, Stack!PopRead(t)
    PROVE  StackIInv'
<1>1. PICK v : taken' = taken \cup {<<v, Cardinality(taken)>>}
  BY StackCount DEF Stack!PopRead
<1>2. /\ stackPc[t] = "read" /\ stackPc' = [stackPc EXCEPT ![t] = "idle"]
      /\ UNCHANGED <<stackCount, index, item, npush, stored>>
  BY DEF Stack!PopRead
<1>3. /\ stackPc \in [Threads -> PcState] /\ npush \in Nat /\ stackCount \in Int
      /\ index \in [Threads -> Int] /\ item \in [Threads -> Nat]
  BY DEF StackIInv, StackTypes
<1>4. \A u \in Threads : stackPc'[u] = (IF u = t THEN "idle" ELSE stackPc[u])
  BY <1>2, <1>3
<1>5. StackTypes'
  <2>1. "idle" \in PcState
    BY DEF PcState
  <2> QED BY <1>2, <1>3, <2>1 DEF StackTypes
<1>6. ItemsDistinct'
  BY <1>2, <1>4 DEF StackIInv, ItemsDistinct
<1>7. IsFiniteSet(taken') /\ Cardinality(taken') = Cardinality(taken) + 1
  <2>1. <<v, Cardinality(taken)>> \notin taken
    BY StackCounts DEF StackIInv, AnswersNumbered
  <2> QED BY <1>1, <2>1, StackCounts, FS_AddElement
<1>8. AnswersNumbered'
  <2>1. \A x \in taken' : x \in taken \/ x[2] = Cardinality(taken)
    BY <1>1
  <2> QED BY <1>7, <2>1, StackCounts DEF StackIInv, AnswersNumbered
<1>9. WritesInside'
  BY <1>2, <1>4, BalanceMeans DEF StackIInv, WritesInside
<1>10. Balanced'
  <2>1. /\ \A w : Count(stackPc, w) \in Nat /\ Count(stackPc', w) \in Nat
        /\ Count(stackPc', "read") = Count(stackPc, "read") - 1 /\ \A w : w # "idle" /\ w # "read" => Count(stackPc', w) = Count(stackPc, w)
    BY <1>2, <1>3, StepMoves DEF PcState
  <2>2. Balanced
    BY BalanceMeans DEF StackIInv
  <2>3. Count(stackPc', "unpush") = Count(stackPc, "unpush") /\ Count(stackPc', "write") = Count(stackPc, "write")
        /\ Count(stackPc', "unpop") = Count(stackPc, "unpop")
    BY <2>1
  <2> QED BY <1>2, <1>7, <2>1, <2>2, <2>3, StackCounts DEF Balanced
<1> QED BY <1>5, <1>6, <1>8, <1>9, <1>10, BalanceMeans DEF StackIInv

\* push() of a stack_t writes only inside data_, however far failing pops have taken
\* count_ below zero, and count_ is the claims that succeeded less the corrections
\* still to come, for any number of threads and calls.
THEOREM StackClaims ==
    ASSUME Stack!StackAssumption PROVE Stack!StackSpec => []Stack!ClaimsBalance
<1>1. Stack!StackInit => StackIInv
  BY StackInitHolds
<1>2. StackIInv /\ [Stack!StackNext]_Stack!stackVars => StackIInv'
  <2> SUFFICES ASSUME StackIInv, [Stack!StackNext]_Stack!stackVars PROVE StackIInv'
    OBVIOUS
  <2>1. CASE Stack!StackNext
    BY <2>1, PushClaimStep, PopClaimStep, FailStep, PushWriteStep, PopReadStep DEF Stack!StackNext
  <2>2. CASE UNCHANGED Stack!stackVars
    <3>1. UNCHANGED <<stackCount, stackPc, index, item, npush, stored, taken>>
      BY <2>2 DEF Stack!stackVars
    <3>2. StackTypes' /\ ItemsDistinct' /\ AnswersNumbered'
      BY <3>1 DEF StackIInv, StackTypes, ItemsDistinct, AnswersNumbered
    <3>3. WritesInside' /\ Balanced'
      BY <3>1, BalanceMeans DEF StackIInv, WritesInside, Balanced, Count
    <3> QED BY <3>2, <3>3, BalanceMeans DEF StackIInv
  <2> QED BY <2>1, <2>2
<1>3. StackIInv => Stack!ClaimsBalance
  BY DEF StackIInv
<1> QED BY <1>1, <1>2, <1>3, PTL DEF Stack!StackSpec

-----------------------------------------------------------------------------
(* buffer_t.  pull() and pop() never store head_, so that the slot they     *)
(* deliver is slot 0: the strengthening says when it has been filled.       *)

BufferTypes ==
    /\ tail \in Nat /\ ptail \in Nat /\ ctail \in Nat
    /\ bufferData \in [0..BufferS-1 -> Nat]
    /\ pushed \in Seq(Nat) /\ pulled \in Seq(Nat)

HeadNeverMoves == head = 0 /\ chead = 0

\* A tail other than the first one, wherever a copy of it is, comes from a push().
FirstSlotFilled == (tail # 0 \/ ptail # 0 \/ ctail # 0 \/ cpc = "store") => bufferData[0] # 0

BufferIInv == BufferTypes /\ HeadNeverMoves /\ FirstSlotFilled /\ Buffer!DeliversWritten

LEMMA BufferStarts == ASSUME Buffer!BufferAssumption, Buffer!BufferInit PROVE BufferIInv
<1>1. BufferTypes
  BY DEF Buffer!BufferAssumption, Buffer!BufferInit, Buffer!Unset, BufferTypes
<1>2. HeadNeverMoves /\ FirstSlotFilled /\ Buffer!DeliversWritten
  BY DEF Buffer!BufferInit, HeadNeverMoves, FirstSlotFilled, Buffer!DeliversWritten
<1> QED BY <1>1, <1>2 DEF BufferIInv

LEMMA AfterIsNat == ASSUME Buffer!BufferAssumption PROVE \A i \in Nat : Buffer!After(i) \in Nat
BY DEF Buffer!BufferAssumption, Buffer!After

\* An item that is not the unset slot keeps DeliversWritten.
LEMMA DeliversOneMore ==
    ASSUME NEW x \in Nat, x # 0, pulled \in Seq(Nat), Buffer!DeliversWritten, pulled' = Append(pulled, x)
    PROVE  pulled' \in Seq(Nat) /\ Buffer!DeliversWritten'
<1>1. \A i \in 1..Len(pulled) : pulled'[i] = pulled[i]
  OBVIOUS
<1>2. Len(pulled') = Len(pulled) + 1 /\ pulled'[Len(pulled) + 1] = x /\ Len(pulled) \in Nat
  OBVIOUS
<1>3. pulled' \in Seq(Nat)
  OBVIOUS
<1>4. ASSUME NEW i \in 1..Len(pulled') PROVE pulled'[i] # 0
  <2>1. i \in 1..Len(pulled) \/ i = Len(pulled) + 1
    BY <1>2
  <2> QED BY <2>1, <1>1, <1>2 DEF Buffer!DeliversWritten, Buffer!Unset
<1> QED BY <1>3, <1>4 DEF Buffer!DeliversWritten, Buffer!Unset

LEMMA BufferStep ==
    ASSUME Buffer!BufferAssumption, BufferIInv, [Buffer!BufferNext]_Buffer!bufferVars
    PROVE  BufferIInv'
<1> USE DEF BufferIInv
<1>1. CASE Buffer!PushLoad
  BY <1>1 DEF Buffer!PushLoad, BufferTypes, HeadNeverMoves, FirstSlotFilled, Buffer!DeliversWritten
<1>2. CASE Buffer!PushCheck
  BY <1>2 DEF Buffer!PushCheck, BufferTypes, HeadNeverMoves, FirstSlotFilled, Buffer!DeliversWritten
<1>3. CASE Buffer!PushStore
  <2>1. PICK n \in Nat : n = Len(pushed) + 1 /\ n # 0
    BY DEF BufferTypes
  <2>2. pushed' = Append(pushed, n) /\ bufferData' = [bufferData EXCEPT ![ptail] = n]
    BY <1>3, <2>1 DEF Buffer!PushStore
  <2>3. BufferTypes'
    <3>1. bufferData' \in [0..BufferS-1 -> Nat]
      BY <2>1, <2>2 DEF BufferTypes
    <3>2. pushed' \in Seq(Nat)
      BY <2>1, <2>2 DEF BufferTypes
    <3>3. tail' \in Nat
      BY <1>3, AfterIsNat DEF Buffer!PushStore, BufferTypes
    <3> QED BY <3>1, <3>2, <3>3, <1>3 DEF Buffer!PushStore, BufferTypes
  <2>4. 0 \in 0..BufferS-1
    BY DEF Buffer!BufferAssumption
  <2>5. bufferData'[0] # 0
    <3>1. CASE ptail = 0
      BY <3>1, <2>1, <2>2, <2>4 DEF BufferTypes
    <3>2. CASE ptail # 0
      BY <3>2, <2>2, <2>4 DEF BufferTypes, FirstSlotFilled
    <3> QED BY <3>1, <3>2
  <2> QED BY <2>3, <2>5, <1>3 DEF Buffer!PushStore, HeadNeverMoves, FirstSlotFilled, Buffer!DeliversWritten
<1>4. CASE Buffer!PullLoad
  BY <1>4 DEF Buffer!PullLoad, BufferTypes, HeadNeverMoves, FirstSlotFilled, Buffer!DeliversWritten
<1>5. CASE Buffer!PullCheck
  BY <1>5 DEF Buffer!PullCheck, BufferTypes, HeadNeverMoves, FirstSlotFilled, Buffer!DeliversWritten
<1>6. CASE Buffer!PullStore
  <2>1. bufferData[0] # 0 /\ 0 \in 0..BufferS-1
    BY <1>6 DEF Buffer!PullStore, FirstSlotFilled, Buffer!BufferAssumption
  <2>2. PICK x \in Nat : x = bufferData[0]
    BY <2>1 DEF BufferTypes
  <2>3. pulled' = Append(pulled, x) /\ x # 0
    BY <1>6, <2>1, <2>2 DEF Buffer!PullStore, HeadNeverMoves
  <2>4. pulled' \in Seq(Nat) /\ Buffer!DeliversWritten'
    BY <2>3, DeliversOneMore DEF BufferTypes
  <2> QED BY <2>1, <2>4, <1>6 DEF Buffer!PullStore, BufferTypes, HeadNeverMoves, FirstSlotFilled
<1>7. CASE Buffer!PopStore
  <2>1. bufferData[0] # 0
    BY <1>7 DEF Buffer!PopStore, FirstSlotFilled
  <2>2. Buffer!After(chead) \in Nat
    BY AfterIsNat DEF HeadNeverMoves
  <2>3. PICK x \in Nat : x = Buffer!AsItem(Buffer!After(chead)) /\ x # 0
    BY <2>2 DEF Buffer!AsItem, Buffer!BufferAssumption
  <2>4. pulled' = Append(pulled, x)
    BY <1>7, <2>3 DEF Buffer!PopStore
  <2>5. pulled' \in Seq(Nat) /\ Buffer!DeliversWritten'
    BY <2>3, <2>4, DeliversOneMore DEF BufferTypes
  <2> QED BY <2>1, <2>5, <1>7 DEF Buffer!PopStore, BufferTypes, HeadNeverMoves, FirstSlotFilled
<1>8. CASE UNCHANGED Buffer!bufferVars
  BY <1>8 DEF Buffer!bufferVars, BufferTypes, HeadNeverMoves, FirstSlotFilled, Buffer!DeliversWritten
<1> QED BY <1>1, <1>2, <1>3, <1>4, <1>5, <1>6, <1>7, <1>8 DEF Buffer!BufferNext

\* pull() never delivers a slot that no push() has filled, whatever the size of the
\* buffer, and although the consumer puts old values of tail_ back.
THEOREM BufferDelivers ==
    ASSUME Buffer!BufferAssumption PROVE Buffer!BufferSpec => []Buffer!DeliversWritten
<1>1. Buffer!BufferInit => BufferIInv
  BY BufferStarts
<1>2. BufferIInv /\ [Buffer!BufferNext]_Buffer!bufferVars => BufferIInv'
  BY BufferStep
<1>3. BufferIInv => Buffer!DeliversWritten
  BY DEF BufferIInv
<1> QED BY <1>1, <1>2, <1>3, PTL DEF Buffer!BufferSpec

-----------------------------------------------------------------------------
(* Side by side. *)

\* Whatever is in focus, each container sees a step of its own or none.
LEMMA StepOfEach ==
    ASSUME [DataNext]_<<focus, dataV>>
    PROVE  /\ [Stack!StackNext]_(Stack!stackVars) /\ [Buffer!BufferNext]_(Buffer!bufferVars)
           /\ [Word!WordNext]_(Word!wordVars)
<1> USE DEF dataV, wordV, stackV, bufferV, Stack!stackVars, Buffer!bufferVars, Word!wordVars
<1>1. CASE UNCHANGED <<focus, dataV>>
  BY <1>1
<1>2. CASE DataNext
  BY <1>2 DEF DataNext
<1> QED BY <1>1, <1>2

\* Failed calls of stack_t cancel nobody's claim, nothing is written outside the array,
\* and buffer_t delivers only slots that were written, for every number of threads and
\* every size.
THEOREM ContainersCorrect == DataSpec => []ClaimsBalance
<1>1. Stack!StackAssumption /\ Buffer!BufferAssumption
  BY DataAssumption
<1>2. DataInit => Stack!StackInit /\ Buffer!BufferInit
  BY DEF DataInit
<1>3. DataSpec => Stack!StackSpec /\ Buffer!BufferSpec
  BY <1>2, StepOfEach, PTL DEF DataSpec, Stack!StackSpec, Buffer!BufferSpec
<1> QED BY <1>1, <1>3, StackClaims, BufferDelivers, PTL DEF ClaimsBalance

-----------------------------------------------------------------------------
(* The words.  Arithmetic is modulo 2^Width, which is kept a name. *)

Modulus == 2 ^ Width

LEMMA ModulusFacts ==
    /\ Modulus \in Nat /\ Modulus > 2
    /\ \A n : Word!Wrap(n) = n % Modulus
BY DataAssumption DEF Word!WordAssumption, Word!Wrap, Modulus

\* The remainder of what a step up or down can make of a word.
LEMMA WrapNear ==
    ASSUME NEW m \in Nat, m > 2
    PROVE  \A n \in -1..m : n % m = IF n = -1 THEN m - 1 ELSE IF n < m THEN n ELSE 0
OBVIOUS

LEMMA RemainderIs ==
    ASSUME NEW m \in Nat, m > 2, NEW q \in Int, NEW r \in 0..m-1
    PROVE  (m * q + r) % m = r
OBVIOUS

LEMMA ElementIn == ASSUME NEW W, NEW s \in Seq(W), NEW i \in 1..Len(s) PROVE s[i] \in W
OBVIOUS

\* The value k increments after a, for k below the modulus.
Turned(a, k) == IF a + k < Modulus THEN a + k ELSE (a + k) - Modulus

WordTypes ==
    /\ focus \in Words /\ cell \in 0..Modulus-1 /\ local \in [Threads -> 0..Modulus-1]
    /\ wordPc \in [Threads -> {"idle", "store", "cas"}]
    /\ drawn \in Seq(0..Modulus-1) /\ wins \in Nat /\ resets \in Nat /\ net \in Int

\* Only a sequence_t draws and is copied into, and only an atomic_ref is compared.
KindsKept ==
    /\ drawn # <<>> => focus = "sequence"
    /\ \A t \in Threads : wordPc[t] = "store" => focus = "sequence"
    /\ \A t \in Threads : wordPc[t] = "cas" => focus = "ref"

\* Every draw is as many increments after an earlier one as lie between them, and so is
\* the word: this, not that the draws differ, is what an increment preserves.
DrawnInTurn ==
    /\ \A i \in 1..Len(drawn) : (Len(drawn) + 1) - i < Modulus => cell = Turned(drawn[i], (Len(drawn) + 1) - i)
    /\ \A i, j \in 1..Len(drawn) : (i < j /\ j - i < Modulus) => drawn[j] = Turned(drawn[i], j - i)

WinsBounded == wins + (IF focus = "once" THEN cell ELSE 0) <= resets + 1

\* The net sum without its turns.
NetIsCell == focus = "ref" => \E q \in Int : net = Modulus * q + cell

WordIInv == WordTypes /\ KindsKept /\ DrawnInTurn /\ WinsBounded /\ NetIsCell

LEMMA WordImplied == WordIInv => Word!TicketsUnique /\ Word!WordKept
<1> SUFFICES ASSUME WordIInv PROVE Word!TicketsUnique /\ Word!WordKept
  OBVIOUS
<1> USE DEF WordIInv
<1>1. Word!TicketsUnique
  <2> SUFFICES ASSUME NEW i \in 1..Len(drawn), NEW j \in 1..Len(drawn), i < j, j - i < Modulus
               PROVE  drawn[i] # drawn[j]
    BY DEF Word!TicketsUnique, Modulus
  <2>1. drawn \in Seq(0..Modulus-1) /\ Len(drawn) \in Nat
    BY DEF WordTypes
  <2>2. drawn[i] \in 0..Modulus-1
    BY <2>1, ElementIn
  <2>3. j - i \in Nat /\ j - i > 0
    BY <2>1
  <2>4. drawn[j] = Turned(drawn[i], j - i)
    BY DEF DrawnInTurn
  <2> QED BY <2>2, <2>3, <2>4, ModulusFacts DEF Turned
<1>2. focus = "ref" => cell = Word!Wrap(net)
  BY ModulusFacts, RemainderIs DEF NetIsCell, WordTypes
<1> QED BY <1>1, <1>2 DEF Word!WordKept, WinsBounded

LEMMA WordStarts == ASSUME focus \in Words, Word!WordInit PROVE WordIInv
<1>1. WordTypes
  BY ModulusFacts DEF Word!WordInit, WordTypes
<1>2. KindsKept /\ DrawnInTurn
  BY DEF Word!WordInit, KindsKept, DrawnInTurn
<1>3. WinsBounded
  BY DEF Word!WordInit, WinsBounded
<1>4. NetIsCell
  <2>1. focus = "ref" => net = Modulus * 0 + cell
    BY ModulusFacts DEF Word!WordInit
  <2> QED BY <2>1 DEF NetIsCell
<1> QED BY <1>1, <1>2, <1>3, <1>4 DEF WordIInv

\* operator* : the word is drawn and goes one further.
LEMMA DrawKeeps == ASSUME WordIInv, NEW t \in Threads, Word!Draw(t) PROVE WordIInv'
<1> USE DEF WordIInv
<1>1. /\ focus = "sequence" /\ focus' = focus /\ drawn' = Append(drawn, cell)
      /\ UNCHANGED <<wordPc, local, wins, resets, net>>
  BY DEF Word!Draw, Word!Begin
<1>2. cell' = Turned(cell, 1) /\ cell' \in 0..Modulus-1 /\ cell \in 0..Modulus-1
  <2>1. cell \in 0..Modulus-1 /\ cell + 1 \in -1..Modulus
    BY ModulusFacts DEF WordTypes
  <2>2. cell' = (cell + 1) % Modulus
    BY ModulusFacts DEF Word!Draw
  <2>3. cell' = IF cell + 1 < Modulus THEN cell + 1 ELSE 0
    BY <2>1, <2>2, ModulusFacts, WrapNear
  <2> QED BY <2>1, <2>3, ModulusFacts DEF Turned
<1>3. PICK n \in Nat : n = Len(drawn)
  BY DEF WordTypes
<1>4. drawn' \in Seq(0..Modulus-1) /\ Len(drawn') = n + 1
  BY <1>1, <1>2, <1>3 DEF WordTypes
<1>5. /\ \A i \in 1..n : drawn'[i] = drawn[i] /\ drawn[i] \in 0..Modulus-1
      /\ drawn'[n + 1] = cell
  <2>1. drawn \in Seq(0..Modulus-1)
    BY DEF WordTypes
  <2>2. \A i \in 1..n : drawn[i] \in 0..Modulus-1
    BY <1>3, <2>1, ElementIn
  <2>3. (\A i \in 1..n : Append(drawn, cell)[i] = drawn[i]) /\ Append(drawn, cell)[n + 1] = cell
    BY <1>2, <1>3, <2>1
  <2> QED BY <1>1, <2>2, <2>3
<1>6. \A i \in 1..n : (n + 1) - i < Modulus => cell = Turned(drawn[i], (n + 1) - i)
  BY <1>3 DEF DrawnInTurn
<1>7. ASSUME NEW i \in 1..n+1, (n + 2) - i < Modulus PROVE cell' = Turned(drawn'[i], (n + 2) - i)
  <2>1. CASE i = n + 1
    BY <1>2, <1>3, <1>5, <2>1
  <2>2. CASE i # n + 1
    <3>1. i \in 1..n /\ (n + 1) - i < Modulus /\ (n + 1) - i \in Nat
      BY <1>7, <2>2, ModulusFacts
    <3>2. drawn'[i] \in 0..Modulus-1 /\ cell = Turned(drawn'[i], (n + 1) - i)
      BY <1>5, <1>6, <3>1
    <3> QED BY <1>2, <1>7, <3>1, <3>2, ModulusFacts DEF Turned
  <2> QED BY <2>1, <2>2
<1>8. ASSUME NEW i \in 1..n+1, NEW j \in 1..n+1, i < j, j - i < Modulus
      PROVE  drawn'[j] = Turned(drawn'[i], j - i)
  <2>1. i \in 1..n
    BY <1>8
  <2>2. CASE j = n + 1
    BY <1>5, <1>6, <1>8, <2>1, <2>2
  <2>3. CASE j # n + 1
    <3>1. j \in 1..n
      BY <2>3
    <3> QED BY <1>3, <1>5, <1>8, <2>1, <3>1 DEF DrawnInTurn
  <2> QED BY <2>2, <2>3
<1>9. DrawnInTurn'
  <2>1. (Len(drawn) + 1)' = n + 2
    BY <1>4
  <2> QED BY <1>4, <1>7, <1>8, <2>1 DEF DrawnInTurn
<1> QED BY <1>1, <1>2, <1>4, <1>9 DEF WordTypes, KindsKept, WinsBounded, NetIsCell

\* set(), and the load and store of a copy.
LEMMA StoreKeeps ==
    ASSUME WordIInv, NEW t \in Threads,
           \/ \E v \in {0, 2 ^ Width - 1} : Word!SetSequence(t, v)
           \/ Word!CopyLoad(t) \/ Word!CopyStore(t)
    PROVE  WordIInv'
<1> USE DEF WordIInv
<1>1. ASSUME NEW v \in {0, 2 ^ Width - 1}, Word!SetSequence(t, v) PROVE WordIInv'
  <2>1. v \in 0..Modulus-1
    BY ModulusFacts DEF Modulus
  <2> QED BY <1>1, <2>1 DEF Word!SetSequence, Word!Begin, WordTypes, KindsKept, DrawnInTurn, WinsBounded, NetIsCell
<1>2. CASE Word!CopyLoad(t)
  <2>1. PICK v \in 0..Modulus-1 : local' = [local EXCEPT ![t] = v]
    BY <1>2 DEF Word!CopyLoad, Modulus
  <2> QED BY <1>2, <2>1 DEF Word!CopyLoad, Word!Begin, WordTypes, KindsKept, DrawnInTurn, WinsBounded, NetIsCell
<1>3. CASE Word!CopyStore(t)
  BY <1>3 DEF Word!CopyStore, WordTypes, KindsKept, DrawnInTurn, WinsBounded, NetIsCell
<1> QED BY <1>1, <1>2, <1>3

\* once_t: the exchange gives up the one answer that is left, reset() allows another.
LEMMA OnceKeeps ==
    ASSUME WordIInv, NEW t \in Threads, Word!Once(t) \/ Word!ResetOnce(t)
    PROVE  WordIInv'
<1> USE DEF WordIInv
<1>1. focus = "once" /\ focus' = focus /\ drawn = <<>> /\ UNCHANGED <<drawn, wordPc, local, net>>
  BY DEF Word!Once, Word!ResetOnce, Word!Begin, KindsKept
<1>2. cell' \in 0..Modulus-1 /\ wins' \in Nat /\ resets' \in Nat
  BY ModulusFacts DEF Word!Once, Word!ResetOnce, WordTypes
<1>3. WinsBounded'
  BY <1>1 DEF Word!Once, Word!ResetOnce, WinsBounded, WordTypes
<1> QED BY <1>1, <1>2, <1>3 DEF WordTypes, KindsKept, DrawnInTurn, NetIsCell

\* A word that goes one up or down, or is stored, with the sum that goes with it.
LEMMA SumKeeps ==
    ASSUME NEW d \in {1, -1}, WordTypes, NetIsCell, focus = "ref",
           cell' = Word!Wrap(cell + d), net' = net + d
    PROVE  cell' \in 0..Modulus-1 /\ net' \in Int /\ \E q \in Int : net' = Modulus * q + cell'
<1>1. PICK q \in Int : net = Modulus * q + cell
  BY DEF NetIsCell
<1>2. cell \in 0..Modulus-1 /\ Modulus \in Nat /\ Modulus > 2 /\ net' \in Int
  BY ModulusFacts DEF WordTypes
<1>3. cell' = IF cell + d = -1 THEN Modulus - 1 ELSE IF cell + d < Modulus THEN cell + d ELSE 0
  BY <1>2, ModulusFacts, WrapNear
<1>4. Modulus * (q + 1) = Modulus * q + Modulus /\ Modulus * (q - 1) = Modulus * q - Modulus
  BY <1>2
<1>5. PICK p \in Int : p = Modulus * q
  BY <1>2
<1>6. \/ net' = p + cell'
      \/ net' = (p + Modulus) + cell'
      \/ net' = (p - Modulus) + cell'
  BY <1>1, <1>2, <1>3, <1>5
<1>7. \/ net' = Modulus * q + cell'
      \/ net' = Modulus * (q + 1) + cell'
      \/ net' = Modulus * (q - 1) + cell'
  BY <1>4, <1>5, <1>6
<1>8. q + 1 \in Int /\ q - 1 \in Int
  OBVIOUS
<1>9. \E r \in Int : net' = Modulus * r + cell'
  BY <1>7, <1>8, Zenon
<1>10. cell' \in 0..Modulus-1
  BY <1>2, <1>3
<1> QED BY <1>2, <1>9, <1>10, Zenon

LEMMA RefKeeps ==
    ASSUME WordIInv, NEW t \in Threads,
           \/ \E d \in {1, -1} : Word!FetchAdd(t, d)
           \/ \E v \in {0, 2} : Word!Exchange(t, v)
           \/ Word!Load(t) \/ Word!CompareExchange(t)
    PROVE  WordIInv'
<1> USE DEF WordIInv
<1>1. focus = "ref" /\ focus' = focus /\ drawn = <<>> /\ UNCHANGED <<drawn, wins, resets>>
  BY DEF Word!FetchAdd, Word!Exchange, Word!Load, Word!CompareExchange, Word!Begin, KindsKept
<1>2. DrawnInTurn' /\ WinsBounded'
  BY <1>1 DEF DrawnInTurn, WinsBounded
<1>3. ASSUME NEW d \in {1, -1}, Word!FetchAdd(t, d) PROVE WordIInv'
  <2>1. cell' = Word!Wrap(cell + d) /\ net' = net + d /\ UNCHANGED <<wordPc, local>>
    BY <1>3 DEF Word!FetchAdd
  <2>2. cell' \in 0..Modulus-1 /\ net' \in Int /\ \E q \in Int : net' = Modulus * q + cell'
    BY <1>1, <2>1, SumKeeps
  <2> QED BY <1>1, <1>2, <2>1, <2>2 DEF WordTypes, KindsKept, NetIsCell
<1>4. ASSUME NEW v \in {0, 2}, Word!Exchange(t, v) PROVE WordIInv'
  <2>1. cell' = v /\ net' = v /\ UNCHANGED <<wordPc, local>> /\ v \in 0..Modulus-1
    BY <1>4, ModulusFacts DEF Word!Exchange
  <2>2. net' = Modulus * 0 + cell'
    BY <2>1, ModulusFacts
  <2>3. \E q \in Int : net' = Modulus * q + cell'
    BY <2>2
  <2> QED BY <1>1, <1>2, <2>1, <2>3 DEF WordTypes, KindsKept, NetIsCell
<1>5. CASE Word!Load(t)
  BY <1>1, <1>2, <1>5 DEF Word!Load, WordTypes, KindsKept, NetIsCell
<1>6. CASE Word!CompareExchange(t)
  <2>1. CASE /\ cell = local[t] /\ cell' = Word!Wrap(local[t] + 1) /\ net' = net + 1
             /\ wordPc' = [wordPc EXCEPT ![t] = "idle"] /\ UNCHANGED local
    <3>1. cell' \in 0..Modulus-1 /\ net' \in Int /\ \E q \in Int : net' = Modulus * q + cell'
      BY <1>1, <2>1, SumKeeps
    <3> QED BY <1>1, <1>2, <2>1, <3>1 DEF WordTypes, KindsKept, NetIsCell
  <2>2. CASE local' = [local EXCEPT ![t] = cell] /\ UNCHANGED <<cell, net, wordPc>>
    BY <1>1, <1>2, <2>2 DEF WordTypes, KindsKept, NetIsCell
  <2> QED BY <1>6, <2>1, <2>2 DEF Word!CompareExchange
<1> QED BY <1>3, <1>4, <1>5, <1>6

LEMMA WordStep == ASSUME WordIInv, [Word!WordNext]_(Word!wordVars) PROVE WordIInv'
<1>1. CASE UNCHANGED Word!wordVars
  BY <1>1 DEF Word!wordVars, WordIInv, WordTypes, KindsKept, DrawnInTurn, WinsBounded, NetIsCell
<1>2. CASE Word!WordNext
  BY <1>2, DrawKeeps, StoreKeeps, OnceKeeps, RefKeeps DEF Word!WordNext
<1> QED BY <1>1, <1>2

\* sequence_t hands out no value twice until it has wrapped, once_t answers true once per
\* arming, and no update through atomic_ref is lost, for any number of threads and any
\* width of the word.
THEOREM WordsCorrect == DataSpec => []WordKept
<1> DEFINE WordsHeld == focus \in Words => WordIInv
<1>1. DataInit => WordsHeld
  BY WordStarts DEF DataInit
<1>2. WordsHeld /\ [DataNext]_<<focus, dataV>> => WordsHeld'
  <2> SUFFICES ASSUME WordsHeld, [DataNext]_<<focus, dataV>>, focus' \in Words PROVE WordIInv'
    OBVIOUS
  <2>1. focus' = focus
    BY DEF DataNext, Word!WordNext, Word!Draw, Word!SetSequence, Word!CopyLoad, Word!CopyStore, Word!Once,
           Word!ResetOnce, Word!FetchAdd, Word!Exchange, Word!Load, Word!CompareExchange
  <2> QED BY <2>1, StepOfEach, WordStep
<1>3. WordsHeld => WordKept
  BY WordImplied DEF WordKept
<1> QED BY <1>1, <1>2, <1>3, PTL DEF DataSpec

-----------------------------------------------------------------------------
(* The memory classes: lists of pages, slots and objects. *)

Members(s) == {s[i] : i \in DOMAIN s}

\* What the lists of pages, slots and objects hold.
LEMMA MembersOf ==
    ASSUME NEW T, NEW s \in Seq(T)
    PROVE  /\ Members(s) \subseteq T
           /\ s # <<>> => Head(s) \in Members(s)
           /\ Members(<<>>) = {}
<1>1. DOMAIN s = 1..Len(s) /\ \A i \in 1..Len(s) : s[i] \in T
  OBVIOUS
<1>2. s # <<>> => Head(s) = s[1] /\ 1 \in 1..Len(s)
  OBVIOUS
<1>3. Members(<<>>) = {}
  BY DEF Members
<1> QED BY <1>1, <1>2, <1>3 DEF Members

\* A list with a new front.
LEMMA MembersFirst ==
    ASSUME NEW T, NEW s \in Seq(T), NEW x \in T
    PROVE  <<x>> \o s \in Seq(T) /\ Members(<<x>> \o s) = {x} \cup Members(s)
<1>1. PICK u : u = <<x>> \o s
  OBVIOUS
<1>2. PICK n \in Nat : n = Len(s)
  OBVIOUS
<1>3. u \in Seq(T) /\ Len(u) = n + 1 /\ u[1] = x
  BY <1>1, <1>2
<1>4. \A i \in 1..n : u[i + 1] = s[i] /\ i + 1 \in 1..n + 1
  BY <1>1, <1>2
<1>5. ASSUME NEW i \in 1..n + 1 PROVE i = 1 \/ \E j \in 1..n : i = j + 1
  <2>1. i # 1 => i - 1 \in 1..n /\ i = (i - 1) + 1
    BY <1>5
  <2> QED BY <2>1
<1>6. DOMAIN u = 1..n + 1 /\ DOMAIN s = 1..n /\ 1 \in 1..n + 1
  BY <1>2, <1>3
<1>7. Members(u) = {x} \cup Members(s)
  <2>1. ASSUME NEW y \in Members(u) PROVE y \in {x} \cup Members(s)
    <3>1. PICK i \in 1..n + 1 : y = u[i]
      BY <1>6 DEF Members
    <3>2. CASE i = 1
      BY <1>3, <3>1, <3>2
    <3>3. CASE i # 1
      <4>1. PICK j \in 1..n : i = j + 1
        BY <1>5, <3>3
      <4>2. y = s[j]
        BY <1>4, <3>1, <4>1
      <4> QED BY <1>6, <4>2 DEF Members
    <3> QED BY <3>2, <3>3
  <2>2. ASSUME NEW y \in {x} \cup Members(s) PROVE y \in Members(u)
    <3>1. CASE y = x
      BY <1>3, <1>6, <3>1 DEF Members
    <3>2. CASE y \in Members(s)
      <4>1. PICK i \in 1..n : y = s[i]
        BY <1>6, <3>2 DEF Members
      <4> QED BY <1>4, <1>6, <4>1 DEF Members
    <3> QED BY <3>1, <3>2
  <2> QED BY <2>1, <2>2
<1> QED BY <1>1, <1>3, <1>7

\* No element is listed twice.
Once(s) == \A i, j \in 1..Len(s) : s[i] = s[j] => i = j

\* Such a list is as long as the set of its elements is large.
LEMMA OnceCounted ==
    ASSUME NEW T, NEW s \in Seq(T), Once(s)
    PROVE  IsFiniteSet(Members(s)) /\ Cardinality(Members(s)) = Len(s)
<1>1. PICK n \in Nat : n = Len(s)
  OBVIOUS
<1>2. PICK f : f = [i \in 1..n |-> s[i]]
  OBVIOUS
<1>3. DOMAIN s = 1..n
  BY <1>1
<1>4. \A i \in 1..n : f[i] = s[i] /\ s[i] \in Members(s)
  BY <1>2, <1>3 DEF Members
<1>5. \A y \in Members(s) : \E i \in 1..n : f[i] = y
  BY <1>3, <1>4 DEF Members
<1>6. f \in [1..n -> Members(s)]
  BY <1>2, <1>4
<1>7. \A i, j \in 1..n : f[i] = f[j] => i = j
  BY <1>1, <1>4 DEF Once
<1>8. f \in Bijection(1..n, Members(s))
  BY <1>5, <1>6, <1>7 DEF Bijection, Injection, Surjection, IsInjective
<1>9. ExistsBijection(1..n, Members(s))
  BY <1>8 DEF ExistsBijection
<1>10. Cardinality(Members(s)) = n
  BY <1>9, FS_CountingElements
<1>11. IsFiniteSet(Members(s))
  BY <1>9, FS_NatBijection
<1> QED BY <1>1, <1>10, <1>11

\* Counting means the same in either module.
LEMMA PoolCount == \A X : Pool!Cardinality(X) = Cardinality(X)
BY DEF Pool!Cardinality, Cardinality

LEMMA OnceEmpty == Once(<<>>) /\ Members(<<>>) = {} /\ \A T : <<>> \in Seq(T)
  BY DEF Once, Members

\* A new front, end, or the front taken away, leaves such a list.
LEMMA OnceFirst ==
    ASSUME NEW T, NEW s \in Seq(T), NEW x \in T, Once(s), x \notin Members(s)
    PROVE  Once(<<x>> \o s) /\ Len(<<x>> \o s) = Len(s) + 1
<1>1. PICK u : u = <<x>> \o s
  OBVIOUS
<1>2. PICK n \in Nat : n = Len(s)
  OBVIOUS
<1>3. Len(u) = n + 1 /\ u[1] = x /\ \A i \in 1..n : s[i] \in Members(s)
  BY <1>1, <1>2 DEF Members
<1>4. \A i \in 1..n : u[i + 1] = s[i]
  BY <1>1, <1>2
<1>5. ASSUME NEW i \in 1..n + 1, i # 1 PROVE i - 1 \in 1..n /\ u[i] = s[i - 1]
  <2>1. i - 1 \in 1..n /\ i = (i - 1) + 1
    BY <1>5
  <2> QED BY <1>4, <2>1
<1>6. ASSUME NEW i \in 1..n + 1, NEW j \in 1..n + 1, u[i] = u[j] PROVE i = j
  <2>1. CASE i = 1 /\ j # 1
    BY <1>3, <1>5, <1>6, <2>1
  <2>2. CASE j = 1 /\ i # 1
    BY <1>3, <1>5, <1>6, <2>2
  <2>3. CASE i # 1 /\ j # 1
    <3>1. i - 1 \in 1..n /\ j - 1 \in 1..n /\ s[i - 1] = s[j - 1]
      BY <1>5, <1>6, <2>3
    <3>2. i - 1 = j - 1
      BY <1>2, <3>1 DEF Once
    <3> QED BY <3>2
  <2> QED BY <2>1, <2>2, <2>3
<1>7. Once(u)
  BY <1>3, <1>6 DEF Once
<1> QED BY <1>1, <1>2, <1>3, <1>7

LEMMA OnceLast ==
    ASSUME NEW T, NEW s \in Seq(T), NEW x \in T
    PROVE  /\ Append(s, x) \in Seq(T) /\ Members(Append(s, x)) = Members(s) \cup {x} /\ Len(Append(s, x)) = Len(s) + 1
           /\ Once(s) /\ x \notin Members(s) => Once(Append(s, x))
<1>1. PICK u : u = Append(s, x)
  OBVIOUS
<1>2. PICK n \in Nat : n = Len(s)
  OBVIOUS
<1>3. u \in Seq(T) /\ Len(u) = n + 1 /\ u[n + 1] = x /\ \A i \in 1..n : u[i] = s[i]
  BY <1>1, <1>2
<1>4. \A i \in 1..n + 1 : i \in 1..n \/ i = n + 1
  OBVIOUS
<1>5. DOMAIN u = 1..n + 1 /\ DOMAIN s = 1..n /\ n + 1 \in 1..n + 1 /\ \A i \in 1..n : i \in 1..n + 1
  BY <1>2, <1>3
<1>6. Members(u) = Members(s) \cup {x}
  BY <1>3, <1>4, <1>5 DEF Members
<1>7. ASSUME Once(s), x \notin Members(s) PROVE Once(u)
  <2>1. \A i \in 1..n : u[i] # x
    BY <1>3, <1>5, <1>7 DEF Members
  <2>2. \A i, j \in 1..n : u[i] = u[j] => i = j
    BY <1>2, <1>3, <1>7 DEF Once
  <2>3. \A i, j \in 1..n + 1 : u[i] = u[j] => i = j
    BY <1>3, <1>4, <2>1, <2>2
  <2> QED BY <1>3, <2>3 DEF Once
<1> QED BY <1>1, <1>2, <1>3, <1>6, <1>7

LEMMA OnceTail ==
    ASSUME NEW T, NEW s \in Seq(T), s # <<>>
    PROVE  /\ Tail(s) \in Seq(T) /\ Len(s) = Len(Tail(s)) + 1 /\ Members(Tail(s)) \subseteq Members(s) /\ Head(s) \in Members(s) /\ Head(s) \in T
           /\ Once(s) => Once(Tail(s)) /\ Members(Tail(s)) = Members(s) \ {Head(s)}
<1>1. PICK u : u = Tail(s)
  OBVIOUS
<1>2. PICK n \in Nat : n + 1 = Len(s)
  <2>1. Len(s) \in Nat /\ Len(s) # 0
    OBVIOUS
  <2>2. Len(s) - 1 \in Nat /\ (Len(s) - 1) + 1 = Len(s)
    BY <2>1
  <2> QED BY <2>2
<1>3. u \in Seq(T) /\ Len(u) = n
  BY <1>1, <1>2
<1>4. \A i \in 1..n : u[i] = s[i + 1] /\ i + 1 \in 1..n + 1 /\ i + 1 # 1
  BY <1>1, <1>2
<1>5. DOMAIN u = 1..n /\ DOMAIN s = 1..n + 1 /\ 1 \in 1..n + 1 /\ Head(s) = s[1]
  BY <1>2, <1>3
<1>6. Members(u) \subseteq Members(s) /\ Head(s) \in Members(s) /\ Head(s) \in T
  <2>1. Members(u) \subseteq Members(s)
    BY <1>4, <1>5 DEF Members
  <2>2. Head(s) \in Members(s)
    BY <1>5 DEF Members
  <2> QED BY <2>1, <2>2
<1>7. ASSUME Once(s) PROVE Once(u) /\ Members(u) = Members(s) \ {Head(s)}
  <2>1. ASSUME NEW i \in 1..n, NEW j \in 1..n, u[i] = u[j] PROVE i = j
    <3>1. s[i + 1] = s[j + 1] /\ i + 1 \in 1..n + 1 /\ j + 1 \in 1..n + 1
      BY <1>4, <2>1
    <3>2. i + 1 = j + 1
      BY <1>2, <1>7, <3>1 DEF Once
    <3> QED BY <3>2
  <2>2. ASSUME NEW i \in 1..n PROVE u[i] # s[1]
    <3>1. i + 1 \in 1..n + 1 /\ i + 1 # 1 /\ 1 \in 1..n + 1
      BY <1>4, <1>5
    <3>2. s[i + 1] # s[1]
      BY <1>2, <1>7, <3>1 DEF Once
    <3> QED BY <1>4, <3>2
  <2>3. ASSUME NEW y \in Members(s), y # s[1] PROVE y \in Members(u)
    <3>1. PICK i \in 1..n + 1 : y = s[i]
      BY <1>5 DEF Members
    <3>2. i - 1 \in 1..n /\ i = (i - 1) + 1
      BY <2>3, <3>1
    <3>3. y = u[i - 1]
      BY <1>4, <3>1, <3>2
    <3> QED BY <1>5, <3>2, <3>3 DEF Members
  <2>4. Head(s) \notin Members(u)
    BY <1>5, <2>2 DEF Members
  <2> QED BY <1>3, <1>5, <1>6, <2>1, <2>3, <2>4 DEF Once
<1> QED BY <1>1, <1>2, <1>3, <1>6, <1>7

-----------------------------------------------------------------------------
(* mempager. *)

BlockRec == [page : 1..MaxPages, from : Nat, to : Nat]

PagerListTypes == current_ \in [Pagers -> Seq(1..MaxPages)] /\ used \in [1..MaxPages -> Nat]
                  /\ pagesMade \in 0..MaxPages /\ blocks \in Seq(BlockRec)

\* A page is in one list at most, and in none once it was freed or forgotten.
PagesOwned ==
    /\ \A p \in Pagers : Members(current_[p]) \subseteq 1..pagesMade
    /\ pagesFreed \subseteq 1..pagesMade /\ lost \subseteq 1..pagesMade
    /\ \A p, q \in Pagers : p # q => Members(current_[p]) \cap Members(current_[q]) = {}
    /\ \A p \in Pagers : Members(current_[p]) \cap (pagesFreed \cup lost) = {}

\* Every block ends where the rest of its page begins, or before.
BlocksBelow ==
    /\ \A n \in 1..pagesMade : used[n] >= HeaderSize
    /\ \A i \in 1..Len(blocks) : /\ blocks[i].page \in 1..pagesMade /\ HeaderSize <= blocks[i].from
                                 /\ blocks[i].from <= blocks[i].to /\ blocks[i].to <= used[blocks[i].page]
    /\ \A i, j \in 1..Len(blocks) :
           i # j /\ blocks[i].page = blocks[j].page => blocks[i].to <= blocks[j].from \/ blocks[j].to <= blocks[i].from

PagesInv == PagerListTypes /\ PagesOwned /\ BlocksBelow

LEMMA PagesStart == ASSUME Pager!PagerAssumption, Pager!PagerInit PROVE PagesInv
<1>1. PagerListTypes
  <2>1. blocks \in Seq(BlockRec)
    <3>1. blocks = <<>>
      BY DEF Pager!PagerInit
    <3> QED BY <3>1
  <2>2. current_ \in [Pagers -> Seq(1..MaxPages)]
    <3>1. <<>> \in Seq(1..MaxPages)
      OBVIOUS
    <3> QED BY <3>1 DEF Pager!PagerInit
  <2> QED BY <2>1, <2>2 DEF Pager!PagerInit, PagerListTypes, Pager!PagerAssumption
<1>2. PagesOwned
  <2>1. \A p \in Pagers : Members(current_[p]) = {}
    BY DEF Pager!PagerInit, Members
  <2> QED BY <2>1 DEF Pager!PagerInit, PagesOwned
<1>3. BlocksBelow
  <2>1. Len(blocks) = 0 /\ pagesMade = 0
    BY DEF Pager!PagerInit
  <2> QED BY <2>1 DEF BlocksBelow
<1> QED BY <1>1, <1>2, <1>3 DEF PagesInv

LEMMA PagesImplied == ASSUME Pager!PagerAssumption, PagesInv PROVE Pager!BlocksDisjoint
<1>1. \A s : Pager!Items(s) = Members(s)
  BY DEF Pager!Items, Members
<1>2. DOMAIN blocks = 1..Len(blocks)
  BY DEF PagesInv, PagerListTypes
<1>3. \A i \in 1..Len(blocks) : blocks[i].from \in Nat /\ blocks[i].to \in Nat
  <2>1. \A i \in 1..Len(blocks) : blocks[i] \in BlockRec
    BY DEF PagesInv, PagerListTypes
  <2> QED BY <2>1 DEF BlockRec
<1>4. ASSUME NEW i \in DOMAIN blocks, NEW j \in DOMAIN blocks, i # j PROVE ~Pager!Overlap(blocks[i], blocks[j])
  <2>1. i \in 1..Len(blocks) /\ j \in 1..Len(blocks)
    BY <1>2
  <2>2. blocks[i].page = blocks[j].page => blocks[i].to <= blocks[j].from \/ blocks[j].to <= blocks[i].from
    BY <1>4, <2>1 DEF PagesInv, BlocksBelow
  <2>3. blocks[i].from \in Nat /\ blocks[i].to \in Nat /\ blocks[j].from \in Nat /\ blocks[j].to \in Nat
    BY <1>3, <2>1
  <2> QED BY <2>2, <2>3 DEF Pager!Overlap
<1>5. \A i \in DOMAIN blocks : blocks[i].from >= HeaderSize
  BY <1>2, <1>3 DEF PagesInv, BlocksBelow, Pager!PagerAssumption
<1> QED BY <1>1, <1>4, <1>5 DEF PagesInv, PagesOwned, Pager!BlocksDisjoint

\* A request rounded up to whole pointers.
LEMMA Rounded == ASSUME Pager!PagerAssumption, NEW n \in Requests PROVE Pager!RoundUp(n) \in Nat
<1>1. PICK q : q = (n + PtrSize - 1) \div PtrSize
  OBVIOUS
<1>2. n + PtrSize - 1 \in Nat /\ PtrSize \in Nat /\ PtrSize > 0
  BY DEF Pager!PagerAssumption
<1>3. q \in Nat
  BY <1>1, <1>2
<1>4. q * PtrSize \in Nat
  BY <1>2, <1>3
<1> QED BY <1>1, <1>4 DEF Pager!RoundUp

\* A block cut off what is unused of a page touches no other.
LEMMA BlockCut ==
    ASSUME Pager!PagerAssumption, PagerListTypes, BlocksBelow, NEW n \in 1..pagesMade', NEW start \in Nat, NEW size \in Nat,
           pagesMade' \in 0..MaxPages, pagesMade <= pagesMade', start >= HeaderSize,
           \A k \in 1..pagesMade' : k \in 1..pagesMade \/ k = n,
           \A i \in 1..Len(blocks) : blocks[i].page = n => blocks[i].to <= start,
           blocks' = Append(blocks, [page |-> n, from |-> start, to |-> start + size]),
           used' = [used EXCEPT ![n] = start + size]
    PROVE  BlocksBelow' /\ blocks' \in Seq(BlockRec) /\ used' \in [1..MaxPages -> Nat]
<1>1. PICK b : b = [page |-> n, from |-> start, to |-> start + size]
  OBVIOUS
<1>2. n \in 1..MaxPages /\ start + size \in Nat /\ HeaderSize \in Nat /\ n \in Nat
  BY DEF Pager!PagerAssumption
<1>3. b \in BlockRec /\ b.page = n /\ b.from = start /\ b.to = start + size
  BY <1>1, <1>2 DEF BlockRec
<1>4. PICK m \in Nat : m = Len(blocks)
  BY DEF PagerListTypes
<1>5. blocks' \in Seq(BlockRec) /\ Len(blocks') = m + 1 /\ blocks'[m + 1] = b /\ \A i \in 1..m : blocks'[i] = blocks[i]
  BY <1>1, <1>3, <1>4 DEF PagerListTypes
<1>6. used' \in [1..MaxPages -> Nat] /\ \A k \in 1..MaxPages : used'[k] = IF k = n THEN start + size ELSE used[k]
  BY <1>2 DEF PagerListTypes
<1>7. \A i \in 1..m : blocks[i].page \in 1..MaxPages /\ blocks[i].from \in Nat /\ blocks[i].to \in Nat
  <2>1. \A i \in 1..m : blocks[i] \in BlockRec
    BY <1>4 DEF PagerListTypes
  <2> QED BY <2>1 DEF BlockRec
<1>8. \A k \in 1..pagesMade : k \in 1..pagesMade' /\ k \in 1..MaxPages
  BY DEF PagerListTypes, Pager!PagerAssumption
<1>9. \A i \in 1..m + 1 : i \in 1..m \/ i = m + 1
  OBVIOUS
<1>10. ASSUME NEW k \in 1..pagesMade' PROVE used'[k] >= HeaderSize
  <2>1. CASE k = n
    BY <1>2, <1>6, <2>1
  <2>2. CASE k # n
    BY <1>6, <1>8, <2>2 DEF BlocksBelow
  <2> QED BY <2>1, <2>2
<1>11. ASSUME NEW i \in 1..m + 1
       PROVE  /\ blocks'[i].page \in 1..pagesMade' /\ HeaderSize <= blocks'[i].from
              /\ blocks'[i].from <= blocks'[i].to /\ blocks'[i].to <= used'[blocks'[i].page]
  <2>1. CASE i = m + 1
    BY <1>2, <1>3, <1>5, <1>6, <2>1
  <2>2. CASE i \in 1..m
    <3>1. /\ blocks[i].page \in 1..pagesMade /\ HeaderSize <= blocks[i].from
          /\ blocks[i].from <= blocks[i].to /\ blocks[i].to <= used[blocks[i].page]
      BY <1>4, <2>2 DEF BlocksBelow
    <3>2. CASE blocks[i].page = n
      <4>1. blocks[i].to <= start /\ start <= start + size
        BY <1>2, <1>4, <2>2, <3>2
      <4>2. blocks[i].to <= used'[blocks[i].page]
        BY <1>2, <1>6, <1>7, <2>2, <3>2, <4>1
      <4> QED BY <1>5, <1>8, <2>2, <3>1, <4>2
    <3>3. CASE blocks[i].page # n
      BY <1>5, <1>6, <1>7, <1>8, <2>2, <3>1, <3>3
    <3> QED BY <3>2, <3>3
  <2> QED BY <1>9, <2>1, <2>2
<1>12. ASSUME NEW i \in 1..m + 1, NEW j \in 1..m + 1, i # j, blocks'[i].page = blocks'[j].page
       PROVE  blocks'[i].to <= blocks'[j].from \/ blocks'[j].to <= blocks'[i].from
  <2>1. CASE i = m + 1
    <3>1. j \in 1..m /\ blocks[j].page = n
      BY <1>3, <1>5, <1>9, <1>12, <2>1
    <3> QED BY <1>3, <1>4, <1>5, <2>1, <3>1
  <2>2. CASE j = m + 1
    <3>1. i \in 1..m /\ blocks[i].page = n
      BY <1>3, <1>5, <1>9, <1>12, <2>2
    <3> QED BY <1>3, <1>4, <1>5, <2>2, <3>1
  <2>3. CASE i \in 1..m /\ j \in 1..m
    BY <1>4, <1>5, <1>12, <2>3 DEF BlocksBelow
  <2> QED BY <1>9, <2>1, <2>2, <2>3
<1>13. BlocksBelow'
  BY <1>5, <1>10, <1>11, <1>12 DEF BlocksBelow
<1> QED BY <1>5, <1>6, <1>13

\* alloc() cuts a block off the current page ...
LEMMA AllocHereKeeps ==
    ASSUME Pager!PagerAssumption, PagesInv, NEW p \in Pagers, NEW n \in Requests, Pager!AllocHere(p, n) PROVE PagesInv'
<1>1. PICK size \in Nat : size = Pager!RoundUp(n)
  BY Rounded
<1>2. current_[p] # <<>> /\ current_[p] \in Seq(1..MaxPages)
  BY DEF Pager!AllocHere, Pager!NeedsPage, PagesInv, PagerListTypes
<1>3. PICK k : k = Head(current_[p])
  OBVIOUS
<1>4. k \in 1..pagesMade /\ k \in 1..MaxPages
  BY <1>2, <1>3, MembersOf DEF PagesInv, PagesOwned
<1>5. PICK start \in Nat : start = used[k]
  BY <1>4 DEF PagesInv, PagerListTypes
<1>6. /\ blocks' = Append(blocks, [page |-> k, from |-> start, to |-> start + size])
      /\ used' = [used EXCEPT ![k] = start + size]
      /\ UNCHANGED <<current_, pagesMade, pagesFreed, lost>>
  BY <1>1, <1>3, <1>5 DEF Pager!AllocHere, Pager!Hand, Pager!UsedAfter
<1>7. start >= HeaderSize /\ \A i \in 1..Len(blocks) : blocks[i].page = k => blocks[i].to <= start
  BY <1>4, <1>5 DEF PagesInv, BlocksBelow
<1>8. k \in 1..pagesMade' /\ pagesMade' \in 0..MaxPages /\ pagesMade <= pagesMade' /\ \A j \in 1..pagesMade' : j \in 1..pagesMade \/ j = k
  BY <1>4, <1>6 DEF PagesInv, PagerListTypes, Pager!PagerAssumption
<1>9. BlocksBelow' /\ blocks' \in Seq(BlockRec) /\ used' \in [1..MaxPages -> Nat]
  BY <1>6, <1>7, <1>8, BlockCut DEF PagesInv
<1>10. PagerListTypes' /\ PagesOwned'
  BY <1>6, <1>9 DEF PagesInv, PagerListTypes, PagesOwned
<1> QED BY <1>9, <1>10 DEF PagesInv

\* ... or off a new one, which no other list has.
LEMMA AllocPageKeeps ==
    ASSUME Pager!PagerAssumption, PagesInv, NEW p \in Pagers, NEW n \in Requests, Pager!AllocPage(p, n) PROVE PagesInv'
<1>1. PICK size \in Nat : size = Pager!RoundUp(n)
  BY Rounded
<1>2. PICK k \in 1..MaxPages : k = pagesMade + 1
  BY DEF Pager!AllocPage, PagesInv, PagerListTypes, Pager!PagerAssumption
<1>3. /\ pagesMade' = k /\ current_' = [current_ EXCEPT ![p] = <<k>> \o current_[p]]
      /\ blocks' = Append(blocks, [page |-> k, from |-> HeaderSize, to |-> HeaderSize + size])
      /\ used' = [used EXCEPT ![k] = HeaderSize + size]
      /\ UNCHANGED <<pagesFreed, lost>>
  BY <1>1, <1>2 DEF Pager!AllocPage, Pager!Hand
<1>4. k \notin 1..pagesMade /\ 1..pagesMade \subseteq 1..k /\ k \in 1..k
  BY <1>2 DEF PagesInv, PagerListTypes, Pager!PagerAssumption
<1>5. \A i \in 1..Len(blocks) : blocks[i].page # k
  BY <1>4 DEF PagesInv, BlocksBelow
<1>6. k \in 1..pagesMade' /\ pagesMade' \in 0..MaxPages /\ pagesMade <= pagesMade' /\ \A j \in 1..pagesMade' : j \in 1..pagesMade \/ j = k
  BY <1>2, <1>3 DEF PagesInv, PagerListTypes, Pager!PagerAssumption
<1>7. BlocksBelow' /\ blocks' \in Seq(BlockRec) /\ used' \in [1..MaxPages -> Nat]
  <2>1. HeaderSize \in Nat /\ HeaderSize >= HeaderSize
    BY DEF Pager!PagerAssumption
  <2> QED BY <1>3, <1>5, <1>6, <2>1, BlockCut DEF PagesInv
<1>8. PICK s \in Seq(1..MaxPages) : s = current_[p]
  BY DEF PagesInv, PagerListTypes
<1>9. <<k>> \o s \in Seq(1..MaxPages) /\ Members(<<k>> \o s) = {k} \cup Members(s)
  BY MembersFirst
<1>10. PICK t : t = <<k>> \o s
  OBVIOUS
<1>11. current_' \in [Pagers -> Seq(1..MaxPages)] /\ \A q \in Pagers : current_'[q] = IF q = p THEN t ELSE current_[q]
  <2>1. current_' = [current_ EXCEPT ![p] = t] /\ t \in Seq(1..MaxPages)
    BY <1>3, <1>8, <1>9, <1>10
  <2> QED BY <2>1 DEF PagesInv, PagerListTypes
<1>12. \A q \in Pagers : Members(current_'[q]) = IF q = p THEN {k} \cup Members(current_[p]) ELSE Members(current_[q])
  BY <1>8, <1>9, <1>10, <1>11
<1>13. PagesOwned'
  <2>1. PICK M : M = [q \in Pagers |-> Members(current_[q])]
    OBVIOUS
  <2>2. PICK N : N = [q \in Pagers |-> Members(current_'[q])]
    OBVIOUS
  <2>3. \A q \in Pagers : N[q] = IF q = p THEN {k} \cup M[p] ELSE M[q]
    BY <1>12, <2>1, <2>2
  <2>4. /\ \A q \in Pagers : M[q] \subseteq 1..pagesMade /\ M[q] \cap (pagesFreed \cup lost) = {}
        /\ \A q, r \in Pagers : q # r => M[q] \cap M[r] = {}
        /\ pagesFreed \subseteq 1..pagesMade /\ lost \subseteq 1..pagesMade
    BY <2>1 DEF PagesInv, PagesOwned
  <2>5. PICK U, V : U = 1..pagesMade /\ V = 1..k
    OBVIOUS
  <2>6. /\ \A q \in Pagers : N[q] \subseteq V /\ N[q] \cap (pagesFreed \cup lost) = {}
        /\ \A q, r \in Pagers : q # r => N[q] \cap N[r] = {}
        /\ pagesFreed \subseteq V /\ lost \subseteq V
    BY <1>4, <2>3, <2>4, <2>5
  <2> QED BY <1>3, <2>2, <2>5, <2>6 DEF PagesOwned
<1>14. PagerListTypes'
  BY <1>6, <1>7, <1>11 DEF PagerListTypes
<1> QED BY <1>7, <1>13, <1>14 DEF PagesInv

\* clear() frees what no other pager lists, and a move gives the list away.
LEMMA PagesStep ==
    ASSUME Pager!PagerAssumption, PagesInv, [Pager!PagerNext]_(Pager!pagerVars) PROVE PagesInv'
<1>1. CASE UNCHANGED Pager!pagerVars
  BY <1>1 DEF Pager!pagerVars, PagesInv, PagerListTypes, PagesOwned, BlocksBelow
<1>2. \A s : Pager!Items(s) = Members(s)
  BY DEF Pager!Items, Members
<1>3. Members(<<>>) = {} /\ <<>> \in Seq(1..MaxPages)
  BY DEF Members
<1>4. ASSUME NEW p \in Pagers, Pager!Clear(p) PROVE PagesInv'
  <2>1. /\ pagesFreed' = pagesFreed \cup Members(current_[p]) /\ current_' = [current_ EXCEPT ![p] = <<>>]
        /\ UNCHANGED <<used, pagesMade, blocks, lost>>
    BY <1>2, <1>4 DEF Pager!Clear
  <2>2. \A q \in Pagers : Members(current_'[q]) = IF q = p THEN {} ELSE Members(current_[q])
    BY <1>3, <2>1 DEF PagesInv, PagerListTypes
  <2>3. PagesOwned'
    <3>1. Members(current_[p]) \subseteq 1..pagesMade /\ \A q \in Pagers : q # p => Members(current_[q]) \cap Members(current_[p]) = {}
      BY DEF PagesInv, PagesOwned
    <3>2. \A q \in Pagers : Members(current_'[q]) \subseteq 1..pagesMade
      BY <2>2 DEF PagesInv, PagesOwned
    <3>3. pagesFreed' \subseteq 1..pagesMade /\ lost \subseteq 1..pagesMade
      BY <2>1, <3>1 DEF PagesInv, PagesOwned
    <3>4. \A q, r \in Pagers : q # r => Members(current_'[q]) \cap Members(current_'[r]) = {}
      BY <2>2 DEF PagesInv, PagesOwned
    <3>5. \A q \in Pagers : Members(current_'[q]) \cap (pagesFreed' \cup lost) = {}
      BY <2>1, <2>2, <3>1 DEF PagesInv, PagesOwned
    <3> QED BY <2>1, <3>2, <3>3, <3>4, <3>5 DEF PagesOwned
  <2> QED BY <1>3, <2>1, <2>3 DEF PagesInv, PagerListTypes, BlocksBelow
<1>5. ASSUME NEW p \in Pagers, NEW q \in Pagers, Pager!Move(p, q) PROVE PagesInv'
  <2>1. /\ p # q /\ lost' = lost \cup Members(current_[p]) /\ current_' = [current_ EXCEPT ![p] = current_[q], ![q] = <<>>]
        /\ UNCHANGED <<used, pagesMade, blocks, pagesFreed>>
    BY <1>2, <1>5 DEF Pager!Move, Pager!TakeOver
  <2>2. \A r \in Pagers : Members(current_'[r]) = IF r = q THEN {} ELSE IF r = p THEN Members(current_[q]) ELSE Members(current_[r])
    BY <1>3, <2>1 DEF PagesInv, PagerListTypes
  <2>3. PagesOwned'
    <3>1. Members(current_[p]) \subseteq 1..pagesMade /\ \A r \in Pagers : r # p => Members(current_[r]) \cap Members(current_[p]) = {}
      BY DEF PagesInv, PagesOwned
    <3>2. \A r \in Pagers : Members(current_'[r]) \subseteq 1..pagesMade
      BY <2>2 DEF PagesInv, PagesOwned
    <3>3. pagesFreed \subseteq 1..pagesMade /\ lost' \subseteq 1..pagesMade
      BY <2>1, <3>1 DEF PagesInv, PagesOwned
    <3>4. ASSUME NEW r \in Pagers, NEW o \in Pagers, r # o PROVE Members(current_'[r]) \cap Members(current_'[o]) = {}
      <4>1. CASE r = q \/ o = q
        BY <2>2, <4>1
      <4>2. CASE r # q /\ o # q
        <5>1. PICK a \in Pagers : Members(current_'[r]) = Members(current_[a]) /\ a = IF r = p THEN q ELSE r
          BY <2>2, <4>2
        <5>2. PICK b \in Pagers : Members(current_'[o]) = Members(current_[b]) /\ b = IF o = p THEN q ELSE o
          BY <2>2, <4>2
        <5>3. a # b
          BY <3>4, <4>2, <5>1, <5>2
        <5> QED BY <5>1, <5>2, <5>3 DEF PagesInv, PagesOwned
      <4> QED BY <4>1, <4>2
    <3>5. ASSUME NEW r \in Pagers PROVE Members(current_'[r]) \cap (pagesFreed \cup lost') = {}
      <4>1. CASE r = q
        BY <2>2, <4>1
      <4>2. CASE r # q
        <5>1. PICK a \in Pagers : Members(current_'[r]) = Members(current_[a]) /\ a # p
          BY <2>1, <2>2, <4>2
        <5>2. Members(current_[a]) \cap (pagesFreed \cup lost) = {} /\ Members(current_[a]) \cap Members(current_[p]) = {}
          BY <3>1, <5>1 DEF PagesInv, PagesOwned
        <5> QED BY <2>1, <5>1, <5>2
      <4> QED BY <4>1, <4>2
    <3> QED BY <2>1, <3>2, <3>3, <3>4, <3>5 DEF PagesOwned
  <2> QED BY <1>3, <2>1, <2>3 DEF PagesInv, PagerListTypes, BlocksBelow
<1>6. CASE Pager!PagerNext
  BY <1>4, <1>5, <1>6, AllocHereKeeps, AllocPageKeeps DEF Pager!PagerNext
<1> QED BY <1>1, <1>6

-----------------------------------------------------------------------------
(* memreuse. *)

Objects == 1..objects

SpareTypes == objects \in Nat /\ spare \in [Pools -> Seq(Objects)] /\ alive \subseteq Objects

\* An object is alive, or on one list once, or neither.
SparesApart ==
    /\ \A p \in Pools : Once(spare[p]) /\ Members(spare[p]) \cap alive = {}
    /\ \A p, q \in Pools : p # q => Members(spare[p]) \cap Members(spare[q]) = {}

SparesInv == SpareTypes /\ SparesApart

LEMMA SparesStart == ASSUME Pool!PoolInit PROVE SparesInv
  BY OnceEmpty DEF Pool!PoolInit, SparesInv, SpareTypes, SparesApart

LEMMA SparesImplied == ASSUME SparesInv PROVE Pool!SparesAreDead
<1>1. \A s : Pool!Items(s) = Members(s)
  BY DEF Pool!Items, Members
<1>2. \A p \in Pools : Len(spare[p]) = Cardinality(Members(spare[p]))
  <2>1. ASSUME NEW p \in Pools PROVE Len(spare[p]) = Cardinality(Members(spare[p]))
    <3>1. PICK s \in Seq(Objects) : s = spare[p]
      BY DEF SparesInv, SpareTypes
    <3>2. Once(s)
      BY <3>1 DEF SparesInv, SparesApart
    <3> QED BY <3>1, <3>2, OnceCounted
  <2> QED BY <2>1
<1> QED BY <1>1, <1>2, PoolCount DEF SparesInv, SparesApart, Pool!SparesAreDead

LEMMA SparesStep == ASSUME SparesInv, [Pool!ReuseNext]_(Pool!reuseVars) PROVE SparesInv'
<1> USE DEF SparesInv
<1>0. \A s : Pool!Items(s) = Members(s)
  BY DEF Pool!Items, Members
<1>1. CASE UNCHANGED Pool!reuseVars
  BY <1>1 DEF Pool!reuseVars, SpareTypes, SparesApart, Objects
<1>2. ASSUME NEW p \in Pools, Pool!Create(p), spare[p] # <<>> PROVE SparesInv'
  <2>1. PICK s \in Seq(Objects) : s = spare[p]
    BY DEF SpareTypes
  <2>2. PICK t, x : t = Tail(s) /\ x = Head(s)
    OBVIOUS
  <2>3. spare' = [spare EXCEPT ![p] = t] /\ alive' = alive \cup {x} /\ objects' = objects
    BY <1>2, <2>1, <2>2 DEF Pool!Create, Pool!TakeSpare
  <2>4. t \in Seq(Objects) /\ x \in Objects /\ Once(t) /\ Members(t) = Members(s) \ {x} /\ x \in Members(s)
    BY <1>2, <2>1, <2>2, OnceTail DEF SparesApart
  <2>5. SpareTypes'
    BY <2>3, <2>4 DEF SpareTypes, Objects
  <2>6. \A q \in Pools : spare'[q] = IF q = p THEN t ELSE spare[q]
    BY <2>3 DEF SpareTypes
  <2>7. \A q \in Pools : q # p => x \notin Members(spare[q])
    BY <2>1, <2>4 DEF SparesApart
  <2>8. \A q \in Pools : Once(spare'[q]) /\ Members(spare'[q]) \cap alive' = {}
    BY <2>1, <2>3, <2>4, <2>6, <2>7 DEF SparesApart
  <2>9. \A q, r \in Pools : q # r => Members(spare'[q]) \cap Members(spare'[r]) = {}
    BY <2>1, <2>4, <2>6 DEF SparesApart
  <2> QED BY <2>5, <2>8, <2>9 DEF SparesApart
<1>3. ASSUME NEW p \in Pools, Pool!Create(p), spare[p] = <<>> PROVE SparesInv'
  <2>1. PICK x : x = objects + 1
    OBVIOUS
  <2>2. objects' = x /\ alive' = alive \cup {x} /\ spare' = spare
    BY <1>3, <2>1 DEF Pool!Create
  <2>3. x \in Nat /\ x \in Objects' /\ x \notin Objects /\ \A o \in Objects : o \in Objects'
    BY <2>1, <2>2 DEF SpareTypes, Objects
  <2>4. \A q \in Pools : spare[q] \in Seq(Objects') /\ Members(spare[q]) \subseteq Objects
    <3>1. ASSUME NEW q \in Pools PROVE spare[q] \in Seq(Objects') /\ Members(spare[q]) \subseteq Objects
      <4>1. PICK s \in Seq(Objects) : s = spare[q]
        BY DEF SpareTypes
      <4>2. \A i \in 1..Len(s) : s[i] \in Objects
        OBVIOUS
      <4>3. \A i \in 1..Len(s) : s[i] \in Objects'
        BY <2>3, <4>2
      <4>4. s \in Seq(Objects')
        <5>1. PICK O : O = Objects'
          OBVIOUS
        <5>2. \A i \in 1..Len(s) : s[i] \in O
          BY <4>3, <5>1
        <5>3. s \in Seq(O)
          BY <5>2
        <5> QED BY <5>1, <5>3
      <4>5. Members(s) \subseteq Objects
        BY <4>2 DEF Members
      <4> QED BY <4>1, <4>4, <4>5
    <3> QED BY <3>1
  <2>5. SpareTypes'
    <3>1. spare' \in [Pools -> Seq(Objects')]
      BY <2>2, <2>4 DEF SpareTypes
    <3>2. alive' \subseteq Objects'
      BY <2>2, <2>3 DEF SpareTypes
    <3> QED BY <2>2, <2>3, <3>1, <3>2 DEF SpareTypes
  <2>6. \A q \in Pools : Members(spare[q]) \cap alive' = {}
    BY <2>2, <2>3, <2>4 DEF SparesApart
  <2> QED BY <2>2, <2>5, <2>6 DEF SparesApart
<1>4. ASSUME NEW p \in Pools, NEW o \in alive, Pool!ReleaseObject(p, o) PROVE SparesInv'
  <2>1. PICK s \in Seq(Objects) : s = spare[p]
    BY DEF SpareTypes
  <2>2. PICK t : t = Append(s, o)
    OBVIOUS
  <2>3. spare' = [spare EXCEPT ![p] = t] /\ alive' = alive \ {o} /\ objects' = objects
    BY <1>4, <2>1, <2>2 DEF Pool!ReleaseObject
  <2>4. o \in Objects /\ \A q \in Pools : o \notin Members(spare[q])
    BY DEF SpareTypes, SparesApart
  <2>5. t \in Seq(Objects) /\ Once(t) /\ Members(t) = Members(s) \cup {o}
    BY <2>1, <2>2, <2>4, OnceLast DEF SparesApart
  <2>6. SpareTypes'
    BY <2>3, <2>5 DEF SpareTypes, Objects
  <2>7. \A q \in Pools : spare'[q] = IF q = p THEN t ELSE spare[q]
    BY <2>3 DEF SpareTypes
  <2>8. \A q \in Pools : Once(spare'[q]) /\ Members(spare'[q]) \cap alive' = {}
    BY <2>1, <2>3, <2>5, <2>7 DEF SparesApart
  <2>9. ASSUME NEW q \in Pools, NEW r \in Pools, q # r PROVE Members(spare'[q]) \cap Members(spare'[r]) = {}
    <3>1. Members(spare[q]) \cap Members(spare[r]) = {}
      BY <2>9 DEF SparesApart
    <3>2. CASE q = p
      BY <2>1, <2>4, <2>5, <2>7, <2>9, <3>1, <3>2
    <3>3. CASE r = p
      BY <2>1, <2>4, <2>5, <2>7, <2>9, <3>1, <3>3
    <3>4. CASE q # p /\ r # p
      BY <2>7, <3>1, <3>4
    <3> QED BY <3>2, <3>3, <3>4
  <2> QED BY <2>6, <2>8, <2>9 DEF SparesApart
<1>5. ASSUME NEW p \in Pools, Pool!ClearSpare(p) PROVE SparesInv'
  <2>1. spare' = [spare EXCEPT ![p] = <<>>] /\ alive' = alive /\ objects' = objects
    BY <1>5 DEF Pool!ClearSpare
  <2>2. SpareTypes'
    BY <2>1, OnceEmpty DEF SpareTypes, Objects
  <2>3. \A q \in Pools : spare'[q] = IF q = p THEN <<>> ELSE spare[q]
    BY <2>1 DEF SpareTypes
  <2>4. SparesApart'
    BY <2>1, <2>3, OnceEmpty DEF SparesApart
  <2> QED BY <2>2, <2>4
<1>6. ASSUME NEW p \in Pools, NEW q \in Pools, Pool!MoveSpare(p, q) PROVE SparesInv'
  <2>1. p # q /\ spare' = [spare EXCEPT ![p] = spare[q], ![q] = <<>>] /\ alive' = alive /\ objects' = objects
    BY <1>6 DEF Pool!MoveSpare
  <2>2. SpareTypes'
    BY <2>1, OnceEmpty DEF SpareTypes, Objects
  <2>3. \A r \in Pools : spare'[r] = IF r = q THEN <<>> ELSE IF r = p THEN spare[q] ELSE spare[r]
    BY <2>1 DEF SpareTypes
  <2>4. \A r \in Pools : Once(spare'[r]) /\ Members(spare'[r]) \cap alive' = {}
    BY <2>1, <2>3, OnceEmpty DEF SparesApart
  <2>5. ASSUME NEW r \in Pools, NEW o \in Pools, r # o PROVE Members(spare'[r]) \cap Members(spare'[o]) = {}
    <3>1. CASE r = q \/ o = q
      BY <2>3, <3>1, OnceEmpty
    <3>2. CASE r # q /\ o # q
      <4>1. PICK a \in Pools : spare'[r] = spare[a] /\ a = IF r = p THEN q ELSE r
        BY <2>3, <3>2
      <4>2. PICK b \in Pools : spare'[o] = spare[b] /\ b = IF o = p THEN q ELSE o
        BY <2>3, <3>2
      <4>3. a # b
        BY <2>5, <3>2, <4>1, <4>2
      <4> QED BY <4>1, <4>2, <4>3 DEF SparesApart
    <3> QED BY <3>1, <3>2
  <2> QED BY <2>2, <2>4, <2>5 DEF SparesApart
<1>7. CASE Pool!ReuseNext
  BY <1>2, <1>3, <1>4, <1>5, <1>6, <1>7 DEF Pool!ReuseNext
<1> QED BY <1>1, <1>7

-----------------------------------------------------------------------------
(* mempool. *)

AllSlots == (1..MaxArrays) \X (0..Size - 1)
HeldOf(h, a) == {s \in h : s[1] = a}

PoolTypes ==
    /\ ptr_ \in [Pools -> 0..MaxArrays] /\ dynamic_ \in [Pools -> BOOLEAN] /\ used_ \in [Pools -> Nat]
    /\ free_ \in [Pools -> Seq(AllSlots)] /\ arrays \in 0..MaxArrays /\ held \subseteq AllSlots

\* A pool has its array to itself, none of the deleted ones, and lists only its slots;
\* nothing is known yet of an array that is still to be made.
ArraysOwned ==
    /\ deleted \subseteq 1..arrays /\ \A s \in held : s[1] <= arrays
    /\ \A p \in Pools : ptr_[p] <= arrays /\ ptr_[p] \notin deleted /\ \A s \in Members(free_[p]) : s[1] = ptr_[p]
    /\ \A p, q \in Pools : p # q /\ ptr_[p] # 0 => ptr_[p] # ptr_[q]

\* The u slots used of an array are those of the list f and those of H, each once.
SlotsSplit(u, f, H) ==
    /\ Once(f) /\ Members(f) \cap H = {} /\ (\A s \in H \cup Members(f) : s[2] < u)
    /\ IsFiniteSet(H) /\ u = Len(f) + Cardinality(H)

SlotsCounted ==
    \A p \in Pools : ptr_[p] # 0 /\ ptr_[p] \notin cleared => SlotsSplit(used_[p], free_[p], HeldOf(held, ptr_[p]))

SlotsInv == PoolTypes /\ ArraysOwned /\ SlotsCounted

LEMMA NoneSplit == SlotsSplit(0, <<>>, {})
<1>1. IsFiniteSet({}) /\ Cardinality({}) = 0 /\ Len(<<>>) = 0
  BY FS_EmptySet
<1> QED BY <1>1, OnceEmpty DEF SlotsSplit

\* The front of the list is handed out.
LEMMA SplitFront ==
    ASSUME NEW u \in Nat, NEW f \in Seq(AllSlots), NEW H, SlotsSplit(u, f, H), f # <<>>
    PROVE  SlotsSplit(u, Tail(f), H \cup {Head(f)})
<1>1. PICK t, x : t = Tail(f) /\ x = Head(f)
  OBVIOUS
<1>2. Once(t) /\ Members(t) = Members(f) \ {x} /\ Len(f) = Len(t) + 1 /\ x \in Members(f) /\ t \in Seq(AllSlots)
  BY <1>1, OnceTail DEF SlotsSplit
<1>3. IsFiniteSet(H) /\ x \notin H
  BY <1>2 DEF SlotsSplit
<1>4. IsFiniteSet(H \cup {x}) /\ Cardinality(H \cup {x}) = Cardinality(H) + 1
  BY <1>3, FS_AddElement
<1>5. Len(t) \in Nat /\ Cardinality(H) \in Nat
  BY <1>2, <1>3, FS_CardinalityType
<1>6. u = Len(t) + Cardinality(H \cup {x})
  BY <1>2, <1>4, <1>5 DEF SlotsSplit
<1>7. Members(t) \cap (H \cup {x}) = {} /\ (H \cup {x}) \cup Members(t) = H \cup Members(f)
  BY <1>2 DEF SlotsSplit
<1> QED BY <1>1, <1>2, <1>4, <1>6, <1>7 DEF SlotsSplit

\* A new slot is handed out.
LEMMA SplitNew ==
    ASSUME NEW u \in Nat, NEW H \in SUBSET AllSlots, NEW a, SlotsSplit(u, <<>>, H), Pool!PoolAssumption
    PROVE  SlotsSplit(u + 1, <<>>, H \cup {<<a, u>>})
<1>1. PICK x : x = <<a, u>>
  OBVIOUS
<1>2. x[2] = u /\ x \notin H
  BY <1>1 DEF SlotsSplit
<1>3. IsFiniteSet(H) /\ Len(<<>>) = 0
  BY DEF SlotsSplit
<1>4. IsFiniteSet(H \cup {x}) /\ Cardinality(H \cup {x}) = Cardinality(H) + 1
  BY <1>2, <1>3, FS_AddElement
<1>5. Cardinality(H) \in Nat
  BY <1>3, FS_CardinalityType
<1>6. u + 1 = Len(<<>>) + Cardinality(H \cup {x})
  BY <1>3, <1>4, <1>5 DEF SlotsSplit
<1>7. \A s \in H \cup {x} : s[2] < u + 1
  <2>1. \A s \in H : s[2] < u /\ s[2] \in Nat
    BY DEF SlotsSplit, AllSlots, Pool!PoolAssumption
  <2> QED BY <1>2, <2>1
<1> QED BY <1>1, <1>4, <1>6, <1>7, OnceEmpty DEF SlotsSplit

\* A slot comes back to the list.
LEMMA SplitBack ==
    ASSUME NEW u \in Nat, NEW f \in Seq(AllSlots), NEW H, NEW x \in H, SlotsSplit(u, f, H),
           NEW t \in Seq(AllSlots), Once(t), Members(t) = Members(f) \cup {x}, Len(t) = Len(f) + 1
    PROVE  SlotsSplit(u, t, H \ {x})
<1>1. IsFiniteSet(H)
  BY DEF SlotsSplit
<1>2. IsFiniteSet(H \ {x}) /\ Cardinality(H \ {x}) = Cardinality(H) - 1
  BY <1>1, FS_RemoveElement
<1>3. Len(f) \in Nat /\ Cardinality(H) \in Nat
  BY <1>1, FS_CardinalityType
<1>4. u = Len(t) + Cardinality(H \ {x})
  BY <1>2, <1>3 DEF SlotsSplit
<1>5. Members(t) \cap (H \ {x}) = {} /\ (H \ {x}) \cup Members(t) = H \cup Members(f)
  BY DEF SlotsSplit
<1> QED BY <1>2, <1>4, <1>5 DEF SlotsSplit

LEMMA SlotsStart == ASSUME Pool!PoolAssumption, Pool!PoolInit PROVE SlotsInv
  BY OnceEmpty DEF Pool!PoolAssumption, Pool!PoolInit, SlotsInv, PoolTypes, ArraysOwned, SlotsCounted

LEMMA SlotsImplied == ASSUME SlotsInv PROVE Pool!SlotsHandedOnce
<1>1. SUFFICES ASSUME NEW p \in Pools, ptr_[p] # 0, ptr_[p] \notin cleared
               PROVE  /\ Pool!Free(p) \subseteq Pool!Slots(p) \ held
                      /\ Len(free_[p]) = Cardinality(Pool!Free(p))
                      /\ used_[p] = Len(free_[p]) + Cardinality(held \cap Pool!Slots(p))
                      /\ ptr_[p] \notin deleted
  BY PoolCount DEF Pool!SlotsHandedOnce
<1>2. PICK f \in Seq(AllSlots) : f = free_[p]
  BY DEF SlotsInv, PoolTypes
<1>3. Pool!Free(p) = Members(f)
  BY <1>2 DEF Pool!Free, Pool!Items, Members
<1>4. SlotsSplit(used_[p], f, HeldOf(held, ptr_[p])) /\ (\A s \in Members(f) : s[1] = ptr_[p]) /\ ptr_[p] \notin deleted
  BY <1>1, <1>2 DEF SlotsInv, SlotsCounted, ArraysOwned
<1>5. Members(f) \subseteq AllSlots
  <2>1. \A i \in DOMAIN f : f[i] \in AllSlots
    OBVIOUS
  <2> QED BY <2>1 DEF Members
<1>6. held \cap Pool!Slots(p) = HeldOf(held, ptr_[p])
  BY DEF SlotsInv, PoolTypes, AllSlots, HeldOf, Pool!Slots
<1>7. Members(f) \subseteq Pool!Slots(p)
  BY <1>4, <1>5 DEF AllSlots, Pool!Slots
<1>8. Members(f) \cap held = {}
  BY <1>4 DEF SlotsSplit, HeldOf
<1>9. Len(f) = Cardinality(Members(f))
  BY <1>4, OnceCounted DEF SlotsSplit
<1> QED BY <1>2, <1>3, <1>4, <1>6, <1>7, <1>8, <1>9 DEF SlotsSplit

\* get() from the list, and of a slot never used.
LEMMA GetFreeKeeps == ASSUME Pool!PoolAssumption, SlotsInv, NEW p \in Pools, Pool!GetFree(p) PROVE SlotsInv'
<1> USE DEF SlotsInv
<1>1. PICK f \in Seq(AllSlots) : f = free_[p] /\ f # <<>>
  BY DEF PoolTypes, Pool!GetFree
<1>2. PICK t, x : t = Tail(f) /\ x = Head(f)
  OBVIOUS
<1>3. /\ held' = held \cup {x} /\ free_' = [free_ EXCEPT ![p] = t]
      /\ UNCHANGED <<ptr_, dynamic_, used_, arrays, deleted, cleared>>
  BY <1>1, <1>2 DEF Pool!GetFree
<1>4. t \in Seq(AllSlots) /\ Members(t) \subseteq Members(f) /\ x \in Members(f) /\ x \in AllSlots
  BY <1>1, <1>2, OnceTail
<1>5. x[1] = ptr_[p] /\ ptr_[p] <= arrays
  BY <1>1, <1>4 DEF ArraysOwned
<1>6. ptr_[p] # 0
  BY <1>4, <1>5 DEF AllSlots, Pool!PoolAssumption
<1>7. PoolTypes'
  BY <1>3, <1>4 DEF PoolTypes
<1>8. \A q \in Pools : free_'[q] = IF q = p THEN t ELSE free_[q]
  BY <1>3 DEF PoolTypes
<1>9. ArraysOwned'
  BY <1>1, <1>3, <1>4, <1>5, <1>8 DEF ArraysOwned
<1>10. ASSUME NEW q \in Pools, ptr_[q] # 0, ptr_[q] \notin cleared PROVE SlotsSplit(used_[q], free_'[q], HeldOf(held', ptr_[q]))
  <2>1. SlotsSplit(used_[q], free_[q], HeldOf(held, ptr_[q]))
    BY <1>10 DEF SlotsCounted
  <2>2. CASE q = p
    <3>1. HeldOf(held', ptr_[p]) = HeldOf(held, ptr_[p]) \cup {x}
      BY <1>3, <1>5 DEF HeldOf
    <3>2. used_[p] \in Nat
      BY DEF PoolTypes
    <3>3. SlotsSplit(used_[p], t, HeldOf(held, ptr_[p]) \cup {x})
      BY <1>1, <1>2, <2>1, <2>2, <3>2, SplitFront
    <3> QED BY <1>8, <2>2, <3>1, <3>3
  <2>3. CASE q # p
    <3>1. ptr_[q] # ptr_[p]
      BY <1>6, <2>3 DEF ArraysOwned
    <3>2. HeldOf(held', ptr_[q]) = HeldOf(held, ptr_[q])
      BY <1>3, <1>5, <3>1 DEF HeldOf
    <3> QED BY <1>8, <2>1, <2>3, <3>2
  <2> QED BY <2>2, <2>3
<1>11. SlotsCounted'
  BY <1>3, <1>10 DEF SlotsCounted
<1> QED BY <1>7, <1>9, <1>11

LEMMA GetNewKeeps == ASSUME Pool!PoolAssumption, SlotsInv, NEW p \in Pools, Pool!GetNew(p) PROVE SlotsInv'
<1> USE DEF SlotsInv
<1>1. PICK a \in 1..MaxArrays : a = ptr_[p]
  BY DEF PoolTypes, Pool!GetNew, Pool!PoolAssumption
<1>2. PICK u \in 0..Size - 1 : u = used_[p]
  BY DEF PoolTypes, Pool!GetNew, Pool!PoolAssumption
<1>3. PICK x : x = <<a, u>>
  OBVIOUS
<1>4. /\ held' = held \cup {x} /\ used_' = [used_ EXCEPT ![p] = u + 1] /\ free_[p] = <<>> /\ ptr_[p] # 0
      /\ UNCHANGED <<ptr_, dynamic_, free_, arrays, deleted, cleared>>
  BY <1>1, <1>2, <1>3 DEF Pool!GetNew
<1>5. x \in AllSlots /\ x[1] = a
  BY <1>3 DEF AllSlots
<1>6. u \in Nat /\ u + 1 \in Nat
  BY DEF Pool!PoolAssumption
<1>7. PoolTypes'
  BY <1>4, <1>5, <1>6 DEF PoolTypes
<1>8. \A q \in Pools : used_'[q] = IF q = p THEN u + 1 ELSE used_[q]
  BY <1>4 DEF PoolTypes
<1>9. ArraysOwned'
  BY <1>1, <1>4, <1>5 DEF ArraysOwned
<1>10. ASSUME NEW q \in Pools, ptr_[q] # 0, ptr_[q] \notin cleared PROVE SlotsSplit(used_'[q], free_[q], HeldOf(held', ptr_[q]))
  <2>1. SlotsSplit(used_[q], free_[q], HeldOf(held, ptr_[q]))
    BY <1>10 DEF SlotsCounted
  <2>2. CASE q = p
    <3>1. HeldOf(held', a) = HeldOf(held, a) \cup {x} /\ HeldOf(held, a) \in SUBSET AllSlots
      BY <1>4, <1>5 DEF HeldOf, PoolTypes
    <3>2. SlotsSplit(u, <<>>, HeldOf(held, a))
      BY <1>1, <1>2, <1>4, <2>1, <2>2
    <3>3. SlotsSplit(u + 1, <<>>, HeldOf(held, a) \cup {x})
      BY <1>3, <1>6, <3>1, <3>2, SplitNew
    <3> QED BY <1>1, <1>4, <1>8, <2>2, <3>1, <3>3
  <2>3. CASE q # p
    <3>1. ptr_[q] # a
      BY <1>1, <1>4, <2>3 DEF ArraysOwned
    <3>2. HeldOf(held', ptr_[q]) = HeldOf(held, ptr_[q])
      BY <1>4, <1>5, <3>1 DEF HeldOf
    <3> QED BY <1>8, <2>1, <2>3, <3>2
  <2> QED BY <2>2, <2>3
<1>11. SlotsCounted'
  BY <1>4, <1>10 DEF SlotsCounted
<1> QED BY <1>7, <1>9, <1>11

\* release() and reuse(): the list t has one slot more.
LEMMA ReturnKeeps ==
    ASSUME Pool!PoolAssumption, SlotsInv, NEW p \in Pools, NEW x \in held, NEW t \in Seq(AllSlots), Pool!Return(p, x, t),
           Members(t) = Members(free_[p]) \cup {x}, Len(t) = Len(free_[p]) + 1,
           Once(free_[p]) /\ x \notin Members(free_[p]) => Once(t)
    PROVE  SlotsInv'
<1> USE DEF SlotsInv
<1>1. PICK f \in Seq(AllSlots) : f = free_[p]
  BY DEF PoolTypes
<1>2. /\ held' = held \ {x} /\ free_' = [free_ EXCEPT ![p] = t] /\ x[1] = ptr_[p]
      /\ UNCHANGED <<ptr_, dynamic_, used_, arrays, deleted, cleared>>
  BY DEF Pool!Return, Pool!Slots
<1>3. ptr_[p] # 0
  BY <1>2 DEF PoolTypes, AllSlots, Pool!PoolAssumption
<1>4. PoolTypes'
  BY <1>2 DEF PoolTypes
<1>5. \A q \in Pools : free_'[q] = IF q = p THEN t ELSE free_[q]
  BY <1>2 DEF PoolTypes
<1>6. ArraysOwned'
  BY <1>2, <1>5 DEF ArraysOwned
<1>7. ASSUME NEW q \in Pools, ptr_[q] # 0, ptr_[q] \notin cleared PROVE SlotsSplit(used_[q], free_'[q], HeldOf(held', ptr_[q]))
  <2>1. SlotsSplit(used_[q], free_[q], HeldOf(held, ptr_[q]))
    BY <1>7 DEF SlotsCounted
  <2>2. CASE q = p
    <3>1. PICK H : H = HeldOf(held, ptr_[p])
      OBVIOUS
    <3>2. HeldOf(held', ptr_[p]) = H \ {x} /\ x \in H
      BY <1>2, <3>1 DEF HeldOf
    <3>3. SlotsSplit(used_[p], f, H) /\ used_[p] \in Nat
      BY <1>1, <2>1, <2>2, <3>1 DEF PoolTypes
    <3>4. Once(t)
      BY <1>1, <3>2, <3>3 DEF SlotsSplit
    <3>5. SlotsSplit(used_[p], t, H \ {x})
      BY <1>1, <3>2, <3>3, <3>4, SplitBack
    <3> QED BY <1>5, <2>2, <3>2, <3>5
  <2>3. CASE q # p
    <3>1. ptr_[q] # ptr_[p]
      BY <1>3, <2>3 DEF ArraysOwned
    <3>2. HeldOf(held', ptr_[q]) = HeldOf(held, ptr_[q])
      BY <1>2, <3>1 DEF HeldOf
    <3> QED BY <1>5, <2>1, <2>3, <3>2
  <2> QED BY <2>2, <2>3
<1>8. SlotsCounted'
  BY <1>2, <1>7 DEF SlotsCounted
<1> QED BY <1>4, <1>6, <1>8

LEMMA ConstructKeeps ==
    ASSUME Pool!PoolAssumption, SlotsInv, NEW p \in Pools, NEW own \in BOOLEAN, Pool!Construct(p, own) PROVE SlotsInv'
<1> USE DEF SlotsInv
<1>1. PICK a \in 1..MaxArrays : a = arrays + 1
  BY DEF PoolTypes, Pool!Construct, Pool!PoolAssumption
<1>2. /\ arrays' = a /\ ptr_' = [ptr_ EXCEPT ![p] = a] /\ dynamic_' = [dynamic_ EXCEPT ![p] = own]
      /\ used_' = [used_ EXCEPT ![p] = 0] /\ free_' = [free_ EXCEPT ![p] = <<>>]
      /\ UNCHANGED <<deleted, held, cleared>> /\ ptr_[p] = 0
  BY <1>1 DEF Pool!Construct
<1>3. \A q \in Pools : /\ ptr_'[q] = (IF q = p THEN a ELSE ptr_[q]) /\ used_'[q] = (IF q = p THEN 0 ELSE used_[q])
                       /\ free_'[q] = (IF q = p THEN <<>> ELSE free_[q])
  BY <1>2 DEF PoolTypes
<1>4. PoolTypes'
  BY <1>2, OnceEmpty DEF PoolTypes, Pool!PoolAssumption
<1>5. \A n \in 0..arrays : n <= a /\ n # a
  BY <1>1 DEF PoolTypes
<1>6. \A q \in Pools : ptr_[q] \in 0..arrays
  BY DEF PoolTypes, ArraysOwned, Pool!PoolAssumption
<1>7. \A s \in held : s[1] <= a /\ s[1] # a
  <2>1. \A s \in held : s[1] \in 0..arrays
    BY DEF PoolTypes, ArraysOwned, AllSlots, Pool!PoolAssumption
  <2> QED BY <1>5, <2>1
<1>8. ArraysOwned'
  <2>1. deleted \subseteq 1..a /\ a \notin deleted
    BY <1>1 DEF PoolTypes, ArraysOwned, Pool!PoolAssumption
  <2>2. \A q \in Pools : ptr_'[q] <= a /\ ptr_'[q] \notin deleted
    BY <1>1, <1>3, <1>5, <1>6, <2>1 DEF ArraysOwned
  <2>3. \A q \in Pools : \A s \in Members(free_'[q]) : s[1] = ptr_'[q]
    BY <1>3, OnceEmpty DEF ArraysOwned
  <2>4. \A q, o \in Pools : q # o /\ ptr_'[q] # 0 => ptr_'[q] # ptr_'[o]
    BY <1>3, <1>5, <1>6 DEF ArraysOwned
  <2> QED BY <1>2, <1>7, <2>1, <2>2, <2>3, <2>4 DEF ArraysOwned
<1>9. HeldOf(held, a) = {}
  BY <1>7 DEF HeldOf
<1>10. SlotsCounted'
  <2>1. ASSUME NEW q \in Pools, ptr_'[q] # 0, ptr_'[q] \notin cleared PROVE SlotsSplit(used_'[q], free_'[q], HeldOf(held, ptr_'[q]))
    <3>1. CASE q = p
      BY <1>3, <1>9, <3>1, NoneSplit
    <3>2. CASE q # p
      BY <1>3, <2>1, <3>2 DEF SlotsCounted
    <3> QED BY <3>1, <3>2
  <2> QED BY <1>2, <2>1 DEF SlotsCounted
<1> QED BY <1>4, <1>8, <1>10

\* clear() starts again; slots still outside are what `cleared' is for.
LEMMA ClearKeeps == ASSUME Pool!PoolAssumption, SlotsInv, NEW p \in Pools, Pool!Clear(p) PROVE SlotsInv'
<1> USE DEF SlotsInv
<1>1. /\ used_' = [used_ EXCEPT ![p] = 0] /\ free_' = [free_ EXCEPT ![p] = <<>>]
      /\ UNCHANGED <<ptr_, dynamic_, arrays, deleted, held>>
  BY DEF Pool!Clear
<1>2. \A q \in Pools : used_'[q] = (IF q = p THEN 0 ELSE used_[q]) /\ free_'[q] = (IF q = p THEN <<>> ELSE free_[q])
  BY <1>1 DEF PoolTypes
<1>3. PoolTypes'
  BY <1>1, OnceEmpty DEF PoolTypes
<1>4. ArraysOwned'
  BY <1>1, <1>2, OnceEmpty DEF ArraysOwned
<1>5. HeldOf(held, ptr_[p]) = held \cap Pool!Slots(p)
  BY DEF PoolTypes, AllSlots, HeldOf, Pool!Slots
<1>6. cleared \subseteq cleared' /\ (ptr_[p] \notin cleared' => HeldOf(held, ptr_[p]) = {})
  BY <1>5 DEF Pool!Clear
<1>7. SlotsCounted'
  BY <1>1, <1>2, <1>6, NoneSplit DEF SlotsCounted
<1> QED BY <1>3, <1>4, <1>7

\* What a pool deletes is no other pool's.
LEMMA LetGo ==
    ASSUME Pool!PoolAssumption, SlotsInv, NEW p \in Pools
    PROVE  /\ Pool!DeletedBy(p) \subseteq 1..arrays /\ Pool!StillHeld(p) \subseteq held
           /\ \A q \in Pools : q # p => /\ ptr_[q] \notin Pool!DeletedBy(p)
                                        /\ HeldOf(Pool!StillHeld(p), ptr_[q]) = HeldOf(held, ptr_[q])
<1>1. Pool!DeletedBy(p) \subseteq {ptr_[p]} /\ 0 \notin Pool!DeletedBy(p)
  BY DEF Pool!DeletedBy
<1>2. ptr_[p] \in 0..arrays
  BY DEF SlotsInv, PoolTypes, ArraysOwned, Pool!PoolAssumption
<1>3. Pool!DeletedBy(p) \subseteq 1..arrays
  BY <1>1, <1>2 DEF SlotsInv, PoolTypes
<1>4. \A q \in Pools : q # p => ptr_[q] \notin Pool!DeletedBy(p)
  BY <1>1 DEF SlotsInv, ArraysOwned
<1>5. Pool!StillHeld(p) \subseteq held
  BY DEF Pool!StillHeld
<1>6. \A q \in Pools : q # p => HeldOf(Pool!StillHeld(p), ptr_[q]) = HeldOf(held, ptr_[q])
  BY <1>4 DEF Pool!StillHeld, HeldOf
<1> QED BY <1>3, <1>4, <1>5, <1>6

LEMMA DestroyKeeps == ASSUME Pool!PoolAssumption, SlotsInv, NEW p \in Pools, Pool!Destroy(p) PROVE SlotsInv'
<1> USE DEF SlotsInv
<1>1. PICK D, H : D = Pool!DeletedBy(p) /\ H = Pool!StillHeld(p)
  OBVIOUS
<1>2. /\ deleted' = deleted \cup D /\ held' = H
      /\ ptr_' = [ptr_ EXCEPT ![p] = 0] /\ free_' = [free_ EXCEPT ![p] = <<>>]
      /\ used_' = [used_ EXCEPT ![p] = 0] /\ dynamic_' = [dynamic_ EXCEPT ![p] = FALSE]
      /\ UNCHANGED <<arrays, cleared>>
  BY <1>1 DEF Pool!Destroy
<1>3. /\ D \subseteq 1..arrays /\ H \subseteq held
      /\ \A q \in Pools : q # p => ptr_[q] \notin D /\ HeldOf(H, ptr_[q]) = HeldOf(held, ptr_[q])
  BY <1>1, LetGo
<1>4. \A q \in Pools : /\ ptr_'[q] = (IF q = p THEN 0 ELSE ptr_[q]) /\ used_'[q] = (IF q = p THEN 0 ELSE used_[q])
                       /\ free_'[q] = (IF q = p THEN <<>> ELSE free_[q])
  BY <1>2 DEF PoolTypes
<1>5. PoolTypes'
  BY <1>2, <1>3, OnceEmpty DEF PoolTypes, Pool!PoolAssumption
<1>6. ArraysOwned'
  <2>1. deleted' \subseteq 1..arrays /\ 0 \notin deleted' /\ 0 <= arrays
    BY <1>2, <1>3 DEF PoolTypes, ArraysOwned
  <2>2. \A q \in Pools : ptr_'[q] <= arrays /\ ptr_'[q] \notin deleted'
    BY <1>2, <1>3, <1>4, <2>1 DEF ArraysOwned
  <2>3. \A q \in Pools : \A s \in Members(free_'[q]) : s[1] = ptr_'[q]
    BY <1>4, OnceEmpty DEF ArraysOwned
  <2>4. \A q, o \in Pools : q # o /\ ptr_'[q] # 0 => ptr_'[q] # ptr_'[o]
    BY <1>4 DEF ArraysOwned
  <2>5. \A s \in H : s[1] <= arrays
    BY <1>3 DEF ArraysOwned
  <2> QED BY <1>2, <2>1, <2>2, <2>3, <2>4, <2>5 DEF ArraysOwned
<1>7. SlotsCounted'
  BY <1>2, <1>3, <1>4 DEF SlotsCounted
<1> QED BY <1>5, <1>6, <1>7

LEMMA PoolMoveKeeps ==
    ASSUME Pool!PoolAssumption, SlotsInv, NEW p \in Pools, NEW q \in Pools, Pool!Move(p, q) PROVE SlotsInv'
<1> USE DEF SlotsInv
<1>1. PICK D, H : D = Pool!DeletedBy(p) /\ H = Pool!StillHeld(p)
  OBVIOUS
<1>2. /\ p # q /\ ptr_[q] # 0 /\ deleted' = deleted \cup D /\ held' = H
      /\ ptr_' = [ptr_ EXCEPT ![p] = ptr_[q], ![q] = 0] /\ used_' = [used_ EXCEPT ![p] = used_[q], ![q] = 0]
      /\ dynamic_' = [dynamic_ EXCEPT ![p] = dynamic_[q], ![q] = FALSE] /\ free_' = [free_ EXCEPT ![p] = free_[q], ![q] = <<>>]
      /\ UNCHANGED <<arrays, cleared>>
  BY <1>1 DEF Pool!Move, Pool!FreeMoved
<1>3. /\ D \subseteq 1..arrays /\ H \subseteq held
      /\ \A r \in Pools : r # p => ptr_[r] \notin D /\ HeldOf(H, ptr_[r]) = HeldOf(held, ptr_[r])
  BY <1>1, LetGo
<1>4. \A r \in Pools : r # p /\ r # q => ptr_'[r] = ptr_[r] /\ used_'[r] = used_[r] /\ free_'[r] = free_[r]
  BY <1>2 DEF PoolTypes
<1>5. /\ ptr_'[q] = 0 /\ used_'[q] = 0 /\ free_'[q] = <<>>
      /\ ptr_'[p] = ptr_[q] /\ used_'[p] = used_[q] /\ free_'[p] = free_[q]
  BY <1>2 DEF PoolTypes
<1>6. PoolTypes'
  <2>1. ptr_' \in [Pools -> 0..MaxArrays] /\ used_' \in [Pools -> Nat]
    BY <1>2 DEF PoolTypes, Pool!PoolAssumption
  <2>2. dynamic_' \in [Pools -> BOOLEAN]
    BY <1>2 DEF PoolTypes
  <2>3. free_' \in [Pools -> Seq(AllSlots)]
    BY <1>2, OnceEmpty DEF PoolTypes
  <2> QED BY <1>2, <1>3, <2>1, <2>2, <2>3 DEF PoolTypes
<1>7. ASSUME NEW r \in Pools, r # q
      PROVE  \E o \in Pools : /\ o # p /\ o = (IF r = p THEN q ELSE r)
                              /\ ptr_'[r] = ptr_[o] /\ used_'[r] = used_[o] /\ free_'[r] = free_[o]
  BY <1>2, <1>4, <1>5, <1>7
<1>8. ArraysOwned'
  <2>1. deleted' \subseteq 1..arrays /\ 0 \notin deleted' /\ 0 <= arrays
    BY <1>2, <1>3 DEF PoolTypes, ArraysOwned
  <2>2. ASSUME NEW r \in Pools PROVE ptr_'[r] <= arrays /\ ptr_'[r] \notin deleted' /\ \A s \in Members(free_'[r]) : s[1] = ptr_'[r]
    <3>1. CASE r = q
      BY <1>5, <2>1, <3>1, OnceEmpty
    <3>2. CASE r # q
      <4>1. PICK o \in Pools : o # p /\ ptr_'[r] = ptr_[o] /\ free_'[r] = free_[o]
        BY <1>7, <3>2
      <4>2. ptr_[o] <= arrays /\ ptr_[o] \notin deleted /\ \A s \in Members(free_[o]) : s[1] = ptr_[o]
        BY DEF ArraysOwned
      <4>3. ptr_[o] \notin deleted'
        BY <1>2, <1>3, <4>1, <4>2
      <4> QED BY <4>1, <4>2, <4>3
    <3> QED BY <3>1, <3>2
  <2>3. ASSUME NEW r \in Pools, NEW o \in Pools, r # o, ptr_'[r] # 0 PROVE ptr_'[r] # ptr_'[o]
    <3>1. r # q
      BY <1>5, <2>3
    <3>2. PICK a \in Pools : a = (IF r = p THEN q ELSE r) /\ ptr_'[r] = ptr_[a]
      BY <1>7, <3>1
    <3>3. CASE o = q
      BY <1>5, <2>3, <3>3
    <3>4. CASE o # q
      <4>1. PICK b \in Pools : b = (IF o = p THEN q ELSE o) /\ ptr_'[o] = ptr_[b]
        BY <1>7, <3>4
      <4>2. a # b /\ ptr_[a] # 0
        BY <2>3, <3>1, <3>2, <3>4, <4>1
      <4> QED BY <3>2, <4>1, <4>2 DEF ArraysOwned
    <3> QED BY <3>3, <3>4
  <2>4. \A s \in H : s[1] <= arrays
    BY <1>3 DEF ArraysOwned
  <2> QED BY <1>2, <2>1, <2>2, <2>3, <2>4 DEF ArraysOwned
<1>9. ASSUME NEW r \in Pools, ptr_'[r] # 0, ptr_'[r] \notin cleared PROVE SlotsSplit(used_'[r], free_'[r], HeldOf(H, ptr_'[r]))
  <2>1. r # q
    BY <1>5, <1>9
  <2>2. PICK o \in Pools : o # p /\ ptr_'[r] = ptr_[o] /\ used_'[r] = used_[o] /\ free_'[r] = free_[o]
    BY <1>7, <2>1
  <2>3. SlotsSplit(used_[o], free_[o], HeldOf(held, ptr_[o]))
    BY <1>9, <2>2 DEF SlotsCounted
  <2> QED BY <1>3, <2>2, <2>3
<1>10. SlotsCounted'
  BY <1>2, <1>9 DEF SlotsCounted
<1> QED BY <1>6, <1>8, <1>10

LEMMA SlotsStep == ASSUME Pool!PoolAssumption, SlotsInv, [Pool!PoolNext]_(Pool!poolVars) PROVE SlotsInv'
<1>1. CASE UNCHANGED Pool!poolVars
  BY <1>1 DEF Pool!poolVars, SlotsInv, PoolTypes, ArraysOwned, SlotsCounted
<1>2. ASSUME NEW p \in Pools, NEW x \in held, Pool!Release(p, x) \/ Pool!Reuse(p, x) PROVE SlotsInv'
  <2>1. PICK f \in Seq(AllSlots) : f = free_[p]
    BY DEF SlotsInv, PoolTypes
  <2>2. x \in AllSlots
    BY DEF SlotsInv, PoolTypes
  <2>3. CASE Pool!Release(p, x)
    <3>1. PICK t : t = Append(f, x)
      OBVIOUS
    <3>2. t \in Seq(AllSlots) /\ Members(t) = Members(f) \cup {x} /\ Len(t) = Len(f) + 1 /\ (Once(f) /\ x \notin Members(f) => Once(t))
      BY <2>2, <3>1, OnceLast
    <3>3. Pool!Return(p, x, t)
      BY <2>1, <2>3, <3>1 DEF Pool!Release
    <3> QED BY <2>1, <3>2, <3>3, ReturnKeeps
  <2>4. CASE Pool!Reuse(p, x)
    <3>1. PICK t : t = <<x>> \o f
      OBVIOUS
    <3>2. t \in Seq(AllSlots) /\ Members(t) = Members(f) \cup {x} /\ Len(t) = Len(f) + 1 /\ (Once(f) /\ x \notin Members(f) => Once(t))
      <4>1. t \in Seq(AllSlots) /\ Members(t) = {x} \cup Members(f)
        BY <2>2, <3>1, MembersFirst
      <4>2. Len(t) = Len(f) + 1
        BY <2>2, <3>1
      <4>3. Once(f) /\ x \notin Members(f) => Once(t)
        BY <2>2, <3>1, OnceFirst
      <4> QED BY <4>1, <4>2, <4>3
    <3>3. Pool!Return(p, x, t)
      BY <2>1, <2>4, <3>1 DEF Pool!Reuse
    <3> QED BY <2>1, <3>2, <3>3, ReturnKeeps
  <2> QED BY <1>2, <2>3, <2>4
<1>3. CASE Pool!PoolNext
  BY <1>2, <1>3, ConstructKeeps, GetFreeKeeps, GetNewKeeps, ClearKeeps, DestroyKeeps, PoolMoveKeeps DEF Pool!PoolNext
<1> QED BY <1>1, <1>3

-----------------------------------------------------------------------------
(* shared_mem. *)

MemPlace == {"none", "live", "wipe", "drop"}

MemTypes ==
    /\ array \in [Sharers -> 0..memMade] /\ memSize \in [Sharers -> Nat]
    /\ memPc \in [Sharers -> MemPlace] /\ memMade \in 0..MaxShared
    /\ written \in [1..MaxShared -> Nat]
    /\ wiped \subseteq 1..memMade /\ memFreed \subseteq 1..memMade /\ raced \subseteq 1..memMade

\* A handle knows the size of its block; without a block it is empty.
SizesKnown == \A h \in Sharers : memSize[h] = IF array[h] = 0 THEN 0 ELSE written[array[h]]

\* Nobody joins the handle that is about to wipe, and one that lets go of a block with
\* contents leaves it to a live handle, or it has been wiped, or two of them met.
WiperAlone ==
    /\ \A h \in Sharers : memPc[h] = "none" => array[h] = 0
    /\ \A h \in Sharers : memPc[h] = "wipe" => array[h] # 0 /\ \A g \in Sharers : array[g] = array[h] => g = h
    /\ \A h \in Sharers : memPc[h] = "drop" /\ memSize[h] > 0 /\ array[h] \notin wiped \cup raced
           => \E g \in Sharers : array[g] = array[h] /\ memPc[g] = "live"

UsersGone == \A n \in wiped : \A h \in Sharers : array[h] = n => memPc[h] = "drop"
FreedKnown == \A n \in memFreed : written[n] > 0 => n \in wiped \cup raced

MemInv == MemTypes /\ SizesKnown /\ WiperAlone /\ UsersGone /\ FreedKnown

LEMMA MemImplied == ASSUME MemInv PROVE Mem!WipedWhenLast
  BY DEF MemInv, UsersGone, FreedKnown, Mem!WipedWhenLast, Mem!Users

LEMMA MemStarts == ASSUME Mem!MemAssumption, Mem!MemInit PROVE MemInv
<1>1. 0 \in 0..MaxShared /\ 0 \in 0..0
  BY DEF Mem!MemAssumption
<1>2. MemTypes
  BY <1>1 DEF Mem!MemInit, MemTypes, MemPlace, Mem!Blocks
<1>3. SizesKnown /\ WiperAlone /\ UsersGone /\ FreedKnown
  BY DEF Mem!MemInit, SizesKnown, WiperAlone, UsersGone, FreedKnown
<1> QED BY <1>2, <1>3 DEF MemInv

LEMMA MemConstruct == ASSUME Mem!MemAssumption, MemInv, NEW h \in Sharers, NEW n \in Sizes, Mem!Construct(h, n) PROVE MemInv'
<1> USE DEF MemInv
<1>1. PICK b \in 1..MaxShared : b = memMade + 1
  BY DEF Mem!Construct, MemTypes, Mem!MemAssumption
<1>2. /\ memPc[h] = "none" /\ memMade' = b /\ array' = [array EXCEPT ![h] = b]
      /\ memSize' = [memSize EXCEPT ![h] = n] /\ written' = [written EXCEPT ![b] = n]
      /\ memPc' = [memPc EXCEPT ![h] = "live"] /\ UNCHANGED <<wiped, memFreed, raced>> /\ n \in Nat /\ b # 0
  BY <1>1 DEF Mem!Construct, Mem!MemAssumption
<1>3. \A m \in 0..memMade : m \in 0..b /\ m # b
  BY <1>1 DEF MemTypes
<1>0. \A m \in 1..memMade : m \in 1..MaxShared /\ m # b
  BY <1>1 DEF MemTypes, Mem!MemAssumption
<1>4. \A g \in Sharers : /\ array'[g] = (IF g = h THEN b ELSE array[g]) /\ memSize'[g] = (IF g = h THEN n ELSE memSize[g])
                         /\ memPc'[g] = (IF g = h THEN "live" ELSE memPc[g]) /\ array[g] # b
  BY <1>2, <1>3 DEF MemTypes
<1>5. \A m \in 1..MaxShared : written'[m] = IF m = b THEN n ELSE written[m]
  BY <1>2 DEF MemTypes
<1>6. MemTypes'
  <2>1. wiped \subseteq 1..b /\ memFreed \subseteq 1..b /\ raced \subseteq 1..b /\ b \in 0..MaxShared /\ b \in 0..b
    BY <1>1 DEF MemTypes
  <2> QED BY <1>2, <1>3, <2>1 DEF MemTypes, MemPlace
<1>7. b \notin wiped /\ b \notin memFreed /\ b \notin raced
  BY <1>0 DEF MemTypes
<1>8. SizesKnown'
  <2>1. \A g \in Sharers : array[g] # 0 => array[g] \in 1..MaxShared
    BY DEF MemTypes, Mem!MemAssumption
  <2> QED BY <1>2, <1>4, <1>5, <2>1 DEF SizesKnown
<1>9. WiperAlone'
  BY <1>2, <1>4 DEF WiperAlone
<1>10. UsersGone'
  BY <1>2, <1>4, <1>7 DEF UsersGone
<1>11. FreedKnown'
  <2>1. \A m \in memFreed : m \in 1..MaxShared
    BY <1>0 DEF MemTypes
  <2> QED BY <1>2, <1>5, <1>7, <2>1 DEF FreedKnown
<1> QED BY <1>6, <1>8, <1>9, <1>10, <1>11

LEMMA MemCopy ==
    ASSUME MemInv, NEW h \in Sharers, NEW g \in Sharers, Mem!Copy(h, g) PROVE MemInv'
<1> USE DEF MemInv
<1>1. /\ memPc[h] = "none" /\ memPc[g] = "live" /\ array' = [array EXCEPT ![h] = array[g]]
      /\ memSize' = [memSize EXCEPT ![h] = memSize[g]] /\ memPc' = [memPc EXCEPT ![h] = "live"]
      /\ UNCHANGED <<memMade, written, wiped, memFreed, raced>>
  BY DEF Mem!Copy
<1>2. \A k \in Sharers : /\ array'[k] = (IF k = h THEN array[g] ELSE array[k])
                         /\ memSize'[k] = (IF k = h THEN memSize[g] ELSE memSize[k])
                         /\ memPc'[k] = (IF k = h THEN "live" ELSE memPc[k])
  BY <1>1 DEF MemTypes
<1>3. MemTypes'
  BY <1>1 DEF MemTypes, MemPlace
<1>4. SizesKnown' /\ UsersGone' /\ FreedKnown'
  BY <1>1, <1>2 DEF SizesKnown, UsersGone, FreedKnown
<1>5. WiperAlone'
  BY <1>1, <1>2 DEF WiperAlone
<1> QED BY <1>3, <1>4, <1>5

\* Both moves: h has what g had, and whoever leaves a block is replaced or recorded.
LEMMA MemMove ==
    ASSUME Mem!MemAssumption, MemInv, NEW h \in Sharers, NEW g \in Sharers, Mem!MoveConstruct(h, g) \/ Mem!MoveAssign(h, g) PROVE MemInv'
<1> USE DEF MemInv
<1>1. /\ h # g /\ memPc[h] \in {"none", "live"} /\ memPc[g] = "live"
      /\ array' = [array EXCEPT ![h] = array[g], ![g] = 0] /\ memSize' = [memSize EXCEPT ![h] = memSize[g], ![g] = 0]
      /\ memPc' = [memPc EXCEPT ![h] = "live"] /\ UNCHANGED <<memMade, written, wiped>>
      /\ memFreed \subseteq memFreed' /\ raced' = raced \cup ({array[h]} \ {0})
      /\ \A n \in memFreed' \ memFreed : n = array[h] /\ n # 0
  <2>1. CASE Mem!MoveConstruct(h, g)
    BY <2>1 DEF Mem!MoveConstruct, WiperAlone
  <2>2. CASE Mem!MoveAssign(h, g)
    BY <2>2 DEF Mem!MoveAssign, Mem!FreedBy, MemTypes
  <2> QED BY <2>1, <2>2
<1>2. \A k \in Sharers : /\ array'[k] = (IF k = h THEN array[g] ELSE IF k = g THEN 0 ELSE array[k])
                         /\ memSize'[k] = (IF k = h THEN memSize[g] ELSE IF k = g THEN 0 ELSE memSize[k])
                         /\ memPc'[k] = (IF k = h THEN "live" ELSE memPc[k])
  BY <1>1 DEF MemTypes
<1>7. h # g /\ memPc[h] \in {"none", "live"} /\ memPc[g] = "live" /\ raced \subseteq raced' /\ wiped' = wiped
  BY <1>1
<1>3. MemTypes'
  <2>1. (array[h] # 0 => array[h] \in 1..memMade) /\ 0 \in 0..memMade
    BY DEF MemTypes, Mem!MemAssumption
  <2>2. memFreed' \subseteq 1..memMade /\ raced' \subseteq 1..memMade
    <3>1. /\ raced' = raced \cup ({array[h]} \ {0}) /\ \A n \in memFreed' \ memFreed : n = array[h] /\ n # 0
      BY <1>1
    <3> QED BY <2>1, <3>1 DEF MemTypes
  <2> QED BY <1>1, <2>2 DEF MemTypes, MemPlace
<1>4. SizesKnown' /\ UsersGone'
  <2>1. SizesKnown'
    <3>1. written' = written
      BY <1>1
    <3> QED BY <1>2, <1>7, <3>1 DEF SizesKnown
  <2>2. 0 \notin wiped
    BY DEF MemTypes
  <2>3. UsersGone'
    BY <1>2, <1>7, <2>2 DEF UsersGone
  <2> QED BY <2>1, <2>3
<1>5. FreedKnown'
  BY <1>1 DEF FreedKnown
<1>6. WiperAlone'
  <2>1. ASSUME NEW k \in Sharers, memPc'[k] = "drop", memSize'[k] > 0, array'[k] \notin wiped' \cup raced'
        PROVE  \E u \in Sharers : array'[u] = array'[k] /\ memPc'[u] = "live"
    <3>1. k # h /\ k # g /\ array'[k] = array[k] /\ memSize'[k] = memSize[k] /\ memPc[k] = "drop" /\ array[k] # 0
      BY <1>2, <1>7, <2>1 DEF SizesKnown
    <3>2. PICK u \in Sharers : array[u] = array[k] /\ memPc[u] = "live"
      BY <1>1, <2>1, <3>1 DEF WiperAlone
    <3>3. u # h
      BY <1>1, <2>1, <3>1, <3>2
    <3>4. CASE u = g
      BY <1>2, <3>1, <3>2, <3>4
    <3>5. CASE u # g
      BY <1>2, <3>1, <3>2, <3>3, <3>5
    <3> QED BY <3>4, <3>5
  <2>2. ASSUME NEW k \in Sharers, memPc'[k] = "wipe"
        PROVE  array'[k] # 0 /\ \A u \in Sharers : array'[u] = array'[k] => u = k
    BY <1>2, <1>7, <2>2 DEF WiperAlone
  <2>3. ASSUME NEW k \in Sharers, memPc'[k] = "none" PROVE array'[k] = 0
    BY <1>2, <1>7, <2>3 DEF WiperAlone
  <2> QED BY <2>1, <2>2, <2>3 DEF WiperAlone
<1> QED BY <1>3, <1>4, <1>5, <1>6

\* The use count is one exactly if nobody else has the block.
LEMMA LastAlone ==
    ASSUME Mem!MemAssumption, MemInv, NEW h \in Sharers
    PROVE  Mem!LastUser(h) <=> \A g \in Sharers : array[g] = array[h] => g = h
<1>1. \A X : Mem!Cardinality(X) = Cardinality(X) /\ (Mem!IsFiniteSet(X) <=> IsFiniteSet(X))
  BY DEF Mem!Cardinality, Cardinality, Mem!IsFiniteSet, IsFiniteSet
<1>2. PICK U : U = {g \in Sharers : array[g] = array[h]}
  OBVIOUS
<1>3. IsFiniteSet(U) /\ h \in U
  BY <1>1, <1>2, FS_Subset DEF Mem!MemAssumption
<1>4. Mem!LastUser(h) <=> Cardinality(U) = 1
  BY <1>1, <1>2 DEF Mem!LastUser, Mem!Users
<1>5. Cardinality(U) = 1 <=> \E x : U = {x}
  BY <1>3, FS_Singleton
<1> QED BY <1>2, <1>3, <1>4, <1>5

LEMMA MemDestroy ==
    ASSUME Mem!MemAssumption, MemInv, NEW h \in Sharers, Mem!DestroyTest(h) \/ Mem!DestroyWipe(h) \/ Mem!DestroyDrop(h)
    PROVE  MemInv'
<1> USE DEF MemInv
<1>0. array[h] # 0 => array[h] \in 1..memMade
  BY DEF MemTypes
<1>1. CASE Mem!DestroyTest(h)
  <2>1. PICK w \in {"wipe", "drop"} :
           /\ memPc[h] = "live" /\ memPc' = [memPc EXCEPT ![h] = w] /\ UNCHANGED <<array, memSize, memMade, written, wiped, memFreed>>
           /\ w = "wipe" <=> memSize[h] # 0 /\ \A g \in Sharers : array[g] = array[h] => g = h
           /\ raced' = IF \E g \in Sharers : array[g] = array[h] /\ g # h /\ memPc[g] \in {"wipe", "drop"}
                       THEN raced \cup ({array[h]} \ {0}) ELSE raced
    BY <1>1, LastAlone DEF Mem!DestroyTest, Mem!Users
  <2>2. \A k \in Sharers : memPc'[k] = IF k = h THEN w ELSE memPc[k]
    BY <2>1 DEF MemTypes
  <2>3. MemTypes'
    <3>1. raced' \subseteq 1..memMade /\ raced \subseteq raced'
      BY <1>0, <2>1 DEF MemTypes
    <3> QED BY <2>1, <3>1 DEF MemTypes, MemPlace
  <2>4. SizesKnown' /\ UsersGone' /\ FreedKnown'
    BY <2>1, <2>2 DEF SizesKnown, UsersGone, FreedKnown
  <2>5. ASSUME NEW k \in Sharers, memPc'[k] = "drop", memSize'[k] > 0, array'[k] \notin wiped' \cup raced'
        PROVE  \E u \in Sharers : array'[u] = array'[k] /\ memPc'[u] = "live"
    <3>1. array[k] # 0 /\ raced \subseteq raced'
      BY <2>1, <2>5 DEF SizesKnown
    <3>2. CASE k = h
      <4>1. PICK u \in Sharers : array[u] = array[h] /\ u # h
        BY <2>1, <2>2, <2>5, <3>2
      <4>2. memPc[u] \notin {"wipe", "drop"}
        BY <2>1, <2>5, <3>1, <3>2, <4>1
      <4>3. memPc[u] = "live"
        BY <3>1, <3>2, <4>1, <4>2 DEF WiperAlone, MemTypes, MemPlace
      <4> QED BY <2>1, <2>2, <3>2, <4>1, <4>3
    <3>3. CASE k # h
      <4>1. PICK u \in Sharers : array[u] = array[k] /\ memPc[u] = "live"
        BY <2>1, <2>2, <2>5, <3>1, <3>3 DEF WiperAlone
      <4>2. u # h
        BY <2>1, <2>2, <2>5, <3>1, <3>3, <4>1
      <4> QED BY <2>1, <2>2, <4>1, <4>2
    <3> QED BY <3>2, <3>3
  <2>6. ASSUME NEW k \in Sharers, memPc'[k] = "wipe"
        PROVE  array'[k] # 0 /\ \A u \in Sharers : array'[u] = array'[k] => u = k
    BY <2>1, <2>2, <2>6 DEF WiperAlone, SizesKnown
  <2>7. WiperAlone'
    BY <2>1, <2>2, <2>5, <2>6 DEF WiperAlone
  <2> QED BY <2>3, <2>4, <2>7
<1>2. CASE Mem!DestroyWipe(h)
  <2>1. /\ memPc[h] = "wipe" /\ memPc' = [memPc EXCEPT ![h] = "drop"] /\ wiped' = wiped \cup {array[h]}
        /\ UNCHANGED <<array, memSize, memMade, written, memFreed, raced>>
    BY <1>2 DEF Mem!DestroyWipe
  <2>2. \A k \in Sharers : memPc'[k] = IF k = h THEN "drop" ELSE memPc[k]
    BY <2>1 DEF MemTypes
  <2>3. array[h] # 0 /\ \A g \in Sharers : array[g] = array[h] => g = h
    BY <2>1 DEF WiperAlone
  <2>4. MemTypes'
    BY <1>0, <2>1, <2>3 DEF MemTypes, MemPlace
  <2>5. SizesKnown' /\ UsersGone' /\ FreedKnown'
    BY <2>1, <2>2, <2>3 DEF SizesKnown, UsersGone, FreedKnown
  <2>6. WiperAlone'
    BY <2>1, <2>2, <2>3 DEF WiperAlone
  <2> QED BY <2>4, <2>5, <2>6
<1>3. CASE Mem!DestroyDrop(h)
  <2>1. /\ memPc[h] = "drop" /\ memPc' = [memPc EXCEPT ![h] = "none"] /\ array' = [array EXCEPT ![h] = 0]
        /\ memSize' = [memSize EXCEPT ![h] = 0] /\ UNCHANGED <<memMade, written, wiped, raced>>
        /\ memFreed' = memFreed \/ (/\ array[h] # 0 /\ memFreed' = memFreed \cup {array[h]}
                                    /\ \A g \in Sharers : array[g] = array[h] => g = h)
    BY <1>3 DEF Mem!DestroyDrop, Mem!FreedBy, Mem!Users
  <2>2. \A k \in Sharers : /\ array'[k] = (IF k = h THEN 0 ELSE array[k]) /\ memSize'[k] = (IF k = h THEN 0 ELSE memSize[k])
                           /\ memPc'[k] = (IF k = h THEN "none" ELSE memPc[k])
    BY <2>1 DEF MemTypes
  <2>3. MemTypes'
    <3>1. 0 \in 0..memMade
      BY DEF MemTypes, Mem!MemAssumption
    <3>2. memFreed' \subseteq 1..memMade
      BY <1>0, <2>1 DEF MemTypes
    <3> QED BY <2>1, <3>1, <3>2 DEF MemTypes, MemPlace
  <2>4. SizesKnown'
    BY <2>1, <2>2 DEF SizesKnown
  <2>5. UsersGone'
    <3>1. 0 \notin wiped
      BY DEF MemTypes
    <3> QED BY <2>1, <2>2, <3>1 DEF UsersGone
  <2>6. FreedKnown'
    <3>1. ASSUME array[h] # 0, written[array[h]] > 0, \A g \in Sharers : array[g] = array[h] => g = h
          PROVE  array[h] \in wiped \cup raced
      <4>1. memSize[h] > 0
        BY <3>1 DEF SizesKnown
      <4> QED BY <2>1, <3>1, <4>1 DEF WiperAlone
    <3> QED BY <2>1, <3>1 DEF FreedKnown
  <2>7. WiperAlone'
    BY <2>1, <2>2 DEF WiperAlone
  <2> QED BY <2>3, <2>4, <2>5, <2>6, <2>7
<1> QED BY <1>1, <1>2, <1>3

LEMMA MemStep == ASSUME Mem!MemAssumption, MemInv, [Mem!MemNext]_(Mem!memVars) PROVE MemInv'
<1>1. CASE UNCHANGED Mem!memVars
  BY <1>1 DEF Mem!memVars, MemInv, MemTypes, SizesKnown, WiperAlone, UsersGone, FreedKnown
<1>2. CASE Mem!MemNext
  BY <1>2, MemConstruct, MemCopy, MemMove, MemDestroy DEF Mem!MemNext
<1> QED BY <1>1, <1>2

-----------------------------------------------------------------------------
(* The memory classes side by side. *)

LEMMA StepOfEachMemory ==
    ASSUME [DataNext]_<<focus, dataV>>
    PROVE  /\ [Pager!PagerNext]_(Pager!pagerVars) /\ [Pool!PoolNext]_(Pool!poolVars)
           /\ [Pool!ReuseNext]_(Pool!reuseVars) /\ [Mem!MemNext]_(Mem!memVars)
<1> USE DEF dataV, pagerV, poolV, memV, Pager!pagerVars, Pool!poolVars, Pool!reuseVars, Mem!memVars
<1>1. CASE UNCHANGED <<focus, dataV>>
  BY <1>1
<1>2. Pool!PoolNext => UNCHANGED Pool!reuseVars
  BY DEF Pool!PoolNext, Pool!Construct, Pool!GetFree, Pool!GetNew, Pool!Clear, Pool!Destroy, Pool!Release,
         Pool!Reuse, Pool!Return, Pool!Move
<1>3. Pool!ReuseNext => UNCHANGED Pool!poolVars
  BY DEF Pool!ReuseNext, Pool!Create, Pool!ClearSpare, Pool!ReleaseObject, Pool!MoveSpare
<1>4. CASE DataNext
  BY <1>2, <1>3, <1>4 DEF DataNext
<1> QED BY <1>1, <1>4

\* Through any moves of mempager, mempool, memreuse and shared_mem, a page, a slot or an
\* object is handed out to one user at a time and given back once, blocks of a page do not
\* overlap, and shared memory is wiped by its last user and under nobody else, for any
\* number of users and any sizes.  The exceptions are in MemoryKept: a mempool cleared
\* with slots outside, and shared memory that nobody wipes because its last two users
\* left at once, each seeing the other, or because a move assignment let it go.
THEOREM MemoryCorrect == DataSpec => []MemoryKept
<1> DEFINE Inv == PagesInv /\ SlotsInv /\ SparesInv /\ MemInv
<1>1. Pager!PagerAssumption /\ Pool!PoolAssumption /\ Mem!MemAssumption
  BY DataAssumption
<1>2. DataInit => Inv
  BY <1>1, PagesStart, SlotsStart, SparesStart, MemStarts DEF DataInit
<1>3. Inv /\ [DataNext]_<<focus, dataV>> => Inv'
  BY <1>1, StepOfEachMemory, PagesStep, SlotsStep, SparesStep, MemStep
<1>4. Inv => MemoryKept
  BY <1>1, PagesImplied, SlotsImplied, SparesImplied, MemImplied DEF MemoryKept
<1> QED BY <1>2, <1>3, <1>4, PTL DEF DataSpec

-----------------------------------------------------------------------------
(* dictionary_t. *)

DictPlaces == {"idle", "cas", "add", "walk", "unlink", "delete", "sub", "drop"}
DictOps == Dict!Readers \cup Dict!Writers \cup Dict!Removers
Links == Dict!Nodes \cup {Dict!Nil}

DictTypes ==
    /\ nodes \in 0..MaxNodes /\ dictCount \in Int /\ table \in Links
    /\ next \in [Dict!Nodes -> Links] /\ key \in [Dict!Nodes -> MapKeys]
    /\ dictPc \in [Mappers -> DictPlaces] /\ op \in [Mappers -> DictOps]
    /\ arg \in [Mappers -> MapKeys] /\ cur \in [Mappers -> Links]
    /\ prev \in [Mappers -> Links] /\ dictMade \in [Mappers -> Links]
    /\ there \in [Mappers -> SUBSET Dict!Nodes]

\* A remove() or a clear() under way is the only operation.
DictSolo ==
    \A t, u \in Mappers : (t # u /\ dictPc[t] # "idle" /\ op[t] \in Dict!Removers) => dictPc[u] = "idle"

\* Which operation can be where.
OpFits == \A t \in Mappers :
    /\ dictPc[t] \in {"cas", "add"} => op[t] \in Dict!Writers
    /\ dictPc[t] \in {"unlink", "delete", "sub"} => op[t] = "remove"
    /\ dictPc[t] = "drop" => op[t] = "clear"
    /\ dictPc[t] = "walk" => op[t] \notin {"insert", "clear"}

DictApart ==
    /\ live \subseteq 1..nodes /\ dictFreed \subseteq 1..nodes /\ live \cap dictFreed = {}
    /\ ~broken /\ ~missed

\* A node that is not published belongs to one thread.
FreshNodes ==
    /\ \A t \in Mappers : dictPc[t] = "cas" =>
          /\ dictMade[t] \in 1..nodes /\ dictMade[t] \notin live /\ dictMade[t] \notin dictFreed
          /\ key[dictMade[t]] = arg[t]
    /\ \A t, u \in Mappers : (t # u /\ dictPc[t] = "cas" /\ dictPc[u] = "cas") => dictMade[t] # dictMade[u]

\* r falls along the successors of the nodes in D, which stay in D.
Falls(r, D) == \A n \in D : next[n] \in D \cup {Dict!Nil} /\ (next[n] # Dict!Nil => r[next[n]] < r[n])

\* r numbers the live nodes from the end of the list to its head.
Ranked(r) ==
    /\ \A m, n \in live : r[m] = r[n] => m = n
    /\ Falls(r, live)
    /\ \A n, m \in live : r[m] < r[n] => next[n] # Dict!Nil /\ r[m] <= r[next[n]]
    /\ table \in live \cup {Dict!Nil}
    /\ \A n \in live : table # Dict!Nil /\ r[n] <= r[table]

\* What a search looks for is not behind it.
AheadOf(r) == \A t \in Mappers : dictPc[t] = "walk" =>
    /\ cur[t] \in live \cup {Dict!Nil}
    /\ op[t] # "each" => \A n \in there[t] \cap live : cur[t] # Dict!Nil /\ r[n] <= r[cur[t]]

Sought == \A t \in Mappers : dictPc[t] = "walk" =>
    /\ there[t] \subseteq 1..nodes
    /\ \A n \in there[t] : key[n] = Dict!Searched(op[t], arg[t]) /\ \A u \in Mappers : dictPc[u] = "cas" => n # dictMade[u]

Removing == \A t \in Mappers :
    /\ (dictPc[t] \in {"walk", "unlink"} /\ op[t] = "remove") =>
          IF prev[t] = Dict!Nil THEN cur[t] = table ELSE prev[t] \in live /\ next[prev[t]] = cur[t]
    /\ dictPc[t] = "unlink" => cur[t] \in live /\ dictMade[t] = next[cur[t]]
    /\ dictPc[t] = "delete" => cur[t] \in 1..nodes /\ cur[t] \notin live /\ cur[t] \notin dictFreed

\* clear() deletes nodes of a list that nobody else can reach.
DropsFrom(c, r, D) == c \in D \cup {Dict!Nil} /\ D \cap dictFreed = {} /\ Falls(r, D)
Dropping == \A t \in Mappers : dictPc[t] = "drop" =>
    live = {} /\ \E r \in [Dict!Nodes -> Nat], D \in SUBSET (1..nodes) : DropsFrom(cur[t], r, D)

DictAt(f, where) == Cardinality({t \in Mappers : f[t] \in where})

\* The two numbers that count_ is compared with.
Adding == DictAt(dictPc, {"add"})
Taking == DictAt(dictPc, {"delete", "sub"})

\* count_ lags behind the list by the operations that have yet to change it.
DictCounted ==
    (\A t \in Mappers : dictPc[t] # "drop") =>
        dictCount + Adding = Cardinality(live) + Taking

\* Two writers of one key come only with insert(), with an overlap or with a key that
\* try_emplace() has moved from ...
WriterPairs == \A t, u \in Mappers :
    (t # u /\ dictPc[t] # "idle" /\ dictPc[u] # "idle" /\ op[t] \in Dict!Writers
        /\ op[u] \in Dict!Writers /\ arg[t] = arg[u]) => arg[t] \in doubled
InsertDoubles == \A t \in Mappers :
    (dictPc[t] # "idle" /\ (op[t] = "insert" \/ Dict!Searched(op[t], arg[t]) # arg[t])) => arg[t] \in doubled

\* ... so a writer alone with its key has seen every node of it, and publishes the only one.
SearchCovers == \A t \in Mappers :
    (dictPc[t] = "walk" /\ op[t] \in Dict!Writers /\ arg[t] \notin doubled) =>
        \A n \in live : key[n] = arg[t] => n \in there[t]
CasAlone == \A t \in Mappers :
    (dictPc[t] = "cas" /\ arg[t] \notin doubled) => \A n \in live : key[n] # arg[t]
NodePairs == \A m, n \in live : (m # n /\ key[m] = key[n]) => key[m] \in doubled
KeysOnce == WriterPairs /\ InsertDoubles /\ SearchCovers /\ CasAlone /\ NodePairs

Listed == \E r \in [Dict!Nodes -> Nat] : Ranked(r) /\ AheadOf(r)

DictGood ==
    /\ DictTypes /\ DictSolo /\ OpFits /\ DictApart /\ FreshNodes /\ Listed
    /\ Sought /\ Removing /\ Dropping /\ DictCounted /\ KeysOnce

DictInv == Dict!RemovedAlone => DictGood

LEMMA DictCard == \A X : Dict!Cardinality(X) = Cardinality(X) /\ (Dict!IsFiniteSet(X) <=> IsFiniteSet(X))
BY DEF Dict!Cardinality, Cardinality, Dict!IsFiniteSet, IsFiniteSet

\* A thread that moves leaves the points it was at and is counted at those it comes to.
LEMMA DictMoves ==
    ASSUME Dict!DictAssumption, dictPc \in [Mappers -> DictPlaces], NEW t \in Mappers,
           \A u \in Mappers : u # t => dictPc'[u] = dictPc[u]
    PROVE  \A W : /\ DictAt(dictPc, W) \in Nat /\ DictAt(dictPc', W) \in Nat
                  /\ DictAt(dictPc', W) = DictAt(dictPc, W) + (IF dictPc'[t] \in W THEN 1 ELSE 0) - (IF dictPc[t] \in W THEN 1 ELSE 0)
<1> TAKE W
<1>1. IsFiniteSet(Mappers)
  BY DictCard DEF Dict!DictAssumption
<1>2. PICK A : A = {u \in Mappers : dictPc[u] \in W}
  OBVIOUS
<1>3. PICK B : B = {u \in Mappers : dictPc'[u] \in W}
  OBVIOUS
<1>4. IsFiniteSet(A) /\ IsFiniteSet(B) /\ Cardinality(A) \in Nat /\ Cardinality(B) \in Nat
  BY <1>1, <1>2, <1>3, FS_Subset, FS_CardinalityType
<1>5. DictAt(dictPc, W) = Cardinality(A) /\ DictAt(dictPc', W) = Cardinality(B)
  BY <1>2, <1>3 DEF DictAt
<1>6. \A u \in Mappers : dictPc'[u] = (IF u = t THEN dictPc'[t] ELSE dictPc[u])
  OBVIOUS
<1>7. (dictPc'[t] \in W <=> dictPc[t] \in W) => A = B
  BY <1>2, <1>3, <1>6
<1>8. (dictPc'[t] \in W /\ dictPc[t] \notin W) => B = A \cup {t} /\ t \notin A
  BY <1>2, <1>3, <1>6
<1>9. (dictPc'[t] \notin W /\ dictPc[t] \in W) => B = A \ {t} /\ t \in A
  BY <1>2, <1>3, <1>6
<1>10. (dictPc'[t] \in W /\ dictPc[t] \notin W) => Cardinality(B) = Cardinality(A) + 1
  BY <1>4, <1>8, FS_AddElement
<1>11. (dictPc'[t] \notin W /\ dictPc[t] \in W) => Cardinality(B) = Cardinality(A) - 1
  BY <1>4, <1>9, FS_RemoveElement
<1> QED BY <1>4, <1>5, <1>7, <1>10, <1>11

LEMMA DictShift ==
    ASSUME Dict!DictAssumption, dictPc \in [Mappers -> DictPlaces], NEW t \in Mappers,
           \A u \in Mappers : u # t => dictPc'[u] = dictPc[u]
    PROVE  /\ Adding \in Nat /\ Adding' \in Nat /\ Taking \in Nat /\ Taking' \in Nat
           /\ Adding' = Adding + (IF dictPc'[t] = "add" THEN 1 ELSE 0) - (IF dictPc[t] = "add" THEN 1 ELSE 0)
           /\ Taking' = Taking + (IF dictPc'[t] \in {"delete", "sub"} THEN 1 ELSE 0)
                        - (IF dictPc[t] \in {"delete", "sub"} THEN 1 ELSE 0)
<1>1. PICK W : W = {"add"}
  OBVIOUS
<1>2. PICK V : V = {"delete", "sub"}
  OBVIOUS
<1>3. Adding = DictAt(dictPc, W) /\ Adding' = DictAt(dictPc', W) /\ Taking = DictAt(dictPc, V) /\ Taking' = DictAt(dictPc', V)
  BY <1>1, <1>2 DEF Adding, Taking, DictAt
<1>4. /\ DictAt(dictPc, W) \in Nat /\ DictAt(dictPc', W) \in Nat
      /\ DictAt(dictPc', W) = DictAt(dictPc, W) + (IF dictPc'[t] \in W THEN 1 ELSE 0) - (IF dictPc[t] \in W THEN 1 ELSE 0)
  BY DictMoves, Zenon
<1>5. /\ DictAt(dictPc, V) \in Nat /\ DictAt(dictPc', V) \in Nat
      /\ DictAt(dictPc', V) = DictAt(dictPc, V) + (IF dictPc'[t] \in V THEN 1 ELSE 0) - (IF dictPc[t] \in V THEN 1 ELSE 0)
  BY DictMoves, Zenon
<1>6. (dictPc'[t] \in W <=> dictPc'[t] = "add") /\ (dictPc[t] \in W <=> dictPc[t] = "add")
  BY <1>1
<1> QED BY <1>2, <1>3, <1>4, <1>5, <1>6

LEMMA DictNowhere ==
    ASSUME NEW f, NEW W, \A t \in Mappers : f[t] \notin W PROVE DictAt(f, W) = 0
<1>1. {t \in Mappers : f[t] \in W} = {}
  OBVIOUS
<1> QED BY <1>1, FS_EmptySet DEF DictAt

LEMMA LiveFinite ==
    ASSUME Dict!DictAssumption, DictTypes, DictApart
    PROVE  IsFiniteSet(live) /\ Cardinality(live) \in Nat /\ live \subseteq Dict!Nodes /\ Dict!Nil \notin live
<1>1. nodes \in Nat /\ 1..nodes \subseteq Dict!Nodes
  BY DEF DictTypes, Dict!Nodes, Dict!DictAssumption
<1>2. IsFiniteSet(1..nodes)
  BY <1>1, FS_Interval
<1>3. IsFiniteSet(live)
  BY <1>2, FS_Subset DEF DictApart
<1> QED BY <1>1, <1>3, FS_CardinalityType DEF DictApart, Dict!Nodes, Dict!Nil

LEMMA DictStarts == ASSUME Dict!DictAssumption, Dict!DictInit PROVE DictInv
<1>0. MaxNodes \in Nat /\ Dict!AnyKey \in MapKeys
  BY DEF Dict!DictAssumption, Dict!AnyKey
<1>1. /\ live = {} /\ table = Dict!Nil /\ nodes = 0 /\ dictFreed = {} /\ dictCount = 0 /\ ~broken /\ ~missed
      /\ dictPc = [t \in Mappers |-> "idle"] /\ next = [n \in Dict!Nodes |-> Dict!Nil] /\ key = [n \in Dict!Nodes |-> Dict!AnyKey]
      /\ op = [t \in Mappers |-> "find"] /\ arg = [t \in Mappers |-> Dict!AnyKey] /\ cur = [t \in Mappers |-> Dict!Nil]
      /\ prev = [t \in Mappers |-> Dict!Nil] /\ dictMade = [t \in Mappers |-> Dict!Nil] /\ there = [t \in Mappers |-> {}]
  BY DEF Dict!DictInit
<1>2. \A t \in Mappers : dictPc[t] = "idle"
  BY <1>1
<1>3. DictTypes
  <2>1. nodes \in 0..MaxNodes /\ dictCount \in Int /\ table \in Links
    BY <1>0, <1>1 DEF Links
  <2>2. next \in [Dict!Nodes -> Links] /\ key \in [Dict!Nodes -> MapKeys] /\ arg \in [Mappers -> MapKeys]
    BY <1>0, <1>1 DEF Links
  <2>3. dictPc \in [Mappers -> DictPlaces] /\ op \in [Mappers -> DictOps]
    BY <1>1 DEF DictPlaces, DictOps, Dict!Readers
  <2>4. cur \in [Mappers -> Links] /\ prev \in [Mappers -> Links] /\ dictMade \in [Mappers -> Links]
    BY <1>1 DEF Links
  <2>5. there \in [Mappers -> SUBSET Dict!Nodes]
    BY <1>1
  <2> QED BY <2>1, <2>2, <2>3, <2>4, <2>5 DEF DictTypes
<1>4. DictSolo /\ OpFits /\ DictApart /\ FreshNodes /\ Sought /\ Removing /\ Dropping /\ KeysOnce
  BY <1>1, <1>2 DEF DictSolo, OpFits, DictApart, FreshNodes, Sought, Removing, Dropping, KeysOnce,
                    WriterPairs, InsertDoubles, SearchCovers, CasAlone, NodePairs
<1>5. DictCounted
  <2>1. Adding = 0 /\ Taking = 0
    BY <1>2, DictNowhere DEF Adding, Taking
  <2>2. Cardinality(live) = 0
    BY <1>1, FS_EmptySet
  <2> QED BY <1>1, <2>1, <2>2 DEF DictCounted
<1>6. Listed
  <2>1. PICK r \in [Dict!Nodes -> Nat] : r = [n \in Dict!Nodes |-> 0]
    OBVIOUS
  <2>2. Ranked(r) /\ AheadOf(r)
    BY <1>1, <1>2 DEF Ranked, Falls, AheadOf
  <2> QED BY <2>1, <2>2 DEF Listed
<1> QED BY <1>3, <1>4, <1>5, <1>6 DEF DictInv, DictGood

\* What an operation that begins must not meet, and what it leaves alone.
Begun(t, o, k) ==
    /\ o \in Dict!Removers => \A u \in Mappers : dictPc[u] = "idle"
    /\ \A u \in Mappers : dictPc[u] # "idle" => op[u] \notin Dict!Removers
    /\ dictPc[t] = "idle"
    /\ \A u \in Mappers : op'[u] = (IF u = t THEN o ELSE op[u])
    /\ \A u \in Mappers : arg'[u] = (IF u = t THEN k ELSE arg[u])
    /\ \A u \in Mappers : there'[u] = (IF u = t THEN {n \in live : key[n] = Dict!Searched(o, k)} ELSE there[u])
    /\ op' \in [Mappers -> DictOps] /\ arg' \in [Mappers -> MapKeys]
    /\ doubled \subseteq doubled'
    /\ (o = "insert" \/ Dict!Searched(o, k) # k) => k \in doubled'
    /\ o \in Dict!Writers => \A u \in Mappers :
          (dictPc[u] # "idle" /\ op[u] \in Dict!Writers /\ arg[u] = k) => k \in doubled'

LEMMA DictBegins ==
    ASSUME DictGood, NEW t \in Mappers, NEW o \in DictOps, NEW k \in MapKeys, Dict!Begin(t, o, k), Dict!RemovedAlone'
    PROVE  Begun(t, o, k)
<1>1. op \in [Mappers -> DictOps] /\ arg \in [Mappers -> MapKeys] /\ there \in [Mappers -> SUBSET Dict!Nodes]
  BY DEF DictGood, DictTypes
<1>2. /\ dictPc[t] = "idle" /\ op' = [op EXCEPT ![t] = o] /\ arg' = [arg EXCEPT ![t] = k]
      /\ there' = [there EXCEPT ![t] = {n \in live : key[n] = Dict!Searched(o, k)}]
  BY DEF Dict!Begin
<1>3. overlap' = IF Dict!Busy = {} THEN overlap ELSE overlap \cup {o} \cup {op[u] : u \in Dict!Busy}
  BY DEF Dict!Begin
<1>4. Dict!Busy = {u \in Mappers : dictPc[u] # "idle"}
  BY DEF Dict!Busy
<1>5. overlap' \cap Dict!Removers = {}
  BY DEF Dict!RemovedAlone
<1>7. o \in Dict!Removers => Dict!Busy = {}
  BY <1>3, <1>5
<1>8. \A u \in Dict!Busy : op[u] \notin Dict!Removers
  BY <1>3, <1>5
<1>9. doubled \subseteq doubled' /\ ((o = "insert" \/ Dict!Searched(o, k) # k) => k \in doubled')
  BY DEF Dict!Begin
<1>10. o \in Dict!Writers => \A u \in Mappers : (dictPc[u] # "idle" /\ op[u] \in Dict!Writers /\ arg[u] = k) => k \in doubled'
  BY <1>4 DEF Dict!Begin
<1>11. /\ \A u \in Mappers : op'[u] = (IF u = t THEN o ELSE op[u])
       /\ \A u \in Mappers : arg'[u] = (IF u = t THEN k ELSE arg[u])
       /\ \A u \in Mappers : there'[u] = (IF u = t THEN {n \in live : key[n] = Dict!Searched(o, k)} ELSE there[u])
       /\ op' \in [Mappers -> DictOps] /\ arg' \in [Mappers -> MapKeys]
  BY <1>1, <1>2
<1>12. o \in Dict!Removers => \A u \in Mappers : dictPc[u] = "idle"
  BY <1>4, <1>7
<1>13. \A u \in Mappers : dictPc[u] # "idle" => op[u] \notin Dict!Removers
  BY <1>4, <1>8
<1> QED BY <1>2, <1>9, <1>10, <1>11, <1>12, <1>13 DEF Begun

\* A new node is nobody's, and no list leads to it.
LEMMA DictNewNode ==
    ASSUME Dict!DictAssumption, DictGood, NEW t \in Mappers, NEW k \in MapKeys, Dict!NewNode(t, k)
    PROVE  \E n \in Dict!Nodes :
           /\ n = nodes + 1 /\ nodes' = n /\ n \in 1..nodes' /\ 1..nodes \subseteq 1..nodes' /\ n \notin 1..nodes /\ n \notin live /\ n \notin dictFreed
           /\ nodes' \in 0..MaxNodes
           /\ \A u \in Mappers : dictMade'[u] = (IF u = t THEN n ELSE dictMade[u])
           /\ \A u \in Mappers : dictPc'[u] = (IF u = t THEN "cas" ELSE dictPc[u])
           /\ \A m \in Dict!Nodes : key'[m] = (IF m = n THEN k ELSE key[m])
           /\ \A m \in Dict!Nodes : next'[m] = (IF m = n THEN table ELSE next[m])
           /\ dictPc' = [dictPc EXCEPT ![t] = "cas"]
           /\ dictMade' \in [Mappers -> Links] /\ dictPc' \in [Mappers -> DictPlaces]
           /\ key' \in [Dict!Nodes -> MapKeys] /\ next' \in [Dict!Nodes -> Links]
<1>1. MaxNodes \in Nat /\ nodes \in 0..MaxNodes
  BY DEF DictGood, DictTypes, Dict!DictAssumption
<1>2. /\ nodes < MaxNodes /\ nodes' = nodes + 1 /\ dictMade' = [dictMade EXCEPT ![t] = nodes + 1]
      /\ key' = [key EXCEPT ![nodes + 1] = k] /\ next' = [next EXCEPT ![nodes + 1] = table]
      /\ dictPc' = [dictPc EXCEPT ![t] = "cas"]
  BY DEF Dict!NewNode, Dict!Goto
<1>3. PICK n \in Dict!Nodes : n = nodes + 1
  BY <1>1, <1>2 DEF Dict!Nodes
<1>4. /\ n \in 1..nodes' /\ 1..nodes \subseteq 1..nodes' /\ n \notin 1..nodes /\ nodes' \in 0..MaxNodes
  BY <1>1, <1>2, <1>3
<1>5. n \notin live /\ n \notin dictFreed
  BY <1>4 DEF DictGood, DictApart
<1>6. /\ table \in Links /\ next \in [Dict!Nodes -> Links] /\ key \in [Dict!Nodes -> MapKeys]
      /\ dictPc \in [Mappers -> DictPlaces] /\ dictMade \in [Mappers -> Links] /\ n \in Links
  BY <1>3 DEF DictGood, DictTypes, Links
<1>7. dictMade' \in [Mappers -> Links] /\ \A u \in Mappers : dictMade'[u] = (IF u = t THEN n ELSE dictMade[u])
  BY <1>2, <1>3, <1>6
<1>8. key' \in [Dict!Nodes -> MapKeys] /\ \A m \in Dict!Nodes : key'[m] = (IF m = n THEN k ELSE key[m])
  BY <1>2, <1>3, <1>6
<1>9. next' \in [Dict!Nodes -> Links] /\ \A m \in Dict!Nodes : next'[m] = (IF m = n THEN table ELSE next[m])
  BY <1>2, <1>3, <1>6
<1>10. dictPc' \in [Mappers -> DictPlaces] /\ \A u \in Mappers : dictPc'[u] = (IF u = t THEN "cas" ELSE dictPc[u])
  BY <1>2, <1>6 DEF DictPlaces
<1> QED BY <1>2, <1>3, <1>4, <1>5, <1>7, <1>8, <1>9, <1>10

\* The head of the list and the live nodes unchanged, and the successors of the live nodes.
LEMMA RankedKept ==
    ASSUME DictGood, NEW r, Ranked(r), live' = live, table' = table, \A m \in live : next'[m] = next[m]
    PROVE  Ranked(r)'
BY DEF Ranked, Falls

LEMMA DictInsertStep ==
    ASSUME Dict!DictAssumption, DictGood, NEW t \in Mappers, NEW k \in MapKeys, Dict!Insert(t, k), Dict!RemovedAlone'
    PROVE  DictGood'
<1>1. /\ DictTypes /\ DictSolo /\ OpFits /\ DictApart /\ FreshNodes /\ Listed
      /\ Sought /\ Removing /\ Dropping /\ DictCounted /\ KeysOnce
  BY DEF DictGood
<1>2. Dict!Begin(t, "insert", k) /\ Dict!NewNode(t, k) /\ UNCHANGED <<table, dictCount, dictFreed, cur, prev, live, broken, missed>>
  BY DEF Dict!Insert
<1>3. "insert" \in DictOps /\ "insert" \in Dict!Writers /\ "insert" \notin Dict!Removers
  BY DEF DictOps, Dict!Writers, Dict!Removers
<1>0. PICK o \in DictOps : o = "insert"
  BY <1>3
<1>00. Begun(t, o, k)
  BY <1>0, <1>2, DictBegins
<1>4. /\ \A u \in Mappers : dictPc[u] # "idle" => op[u] \notin Dict!Removers
      /\ dictPc[t] = "idle"
      /\ \A u \in Mappers : op'[u] = (IF u = t THEN "insert" ELSE op[u])
      /\ \A u \in Mappers : arg'[u] = (IF u = t THEN k ELSE arg[u])
      /\ \A u \in Mappers : there'[u] = (IF u = t THEN {n \in live : key[n] = Dict!Searched(o, k)} ELSE there[u])
      /\ op' \in [Mappers -> DictOps] /\ arg' \in [Mappers -> MapKeys]
      /\ doubled \subseteq doubled' /\ k \in doubled'
  BY <1>00, <1>0 DEF Begun
<1>5. PICK n \in Dict!Nodes :
           /\ n = nodes + 1 /\ nodes' = n /\ n \in 1..nodes' /\ 1..nodes \subseteq 1..nodes' /\ n \notin 1..nodes /\ n \notin live /\ n \notin dictFreed
           /\ nodes' \in 0..MaxNodes
           /\ \A u \in Mappers : dictMade'[u] = (IF u = t THEN n ELSE dictMade[u])
           /\ \A u \in Mappers : dictPc'[u] = (IF u = t THEN "cas" ELSE dictPc[u])
           /\ \A m \in Dict!Nodes : key'[m] = (IF m = n THEN k ELSE key[m])
           /\ \A m \in Dict!Nodes : next'[m] = (IF m = n THEN table ELSE next[m])
           /\ dictPc' = [dictPc EXCEPT ![t] = "cas"]
           /\ dictMade' \in [Mappers -> Links] /\ dictPc' \in [Mappers -> DictPlaces]
           /\ key' \in [Dict!Nodes -> MapKeys] /\ next' \in [Dict!Nodes -> Links]
  BY <1>2, DictNewNode
<1>6. live \subseteq Dict!Nodes /\ {m \in live : key[m] = k} \in SUBSET Dict!Nodes
  BY <1>1, LiveFinite
<1>7. DictTypes'
  <2>1. there' \in [Mappers -> SUBSET Dict!Nodes]
    BY <1>1, <1>2, <1>6 DEF Dict!Begin, DictTypes
  <2> QED BY <1>1, <1>2, <1>4, <1>5, <2>1 DEF DictTypes
<1>8. DictSolo'
  BY <1>1, <1>3, <1>4, <1>5 DEF DictSolo
<1>9. OpFits'
  BY <1>1, <1>3, <1>4, <1>5 DEF OpFits
<1>10. DictApart'
  BY <1>1, <1>2, <1>5 DEF DictApart
<1>11. \A u \in Mappers : dictPc[u] = "cas" => dictMade[u] # n /\ dictMade[u] \in Dict!Nodes
  BY <1>1, <1>5 DEF FreshNodes, DictTypes, Links, Dict!Nil
<1>12. FreshNodes'
  BY <1>1, <1>2, <1>4, <1>5, <1>11 DEF FreshNodes
<1>13. Listed'
  <2>1. PICK r \in [Dict!Nodes -> Nat] : Ranked(r) /\ AheadOf(r)
    BY <1>1 DEF Listed
  <2>2. Ranked(r)'
    BY <1>2, <1>5, <1>6, <2>1, RankedKept
  <2>3. AheadOf(r)'
    BY <1>2, <1>4, <1>5, <2>1 DEF AheadOf
  <2> QED BY <2>1, <2>2, <2>3 DEF Listed
<1>14. Sought'
  <2>1. \A u \in Mappers : there[u] \in SUBSET Dict!Nodes
    BY <1>1 DEF DictTypes
  <2>2. \A u \in Mappers : dictPc'[u] = "walk" =>
            u # t /\ dictPc[u] = "walk" /\ there'[u] = there[u] /\ arg'[u] = arg[u] /\ op'[u] = op[u]
    BY <1>4, <1>5
  <2>3. \A u \in Mappers : dictPc[u] = "walk" => there[u] \subseteq 1..nodes /\ n \notin there[u]
    BY <1>1, <1>5 DEF Sought
  <2>4. \A u \in Mappers : dictPc[u] = "walk" => \A m \in there[u] : key'[m] = key[m]
    BY <1>5, <2>1, <2>3
  <2> QED BY <1>1, <1>5, <2>2, <2>3, <2>4 DEF Sought
<1>15. Removing'
  BY <1>1, <1>2, <1>4, <1>5, <1>6 DEF Removing, OpFits, Dict!Removers
<1>16. Dropping'
  BY <1>1, <1>4, <1>5 DEF Dropping, OpFits, Dict!Removers
<1>17. DictCounted'
  <2>1. dictPc \in [Mappers -> DictPlaces] /\ dictPc[t] = "idle" /\ dictPc'[t] = "cas" /\ \A u \in Mappers : u # t => dictPc'[u] = dictPc[u]
    BY <1>1, <1>4, <1>5 DEF DictTypes
  <2>2. Adding' = Adding /\ Taking' = Taking
    BY <2>1, DictShift
  <2> QED BY <1>1, <1>2, <1>4, <1>5, <2>2 DEF DictCounted
<1>18. KeysOnce'
  <2> USE DEF KeysOnce
  <2>1. WriterPairs'
    BY <1>1, <1>4, <1>5 DEF WriterPairs
  <2>2. InsertDoubles'
    BY <1>1, <1>4, <1>5 DEF InsertDoubles
  <2>3. SearchCovers'
    BY <1>1, <1>2, <1>4, <1>5, <1>6 DEF SearchCovers
  <2>4. CasAlone'
    BY <1>1, <1>2, <1>4, <1>5, <1>6 DEF CasAlone
  <2>5. NodePairs'
    <3>1. live' = live /\ doubled \subseteq doubled' /\ \A m \in live : key'[m] = key[m]
      BY <1>2, <1>4, <1>5, <1>6
    <3> QED BY <1>1, <3>1 DEF NodePairs
  <2> QED BY <2>1, <2>2, <2>3, <2>4, <2>5
<1> QED BY <1>7, <1>8, <1>9, <1>10, <1>12, <1>13, <1>14, <1>15, <1>16, <1>17, <1>18 DEF DictGood

\* A search begins at the head, above every node of its key.
LEMMA DictWalkStep ==
    ASSUME Dict!DictAssumption, DictGood, NEW t \in Mappers, NEW o \in DictOps, o \notin {"insert", "clear"},
           NEW k \in MapKeys, Dict!Walk(t, o, k), Dict!RemovedAlone'
    PROVE  DictGood'
<1>1. /\ DictTypes /\ DictSolo /\ OpFits /\ DictApart /\ FreshNodes /\ Listed
      /\ Sought /\ Removing /\ Dropping /\ DictCounted /\ KeysOnce
  BY DEF DictGood
<1>2. Dict!Begin(t, o, k) /\ UNCHANGED <<table, next, key, dictCount, dictFreed, dictMade, nodes, live, broken, missed>>
  BY DEF Dict!Walk
<1>3. Begun(t, o, k)
  BY <1>2, DictBegins
<1>4. /\ o \in Dict!Removers => \A u \in Mappers : dictPc[u] = "idle"
      /\ \A u \in Mappers : dictPc[u] # "idle" => op[u] \notin Dict!Removers
      /\ dictPc[t] = "idle"
      /\ \A u \in Mappers : op'[u] = (IF u = t THEN o ELSE op[u])
      /\ \A u \in Mappers : arg'[u] = (IF u = t THEN k ELSE arg[u])
      /\ \A u \in Mappers : there'[u] = (IF u = t THEN {n \in live : key[n] = Dict!Searched(o, k)} ELSE there[u])
      /\ op' \in [Mappers -> DictOps] /\ arg' \in [Mappers -> MapKeys]
      /\ doubled \subseteq doubled'
      /\ (o = "insert" \/ Dict!Searched(o, k) # k) => k \in doubled'
      /\ o \in Dict!Writers => \A u \in Mappers : (dictPc[u] # "idle" /\ op[u] \in Dict!Writers /\ arg[u] = k) => k \in doubled'
  BY <1>3 DEF Begun
<1>5. /\ cur' \in [Mappers -> Links] /\ prev' \in [Mappers -> Links] /\ dictPc' \in [Mappers -> DictPlaces]
      /\ \A u \in Mappers : cur'[u] = (IF u = t THEN table ELSE cur[u])
      /\ \A u \in Mappers : prev'[u] = (IF u = t THEN Dict!Nil ELSE prev[u])
      /\ \A u \in Mappers : dictPc'[u] = (IF u = t THEN "walk" ELSE dictPc[u])
  BY <1>1 DEF Dict!Walk, Dict!Goto, DictTypes, Links, DictPlaces
<1>6. live \subseteq Dict!Nodes /\ {m \in live : key[m] = k} \in SUBSET Dict!Nodes
  BY <1>1, LiveFinite
<1>7. DictTypes'
  <2>1. there' \in [Mappers -> SUBSET Dict!Nodes]
    BY <1>1, <1>2, <1>6 DEF Dict!Begin, DictTypes
  <2> QED BY <1>1, <1>2, <1>4, <1>5, <2>1 DEF DictTypes
<1>8. DictSolo'
  BY <1>1, <1>4, <1>5 DEF DictSolo
<1>9. OpFits'
  BY <1>1, <1>4, <1>5 DEF OpFits
<1>10. DictApart'
  BY <1>1, <1>2 DEF DictApart
<1>12. FreshNodes'
  BY <1>1, <1>2, <1>4, <1>5 DEF FreshNodes
<1>13. Listed'
  <2>1. PICK r \in [Dict!Nodes -> Nat] : Ranked(r) /\ AheadOf(r)
    BY <1>1 DEF Listed
  <2>2. Ranked(r)'
    BY <1>2, <2>1, RankedKept
  <2>3. AheadOf(r)'
    BY <1>2, <1>4, <1>5, <2>1 DEF AheadOf, Ranked
  <2> QED BY <2>1, <2>2, <2>3 DEF Listed
<1>14. Sought'
  <2>1. \A u \in Mappers \ {t} : dictPc'[u] = "walk" => there'[u] \subseteq 1..nodes' /\ \A m \in there'[u] : key'[m] = Dict!Searched(op'[u], arg'[u])
    BY <1>1, <1>2, <1>4, <1>5 DEF Sought
  <2>2. there'[t] \subseteq 1..nodes' /\ \A m \in there'[t] : key'[m] = Dict!Searched(op'[t], arg'[t]) /\ m \in live
    BY <1>1, <1>2, <1>4 DEF DictApart
  <2>3. \A u, v \in Mappers : (dictPc'[u] = "walk" /\ dictPc'[v] = "cas") => \A m \in there'[u] : m # dictMade'[v]
    <3> SUFFICES ASSUME NEW u \in Mappers, NEW v \in Mappers, dictPc'[u] = "walk", dictPc'[v] = "cas", NEW m \in there'[u]
                 PROVE  m # dictMade[v]
      BY <1>2
    <3>1. dictPc[v] = "cas"
      BY <1>5
    <3>2. CASE u = t
      BY <1>1, <2>2, <3>1, <3>2 DEF FreshNodes
    <3>3. CASE u # t
      <4>1. dictPc[u] = "walk" /\ m \in there[u]
        BY <1>4, <1>5, <3>3
      <4> QED BY <1>1, <3>1, <4>1 DEF Sought
    <3> QED BY <3>2, <3>3
  <2> QED BY <2>1, <2>2, <2>3 DEF Sought
<1>15. Removing'
  BY <1>1, <1>2, <1>4, <1>5 DEF Removing
<1>16. Dropping'
  BY <1>1, <1>4, <1>5 DEF Dropping, OpFits, Dict!Removers
<1>17. DictCounted'
  <2>1. dictPc \in [Mappers -> DictPlaces] /\ dictPc[t] = "idle" /\ dictPc'[t] = "walk" /\ \A u \in Mappers : u # t => dictPc'[u] = dictPc[u]
    BY <1>1, <1>4, <1>5 DEF DictTypes
  <2>2. Adding' = Adding /\ Taking' = Taking
    BY <2>1, DictShift
  <2> QED BY <1>1, <1>2, <1>4, <1>5, <2>2 DEF DictCounted
<1>18. KeysOnce'
  <2> USE DEF KeysOnce
  <2>1. WriterPairs'
    BY <1>1, <1>4, <1>5 DEF WriterPairs
  <2>2. InsertDoubles'
    BY <1>1, <1>4, <1>5 DEF InsertDoubles
  <2>3. SearchCovers'
    <3>1. k \notin doubled' => \A n \in live : key[n] = k => n \in there'[t]
      BY <1>4
    <3>2. \A u \in Mappers : u # t => op'[u] = op[u] /\ arg'[u] = arg[u] /\ there'[u] = there[u] /\ dictPc'[u] = dictPc[u]
      BY <1>4, <1>5
    <3> QED BY <1>1, <1>2, <1>4, <3>1, <3>2 DEF SearchCovers
  <2>4. CasAlone'
    BY <1>1, <1>2, <1>4, <1>5 DEF CasAlone
  <2>5. NodePairs'
    BY <1>1, <1>2, <1>4, <1>5 DEF NodePairs
  <2> QED BY <2>1, <2>2, <2>3, <2>4, <2>5
<1> QED BY <1>7, <1>8, <1>9, <1>10, <1>12, <1>13, <1>14, <1>15, <1>16, <1>17, <1>18 DEF DictGood

\* A node that is published goes on top of the list; one that is not takes the new head.
LEMMA DictPublishStep ==
    ASSUME Dict!DictAssumption, DictGood, NEW t \in Mappers, Dict!Publish(t)
    PROVE  DictGood'
<1>1. /\ DictTypes /\ DictSolo /\ OpFits /\ DictApart /\ FreshNodes /\ Listed
      /\ Sought /\ Removing /\ Dropping /\ DictCounted /\ KeysOnce
  BY DEF DictGood
<1>2. PICK n : n = dictMade[t]
  OBVIOUS
<1>3. dictPc[t] = "cas" /\ UNCHANGED <<key, dictCount, dictFreed, op, arg, cur, prev, dictMade, nodes, there, doubled, broken, missed>>
  BY DEF Dict!Publish
<1>4. live \subseteq Dict!Nodes /\ Dict!Nil \notin live /\ IsFiniteSet(live) /\ Cardinality(live) \in Nat
  BY <1>1, LiveFinite
<1>5. n \in 1..nodes /\ n \notin live /\ n \notin dictFreed /\ key[n] = arg[t] /\ n \in Dict!Nodes /\ n \in Links /\ n # Dict!Nil
  BY <1>1, <1>2, <1>3 DEF FreshNodes, DictTypes, Links, Dict!Nodes, Dict!Nil, Dict!DictAssumption
<1>6. \A u \in Mappers : (u # t /\ dictPc[u] # "idle") => op[u] \notin Dict!Removers
  BY <1>1, <1>3 DEF DictSolo
<1>7. op[t] \in Dict!Writers /\ op[t] \notin Dict!Removers
  BY <1>1, <1>3 DEF OpFits, Dict!Writers, Dict!Removers
<1>8. CASE table = next[n] /\ table' = n /\ live' = live \cup {n} /\ dictPc' = [dictPc EXCEPT ![t] = "add"] /\ UNCHANGED next
  <2>1. dictPc' \in [Mappers -> DictPlaces] /\ \A u \in Mappers : dictPc'[u] = (IF u = t THEN "add" ELSE dictPc[u])
    BY <1>1, <1>8 DEF DictTypes, DictPlaces
  <2>2. DictTypes'
    BY <1>1, <1>3, <1>5, <1>8, <2>1 DEF DictTypes
  <2>3. DictSolo' /\ OpFits'
    BY <1>1, <1>3, <1>7, <2>1 DEF DictSolo, OpFits
  <2>4. DictApart'
    BY <1>1, <1>3, <1>5, <1>8 DEF DictApart
  <2>5. FreshNodes'
    BY <1>1, <1>2, <1>3, <1>8, <2>1 DEF FreshNodes
  <2>6. Listed'
    <3>1. PICK r \in [Dict!Nodes -> Nat] : Ranked(r) /\ AheadOf(r)
      BY <1>1 DEF Listed
    <3>2. PICK top \in Nat : \A m \in live : r[m] < top
      <4>1. CASE table = Dict!Nil
        BY <3>1, <4>1 DEF Ranked
      <4>2. CASE table # Dict!Nil
        <5>1. table \in Dict!Nodes /\ r[table] + 1 \in Nat
          BY <1>4, <3>1, <4>2 DEF Ranked
        <5>2. \A m \in live : r[m] < r[table] + 1
          BY <1>4, <3>1, <5>1 DEF Ranked
        <5> QED BY <5>1, <5>2
      <4> QED BY <4>1, <4>2
    <3>3. PICK q \in [Dict!Nodes -> Nat] : q = [r EXCEPT ![n] = top]
      BY <1>5
    <3>4. q[n] = top /\ (\A m \in live : q[m] = r[m]) /\ \A m \in Dict!Nodes : r[m] \in Nat
      BY <1>4, <1>5, <3>3
    <3>5. Ranked(q)'
      <4>1. \A m \in live : r[m] < top /\ r[m] \in Nat /\ m \in live'
        BY <1>4, <1>8, <3>2
      <4>2. next' = next /\ next[n] \in live \cup {Dict!Nil} /\ table' = n /\ live' = live \cup {n} /\ n \notin live
        BY <1>5, <1>8, <3>1 DEF Ranked
      <4>3. \A a, b \in live' : q[a] = q[b] => a = b
        BY <3>1, <3>4, <4>1, <4>2 DEF Ranked
      <4>4. Falls(q, live)
        BY <1>4, <3>1, <3>4 DEF Ranked, Falls
      <4>5. \A a \in live' : next'[a] \in live' \cup {Dict!Nil} /\ (next'[a] # Dict!Nil => q[next'[a]] < q[a])
        BY <3>4, <4>1, <4>2, <4>4 DEF Falls
      <4>6. \A a, b \in live' : q[b] < q[a] => next'[a] # Dict!Nil /\ q[b] <= q[next'[a]]
        <5> SUFFICES ASSUME NEW a \in live', NEW b \in live', q[b] < q[a]
                     PROVE  next[a] # Dict!Nil /\ q[b] <= q[next[a]]
          BY <4>2
        <5>1. b \in live
          BY <3>2, <3>4, <4>1, <4>2
        <5>2. CASE a = n
          BY <1>8, <3>1, <3>4, <5>1, <5>2 DEF Ranked
        <5>3. CASE a # n
          <6>1. a \in live /\ r[b] < r[a]
            BY <3>4, <4>2, <5>1, <5>3
          <6>2. next[a] # Dict!Nil /\ r[b] <= r[next[a]] /\ next[a] \in live
            BY <3>1, <5>1, <6>1 DEF Ranked, Falls
          <6> QED BY <3>4, <5>1, <6>2
        <5> QED BY <5>2, <5>3
      <4>7. \A a \in live' : q[a] <= q[n]
        BY <3>4, <4>1, <4>2
      <4> QED BY <1>5, <4>2, <4>3, <4>5, <4>6, <4>7 DEF Ranked, Falls
    <3>6. AheadOf(q)'
      <4>1. \A u \in Mappers : dictPc'[u] = "walk" => dictPc[u] = "walk" /\ n \notin there[u]
        BY <1>1, <1>2, <1>3, <2>1 DEF Sought
      <4> QED BY <1>3, <1>8, <3>1, <3>4, <4>1 DEF AheadOf
    <3> QED BY <3>3, <3>5, <3>6 DEF Listed
  <2>7. Sought'
    BY <1>1, <1>3, <2>1 DEF Sought
  <2>8. Removing'
    BY <1>1, <1>6, <2>1, <1>3, <1>7 DEF Removing, OpFits, Dict!Removers
  <2>9. Dropping'
    BY <1>1, <1>6, <2>1 DEF Dropping, OpFits, Dict!Removers
  <2>10. DictCounted'
    <3>1. dictPc \in [Mappers -> DictPlaces] /\ dictPc[t] = "cas" /\ dictPc'[t] = "add" /\ \A u \in Mappers : u # t => dictPc'[u] = dictPc[u]
      BY <1>1, <1>3, <2>1 DEF DictTypes
    <3>2. Adding' = Adding + 1 /\ Taking' = Taking /\ Adding \in Nat /\ Taking \in Nat
      BY <3>1, DictShift
    <3>3. Cardinality(live') = Cardinality(live) + 1
      BY <1>4, <1>5, <1>8, FS_AddElement
    <3>4. \A u \in Mappers : dictPc[u] # "drop"
      BY <1>1, <1>3, <1>6 DEF OpFits, Dict!Removers
    <3>5. dictCount \in Int
      BY <1>1 DEF DictTypes
    <3> QED BY <1>1, <1>3, <1>4, <3>2, <3>3, <3>4, <3>5 DEF DictCounted
  <2>11. KeysOnce'
    <3> USE DEF KeysOnce
    <3>1. WriterPairs' /\ InsertDoubles'
      BY <1>1, <1>3, <2>1 DEF WriterPairs, InsertDoubles
    <3>2. \A u \in Mappers : (u # t /\ dictPc[u] # "idle" /\ op[u] \in Dict!Writers /\ arg[u] \notin doubled) => arg[u] # key[n]
      BY <1>1, <1>3, <1>5, <1>7 DEF WriterPairs
    <3>3. SearchCovers'
      BY <1>1, <1>3, <1>8, <2>1, <3>2 DEF SearchCovers
    <3>4. CasAlone'
      BY <1>1, <1>3, <1>8, <2>1, <3>2 DEF CasAlone, OpFits
    <3>5. NodePairs'
      BY <1>1, <1>3, <1>5, <1>8 DEF NodePairs, CasAlone
    <3> QED BY <3>1, <3>3, <3>4, <3>5
  <2> QED BY <2>2, <2>3, <2>4, <2>5, <2>6, <2>7, <2>8, <2>9, <2>10, <2>11 DEF DictGood
<1>9. CASE next' = [next EXCEPT ![n] = table] /\ UNCHANGED <<table, live, dictPc>>
  <2>1. next' \in [Dict!Nodes -> Links] /\ \A m \in live : next'[m] = next[m]
    BY <1>1, <1>4, <1>5, <1>9 DEF DictTypes
  <2>2. DictTypes'
    BY <1>1, <1>3, <1>9, <2>1 DEF DictTypes
  <2>3. DictSolo' /\ OpFits' /\ DictApart' /\ FreshNodes' /\ Sought'
    BY <1>1, <1>3, <1>9 DEF DictSolo, OpFits, DictApart, FreshNodes, Sought
  <2>6. Listed'
    <3>1. PICK r \in [Dict!Nodes -> Nat] : Ranked(r) /\ AheadOf(r)
      BY <1>1 DEF Listed
    <3>2. Ranked(r)'
      BY <1>9, <2>1, <3>1, RankedKept
    <3>3. AheadOf(r)'
      BY <1>3, <1>9, <3>1 DEF AheadOf
    <3> QED BY <3>2, <3>3 DEF Listed
  <2>8. Removing'
    BY <1>1, <1>3, <1>9, <2>1 DEF Removing
  <2>9. Dropping'
    BY <1>1, <1>3, <1>6, <1>9 DEF Dropping, OpFits, Dict!Removers
  <2>10. DictCounted'
    BY <1>1, <1>3, <1>9 DEF DictCounted, Adding, Taking
  <2>11. KeysOnce'
    BY <1>1, <1>3, <1>9 DEF KeysOnce, WriterPairs, InsertDoubles, SearchCovers, CasAlone, NodePairs
  <2> QED BY <2>2, <2>3, <2>6, <2>8, <2>9, <2>10, <2>11 DEF DictGood
<1> QED BY <1>2, <1>8, <1>9 DEF Dict!Publish, Dict!Goto

\* While another operation is under way no clear() is.
LEMMA NobodyDrops ==
    ASSUME DictSolo, OpFits, NEW t \in Mappers, dictPc[t] \notin {"idle", "drop"}
    PROVE  \A u \in Mappers : dictPc[u] # "drop"
BY DEF DictSolo, OpFits, Dict!Removers

LEMMA DictCountUpStep ==
    ASSUME Dict!DictAssumption, DictGood, NEW t \in Mappers, Dict!CountUp(t)
    PROVE  DictGood'
<1>1. /\ DictTypes /\ DictSolo /\ OpFits /\ DictApart /\ FreshNodes /\ Listed
      /\ Sought /\ Removing /\ Dropping /\ DictCounted /\ KeysOnce
  BY DEF DictGood
<1>2. /\ dictPc[t] = "add" /\ dictCount' = dictCount + 1
      /\ UNCHANGED <<table, next, key, dictFreed, op, arg, cur, prev, dictMade, nodes, live, there, doubled, broken, missed>>
  BY DEF Dict!CountUp
<1>3. dictPc' \in [Mappers -> DictPlaces] /\ \A u \in Mappers : dictPc'[u] = (IF u = t THEN "idle" ELSE dictPc[u])
  BY <1>1 DEF Dict!CountUp, Dict!Goto, DictTypes, DictPlaces
<1>4. DictTypes'
  BY <1>1, <1>2, <1>3 DEF DictTypes
<1>5. DictSolo' /\ OpFits' /\ DictApart' /\ FreshNodes' /\ Sought' /\ Removing'
  BY <1>1, <1>2, <1>3 DEF DictSolo, OpFits, DictApart, FreshNodes, Sought, Removing
<1>6. Dropping'
  BY <1>1, <1>2, <1>3 DEF Dropping, OpFits, Dict!Removers, DictSolo
<1>7. Listed'
  <2>1. PICK r \in [Dict!Nodes -> Nat] : Ranked(r) /\ AheadOf(r)
    BY <1>1 DEF Listed
  <2>2. Ranked(r)' /\ AheadOf(r)'
    BY <1>2, <1>3, <2>1, RankedKept DEF AheadOf
  <2> QED BY <2>2 DEF Listed
<1>8. DictCounted'
  <2>1. dictPc \in [Mappers -> DictPlaces] /\ dictPc'[t] = "idle" /\ \A u \in Mappers : u # t => dictPc'[u] = dictPc[u]
    BY <1>1, <1>3 DEF DictTypes
  <2>2. Adding' = Adding - 1 /\ Taking' = Taking /\ Adding \in Nat /\ Taking \in Nat
    BY <1>2, <2>1, DictShift
  <2>3. dictCount \in Int /\ Cardinality(live) \in Nat
    BY <1>1, LiveFinite DEF DictTypes
  <2> QED BY <1>1, <1>2, <1>3, <2>2, <2>3 DEF DictCounted
<1>9. KeysOnce'
  BY <1>1, <1>2, <1>3 DEF KeysOnce, WriterPairs, InsertDoubles, SearchCovers, CasAlone, NodePairs
<1> QED BY <1>4, <1>5, <1>6, <1>7, <1>8, <1>9 DEF DictGood

\* A search passes no node of its key.
LEMMA DictStepStep ==
    ASSUME Dict!DictAssumption, DictGood, NEW t \in Mappers, Dict!Step(t)
    PROVE  DictGood'
<1>1. /\ DictTypes /\ DictSolo /\ OpFits /\ DictApart /\ FreshNodes /\ Listed
      /\ Sought /\ Removing /\ Dropping /\ DictCounted /\ KeysOnce
  BY DEF DictGood
<1>2. /\ dictPc[t] = "walk" /\ cur[t] # Dict!Nil /\ (op[t] = "each" \/ key[cur[t]] # Dict!Searched(op[t], arg[t]))
      /\ broken' = (broken \/ cur[t] \in dictFreed)
      /\ UNCHANGED <<table, next, key, dictCount, dictFreed, dictPc, op, arg, dictMade, nodes, live, there, doubled, missed>>
  BY DEF Dict!Step, Dict!Touch
<1>3. PICK r \in [Dict!Nodes -> Nat] : Ranked(r) /\ AheadOf(r)
  BY <1>1 DEF Listed
<1>4. live \subseteq Dict!Nodes
  BY <1>1, LiveFinite
<1>5. cur[t] \in live /\ next[cur[t]] \in live \cup {Dict!Nil} /\ next[cur[t]] \in Links /\ cur[t] \in Links
  BY <1>1, <1>2, <1>3, <1>4 DEF AheadOf, Ranked, Falls, DictTypes, Links
<1>6. /\ cur' \in [Mappers -> Links] /\ prev' \in [Mappers -> Links]
      /\ \A u \in Mappers : cur'[u] = (IF u = t THEN next[cur[t]] ELSE cur[u])
      /\ \A u \in Mappers : prev'[u] = (IF u = t THEN cur[t] ELSE prev[u])
  BY <1>1, <1>5 DEF Dict!Step, DictTypes
<1>7. DictTypes'
  BY <1>1, <1>2, <1>6 DEF DictTypes
<1>8. DictSolo' /\ OpFits' /\ FreshNodes' /\ Sought'
  BY <1>1, <1>2 DEF DictSolo, OpFits, FreshNodes, Sought
<1>9. DictApart'
  BY <1>1, <1>2, <1>5 DEF DictApart
<1>10. Removing'
  BY <1>1, <1>2, <1>5, <1>6 DEF Removing
<1>11. Dropping'
  BY <1>1, <1>2, NobodyDrops DEF Dropping
<1>12. AheadOf(r)'
  <2>1. \A n \in there[t] \cap live : op[t] # "each" => next[cur[t]] # Dict!Nil /\ r[n] <= r[next[cur[t]]]
    <3> SUFFICES ASSUME NEW n \in there[t] \cap live, op[t] # "each" PROVE next[cur[t]] # Dict!Nil /\ r[n] <= r[next[cur[t]]]
      OBVIOUS
    <3>1. key[n] = Dict!Searched(op[t], arg[t]) /\ n # cur[t]
      BY <1>1, <1>2 DEF Sought
    <3>2. r[n] <= r[cur[t]] /\ r[n] # r[cur[t]]
      BY <1>2, <1>3, <1>5, <3>1 DEF AheadOf, Ranked
    <3>3. r[n] < r[cur[t]]
      BY <1>4, <1>5, <3>2
    <3> QED BY <1>3, <1>5, <3>3 DEF Ranked
  <2> QED BY <1>2, <1>3, <1>5, <1>6, <2>1 DEF AheadOf
<1>13. Listed'
  BY <1>2, <1>3, <1>12, RankedKept DEF Listed
<1>14. DictCounted' /\ KeysOnce'
  BY <1>1, <1>2 DEF DictCounted, Adding, Taking, KeysOnce, WriterPairs, InsertDoubles, SearchCovers, CasAlone, NodePairs
<1> QED BY <1>7, <1>8, <1>9, <1>10, <1>11, <1>13, <1>14 DEF DictGood

LEMMA DictFoundStep ==
    ASSUME Dict!DictAssumption, DictGood, NEW t \in Mappers, Dict!Found(t)
    PROVE  DictGood'
<1>1. /\ DictTypes /\ DictSolo /\ OpFits /\ DictApart /\ FreshNodes /\ Listed
      /\ Sought /\ Removing /\ Dropping /\ DictCounted /\ KeysOnce
  BY DEF DictGood
<1>2. /\ dictPc[t] = "walk" /\ cur[t] # Dict!Nil
      /\ broken' = (broken \/ cur[t] \in dictFreed)
      /\ UNCHANGED <<table, next, key, dictCount, dictFreed, op, arg, cur, prev, nodes, live, there, doubled, missed>>
  BY DEF Dict!Found, Dict!Touch
<1>3. PICK r \in [Dict!Nodes -> Nat] : Ranked(r) /\ AheadOf(r)
  BY <1>1 DEF Listed
<1>4. live \subseteq Dict!Nodes
  BY <1>1, LiveFinite
<1>5. cur[t] \in live /\ next[cur[t]] \in Links
  BY <1>1, <1>2, <1>3, <1>4 DEF AheadOf, DictTypes
<1>6. PICK to \in {"unlink", "idle"} : to = IF op[t] = "remove" THEN "unlink" ELSE "idle"
  OBVIOUS
<1>7. dictPc' \in [Mappers -> DictPlaces] /\ \A u \in Mappers : dictPc'[u] = (IF u = t THEN to ELSE dictPc[u])
  BY <1>1, <1>6 DEF Dict!Found, Dict!Goto, DictTypes, DictPlaces
<1>8. /\ dictMade' \in [Mappers -> Links] /\ \A u \in Mappers : u # t => dictMade'[u] = dictMade[u]
      /\ op[t] = "remove" => dictMade'[t] = next[cur[t]]
  BY <1>1, <1>5 DEF Dict!Found, DictTypes
<1>9. DictTypes'
  BY <1>1, <1>2, <1>7, <1>8 DEF DictTypes
<1>10. DictSolo' /\ OpFits'
  BY <1>1, <1>2, <1>6, <1>7 DEF DictSolo, OpFits
<1>11. DictApart'
  BY <1>1, <1>2, <1>5 DEF DictApart
<1>12. FreshNodes' /\ Sought'
  BY <1>1, <1>2, <1>6, <1>7, <1>8 DEF FreshNodes, Sought
<1>13. Removing'
  BY <1>1, <1>2, <1>5, <1>6, <1>7, <1>8 DEF Removing
<1>14. Dropping'
  BY <1>1, <1>2, <1>6, <1>7, NobodyDrops DEF Dropping
<1>15. Listed'
  <2>1. Ranked(r)' /\ AheadOf(r)'
    BY <1>2, <1>3, <1>6, <1>7, RankedKept DEF AheadOf
  <2> QED BY <2>1 DEF Listed
<1>16. DictCounted'
  <2>1. dictPc \in [Mappers -> DictPlaces] /\ dictPc'[t] \in {"unlink", "idle"} /\ \A u \in Mappers : u # t => dictPc'[u] = dictPc[u]
    BY <1>1, <1>6, <1>7 DEF DictTypes
  <2>2. Adding' = Adding /\ Taking' = Taking
    BY <1>2, <2>1, DictShift
  <2> QED BY <1>1, <1>2, <1>6, <1>7, <2>2 DEF DictCounted
<1>17. KeysOnce'
  BY <1>1, <1>2, <1>6, <1>7 DEF KeysOnce, WriterPairs, InsertDoubles, SearchCovers, CasAlone, NodePairs
<1> QED BY <1>9, <1>10, <1>11, <1>12, <1>13, <1>14, <1>15, <1>16, <1>17 DEF DictGood

\* At the end of the list a search has met every node of its key that was there all along.
LEMMA DictNotFoundStep ==
    ASSUME Dict!DictAssumption, DictGood, NEW t \in Mappers, Dict!NotFound(t)
    PROVE  DictGood'
<1>1. /\ DictTypes /\ DictSolo /\ OpFits /\ DictApart /\ FreshNodes /\ Listed
      /\ Sought /\ Removing /\ Dropping /\ DictCounted /\ KeysOnce
  BY DEF DictGood
<1>2. /\ dictPc[t] = "walk" /\ cur[t] = Dict!Nil /\ missed' = (missed \/ (op[t] # "each" /\ there[t] \cap live # {}))
      /\ UNCHANGED <<table, dictCount, dictFreed, op, arg, cur, prev, live, there, doubled, broken>>
  BY DEF Dict!NotFound
<1>3. PICK r \in [Dict!Nodes -> Nat] : Ranked(r) /\ AheadOf(r)
  BY <1>1 DEF Listed
<1>4. live \subseteq Dict!Nodes
  BY <1>1, LiveFinite
<1>5. op[t] # "each" => there[t] \cap live = {}
  BY <1>2, <1>3 DEF AheadOf
<1>6. ~missed'
  BY <1>1, <1>2, <1>5 DEF DictApart
<1>7. CASE op[t] \in Dict!Writers
  <2>1. Dict!NewNode(t, arg[t]) /\ arg[t] \in MapKeys
    BY <1>1, <1>7 DEF Dict!NotFound, DictTypes
  <2>2. PICK n \in Dict!Nodes :
           /\ n = nodes + 1 /\ nodes' = n /\ n \in 1..nodes' /\ 1..nodes \subseteq 1..nodes' /\ n \notin 1..nodes /\ n \notin live /\ n \notin dictFreed
           /\ nodes' \in 0..MaxNodes
           /\ \A u \in Mappers : dictMade'[u] = (IF u = t THEN n ELSE dictMade[u])
           /\ \A u \in Mappers : dictPc'[u] = (IF u = t THEN "cas" ELSE dictPc[u])
           /\ \A m \in Dict!Nodes : key'[m] = (IF m = n THEN arg[t] ELSE key[m])
           /\ \A m \in Dict!Nodes : next'[m] = (IF m = n THEN table ELSE next[m])
           /\ dictPc' = [dictPc EXCEPT ![t] = "cas"]
           /\ dictMade' \in [Mappers -> Links] /\ dictPc' \in [Mappers -> DictPlaces]
           /\ key' \in [Dict!Nodes -> MapKeys] /\ next' \in [Dict!Nodes -> Links]
    BY <2>1, DictNewNode
  <2>3. op[t] \notin Dict!Removers /\ op[t] # "each"
    BY <1>7 DEF Dict!Writers, Dict!Removers
  <2>4. \A u \in Mappers : dictPc[u] # "idle" => op[u] \notin Dict!Removers
    BY <1>1, <1>2, <2>3 DEF DictSolo
  <2>5. DictTypes'
    BY <1>1, <1>2, <2>2 DEF DictTypes
  <2>6. DictSolo' /\ OpFits'
    BY <1>1, <1>2, <1>7, <2>2 DEF DictSolo, OpFits
  <2>7. DictApart'
    BY <1>1, <1>2, <1>6, <2>2 DEF DictApart
  <2>8. \A u \in Mappers : dictPc[u] = "cas" => dictMade[u] # n /\ dictMade[u] \in Dict!Nodes
    BY <1>1, <2>2 DEF FreshNodes, DictTypes, Links, Dict!Nil
  <2>9. FreshNodes'
    BY <1>1, <1>2, <2>2, <2>8 DEF FreshNodes
  <2>10. Listed'
    <3>1. Ranked(r)'
      BY <1>2, <1>3, <1>4, <2>2, RankedKept
    <3>2. AheadOf(r)'
      BY <1>2, <1>3, <2>2 DEF AheadOf
    <3> QED BY <3>1, <3>2 DEF Listed
  <2>11. Sought'
    <3>1. \A u \in Mappers : there[u] \in SUBSET Dict!Nodes
      BY <1>1 DEF DictTypes
    <3>2. \A u \in Mappers : dictPc'[u] = "walk" => u # t /\ dictPc[u] = "walk"
      BY <2>2
    <3>3. \A u \in Mappers : dictPc[u] = "walk" => there[u] \subseteq 1..nodes /\ n \notin there[u]
      BY <1>1, <2>2 DEF Sought
    <3>4. \A u \in Mappers : dictPc[u] = "walk" => \A m \in there[u] : key'[m] = key[m]
      BY <2>2, <3>1, <3>3
    <3> QED BY <1>1, <1>2, <2>2, <3>2, <3>3, <3>4 DEF Sought
  <2>12. Removing'
    BY <1>1, <2>2, <2>4, <1>2 DEF Removing, OpFits, Dict!Removers
  <2>13. Dropping'
    BY <1>1, <2>2, <2>4 DEF Dropping, OpFits, Dict!Removers
  <2>14. DictCounted'
    <3>1. dictPc \in [Mappers -> DictPlaces] /\ dictPc'[t] = "cas" /\ \A u \in Mappers : u # t => dictPc'[u] = dictPc[u]
      BY <1>1, <2>2 DEF DictTypes
    <3>2. Adding' = Adding /\ Taking' = Taking
      BY <1>2, <3>1, DictShift
    <3> QED BY <1>1, <1>2, <2>2, <3>2 DEF DictCounted
  <2>15. KeysOnce'
    <3> USE DEF KeysOnce
    <3>1. WriterPairs' /\ InsertDoubles'
      BY <1>1, <1>2, <2>2 DEF WriterPairs, InsertDoubles
    <3>2. SearchCovers'
      BY <1>1, <1>2, <1>4, <2>2 DEF SearchCovers
    <3>3. arg[t] \notin doubled => \A m \in live : key[m] # arg[t]
      BY <1>1, <1>2, <1>5, <1>7, <2>3 DEF SearchCovers
    <3>4. CasAlone'
      BY <1>1, <1>2, <1>4, <2>2, <3>3 DEF CasAlone
    <3>5. NodePairs'
      <4>1. \A m \in live : key'[m] = key[m]
        BY <1>4, <2>2
      <4> QED BY <1>1, <1>2, <4>1 DEF NodePairs
    <3> QED BY <3>1, <3>2, <3>4, <3>5
  <2> QED BY <2>5, <2>6, <2>7, <2>9, <2>10, <2>11, <2>12, <2>13, <2>14, <2>15 DEF DictGood
<1>8. CASE op[t] \notin Dict!Writers
  <2>1. dictPc' = [dictPc EXCEPT ![t] = "idle"] /\ UNCHANGED <<dictMade, key, next, nodes>>
    BY <1>8 DEF Dict!NotFound, Dict!Goto
  <2>2. dictPc' \in [Mappers -> DictPlaces] /\ \A u \in Mappers : dictPc'[u] = (IF u = t THEN "idle" ELSE dictPc[u])
    BY <1>1, <2>1 DEF DictTypes, DictPlaces
  <2>3. DictTypes'
    BY <1>1, <1>2, <2>1, <2>2 DEF DictTypes
  <2>4. DictSolo' /\ OpFits' /\ DictApart' /\ FreshNodes' /\ Sought' /\ Removing'
    BY <1>1, <1>2, <1>6, <2>1, <2>2 DEF DictSolo, OpFits, DictApart, FreshNodes, Sought, Removing
  <2>5. Dropping'
    BY <1>1, <1>2, <2>2, NobodyDrops DEF Dropping
  <2>6. Listed'
    <3>1. Ranked(r)' /\ AheadOf(r)'
      BY <1>2, <1>3, <2>1, <2>2, RankedKept DEF AheadOf
    <3> QED BY <3>1 DEF Listed
  <2>7. DictCounted'
    <3>1. dictPc \in [Mappers -> DictPlaces] /\ dictPc'[t] = "idle" /\ \A u \in Mappers : u # t => dictPc'[u] = dictPc[u]
      BY <1>1, <2>2 DEF DictTypes
    <3>2. Adding' = Adding /\ Taking' = Taking
      BY <1>2, <3>1, DictShift
    <3> QED BY <1>1, <1>2, <2>2, <3>2 DEF DictCounted
  <2>8. KeysOnce'
    BY <1>1, <1>2, <2>1, <2>2 DEF KeysOnce, WriterPairs, InsertDoubles, SearchCovers, CasAlone, NodePairs
  <2> QED BY <2>3, <2>4, <2>5, <2>6, <2>7, <2>8 DEF DictGood
<1> QED BY <1>7, <1>8

\* remove() takes the node it found, whose predecessor is the one it passed, out of the list.
LEMMA DictUnlinkStep ==
    ASSUME Dict!DictAssumption, DictGood, NEW t \in Mappers, Dict!Unlink(t)
    PROVE  DictGood'
<1>1. /\ DictTypes /\ DictSolo /\ OpFits /\ DictApart /\ FreshNodes /\ Listed
      /\ Sought /\ Removing /\ Dropping /\ DictCounted /\ KeysOnce
  BY DEF DictGood
<1>2. /\ dictPc[t] = "unlink" /\ live' = live \ {cur[t]}
      /\ UNCHANGED <<key, dictCount, dictFreed, op, arg, cur, prev, dictMade, nodes, there, doubled, missed>>
  BY DEF Dict!Unlink
<1>3. dictPc' \in [Mappers -> DictPlaces] /\ \A u \in Mappers : dictPc'[u] = (IF u = t THEN "delete" ELSE dictPc[u])
  BY <1>1 DEF Dict!Unlink, Dict!Goto, DictTypes, DictPlaces
<1>4. op[t] = "remove" /\ \A u \in Mappers : u # t => dictPc[u] = "idle"
  BY <1>1, <1>2 DEF OpFits, DictSolo, Dict!Removers
<1>5. live \subseteq Dict!Nodes /\ Dict!Nil \notin live /\ IsFiniteSet(live) /\ Cardinality(live) \in Nat
  BY <1>1, LiveFinite
<1>6. PICK c \in live : c = cur[t]
  BY <1>1, <1>2 DEF Removing
<1>7. /\ dictMade[t] = next[c]
      /\ prev[t] = Dict!Nil => table = c
      /\ prev[t] # Dict!Nil => prev[t] \in live /\ next[prev[t]] = c
  BY <1>1, <1>2, <1>4, <1>6 DEF Removing
<1>8. PICK r \in [Dict!Nodes -> Nat] : Ranked(r) /\ AheadOf(r)
  BY <1>1 DEF Listed
<1>9. /\ \A m \in live : r[m] \in Nat
      /\ \A m, n \in live : r[m] = r[n] => m = n
      /\ \A n \in live : next[n] \in live \cup {Dict!Nil} /\ (next[n] # Dict!Nil => r[next[n]] < r[n])
      /\ \A n, m \in live : r[m] < r[n] => next[n] # Dict!Nil /\ r[m] <= r[next[n]]
      /\ table \in live \cup {Dict!Nil}
      /\ \A n \in live : table # Dict!Nil /\ r[n] <= r[table]
  BY <1>5, <1>8 DEF Ranked, Falls
<1>10. next[c] # c /\ next[c] \in Links /\ \A n \in live : n # prev[t] => next[n] # c
  <2>1. next[c] # c
    BY <1>5, <1>9
  <2>2. next[c] \in Links
    BY <1>1, <1>5 DEF DictTypes
  <2>3. \A n \in live : n # prev[t] => next[n] # c
    <3> SUFFICES ASSUME NEW n \in live, n # prev[t], next[n] = c PROVE FALSE
      OBVIOUS
    <3>1. r[c] < r[n] /\ r[c] \in Nat /\ r[n] \in Nat
      BY <1>5, <1>9
    <3>2. CASE prev[t] = Dict!Nil
      BY <1>7, <1>9, <3>1, <3>2
    <3>3. CASE prev[t] # Dict!Nil
      <4>1. PICK p \in live : p = prev[t] /\ next[p] = c /\ r[p] \in Nat /\ r[c] < r[p] /\ c # Dict!Nil
        BY <1>5, <1>7, <1>9, <3>3
      <4>2. r[n] # r[p]
        BY <1>9, <4>1
      <4>3. ~(r[n] < r[p])
        BY <1>9, <3>1, <4>1
      <4>4. ~(r[p] < r[n])
        BY <1>9, <3>1, <4>1
      <4> QED BY <3>1, <4>1, <4>2, <4>3, <4>4
    <3> QED BY <3>2, <3>3
  <2> QED BY <2>1, <2>2, <2>3
<1>11. /\ table' \in Links /\ next' \in [Dict!Nodes -> Links]
       /\ table' = (IF prev[t] = Dict!Nil THEN next[c] ELSE table)
       /\ \A n \in live : next'[n] = (IF n = prev[t] THEN next[c] ELSE next[n])
       /\ ~broken'
  <2>1. CASE prev[t] = Dict!Nil
    <3>1. table' = dictMade[t] /\ UNCHANGED <<next, broken>>
      BY <2>1 DEF Dict!Unlink
    <3> QED BY <1>1, <1>5, <1>7, <1>10, <2>1, <3>1 DEF DictTypes, DictApart
  <2>2. CASE prev[t] # Dict!Nil
    <3>1. broken' = (broken \/ prev[t] \in dictFreed) /\ next' = [next EXCEPT ![prev[t]] = dictMade[t]] /\ UNCHANGED table
      BY <2>2 DEF Dict!Unlink, Dict!Touch
    <3>2. prev[t] \in live /\ prev[t] \in Dict!Nodes /\ prev[t] \notin dictFreed
      BY <1>1, <1>5, <1>7, <2>2 DEF DictApart
    <3>3. ~broken'
      BY <1>1, <3>1, <3>2 DEF DictApart
    <3> QED BY <1>1, <1>5, <1>7, <1>10, <2>2, <3>1, <3>2, <3>3 DEF DictTypes
  <2> QED BY <2>1, <2>2
<1>12. DictTypes'
  BY <1>1, <1>2, <1>3, <1>11 DEF DictTypes
<1>13. DictSolo' /\ OpFits' /\ FreshNodes' /\ Sought'
  BY <1>1, <1>2, <1>3, <1>4 DEF DictSolo, OpFits, FreshNodes, Sought
<1>14. DictApart'
  BY <1>1, <1>2, <1>11 DEF DictApart
<1>15. Removing'
  BY <1>1, <1>2, <1>3, <1>4, <1>6 DEF Removing, DictApart
<1>16. Dropping'
  BY <1>3, <1>4 DEF Dropping
<1>17. Ranked(r)'
  <2>1. \A n \in live' : n \in live /\ n # c
    BY <1>2, <1>6
  <2>2. \A n \in live : n # c => n \in live'
    BY <1>2, <1>6
  <2>3. \A m, n \in live' : r[m] = r[n] => m = n
    BY <1>9, <2>1
  <2>4. \A n \in live' : next'[n] \in live' \cup {Dict!Nil} /\ (next'[n] # Dict!Nil => r[next'[n]] < r[n])
    <3> SUFFICES ASSUME NEW n \in live' PROVE next'[n] \in live' \cup {Dict!Nil} /\ (next'[n] # Dict!Nil => r[next'[n]] < r[n])
      OBVIOUS
    <3>1. n \in live /\ n # c
      BY <2>1
    <3>2. CASE n = prev[t]
      <4>1. next'[n] = next[c] /\ next[n] = c /\ c # Dict!Nil
        BY <1>5, <1>7, <1>11, <3>1, <3>2
      <4>2. r[c] < r[n] /\ next[c] \in live \cup {Dict!Nil} /\ (next[c] # Dict!Nil => r[next[c]] < r[c])
        BY <1>9, <3>1, <4>1
      <4>3. next'[n] # Dict!Nil => next'[n] \in live /\ r[next'[n]] < r[n]
        BY <1>9, <3>1, <4>1, <4>2
      <4> QED BY <1>10, <2>2, <4>1, <4>3
    <3>3. CASE n # prev[t]
      BY <1>9, <1>10, <1>11, <2>2, <3>1, <3>3
    <3> QED BY <3>2, <3>3
  <2>5. \A n, m \in live' : r[m] < r[n] => next'[n] # Dict!Nil /\ r[m] <= r[next'[n]]
    <3> SUFFICES ASSUME NEW n \in live', NEW m \in live', r[m] < r[n] PROVE next'[n] # Dict!Nil /\ r[m] <= r[next'[n]]
      OBVIOUS
    <3>1. n \in live /\ n # c /\ m \in live /\ m # c
      BY <2>1
    <3>2. CASE n = prev[t]
      <4>1. next'[n] = next[c] /\ next[n] = c
        BY <1>5, <1>7, <1>11, <3>1, <3>2
      <4>2. r[m] <= r[c] /\ r[m] # r[c] /\ r[m] \in Nat /\ r[c] \in Nat
        BY <1>9, <3>1, <4>1
      <4>3. r[m] < r[c]
        BY <4>2
      <4> QED BY <1>9, <3>1, <4>1, <4>3
    <3>3. CASE n # prev[t]
      BY <1>9, <1>11, <3>1, <3>3
    <3> QED BY <3>2, <3>3
  <2>6. table' \in live' \cup {Dict!Nil}
    <3>1. CASE prev[t] = Dict!Nil
      BY <1>9, <1>10, <1>11, <2>2, <3>1
    <3>2. CASE prev[t] # Dict!Nil
      <4>1. table # c
        <5>1. PICK p \in live : p = prev[t] /\ next[p] = c /\ r[p] \in Nat /\ r[c] \in Nat /\ r[c] < r[p]
          BY <1>5, <1>7, <1>9, <3>2
        <5>2. r[p] <= r[table]
          BY <1>9
        <5> QED BY <5>1, <5>2
      <4> QED BY <1>9, <1>11, <2>2, <3>2, <4>1
    <3> QED BY <3>1, <3>2
  <2>7. \A n \in live' : table' # Dict!Nil /\ r[n] <= r[table']
    <3> SUFFICES ASSUME NEW n \in live' PROVE table' # Dict!Nil /\ r[n] <= r[table']
      OBVIOUS
    <3>1. n \in live /\ n # c /\ r[n] \in Nat /\ r[c] \in Nat /\ r[n] # r[c]
      BY <1>9, <2>1
    <3>2. CASE prev[t] = Dict!Nil
      <4>1. r[n] <= r[c]
        BY <1>7, <1>9, <3>1, <3>2
      <4>2. r[n] < r[c]
        BY <3>1, <4>1
      <4> QED BY <1>9, <1>11, <3>1, <3>2, <4>2
    <3>3. CASE prev[t] # Dict!Nil
      BY <1>9, <1>11, <3>1, <3>3
    <3> QED BY <3>2, <3>3
  <2> QED BY <2>3, <2>4, <2>5, <2>6, <2>7 DEF Ranked, Falls
<1>18. AheadOf(r)'
  BY <1>3, <1>4 DEF AheadOf
<1>19. DictCounted'
  <2>1. dictPc \in [Mappers -> DictPlaces] /\ dictPc'[t] = "delete" /\ \A u \in Mappers : u # t => dictPc'[u] = dictPc[u]
    BY <1>1, <1>3 DEF DictTypes
  <2>2. Adding' = Adding /\ Taking' = Taking + 1 /\ Adding \in Nat /\ Taking \in Nat
    BY <1>2, <2>1, DictShift
  <2>3. Cardinality(live') = Cardinality(live) - 1
    BY <1>2, <1>5, <1>6, FS_RemoveElement
  <2>4. dictCount \in Int /\ \A u \in Mappers : dictPc[u] # "drop"
    BY <1>1, <1>2, <1>4 DEF DictTypes
  <2> QED BY <1>1, <1>2, <1>5, <2>2, <2>3, <2>4 DEF DictCounted
<1>20. KeysOnce'
  BY <1>1, <1>2, <1>3, <1>4 DEF KeysOnce, WriterPairs, InsertDoubles, SearchCovers, CasAlone, NodePairs
<1> QED BY <1>8, <1>12, <1>13, <1>14, <1>15, <1>16, <1>17, <1>18, <1>19, <1>20 DEF DictGood, Listed

LEMMA DictDeleteStep ==
    ASSUME Dict!DictAssumption, DictGood, NEW t \in Mappers, Dict!Delete(t)
    PROVE  DictGood'
<1>1. /\ DictTypes /\ DictSolo /\ OpFits /\ DictApart /\ FreshNodes /\ Listed
      /\ Sought /\ Removing /\ Dropping /\ DictCounted /\ KeysOnce
  BY DEF DictGood
<1>2. /\ dictPc[t] = "delete" /\ broken' = (broken \/ cur[t] \in dictFreed) /\ dictFreed' = dictFreed \cup {cur[t]}
      /\ UNCHANGED <<table, next, key, dictCount, op, arg, cur, prev, dictMade, nodes, live, there, doubled, missed>>
  BY DEF Dict!Delete, Dict!Touch
<1>3. dictPc' \in [Mappers -> DictPlaces] /\ \A u \in Mappers : dictPc'[u] = (IF u = t THEN "sub" ELSE dictPc[u])
  BY <1>1 DEF Dict!Delete, Dict!Goto, DictTypes, DictPlaces
<1>4. op[t] = "remove" /\ \A u \in Mappers : u # t => dictPc[u] = "idle"
  BY <1>1, <1>2 DEF OpFits, DictSolo, Dict!Removers
<1>5. cur[t] \in 1..nodes /\ cur[t] \notin live /\ cur[t] \notin dictFreed
  BY <1>1, <1>2 DEF Removing
<1>6. DictTypes'
  BY <1>1, <1>2, <1>3 DEF DictTypes
<1>7. DictSolo' /\ OpFits' /\ FreshNodes' /\ Sought' /\ Removing'
  BY <1>1, <1>2, <1>3, <1>4 DEF DictSolo, OpFits, FreshNodes, Sought, Removing
<1>8. DictApart'
  BY <1>1, <1>2, <1>5 DEF DictApart
<1>9. Dropping'
  BY <1>3, <1>4 DEF Dropping
<1>10. Listed'
  <2>1. PICK r \in [Dict!Nodes -> Nat] : Ranked(r) /\ AheadOf(r)
    BY <1>1 DEF Listed
  <2>2. Ranked(r)' /\ AheadOf(r)'
    BY <1>2, <1>3, <1>4, <2>1, RankedKept DEF AheadOf
  <2> QED BY <2>2 DEF Listed
<1>11. DictCounted'
  <2>1. dictPc \in [Mappers -> DictPlaces] /\ dictPc'[t] = "sub" /\ \A u \in Mappers : u # t => dictPc'[u] = dictPc[u]
    BY <1>1, <1>3 DEF DictTypes
  <2>2. Adding' = Adding /\ Taking' = Taking
    BY <1>2, <2>1, DictShift
  <2> QED BY <1>1, <1>2, <1>4, <2>2 DEF DictCounted
<1>12. KeysOnce'
  BY <1>1, <1>2, <1>3, <1>4 DEF KeysOnce, WriterPairs, InsertDoubles, SearchCovers, CasAlone, NodePairs
<1> QED BY <1>6, <1>7, <1>8, <1>9, <1>10, <1>11, <1>12 DEF DictGood

LEMMA DictCountDownStep ==
    ASSUME Dict!DictAssumption, DictGood, NEW t \in Mappers, Dict!CountDown(t)
    PROVE  DictGood'
<1>1. /\ DictTypes /\ DictSolo /\ OpFits /\ DictApart /\ FreshNodes /\ Listed
      /\ Sought /\ Removing /\ Dropping /\ DictCounted /\ KeysOnce
  BY DEF DictGood
<1>2. /\ dictPc[t] = "sub" /\ dictCount' = dictCount - 1
      /\ UNCHANGED <<table, next, key, dictFreed, op, arg, cur, prev, dictMade, nodes, live, there, doubled, broken, missed>>
  BY DEF Dict!CountDown
<1>3. dictPc' \in [Mappers -> DictPlaces] /\ \A u \in Mappers : dictPc'[u] = (IF u = t THEN "idle" ELSE dictPc[u])
  BY <1>1 DEF Dict!CountDown, Dict!Goto, DictTypes, DictPlaces
<1>4. op[t] = "remove" /\ \A u \in Mappers : u # t => dictPc[u] = "idle"
  BY <1>1, <1>2 DEF OpFits, DictSolo, Dict!Removers
<1>5. DictTypes'
  BY <1>1, <1>2, <1>3 DEF DictTypes
<1>6. DictSolo' /\ OpFits' /\ DictApart' /\ FreshNodes' /\ Sought' /\ Removing' /\ Dropping'
  BY <1>1, <1>2, <1>3, <1>4 DEF DictSolo, OpFits, DictApart, FreshNodes, Sought, Removing, Dropping
<1>7. Listed'
  <2>1. PICK r \in [Dict!Nodes -> Nat] : Ranked(r) /\ AheadOf(r)
    BY <1>1 DEF Listed
  <2>2. Ranked(r)' /\ AheadOf(r)'
    BY <1>2, <1>3, <1>4, <2>1, RankedKept DEF AheadOf
  <2> QED BY <2>2 DEF Listed
<1>8. DictCounted'
  <2>1. dictPc \in [Mappers -> DictPlaces] /\ dictPc'[t] = "idle" /\ \A u \in Mappers : u # t => dictPc'[u] = dictPc[u]
    BY <1>1, <1>3 DEF DictTypes
  <2>2. Adding' = Adding /\ Taking' = Taking - 1 /\ Adding \in Nat /\ Taking \in Nat
    BY <1>2, <2>1, DictShift
  <2>3. dictCount \in Int /\ Cardinality(live) \in Nat
    BY <1>1, LiveFinite DEF DictTypes
  <2>4. \A u \in Mappers : dictPc[u] # "drop"
    BY <1>2, <1>4
  <2>5. dictCount + Adding = Cardinality(live) + Taking
    BY <1>1, <2>4 DEF DictCounted
  <2>6. dictCount' + Adding' = Cardinality(live) + Taking'
    BY <1>2, <2>2, <2>3, <2>5
  <2> QED BY <1>2, <2>6 DEF DictCounted
<1>9. KeysOnce'
  BY <1>1, <1>2, <1>3, <1>4 DEF KeysOnce, WriterPairs, InsertDoubles, SearchCovers, CasAlone, NodePairs
<1> QED BY <1>5, <1>6, <1>7, <1>8, <1>9 DEF DictGood

\* clear() takes the list: its nodes are now only clear()'s.
LEMMA DictClearStep ==
    ASSUME Dict!DictAssumption, DictGood, NEW t \in Mappers, Dict!Clear(t), Dict!RemovedAlone'
    PROVE  DictGood'
<1>1. /\ DictTypes /\ DictSolo /\ OpFits /\ DictApart /\ FreshNodes /\ Listed
      /\ Sought /\ Removing /\ Dropping /\ DictCounted /\ KeysOnce
  BY DEF DictGood
<1>2. /\ Dict!Begin(t, "clear", arg[t]) /\ table' = Dict!Nil /\ live' = {}
      /\ UNCHANGED <<next, key, dictCount, dictFreed, prev, dictMade, nodes, broken, missed>>
  BY DEF Dict!Clear
<1>3. PICK o \in DictOps : o = "clear"
  BY DEF DictOps, Dict!Removers
<1>4. PICK k \in MapKeys : k = arg[t]
  BY <1>1 DEF DictTypes
<1>5. Dict!Begin(t, o, k) /\ Begun(t, o, k)
  BY <1>2, <1>3, <1>4, DictBegins
<1>6. o \in Dict!Removers
  BY <1>3 DEF Dict!Removers
<1>7. /\ \A u \in Mappers : dictPc[u] = "idle"
      /\ \A u \in Mappers : op'[u] = (IF u = t THEN o ELSE op[u])
      /\ op' \in [Mappers -> DictOps] /\ arg' \in [Mappers -> MapKeys]
      /\ doubled \subseteq doubled'
  BY <1>5, <1>6 DEF Begun
<1>8. /\ cur' \in [Mappers -> Links] /\ dictPc' \in [Mappers -> DictPlaces]
      /\ cur'[t] = table
      /\ \A u \in Mappers : dictPc'[u] = (IF u = t THEN "drop" ELSE dictPc[u])
  BY <1>1 DEF Dict!Clear, Dict!Goto, DictTypes, Links, DictPlaces
<1>9. live \subseteq Dict!Nodes /\ {m \in live : key[m] = k} \in SUBSET Dict!Nodes
  BY <1>1, LiveFinite
<1>10. DictTypes'
  <2>1. there' \in [Mappers -> SUBSET Dict!Nodes]
    BY <1>1, <1>5, <1>9 DEF Dict!Begin, DictTypes
  <2>2. table' \in Links
    BY <1>2 DEF Links
  <2> QED BY <1>1, <1>2, <1>7, <1>8, <2>1, <2>2 DEF DictTypes
<1>11. DictSolo' /\ OpFits' /\ FreshNodes' /\ Sought' /\ Removing'
  BY <1>3, <1>7, <1>8 DEF DictSolo, OpFits, FreshNodes, Sought, Removing
<1>12. DictApart'
  BY <1>1, <1>2 DEF DictApart
<1>13. PICK r \in [Dict!Nodes -> Nat] : Ranked(r) /\ AheadOf(r)
  BY <1>1 DEF Listed
<1>14. Ranked(r)' /\ AheadOf(r)'
  BY <1>2, <1>7, <1>8 DEF Ranked, Falls, AheadOf
<1>15. Dropping'
  <2>1. PICK D \in SUBSET (1..nodes') : D = live
    BY <1>1, <1>2 DEF DictApart
  <2>2. PICK c : c = table
    OBVIOUS
  <2>3. DropsFrom(c, r, D)'
    BY <1>1, <1>2, <1>13, <2>1, <2>2 DEF Ranked, Falls, DropsFrom, DictApart
  <2>4. DropsFrom(cur[t], r, D)'
    BY <1>8, <2>2, <2>3 DEF DropsFrom
  <2>5. \A u \in Mappers : dictPc'[u] = "drop" => u = t
    BY <1>7, <1>8
  <2> QED BY <1>2, <2>1, <2>4, <2>5 DEF Dropping
<1>16. DictCounted'
  BY <1>8 DEF DictCounted
<1>17. KeysOnce'
  <2>1. \A u \in Mappers : dictPc'[u] # "idle" => Dict!Searched(op'[u], arg'[u]) = arg'[u]
    BY <1>3, <1>7, <1>8 DEF Dict!Searched
  <2> QED BY <1>2, <1>3, <1>7, <1>8, <2>1 DEF KeysOnce, WriterPairs, InsertDoubles, SearchCovers, CasAlone, NodePairs, Dict!Writers
<1> QED BY <1>10, <1>11, <1>12, <1>13, <1>14, <1>15, <1>16, <1>17 DEF DictGood, Listed

\* clear() deletes the first node of its list and goes on to the next, which is lower.
LEMMA DictDropStep ==
    ASSUME Dict!DictAssumption, DictGood, NEW t \in Mappers, Dict!Drop(t)
    PROVE  DictGood'
<1>1. /\ DictTypes /\ DictSolo /\ OpFits /\ DictApart /\ FreshNodes /\ Listed
      /\ Sought /\ Removing /\ Dropping /\ DictCounted /\ KeysOnce
  BY DEF DictGood
<1>2. dictPc[t] = "drop" /\ UNCHANGED <<table, next, key, op, arg, prev, dictMade, nodes, live, there, doubled, missed>>
  BY DEF Dict!Drop
<1>3. op[t] = "clear" /\ \A u \in Mappers : u # t => dictPc[u] = "idle"
  BY <1>1, <1>2 DEF OpFits, DictSolo, Dict!Removers
<1>4. PICK r \in [Dict!Nodes -> Nat], D \in SUBSET (1..nodes) : DropsFrom(cur[t], r, D)
  BY <1>1, <1>2 DEF Dropping
<1>5. live = {}
  BY <1>1, <1>2 DEF Dropping
<1>6. PICK q \in [Dict!Nodes -> Nat] : Ranked(q) /\ AheadOf(q)
  BY <1>1 DEF Listed
<1>7. Ranked(q)'
  BY <1>2, <1>6, RankedKept
<1>8. CASE cur[t] # Dict!Nil
  <2>1. /\ broken' = (broken \/ cur[t] \in dictFreed) /\ dictFreed' = dictFreed \cup {cur[t]}
        /\ cur' = [cur EXCEPT ![t] = next[cur[t]]] /\ UNCHANGED <<dictCount, dictPc>>
    BY <1>8 DEF Dict!Drop, Dict!Touch
  <2>2. PICK c \in D : c = cur[t]
    BY <1>4, <1>8 DEF DropsFrom
  <2>3. 1..nodes \subseteq Dict!Nodes
    BY <1>1 DEF DictTypes, Dict!Nodes, Dict!DictAssumption
  <2>4. D \subseteq Dict!Nodes /\ c \notin dictFreed /\ c \in 1..nodes /\ \A n \in D : r[n] \in Nat
    BY <1>4, <2>2, <2>3 DEF DropsFrom
  <2>5. next[c] \in Links /\ next[c] \in D \cup {Dict!Nil} /\ (next[c] # Dict!Nil => r[next[c]] < r[c])
    BY <1>1, <1>4, <2>2, <2>4 DEF DictTypes, DropsFrom, Falls
  <2>6. cur' \in [Mappers -> Links] /\ cur'[t] = next[c] /\ \A u \in Mappers : u # t => cur'[u] = cur[u]
    BY <1>1, <2>1, <2>2, <2>5 DEF DictTypes
  <2>7. DictTypes'
    BY <1>1, <1>2, <2>1, <2>6 DEF DictTypes
  <2>8. DictSolo' /\ OpFits' /\ FreshNodes' /\ Sought' /\ Removing'
    BY <1>1, <1>2, <1>3, <2>1 DEF DictSolo, OpFits, FreshNodes, Sought, Removing
  <2>9. DictApart'
    BY <1>1, <1>2, <1>5, <2>1, <2>2, <2>4 DEF DictApart
  <2>10. PICK E \in SUBSET (1..nodes') : E = {n \in D : r[n] < r[c]}
    BY <1>2
  <2>11. DropsFrom(cur[t], r, E)'
    <3>1. \A n \in E : n \in D /\ r[n] < r[c] /\ n # c
      BY <2>4, <2>10
    <3>2. cur'[t] \in E \cup {Dict!Nil}
      BY <2>5, <2>6, <2>10
    <3>3. E \cap dictFreed' = {}
      BY <1>4, <2>1, <2>2, <3>1 DEF DropsFrom
    <3>4. \A n \in E : next'[n] \in E \cup {Dict!Nil} /\ (next'[n] # Dict!Nil => r[next'[n]] < r[n])
      <4> SUFFICES ASSUME NEW n \in E PROVE next[n] \in E \cup {Dict!Nil} /\ (next[n] # Dict!Nil => r[next[n]] < r[n])
        BY <1>2
      <4>1. n \in D /\ r[n] < r[c] /\ next[n] \in D \cup {Dict!Nil} /\ (next[n] # Dict!Nil => r[next[n]] < r[n])
        BY <1>4, <3>1 DEF DropsFrom, Falls
      <4>2. ASSUME next[n] # Dict!Nil PROVE next[n] \in D /\ r[next[n]] < r[c]
        <5>1. next[n] \in D /\ r[next[n]] < r[n]
          BY <4>1, <4>2
        <5>2. r[next[n]] \in Nat /\ r[n] \in Nat /\ r[c] \in Nat
          BY <2>4, <4>1, <5>1
        <5> QED BY <4>1, <5>1, <5>2
      <4> QED BY <2>10, <4>1, <4>2
    <3> QED BY <3>2, <3>3, <3>4 DEF DropsFrom, Falls
  <2>12. Dropping'
    <3>1. \A u \in Mappers : dictPc'[u] = "drop" => u = t
      BY <1>3, <2>1
    <3> QED BY <1>2, <1>5, <2>10, <2>11, <3>1 DEF Dropping
  <2>13. AheadOf(q)'
    BY <1>2, <1>3, <2>1 DEF AheadOf
  <2>14. DictCounted'
    BY <1>2, <2>1 DEF DictCounted
  <2>15. KeysOnce'
    BY <1>1, <1>2, <2>1 DEF KeysOnce, WriterPairs, InsertDoubles, SearchCovers, CasAlone, NodePairs
  <2> QED BY <1>7, <2>7, <2>8, <2>9, <2>12, <2>13, <2>14, <2>15 DEF DictGood, Listed
<1>9. CASE cur[t] = Dict!Nil
  <2>1. dictCount' = 0 /\ dictPc' = [dictPc EXCEPT ![t] = "idle"] /\ UNCHANGED <<dictFreed, cur, broken>>
    BY <1>9 DEF Dict!Drop, Dict!Goto
  <2>2. dictPc' \in [Mappers -> DictPlaces] /\ \A u \in Mappers : dictPc'[u] = "idle"
    BY <1>1, <1>3, <2>1 DEF DictTypes, DictPlaces
  <2>3. DictTypes'
    BY <1>1, <1>2, <2>1, <2>2 DEF DictTypes
  <2>4. DictSolo' /\ OpFits' /\ DictApart' /\ FreshNodes' /\ Sought' /\ Removing' /\ Dropping' /\ AheadOf(q)'
    BY <1>1, <1>2, <2>1, <2>2 DEF DictSolo, OpFits, DictApart, FreshNodes, Sought, Removing, Dropping, AheadOf
  <2>5. DictCounted'
    <3>1. Adding' = 0 /\ Taking' = 0
      BY <2>2, DictNowhere DEF Adding, Taking
    <3>2. Cardinality(live') = 0
      BY <1>2, <1>5, FS_EmptySet
    <3> QED BY <2>1, <3>1, <3>2 DEF DictCounted
  <2>6. KeysOnce'
    BY <1>1, <1>2, <2>2 DEF KeysOnce, WriterPairs, InsertDoubles, SearchCovers, CasAlone, NodePairs
  <2> QED BY <1>7, <2>3, <2>4, <2>5, <2>6 DEF DictGood, Listed
<1> QED BY <1>8, <1>9

\* overlap only grows.
LEMMA DictAloneBefore == ASSUME Dict!DictNext, Dict!RemovedAlone' PROVE Dict!RemovedAlone
<1>1. overlap \subseteq overlap'
  <2>1. \A t \in Mappers : \A o, k : Dict!Begin(t, o, k) => overlap \subseteq overlap'
    BY DEF Dict!Begin
  <2> QED BY <2>1 DEF Dict!DictNext, Dict!Insert, Dict!Walk, Dict!Publish, Dict!CountUp, Dict!Step, Dict!Found,
                      Dict!NotFound, Dict!Unlink, Dict!Delete, Dict!CountDown, Dict!Clear, Dict!Drop
<1> QED BY <1>1 DEF Dict!RemovedAlone

LEMMA DictStep == ASSUME Dict!DictAssumption, DictInv, [Dict!DictNext]_(Dict!dictVars) PROVE DictInv'
<1>1. CASE Dict!DictNext
  <2> SUFFICES ASSUME Dict!RemovedAlone' PROVE DictGood'
    BY DEF DictInv
  <2>1. DictGood
    BY <1>1, DictAloneBefore DEF DictInv
  <2>2. PICK t \in Mappers :
          \/ \E k \in MapKeys : Dict!Insert(t, k)
          \/ \E k \in MapKeys, o \in {"find", "insert_or_assign", "try_emplace", "remove"} : Dict!Walk(t, o, k)
          \/ Dict!Walk(t, "each", arg[t])
          \/ Dict!Publish(t) \/ Dict!CountUp(t) \/ Dict!Step(t) \/ Dict!Found(t) \/ Dict!NotFound(t)
          \/ Dict!Unlink(t) \/ Dict!Delete(t) \/ Dict!CountDown(t) \/ Dict!Clear(t) \/ Dict!Drop(t)
    BY <1>1 DEF Dict!DictNext
  <2>3. CASE \E k \in MapKeys : Dict!Insert(t, k)
    BY <2>1, <2>3, DictInsertStep
  <2>4. CASE \E k \in MapKeys, o \in {"find", "insert_or_assign", "try_emplace", "remove"} : Dict!Walk(t, o, k)
    <3>1. PICK k \in MapKeys, o \in {"find", "insert_or_assign", "try_emplace", "remove"} : Dict!Walk(t, o, k)
      BY <2>4
    <3>2. o \in DictOps /\ o \notin {"insert", "clear"}
      BY DEF DictOps, Dict!Readers, Dict!Writers, Dict!Removers
    <3> QED BY <2>1, <3>1, <3>2, DictWalkStep
  <2>5. CASE Dict!Walk(t, "each", arg[t])
    <3>1. PICK o \in DictOps : o = "each"
      BY DEF DictOps, Dict!Readers
    <3>2. PICK k \in MapKeys : k = arg[t]
      BY <2>1 DEF DictGood, DictTypes
    <3>3. Dict!Walk(t, o, k) /\ o \notin {"insert", "clear"}
      BY <2>5, <3>1, <3>2
    <3> QED BY <2>1, <3>3, DictWalkStep
  <2>6. CASE Dict!Publish(t) \/ Dict!CountUp(t) \/ Dict!Step(t) \/ Dict!Found(t) \/ Dict!NotFound(t)
    BY <2>1, <2>6, DictPublishStep, DictCountUpStep, DictStepStep, DictFoundStep, DictNotFoundStep
  <2>7. CASE Dict!Unlink(t) \/ Dict!Delete(t) \/ Dict!CountDown(t) \/ Dict!Clear(t) \/ Dict!Drop(t)
    BY <2>1, <2>7, DictUnlinkStep, DictDeleteStep, DictCountDownStep, DictClearStep, DictDropStep
  <2> QED BY <2>2, <2>3, <2>4, <2>5, <2>6, <2>7
<1>2. CASE UNCHANGED Dict!dictVars
  <2>1. UNCHANGED <<table, next, key, dictCount, dictFreed, dictPc, op, arg, cur, prev, dictMade,
                    nodes, live, there, overlap, doubled, broken, missed>>
    BY <1>2 DEF Dict!dictVars
  <2>2. DictGood => DictGood'
    <3> SUFFICES ASSUME DictGood PROVE DictGood'
      OBVIOUS
    <3>1. DictTypes' /\ DictSolo' /\ OpFits' /\ DictApart' /\ FreshNodes'
      BY <2>1 DEF DictGood, DictTypes, DictSolo, OpFits, DictApart, FreshNodes
    <3>2. Listed'
      BY <2>1 DEF DictGood, Listed, Ranked, Falls, AheadOf
    <3>3. Sought' /\ Removing' /\ Dropping'
      BY <2>1 DEF DictGood, Sought, Removing, Dropping, DropsFrom, Falls
    <3>4. DictCounted' /\ KeysOnce'
      BY <2>1 DEF DictGood, DictCounted, Adding, Taking, KeysOnce, WriterPairs, InsertDoubles, SearchCovers, CasAlone, NodePairs
    <3> QED BY <3>1, <3>2, <3>3, <3>4 DEF DictGood
  <2>3. Dict!RemovedAlone' <=> Dict!RemovedAlone
    BY <2>1 DEF Dict!RemovedAlone
  <2> QED BY <2>2, <2>3 DEF DictInv
<1> QED BY <1>1, <1>2

\* A nonempty set of things that have numbers has a lowest one, and a highest when they are bounded.
LEMMA RankLow ==
    ASSUME NEW X, X # {}, NEW f, \A x \in X : f[x] \in Nat
    PROVE  \E x \in X : \A y \in X : f[x] <= f[y]
<1> DEFINE R == OpToRel(<, Nat)
           Y == {f[x] : x \in X}
<1>1. IsWellFoundedOn(R, Nat)
  BY NatLessThanWellFounded, Zenon
<1>2. \A x, y \in Nat : <<y, x>> \in R <=> y < x
  BY DEF OpToRel
<1>3. Y \subseteq Nat /\ Y # {}
  OBVIOUS
<1> HIDE DEF R
<1>4. PICK low \in Y : \A y \in Y : ~(<<y, low>> \in R)
  <2> HIDE DEF Y
  <2> QED BY <1>1, <1>3, WFMin, Zenon
<1>5. PICK x \in X : low = f[x]
  BY <1>4
<1>6. ASSUME NEW y \in X PROVE f[x] <= f[y]
  <2>1. ~(f[y] < low) /\ f[y] \in Nat /\ low \in Nat
    BY <1>2, <1>3, <1>4
  <2> QED BY <1>5, <2>1
<1> QED BY <1>6

LEMMA RankHigh ==
    ASSUME NEW X, X # {}, NEW f, NEW b \in Nat, \A x \in X : f[x] \in Nat /\ f[x] <= b
    PROVE  \E x \in X : \A y \in X : f[y] <= f[x]
<1>1. PICK g : g = [x \in X |-> b - f[x]]
  OBVIOUS
<1>2. \A x \in X : g[x] \in Nat /\ g[x] = b - f[x]
  BY <1>1
<1>3. PICK x \in X : \A y \in X : g[x] <= g[y]
  BY <1>2, RankLow
<1> QED BY <1>2, <1>3

LEMMA DictReaches == ASSUME Dict!DictAssumption, DictGood PROVE Dict!Reachable = live
<1>1. DictTypes /\ DictApart
  BY DEF DictGood
<1>2. live \subseteq Dict!Nodes /\ Dict!Nil \notin live
  BY <1>1, LiveFinite
<1>3. PICK r \in [Dict!Nodes -> Nat] : Ranked(r)
  BY DEF DictGood, Listed
<1>4. /\ \A m \in live : r[m] \in Nat
      /\ \A m, n \in live : r[m] = r[n] => m = n
      /\ \A n \in live : next[n] \in live \cup {Dict!Nil} /\ (next[n] # Dict!Nil => r[next[n]] < r[n])
      /\ \A n, m \in live : r[m] < r[n] => next[n] # Dict!Nil /\ r[m] <= r[next[n]]
      /\ table \in live \cup {Dict!Nil}
      /\ \A n \in live : table # Dict!Nil /\ r[n] <= r[table]
  BY <1>2, <1>3 DEF Ranked, Falls
<1>5. Dict!Reachable \subseteq live
  BY <1>2, <1>4 DEF Dict!Reachable
<1>6. ASSUME NEW S1 \in SUBSET Dict!Nodes, table \in S1 \cup {Dict!Nil}, \A m \in S1 : next[m] \in S1 \cup {Dict!Nil}
      PROVE  live \subseteq S1
  <2> SUFFICES ASSUME live \ S1 # {} PROVE FALSE
    OBVIOUS
  <2>1. PICK head1 \in live : head1 = table /\ head1 \in S1
    BY <1>4, <1>6
  <2>2. PICK n \in live \ S1 : \A m \in live \ S1 : r[m] <= r[n]
    <3>1. \A m \in live \ S1 : r[m] \in Nat /\ r[m] <= r[head1]
      BY <1>4, <2>1
    <3>2. r[head1] \in Nat
      BY <1>4
    <3> QED BY <3>1, <3>2, RankHigh
  <2>3. PICK X : X = {m \in live : r[n] < r[m]}
    OBVIOUS
  <2>4. head1 \in X
    <3>1. r[n] <= r[head1] /\ r[n] # r[head1] /\ r[n] \in Nat /\ r[head1] \in Nat
      BY <1>4, <2>1
    <3> QED BY <2>3, <3>1
  <2>5. PICK m \in X : \A y \in X : r[m] <= r[y]
    <3>1. \A y \in X : r[y] \in Nat
      BY <1>4, <2>3
    <3> QED BY <2>4, <3>1, RankLow
  <2>6. m \in live /\ r[n] < r[m] /\ n \in live /\ r[n] \in Nat /\ r[m] \in Nat
    BY <1>4, <2>3
  <2>7. m \in S1
    BY <2>2, <2>6
  <2>8. next[m] # Dict!Nil /\ next[m] \in live /\ r[n] <= r[next[m]] /\ r[next[m]] < r[m] /\ r[next[m]] \in Nat
    BY <1>4, <2>6
  <2>9. ~(r[n] < r[next[m]])
    BY <2>3, <2>5, <2>6, <2>8
  <2>10. next[m] = n
    BY <1>4, <2>6, <2>8, <2>9
  <2> QED BY <1>6, <2>2, <2>7, <2>8, <2>10
<1>7. live \subseteq Dict!Reachable
  BY <1>2, <1>6 DEF Dict!Reachable
<1> QED BY <1>5, <1>7

LEMMA DictImplied == ASSUME Dict!DictAssumption, DictInv PROVE Dict!ListIsLive /\ Dict!NeverMisses /\ Dict!OneNodePerKey
<1> SUFFICES ASSUME Dict!RemovedAlone
             PROVE  /\ ~broken /\ Dict!Reachable = live /\ live \cap dictFreed = {} /\ ~missed
                    /\ Dict!Busy = {} => dictCount = Dict!Cardinality(live)
                    /\ \A m, n \in live : (m # n /\ key[m] = key[n]) => key[m] \in doubled
  BY DEF Dict!ListIsLive, Dict!NeverMisses, Dict!OneNodePerKey
<1>1. DictGood
  BY DEF DictInv
<1>2. ~broken /\ live \cap dictFreed = {} /\ ~missed
  BY <1>1 DEF DictGood, DictApart
<1>3. ASSUME Dict!Busy = {} PROVE dictCount = Dict!Cardinality(live)
  <2>1. \A t \in Mappers : dictPc[t] = "idle"
    BY <1>3 DEF Dict!Busy
  <2>2. Adding = 0 /\ Taking = 0
    BY <2>1, DictNowhere DEF Adding, Taking
  <2>3. dictCount \in Int /\ Cardinality(live) \in Nat
    BY <1>1, LiveFinite DEF DictGood, DictTypes
  <2>4. dictCount + Adding = Cardinality(live) + Taking
    BY <1>1, <2>1 DEF DictGood, DictCounted
  <2>5. dictCount = Cardinality(live)
    BY <2>2, <2>3, <2>4
  <2> QED BY <2>5, DictCard
<1>4. \A m, n \in live : (m # n /\ key[m] = key[n]) => key[m] \in doubled
  BY <1>1 DEF DictGood, KeysOnce, NodePairs
<1> QED BY <1>1, <1>2, <1>3, <1>4, DictReaches

LEMMA StepOfDictionary == ASSUME [DataNext]_<<focus, dataV>> PROVE [Dict!DictNext]_(Dict!dictVars)
<1> USE DEF dataV, dictV, Dict!dictVars
<1>1. CASE UNCHANGED <<focus, dataV>>
  BY <1>1
<1>2. CASE DataNext
  BY <1>2 DEF DataNext
<1> QED BY <1>1, <1>2

\* As long as remove() and clear() of dictionary_t run alone, any number of threads that
\* insert and search lose no node, touch no deleted one and miss no key that was there all
\* along; a key has two nodes only after insert(), or two writers of it at once; and
\* size() counts the nodes whenever no operation is under way.
THEOREM DictionaryCorrect == DataSpec => []DictionaryKept
<1>1. Dict!DictAssumption
  BY DataAssumption
<1>2. DataInit => DictInv
  BY <1>1, DictStarts DEF DataInit
<1>3. DictInv /\ [DataNext]_<<focus, dataV>> => DictInv'
  BY <1>1, StepOfDictionary, DictStep
<1>4. DictInv => DictionaryKept
  BY <1>1, DictImplied DEF DictionaryKept
<1> QED BY <1>2, <1>3, <1>4, PTL DEF DataSpec

-----------------------------------------------------------------------------
(* hash64_ring. *)

LEMMA RingCard == \A X : Ring!Cardinality(X) = Cardinality(X) /\ (Ring!IsFiniteSet(X) <=> IsFiniteSet(X))
BY DEF Ring!Cardinality, Cardinality, Ring!IsFiniteSet, IsFiniteSet

\* The first point of a set.
LEMMA RingMin ==
    ASSUME NEW X, X \subseteq Nat, X # {}
    PROVE  Ring!Min(X) \in X /\ \A y \in X : Ring!Min(X) <= y
<1>1. PICK f : f = [x \in X |-> x]
  OBVIOUS
<1>2. \A x \in X : f[x] \in Nat /\ f[x] = x
  BY <1>1
<1>3. PICK x \in X : \A y \in X : f[x] <= f[y]
  BY <1>2, RankLow
<1>4. \A y \in X : x <= y
  BY <1>2, <1>3
<1> QED BY <1>4 DEF Ring!Min

\* Where get() looks.
OwnerPoint(D, k) ==
    LET from == {p \in D : p >= k}
    IN Ring!Min(IF from = {} THEN D ELSE from)

\* Of two rings, one with all points of the other: get() on the larger one finds a point
\* that the smaller one does not have, or the point it finds on the smaller one.
LEMMA OwnersAgree ==
    ASSUME NEW k \in Nat, NEW A, NEW B, A \subseteq B, B \subseteq Nat, A # {}
    PROVE  /\ OwnerPoint(B, k) \in B
           /\ OwnerPoint(B, k) \in A => OwnerPoint(A, k) = OwnerPoint(B, k)
<1>1. PICK fromA : fromA = {p \in A : p >= k}
  OBVIOUS
<1>2. PICK fromB : fromB = {p \in B : p >= k}
  OBVIOUS
<1>3. PICK X : X = IF fromA = {} THEN A ELSE fromA
  OBVIOUS
<1>4. PICK Y : Y = IF fromB = {} THEN B ELSE fromB
  OBVIOUS
<1>5. OwnerPoint(A, k) = Ring!Min(X) /\ OwnerPoint(B, k) = Ring!Min(Y)
  BY <1>1, <1>2, <1>3, <1>4 DEF OwnerPoint
<1>6. X # {} /\ X \subseteq Nat /\ X \subseteq A /\ Y # {} /\ Y \subseteq Nat /\ Y \subseteq B
  BY <1>1, <1>2, <1>3, <1>4
<1>7. Ring!Min(X) \in X /\ Ring!Min(Y) \in Y /\ (\A x \in X : Ring!Min(X) <= x) /\ \A y \in Y : Ring!Min(Y) <= y
  BY <1>6, RingMin
<1>8. ASSUME Ring!Min(Y) \in A PROVE Ring!Min(X) = Ring!Min(Y)
  <2>1. Ring!Min(Y) \in X /\ X \subseteq Y
    <3>1. CASE fromB = {}
      BY <1>1, <1>2, <1>3, <1>4, <1>6, <1>7, <1>8, <3>1
    <3>2. CASE fromB # {}
      <4>1. Ring!Min(Y) \in fromA
        BY <1>1, <1>2, <1>4, <1>7, <1>8, <3>2
      <4> QED BY <1>1, <1>2, <1>3, <1>4, <3>2, <4>1
    <3> QED BY <3>1, <3>2
  <2>2. PICK x \in Nat, y \in Nat : x = Ring!Min(X) /\ y = Ring!Min(Y)
    BY <1>6, <1>7
  <2>3. x <= y /\ y <= x
    BY <1>7, <2>1, <2>2
  <2> QED BY <2>2, <2>3
<1> QED BY <1>5, <1>6, <1>7, <1>8

\* The ring is a function on points, and empty before there is one.
RingShape ==
    /\ joined \subseteq RingNodes
    /\ ring_ = [p \in DOMAIN ring_ |-> ring_[p]] /\ DOMAIN ring_ \subseteq RingPoints
    /\ hash_ = Ring!NoRing => DOMAIN ring_ = {} /\ ringSize = 0
    /\ hash_ # Ring!NoRing => hash_ \in RingHashes

\* The points of a set of nodes.
SpotsOf(h, set) == UNION {Ring!Spots(h, n) : n \in set}

\* Without collisions every point of a member is its own, and nothing else is in the ring.
RingHeld ==
    (hash_ # Ring!NoRing /\ ~Ring!Alike) =>
        /\ DOMAIN ring_ = SpotsOf(hash_, joined)
        /\ \A n \in joined : \A p \in Ring!Spots(hash_, n) : ring_[p] = n
        /\ ~listed => ringSize = Cardinality(joined)

RingInv == RingShape /\ RingHeld

LEMMA SpotsKnown ==
    ASSUME Ring!RingAssumption, NEW h \in RingHashes
    PROVE  \A n \in RingNodes : Ring!Spots(h, n) # {} /\ Ring!Spots(h, n) \subseteq RingPoints
<1> SUFFICES ASSUME NEW n \in RingNodes PROVE Ring!Spots(h, n) # {} /\ Ring!Spots(h, n) \subseteq RingPoints
  OBVIOUS
<1>1. Vnodes \in Nat \ {0} /\ h \in [RingNodes \X (1..Vnodes) -> RingPoints]
  BY DEF Ring!RingAssumption, Ring!Virtual
<1>2. \A i \in 1..Vnodes : h[<<n, i>>] \in RingPoints
  BY <1>1
<1>3. 1 \in 1..Vnodes
  BY <1>1
<1> QED BY <1>2, <1>3 DEF Ring!Spots

\* Without collisions a point belongs to one node.
LEMMA SpotsApart ==
    ASSUME Ring!RingAssumption, hash_ \in RingHashes, ~Ring!Alike
    PROVE  \A m, n \in RingNodes : \A p : (p \in Ring!Spots(hash_, m) /\ p \in Ring!Spots(hash_, n)) => m = n
<1> SUFFICES ASSUME NEW m \in RingNodes, NEW n \in RingNodes, NEW p, p \in Ring!Spots(hash_, m), p \in Ring!Spots(hash_, n), m # n
             PROVE  FALSE
  OBVIOUS
<1>1. PICK i \in 1..Vnodes : p = hash_[<<m, i>>]
  BY DEF Ring!Spots
<1>2. PICK j \in 1..Vnodes : p = hash_[<<n, j>>]
  BY DEF Ring!Spots
<1>3. <<m, i>> \in Ring!Virtual /\ <<n, j>> \in Ring!Virtual /\ <<m, i>> # <<n, j>>
  BY DEF Ring!Virtual
<1> QED BY <1>1, <1>2, <1>3 DEF Ring!Alike

LEMMA JoinedFinite ==
    ASSUME Ring!RingAssumption, NEW J, J \subseteq RingNodes
    PROVE  IsFiniteSet(J) /\ Cardinality(J) \in Nat /\ Cardinality(J) < ULong /\ ULong \in Nat
<1>1. IsFiniteSet(RingNodes) /\ ULong \in Nat /\ Cardinality(RingNodes) < ULong
  BY RingCard DEF Ring!RingAssumption
<1>2. IsFiniteSet(J) /\ Cardinality(J) <= Cardinality(RingNodes)
  BY <1>1, FS_Subset
<1>3. Cardinality(J) \in Nat /\ Cardinality(RingNodes) \in Nat
  BY <1>1, <1>2, FS_CardinalityType
<1> QED BY <1>1, <1>2, <1>3

\* size_ does not wrap.
LEMMA SizeWraps ==
    ASSUME NEW u \in Nat, NEW s \in Nat, s < u
    PROVE  s + 1 < u => (s + 1) % u = s + 1
<1> QED OBVIOUS
LEMMA SizeWrapsBack ==
    ASSUME NEW u \in Nat, NEW s \in Nat, s < u, s > 0
    PROVE  (s + u - 1) % u = s - 1
<1> QED OBVIOUS

LEMMA RingStarts == ASSUME Ring!RingInit PROVE RingInv
BY DEF Ring!RingInit, RingInv, RingShape, RingHeld, Ring!NoRing

LEMMA RingConstruct ==
    ASSUME Ring!RingAssumption, RingInv, hash_ = Ring!NoRing, NEW h \in RingHashes, NEW first \in {{}, RingNodes}, Ring!Construct(h, first)
    PROVE  RingInv'
<1>1. PICK L \in Ring!Lists(first) :
          ring_' = [p \in SpotsOf(h, first) |-> L[Ring!Min({i \in DOMAIN L : p \in Ring!Spots(h, L[i])})]]
  BY DEF Ring!Construct, SpotsOf
<1>2. hash_' = h /\ joined' = first /\ listed' = (first # {}) /\ ringSize' = ringSize /\ ringSize = 0
  BY DEF Ring!Construct, RingInv, RingShape
<1>3. first \subseteq RingNodes
  OBVIOUS
<1>4. DOMAIN ring_' = SpotsOf(h, first) /\ ring_' = [p \in DOMAIN ring_' |-> ring_'[p]]
  BY <1>1
<1>5. RingShape'
  <2>1. SpotsOf(h, first) \subseteq RingPoints
    BY <1>3, SpotsKnown DEF SpotsOf
  <2>2. h = Ring!NoRing => SpotsOf(h, first) = {}
    <3> SUFFICES ASSUME h = Ring!NoRing, NEW n \in first PROVE FALSE
      BY DEF SpotsOf
    <3>1. <<n, 1>> \in Ring!Virtual
      BY <1>3 DEF Ring!RingAssumption, Ring!Virtual
    <3>2. h \in [Ring!Virtual -> RingPoints]
      BY DEF Ring!RingAssumption
    <3>3. DOMAIN h = Ring!Virtual
      BY <3>2
    <3>4. DOMAIN Ring!NoRing = {}
      BY DEF Ring!NoRing
    <3> QED BY <3>1, <3>3, <3>4
  <2> QED BY <1>2, <1>3, <1>4, <2>1, <2>2 DEF RingShape
<1>6. RingHeld'
  <2> SUFFICES ASSUME ~Ring!Alike'
               PROVE  /\ \A n \in first : \A p \in Ring!Spots(h, n) : ring_'[p] = n
                      /\ first = {} => ringSize' = Cardinality(first)
    BY <1>2, <1>4 DEF RingHeld
  <2>1. first = {} => ringSize' = Cardinality(first)
    BY <1>2, FS_EmptySet
  <2>2. ASSUME NEW n \in first, NEW p \in Ring!Spots(h, n) PROVE ring_'[p] = n
    <3>1. PICK X : X = {i \in DOMAIN L : p \in Ring!Spots(h, L[i])}
      OBVIOUS
    <3>2. p \in SpotsOf(h, first)
      BY <2>2 DEF SpotsOf
    <3>3. ring_'[p] = L[Ring!Min(X)]
      BY <1>1, <3>1, <3>2
    <3>4. Cardinality(first) \in Nat /\ Ring!Cardinality(first) = Cardinality(first)
      BY <1>3, JoinedFinite, RingCard
    <3>5. L \in [1..Cardinality(first) -> first] /\ \E i \in DOMAIN L : L[i] = n
      BY <2>2, <3>4 DEF Ring!Lists
    <3>6. X \subseteq Nat /\ X # {}
      BY <2>2, <3>1, <3>4, <3>5
    <3>7. Ring!Min(X) \in X
      BY <3>6, RingMin
    <3>8. p \in Ring!Spots(h, L[Ring!Min(X)]) /\ L[Ring!Min(X)] \in first
      BY <3>1, <3>5, <3>7
    <3>9. PICK m \in first : m = L[Ring!Min(X)] /\ p \in Ring!Spots(h, m)
      BY <3>8
    <3>10. PICK i \in 1..Vnodes : p = h[<<m, i>>]
      BY <3>9 DEF Ring!Spots
    <3>11. PICK j \in 1..Vnodes : p = h[<<n, j>>]
      BY <2>2 DEF Ring!Spots
    <3>12. <<m, i>> \in Ring!Virtual /\ <<n, j>> \in Ring!Virtual
      BY <1>3 DEF Ring!Virtual
    <3>13. <<m, i>> = <<n, j>>
      BY <1>2, <3>10, <3>11, <3>12 DEF Ring!Alike
    <3> QED BY <3>3, <3>9, <3>13
  <2> QED BY <2>1, <2>2
<1> QED BY <1>5, <1>6 DEF RingInv

LEMMA RingInsert ==
    ASSUME Ring!RingAssumption, RingInv, NEW n \in RingNodes, Ring!Insert(n)
    PROVE  RingInv'
<1>1. PICK P : P = Ring!Spots(hash_, n)
  OBVIOUS
<1>2. /\ hash_ # Ring!NoRing /\ hash_' = hash_ /\ listed' = listed /\ joined' = joined \cup {n}
      /\ ring_' = [p \in DOMAIN ring_ \cup P |-> IF p \in DOMAIN ring_ THEN ring_[p] ELSE n]
      /\ ringSize' = IF P \subseteq DOMAIN ring_ THEN ringSize ELSE (ringSize + 1) % ULong
  BY <1>1 DEF Ring!Insert, Ring!RingCall, Ring!Emplaced
<1>3. hash_ \in RingHashes /\ joined \subseteq RingNodes /\ DOMAIN ring_ \subseteq RingPoints
  BY <1>2 DEF RingInv, RingShape
<1>4. P # {} /\ P \subseteq RingPoints
  BY <1>1, <1>3, SpotsKnown
<1>5. DOMAIN ring_' = DOMAIN ring_ \cup P /\ ring_' = [p \in DOMAIN ring_' |-> ring_'[p]]
      /\ \A p \in DOMAIN ring_' : ring_'[p] = IF p \in DOMAIN ring_ THEN ring_[p] ELSE n
  BY <1>2
<1>6. RingShape'
  BY <1>2, <1>3, <1>4, <1>5 DEF RingShape
<1>7. RingHeld'
  <2> SUFFICES ASSUME ~Ring!Alike
               PROVE  /\ DOMAIN ring_' = SpotsOf(hash_, joined')
                      /\ \A m \in joined' : \A p \in Ring!Spots(hash_, m) : ring_'[p] = m
                      /\ ~listed => ringSize' = Cardinality(joined')
    <3>1. Ring!Alike' <=> Ring!Alike
      BY <1>2 DEF Ring!Alike
    <3> QED BY <1>2, <3>1 DEF RingHeld
  <2>1. /\ DOMAIN ring_ = SpotsOf(hash_, joined)
        /\ \A m \in joined : \A p \in Ring!Spots(hash_, m) : ring_[p] = m
        /\ ~listed => ringSize = Cardinality(joined)
    BY <1>2 DEF RingInv, RingHeld
  <2>2. DOMAIN ring_' = SpotsOf(hash_, joined')
    BY <1>1, <1>2, <1>5, <2>1 DEF SpotsOf
  <2>3. \A p : p \in DOMAIN ring_ <=> \E m \in joined : p \in Ring!Spots(hash_, m)
    BY <2>1 DEF SpotsOf
  <2>4. \A m, q \in RingNodes : \A p : (p \in Ring!Spots(hash_, m) /\ p \in Ring!Spots(hash_, q)) => m = q
    BY <1>3, SpotsApart
  <2>5. CASE n \in joined
    <3>1. P \subseteq DOMAIN ring_ /\ joined' = joined
      BY <1>1, <1>2, <2>3, <2>5
    <3> QED BY <1>2, <1>5, <2>1, <2>2, <2>3, <3>1
  <2>6. CASE n \notin joined
    <3>1. \A p \in P : p \notin DOMAIN ring_
      BY <1>1, <1>3, <2>3, <2>4, <2>6
    <3>2. ringSize' = (ringSize + 1) % ULong
      BY <1>2, <1>4, <3>1
    <3>3. IsFiniteSet(joined) /\ Cardinality(joined) \in Nat /\ Cardinality(joined') < ULong /\ ULong \in Nat /\ Cardinality(joined) < ULong
      BY <1>2, <1>3, JoinedFinite
    <3>4. Cardinality(joined') = Cardinality(joined) + 1
      BY <1>2, <2>6, <3>3, FS_AddElement
    <3>5. (Cardinality(joined) + 1) % ULong = Cardinality(joined) + 1
      BY <3>3, <3>4, SizeWraps
    <3>6. ~listed => ringSize' = Cardinality(joined')
      BY <2>1, <3>2, <3>4, <3>5
    <3>7. \A m \in joined' : \A p \in Ring!Spots(hash_, m) : ring_'[p] = m
      <4> SUFFICES ASSUME NEW m \in joined', NEW p \in Ring!Spots(hash_, m) PROVE ring_'[p] = m
        OBVIOUS
      <4>1. CASE m = n
        BY <1>1, <1>5, <3>1, <4>1
      <4>2. CASE m # n
        BY <1>2, <1>5, <2>1, <2>3, <4>2
      <4> QED BY <4>1, <4>2
    <3> QED BY <2>2, <3>6, <3>7
  <2> QED BY <2>5, <2>6
<1> QED BY <1>6, <1>7 DEF RingInv

LEMMA RingRemove ==
    ASSUME Ring!RingAssumption, RingInv, NEW n \in RingNodes, Ring!Remove(n)
    PROVE  RingInv'
<1>1. PICK P : P = Ring!OwnPoints(n)
  OBVIOUS
<1>2. /\ hash_ # Ring!NoRing /\ hash_' = hash_ /\ listed' = listed /\ joined' = joined \ {n}
      /\ ring_' = [p \in DOMAIN ring_ \ P |-> ring_[p]]
      /\ ringSize' = IF P = {} THEN ringSize ELSE (ringSize + ULong - 1) % ULong
  BY <1>1 DEF Ring!Remove, Ring!RingCall
<1>3. hash_ \in RingHashes /\ joined \subseteq RingNodes /\ DOMAIN ring_ \subseteq RingPoints
  BY <1>2 DEF RingInv, RingShape
<1>4. \A p : p \in P <=> p \in Ring!Spots(hash_, n) /\ p \in DOMAIN ring_ /\ ring_[p] = n
  BY <1>1 DEF Ring!OwnPoints
<1>5. DOMAIN ring_' = DOMAIN ring_ \ P /\ ring_' = [p \in DOMAIN ring_' |-> ring_'[p]]
      /\ \A p \in DOMAIN ring_' : ring_'[p] = ring_[p]
  BY <1>2
<1>6. RingShape'
  BY <1>2, <1>3, <1>5 DEF RingShape
<1>7. RingHeld'
  <2> SUFFICES ASSUME ~Ring!Alike
               PROVE  /\ DOMAIN ring_' = SpotsOf(hash_, joined')
                      /\ \A m \in joined' : \A p \in Ring!Spots(hash_, m) : ring_'[p] = m
                      /\ ~listed => ringSize' = Cardinality(joined')
    <3>1. Ring!Alike' <=> Ring!Alike
      BY <1>2 DEF Ring!Alike
    <3> QED BY <1>2, <3>1 DEF RingHeld
  <2>1. /\ DOMAIN ring_ = SpotsOf(hash_, joined)
        /\ \A m \in joined : \A p \in Ring!Spots(hash_, m) : ring_[p] = m
        /\ ~listed => ringSize = Cardinality(joined)
    BY <1>2 DEF RingInv, RingHeld
  <2>2. \A p : p \in DOMAIN ring_ <=> \E m \in joined : p \in Ring!Spots(hash_, m)
    BY <2>1 DEF SpotsOf
  <2>3. \A m, q \in RingNodes : \A p : (p \in Ring!Spots(hash_, m) /\ p \in Ring!Spots(hash_, q)) => m = q
    BY <1>3, SpotsApart
  <2>4. \A p : p \in P <=> n \in joined /\ p \in Ring!Spots(hash_, n)
    BY <1>3, <1>4, <2>1, <2>2, <2>3
  <2>5. \A p : p \in DOMAIN ring_' <=> \E m \in joined' : p \in Ring!Spots(hash_, m)
    BY <1>2, <1>3, <1>5, <2>2, <2>3, <2>4
  <2>6. DOMAIN ring_' = SpotsOf(hash_, joined')
    BY <2>5 DEF SpotsOf
  <2>7. \A m \in joined' : \A p \in Ring!Spots(hash_, m) : ring_'[p] = m
    BY <1>2, <1>5, <2>1, <2>5
  <2>8. CASE n \in joined
    <3>1. P # {}
      BY <1>3, <2>4, <2>8, SpotsKnown
    <3>2. IsFiniteSet(joined) /\ Cardinality(joined) \in Nat /\ Cardinality(joined) < ULong /\ ULong \in Nat
      BY <1>3, JoinedFinite
    <3>3. Cardinality(joined') = Cardinality(joined) - 1 /\ Cardinality(joined') \in Nat
      <4>1. Cardinality(joined') = Cardinality(joined) - 1
        BY <1>2, <2>8, <3>2, FS_RemoveElement
      <4>2. joined' \subseteq RingNodes
        BY <1>2, <1>3
      <4> QED BY <4>1, <4>2, JoinedFinite
    <3>4. (Cardinality(joined) + ULong - 1) % ULong = Cardinality(joined) - 1
      BY <3>2, <3>3, SizeWrapsBack
    <3> QED BY <1>2, <2>1, <2>6, <2>7, <3>1, <3>3, <3>4
  <2>9. CASE n \notin joined
    <3>1. P = {} /\ joined' = joined
      BY <1>2, <2>4, <2>9
    <3> QED BY <1>2, <2>1, <2>6, <2>7, <3>1
  <2> QED BY <2>8, <2>9
<1> QED BY <1>6, <1>7 DEF RingInv

LEMMA RingStep == ASSUME Ring!RingAssumption, RingInv, [Ring!RingNext]_(Ring!ringVars) PROVE RingInv'
<1>1. CASE UNCHANGED Ring!ringVars
  <2>1. UNCHANGED <<ring_, ringSize, hash_, joined, listed>>
    BY <1>1 DEF Ring!ringVars
  <2>2. Ring!Alike' <=> Ring!Alike
    BY <2>1 DEF Ring!Alike
  <2> QED BY <2>1, <2>2 DEF RingInv, RingShape, RingHeld
<1>2. CASE Ring!RingNext
  BY <1>2, RingConstruct, RingInsert, RingRemove DEF Ring!RingNext
<1> QED BY <1>1, <1>2

\* CHOOSE has no choice when the points are apart.
LEMMA RingImplied == ASSUME Ring!RingAssumption, RingInv PROVE Ring!RingOfMembers
<1> SUFFICES ASSUME hash_ # Ring!NoRing, ~Ring!Alike
             PROVE  /\ ring_ = [p \in SpotsOf(hash_, joined) |-> CHOOSE n \in joined : p \in Ring!Spots(hash_, n)]
                    /\ ~listed => ringSize = Ring!Cardinality(joined)
  BY DEF Ring!RingOfMembers, SpotsOf
<1>1. /\ DOMAIN ring_ = SpotsOf(hash_, joined)
      /\ \A m \in joined : \A p \in Ring!Spots(hash_, m) : ring_[p] = m
      /\ ~listed => ringSize = Cardinality(joined)
  BY DEF RingInv, RingHeld
<1>2. ring_ = [p \in DOMAIN ring_ |-> ring_[p]]
  BY DEF RingInv, RingShape
<1>3. \A p \in SpotsOf(hash_, joined) : ring_[p] = CHOOSE n \in joined : p \in Ring!Spots(hash_, n)
  BY <1>1 DEF SpotsOf
<1> QED BY <1>1, <1>2, <1>3, RingCard

\* What a call may move: the keys the new node takes, or those the old one had.
MovesIts ==
    \A k \in RingPoints :
        (DOMAIN ring_ # {} /\ DOMAIN ring_' # {} /\ Ring!Owner(ring_, k) # Ring!Owner(ring_', k))
        => IF called'[1] = "insert" THEN Ring!Owner(ring_', k) = called'[2]
                                    ELSE Ring!Owner(ring_, k) = called'[2]

LEMMA RingMoves ==
    ASSUME Ring!RingAssumption, RingInv, Ring!RingNext PROVE MovesIts
<1> SUFFICES ASSUME NEW k \in RingPoints, DOMAIN ring_ # {}, DOMAIN ring_' # {}, Ring!Owner(ring_, k) # Ring!Owner(ring_', k)
             PROVE  IF called'[1] = "insert" THEN Ring!Owner(ring_', k) = called'[2]
                                             ELSE Ring!Owner(ring_, k) = called'[2]
  BY DEF MovesIts
<1>1. hash_ # Ring!NoRing
  BY DEF RingInv, RingShape
<1>2. RingShape'
  BY RingStep DEF RingInv
<1>3. k \in Nat /\ DOMAIN ring_ \subseteq Nat /\ DOMAIN ring_' \subseteq Nat
  BY <1>2 DEF RingInv, RingShape, Ring!RingAssumption
<1>4. \A r : Ring!Owner(r, k) = r[OwnerPoint(DOMAIN r, k)]
  BY DEF Ring!Owner, OwnerPoint
<1>5. PICK n \in RingNodes : Ring!Insert(n) \/ Ring!Remove(n)
  BY <1>1 DEF Ring!RingNext
<1>6. CASE Ring!Insert(n)
  <2>1. called' = <<"insert", n>> /\ ring_' = [p \in DOMAIN ring_ \cup Ring!Spots(hash_, n) |-> IF p \in DOMAIN ring_ THEN ring_[p] ELSE n]
    BY <1>6 DEF Ring!Insert, Ring!Emplaced
  <2>2. DOMAIN ring_ \subseteq DOMAIN ring_' /\ \A p \in DOMAIN ring_' : ring_'[p] = IF p \in DOMAIN ring_ THEN ring_[p] ELSE n
    BY <2>1
  <2>3. PICK p \in DOMAIN ring_' : p = OwnerPoint(DOMAIN ring_', k) /\ (p \in DOMAIN ring_ => OwnerPoint(DOMAIN ring_, k) = p)
    BY <1>3, <2>2, OwnersAgree
  <2>4. p \notin DOMAIN ring_
    BY <1>4, <2>2, <2>3
  <2> QED BY <1>4, <2>1, <2>2, <2>3, <2>4
<1>7. CASE Ring!Remove(n)
  <2>1. called' = <<"remove", n>> /\ ring_' = [p \in DOMAIN ring_ \ Ring!OwnPoints(n) |-> ring_[p]]
    BY <1>7 DEF Ring!Remove
  <2>2. DOMAIN ring_' = DOMAIN ring_ \ Ring!OwnPoints(n) /\ \A p \in DOMAIN ring_' : ring_'[p] = ring_[p]
    BY <2>1
  <2>3. PICK p \in DOMAIN ring_ : p = OwnerPoint(DOMAIN ring_, k) /\ (p \in DOMAIN ring_' => OwnerPoint(DOMAIN ring_', k) = p)
    BY <1>3, <2>2, OwnersAgree
  <2>4. p \notin DOMAIN ring_'
    BY <1>4, <2>2, <2>3
  <2>5. ring_[p] = n
    BY <2>2, <2>3, <2>4 DEF Ring!OwnPoints
  <2> QED BY <1>4, <2>1, <2>3, <2>5
<1> QED BY <1>5, <1>6, <1>7

LEMMA StepOfRing == ASSUME [DataNext]_<<focus, dataV>> PROVE [Ring!RingNext]_(Ring!ringVars)
<1> USE DEF dataV, ringV, Ring!ringVars
<1>1. CASE UNCHANGED <<focus, dataV>>
  BY <1>1
<1>2. CASE DataNext
  BY <1>2 DEF DataNext
<1> QED BY <1>1, <1>2

\* However the points collide, as the hashes of hash64_ring may, for any nodes and any number of virtual
\* ones: a node that joins or leaves moves only the keys that it takes over or gives up;
\* without collisions the ring is that of its members, whatever the order they came in.
THEOREM RingCorrect == DataSpec => RingKept
<1>1. Ring!RingAssumption
  BY DataAssumption
<1>2. DataInit => RingInv
  BY RingStarts DEF DataInit
<1>3. RingInv /\ [DataNext]_<<focus, dataV>> => RingInv'
  BY <1>1, StepOfRing, RingStep
<1>4. RingInv => Ring!RingOfMembers
  BY <1>1, RingImplied
<1>5. RingInv /\ [DataNext]_<<focus, dataV>> => [MovesIts]_(Ring!ringVars)
  BY <1>1, StepOfRing, RingMoves
<1>6. DataSpec => [][MovesIts]_(Ring!ringVars)
  BY <1>2, <1>3, <1>5, PTL DEF DataSpec
<1>7. [][MovesIts]_(Ring!ringVars) => Ring!MovesOnlyItsKeys
  BY DEF MovesIts, Ring!MovesOnlyItsKeys
<1>8. DataSpec => []Ring!RingOfMembers
  BY <1>2, <1>3, <1>4, PTL DEF DataSpec
<1> QED BY <1>6, <1>7, <1>8 DEF RingKept

-----------------------------------------------------------------------------
(* args. *)

LEMMA ArgsCard == \A X : Args!Cardinality(X) = Cardinality(X)
BY DEF Args!Cardinality, Cardinality

ArgRoles == {"none", "option", "value", "end", "positional"}
ArgValue == [index : Nat, flag : BOOLEAN, num : Nat, str : Nat]

ArgTypes ==
    /\ list \in Seq(Arguments) /\ at \in 0..Len(list) /\ role \in [1..Len(list) -> ArgRoles]
    /\ letters \in Seq(STRING) /\ value_ \in [Options -> ArgValue]

\* The arguments of list L, with roles R, that name option o ...
NamedBy(L, R, o) == {i \in 1..Len(L) : R[i] = "option" /\ Args!ById(L[i].id) = {o}}

\* ... and the letters that do, but for those of argument c after the first d.
IsSpelt(L, R, o, c, d, i, j) ==
    /\ i \in 1..Len(L) /\ R[i] = "option" /\ Args!ById(L[i].id) = {}
    /\ j \in 1..Len(L[i].letters) /\ Args!ByCode(L[i].letters[j]) = {o} /\ (i = c => j <= d)
SpeltBy(L, R, o, c, d) == {p \in Nat \X Nat : IsSpelt(L, R, o, c, d, p[1], p[2])}

\* What the value v of option o says after n mentions.
TellsOf(o, v, n) ==
    /\ o \in Counter => v.flag = FALSE /\ v.num = n /\ v.index = (IF n = 0 THEN 0 ELSE 1)
    /\ o \notin Counter => n <= 1 /\ ((v.index > 0 \/ v.flag) <=> n = 1)

Tallied(L, R, V, c, d) == \A o \in Options :
    /\ IsFiniteSet(NamedBy(L, R, o)) /\ IsFiniteSet(SpeltBy(L, R, o, c, d))
    /\ TellsOf(o, V[o], Cardinality(NamedBy(L, R, o)) + Cardinality(SpeltBy(L, R, o, c, d)))

\* Every value among the first a arguments belongs to one option.
ValuesGiven(R, V, a) ==
    /\ \A o \in Options : V[o].index = 2 => o \in Usage /\ V[o].str \in 1..a
    /\ \A i \in 1..a : R[i] = "value" =>
          \E o \in Usage : /\ V[o].index = 2 /\ V[o].str = i
                           /\ \A q \in Usage : (V[q].index = 2 /\ V[q].str = i) => q = o

\* The letters still to be read are those of argument c after the first d.
LettersAt(c, d) ==
    /\ c \in Nat /\ d \in Nat
    /\ parsing = "options" => c = 0
    /\ parsing = "letters" =>
          /\ c \in 1..at /\ role[c] = "option" /\ Args!ById(list[c].id) = {}
          /\ d + Len(letters) = Len(list[c].letters)
          /\ \A j \in 1..Len(letters) : letters[j] = list[c].letters[d + j]

RolesRead == \A i \in 1..Len(list) : IF i <= at THEN role[i] \in {"option", "value"} ELSE role[i] = "none"

ArgsReading(c, d) ==
    RolesRead /\ LettersAt(c, d) /\ Tallied(list, role, value_, c, d) /\ ValuesGiven(role, value_, at)

ArgsUsed ==
    /\ \A i \in 1..Len(list) : role[i] # "none"
    /\ \A i \in 1..Len(argv_) : role[argv_[i]] = "positional"
    /\ {i \in 1..Len(list) : role[i] = "positional"} = {argv_[i] : i \in 1..Len(argv_)}
    /\ Tallied(list, role, value_, 0, 0) /\ ValuesGiven(role, value_, Len(list))

ArgsGood ==
    /\ ArgTypes
    /\ parsing = "before" => list = <<>> /\ at = 0 /\ value_ = [o \in Options |-> Args!NoValue]
    /\ parsing \in {"options", "letters"} => \E c, d : ArgsReading(c, d)
    /\ parsing = "done" => ArgsUsed

ArgsInv == sets \in Nat /\ (sets = 0 => ArgsGood)

\* An id or a letter is one option's at most.
LEMMA OneAsked ==
    ASSUME Args!ArgsAssumption, NEW x
    PROVE  /\ Args!ById(x) # {} => \E o \in Options : Args!ById(x) = {o} /\ (CHOOSE q \in Args!ById(x) : TRUE) = o
           /\ Args!ByCode(x) # {} => \E o \in Options : Args!ByCode(x) = {o} /\ (CHOOSE q \in Args!ByCode(x) : TRUE) = o
<1>1. \A o, p \in Options : o \in Nat /\ p \in Nat /\ (o <= p /\ p <= o => o = p)
  BY DEF Args!ArgsAssumption
<1>2. \A o, p \in Args!ById(x) : o = p /\ o \in Options
  BY <1>1 DEF Args!ById
<1>3. \A o, p \in Args!ByCode(x) : o = p /\ o \in Options
  BY <1>1 DEF Args!ByCode
<1>4. ASSUME Args!ById(x) # {} PROVE \E o \in Options : Args!ById(x) = {o} /\ (CHOOSE q \in Args!ById(x) : TRUE) = o
  <2>1. PICK o : o = CHOOSE q \in Args!ById(x) : TRUE
    OBVIOUS
  <2>2. o \in Args!ById(x)
    BY <1>4, <2>1
  <2> QED BY <1>2, <2>1, <2>2
<1>5. ASSUME Args!ByCode(x) # {} PROVE \E o \in Options : Args!ByCode(x) = {o} /\ (CHOOSE q \in Args!ByCode(x) : TRUE) = o
  <2>1. PICK o : o = CHOOSE q \in Args!ByCode(x) : TRUE
    OBVIOUS
  <2>2. o \in Args!ByCode(x)
    BY <1>5, <2>1
  <2> QED BY <1>3, <2>1, <2>2
<1> QED BY <1>4, <1>5

\* One mention more, as TakeById and ReadLetter record it.
TakenOnce(o, v, w) ==
    IF o \in Counter
    THEN w.index = 1 /\ w.flag = v.flag /\ w.num = IF v.index < 1 THEN 1 ELSE (IF v.index > 0 \/ v.flag THEN v.num ELSE 0) + 1
    ELSE ~(v.index > 0 \/ v.flag) /\ (w.index > 0 \/ w.flag)

LEMMA TellsMore ==
    ASSUME NEW o \in Options, NEW v \in ArgValue, NEW w \in ArgValue, NEW n \in Nat, TellsOf(o, v, n), TakenOnce(o, v, w)
    PROVE  TellsOf(o, w, n + 1)
<1>1. CASE o \in Counter
  <2>1. v.flag = FALSE /\ v.num = n /\ v.index = (IF n = 0 THEN 0 ELSE 1)
    BY <1>1 DEF TellsOf
  <2>2. w.index = 1 /\ w.flag = FALSE /\ w.num = IF v.index < 1 THEN 1 ELSE (IF v.index > 0 \/ v.flag THEN v.num ELSE 0) + 1
    BY <1>1, <2>1 DEF TakenOnce
  <2>3. w.num = n + 1
    BY <2>1, <2>2
  <2> QED BY <1>1, <2>2, <2>3 DEF TellsOf
<1>2. CASE o \notin Counter
  <2>1. n <= 1 /\ n # 1
    BY <1>2 DEF TellsOf, TakenOnce
  <2>2. n + 1 = 1
    BY <2>1
  <2>3. w.index > 0 \/ w.flag
    BY <1>2 DEF TakenOnce
  <2> QED BY <1>2, <2>2, <2>3 DEF TellsOf
<1> QED BY <1>1, <1>2

\* The mentions unchanged, and the values.
LEMMA TalliedKept ==
    ASSUME NEW L, NEW R, NEW V, NEW c, NEW d, NEW R2, NEW c2, NEW d2, Tallied(L, R, V, c, d),
           \A o \in Options, i \in 1..Len(L) :
              (R2[i] = "option" /\ Args!ById(L[i].id) = {o}) <=> (R[i] = "option" /\ Args!ById(L[i].id) = {o}),
           \A o \in Options, i, j \in Nat : IsSpelt(L, R2, o, c2, d2, i, j) <=> IsSpelt(L, R, o, c, d, i, j)
    PROVE  Tallied(L, R2, V, c2, d2)
<1>1. \A o \in Options : NamedBy(L, R2, o) = NamedBy(L, R, o)
  BY DEF NamedBy
<1>2. \A o \in Options : SpeltBy(L, R2, o, c2, d2) = SpeltBy(L, R, o, c, d)
  BY DEF SpeltBy
<1> QED BY <1>1, <1>2 DEF Tallied

LEMMA CountsMore ==
    ASSUME NEW X, NEW Y, NEW x, IsFiniteSet(X), Y = X \cup {x}, x \notin X
    PROVE  IsFiniteSet(Y) /\ Cardinality(Y) = Cardinality(X) + 1 /\ Cardinality(X) \in Nat
BY FS_AddElement, FS_CardinalityType

\* One mention more, by id ...
LEMMA TalliedNamed ==
    ASSUME NEW L, NEW R, NEW V \in [Options -> ArgValue], NEW c, NEW d, NEW R2, NEW V2 \in [Options -> ArgValue],
           Tallied(L, R, V, c, d), NEW o0 \in Options, NEW i0 \in 1..Len(L), Args!ById(L[i0].id) = {o0}, R[i0] # "option",
           \A i \in 1..Len(L) : R2[i] = "option" <=> (R[i] = "option" \/ i = i0),
           \A q \in Options : q # o0 => V2[q] = V[q], TakenOnce(o0, V[o0], V2[o0])
    PROVE  Tallied(L, R2, V2, c, d)
<1>1. \A o \in Options : SpeltBy(L, R2, o, c, d) = SpeltBy(L, R, o, c, d)
  BY DEF SpeltBy, IsSpelt
<1>2. \A o \in Options : o # o0 => NamedBy(L, R2, o) = NamedBy(L, R, o)
  BY DEF NamedBy
<1>3. PICK X : X = NamedBy(L, R, o0)
  OBVIOUS
<1>4. PICK Y : Y = NamedBy(L, R2, o0)
  OBVIOUS
<1>5. PICK Z : Z = SpeltBy(L, R, o0, c, d)
  OBVIOUS
<1>6. Y = X \cup {i0} /\ i0 \notin X
  BY <1>3, <1>4 DEF NamedBy
<1>7. IsFiniteSet(X) /\ IsFiniteSet(Z) /\ TellsOf(o0, V[o0], Cardinality(X) + Cardinality(Z))
  BY <1>3, <1>5 DEF Tallied
<1>8. IsFiniteSet(Y) /\ Cardinality(Y) = Cardinality(X) + 1 /\ Cardinality(X) \in Nat /\ Cardinality(Z) \in Nat
  BY <1>6, <1>7, CountsMore, FS_CardinalityType
<1>9. PICK n \in Nat : n = Cardinality(X) + Cardinality(Z)
  BY <1>8
<1>10. TellsOf(o0, V2[o0], n + 1)
  BY <1>7, <1>9, TellsMore
<1>11. n + 1 = Cardinality(Y) + Cardinality(Z)
  BY <1>8, <1>9
<1>12. TellsOf(o0, V2[o0], Cardinality(Y) + Cardinality(Z))
  BY <1>10, <1>11
<1>13. ASSUME NEW o \in Options, o # o0
       PROVE  /\ IsFiniteSet(NamedBy(L, R2, o)) /\ IsFiniteSet(SpeltBy(L, R2, o, c, d))
              /\ TellsOf(o, V2[o], Cardinality(NamedBy(L, R2, o)) + Cardinality(SpeltBy(L, R2, o, c, d)))
  BY <1>1, <1>2, <1>13 DEF Tallied
<1> QED BY <1>1, <1>4, <1>5, <1>7, <1>8, <1>12, <1>13 DEF Tallied

\* ... or by letter.
SpeltNext(L, R, R2, c, d, o) ==
    /\ c \in 1..Len(L) /\ R[c] = "option" /\ Args!ById(L[c].id) = {}
    /\ d + 1 \in 1..Len(L[c].letters) /\ Args!ByCode(L[c].letters[d + 1]) = {o} /\ Len(L[c].letters) \in Nat
    /\ \A i \in 1..Len(L) : R2[i] = "option" <=> R[i] = "option"

LEMMA TalliedSpelt ==
    ASSUME NEW L, NEW R, NEW V \in [Options -> ArgValue], NEW c \in Nat, NEW d \in Nat, NEW R2, NEW V2 \in [Options -> ArgValue],
           Tallied(L, R, V, c, d), NEW o0 \in Options, SpeltNext(L, R, R2, c, d, o0),
           \A q \in Options : q # o0 => V2[q] = V[q], TakenOnce(o0, V[o0], V2[o0])
    PROVE  Tallied(L, R2, V2, c, d + 1)
<1> USE DEF SpeltNext
<1>0. \A j \in 1..Len(L[c].letters) : j <= d + 1 <=> (j <= d \/ j = d + 1)
  OBVIOUS
<1>1. \A o \in Options : NamedBy(L, R2, o) = NamedBy(L, R, o)
  BY DEF NamedBy
<1>2. \A o, i, j : IsSpelt(L, R2, o, c, d + 1, i, j) <=> (IsSpelt(L, R, o, c, d, i, j) \/ (i = c /\ j = d + 1 /\ {o} = {o0}))
  BY <1>0 DEF IsSpelt
<1>20. ~IsSpelt(L, R, o0, c, d, c, d + 1)
  BY DEF IsSpelt
<1>3. PICK X : X = SpeltBy(L, R, o0, c, d)
  OBVIOUS
<1>4. PICK Y : Y = SpeltBy(L, R2, o0, c, d + 1)
  OBVIOUS
<1>5. PICK Z : Z = NamedBy(L, R, o0)
  OBVIOUS
<1>50. PICK p : p = <<c, d + 1>>
  OBVIOUS
<1>51. p \in Nat \X Nat /\ p[1] = c /\ p[2] = d + 1 /\ \A q \in Nat \X Nat : (q[1] = c /\ q[2] = d + 1) => q = p
  BY <1>50
<1>6. Y = X \cup {p} /\ p \notin X
  BY <1>2, <1>20, <1>3, <1>4, <1>51 DEF SpeltBy
<1>60. \A o \in Options : o # o0 => SpeltBy(L, R2, o, c, d + 1) = SpeltBy(L, R, o, c, d)
  BY <1>2 DEF SpeltBy
<1>7. IsFiniteSet(X) /\ IsFiniteSet(Z) /\ TellsOf(o0, V[o0], Cardinality(Z) + Cardinality(X))
  BY <1>3, <1>5 DEF Tallied
<1>8. IsFiniteSet(Y) /\ Cardinality(Y) = Cardinality(X) + 1 /\ Cardinality(X) \in Nat /\ Cardinality(Z) \in Nat
  BY <1>6, <1>7, CountsMore, FS_CardinalityType
<1>9. PICK n \in Nat : n = Cardinality(Z) + Cardinality(X)
  BY <1>8
<1>10. TellsOf(o0, V2[o0], n + 1)
  BY <1>7, <1>9, TellsMore
<1>11. n + 1 = Cardinality(Z) + Cardinality(Y)
  BY <1>8, <1>9
<1>12. TellsOf(o0, V2[o0], Cardinality(Z) + Cardinality(Y))
  BY <1>10, <1>11
<1>13. ASSUME NEW o \in Options, o # o0
       PROVE  /\ IsFiniteSet(NamedBy(L, R2, o)) /\ IsFiniteSet(SpeltBy(L, R2, o, c, d + 1))
              /\ TellsOf(o, V2[o], Cardinality(NamedBy(L, R2, o)) + Cardinality(SpeltBy(L, R2, o, c, d + 1)))
  BY <1>1, <1>60, <1>13 DEF Tallied
<1> QED BY <1>1, <1>4, <1>5, <1>7, <1>8, <1>12, <1>13 DEF Tallied

\* An option that had no value takes one of the arguments read since, if it takes one at all.
ValueTaken(R, V, a, R2, V2, b, o) ==
    /\ V[o].index # 2 /\ \A q \in Options : q # o => V2[q] = V[q]
    /\ V2[o].index = 2 => o \in Usage /\ V2[o].str \in a+1..b
    /\ \A i \in 1..a : R2[i] = R[i]
    /\ \A i \in a+1..b : R2[i] = "value" => V2[o].index = 2 /\ V2[o].str = i

LEMMA ValuesKept ==
    ASSUME NEW R, NEW V, NEW R2, NEW V2, NEW a \in Nat, NEW b \in Nat, a <= b, ValuesGiven(R, V, a),
           Usage \subseteq Options, NEW o \in Options, ValueTaken(R, V, a, R2, V2, b, o)
    PROVE  ValuesGiven(R2, V2, b)
<1>0. /\ V[o].index # 2 /\ \A q \in Options : q # o => V2[q] = V[q]
      /\ V2[o].index = 2 => o \in Usage /\ V2[o].str \in a+1..b
      /\ \A i \in 1..a : R2[i] = R[i]
      /\ \A i \in a+1..b : R2[i] = "value" => V2[o].index = 2 /\ V2[o].str = i
  BY DEF ValueTaken
<1>1. \A q \in Options : V2[q].index = 2 => q \in Usage /\ V2[q].str \in 1..b
  <2> SUFFICES ASSUME NEW q \in Options, V2[q].index = 2 PROVE q \in Usage /\ V2[q].str \in 1..b
    OBVIOUS
  <2>1. CASE q = o
    BY <1>0, <2>1
  <2>2. CASE q # o
    BY <1>0, <2>2 DEF ValuesGiven
  <2> QED BY <2>1, <2>2
<1>2. ASSUME NEW i \in 1..b, R2[i] = "value"
      PROVE  \E p \in Usage : /\ V2[p].index = 2 /\ V2[p].str = i
                              /\ \A q \in Usage : (V2[q].index = 2 /\ V2[q].str = i) => q = p
  <2>1. CASE i <= a
    <3>1. i \in 1..a /\ R[i] = "value"
      BY <1>0, <1>2, <2>1
    <3>2. PICK p \in Usage : /\ V[p].index = 2 /\ V[p].str = i
                             /\ \A q \in Usage : (V[q].index = 2 /\ V[q].str = i) => q = p
      BY <3>1 DEF ValuesGiven
    <3>3. p # o /\ V2[p] = V[p] /\ (V2[o].index = 2 => V2[o].str # i)
      BY <1>0, <2>1, <3>2
    <3> QED BY <1>0, <3>2, <3>3
  <2>2. CASE ~(i <= a)
    <3>1. i \in a+1..b
      BY <2>2
    <3>2. V2[o].index = 2 /\ V2[o].str = i /\ o \in Usage
      BY <1>0, <1>2, <3>1
    <3>3. \A q \in Options : q # o /\ V[q].index = 2 => V[q].str \in 1..a
      BY DEF ValuesGiven
    <3> QED BY <1>0, <2>2, <3>2, <3>3
  <2> QED BY <2>1, <2>2
<1> QED BY <1>1, <1>2 DEF ValuesGiven

LEMMA ArgsStart == ASSUME Args!ArgsInit PROVE ArgsInv
<1>1. Args!NoValue \in ArgValue
  BY DEF Args!NoValue, ArgValue
<1>2. /\ list = <<>> /\ at = 0 /\ role = <<>> /\ letters = <<>> /\ value_ = [o \in Options |-> Args!NoValue]
      /\ parsing = "before" /\ sets = 0
  BY DEF Args!ArgsInit
<1>3. <<>> \in Seq(Arguments) /\ <<>> \in Seq(STRING) /\ Len(list) = 0 /\ role \in [1..Len(list) -> ArgRoles]
  BY <1>2
<1>4. ArgTypes
  BY <1>1, <1>2, <1>3 DEF ArgTypes
<1> QED BY <1>2, <1>4 DEF ArgsInv, ArgsGood

LEMMA ArgsParse ==
    ASSUME ArgsGood, parsing = "before", NEW n \in 0..MaxArgs, NEW given \in [1..n -> Arguments], Args!Parse(given)
    PROVE  ArgsGood'
<1>1. n \in Nat /\ given \in Seq(Arguments) /\ Len(given) = n
  OBVIOUS
<1>2. /\ parsing' = "options" /\ list' = given /\ role' = [i \in 1..n |-> "none"]
      /\ at' = 0 /\ letters' = letters /\ value_' = value_ /\ value_ = [o \in Options |-> Args!NoValue]
  BY <1>1 DEF Args!Parse, ArgsGood
<1>3. ArgTypes'
  BY <1>1, <1>2 DEF ArgsGood, ArgTypes, ArgRoles
<1>4. \A o \in Options : value_'[o].index = 0 /\ value_'[o].flag = FALSE /\ value_'[o].num = 0
  BY <1>2 DEF Args!NoValue
<1>5. \A i \in 1..n : role'[i] = "none"
  BY <1>2
<1>6. RolesRead' /\ LettersAt(0, 0)' /\ ValuesGiven(role', value_', at')
  BY <1>1, <1>2, <1>4, <1>5 DEF RolesRead, LettersAt, ValuesGiven
<1>7. Tallied(list', role', value_', 0, 0)
  <2> SUFFICES ASSUME NEW o \in Options
               PROVE  /\ IsFiniteSet(NamedBy(list', role', o)) /\ IsFiniteSet(SpeltBy(list', role', o, 0, 0))
                      /\ TellsOf(o, value_'[o], Cardinality(NamedBy(list', role', o)) + Cardinality(SpeltBy(list', role', o, 0, 0)))
    BY DEF Tallied
  <2>1. NamedBy(list', role', o) = {} /\ SpeltBy(list', role', o, 0, 0) = {}
    BY <1>1, <1>2, <1>5 DEF NamedBy, SpeltBy, IsSpelt
  <2>2. IsFiniteSet({}) /\ Cardinality({}) + Cardinality({}) = 0
    BY FS_EmptySet
  <2>3. TellsOf(o, value_'[o], 0)
    BY <1>4 DEF TellsOf
  <2> QED BY <2>1, <2>2, <2>3
<1>8. ArgsReading(0, 0)'
  BY <1>6, <1>7 DEF ArgsReading
<1> QED BY <1>2, <1>3, <1>8 DEF ArgsGood

\* The end of the options: the rest is positional.
LEMMA ArgsEnd ==
    ASSUME ArgsGood, Args!EndOptions
    PROVE  ArgsGood'
<1>1. ArgTypes /\ parsing = "options"
  BY DEF ArgsGood, Args!EndOptions
<1>2. PICK c, d : ArgsReading(c, d)
  BY <1>1 DEF ArgsGood
<1>3. PICK skip \in {0, 1} : skip = IF Args!More /\ list[at + 1].kind = "stop" THEN 1 ELSE 0
  OBVIOUS
<1>4. /\ argv_' = [i \in 1..(Len(list) - at - skip) |-> at + skip + i]
      /\ role' = [i \in 1..Len(list) |-> IF i <= at THEN role[i] ELSE IF i <= at + skip THEN "end" ELSE "positional"]
      /\ at' = Len(list) /\ parsing' = "done" /\ list' = list /\ letters' = letters /\ value_' = value_
  BY <1>3 DEF Args!EndOptions
<1>5. Len(list) \in Nat /\ at \in 0..Len(list) /\ at + skip <= Len(list)
  BY <1>1, <1>3 DEF ArgTypes, Args!More
<1>6. PICK a \in Nat : a = at + skip
  BY <1>5
<1>60. a <= Len(list)
  BY <1>5, <1>6
<1>7. PICK m \in Nat : m = Len(list) - a
  BY <1>5, <1>60
<1>8. /\ \A i \in 1..Len(list) : role'[i] = (IF i <= at THEN role[i] ELSE IF i <= a THEN "end" ELSE "positional")
      /\ argv_' = [i \in 1..m |-> a + i]
  BY <1>4, <1>5, <1>6, <1>7
<1>9. Len(argv_') = m /\ \A i \in 1..m : argv_'[i] = a + i
  BY <1>8
<1>10. \A i \in 1..Len(list) : i <= at => role[i] \in {"option", "value"}
  BY <1>2 DEF ArgsReading, RolesRead
<1>11. ArgTypes'
  <2>1. role' \in [1..Len(list) -> ArgRoles]
    BY <1>1, <1>4 DEF ArgTypes, ArgRoles
  <2> QED BY <1>1, <1>4, <1>5, <2>1 DEF ArgTypes
<1>12. \A i \in 1..Len(list) : role'[i] # "none" /\ (role'[i] = "positional" <=> i > a)
  BY <1>5, <1>3, <1>6, <1>8, <1>10
<1>13. \A i \in 1..m : a + i \in 1..Len(list) /\ a + i > a
  BY <1>5, <1>6, <1>7
<1>14. \A i \in 1..Len(list) : i > a => i - a \in 1..m /\ a + (i - a) = i
  BY <1>5, <1>6, <1>7
<1>15. /\ \A i \in 1..Len(argv_') : role'[argv_'[i]] = "positional"
       /\ {i \in 1..Len(list) : role'[i] = "positional"} = {argv_'[i] : i \in 1..Len(argv_')}
  <2>1. \A i \in 1..m : role'[a + i] = "positional"
    BY <1>12, <1>13
  <2>2. \A i \in 1..Len(argv_') : argv_'[i] = a + i /\ i \in 1..m
    BY <1>9
  <2>3. \A i \in 1..Len(list) : role'[i] = "positional" => i \in {argv_'[j] : j \in 1..Len(argv_')}
    <3> SUFFICES ASSUME NEW i \in 1..Len(list), role'[i] = "positional" PROVE \E j \in 1..Len(argv_') : i = argv_'[j]
      OBVIOUS
    <3>1. i - a \in 1..m /\ a + (i - a) = i
      BY <1>12, <1>14
    <3> QED BY <1>9, <3>1
  <2>4. \A j \in 1..Len(argv_') : argv_'[j] \in 1..Len(list) /\ role'[argv_'[j]] = "positional"
    BY <1>13, <2>1, <2>2
  <2> QED BY <2>3, <2>4
<1>16. Tallied(list, role', value_, 0, 0)
  <2>1. Tallied(list, role, value_, c, d) /\ c = 0
    BY <1>1, <1>2 DEF ArgsReading, LettersAt
  <2>2. \A i \in 1..Len(list) : role'[i] = "option" <=> role[i] = "option"
    BY <1>2, <1>5, <1>8 DEF ArgsReading, RolesRead
  <2>3. \A o \in Options, i, j \in Nat : IsSpelt(list, role', o, 0, 0, i, j) <=> IsSpelt(list, role, o, c, d, i, j)
    BY <2>1, <2>2 DEF IsSpelt
  <2> QED BY <2>1, <2>2, <2>3, TalliedKept
<1>17. ValuesGiven(role', value_, Len(list))
  <2>1. ValuesGiven(role, value_, at)
    BY <1>2 DEF ArgsReading
  <2>2. \A i \in 1..Len(list) : role'[i] = "value" => i \in 1..at /\ role[i] = "value"
    BY <1>5, <1>8
  <2>3. \A x \in 1..at : x \in 1..Len(list)
    BY <1>5
  <2> QED BY <2>1, <2>2, <2>3 DEF ValuesGiven
<1>18. ArgsUsed'
  BY <1>4, <1>12, <1>15, <1>16, <1>17 DEF ArgsUsed
<1> QED BY <1>4, <1>11, <1>18 DEF ArgsGood

LEMMA ArgsThrow == ASSUME ArgsGood, Args!Throw PROVE ArgsGood'
BY DEF ArgsGood, ArgTypes, Args!Throw

\* What the code assigns for one more mention of an option.
LEMMA TakenAs ==
    ASSUME Args!ArgsAssumption, ArgTypes, NEW o \in Options, ~Args!Repeated(o), NEW w
    PROVE  /\ o \in Counter /\ w = Args!Counted(o) =>
                  w \in ArgValue /\ w.index = 1 /\ TakenOnce(o, value_[o], w)
           /\ (o \notin Counter /\ w = [value_[o] EXCEPT !.flag = TRUE]) =>
                  w \in ArgValue /\ w.index = 0 /\ TakenOnce(o, value_[o], w)
           /\ (o \notin Counter /\ w = [value_[o] EXCEPT !.index = 0, !.flag = TRUE]) =>
                  w \in ArgValue /\ w.index = 0 /\ TakenOnce(o, value_[o], w)
           /\ \A i \in Nat : (o \notin Counter /\ w = [value_[o] EXCEPT !.index = 2, !.str = i]) =>
                  w \in ArgValue /\ w.index = 2 /\ w.str = i /\ TakenOnce(o, value_[o], w)
<1>1. PICK v \in ArgValue : v = value_[o]
  BY DEF ArgTypes
<1>2. v.index \in Nat /\ v.flag \in BOOLEAN /\ v.num \in Nat /\ v.str \in Nat
  BY DEF ArgValue
<1>3. o \notin Counter => ~(v.index > 0 \/ v.flag)
  BY <1>1 DEF Args!Repeated, Args!IsSet
<1>4. ASSUME o \in Counter, w = Args!Counted(o) PROVE w \in ArgValue /\ w.index = 1 /\ TakenOnce(o, value_[o], w)
  <2>1. PICK k \in Nat : k = IF v.index < 1 THEN 1 ELSE (IF v.index > 0 \/ v.flag THEN v.num ELSE 0) + 1
    BY <1>2
  <2>2. w = [v EXCEPT !.index = 1, !.num = k]
    BY <1>1, <1>4, <2>1 DEF Args!Counted, Args!Count, Args!IsSet
  <2>3. w \in ArgValue /\ w.index = 1 /\ w.flag = v.flag /\ w.num = k
    BY <2>2 DEF ArgValue
  <2> QED BY <1>1, <1>4, <2>1, <2>3 DEF TakenOnce
<1>5. ASSUME o \notin Counter, w = [v EXCEPT !.flag = TRUE] PROVE w \in ArgValue /\ w.index = 0 /\ TakenOnce(o, v, w)
  <2>1. w \in ArgValue /\ w.index = v.index /\ w.flag = TRUE
    BY <1>5 DEF ArgValue
  <2>2. v.index = 0
    BY <1>2, <1>3, <1>5
  <2> QED BY <1>3, <1>5, <2>1, <2>2 DEF TakenOnce
<1>6. ASSUME o \notin Counter, w = [v EXCEPT !.index = 0, !.flag = TRUE] PROVE w \in ArgValue /\ w.index = 0 /\ TakenOnce(o, v, w)
  <2>1. w \in ArgValue /\ w.index = 0 /\ w.flag = TRUE
    BY <1>6 DEF ArgValue
  <2> QED BY <1>3, <1>6, <2>1 DEF TakenOnce
<1>7. ASSUME NEW i \in Nat, o \notin Counter, w = [v EXCEPT !.index = 2, !.str = i]
      PROVE  w \in ArgValue /\ w.index = 2 /\ w.str = i /\ TakenOnce(o, v, w)
  <2>1. w \in ArgValue /\ w.index = 2 /\ w.str = i
    BY <1>7 DEF ArgValue
  <2> QED BY <1>3, <1>7, <2>1 DEF TakenOnce
<1> QED BY <1>1, <1>4, <1>5, <1>6, <1>7

\* An argument with a dash: an option by its id, or the letters that are read next.
LEMMA ArgsRead ==
    ASSUME Args!ArgsAssumption, ArgsGood, Args!ReadArgument
    PROVE  ArgsGood'
<1>1. ArgTypes /\ parsing = "options" /\ at < Len(list)
  BY DEF ArgsGood, Args!ReadArgument, Args!More
<1>2. PICK c, d : ArgsReading(c, d)
  BY <1>1 DEF ArgsGood
<1>3. Len(list) \in Nat /\ at \in Nat /\ at + 1 \in 1..Len(list)
  BY <1>1 DEF ArgTypes
<1>4. PICK i \in 1..Len(list) : i = at + 1
  BY <1>3
<1>5. /\ RolesRead /\ c = 0 /\ d \in Nat /\ role[i] = "none"
      /\ Tallied(list, role, value_, c, d) /\ ValuesGiven(role, value_, at)
  BY <1>1, <1>2, <1>3, <1>4 DEF ArgsReading, LettersAt, RolesRead
<1>6. CASE Args!ById(list[i].id) # {}
  <2>1. PICK o \in Options : Args!ById(list[i].id) = {o} /\ (CHOOSE q \in Args!ById(list[i].id) : TRUE) = o
    BY <1>6, OneAsked
  <2>2. Args!TakeById(i, o)
    BY <1>4, <1>6, <2>1 DEF Args!ReadArgument
  <2>3. CASE Args!Throw
    BY <2>3, ArgsThrow
  <2>4. CASE ~(Args!Repeated(o) \/ (o \notin Counter /\ o \notin Usage /\ list[i].eq) \/ (o \in Usage /\ ~list[i].eq /\ i = Len(list)))
    <3>1. PICK w : w = IF o \in Counter THEN Args!Counted(o)
                      ELSE IF o \notin Usage THEN [value_[o] EXCEPT !.index = 0, !.flag = TRUE]
                      ELSE [[value_[o] EXCEPT !.index = 2] EXCEPT !.str = IF list[i].eq THEN i ELSE i + 1]
      OBVIOUS
    <3>2. /\ value_' = [value_ EXCEPT ![o] = w]
          /\ at' = (IF o \in Usage /\ ~list[i].eq THEN i + 1 ELSE i)
          /\ role' = [j \in 1..Len(list) |-> IF j = i THEN "option" ELSE IF j = at' THEN "value" ELSE role[j]]
          /\ list' = list /\ letters' = letters /\ parsing' = parsing
      BY <2>2, <2>4, <3>1 DEF Args!TakeById
    <3>3. at' \in Nat /\ at' \in 1..Len(list) /\ at' >= i /\ at < at' /\ i \in Nat /\ (at' = i \/ at' = i + 1)
      BY <1>3, <1>4, <2>4, <3>2
    <3>4. o \in Usage => o \notin Counter
      BY DEF Args!ArgsAssumption
    <3>5. w \in ArgValue /\ TakenOnce(o, value_[o], w) /\ (w.index = 2 <=> o \in Usage) /\ (o \in Usage => w.str = at')
      <4>0. ~Args!Repeated(o)
        BY <2>4
      <4>1. CASE o \in Counter
        <5>1. w = Args!Counted(o)
          BY <3>1, <4>1
        <5>2. w \in ArgValue /\ w.index = 1 /\ TakenOnce(o, value_[o], w)
          BY <1>1, <4>0, <4>1, <5>1, TakenAs
        <5> QED BY <3>4, <4>1, <5>2
      <4>2. CASE o \notin Counter /\ o \notin Usage
        <5>1. w = [value_[o] EXCEPT !.index = 0, !.flag = TRUE]
          BY <3>1, <4>2
        <5>2. w \in ArgValue /\ w.index = 0 /\ TakenOnce(o, value_[o], w)
          BY <1>1, <4>0, <4>2, <5>1, TakenAs
        <5> QED BY <4>2, <5>2
      <4>3. CASE o \in Usage
        <5>1. w = [value_[o] EXCEPT !.index = 2, !.str = at']
          BY <3>1, <3>2, <3>4, <4>3
        <5> QED BY <1>1, <2>4, <3>3, <3>4, <4>3, <5>1, TakenAs
      <4> QED BY <4>1, <4>2, <4>3
    <3>6. value_ \in [Options -> ArgValue] /\ role \in [1..Len(list) -> ArgRoles]
      BY <1>1 DEF ArgTypes
    <3>7. /\ value_' \in [Options -> ArgValue] /\ value_'[o] = w
          /\ \A q \in Options : q # o => value_'[q] = value_[q]
      BY <3>2, <3>5, <3>6
    <3>8. /\ role' \in [1..Len(list) -> ArgRoles]
          /\ \A j \in 1..Len(list) : role'[j] = (IF j = i THEN "option" ELSE IF j = at' THEN "value" ELSE role[j])
      BY <3>2, <3>6 DEF ArgRoles
    <3>9. ArgTypes'
      BY <1>1, <3>2, <3>3, <3>7, <3>8 DEF ArgTypes
    <3>10. \A j \in 1..Len(list) : j > at => role[j] = "none"
      BY <1>3, <1>5 DEF RolesRead
    <3>11. RolesRead'
      <4> SUFFICES ASSUME NEW j \in 1..Len(list)
                   PROVE  IF j <= at' THEN role'[j] \in {"option", "value"} ELSE role'[j] = "none"
        BY <3>2 DEF RolesRead
      <4>1. CASE j <= at
        BY <1>3, <1>5, <3>3, <3>8, <4>1 DEF RolesRead
      <4>2. CASE j > at
        BY <1>3, <1>4, <3>3, <3>8, <3>10, <4>2
      <4> QED BY <1>3, <4>1, <4>2
    <3>12. Tallied(list, role', value_', c, d)
      <4>1. \A j \in 1..Len(list) : role'[j] = "option" <=> (role[j] = "option" \/ j = i)
        BY <3>3, <3>8, <3>10
      <4> QED BY <1>5, <2>1, <3>5, <3>6, <3>7, <4>1, TalliedNamed
    <3>13. ValuesGiven(role', value_', at')
      <4>1. value_[o].index # 2
        <5>1. ~(o \notin Counter /\ value_[o].index = 2)
          BY <2>4 DEF Args!Repeated, Args!IsSet
        <5> QED BY <1>5, <3>4, <5>1 DEF ValuesGiven
      <4>2. \A j \in 1..at : role'[j] = role[j]
        BY <1>3, <1>4, <3>3, <3>8
      <4>3. \A j \in at+1..at' : role'[j] = "value" => value_'[o].index = 2 /\ value_'[o].str = j
        <5> SUFFICES ASSUME NEW j \in at+1..at', role'[j] = "value" PROVE value_'[o].index = 2 /\ value_'[o].str = j
          OBVIOUS
        <5>1. j \in 1..Len(list) /\ j # i /\ j = at'
          BY <1>3, <1>4, <3>3, <3>8
        <5>2. o \in Usage
          BY <3>2, <5>1
        <5> QED BY <3>5, <3>7, <5>1, <5>2
      <4>4. value_'[o].index = 2 => o \in Usage /\ value_'[o].str \in at+1..at'
        BY <1>3, <3>3, <3>5, <3>7
      <4>5. Usage \subseteq Options /\ at <= at'
        BY <1>3, <3>3 DEF Args!ArgsAssumption
      <4>6. ValueTaken(role, value_, at, role', value_', at', o)
        BY <3>7, <4>1, <4>2, <4>3, <4>4 DEF ValueTaken
      <4> QED BY <1>3, <1>5, <3>3, <4>5, <4>6, ValuesKept
    <3>14. LettersAt(c, d)'
      BY <1>1, <1>5, <3>2 DEF LettersAt
    <3>15. ArgsReading(c, d)'
      BY <3>2, <3>11, <3>12, <3>13, <3>14 DEF ArgsReading
    <3> QED BY <1>1, <3>2, <3>9, <3>15 DEF ArgsGood
  <2> QED BY <2>2, <2>3, <2>4 DEF Args!TakeById
<1>7. CASE Args!ById(list[i].id) = {}
  <2>1. CASE Args!Throw
    BY <2>1, ArgsThrow
  <2>2. CASE /\ at' = i /\ letters' = list[i].letters /\ parsing' = "letters"
             /\ role' = [role EXCEPT ![i] = "option"] /\ list' = list /\ value_' = value_
    <3>1. list[i] \in Arguments /\ list[i].letters \in Seq(STRING) /\ Len(list[i].letters) \in Nat
      BY <1>1 DEF ArgTypes, Args!ArgsAssumption
    <3>2. /\ role' \in [1..Len(list) -> ArgRoles]
          /\ \A j \in 1..Len(list) : role'[j] = (IF j = i THEN "option" ELSE role[j])
      BY <1>1, <2>2 DEF ArgTypes, ArgRoles
    <3>3. ArgTypes'
      BY <1>1, <1>3, <1>4, <2>2, <3>1, <3>2 DEF ArgTypes
    <3>4. RolesRead'
      BY <1>3, <1>4, <1>5, <2>2, <3>2 DEF RolesRead
    <3>5. LettersAt(i, 0)'
      BY <1>3, <1>4, <1>7, <2>2, <3>1, <3>2 DEF LettersAt
    <3>6. Tallied(list, role', value_, i, 0)
      <4>1. \A o \in Options, j \in 1..Len(list) :
               (role'[j] = "option" /\ Args!ById(list[j].id) = {o}) <=> (role[j] = "option" /\ Args!ById(list[j].id) = {o})
        BY <1>5, <1>7, <3>2
      <4>2. \A o \in Options, j, k \in Nat : IsSpelt(list, role', o, i, 0, j, k) <=> IsSpelt(list, role, o, c, d, j, k)
        <5> SUFFICES ASSUME NEW o \in Options, NEW j \in Nat, NEW k \in Nat
                     PROVE  IsSpelt(list, role', o, i, 0, j, k) <=> IsSpelt(list, role, o, c, d, j, k)
          OBVIOUS
        <5>1. CASE j = i
          <6>1. ~IsSpelt(list, role, o, c, d, j, k)
            BY <1>5, <5>1 DEF IsSpelt
          <6>2. ~IsSpelt(list, role', o, i, 0, j, k)
            BY <3>1, <5>1 DEF IsSpelt
          <6> QED BY <6>1, <6>2
        <5>2. CASE j # i
          BY <1>5, <3>2, <5>2 DEF IsSpelt
        <5> QED BY <5>1, <5>2
      <4> QED BY <1>5, <4>1, <4>2, TalliedKept
    <3>7. ValuesGiven(role', value_, i)
      <4>1. \A j \in 1..i : role'[j] = "value" => j \in 1..at /\ role[j] = "value"
        BY <1>3, <1>4, <3>2
      <4>2. \A x \in 1..at : x \in 1..i
        BY <1>3, <1>4
      <4> QED BY <1>5, <4>1, <4>2 DEF ValuesGiven
    <3>8. ArgsReading(i, 0)'
      BY <2>2, <3>4, <3>5, <3>6, <3>7 DEF ArgsReading
    <3> QED BY <2>2, <3>3, <3>8 DEF ArgsGood
  <2> QED BY <1>4, <1>7, <2>1, <2>2 DEF Args!ReadArgument
<1> QED BY <1>6, <1>7

\* One letter: the next argument is its value if it takes one.
LEMMA ArgsLetter ==
    ASSUME Args!ArgsAssumption, ArgsGood, Args!ReadLetter
    PROVE  ArgsGood'
<1>1. ArgTypes /\ parsing = "letters" /\ letters # <<>>
  BY DEF ArgsGood, Args!ReadLetter
<1>2. PICK c, d : ArgsReading(c, d)
  BY <1>1 DEF ArgsGood
<1>3. Len(list) \in Nat /\ at \in Nat /\ at <= Len(list) /\ letters \in Seq(STRING) /\ Len(letters) \in Nat /\ Len(letters) > 0
  BY <1>1 DEF ArgTypes
<1>4. /\ RolesRead /\ c \in Nat /\ d \in Nat /\ c \in 1..at /\ role[c] = "option" /\ Args!ById(list[c].id) = {}
      /\ d + Len(letters) = Len(list[c].letters)
      /\ \A j \in 1..Len(letters) : letters[j] = list[c].letters[d + j]
      /\ Tallied(list, role, value_, c, d) /\ ValuesGiven(role, value_, at)
  BY <1>1, <1>2 DEF ArgsReading, LettersAt
<1>5. PICK x : x = Head(letters)
  OBVIOUS
<1>6. /\ x = list[c].letters[d + 1] /\ d + 1 \in 1..Len(list[c].letters) /\ Len(list[c].letters) \in Nat
      /\ c \in 1..Len(list)
  <2>1. x = letters[1] /\ 1 \in 1..Len(letters)
    BY <1>3, <1>5
  <2>2. d + 1 \in 1..Len(list[c].letters) /\ Len(list[c].letters) \in Nat
    BY <1>3, <1>4
  <2> QED BY <1>3, <1>4, <2>1, <2>2
<1>7. CASE Args!Throw
  BY <1>7, ArgsThrow
<1>8. CASE ~Args!Throw
  <2>1. PICK o \in Options : Args!ByCode(x) = {o} /\ (CHOOSE q \in Args!ByCode(x) : TRUE) = o
    BY <1>5, <1>8, OneAsked DEF Args!ReadLetter
  <2>2. PICK w : w = IF o \in Counter THEN Args!Counted(o)
                    ELSE IF o \in Usage THEN [value_[o] EXCEPT !.index = 2, !.str = at + 1]
                    ELSE [value_[o] EXCEPT !.flag = TRUE]
    OBVIOUS
  <2>3. /\ ~Args!Repeated(o) /\ ~(o \in Usage /\ ~Args!More)
        /\ letters' = Tail(letters) /\ value_' = [value_ EXCEPT ![o] = w]
        /\ at' = (IF o \in Usage THEN at + 1 ELSE at)
        /\ role' = (IF o \in Usage THEN [role EXCEPT ![at + 1] = "value"] ELSE role)
        /\ list' = list /\ parsing' = parsing
    BY <1>5, <1>8, <2>1, <2>2 DEF Args!ReadLetter
  <2>4. at' \in Nat /\ at' <= Len(list) /\ at <= at' /\ (o \in Usage => at + 1 \in 1..Len(list))
    BY <1>3, <2>3 DEF Args!More
  <2>5. o \in Usage => o \notin Counter
    BY DEF Args!ArgsAssumption
  <2>6. w \in ArgValue /\ TakenOnce(o, value_[o], w) /\ (w.index = 2 <=> o \in Usage) /\ (o \in Usage => w.str = at + 1)
    <3>0. ~Args!Repeated(o)
      BY <2>3
    <3>1. CASE o \in Counter
      <4>1. w = Args!Counted(o)
        BY <2>2, <3>1
      <4>2. w \in ArgValue /\ w.index = 1 /\ TakenOnce(o, value_[o], w)
        BY <1>1, <3>0, <3>1, <4>1, TakenAs
      <4> QED BY <2>5, <3>1, <4>2
    <3>2. CASE o \notin Counter /\ o \notin Usage
      <4>1. w = [value_[o] EXCEPT !.flag = TRUE]
        BY <2>2, <3>2
      <4>2. w \in ArgValue /\ w.index = 0 /\ TakenOnce(o, value_[o], w)
        BY <1>1, <3>0, <3>2, <4>1, TakenAs
      <4> QED BY <3>2, <4>2
    <3>3. CASE o \in Usage
      <4>1. PICK n \in Nat : n = at + 1
        BY <1>3
      <4>2. w = [value_[o] EXCEPT !.index = 2, !.str = n]
        BY <2>2, <2>5, <3>3, <4>1
      <4> QED BY <1>1, <2>3, <2>5, <3>3, <4>1, <4>2, TakenAs
    <3> QED BY <3>1, <3>2, <3>3
  <2>7. value_ \in [Options -> ArgValue] /\ role \in [1..Len(list) -> ArgRoles]
    BY <1>1 DEF ArgTypes
  <2>8. /\ value_' \in [Options -> ArgValue] /\ value_'[o] = w
        /\ \A q \in Options : q # o => value_'[q] = value_[q]
    BY <2>3, <2>6, <2>7
  <2>9. /\ role' \in [1..Len(list) -> ArgRoles]
        /\ \A j \in 1..Len(list) : role'[j] = (IF o \in Usage /\ j = at + 1 THEN "value" ELSE role[j])
    BY <2>3, <2>4, <2>7 DEF ArgRoles
  <2>10. /\ letters' \in Seq(STRING) /\ Len(letters') = Len(letters) - 1
         /\ \A j \in 1..Len(letters') : letters'[j] = letters[j + 1] /\ j + 1 \in 1..Len(letters)
    BY <1>1, <1>3, <2>3
  <2>11. ArgTypes'
    BY <1>1, <2>3, <2>4, <2>8, <2>9, <2>10 DEF ArgTypes
  <2>12. \A j \in 1..Len(list) : j > at => role[j] = "none"
    BY <1>3, <1>4 DEF RolesRead
  <2>13. RolesRead'
    <3> SUFFICES ASSUME NEW j \in 1..Len(list)
                 PROVE  IF j <= at' THEN role'[j] \in {"option", "value"} ELSE role'[j] = "none"
      BY <2>3 DEF RolesRead
    <3>1. CASE j <= at
      BY <1>3, <1>4, <2>4, <2>9, <3>1 DEF RolesRead
    <3>2. CASE j > at
      BY <1>3, <2>3, <2>9, <2>12, <3>2
    <3> QED BY <1>3, <3>1, <3>2
  <2>14. Tallied(list, role', value_', c, d + 1)
    <3>1. \A j \in 1..Len(list) : role'[j] = "option" <=> role[j] = "option"
      BY <1>3, <2>9, <2>12
    <3>2. Args!ByCode(list[c].letters[d + 1]) = {o}
      BY <1>6, <2>1
    <3>3. SpeltNext(list, role, role', c, d, o)
      BY <1>4, <1>6, <3>1, <3>2 DEF SpeltNext
    <3>4. TakenOnce(o, value_[o], value_'[o])
      BY <2>6, <2>8
    <3> QED BY <1>4, <2>7, <2>8, <3>3, <3>4, TalliedSpelt
  <2>15. ValuesGiven(role', value_', at')
    <3>1. value_[o].index # 2
      <4>1. ~(o \notin Counter /\ value_[o].index = 2)
        BY <2>3 DEF Args!Repeated, Args!IsSet
      <4> QED BY <1>4, <2>5, <4>1 DEF ValuesGiven
    <3>2. \A j \in 1..at : role'[j] = role[j]
      BY <1>3, <2>9
    <3>3. \A j \in at+1..at' : role'[j] = "value" => value_'[o].index = 2 /\ value_'[o].str = j
      <4> SUFFICES ASSUME NEW j \in at+1..at' PROVE value_'[o].index = 2 /\ value_'[o].str = j
        OBVIOUS
      <4>1. o \in Usage /\ j = at + 1
        BY <1>3, <2>3
      <4> QED BY <2>6, <2>8, <4>1
    <3>4. value_'[o].index = 2 => o \in Usage /\ value_'[o].str \in at+1..at'
      BY <1>3, <2>3, <2>6, <2>8
    <3>5. Usage \subseteq Options /\ at \in Nat /\ at' \in Nat /\ at <= at' /\ ValuesGiven(role, value_, at)
      BY <1>3, <1>4, <2>4 DEF Args!ArgsAssumption
    <3>6. ValueTaken(role, value_, at, role', value_', at', o)
      BY <2>8, <3>1, <3>2, <3>3, <3>4 DEF ValueTaken
    <3> QED BY <3>5, <3>6, ValuesKept
  <2>16. LettersAt(c, d + 1)'
    <3>1. c \in 1..at' /\ role'[c] = "option"
      BY <1>3, <1>4, <1>6, <2>4, <2>9
    <3>2. (d + 1) + Len(letters') = Len(list[c].letters)
      <4>1. d \in Nat /\ Len(letters) \in Nat /\ d + Len(letters) = Len(list[c].letters)
        BY <1>3, <1>4
      <4>2. (d + 1) + (Len(letters) - 1) = d + Len(letters)
        BY <4>1
      <4> QED BY <2>10, <4>1, <4>2
    <3>3. \A j \in 1..Len(letters') : letters'[j] = list[c].letters[(d + 1) + j]
      <4> SUFFICES ASSUME NEW j \in 1..Len(letters') PROVE letters'[j] = list[c].letters[(d + 1) + j]
        OBVIOUS
      <4>1. letters'[j] = list[c].letters[d + (j + 1)]
        BY <1>4, <2>10
      <4>2. d + (j + 1) = (d + 1) + j
        BY <1>4
      <4> QED BY <4>1, <4>2
    <3> QED BY <1>1, <1>4, <2>3, <3>1, <3>2, <3>3 DEF LettersAt
  <2>17. ArgsReading(c, d + 1)'
    BY <2>3, <2>13, <2>14, <2>15, <2>16 DEF ArgsReading
  <2> QED BY <1>1, <2>3, <2>11, <2>17 DEF ArgsGood
<1> QED BY <1>7, <1>8

LEMMA ArgsLettersDone ==
    ASSUME Args!ArgsAssumption, ArgsGood, Args!LettersDone
    PROVE  ArgsGood'
<1>1. /\ ArgTypes /\ parsing = "letters" /\ letters = <<>> /\ parsing' = "options"
      /\ UNCHANGED <<list, at, letters, value_, role>>
  BY DEF ArgsGood, Args!LettersDone
<1>2. PICK c, d : ArgsReading(c, d)
  BY <1>1 DEF ArgsGood
<1>3. /\ c \in Nat /\ d \in Nat /\ c \in 1..at /\ d = Len(list[c].letters)
      /\ Tallied(list, role, value_, c, d)
  BY <1>1, <1>2 DEF ArgsReading, LettersAt
<1>4. Tallied(list, role, value_, 0, 0)
  <2>1. \A o \in Options, j, k \in Nat : IsSpelt(list, role, o, 0, 0, j, k) <=> IsSpelt(list, role, o, c, d, j, k)
    BY <1>3 DEF IsSpelt
  <2> QED BY <1>3, <2>1, TalliedKept
<1>5. ArgsReading(0, 0)'
  BY <1>1, <1>2, <1>4 DEF ArgsReading, RolesRead, LettersAt
<1>6. ArgTypes'
  BY <1>1 DEF ArgTypes
<1> QED BY <1>1, <1>5, <1>6 DEF ArgsGood

LEMMA ArgsStep == ASSUME Args!ArgsAssumption, ArgsInv, [Args!ArgsNext]_(Args!argsVars) PROVE ArgsInv'
<1>1. CASE UNCHANGED Args!argsVars
  <2>1. UNCHANGED <<list, at, letters, parsing, value_, argv_, role, sets>>
    BY <1>1 DEF Args!argsVars
  <2>2. ArgTypes => ArgTypes'
    BY <2>1 DEF ArgTypes
  <2>3. \A c, d : ArgsReading(c, d) => ArgsReading(c, d)'
    BY <2>1 DEF ArgsReading, RolesRead, LettersAt
  <2>4. ArgsUsed => ArgsUsed'
    BY <2>1 DEF ArgsUsed
  <2> QED BY <2>1, <2>2, <2>3, <2>4 DEF ArgsInv, ArgsGood
<1>2. CASE Args!Outside
  BY <1>2 DEF Args!Outside, ArgsInv
<1>3. ASSUME sets' = sets, ArgsGood => ArgsGood' PROVE ArgsInv'
  BY <1>3 DEF ArgsInv
<1>4. CASE parsing = "before" /\ \E n \in 0..MaxArgs : \E given \in [1..n -> Arguments] : Args!Parse(given)
  BY <1>3, <1>4, ArgsParse DEF Args!Parse
<1>5. CASE Args!EndOptions
  BY <1>3, <1>5, ArgsEnd DEF Args!EndOptions
<1>6. CASE Args!ReadArgument
  <2>1. sets' = sets
    BY <1>6 DEF Args!ReadArgument, Args!TakeById, Args!Throw
  <2> QED BY <1>3, <1>6, <2>1, ArgsRead
<1>7. CASE Args!ReadLetter
  <2>1. sets' = sets
    BY <1>7 DEF Args!ReadLetter, Args!Throw
  <2> QED BY <1>3, <1>7, <2>1, ArgsLetter
<1>8. CASE Args!LettersDone
  BY <1>3, <1>8, ArgsLettersDone DEF Args!LettersDone
<1>9. CASE \E o \in Options : \/ \E n \in 0..1 : Args!SetNumber(o, n) \/ Args!SetIfUnset(o, n)
                              \/ \E always \in BOOLEAN : Args!SetText(o, always)
  BY <1>2, <1>9 DEF Args!SetNumber, Args!SetIfUnset, Args!SetText
<1> QED BY <1>1, <1>4, <1>5, <1>6, <1>7, <1>8, <1>9 DEF Args!ArgsNext

LettersOf(o, i) == {l \in 1..Len(list[i].letters) : Args!ByCode(list[i].letters[l]) = {o}}

LEMMA ArgsImplied == ASSUME Args!ArgsAssumption, ArgsInv PROVE Args!EachArgumentOnce
<1> SUFFICES ASSUME parsing = "done", sets = 0
             PROVE  /\ \A i \in 1..Len(list) : role[i] # "none"
                    /\ \A i \in 1..Len(argv_) : role[argv_[i]] = "positional"
                    /\ {i \in 1..Len(list) : role[i] = "positional"} = {argv_[i] : i \in 1..Len(argv_)}
                    /\ \A o \in Counter : Args!Count(o) = Args!Mentions(o)
                    /\ \A o \in Options \ Counter : Args!Mentions(o) <= 1 /\ (Args!IsSet(o) <=> Args!Mentions(o) = 1)
                    /\ \A i \in 1..Len(list) : role[i] = "value" =>
                           Args!Cardinality({o \in Usage : value_[o].index = 2 /\ value_[o].str = i}) = 1
  BY DEF Args!EachArgumentOnce
<1>1. ArgTypes /\ ArgsUsed
  BY DEF ArgsInv, ArgsGood
<1>2. ASSUME NEW o \in Options
      PROVE  \E n \in Nat : n = Args!Mentions(o) /\ TellsOf(o, value_[o], n)
  <2>1. PICK X : X = NamedBy(list, role, o)
    OBVIOUS
  <2>2. PICK Y : Y = SpeltBy(list, role, o, 0, 0)
    OBVIOUS
  <2>3. IsFiniteSet(X) /\ IsFiniteSet(Y) /\ TellsOf(o, value_[o], Cardinality(X) + Cardinality(Y))
    BY <1>1, <2>1, <2>2 DEF ArgsUsed, Tallied
  <2>4. X = {i \in {k \in 1..Len(list) : role[k] = "option"} : Args!ById(list[i].id) = {o}}
    BY <2>1 DEF NamedBy
  <2>5. Y = UNION {{<<i, j>> : j \in {l \in 1..Len(list[i].letters) : Args!ByCode(list[i].letters[l]) = {o}}} :
                      i \in {k \in {m \in 1..Len(list) : role[m] = "option"} : Args!ById(list[k].id) = {}}}
    <3>1. \A p : p \in Y <=> \E i, j : p = <<i, j>> /\ IsSpelt(list, role, o, 0, 0, i, j)
      <4>1. \A i, j : IsSpelt(list, role, o, 0, 0, i, j) => i \in Nat /\ j \in Nat
        BY DEF IsSpelt
      <4> QED BY <2>2, <4>1 DEF SpeltBy
    <3>2. \A i, j : IsSpelt(list, role, o, 0, 0, i, j) <=>
             /\ i \in {k \in {m \in 1..Len(list) : role[m] = "option"} : Args!ById(list[k].id) = {}}
             /\ j \in {l \in 1..Len(list[i].letters) : Args!ByCode(list[i].letters[l]) = {o}}
      BY DEF IsSpelt
    <3>3. PICK I : I = {k \in {m \in 1..Len(list) : role[m] = "option"} : Args!ById(list[k].id) = {}}
      OBVIOUS
    <3>4. \A i, j : IsSpelt(list, role, o, 0, 0, i, j) <=> i \in I /\ j \in LettersOf(o, i)
      BY <3>2, <3>3 DEF LettersOf
    <3>5. \A p : p \in Y <=> \E i \in I : \E j \in LettersOf(o, i) : p = <<i, j>>
      BY <3>1, <3>4
    <3>6. Y = UNION {{<<i, j>> : j \in LettersOf(o, i)} : i \in I}
      BY <3>5
    <3> QED BY <3>3, <3>6 DEF LettersOf
  <2>6. Args!Mentions(o) = Cardinality(X) + Cardinality(Y)
    BY <2>4, <2>5, ArgsCard DEF Args!Mentions
  <2>7. Cardinality(X) \in Nat /\ Cardinality(Y) \in Nat
    BY <2>3, FS_CardinalityType
  <2> QED BY <2>3, <2>6, <2>7
<1>3. ASSUME NEW o \in Counter PROVE Args!Count(o) = Args!Mentions(o)
  <2>1. o \in Options
    BY DEF Args!ArgsAssumption
  <2>2. PICK n \in Nat : n = Args!Mentions(o) /\ TellsOf(o, value_[o], n)
    BY <1>2, <2>1
  <2> QED BY <2>2 DEF TellsOf, Args!Count, Args!IsSet
<1>4. ASSUME NEW o \in Options \ Counter PROVE Args!Mentions(o) <= 1 /\ (Args!IsSet(o) <=> Args!Mentions(o) = 1)
  BY <1>2 DEF TellsOf, Args!IsSet
<1>5. ASSUME NEW i \in 1..Len(list), role[i] = "value"
      PROVE  Args!Cardinality({o \in Usage : value_[o].index = 2 /\ value_[o].str = i}) = 1
  <2>1. PICK o \in Usage : /\ value_[o].index = 2 /\ value_[o].str = i
                           /\ \A q \in Usage : (value_[q].index = 2 /\ value_[q].str = i) => q = o
    BY <1>1, <1>5 DEF ArgsUsed, ValuesGiven
  <2>2. {q \in Usage : value_[q].index = 2 /\ value_[q].str = i} = {o}
    BY <2>1
  <2> QED BY <2>2, FS_Singleton, ArgsCard
<1> QED BY <1>1, <1>3, <1>4, <1>5 DEF ArgsUsed

LEMMA StepOfArgs == ASSUME [DataNext]_<<focus, dataV>> PROVE [Args!ArgsNext]_(Args!argsVars)
<1> USE DEF dataV, argsV, Args!argsVars
<1>1. CASE UNCHANGED <<focus, dataV>>
  BY <1>1
<1>2. CASE DataNext
  BY <1>2 DEF DataNext
<1> QED BY <1>1, <1>2

\* Whenever args::parse() returns, every argument had one use, a counter counts its
\* mentions, any other option was mentioned at most once and is set if it was, and every
\* value belongs to one option, for any options and arguments.
THEOREM ArgsCorrect == DataSpec => []EachArgumentOnce
<1>1. Args!ArgsAssumption
  BY DataAssumption
<1>2. DataInit => ArgsInv
  BY ArgsStart DEF DataInit
<1>3. ArgsInv /\ [DataNext]_<<focus, dataV>> => ArgsInv'
  BY <1>1, StepOfArgs, ArgsStep
<1>4. ArgsInv => EachArgumentOnce
  BY <1>1, ArgsImplied DEF EachArgumentOnce
<1> QED BY <1>2, <1>3, <1>4, PTL DEF DataSpec
=============================================================================
