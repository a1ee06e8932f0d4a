----------------------------- MODULE SyncProofs -----------------------------
(***************************************************************************)
(* Proofs about the objects of sync.hpp as MCSync puts them side by side,  *)
(* for any number of threads, handles, objects, permits and calls:         *)
(* event_sync (EventSync.tla), wait_group and sync_group (WaitGroup.tla),  *)
(* the locked pointers (LockedPtr.tla), semaphore_lock and sync_counting   *)
(* (Permits.tla), barrier_t (Barrier.tla).  What SemaphoreProofs shows of  *)
(* semaphore_t is carried over at the end.                                 *)
(***************************************************************************)
EXTENDS MCSync, FiniteSetTheorems, TLAPS

-----------------------------------------------------------------------------
(* event_sync. *)

\* A signal that is still up has not been spent: there is a call of notify() for
\* it beside those for the waits that passed.  OnePassEach alone is not inductive,
\* as a step that spends the signal needs the one in hand.
UnspentSignal ==
    auto_reset_ => passes <= notifies /\ (signaled_ => passes < notifies)

EventIInv == Event!TypeOK /\ Event!SignalSeen /\ UnspentSignal

\* A constructed event is not signaled, and nobody waits.
LEMMA EventInit == Event!Init => EventIInv
<1> SUFFICES ASSUME Event!Init PROVE EventIInv
  OBVIOUS
<1>1. Event!TypeOK
  BY DEF Event!Init, Event!TypeOK
<1>2. ~signaled_
  BY DEF Event!Init
<1>3. passes = 0 /\ notifies = 0
  BY DEF Event!Init
<1> QED BY <1>1, <1>2, <1>3 DEF EventIInv, Event!SignalSeen, UnspentSignal

\* notify() wakes one sleeper of an event with auto_reset_, and all of one without.
LEMMA NotifyKeeps == ASSUME EventIInv, Event!Notify PROVE EventIInv'
<1> USE DEF EventIInv, Event!TypeOK
<1>1. /\ signaled_' = TRUE /\ notifies' = notifies + 1 /\ auto_reset_' = auto_reset_ /\ passes' = passes
      /\ IF auto_reset_ THEN eventSt' \in Event!WakeOne(eventSt) ELSE eventSt' = Event!WakeAll(eventSt)
  BY DEF Event!Notify, Event!Wake
<1>2. UnspentSignal'
  BY <1>1 DEF UnspentSignal
<1>3. CASE auto_reset_
  <2>1. CASE Event!Asleep(eventSt) = {}
    <3>1. eventSt' = eventSt
      BY <1>1, <1>3, <2>1 DEF Event!WakeOne
    <3> QED BY <1>1, <1>2, <2>1, <3>1 DEF Event!SignalSeen
  <2>2. CASE Event!Asleep(eventSt) # {}
    <3>1. PICK t \in Event!Asleep(eventSt) : eventSt' = Event!Awake(eventSt, t)
      BY <1>1, <1>3, <2>2 DEF Event!WakeOne
    <3>2. t \in Threads /\ eventSt' = [eventSt EXCEPT ![t] = "test"]
      BY <3>1 DEF Event!Asleep, Event!Awake
    <3> QED BY <1>1, <1>2, <1>3, <3>2 DEF Event!SignalSeen
  <2> QED BY <2>1, <2>2
<1>4. CASE ~auto_reset_
  <2>1. eventSt' \in [Threads -> {"idle", "asleep", "test"}] /\ \A t \in Threads : eventSt'[t] # "asleep"
    BY <1>1, <1>4 DEF Event!WakeAll
  <2> QED BY <1>1, <1>2, <2>1 DEF Event!SignalSeen, Event!Asleep
<1> QED BY <1>3, <1>4

\* A thread that passes spends the signal of an event with auto_reset_.
LEMMA PassKeeps == ASSUME EventIInv, NEW t \in Threads, Event!Pass(t) PROVE EventIInv'
<1> USE DEF EventIInv, Event!TypeOK
<1>1. /\ signaled_ /\ signaled_' = (signaled_ /\ ~auto_reset_) /\ eventSt' = [eventSt EXCEPT ![t] = "idle"]
      /\ passes' \in {passes, passes + 1} /\ auto_reset_' = auto_reset_ /\ notifies' = notifies
  BY DEF Event!Pass, Event!Consume
<1>2. UnspentSignal'
  <2>1. auto_reset_' => ~signaled_'
    BY <1>1
  <2>2. auto_reset_' => passes' <= notifies'
    BY <1>1 DEF UnspentSignal
  <2> QED BY <2>1, <2>2 DEF UnspentSignal
<1>3. signaled_' \in BOOLEAN
  BY <1>1
<1>4. Event!SignalSeen'
  BY <1>1 DEF Event!SignalSeen, Event!Asleep
<1> QED BY <1>1, <1>2, <1>3, <1>4

\* Nobody begins to wait, or gives up, while the event is signaled.
LEMMA BlockKeeps ==
    ASSUME EventIInv, NEW t \in Threads, Event!Block(t) \/ Event!TimeOut(t)
    PROVE  EventIInv'
BY DEF EventIInv, Event!TypeOK, Event!SignalSeen, UnspentSignal, Event!Block, Event!TimeOut, Event!Waiting

\* A spurious wakeup, or reset(), can only make a signal less slept through.
LEMMA OtherKeeps ==
    ASSUME EventIInv, Event!Reset \/ \E t \in Threads : Event!Spurious(t)
    PROVE  EventIInv'
<1> USE DEF EventIInv, Event!TypeOK
<1>1. CASE Event!Reset
  BY <1>1 DEF Event!Reset, Event!SignalSeen, UnspentSignal
<1>2. ASSUME NEW t \in Threads, Event!Spurious(t) PROVE EventIInv'
  <2>1. /\ eventSt' = [eventSt EXCEPT ![t] = "test"] /\ eventSt[t] = "asleep"
        /\ UNCHANGED <<signaled_, auto_reset_, notifies, passes>>
    BY <1>2 DEF Event!Spurious, Event!Awake
  <2>2. Event!SignalSeen'
    BY <2>1 DEF Event!SignalSeen, Event!Asleep
  <2> QED BY <2>1, <2>2 DEF UnspentSignal
<1> QED BY <1>1, <1>2

\* Every critical section of event_sync keeps the invariant.
LEMMA EventStep == EventIInv /\ [Event!Next]_(Event!vars) => EventIInv'
<1> SUFFICES ASSUME EventIInv, [Event!Next]_(Event!vars) PROVE EventIInv'
  OBVIOUS
<1>1. CASE UNCHANGED Event!vars
  BY <1>1 DEF Event!vars, EventIInv, Event!TypeOK, Event!SignalSeen, UnspentSignal
<1>2. CASE Event!Next
  BY <1>2, NotifyKeeps, PassKeeps, BlockKeeps, OtherKeeps DEF Event!Next
<1> QED BY <1>1, <1>2

\* For any number of waiters, timed or not: a signal of event_sync is never slept
\* through, and with auto_reset_ at most one wait returns per call of notify().
THEOREM EventCorrect == Event!Spec => []Event!EventInv
<1>1. Event!Spec => []EventIInv
  BY EventInit, EventStep, PTL DEF Event!Spec
<1>2. EventIInv => Event!EventInv
  BY DEF EventIInv, Event!EventInv, UnspentSignal, Event!OnePassEach, Event!TypeOK
<1> QED BY <1>1, <1>2, PTL

-----------------------------------------------------------------------------
(* wait_group and sync_group. *)

\* The cardinality WaitGroup speaks of is the one the library's facts are about.
LEMMA SameGroupCount == \A S : /\ Group!Cardinality(S) = Cardinality(S)
                          /\ Group!IsFiniteSet(S) = IsFiniteSet(S)
BY DEF Group!Cardinality, Cardinality, Group!IsFiniteSet, IsFiniteSet

\* What Balanced says before and after a step.
LEMMA BalancedMeans ==
    /\ Group!Balanced <=> groupCount = unclaimed + Cardinality(wg_)
    /\ Group!Balanced' <=> groupCount' = unclaimed' + Cardinality(wg_')
BY SameGroupCount DEF Group!Balanced

\* The handles that hold the group are finitely many, and one more or one less
\* changes their number by one.
LEMMA HandleCount ==
    ASSUME Group!GroupAssumption, NEW S \in SUBSET Handles
    PROVE  /\ Cardinality(S) \in Nat /\ (Cardinality(S) = 0 <=> S = {})
           /\ \A h \in Handles \ S : Cardinality(S \cup {h}) = Cardinality(S) + 1
           /\ \A h \in S : Cardinality(S) > 0 /\ Cardinality(S \ {h}) = Cardinality(S) - 1
<1>1. IsFiniteSet(S) /\ Cardinality(S) \in Nat /\ (Cardinality(S) = 0 <=> S = {})
  BY SameGroupCount, FS_Subset, FS_CardinalityType, FS_EmptySet DEF Group!GroupAssumption
<1>2. ASSUME NEW h \in Handles \ S PROVE Cardinality(S \cup {h}) = Cardinality(S) + 1
  BY <1>1, FS_AddElement
<1>3. ASSUME NEW h \in S PROVE Cardinality(S) > 0 /\ Cardinality(S \ {h}) = Cardinality(S) - 1
  <2>1. Cardinality(S \ {h}) = Cardinality(S) - 1
    BY <1>1, FS_RemoveElement
  <2> QED BY <1>1, <2>1
<1> QED BY <1>1, <1>2, <1>3

\* release() while work is outstanding settles one unit of it, and wakes everyone
\* with the last one.
LEMMA DoReleaseFacts ==
    ASSUME Group!GroupAssumption, Group!GroupInv, Group!DoRelease, groupCount # 0
    PROVE  /\ groupCount' = groupCount - 1 /\ groupCount' \in 0..MaxCount
           /\ groupSt' \in [Few -> {"idle", "asleep", "test"}] /\ Group!ZeroWakes'
<1> USE DEF Group!GroupInv, Group!TypeOK, Group!GroupAssumption
<1>1. CASE groupCount = 1 /\ groupCount' = 0 /\ Group!WakeWaiters
  <2>1. groupSt' \in [Few -> {"idle", "asleep", "test"}] /\ \A t \in Few : groupSt'[t] # "asleep"
    BY <1>1 DEF Group!WakeWaiters, Group!WakeAll
  <2> QED BY <1>1, <2>1 DEF Group!ZeroWakes, Group!Asleep
<1>2. CASE groupCount > 1 /\ groupCount' = groupCount - 1 /\ UNCHANGED groupSt
  BY <1>2 DEF Group!ZeroWakes
<1> QED BY <1>1, <1>2 DEF Group!DoRelease

\* Whatever work is announced, claimed, moved or settled stays counted once.
LEMMA WorkKeeps ==
    ASSUME Group!GroupAssumption, Group!GroupInv,
           \/ \E n \in 1..2 : Group!Add(n)
           \/ Group!Release
           \/ \E h \in Handles : Group!Construct(h) \/ Group!Destroy(h)
           \/ \E h, k \in Handles : Group!Move(h, k) \/ Group!MoveOver(h, k)
    PROVE  Group!GroupInv'
<1> USE DEF Group!GroupInv, Group!TypeOK
<1>0. wg_ \in SUBSET Handles /\ groupCount = unclaimed + Cardinality(wg_) /\ Cardinality(wg_) \in Nat
  BY HandleCount, BalancedMeans
<1>1. ASSUME NEW n \in 1..2, Group!Add(n) PROVE Group!GroupInv'
  BY <1>0, <1>1, BalancedMeans DEF Group!Add, Group!ZeroWakes, Group!GroupAssumption
<1>2. CASE Group!Release
  <2>1. CASE groupCount = 0
    <3>1. unclaimed = 0 /\ unclaimed' = 0 /\ UNCHANGED <<groupCount, groupSt, wg_>>
      BY <1>0, <1>2, <2>1 DEF Group!Release, Group!DoRelease
    <3> QED BY <1>0, <3>1, BalancedMeans DEF Group!ZeroWakes
  <2>2. CASE groupCount # 0
    <3>1. Group!DoRelease /\ unclaimed > 0 /\ unclaimed' = unclaimed - 1 /\ wg_' = wg_
      BY <1>2, <2>2 DEF Group!Release
    <3>2. Group!Balanced'
      BY <1>0, <2>2, <3>1, DoReleaseFacts, BalancedMeans
    <3> QED BY <2>2, <3>1, <3>2, DoReleaseFacts
  <2> QED BY <2>1, <2>2
<1>3. ASSUME NEW h \in Handles, Group!Construct(h) PROVE Group!GroupInv'
  <2>1. /\ h \notin wg_ /\ wg_' = wg_ \cup {h} /\ unclaimed > 0 /\ unclaimed' = unclaimed - 1
        /\ UNCHANGED <<groupCount, groupSt>>
    BY <1>3 DEF Group!Construct
  <2>2. Cardinality(wg_') = Cardinality(wg_) + 1
    BY <1>0, <2>1, HandleCount
  <2>3. Group!Balanced'
    BY <1>0, <2>1, <2>2, BalancedMeans
  <2> QED BY <1>0, <2>1, <2>3 DEF Group!ZeroWakes
<1>4. ASSUME NEW h \in Handles, Group!Destroy(h) PROVE Group!GroupInv'
  <2>1. h \in wg_ /\ Group!DoRelease /\ wg_' = wg_ \ {h} /\ unclaimed' = unclaimed
    BY <1>4 DEF Group!Destroy
  <2>2. Cardinality(wg_) > 0 /\ Cardinality(wg_') = Cardinality(wg_) - 1
    BY <1>0, <2>1, HandleCount
  <2>3. groupCount # 0
    BY <1>0, <2>2
  <2>4. Group!Balanced'
    BY <1>0, <2>1, <2>2, <2>3, DoReleaseFacts, BalancedMeans
  <2> QED BY <1>0, <2>1, <2>3, <2>4, DoReleaseFacts
<1>5. ASSUME NEW h \in Handles, NEW k \in Handles, Group!Move(h, k) PROVE Group!GroupInv'
  <2>1. h \in wg_ /\ k \notin wg_ /\ wg_' = (wg_ \ {h}) \cup {k} /\ UNCHANGED <<groupCount, groupSt, unclaimed>>
    BY <1>5 DEF Group!Move, Group!Exchange
  <2>2. Cardinality(wg_) > 0 /\ Cardinality(wg_ \ {h}) = Cardinality(wg_) - 1
    BY <1>0, <2>1, HandleCount
  <2>3. wg_ \ {h} \in SUBSET Handles /\ k \in Handles \ (wg_ \ {h})
    BY <1>0, <2>1
  <2>4. Cardinality(wg_') = Cardinality(wg_ \ {h}) + 1
    BY <2>1, <2>3, HandleCount
  <2>5. Group!Balanced'
    BY <1>0, <2>1, <2>2, <2>4, BalancedMeans
  <2> QED BY <1>0, <2>1, <2>5 DEF Group!ZeroWakes
<1>6. ASSUME NEW h \in Handles, NEW k \in Handles, Group!MoveOver(h, k) PROVE Group!GroupInv'
  <2>1. h \in wg_ /\ Group!DoRelease /\ wg_' = wg_ \ {h} /\ unclaimed' = unclaimed
    BY <1>6 DEF Group!MoveOver, Group!Exchange
  <2>2. Cardinality(wg_) > 0 /\ Cardinality(wg_') = Cardinality(wg_) - 1
    BY <1>0, <2>1, HandleCount
  <2>3. groupCount # 0
    BY <1>0, <2>2
  <2>4. Group!Balanced'
    BY <1>0, <2>1, <2>2, <2>3, DoReleaseFacts, BalancedMeans
  <2> QED BY <1>0, <2>1, <2>3, <2>4, DoReleaseFacts
<1> QED BY <1>1, <1>2, <1>3, <1>4, <1>5, <1>6

\* A thread goes to sleep only while work is outstanding.
LEMMA WaitersKeep ==
    ASSUME Group!GroupInv, NEW t \in Few,
           Group!Block(t) \/ Group!Leave(t) \/ Group!TimeOut(t) \/ Group!Spurious(t)
    PROVE  Group!GroupInv'
<1> USE DEF Group!GroupInv, Group!TypeOK
<1>1. UNCHANGED <<groupCount, wg_, unclaimed>>
  BY DEF Group!Block, Group!Leave, Group!TimeOut, Group!Spurious
<1>2. \/ groupSt' = [groupSt EXCEPT ![t] = "asleep"] /\ groupCount # 0
      \/ groupSt' = [groupSt EXCEPT ![t] = "idle"]
      \/ groupSt' = [groupSt EXCEPT ![t] = "test"]
  BY DEF Group!Block, Group!Leave, Group!TimeOut, Group!Spurious, Group!Awake
<1>3. Group!ZeroWakes'
  BY <1>1, <1>2 DEF Group!ZeroWakes, Group!Asleep
<1> QED BY <1>1, <1>2, <1>3, BalancedMeans

\* Every step of the group and its handles keeps the invariant.
LEMMA GroupStep ==
    ASSUME Group!GroupAssumption, Group!GroupInv, [Group!Next]_(Group!vars)
    PROVE  Group!GroupInv'
<1>1. CASE UNCHANGED Group!vars
  BY <1>1, BalancedMeans DEF Group!vars, Group!GroupInv, Group!TypeOK, Group!ZeroWakes
<1>2. CASE Group!Next
  BY <1>2, WorkKeeps, WaitersKeep DEF Group!Next
<1> QED BY <1>1, <1>2

\* For any number of handles and waiters: through any chain of moves, assignments
\* and destructions of sync_group objects every unit of announced work is settled
\* exactly once, and nobody sleeps in wait() when nothing is outstanding.
THEOREM GroupCorrect == ASSUME Group!GroupAssumption PROVE Group!Spec => []Group!GroupInv
<1>1. Group!Init => Group!GroupInv
  BY FS_EmptySet, BalancedMeans DEF Group!Init, Group!GroupInv, Group!TypeOK, Group!ZeroWakes,
                     Group!Asleep, Group!GroupAssumption
<1> QED BY <1>1, GroupStep, PTL DEF Group!Spec

\* wait() returns only when no handle holds the group and no announced work is
\* left: a handle that was moved from does not let the waiters go early.
THEOREM GroupLeaveMeansDone == ASSUME Group!GroupAssumption PROVE Group!Spec => Group!LeaveMeansDone
<1>1. ASSUME Group!GroupInv, [Group!Next]_(Group!vars)
      PROVE  [\A t \in Few \ GroupTimed : Group!Waiting(t) /\ ~(Group!Waiting(t))'
                => wg_ = {} /\ unclaimed = 0]_(Group!vars)
  <2> SUFFICES ASSUME Group!Next, NEW t \in Few \ GroupTimed, groupSt[t] # "idle", groupSt'[t] = "idle"
               PROVE  wg_ = {} /\ unclaimed = 0
    BY <1>1 DEF Group!Waiting
  <2> USE DEF Group!GroupInv, Group!TypeOK
  <2>1. Group!Leave(t)
    <3>1. ASSUME Group!DoRelease PROVE FALSE
      <4>1. groupSt' = groupSt \/ groupSt' = Group!WakeAll(groupSt)
        BY <3>1 DEF Group!DoRelease, Group!WakeWaiters
      <4> QED BY <1>1, <4>1 DEF Group!WakeAll
    <3>2. PICK u \in Few : Group!Block(u) \/ Group!Leave(u) \/ Group!TimeOut(u) \/ Group!Spurious(u)
      BY <3>1 DEF Group!Next, Group!Add, Group!Release, Group!Construct, Group!Destroy, Group!Move,
                  Group!MoveOver
    <3>3. u = t
      BY <1>1, <3>2 DEF Group!Block, Group!Leave, Group!TimeOut, Group!Spurious, Group!Awake
    <3> QED BY <1>1, <3>2, <3>3 DEF Group!Block, Group!TimeOut, Group!Spurious, Group!Awake
  <2>2. groupCount = 0 /\ groupCount = unclaimed + Cardinality(wg_)
    BY <1>1, <2>1, BalancedMeans DEF Group!Leave, Group!Settled
  <2>3. wg_ \in SUBSET Handles /\ unclaimed \in Nat /\ Cardinality(wg_) \in Nat
    BY <1>1, HandleCount
  <2>4. unclaimed = 0 /\ Cardinality(wg_) = 0
    BY <2>2, <2>3
  <2> QED BY <2>3, <2>4, HandleCount
<1> QED BY <1>1, GroupCorrect, PTL DEF Group!Spec, Group!LeaveMeansDone

-----------------------------------------------------------------------------
(* The locked pointers. *)

\* A mutex is owned by one handle, or by readers only: what AccessIsLocked says of
\* the data, of the mutexes.  A swap parts the mutexes from the pointers, so that the
\* one follows from the other only for handles that were never swapped or released.
LocksExclusive ==
    \A h, g \in owned : (h # g /\ lock[h] # None /\ lock[h] = lock[g]) => h \in Readers /\ g \in Readers

\* A handle that was not parted from the mutex of its data refers to it, and owns it
\* unless it was unlocked.
PtrTied ==
    \A h \in Ptr!Pointers : ptr_[h] # None /\ h \notin detached =>
        lock[h] = ptr_[h] /\ (h \notin opened => h \in owned)

PtrTypeOK ==
    /\ lock \in [Ptr!Pointers -> Objects \cup {None}] /\ ptr_ \in [Ptr!Pointers -> Objects \cup {None}]
    /\ owned \in SUBSET Ptr!Pointers

PtrIInv == PtrTypeOK /\ LocksExclusive /\ PtrTied

LEMMA PtrImplied == PtrIInv => Ptr!AccessIsLocked
<1> SUFFICES ASSUME PtrIInv,
                    NEW h \in owned \ detached, NEW g \in owned \ detached, h # g, ptr_[h] # None, ptr_[h] = ptr_[g]
             PROVE  {h, g} \subseteq Readers
  BY DEF PtrIInv, PtrTied, Ptr!AccessIsLocked
<1>1. lock[h] = ptr_[h] /\ lock[g] = ptr_[g]
  BY DEF PtrIInv, PtrTypeOK, PtrTied
<1> QED BY <1>1 DEF PtrIInv, LocksExclusive

\* A mutex that a handle may lock is owned by nobody, or by readers beside a reader.
LEMMA MayLockMeans ==
    ASSUME PtrIInv, NEW h \in Ptr!Pointers, NEW o \in Objects, Ptr!MayLock(h, o)
    PROVE  \A g \in owned : lock[g] = o => h \in Readers /\ g \in Readers
BY DEF Ptr!MayLock, Ptr!Holders

LEMMA PtrConstruct ==
    ASSUME Ptr!PtrAssumption, PtrIInv, NEW h \in Ptr!Pointers, NEW o \in Objects, Ptr!Construct(h, o)
    PROVE  PtrIInv'
<1>1. /\ lock' = [lock EXCEPT ![h] = o] /\ ptr_' = [ptr_ EXCEPT ![h] = o] /\ owned' = owned \cup {h}
      /\ UNCHANGED <<opened, detached>>
      /\ \A g \in owned : lock[g] = o => h \in Readers /\ g \in Readers
  BY MayLockMeans DEF Ptr!Construct
<1>2. PtrTypeOK'
  BY <1>1 DEF PtrIInv, PtrTypeOK
<1>3. \A g \in Ptr!Pointers : lock'[g] = (IF g = h THEN o ELSE lock[g]) /\ ptr_'[g] = (IF g = h THEN o ELSE ptr_[g])
  BY <1>1 DEF PtrIInv, PtrTypeOK
<1>4. LocksExclusive'
  BY <1>1, <1>2, <1>3 DEF PtrIInv, PtrTypeOK, LocksExclusive
<1>5. PtrTied'
  BY <1>1, <1>3 DEF PtrIInv, PtrTied
<1> QED BY <1>2, <1>4, <1>5 DEF PtrIInv

\* Move construction and move assignment: mutex, ownership and pointer go together
\* from one handle to another of its class.
LEMMA PtrMove ==
    ASSUME Ptr!PtrAssumption, PtrIInv, NEW h \in Ptr!Pointers, NEW g \in Ptr!Pointers,
           Ptr!MoveConstruct(h, g) \/ Ptr!MoveAssign(h, g)
    PROVE  PtrIInv'
<1>1. /\ h # g
      /\ lock' = [lock EXCEPT ![h] = lock[g], ![g] = None]
      /\ ptr_' = [ptr_ EXCEPT ![h] = ptr_[g], ![g] = None]
      /\ owned' = Ptr!Passed(owned, h, g) /\ opened' = Ptr!Passed(opened, h, g)
      /\ detached' = Ptr!Passed(detached, h, g)
  BY DEF Ptr!MoveConstruct, Ptr!MoveAssign, Ptr!PassOn
<1>2. g \in Readers => h \in Readers
  BY DEF Ptr!MoveConstruct, Ptr!MoveAssign, Ptr!SameClass, Ptr!PtrAssumption
<1>3. PtrTypeOK'
  BY <1>1 DEF PtrIInv, PtrTypeOK, Ptr!Passed
<1>4. \A k \in Ptr!Pointers :
         /\ lock'[k] = (IF k = g THEN None ELSE IF k = h THEN lock[g] ELSE lock[k])
         /\ ptr_'[k] = (IF k = g THEN None ELSE IF k = h THEN ptr_[g] ELSE ptr_[k])
  BY <1>1 DEF PtrIInv, PtrTypeOK
<1>5. /\ (h \in owned' <=> g \in owned) /\ (h \in opened' <=> g \in opened) /\ (h \in detached' <=> g \in detached)
      /\ \A k : k # h /\ k # g => /\ k \in owned' <=> k \in owned
                                  /\ k \in opened' <=> k \in opened
                                  /\ k \in detached' <=> k \in detached
  BY <1>1 DEF Ptr!Passed
<1>6. LocksExclusive'
  <2> SUFFICES ASSUME NEW k \in owned', NEW l \in owned', k # l, lock'[k] # None, lock'[k] = lock'[l]
               PROVE  k \in Readers /\ l \in Readers
    BY DEF LocksExclusive
  <2>1. k \in Ptr!Pointers /\ l \in Ptr!Pointers /\ k # g /\ l # g
    BY <1>3, <1>4 DEF PtrTypeOK
  <2>2. CASE k = h
    <3>1. lock[g] = lock[l] /\ lock[g] # None /\ l # h /\ g \in owned /\ l \in owned
      BY <1>4, <1>5, <2>1, <2>2
    <3> QED BY <1>2, <2>1, <2>2, <3>1 DEF PtrIInv, LocksExclusive
  <2>3. CASE l = h
    <3>1. lock[g] = lock[k] /\ lock[g] # None /\ k # h /\ g \in owned /\ k \in owned
      BY <1>4, <1>5, <2>1, <2>3
    <3> QED BY <1>2, <2>1, <2>3, <3>1 DEF PtrIInv, LocksExclusive
  <2>4. CASE k # h /\ l # h
    BY <1>4, <1>5, <2>1, <2>4 DEF PtrIInv, LocksExclusive
  <2> QED BY <2>2, <2>3, <2>4
<1>7. PtrTied'
  <2> SUFFICES ASSUME NEW k \in Ptr!Pointers, ptr_'[k] # None, k \notin detached'
               PROVE  lock'[k] = ptr_'[k] /\ (k \notin opened' => k \in owned')
    BY DEF PtrTied
  <2>1. k # g
    BY <1>4
  <2>2. CASE k = h
    BY <1>1, <1>4, <1>5, <2>1, <2>2 DEF PtrIInv, PtrTied
  <2>3. CASE k # h
    BY <1>4, <1>5, <2>1, <2>3 DEF PtrIInv, PtrTied
  <2> QED BY <2>2, <2>3
<1> QED BY <1>3, <1>6, <1>7 DEF PtrIInv

LEMMA PtrDestroy ==
    ASSUME PtrIInv, NEW h \in Ptr!Pointers, Ptr!Destroy(h)
    PROVE  PtrIInv'
<1>1. /\ lock' = [lock EXCEPT ![h] = None] /\ ptr_' = [ptr_ EXCEPT ![h] = None]
      /\ owned' = owned \ {h} /\ opened' = opened \ {h} /\ detached' = detached \ {h}
  BY DEF Ptr!Destroy
<1>2. PtrTypeOK'
  BY <1>1 DEF PtrIInv, PtrTypeOK
<1>3. \A g \in Ptr!Pointers : /\ lock'[g] = (IF g = h THEN None ELSE lock[g])
                             /\ ptr_'[g] = (IF g = h THEN None ELSE ptr_[g])
  BY <1>1 DEF PtrIInv, PtrTypeOK
<1>4. LocksExclusive'
  BY <1>1, <1>2, <1>3 DEF PtrIInv, PtrTypeOK, LocksExclusive
<1>5. PtrTied'
  BY <1>1, <1>3 DEF PtrIInv, PtrTied
<1> QED BY <1>2, <1>4, <1>5 DEF PtrIInv

\* unlock() and lock() of the base class, and the unlock of a mutex that release()
\* left locked: no handle is parted from its mutex.
LEMMA PtrToggle ==
    ASSUME Ptr!PtrAssumption, PtrIInv, NEW h \in Ptr!Pointers,
           Ptr!Unlock(h) \/ Ptr!Relock(h) \/ \E o \in Objects : Ptr!RawUnlock(h, o)
    PROVE  PtrIInv'
<1>1. CASE Ptr!Unlock(h)
  BY <1>1 DEF Ptr!Unlock, PtrIInv, PtrTypeOK, LocksExclusive, PtrTied
<1>2. CASE Ptr!Relock(h)
  <2>1. lock[h] \in Objects /\ owned' = owned \cup {h} /\ opened' = opened \ {h} /\ UNCHANGED <<lock, ptr_, detached>>
    BY <1>2 DEF Ptr!Relock, PtrIInv, PtrTypeOK
  <2>2. \A g \in owned : lock[g] = lock[h] => h \in Readers /\ g \in Readers
    BY <1>2, <2>1, MayLockMeans DEF Ptr!Relock
  <2>3. PtrTypeOK' /\ LocksExclusive'
    BY <2>1, <2>2 DEF PtrIInv, PtrTypeOK, LocksExclusive
  <2>4. PtrTied'
    BY <2>1 DEF PtrIInv, PtrTied
  <2> QED BY <2>3, <2>4 DEF PtrIInv
<1>3. ASSUME NEW o \in Objects, Ptr!RawUnlock(h, o) PROVE PtrIInv'
  BY <1>3 DEF Ptr!RawUnlock, PtrIInv, PtrTypeOK, LocksExclusive, PtrTied
<1> QED BY <1>1, <1>2, <1>3

\* release() parts one handle from its mutex.
LEMMA PtrRelease ==
    ASSUME PtrIInv, NEW h \in Ptr!Pointers, Ptr!Release(h)
    PROVE  PtrIInv'
<1>1. /\ lock' = [lock EXCEPT ![h] = None] /\ owned' = owned \ {h} /\ detached' = detached \cup {h}
      /\ opened' = opened \ {h} /\ UNCHANGED ptr_
  BY DEF Ptr!Release
<1>2. PtrTypeOK'
  BY <1>1 DEF PtrIInv, PtrTypeOK
<1>3. \A g \in Ptr!Pointers : g # h => lock'[g] = lock[g]
  BY <1>1 DEF PtrIInv, PtrTypeOK
<1>4. LocksExclusive' /\ PtrTied'
  BY <1>1, <1>2, <1>3 DEF PtrIInv, PtrTypeOK, LocksExclusive, PtrTied
<1> QED BY <1>2, <1>4 DEF PtrIInv

\* swap() parts two handles of one class from their mutexes, which keep one owner.
LEMMA PtrSwap ==
    ASSUME Ptr!PtrAssumption, PtrIInv, NEW h \in Ptr!Pointers, NEW g \in Ptr!Pointers, Ptr!Swap(h, g)
    PROVE  PtrIInv'
<1> DEFINE Other(k) == IF k = h THEN g ELSE IF k = g THEN h ELSE k
<1>1. /\ h # g /\ lock' = [lock EXCEPT ![h] = lock[g], ![g] = lock[h]]
      /\ owned' = {k \in Ptr!Pointers : IF k = h THEN g \in owned ELSE IF k = g THEN h \in owned ELSE k \in owned}
      /\ detached' = detached \cup {h, g} /\ opened' = opened \ {h, g} /\ UNCHANGED ptr_
  BY DEF Ptr!Swap
<1>2. h \in Readers <=> g \in Readers
  BY DEF Ptr!Swap, Ptr!SameClass, Ptr!PtrAssumption
<1>3. PtrTypeOK'
  BY <1>1 DEF PtrIInv, PtrTypeOK
<1>4. \A k \in Ptr!Pointers : lock'[k] = lock[Other(k)] /\ (k \in owned' <=> Other(k) \in owned)
  BY <1>1 DEF PtrIInv, PtrTypeOK
<1>5. \A k, l \in Ptr!Pointers : k # l => Other(k) # Other(l)
  BY <1>1
<1>6. \A k \in Ptr!Pointers : Other(k) \in Readers <=> k \in Readers
  BY <1>2
<1>7. \A k \in Ptr!Pointers : k \notin detached' => Other(k) = k
  BY <1>1
<1>8. LocksExclusive'
  BY <1>3, <1>4, <1>5, <1>6 DEF PtrIInv, PtrTypeOK, LocksExclusive
<1>9. PtrTied'
  BY <1>1, <1>4, <1>7 DEF PtrIInv, PtrTied
<1> QED BY <1>3, <1>8, <1>9 DEF PtrIInv

\* What the locked pointers hold to of "access to protected data only when a lock is
\* being actively asserted": through any constructions, moves, unlocks, locks and
\* destructions, and whatever is swapped or released elsewhere, a handle stays tied
\* to the mutex of its data, owns it unless it was unlocked itself, and shares data
\* with another owner only among readers.
THEOREM AccessAlwaysLocked ==
    ASSUME Ptr!PtrAssumption PROVE Ptr!PtrSpec => []Ptr!AccessIsLocked
<1>1. Ptr!PtrInit => PtrIInv
  BY DEF Ptr!PtrInit, PtrIInv, PtrTypeOK, LocksExclusive, PtrTied
<1>2. PtrIInv /\ [Ptr!PtrNext]_Ptr!ptrVars => PtrIInv'
  <2> SUFFICES ASSUME PtrIInv, [Ptr!PtrNext]_Ptr!ptrVars PROVE PtrIInv'
    OBVIOUS
  <2>1. CASE Ptr!PtrNext
    BY <2>1, PtrConstruct, PtrMove, PtrDestroy, PtrToggle, PtrRelease, PtrSwap DEF Ptr!PtrNext
  <2>2. CASE UNCHANGED Ptr!ptrVars
    BY <2>2 DEF Ptr!ptrVars, PtrIInv, PtrTypeOK, LocksExclusive, PtrTied
  <2> QED BY <2>1, <2>2
<1> QED BY <1>1, <1>2, PtrImplied, PTL DEF Ptr!PtrSpec

-----------------------------------------------------------------------------
(* The permits. *)

\* PermitsReturned, with the types that counting needs; the handles that hold a
\* permit are finitely many because each of them took it.
PermitIInv ==
    /\ focus \in {"lock", "counting"} /\ stranded \in BOOLEAN
    /\ free \in Nat /\ IsFiniteSet(sem_)
    /\ Permit!PermitsReturned

\* Counting means the same in either module.
LEMMA SamePermitCount == \A S : Permit!Cardinality(S) = Cardinality(S)
BY DEF Permit!Cardinality, Cardinality, Permit!IsFiniteSet, IsFiniteSet

LEMMA ReturnedMeans ==
    /\ Permit!PermitsReturned <=>
          /\ ~stranded => free + Cardinality(sem_) = Max
          /\ free + Cardinality(sem_) <= Max
          /\ focus = "counting" => ~stranded
    /\ Permit!PermitsReturned' <=>
          /\ ~stranded' => free' + Cardinality(sem_') = Max
          /\ free' + Cardinality(sem_') <= Max
          /\ focus' = "counting" => ~stranded'
BY SamePermitCount DEF Permit!PermitsReturned

\* release() gives the permit back, or leaves it taken for ever.
LEMMA ReleaseFacts ==
    ASSUME PermitIInv, NEW h, Permit!ReleaseOf(h)
    PROVE  /\ free' \in Nat /\ stranded' \in BOOLEAN /\ (stranded => stranded')
           /\ ~stranded' => free' = free + 1
           /\ free' <= free + 1
           /\ focus = "counting" => stranded' = stranded
<1>1. CASE focus = "lock" /\ at[h] \notin threads_
  BY <1>1 DEF PermitIInv, Permit!ReleaseOf
<1>2. CASE ~(focus = "lock" /\ at[h] \notin threads_)
  BY <1>2 DEF PermitIInv, Permit!ReleaseOf
<1> QED BY <1>1, <1>2

LEMMA PermitAcquire ==
    ASSUME Permit!PermitAssumption, PermitIInv, NEW h, NEW t, Permit!Acquire(h, t)
    PROVE  PermitIInv'
<1>1. IsFiniteSet(sem_') /\ Cardinality(sem_') = Cardinality(sem_) + 1 /\ Cardinality(sem_) \in Nat
  BY FS_AddElement, FS_CardinalityType DEF PermitIInv, Permit!Acquire
<1>2. free' \in Nat /\ free' = free - 1 /\ free \in Nat /\ UNCHANGED <<focus, stranded>>
  BY DEF PermitIInv, Permit!Acquire
<1>3. Permit!PermitsReturned'
  BY <1>1, <1>2, ReturnedMeans DEF PermitIInv, Permit!PermitAssumption
<1> QED BY <1>1, <1>2, <1>3 DEF PermitIInv

\* Each way to give up a permit leaves one handle less that holds one.
LEMMA PermitGivenUp ==
    ASSUME Permit!PermitAssumption, PermitIInv, NEW h, NEW g \in sem_, Permit!ReleaseOf(h),
           sem_' = sem_ \ {g}, UNCHANGED focus
    PROVE  PermitIInv'
<1>1. IsFiniteSet(sem_') /\ Cardinality(sem_') = Cardinality(sem_) - 1 /\ Cardinality(sem_) \in Nat
  BY FS_RemoveElement, FS_CardinalityType DEF PermitIInv
<1>2. /\ free' \in Nat /\ stranded' \in BOOLEAN /\ (stranded => stranded')
      /\ ~stranded' => free' = free + 1
      /\ free' <= free + 1
      /\ focus = "counting" => stranded' = stranded
  BY ReleaseFacts
<1>3. /\ ~stranded => free + Cardinality(sem_) = Max
      /\ free + Cardinality(sem_) <= Max
      /\ focus = "counting" => ~stranded
      /\ free \in Nat /\ Max \in Nat
  BY ReturnedMeans DEF PermitIInv, Permit!PermitAssumption
<1>4. free' + Cardinality(sem_') <= Max
  BY <1>1, <1>2, <1>3
<1>5. ASSUME ~stranded' PROVE free' + Cardinality(sem_') = Max
  <2>1. ~stranded /\ free' = free + 1
    BY <1>2, <1>5
  <2> QED BY <1>1, <1>3, <2>1
<1>6. focus' = "counting" => ~stranded'
  BY <1>2, <1>3
<1>7. Permit!PermitsReturned'
  BY <1>4, <1>5, <1>6, ReturnedMeans
<1> QED BY <1>1, <1>2, <1>7 DEF PermitIInv

LEMMA PermitMove ==
    ASSUME PermitIInv, NEW h, NEW g, NEW t, Permit!Move(h, g, t)
    PROVE  PermitIInv'
<1>1. sem_' = (sem_ \ {g}) \cup {h} /\ h \notin sem_ \ {g} /\ g \in sem_
  BY DEF Permit!Move, Permit!Exchange
<1>2. IsFiniteSet(sem_ \ {g}) /\ Cardinality(sem_ \ {g}) = Cardinality(sem_) - 1 /\ Cardinality(sem_) \in Nat
  BY <1>1, FS_RemoveElement, FS_CardinalityType DEF PermitIInv
<1>3. IsFiniteSet(sem_') /\ Cardinality(sem_') = Cardinality(sem_ \ {g}) + 1
  BY <1>1, <1>2, FS_AddElement
<1>4. Cardinality(sem_') = Cardinality(sem_)
  BY <1>2, <1>3
<1>5. UNCHANGED <<focus, free, stranded>>
  BY DEF Permit!Move
<1>6. Permit!PermitsReturned'
  BY <1>4, <1>5, ReturnedMeans DEF PermitIInv
<1> QED BY <1>3, <1>5, <1>6 DEF PermitIInv

\* No permit is taken yet.
LEMMA PermitStarts == ASSUME Permit!PermitAssumption PROVE Permit!PermitInit => PermitIInv
<1> SUFFICES ASSUME Permit!PermitInit PROVE PermitIInv
  OBVIOUS
<1>1. sem_ = {} /\ IsFiniteSet(sem_) /\ Cardinality(sem_) = 0
  BY FS_EmptySet DEF Permit!PermitInit
<1>2. free = Max /\ ~stranded /\ focus \in {"lock", "counting"} /\ free \in Nat
  BY DEF Permit!PermitInit, Permit!PermitAssumption
<1>3. free + Cardinality(sem_) = Max /\ free + Cardinality(sem_) <= Max
  BY <1>1, <1>2
<1>4. Permit!PermitsReturned
  BY <1>2, <1>3, ReturnedMeans
<1>5. stranded \in BOOLEAN
  BY DEF Permit!PermitInit
<1> QED BY <1>1, <1>2, <1>4, <1>5 DEF PermitIInv

\* Every step of the handles to permits keeps the invariant.
LEMMA PermitStep ==
    ASSUME Permit!PermitAssumption PROVE PermitIInv /\ [Permit!PermitNext]_Permit!permitVars => PermitIInv'
<1> SUFFICES ASSUME PermitIInv, [Permit!PermitNext]_Permit!permitVars PROVE PermitIInv'
  OBVIOUS
<1>1. ASSUME NEW h \in Handles, NEW t \in Few, Permit!Acquire(h, t) PROVE PermitIInv'
  BY <1>1, PermitAcquire
<1>2. ASSUME NEW h \in Handles, NEW g \in Handles, NEW t \in Few, Permit!Move(h, g, t) PROVE PermitIInv'
  BY <1>2, PermitMove
<1>3. ASSUME NEW h \in Handles, NEW g \in Handles, Permit!MoveOver(h, g) PROVE PermitIInv'
  <2>1. g \in sem_ /\ sem_' = sem_ \ {g} /\ Permit!ReleaseOf(h) /\ UNCHANGED focus
    BY <1>3 DEF Permit!MoveOver, Permit!Exchange
  <2> QED BY <2>1, PermitGivenUp
<1>4. ASSUME NEW h \in Handles, Permit!Destroy(h) PROVE PermitIInv'
  <2>1. h \in sem_ /\ sem_' = sem_ \ {h} /\ Permit!ReleaseOf(h) /\ UNCHANGED focus
    BY <1>4 DEF Permit!Destroy
  <2> QED BY <2>1, PermitGivenUp
<1>5. CASE UNCHANGED Permit!permitVars
  BY <1>5, ReturnedMeans DEF Permit!permitVars, PermitIInv
<1> QED BY <1>1, <1>2, <1>3, <1>4, <1>5 DEF Permit!PermitNext

\* A permit is returned exactly once, through any chain of moves of semaphore_lock and
\* sync_counting objects between threads: permits left and handles that hold one make
\* up the count, unless a semaphore_lock is released in a thread that was not admitted.
THEOREM PermitsAlwaysReturned ==
    ASSUME Permit!PermitAssumption PROVE Permit!PermitSpec => []Permit!PermitsReturned
<1>1. PermitIInv => Permit!PermitsReturned
  BY DEF PermitIInv
<1> QED BY <1>1, PermitStarts, PermitStep, PTL DEF Permit!PermitSpec

-----------------------------------------------------------------------------
(* barrier_t. *)

\* The threads that wait for the end of the round in progress.
Current == {t \in Bar!Waiting : ~Bar!RoundOver(t)}

\* No thread waits in a round that has not begun, and only a waiting thread is
\* owed its departure.
RoundsBegun ==
    /\ \A t \in Bar!Waiting : sequence[t] <= sequence_
    /\ owed \subseteq Bar!Waiting

\* Until the first timeout, release() or reset(), with as many threads as the
\* limit, a thread has gone through every round that is over, but for the one
\* it is about to leave.
InStep ==
    ~disturbed /\ Limit = Cardinality(Few) =>
        /\ limit_ = Limit /\ missing = 0
        /\ (Few # {} => barCount # 0)
        /\ \A t \in Few : IF t \in Bar!Waiting /\ Bar!RoundOver(t) THEN laps[t] + 1 = sequence_ ELSE laps[t] = sequence_

\* What Bar!ArrivalsCounted says.
ArrivalsCounted == barCount # 0 => barCount + Cardinality(Current) + missing = limit_

\* The inductive invariant.
BarrierIInv == Bar!TypeOK /\ RoundsBegun /\ ArrivalsCounted /\ Bar!OverMeansOwed /\ InStep

LEMMA SameBarCount == \A S : Bar!Cardinality(S) = Cardinality(S) /\ (Bar!IsFiniteSet(S) <=> IsFiniteSet(S))
BY DEF Bar!Cardinality, Cardinality, Bar!IsFiniteSet, IsFiniteSet

\* A round's arrivals are finitely many.
LEMMA BarCountFacts ==
    ASSUME Bar!BarrierAssumption, NEW S \in SUBSET Few
    PROVE  /\ IsFiniteSet(S) /\ Cardinality(S) \in Nat
           /\ \A t \in Few \ S : Cardinality(S \cup {t}) = Cardinality(S) + 1
           /\ \A t \in S : Cardinality(S) > 0 /\ Cardinality(S \ {t}) = Cardinality(S) - 1
<1>1. IsFiniteSet(S) /\ Cardinality(S) \in Nat
  BY FS_Subset, FS_CardinalityType, SameBarCount DEF Bar!BarrierAssumption
<1>2. ASSUME NEW t \in Few \ S PROVE Cardinality(S \cup {t}) = Cardinality(S) + 1
  BY <1>1, FS_AddElement
<1>3. ASSUME NEW t \in S PROVE Cardinality(S) > 0 /\ Cardinality(S \ {t}) = Cardinality(S) - 1
  <2>1. Cardinality(S) # 0
    BY <1>1, FS_EmptySet
  <2>2. Cardinality(S \ {t}) = Cardinality(S) - 1
    BY <1>1, FS_RemoveElement
  <2> QED BY <1>1, <2>1, <2>2
<1> QED BY <1>1, <1>2, <1>3

\* If all threads but one wait in the current round, then every other thread does.
LEMMA AllButOne ==
    ASSUME Bar!BarrierAssumption, NEW S \in SUBSET Few, NEW t \in Few, t \notin S,
           Cardinality(S) + 1 = Cardinality(Few)
    PROVE  \A u \in Few \ {t} : u \in S
<1>1. Cardinality(S \cup {t}) = Cardinality(Few)
  BY BarCountFacts
<1>2. S \cup {t} \in SUBSET Few
  OBVIOUS
<1>3. S \cup {t} = Few
  BY <1>1, <1>2, FS_Subset, SameBarCount DEF Bar!BarrierAssumption
<1> QED BY <1>3

\* A barrier that was just constructed satisfies the invariant.
LEMMA BarrierStarts == ASSUME Bar!BarrierAssumption, Bar!Init PROVE BarrierIInv
<1> USE DEF Bar!Init
<1>1. Bar!TypeOK
  BY DEF Bar!BarrierAssumption, Bar!TypeOK
<1>2. Bar!Waiting = {} /\ Current = {}
  BY DEF Bar!Waiting, Current
<1>3. RoundsBegun /\ Bar!OverMeansOwed
  BY <1>2 DEF RoundsBegun, Bar!OverMeansOwed
<1>4. ArrivalsCounted
  BY <1>2, FS_EmptySet DEF ArrivalsCounted, Current, Bar!BarrierAssumption
<1>5. InStep
  <2>1. Few # {} => Cardinality(Few) # 0
    BY FS_EmptySet, SameBarCount DEF Bar!BarrierAssumption
  <2> QED BY <1>2, <2>1 DEF InStep
<1> QED BY <1>1, <1>3, <1>4, <1>5 DEF BarrierIInv

\* A round that ends leaves everyone who waits awake and with a round behind;
\* nobody is counted in the new round yet.
LEMMA EndRoundFacts ==
    ASSUME Bar!BarrierAssumption, BarrierIInv, Bar!EndRound, sequence' = sequence
    PROVE  /\ sequence_' = sequence_ + 1 /\ owed' = Bar!Waiting /\ missing' = 0
           /\ barSt' \in [Few -> {"idle", "asleep", "test"}]
           /\ Bar!Waiting' = Bar!Waiting /\ Current' = {} /\ Cardinality(Current') = 0
           /\ \A t \in Bar!Waiting : barSt'[t] = "test" /\ (Bar!RoundOver(t))'
           /\ RoundsBegun' /\ Bar!OverMeansOwed'
<1> USE DEF BarrierIInv, Bar!TypeOK
<1>1. sequence_' = sequence_ + 1 /\ owed' = Bar!Waiting /\ missing' = 0 /\ barSt' = Bar!WakeAll(barSt)
  BY DEF Bar!EndRound, Bar!NotifyEveryone
<1>2. /\ barSt' \in [Few -> {"idle", "asleep", "test"}]
      /\ \A t \in Few : (barSt'[t] = "idle" <=> barSt[t] = "idle") /\ barSt'[t] # "asleep"
  BY <1>1 DEF Bar!WakeAll
<1>3. Bar!Waiting' = Bar!Waiting /\ \A t \in Bar!Waiting : barSt'[t] = "test"
  BY <1>2 DEF Bar!Waiting
<1>4. \A t \in Bar!Waiting : (Bar!RoundOver(t))'
  BY <1>1 DEF RoundsBegun, Bar!RoundOver, Bar!Waiting
<1>5. Current' = {} /\ Cardinality(Current') = 0
  BY <1>3, <1>4, FS_EmptySet DEF Current
<1>6. RoundsBegun'
  BY <1>1, <1>3 DEF RoundsBegun, Bar!Waiting
<1>7. Bar!OverMeansOwed'
  BY <1>1, <1>3, <1>4 DEF Bar!OverMeansOwed
<1> QED BY <1>1, <1>2, <1>3, <1>4, <1>5, <1>6, <1>7

\* The last arrival lets everyone go, and finds everyone else waiting if nobody
\* disturbed the barrier.
LEMMA ArriveLastKeeps ==
    ASSUME Bar!BarrierAssumption, BarrierIInv, NEW t \in Few, Bar!ArriveLast(t)
    PROVE  BarrierIInv'
<1> USE DEF BarrierIInv, Bar!TypeOK
<1>1. /\ barSt[t] = "idle" /\ barCount = 1 /\ Bar!EndRound /\ barCount' = limit_
      /\ laps' = [laps EXCEPT ![t] = @ + 1] /\ limit_' = limit_ /\ sequence' = sequence
      /\ disturbed' = disturbed
  BY DEF Bar!ArriveLast, Bar!IsLast, Bar!Refill
<1>2. Bar!TypeOK'
  BY <1>1, EndRoundFacts DEF Bar!Waiting
<1>3. ArrivalsCounted'
  BY <1>1, EndRoundFacts DEF ArrivalsCounted, Current
<1>4. InStep'
  <2> SUFFICES ASSUME ~disturbed, Limit = Cardinality(Few)
               PROVE  /\ limit_' = Limit /\ missing' = 0 /\ (Few # {} => barCount' # 0)
                      /\ \A u \in Few : IF u \in Bar!Waiting' /\ (Bar!RoundOver(u))'
                                            THEN laps'[u] + 1 = sequence_' ELSE laps'[u] = sequence_'
    BY <1>1 DEF InStep
  <2>1. limit_' = Limit /\ missing = 0 /\ missing' = 0
    BY <1>1, EndRoundFacts DEF InStep
  <2>2. Current \in SUBSET Few /\ t \notin Current /\ t \notin Bar!Waiting
    BY <1>1 DEF Current, Bar!Waiting
  <2>3. Cardinality(Current) + 1 = Cardinality(Few)
    BY <1>1, <2>1, <2>2, BarCountFacts DEF ArrivalsCounted, Current, Bar!BarrierAssumption
  <2>4. \A u \in Few \ {t} : u \in Current
    BY <2>2, <2>3, AllButOne
  <2>5. barCount' # 0
    BY <1>1, <2>1, <2>2, <2>3, BarCountFacts
  <2>6. laps'[t] = sequence_' /\ t \notin Bar!Waiting'
    BY <1>1, <2>2, EndRoundFacts DEF InStep
  <2>7. ASSUME NEW u \in Few \ {t}
        PROVE  u \in Bar!Waiting' /\ (Bar!RoundOver(u))' /\ laps'[u] + 1 = sequence_'
    BY <1>1, <2>4, EndRoundFacts DEF InStep, Current
  <2> QED BY <2>1, <2>5, <2>6, <2>7
<1> QED BY <1>1, <1>2, <1>3, <1>4, EndRoundFacts

\* An early arrival is counted in the round in progress and no other.
LEMMA ArriveEarlyKeeps ==
    ASSUME Bar!BarrierAssumption, BarrierIInv, NEW t \in Few, Bar!ArriveEarly(t)
    PROVE  BarrierIInv'
<1> USE DEF BarrierIInv, Bar!TypeOK
<1>1. /\ barSt[t] = "idle" /\ barCount # 0 /\ barCount # 1 /\ barCount' = barCount - 1
      /\ sequence' = [sequence EXCEPT ![t] = sequence_] /\ barSt' = [barSt EXCEPT ![t] = "asleep"]
      /\ UNCHANGED <<sequence_, limit_, disturbed, owed, missing, laps>>
  BY DEF Bar!ArriveEarly, Bar!IsLast
<1>2. Bar!TypeOK'
  BY <1>1
<1>3. Bar!Waiting' = Bar!Waiting \cup {t} /\ t \notin Bar!Waiting
  BY <1>1 DEF Bar!Waiting
<1>4. (~Bar!RoundOver(t))' /\ \A u \in Few \ {t} : (Bar!RoundOver(u))' <=> Bar!RoundOver(u)
  BY <1>1 DEF Bar!RoundOver
<1>5. Current' = Current \cup {t} /\ t \notin Current /\ Current \in SUBSET Few
  BY <1>1, <1>3, <1>4 DEF Current, Bar!Waiting
<1>6. ArrivalsCounted'
  <2>1. Cardinality(Current') = Cardinality(Current) + 1 /\ Cardinality(Current) \in Nat
    BY <1>5, BarCountFacts
  <2>2. barCount + Cardinality(Current) + missing = limit_
    BY <1>1 DEF ArrivalsCounted, Current
  <2>3. barCount' + Cardinality(Current') + missing' = limit_'
    BY <1>1, <2>1, <2>2
  <2> QED BY <2>3 DEF ArrivalsCounted, Current
<1>7. RoundsBegun'
  BY <1>1, <1>3 DEF RoundsBegun, Bar!Waiting
<1>8. Bar!OverMeansOwed'
  BY <1>1, <1>3, <1>4 DEF Bar!OverMeansOwed, RoundsBegun, Bar!Waiting
<1>9. InStep'
  BY <1>1, <1>3, <1>4 DEF InStep, Bar!Waiting
<1> QED BY <1>2, <1>6, <1>7, <1>8, <1>9

\* A thread whose round is over leaves, and is owed nothing any more.
LEMMA DepartKeeps ==
    ASSUME Bar!BarrierAssumption, BarrierIInv, NEW t \in Few, Bar!Depart(t)
    PROVE  BarrierIInv'
<1> USE DEF BarrierIInv, Bar!TypeOK
<1>1. /\ t \in Bar!Waiting /\ Bar!RoundOver(t) /\ barSt' = [barSt EXCEPT ![t] = "idle"] /\ owed' = owed \ {t}
      /\ laps' = [laps EXCEPT ![t] = @ + 1]
      /\ UNCHANGED <<barCount, sequence_, limit_, sequence, disturbed, missing>>
  BY DEF Bar!Depart, Bar!Waiting
<1>2. Bar!TypeOK'
  BY <1>1
<1>3. Bar!Waiting' = Bar!Waiting \ {t} /\ \A u \in Few : (Bar!RoundOver(u))' <=> Bar!RoundOver(u)
  BY <1>1 DEF Bar!Waiting, Bar!RoundOver
<1>4. Current' = Current
  BY <1>1, <1>3 DEF Current, Bar!Waiting
<1>5. ArrivalsCounted'
  BY <1>1, <1>4 DEF ArrivalsCounted, Current
<1>6. RoundsBegun' /\ Bar!OverMeansOwed'
  BY <1>1, <1>3 DEF RoundsBegun, Bar!OverMeansOwed, Bar!Waiting
<1>7. InStep'
  BY <1>1, <1>3 DEF InStep, Bar!Waiting
<1> QED BY <1>2, <1>5, <1>6, <1>7

\* A wakeup changes nothing but whether the thread sleeps, and only a thread
\* whose round is not over goes back to sleep.
LEMMA BarWakeupKeeps ==
    ASSUME Bar!BarrierAssumption, BarrierIInv, NEW t \in Few, Bar!SleepAgain(t) \/ Bar!Spurious(t)
    PROVE  BarrierIInv'
<1> USE DEF BarrierIInv, Bar!TypeOK
<1>1. /\ barSt[t] # "idle"
      /\ barSt' = [barSt EXCEPT ![t] = "test"] \/ (barSt' = [barSt EXCEPT ![t] = "asleep"] /\ ~Bar!RoundOver(t))
      /\ UNCHANGED <<barCount, sequence_, limit_, sequence, disturbed, owed, missing, laps>>
  BY DEF Bar!SleepAgain, Bar!Spurious, Bar!Awake
<1>2. Bar!TypeOK'
  BY <1>1
<1>3. Bar!Waiting' = Bar!Waiting /\ \A u \in Few : (Bar!RoundOver(u))' <=> Bar!RoundOver(u)
  BY <1>1 DEF Bar!Waiting, Bar!RoundOver
<1>4. ArrivalsCounted'
  BY <1>1, <1>3 DEF ArrivalsCounted, Current, Bar!Waiting
<1>5. RoundsBegun' /\ Bar!OverMeansOwed'
  BY <1>1, <1>3 DEF RoundsBegun, Bar!OverMeansOwed, Bar!Waiting
<1>6. InStep'
  BY <1>1, <1>3 DEF InStep
<1> QED BY <1>2, <1>4, <1>5, <1>6

\* A timed wait that gives up stays counted as an arrival of its round.
LEMMA GiveUpKeeps ==
    ASSUME Bar!BarrierAssumption, BarrierIInv, NEW t \in Few, Bar!TimeOut(t)
    PROVE  BarrierIInv'
<1> USE DEF BarrierIInv, Bar!TypeOK
<1>1. /\ t \in Bar!Waiting /\ ~Bar!RoundOver(t) /\ barSt' = [barSt EXCEPT ![t] = "idle"]
      /\ missing' = missing + 1 /\ disturbed' = TRUE
      /\ UNCHANGED <<barCount, sequence_, limit_, sequence, owed, laps>>
  BY DEF Bar!TimeOut, Bar!Waiting
<1>2. Bar!TypeOK'
  BY <1>1
<1>3. Bar!Waiting' = Bar!Waiting \ {t} /\ \A u \in Few : (Bar!RoundOver(u))' <=> Bar!RoundOver(u)
  BY <1>1 DEF Bar!Waiting, Bar!RoundOver
<1>4. Current' = Current \ {t} /\ t \in Current /\ Current \in SUBSET Few
  BY <1>1, <1>3 DEF Current, Bar!Waiting
<1>5. ArrivalsCounted'
  <2>1. Cardinality(Current') = Cardinality(Current) - 1 /\ Cardinality(Current) \in Nat
    BY <1>4, BarCountFacts
  <2>2. barCount # 0 => barCount + Cardinality(Current) + missing = limit_
    BY DEF ArrivalsCounted, Current
  <2>3. barCount' # 0 => barCount' + Cardinality(Current') + missing' = limit_'
    BY <1>1, <2>1, <2>2
  <2> QED BY <2>3 DEF ArrivalsCounted, Current
<1>6. RoundsBegun' /\ Bar!OverMeansOwed'
  BY <1>1, <1>3 DEF RoundsBegun, Bar!OverMeansOwed, Bar!Waiting
<1>7. InStep'
  BY <1>1 DEF InStep
<1> QED BY <1>2, <1>5, <1>6, <1>7

\* release() and reset() end the round for everyone who waits.
LEMMA BarControlKeeps ==
    ASSUME Bar!BarrierAssumption, BarrierIInv, NEW t \in Few,
           Bar!Release(t) \/ \E limit \in Limits : Bar!Reset(t, limit)
    PROVE  BarrierIInv'
<1> USE DEF BarrierIInv, Bar!TypeOK
<1>1. /\ Bar!EndRound /\ sequence' = sequence /\ laps' = laps /\ disturbed' = TRUE
      /\ barCount' \in Nat /\ limit_' \in Nat /\ (barCount' = 0 \/ barCount' = limit_')
  BY DEF Bar!Release, Bar!Reset, Bar!BarrierAssumption
<1>2. Bar!TypeOK'
  BY <1>1, EndRoundFacts DEF Bar!Waiting
<1>3. ArrivalsCounted'
  BY <1>1, EndRoundFacts DEF ArrivalsCounted, Current
<1>4. InStep'
  BY <1>1 DEF InStep
<1> QED BY <1>1, <1>2, <1>3, <1>4, EndRoundFacts

\* Every critical section of barrier_t keeps the invariant.
LEMMA BarrierStep == ASSUME Bar!BarrierAssumption, BarrierIInv, [Bar!Next]_(Bar!vars) PROVE BarrierIInv'
<1>1. CASE UNCHANGED Bar!vars
  BY <1>1 DEF Bar!vars, BarrierIInv, Bar!TypeOK, RoundsBegun, ArrivalsCounted, Current, Bar!OverMeansOwed, InStep,
              Bar!Waiting, Bar!RoundOver
<1>2. CASE Bar!Next
  BY <1>2, ArriveLastKeeps, ArriveEarlyKeeps, DepartKeeps, BarWakeupKeeps, GiveUpKeeps, BarControlKeeps
  DEF Bar!Next, Bar!Arrive
<1> QED BY <1>1, <1>2

\* Threads in step with sequence_ are within a round of each other.
LEMMA BarrierImplied == ASSUME BarrierIInv PROVE Bar!BarrierInv
<1>1. Bar!Lockstep
  BY SameBarCount DEF BarrierIInv, Bar!TypeOK, InStep, Bar!Lockstep
<1>2. Bar!ArrivalsCounted
  BY SameBarCount DEF BarrierIInv, ArrivalsCounted, Bar!ArrivalsCounted, Current
<1> QED BY <1>1, <1>2 DEF BarrierIInv, Bar!BarrierInv

\* For any number of threads and any limits: barrier_t counts every arrival in
\* its own round, wakes whoever waits for a round that is over, however slow the
\* thread and however many rounds, releases and resets pass it by, and keeps
\* undisturbed threads within one round of each other.
THEOREM BarrierCorrect == ASSUME Bar!BarrierAssumption PROVE Bar!Spec => []Bar!BarrierInv
<1>1. Bar!Spec => []BarrierIInv
  BY BarrierStarts, BarrierStep, PTL DEF Bar!Spec
<1> QED BY <1>1, BarrierImplied, PTL

-----------------------------------------------------------------------------
(* All of them side by side. *)

\* A step of one object leaves the others as they are: whatever is in focus, each of
\* them sees a step of its own or none.
LEMMA StepOfEach ==
    ASSUME [Next]_allVars
    PROVE  /\ [Sem!Next]_(Sem!vars) /\ [Bar!Next]_(Bar!vars) /\ [Event!Next]_(Event!vars)
           /\ [Group!Next]_(Group!vars) /\ [Ptr!PtrNext]_(Ptr!ptrVars)
           /\ [Permit!PermitNext]_(Permit!permitVars)
<1> USE DEF Sem!vars, Bar!vars, Event!vars, Group!vars, Ptr!ptrVars, Permit!permitVars,
            semV, barV, eventV, groupV, ptrV, permitV
<1>1. CASE UNCHANGED allVars
  BY <1>1 DEF allVars
<1>2. CASE Next
  BY <1>2 DEF Next
<1> QED BY <1>1, <1>2

\* The composition is each of the objects, with the others for an environment.
LEMMA Composed ==
    Spec => Sem!Spec /\ Bar!Spec /\ Event!Spec /\ Group!Spec /\ Ptr!PtrSpec
<1>1. Init => Sem!Init /\ Bar!Init /\ Event!Init /\ Group!Init /\ Ptr!PtrInit
  BY DEF Init
<1> QED BY <1>1, StepOfEach, PTL DEF Spec, Sem!Spec, Bar!Spec, Event!Spec, Group!Spec, Ptr!PtrSpec

\* A signal of event_sync is never slept through, and with auto_reset_ at most one wait
\* returns per call of notify(), for any number of waiters, timed or not.
THEOREM EventTheorem == Spec => []EventInv
BY Composed, EventCorrect, PTL DEF EventInv

\* BarrierCorrect, of the barrier among the other objects: arrivals are counted in their
\* round, a thread whose round is over is owed a wakeup and nobody else is, and
\* undisturbed threads stay within one round of each other.
THEOREM BarrierTheorem == Spec => []BarrierInv
<1>1. Bar!BarrierAssumption
  BY SyncAssumption
<1> QED BY <1>1, Composed, BarrierCorrect, PTL DEF BarrierInv

\* Through any chain of moves, assignments and destructions of sync_group objects work
\* is settled exactly once, and settling the last unit leaves no waiter asleep.
THEOREM GroupTheorem == Spec => []GroupInv
<1>1. Group!GroupAssumption
  BY SyncAssumption
<1> QED BY <1>1, Composed, GroupCorrect, PTL DEF GroupInv

\* A locked pointer stays tied to the mutex of its data until it is released or
\* swapped, owns it until it is unlocked and shares data with another owner among
\* readers only; and a permit taken through
\* semaphore_lock or sync_counting comes back exactly once through any chain of moves,
\* unless a semaphore_lock is released by a thread that was not admitted.
THEOREM HandlesKept == Spec => []HandlesInv
<1>1. Ptr!PtrAssumption /\ Permit!PermitAssumption
  BY SyncAssumption
<1>2. Spec => []Ptr!AccessIsLocked
  BY <1>1, Composed, AccessAlwaysLocked, PTL
<1> DEFINE Held == focus \in PermitKinds => PermitIInv
<1>3. Init => Held
  BY <1>1, PermitStarts DEF Init
<1>4. Held /\ [Next]_allVars => Held'
  <2> SUFFICES ASSUME Held, [Next]_allVars, focus' \in PermitKinds PROVE PermitIInv'
    OBVIOUS
  <2>1. focus' = focus
    BY StepOfEach DEF Next, allVars, Permit!permitVars, Permit!PermitNext, Permit!Acquire, Permit!Move,
                      Permit!MoveOver, Permit!Destroy
  <2> QED BY <1>1, <2>1, StepOfEach, PermitStep
<1>5. Held => (focus \in PermitKinds => Permit!PermitsReturned)
  BY DEF PermitIInv
<1>6. Spec => [](focus \in PermitKinds => Permit!PermitsReturned)
  BY <1>3, <1>4, <1>5, PTL DEF Spec
<1> QED BY <1>2, <1>6, PTL DEF HandlesInv

-----------------------------------------------------------------------------
(* The semaphore.  Its proofs are in a module of their own, about an instance of the *)
(* same module with the same parameters: every definition of the one means what it   *)
(* means in the other.                                                               *)

SemP == INSTANCE SemaphoreProofs WITH count_ <- semCount, threads_ <- semThreads, st <- semSt

LEMMA SameSemaphore ==
    /\ Sem!SemaphoreAssumption => SemP!SemaphoreAssumption
    /\ Sem!Init => SemP!Init
    /\ SemP!SemaphoreInv => Sem!SemaphoreInv
<1>1. Sem!SemaphoreAssumption => SemP!SemaphoreAssumption
  BY DEF Sem!SemaphoreAssumption, SemP!SemaphoreAssumption, Sem!IsFiniteSet, SemP!IsFiniteSet,
         Sem!Cardinality, SemP!Cardinality
<1>2. Sem!Init => SemP!Init
  BY DEF Sem!Init, SemP!Init
<1>3. SemP!SemaphoreInv => Sem!SemaphoreInv
  BY DEF Sem!SemaphoreInv, SemP!SemaphoreInv, Sem!TypeOK, SemP!TypeOK, Sem!Calls, SemP!Calls,
         Sem!Accounting, SemP!Accounting, Sem!CancelSeen, SemP!CancelSeen, Sem!Acquiring, SemP!Acquiring,
         Sem!Cardinality, SemP!Cardinality, Sem!IsFiniteSet, SemP!IsFiniteSet
<1> QED BY <1>1, <1>2, <1>3

LEMMA SameSemaphoreStep == [Sem!Next]_(Sem!vars) => [SemP!Next]_(SemP!vars)
BY DEF Sem!Next, SemP!Next, Sem!vars, SemP!vars, Sem!Call, SemP!Call, Sem!Acquire, SemP!Acquire,
       Sem!Room, SemP!Room, Sem!Admit, SemP!Admit, Sem!Acquiring, SemP!Acquiring,
       Sem!AcquireTest, SemP!AcquireTest, Sem!Leave, SemP!Leave, Sem!TimeOut, SemP!TimeOut,
       Sem!ReleaseOne, SemP!ReleaseOne, Sem!Release, SemP!Release, Sem!Resize, SemP!Resize,
       Sem!NotifyEveryone, SemP!NotifyEveryone, Sem!Wait, SemP!Wait, Sem!WaitTest, SemP!WaitTest,
       Sem!Spurious, SemP!Spurious, Sem!Awake, SemP!Awake, Sem!Asleep, SemP!Asleep,
       Sem!WakeOne, SemP!WakeOne, Sem!WakeAll, SemP!WakeAll

\* active_ of a semaphore_t counts every admitted and every waiting thread exactly once,
\* and once it is cancelled no thread sleeps in acquire(), through any timeouts, resizes
\* and cancellations.
THEOREM SemaphoreTheorem == Spec => []SemaphoreInv
<1>1. SemP!SemaphoreAssumption
  BY SyncAssumption, SameSemaphore
<1>2. SemP!Spec => []SemP!SemaphoreInv
  BY <1>1, SemP!ActiveIsExact
<1>3. Sem!Spec => SemP!Spec
  BY SameSemaphore, SameSemaphoreStep, PTL DEF Sem!Spec, SemP!Spec
<1> QED BY <1>2, <1>3, SameSemaphore, Composed, PTL DEF SemaphoreInv
=============================================================================
