--------------------------- MODULE SemaphoreProofs ---------------------------
(***************************************************************************)
(* Proofs about semaphore_t (Semaphore.tla): active_ is exact and a        *)
(* cancelled semaphore has no sleepers, whatever the threads and counts.   *)
(***************************************************************************)
EXTENDS Semaphore, FiniteSetTheorems, TLAPS

\* The threads that active_ counts beside the admitted ones.
Acquirers == {t \in Threads : Acquiring(t)}

\* active_ goes up with a thread that begins to wait, or comes to be admitted.
LEMMA CountOneMore ==
    ASSUME SemaphoreAssumption, NEW S \in SUBSET Threads, NEW t \in Threads, t \notin S
    PROVE  /\ IsFiniteSet(S) /\ Cardinality(S) \in Nat /\ IsFiniteSet(S \cup {t})
           /\ Cardinality(S \cup {t}) = Cardinality(S) + 1
           /\ Cardinality(S) < Cardinality(Threads)
<1>1. IsFiniteSet(S) /\ IsFiniteSet(S \cup {t}) /\ S \cup {t} \in SUBSET Threads
  BY FS_Subset, FS_AddElement DEF SemaphoreAssumption
<1>2. Cardinality(S \cup {t}) = Cardinality(S) + 1 /\ Cardinality(S) \in Nat
  BY <1>1, FS_AddElement, FS_CardinalityType
<1>3. Cardinality(S \cup {t}) <= Cardinality(Threads) /\ Cardinality(Threads) \in Nat
  BY <1>1, FS_Subset, FS_CardinalityType DEF SemaphoreAssumption
<1> QED BY <1>1, <1>2, <1>3

\* ... and down with one that gives up or releases.
LEMMA CountOneLess ==
    ASSUME SemaphoreAssumption, NEW S \in SUBSET Threads, NEW t \in S
    PROVE  /\ Cardinality(S) \in Nat /\ Cardinality(S) > 0
           /\ Cardinality(S \ {t}) = Cardinality(S) - 1
<1>1. IsFiniteSet(S) /\ Cardinality(S) \in Nat
  BY FS_Subset, FS_CardinalityType DEF SemaphoreAssumption
<1>2. Cardinality(S) # 0
  BY <1>1, FS_EmptySet
<1>3. Cardinality(S \ {t}) = Cardinality(S) - 1
  BY <1>1, FS_RemoveElement
<1> QED BY <1>1, <1>2, <1>3

\* The sets that active_ counts are finite, and never larger than ~0U allows.
LEMMA CountBounds ==
    ASSUME SemaphoreAssumption, NEW S \in SUBSET Threads
    PROVE  /\ IsFiniteSet(S) /\ Cardinality(S) \in Nat /\ Cardinality(Threads) \in Nat
           /\ Cardinality(S) <= Cardinality(Threads)
BY FS_Subset, FS_CardinalityType DEF SemaphoreAssumption

\* What a notification does to the waiting threads: it wakes some of them, and
\* changes neither who waits nor, for notify_all(), leaves anyone asleep.
LEMMA NotifyKeepsWaiters ==
    ASSUME NEW f \in [Threads -> {"idle", "asleep", "test"}],
           NEW g, g \in WakeOne(f) \/ g = WakeAll(f)
    PROVE  /\ g \in [Threads -> {"idle", "asleep", "test"}]
           /\ \A t \in Threads : (g[t] = "idle" <=> f[t] = "idle") /\ (g[t] = "asleep" => f[t] = "asleep")
BY DEF WakeOne, WakeAll, Asleep, Awake

\* A semaphore that was just constructed satisfies the invariant.
LEMMA InvInit == ASSUME SemaphoreAssumption, Init PROVE SemaphoreInv
<1>1. TypeOK
  <2>1. Cancelled \in Nat /\ 1 <= Cancelled
    BY CountBounds DEF SemaphoreAssumption
  <2> QED BY <2>1 DEF SemaphoreAssumption, Init, TypeOK, Calls
<1>2. threads_ = {} /\ Acquirers = {} /\ active_ = 0
  BY DEF Init, Acquiring, Acquirers
<1> QED BY <1>1, <1>2, FS_EmptySet DEF SemaphoreInv, Accounting, CancelSeen, Acquirers, Init, Acquiring

\* The invariant, in the terms the steps are argued in.
LEMMA InvFacts ==
    ASSUME SemaphoreAssumption, SemaphoreInv
    PROVE  /\ threads_ \in SUBSET Threads /\ Acquirers \in SUBSET Threads
           /\ Cardinality(threads_) \in Nat /\ Cardinality(Acquirers) \in Nat
           /\ active_ = Cardinality(threads_) + Cardinality(Acquirers)
           /\ active_ < Cancelled /\ Cancelled \in Nat
           /\ threads_ \cap Acquirers = {}
<1>1. threads_ \in SUBSET Threads /\ Acquirers \in SUBSET Threads
  BY DEF SemaphoreInv, TypeOK, Acquirers
<1>2. /\ Cardinality(threads_) \in Nat /\ Cardinality(Acquirers) \in Nat
      /\ Cardinality(Threads) \in Nat
      /\ Cardinality(threads_) <= Cardinality(Threads) /\ Cardinality(Acquirers) <= Cardinality(Threads)
  BY <1>1, CountBounds
<1>3. active_ = Cardinality(threads_) + Cardinality(Acquirers) /\ threads_ \cap Acquirers = {}
  BY DEF SemaphoreInv, Accounting, Acquirers
<1> QED BY <1>1, <1>2, <1>3 DEF SemaphoreAssumption

\* What is left to show of a step once it is known whom active_ counts after it.
LEMMA AccountingAfter ==
    ASSUME threads_' \cap Acquirers' = {}, threads_' \in SUBSET Threads,
           active_' = Cardinality(threads_') + Cardinality(Acquirers')
    PROVE  Accounting'
BY DEF Accounting, Acquirers

\* acquire() and its other forms keep active_ exact whether they are admitted,
\* wait, or find the semaphore cancelled, and never go to sleep in the last case.
LEMMA AcquireKeeps ==
    ASSUME SemaphoreAssumption, SemaphoreInv, NEW t \in Threads, NEW how \in {"acquire", "timed"},
           Acquire(t, how)
    PROVE  SemaphoreInv'
<1> USE DEF SemaphoreInv, TypeOK
<1>1. st[t] = "idle" /\ t \notin threads_ /\ t \notin Acquirers /\ count_' = count_
  BY DEF Acquire, Acquirers, Acquiring
<1>2. call' = [call EXCEPT ![t] = how] /\ call' \in [Threads -> Calls]
  BY DEF Acquire, Calls
<1>3. CASE Room(active_ + 1)
  <2>1. Admit(t, active_ + 1) /\ st' = st
    BY <1>3 DEF Acquire
  <2>2. Acquirers' = Acquirers
    BY <1>1, <1>2, <2>1 DEF Acquirers, Acquiring
  <2>3. CancelSeen'
    BY <1>1, <1>2, <2>1 DEF CancelSeen, Acquiring
  <2>4. CASE count_ = Cancelled
    <3>1. active_' = active_ /\ threads_' = threads_
      BY <2>1, <2>4, InvFacts DEF Admit
    <3> QED BY <1>1, <1>2, <2>1, <2>2, <2>3, <3>1, InvFacts, AccountingAfter
  <2>5. CASE count_ # Cancelled
    <3>1. active_' = active_ + 1 /\ threads_' = threads_ \cup {t}
      BY <2>1, <2>5 DEF Admit
    <3>2. Cardinality(threads_') = Cardinality(threads_) + 1
      BY <3>1, <1>1, InvFacts, CountOneMore
    <3>3. Accounting'
      BY <1>1, <2>2, <3>1, <3>2, InvFacts, AccountingAfter
    <3> QED BY <1>1, <1>2, <2>1, <2>3, <3>1, <3>3
  <2> QED BY <2>4, <2>5
<1>4. CASE ~Room(active_ + 1)
  <2>1. active_' = active_ + 1 /\ threads_' = threads_ /\ st' = [st EXCEPT ![t] = "asleep"]
    BY <1>4 DEF Acquire
  <2>2. Acquirers' = Acquirers \cup {t}
    BY <1>1, <1>2, <2>1 DEF Acquirers, Acquiring
  <2>3. Cardinality(Acquirers') = Cardinality(Acquirers) + 1
    BY <2>2, <1>1, InvFacts, CountOneMore
  <2>4. Accounting'
    BY <1>1, <2>1, <2>2, <2>3, InvFacts, AccountingAfter
  <2>5. count_ # Cancelled
    BY <1>4, InvFacts DEF Room
  <2> QED BY <1>1, <1>2, <2>1, <2>4, <2>5 DEF CancelSeen
<1> QED BY <1>3, <1>4

\* A woken waiter is counted once before and after its test, unless the
\* semaphore is cancelled: then it leaves, and is not admitted.
LEMMA AcquireTestKeeps ==
    ASSUME SemaphoreAssumption, SemaphoreInv, NEW t \in Threads, AcquireTest(t)
    PROVE  SemaphoreInv'
<1> USE DEF SemaphoreInv, TypeOK
<1>1. st[t] = "test" /\ call[t] # "wait" /\ t \in Acquirers /\ count_' = count_ /\ call' = call
  BY DEF AcquireTest, Acquirers, Acquiring
<1>2. Cardinality(Acquirers) > 0 /\ Cardinality(Acquirers \ {t}) = Cardinality(Acquirers) - 1
  BY <1>1, InvFacts, CountOneLess
<1>3. CASE Room(active_)
  <2>1. Admit(t, active_) /\ st' = [st EXCEPT ![t] = "idle"]
    BY <1>3 DEF AcquireTest
  <2>2. Acquirers' = Acquirers \ {t}
    BY <1>1, <2>1 DEF Acquirers, Acquiring
  <2>3. CancelSeen'
    BY <1>1, <2>1 DEF CancelSeen, Acquiring
  <2>4. CASE count_ = Cancelled
    <3>1. active_' = active_ - 1 /\ threads_' = threads_
      BY <2>1, <2>4 DEF Admit
    <3>2. Accounting'
      BY <1>2, <2>2, <3>1, InvFacts, AccountingAfter
    <3> QED BY <1>1, <1>2, <2>1, <2>3, <3>1, <3>2, InvFacts
  <2>5. CASE count_ # Cancelled
    <3>1. active_' = active_ /\ threads_' = threads_ \cup {t}
      BY <2>1, <2>5 DEF Admit
    <3>2. Cardinality(threads_') = Cardinality(threads_) + 1
      BY <1>1, <3>1, InvFacts, CountOneMore
    <3>3. Accounting'
      BY <1>1, <1>2, <2>2, <3>1, <3>2, InvFacts, AccountingAfter
    <3> QED BY <1>1, <2>1, <2>3, <3>1, <3>3
  <2> QED BY <2>4, <2>5
<1>4. CASE ~Room(active_)
  <2>1. st' = [st EXCEPT ![t] = "asleep"] /\ active_' = active_ /\ threads_' = threads_
    BY <1>4 DEF AcquireTest
  <2>2. Acquirers' = Acquirers
    BY <1>1, <2>1 DEF Acquirers, Acquiring
  <2>3. count_ # Cancelled
    BY <1>4, InvFacts DEF Room
  <2> QED BY <1>1, <2>1, <2>2, <2>3, InvFacts, AccountingAfter DEF CancelSeen
<1> QED BY <1>3, <1>4

\* A timed waiter that gives up takes its unit of active_ with it.
LEMMA TimeOutKeeps ==
    ASSUME SemaphoreAssumption, SemaphoreInv, NEW t \in Threads, TimeOut(t)
    PROVE  SemaphoreInv'
<1> USE DEF SemaphoreInv, TypeOK
<1>1. /\ t \in Acquirers /\ active_' = active_ - 1 /\ st' = [st EXCEPT ![t] = "idle"]
      /\ count_' = count_ /\ threads_' = threads_ /\ call' = call
  BY DEF TimeOut, Acquirers, Acquiring, Leave
<1>2. Cardinality(Acquirers) > 0 /\ Cardinality(Acquirers \ {t}) = Cardinality(Acquirers) - 1
  BY <1>1, InvFacts, CountOneLess
<1>3. Acquirers' = Acquirers \ {t}
  BY <1>1 DEF Acquirers, Acquiring
<1>4. active_' \in Nat /\ active_' = Cardinality(threads_') + Cardinality(Acquirers')
  BY <1>1, <1>2, <1>3, InvFacts
<1>5. Accounting'
  BY <1>1, <1>3, <1>4, InvFacts, AccountingAfter
<1> QED BY <1>1, <1>4, <1>5 DEF CancelSeen, Acquiring

\* An admitted thread gives its unit back, and wakes a waiter.
LEMMA ReleaseKeeps ==
    ASSUME SemaphoreAssumption, SemaphoreInv, NEW t \in Threads, Release(t)
    PROVE  SemaphoreInv'
<1> USE DEF SemaphoreInv, TypeOK
<1>1. t \in threads_ /\ threads_' = threads_ \ {t} /\ count_' = count_ /\ call' = call
  BY DEF Release
<1>2. Cardinality(threads_) > 0 /\ Cardinality(threads_ \ {t}) = Cardinality(threads_) - 1
  BY <1>1, InvFacts, CountOneLess
<1>3. active_' = active_ - 1 /\ st' \in WakeOne(st) /\ active_' \in Nat
  BY <1>2, InvFacts DEF Release, ReleaseOne
<1>4. /\ st' \in [Threads -> {"idle", "asleep", "test"}]
      /\ \A u \in Threads : (st'[u] = "idle" <=> st[u] = "idle") /\ (st'[u] = "asleep" => st[u] = "asleep")
  BY <1>3, NotifyKeepsWaiters
<1>5. Acquirers' = Acquirers
  BY <1>1, <1>4 DEF Acquirers, Acquiring
<1>6. Accounting'
  BY <1>1, <1>2, <1>3, <1>5, InvFacts, AccountingAfter
<1>7. CancelSeen'
  BY <1>1, <1>4 DEF CancelSeen, Acquiring
<1> QED BY <1>1, <1>3, <1>4, <1>6, <1>7

\* resize() and reset() change nobody's place, and leave nobody asleep.
LEMMA ResizeKeeps ==
    ASSUME SemaphoreAssumption, SemaphoreInv, NEW t \in Threads, NEW n \in Sizes, Resize(t, n)
    PROVE  SemaphoreInv'
<1> USE DEF SemaphoreInv, TypeOK
<1>1. /\ count_' = n /\ st' = WakeAll(st) /\ n \in 0..Cancelled
      /\ active_' = active_ /\ threads_' = threads_ /\ call' = call
  BY DEF Resize, NotifyEveryone, SemaphoreAssumption
<1>2. /\ st' \in [Threads -> {"idle", "asleep", "test"}]
      /\ \A u \in Threads : (st'[u] = "idle" <=> st[u] = "idle") /\ st'[u] # "asleep"
  BY <1>1 DEF WakeAll
<1>3. Acquirers' = Acquirers
  BY <1>1, <1>2 DEF Acquirers, Acquiring
<1> QED BY <1>1, <1>2, <1>3, InvFacts, AccountingAfter DEF CancelSeen

\* wait() cancels: it wakes every waiter, and is not itself counted by active_.
LEMMA WaitKeeps ==
    ASSUME SemaphoreAssumption, SemaphoreInv, NEW t \in Threads, Wait(t)
    PROVE  SemaphoreInv'
<1> USE DEF SemaphoreInv, TypeOK
<1>1. /\ st[t] = "idle" /\ count_' = Cancelled /\ call' = [call EXCEPT ![t] = "wait"]
      /\ active_' = active_ /\ threads_' = threads_
      /\ st' = IF active_ = 0 THEN st ELSE [WakeAll(st) EXCEPT ![t] = "asleep"]
  BY DEF Wait
<1>2. count_' \in 0..Cancelled /\ call' \in [Threads -> Calls]
  BY <1>1, InvFacts DEF Calls
<1>3. CASE active_ = 0
  <2>1. Acquirers' = Acquirers /\ Acquirers = {}
    <3>1. Cardinality(Acquirers) = 0 /\ IsFiniteSet(Acquirers)
      BY <1>3, InvFacts, CountBounds
    <3>2. Acquirers = {}
      BY <3>1, FS_EmptySet
    <3> QED BY <1>1, <1>3, <3>2 DEF Acquirers, Acquiring
  <2>2. CancelSeen'
    BY <2>1 DEF CancelSeen, Acquirers
  <2> QED BY <1>1, <1>2, <1>3, <2>1, <2>2, InvFacts, AccountingAfter
<1>4. CASE active_ # 0
  <2>1. /\ st' \in [Threads -> {"idle", "asleep", "test"}] /\ st'[t] = "asleep"
        /\ \A u \in Threads \ {t} : (st'[u] = "idle" <=> st[u] = "idle") /\ st'[u] # "asleep"
    BY <1>1, <1>4 DEF WakeAll
  <2>2. Acquirers' = Acquirers
    BY <1>1, <2>1 DEF Acquirers, Acquiring
  <2>3. CancelSeen'
    BY <1>1, <2>1 DEF CancelSeen, Acquiring
  <2> QED BY <1>1, <1>2, <2>1, <2>2, <2>3, InvFacts, AccountingAfter
<1> QED BY <1>3, <1>4

\* A thread in wait() tests its predicate, or any sleeper wakes for no reason.
LEMMA WakeupKeeps ==
    ASSUME SemaphoreAssumption, SemaphoreInv, NEW t \in Threads, WaitTest(t) \/ Spurious(t)
    PROVE  SemaphoreInv'
<1> USE DEF SemaphoreInv, TypeOK
<1>1. /\ count_' = count_ /\ active_' = active_ /\ threads_' = threads_ /\ call' = call
      /\ \E s \in {"idle", "asleep", "test"} :
            st' = [st EXCEPT ![t] = s] /\ (call[t] = "wait" \/ (st[t] # "idle" /\ s = "test"))
  <2>1. CASE WaitTest(t)
    <3>1. st' = [st EXCEPT ![t] = "idle"] \/ st' = [st EXCEPT ![t] = "asleep"]
      BY <2>1 DEF WaitTest
    <3> QED BY <2>1, <3>1 DEF WaitTest
  <2>2. CASE Spurious(t)
    BY <2>2 DEF Spurious, Awake
  <2> QED BY <2>1, <2>2
<1>2. Acquirers' = Acquirers
  BY <1>1 DEF Acquirers, Acquiring
<1>3. CancelSeen'
  BY <1>1 DEF CancelSeen, Acquiring
<1> QED BY <1>1, <1>2, <1>3, InvFacts, AccountingAfter

\* Every critical section of semaphore_t keeps the invariant.
LEMMA InvStep == ASSUME SemaphoreAssumption, SemaphoreInv, [Next]_vars PROVE SemaphoreInv'
<1>1. CASE UNCHANGED vars
  BY <1>1 DEF vars, SemaphoreInv, TypeOK, Accounting, CancelSeen, Acquiring
<1>2. CASE Next
  BY <1>2, AcquireKeeps, AcquireTestKeeps, TimeOutKeeps, ReleaseKeeps, ResizeKeeps, WaitKeeps, WakeupKeeps
  DEF Next, Call
<1> QED BY <1>1, <1>2

\* However many threads, admissions, timeouts, resizes and cancellations: active_
\* counts every admitted and every waiting thread of semaphore_t exactly once, and
\* once it is cancelled no thread sleeps in acquire().
THEOREM ActiveIsExact == ASSUME SemaphoreAssumption PROVE Spec => []SemaphoreInv
BY InvInit, InvStep, PTL DEF Spec

\* Admissions never exceed the count in force, even right after resize() lowered it
\* below the number of threads admitted before.
THEOREM AdmissionBounded == ASSUME SemaphoreAssumption PROVE Spec => AdmissionBound
<1>1. ASSUME SemaphoreInv, SemaphoreInv', [Next]_vars
      PROVE  [threads_' \ threads_ # {} => Cardinality(threads_') <= count_']_vars
  <2> SUFFICES ASSUME Next, threads_' \ threads_ # {}
               PROVE  Cardinality(threads_') <= count_'
    BY <1>1 DEF vars
  <2>1. /\ active_' = Cardinality(threads_') + Cardinality(Acquirers')
        /\ Cardinality(threads_') \in Nat /\ Cardinality(Acquirers') \in Nat /\ count_ \in Nat
    <3>1. threads_' \in SUBSET Threads /\ Acquirers' \in SUBSET Threads /\ count_ \in 0..Cancelled
      BY <1>1 DEF SemaphoreInv, TypeOK, Acquirers
    <3>2. Cardinality(threads_') \in Nat /\ Cardinality(Acquirers') \in Nat
      BY <3>1, CountBounds
    <3> QED BY <1>1, <3>1, <3>2 DEF SemaphoreInv, Accounting, Acquirers
  <2>2. active_' <= count_ /\ count_' = count_
    <3>1. PICK t \in Threads :
              (\E how \in {"acquire", "timed"} : Acquire(t, how)) \/ AcquireTest(t)
      BY DEF Next, Call, TimeOut, Release, Resize, Wait, WaitTest, Spurious
    <3>2. CASE \E how \in {"acquire", "timed"} : Acquire(t, how)
      BY <3>2 DEF Acquire, Admit, Room
    <3>3. CASE AcquireTest(t)
      BY <3>3 DEF AcquireTest, Admit, Room
    <3> QED BY <3>1, <3>2, <3>3
  <2> QED BY <2>1, <2>2
<1> QED BY <1>1, ActiveIsExact, PTL DEF Spec, AdmissionBound

=============================================================================
