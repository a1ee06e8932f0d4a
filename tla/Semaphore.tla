------------------------------ MODULE Semaphore ------------------------------
(***************************************************************************)
(* semaphore_t of src/sync.hpp.  Every critical section of lock_ is one    *)
(* action; a thread inside a wait is "asleep" or, once woken, about to     *)
(* "test" the predicate of that wait.  active_ counts the threads admitted *)
(* and those waiting to be.                                                *)
(***************************************************************************)
EXTENDS Naturals, FiniteSets, CondVar

CONSTANTS
    Threads,
    Drainers,    \* the threads that call wait(), or run the destructor
    Timed,       \* the threads that may use the timed forms of try_acquire()
    Initial,     \* the count given to the constructor
    HardwareConcurrency,
    Sizes,       \* the counts passed to resize()
    Cancelled    \* ~0U

\* What the constants must be.
SemaphoreAssumption ==
    /\ IsFiniteSet(Threads) /\ Drainers \subseteq Threads /\ Timed \subseteq Threads
    /\ Cancelled \in Nat /\ Cancelled > 2 * Cardinality(Threads)
    /\ Initial \in 0..Cancelled /\ HardwareConcurrency \in 0..Cancelled
    /\ Sizes \subseteq 0..Cancelled

VARIABLES
    count_,      \* unsigned
    active_,     \* unsigned
    threads_,    \* std::unordered_set of thread ids: who is admitted
    st,          \* "idle", "asleep" or "test"
    call         \* the call a thread that is not idle is in

vars == <<count_, active_, threads_, st, call>>

Calls == {"acquire", "timed", "wait"}

\* The constructor: zero means one per processor.
Init ==
    /\ count_ = IF Initial # 0 THEN Initial
                ELSE IF HardwareConcurrency # 0 THEN HardwareConcurrency ELSE 1
    /\ active_ = 0 /\ threads_ = {}
    /\ st = [t \in Threads |-> "idle"] /\ call = [t \in Threads |-> "acquire"]

Acquiring(t) == st[t] # "idle" /\ call[t] # "wait"

-----------------------------------------------------------------------------
(* Mutated forms of definitions below: what plausible bugs would make them. *)

RoomForOneMore(n) == n <= count_ + 1
ForgetToLeave == UNCHANGED active_
WakeNobody == UNCHANGED st
ForgetToNotify == active_' = active_ - 1 /\ UNCHANGED st

-----------------------------------------------------------------------------

\* The predicate of the waits, for n active threads.
Room(n) == n <= count_

\* What follows a successful wait: n is the value of active_ by then.
Admit(t, n) ==
    IF count_ = Cancelled
    THEN active_' = n - 1 /\ UNCHANGED threads_
    ELSE active_' = n /\ threads_' = threads_ \cup {t}

\* acquire(), try_acquire() and the two timed forms, up to the wait.  A thread
\* that is admitted already gets an exception or false.
Acquire(t, how) ==
    /\ st[t] = "idle" /\ t \notin threads_
    /\ IF Room(active_ + 1)
       THEN Admit(t, active_ + 1) /\ UNCHANGED st
       ELSE active_' = active_ + 1 /\ UNCHANGED threads_ /\ st' = [st EXCEPT ![t] = "asleep"]
    /\ call' = [call EXCEPT ![t] = how]
    /\ UNCHANGED count_

\* A woken waiter tests the predicate.
AcquireTest(t) ==
    /\ st[t] = "test" /\ Acquiring(t)
    /\ IF Room(active_)
       THEN Admit(t, active_) /\ st' = [st EXCEPT ![t] = "idle"]
       ELSE st' = [st EXCEPT ![t] = "asleep"] /\ UNCHANGED <<active_, threads_>>
    /\ UNCHANGED <<count_, call>>

Leave == active_' = active_ - 1

\* wait_for() or wait_until() times out and the predicate is false.
TimeOut(t) ==
    /\ st[t] # "idle" /\ call[t] = "timed" /\ ~Room(active_)
    /\ Leave
    /\ st' = [st EXCEPT ![t] = "idle"]
    /\ UNCHANGED <<count_, threads_, call>>

ReleaseOne == active_' = active_ - 1 /\ st' \in WakeOne(st)

\* release() by a thread that was not admitted returns at once.
Release(t) ==
    /\ st[t] = "idle" /\ t \in threads_
    /\ threads_' = threads_ \ {t}
    /\ IF active_ # 0 THEN ReleaseOne ELSE UNCHANGED <<active_, st>>
    /\ UNCHANGED <<count_, call>>

NotifyEveryone == st' = WakeAll(st)

\* resize(); reset() is resize(~0U).
Resize(t, n) ==
    /\ st[t] = "idle"
    /\ count_' = n
    /\ NotifyEveryone
    /\ UNCHANGED <<active_, threads_, call>>

\* wait(): cancel, then wait until nobody is active.
Wait(t) ==
    /\ st[t] = "idle" /\ t \in Drainers \ threads_
    /\ count_' = Cancelled
    /\ st' = IF active_ = 0 THEN st ELSE [WakeAll(st) EXCEPT ![t] = "asleep"]
    /\ call' = [call EXCEPT ![t] = "wait"]
    /\ UNCHANGED <<active_, threads_>>

WaitTest(t) ==
    /\ st[t] = "test" /\ call[t] = "wait"
    /\ st' = [st EXCEPT ![t] = IF active_ = 0 THEN "idle" ELSE "asleep"]
    /\ UNCHANGED <<count_, active_, threads_, call>>

Spurious(t) ==
    /\ st[t] = "asleep"
    /\ st' = Awake(st, t)
    /\ UNCHANGED <<count_, active_, threads_, call>>

-----------------------------------------------------------------------------

Call(t) ==
    \/ Acquire(t, "acquire") \/ (t \in Timed /\ Acquire(t, "timed"))
    \/ \E n \in Sizes : Resize(t, n)
    \/ Wait(t)

Next == \E t \in Threads : Call(t) \/ AcquireTest(t) \/ TimeOut(t) \/ WaitTest(t) \/ Release(t) \/ Spurious(t)

Spec == Init /\ [][Next]_vars

\* A woken thread runs, and an admitted thread releases.
Fairness == \A t \in Threads : WF_vars(AcquireTest(t) \/ WaitTest(t)) /\ WF_vars(Release(t))

FairSpec == Spec /\ Fairness

-----------------------------------------------------------------------------
(* Properties. *)

TypeOK ==
    /\ count_ \in 0..Cancelled /\ active_ \in Nat /\ threads_ \in SUBSET Threads
    /\ st \in [Threads -> {"idle", "asleep", "test"}] /\ call \in [Threads -> Calls]

\* active_ is exact whatever mix of admissions, timeouts, cancellations and
\* releases: it counts every admitted thread and every waiting one once.
Accounting ==
    /\ active_ = Cardinality(threads_) + Cardinality({t \in Threads : Acquiring(t)})
    /\ \A t \in threads_ : ~Acquiring(t)

\* Nobody is admitted beyond the count in force at that moment, although it
\* may have been lowered below the number already admitted.
AdmissionBound ==
    [][threads_' \ threads_ # {} => Cardinality(threads_') <= count_']_vars

\* Once the semaphore is cancelled no thread stays asleep in an acquire.
CancelSeen == count_ = Cancelled => \A t \in Threads : Acquiring(t) => st[t] # "asleep"

\* Both at once: active_ is exact and a cancelled semaphore has no sleepers but
\* those in wait().
SemaphoreInv == TypeOK /\ Accounting /\ CancelSeen

\* A cancelled semaphore lets every waiting thread go.
CancelReleases ==
    \A t \in Threads : (count_ = Cancelled /\ Acquiring(t)) ~> (~Acquiring(t) \/ count_ # Cancelled)

\* wait(), called by one thread at a time, returns if the last thread to leave
\* is one that was admitted: its release() wakes the caller, unless resize()
\* has taken the cancellation back.  A cancelled waiter that leaves last does
\* not wake the caller.
WaitReturns ==
    \A t \in Threads :
        (st[t] # "idle" /\ call[t] = "wait" /\ threads_ # {} /\ \A u \in Threads : ~Acquiring(u))
            ~> (st[t] = "idle" \/ count_ # Cancelled)

\* A permit is not left unused while every waiting thread sleeps: what a
\* "binary semaphore" means to the threads that share it.
PermitNotWasted ==
    (\E t \in Threads : Acquiring(t)) /\ (\A t \in Threads : Acquiring(t) => st[t] = "asleep")
        => Cardinality(threads_) >= count_
=============================================================================
