------------------------------- MODULE MCSync -------------------------------
(***************************************************************************)
(* The synchronisation objects of sync.hpp, one of them per behaviour:     *)
(* focus says which.  They share no state, so that a run over all of them  *)
(* is the sum of the runs over each.                                       *)
(***************************************************************************)
EXTENDS Naturals, FiniteSets

CONSTANTS Threads, Timed,             \* of the semaphore and of the event
          Drainers, Initial, HardwareConcurrency, Sizes, Cancelled,
          MaxNotifies,
          Few,                        \* the threads of the other objects
          BarTimed, Controllers, Limit, Limits, MaxRounds,
          Handles,                    \* of a wait group, or to permits
          GroupTimed, GroupInitial, MaxCount,
          Readers, Writers, Guards, Objects, MaxRaw, None,
          Max

VARIABLES focus,
          semCount, active_, semThreads, semSt, call,
          barCount, sequence_, limit_, barSt, sequence, disturbed, owed, missing, laps,
          signaled_, auto_reset_, eventSt, notifies, passes,
          groupCount, groupSt, wg_, unclaimed,
          lock, owned, ptr_, alive, raw, opened, detached,
          free, threads_, sem_, at, stranded

Sem == INSTANCE Semaphore WITH count_ <- semCount, threads_ <- semThreads, st <- semSt

Bar == INSTANCE Barrier WITH Threads <- Few, Timed <- BarTimed, count_ <- barCount, st <- barSt

Event == INSTANCE EventSync WITH st <- eventSt

Group == INSTANCE WaitGroup WITH
    Threads <- Few, Timed <- GroupTimed, Initial <- GroupInitial, count_ <- groupCount, st <- groupSt

Ptr == INSTANCE LockedPtr

Permit == INSTANCE Permits WITH Threads <- Few, kind <- focus

ASSUME SyncAssumption == /\ Sem!SemaphoreAssumption /\ Bar!BarrierAssumption
                         /\ Event!EventAssumption /\ Group!GroupAssumption
                         /\ Ptr!PtrAssumption /\ Permit!PermitAssumption

\* Permits of either kind.
PermitKinds == {"lock", "counting"}

Init ==
    /\ focus \in {"semaphore", "barrier", "event", "group", "pointer"} \cup PermitKinds
    /\ Sem!Init /\ Bar!Init /\ Group!Init /\ Ptr!PtrInit
    /\ Event!Init /\ (focus # "event" => ~auto_reset_)
    /\ IF focus \in PermitKinds THEN Permit!PermitInit
       ELSE free = 0 /\ threads_ = {} /\ sem_ = {} /\ at = <<>> /\ stranded = FALSE

semV == <<semCount, active_, semThreads, semSt, call>>
barV == <<barCount, sequence_, limit_, barSt, sequence, disturbed, owed, missing, laps>>
eventV == <<signaled_, auto_reset_, eventSt, notifies, passes>>
groupV == <<groupCount, groupSt, wg_, unclaimed>>
ptrV == <<lock, owned, ptr_, alive, raw, opened, detached>>
permitV == <<free, threads_, sem_, at, stranded>>

Next ==
    \/ focus = "semaphore" /\ Sem!Next
       /\ UNCHANGED <<focus, barV, eventV, groupV, ptrV, permitV>>
    \/ focus = "barrier" /\ Bar!Next
       /\ UNCHANGED <<focus, semV, eventV, groupV, ptrV, permitV>>
    \/ focus = "event" /\ Event!Next
       /\ UNCHANGED <<focus, semV, barV, groupV, ptrV, permitV>>
    \/ focus = "group" /\ Group!Next
       /\ UNCHANGED <<focus, semV, barV, eventV, ptrV, permitV>>
    \/ focus = "pointer" /\ Ptr!PtrNext
       /\ UNCHANGED <<focus, semV, barV, eventV, groupV, permitV>>
    \/ focus \in PermitKinds /\ Permit!PermitNext
       /\ UNCHANGED <<semV, barV, eventV, groupV, ptrV>>

allVars == <<focus, semV, barV, eventV, groupV, ptrV, permitV>>

\* The fairness of each module; a thread comes back to the barrier only where there
\* is one.
Fairness ==
    /\ Sem!Fairness /\ Event!Fairness /\ Group!Fairness
    /\ \A t \in Few : /\ WF_barV(Bar!Depart(t) \/ Bar!SleepAgain(t))
                      /\ WF_barV(focus = "barrier" /\ Bar!Arrive(t))

Spec == Init /\ [][Next]_allVars /\ Fairness

-----------------------------------------------------------------------------

\* semaphore_t: active_ counts every admitted and every waiting thread once, and a
\* cancelled semaphore has no sleepers but those in wait().
SemaphoreInv == Sem!SemaphoreInv

\* semaphore_t: nobody is admitted beyond the count, a cancelled semaphore lets every
\* waiting thread go, and wait() returns if the last to leave was admitted.
SemaphoreServes == Sem!AdmissionBound /\ Sem!CancelReleases /\ Sem!WaitReturns

\* barrier_t: arrivals are counted in their round, a thread whose round is over is
\* awake and leaves, and undisturbed threads stay within a round of each other.
BarrierInv == Bar!BarrierInv

\* barrier_t: nobody is left behind while all keep coming, and a thread whose round
\* is over leaves in any case.
EveryoneLeaves == Bar!EveryoneLeaves

\* event_sync: a signal is neither slept through nor, with auto_reset_, spent twice.
EventInv == Event!EventInv

\* event_sync: a signal is consumed or reset, or nobody waits for it.
SignalConsumed == Event!SignalConsumed

\* wait_group and sync_group: through any chain of moves work is settled exactly
\* once, and settling the last unit wakes everyone.
GroupInv == Group!GroupInv

\* wait_group: waiters leave only when no handle holds the group and nothing is left,
\* and then they do leave.
GroupServes == Group!LeaveMeansDone /\ Group!SettledReleases

\* The scoped handles: a locked pointer stays tied to the mutex of its data until it is
\* released or swapped, owns it until it is unlocked, and shares data with another owner
\* among readers only; a permit comes back exactly once through any chain of
\* moves, unless a semaphore_lock is released by a thread that was not admitted.
HandlesInv ==
    /\ Ptr!AccessIsLocked
    /\ focus \in PermitKinds => Permit!PermitsReturned
=============================================================================
