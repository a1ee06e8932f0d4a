------------------------------- MODULE Barrier -------------------------------
(***************************************************************************)
(* barrier_t of src/sync.hpp.  A round is complete when limit_ threads     *)
(* have arrived; sequence_ numbers the rounds, and a waiting thread leaves *)
(* when the number is no longer the one it arrived in.                     *)
(***************************************************************************)
EXTENDS Naturals, FiniteSets, CondVar

CONSTANTS
    Threads,
    Timed,       \* the threads that use wait_for() or wait_until()
    Controllers, \* the threads that call release() and reset()
    Limit,       \* the limit given to the constructor
    Limits,      \* the limits passed to reset()
    MaxRounds    \* bound: sequence_, which wraps at 2^32 in the code

\* What the constants must be.
BarrierAssumption ==
    /\ IsFiniteSet(Threads) /\ Timed \subseteq Threads /\ Controllers \subseteq Threads
    /\ Limit \in Nat /\ Limits \subseteq Nat /\ MaxRounds \in Nat

VARIABLES
    count_,      \* arrivals the round still needs; 0 lets everyone through
    sequence_,
    limit_,
    st,          \* "idle", "asleep" or "test"
    sequence,    \* the round in which a waiting thread arrived
    disturbed,   \* history: some wait timed out, or release() or reset() was called
    owed,        \* history: waiting threads whose round is over
    missing,     \* history: arrivals of this round that timed out since
    laps         \* history: rounds each thread has gone through

vars == <<count_, sequence_, limit_, st, sequence, disturbed, owed, missing, laps>>

Waiting == {t \in Threads : st[t] # "idle"}

Init ==
    /\ count_ = Limit /\ limit_ = Limit /\ sequence_ = 0
    /\ st = [t \in Threads |-> "idle"] /\ sequence = [t \in Threads |-> 0]
    /\ disturbed = FALSE /\ owed = {} /\ missing = 0 /\ laps = [t \in Threads |-> 0]

-----------------------------------------------------------------------------
(* Mutated forms of definitions below: what plausible bugs would make them. *)

WakeSomeone == st' \in WakeOne(st)
AnyWakeupWillDo(t) == TRUE
KeepCount == UNCHANGED count_

-----------------------------------------------------------------------------

IsLast == count_ = 1

NotifyEveryone == st' = WakeAll(st)

Refill == count_' = limit_

\* The round ends: everyone waiting may leave.
EndRound ==
    /\ sequence_' = sequence_ + 1
    /\ NotifyEveryone
    /\ owed' = Waiting
    /\ missing' = 0

\* wait(), wait_for(), wait_until(): the last to arrive ends the round.
ArriveLast(t) ==
    /\ st[t] = "idle" /\ sequence_ < MaxRounds
    /\ count_ # 0 /\ IsLast
    /\ EndRound /\ Refill
    /\ laps' = [laps EXCEPT ![t] = @ + 1]
    /\ UNCHANGED <<limit_, sequence, disturbed>>

\* The others wait.
ArriveEarly(t) ==
    /\ st[t] = "idle" /\ sequence_ < MaxRounds
    /\ count_ # 0 /\ ~IsLast
    /\ count_' = count_ - 1
    /\ sequence' = [sequence EXCEPT ![t] = sequence_]
    /\ st' = [st EXCEPT ![t] = "asleep"]
    /\ UNCHANGED <<sequence_, limit_, disturbed, owed, missing, laps>>

\* The predicate of the waits.
RoundOver(t) == sequence[t] # sequence_

Depart(t) ==
    /\ st[t] = "test" /\ RoundOver(t)
    /\ st' = [st EXCEPT ![t] = "idle"]
    /\ owed' = owed \ {t}
    /\ laps' = [laps EXCEPT ![t] = @ + 1]
    /\ UNCHANGED <<count_, sequence_, limit_, sequence, disturbed, missing>>

SleepAgain(t) ==
    /\ st[t] = "test" /\ ~RoundOver(t)
    /\ st' = [st EXCEPT ![t] = "asleep"]
    /\ UNCHANGED <<count_, sequence_, limit_, sequence, disturbed, owed, missing, laps>>

\* A timed wait gives up; the arrival stays counted.
TimeOut(t) ==
    /\ t \in Timed /\ st[t] # "idle" /\ ~RoundOver(t)
    /\ st' = [st EXCEPT ![t] = "idle"]
    /\ missing' = missing + 1 /\ disturbed' = TRUE
    /\ UNCHANGED <<count_, sequence_, limit_, sequence, owed, laps>>

Spurious(t) ==
    /\ st[t] = "asleep"
    /\ st' = Awake(st, t)
    /\ UNCHANGED <<count_, sequence_, limit_, sequence, disturbed, owed, missing, laps>>

\* release(): open the barrier for good, or until reset().
Release(t) ==
    /\ st[t] = "idle" /\ t \in Controllers /\ sequence_ < MaxRounds
    /\ count_' = 0
    /\ EndRound
    /\ disturbed' = TRUE
    /\ UNCHANGED <<limit_, sequence, laps>>

Reset(t, limit) ==
    /\ st[t] = "idle" /\ t \in Controllers /\ sequence_ < MaxRounds
    /\ count_' = limit /\ limit_' = limit
    /\ EndRound
    /\ disturbed' = TRUE
    /\ UNCHANGED <<sequence, laps>>

-----------------------------------------------------------------------------

Arrive(t) == ArriveLast(t) \/ ArriveEarly(t)

Next ==
    \E t \in Threads :
        \/ Arrive(t) \/ Depart(t) \/ SleepAgain(t) \/ TimeOut(t) \/ Spurious(t)
        \/ Release(t) \/ \E limit \in Limits : Reset(t, limit)

Spec == Init /\ [][Next]_vars

\* Woken threads run, and every thread keeps coming to the barrier.
Fairness == \A t \in Threads : WF_vars(Depart(t) \/ SleepAgain(t)) /\ WF_vars(Arrive(t))

FairSpec == Spec /\ Fairness

-----------------------------------------------------------------------------
(* Properties. *)

TypeOK ==
    /\ count_ \in Nat /\ sequence_ \in Nat /\ limit_ \in Nat
    /\ st \in [Threads -> {"idle", "asleep", "test"}] /\ sequence \in [Threads -> Nat]
    /\ disturbed \in BOOLEAN /\ owed \in SUBSET Threads /\ missing \in Nat /\ laps \in [Threads -> Nat]

\* The arrivals counted in this round are the threads that wait for its end
\* and those that gave up: none is lost or counted for an earlier round.
ArrivalsCounted ==
    count_ # 0 =>
        count_ + Cardinality({t \in Waiting : ~RoundOver(t)}) + missing = limit_

\* A thread whose round is over is awake and will leave; one whose round is
\* not over cannot.  A thread that is slow to wake is not caught by later
\* rounds.
OverMeansOwed ==
    \A t \in Waiting : /\ t \in owed <=> RoundOver(t)
                       /\ t \in owed => st[t] = "test"

\* Up to the first timeout, release() or reset(), with as many threads as the
\* limit, no thread is ever two rounds ahead of another.
Lockstep == ~disturbed /\ Limit = Cardinality(Threads) => \A t, u \in Threads : laps[t] <= laps[u] + 1

\* All at once: arrivals are counted in their round, a thread whose round is over
\* is awake and leaves, and undisturbed threads stay within a round of each other.
BarrierInv == ArrivalsCounted /\ OverMeansOwed /\ Lockstep

\* Nobody is left behind at the barrier while all keep coming and none gives
\* up, and a thread whose round is over leaves in any case.
EveryoneLeaves ==
    /\ \A t \in Threads : (st[t] # "idle") ~> (st[t] = "idle" \/ disturbed)
    /\ \A t \in Threads : (t \in owed) ~> (t \notin owed)
=============================================================================
