------------------------------ MODULE EventSync ------------------------------
(***************************************************************************)
(* event_sync of src/sync.hpp: an event that stays signaled until reset(), *)
(* or, with auto_reset_, until one waiter has consumed it.                 *)
(***************************************************************************)
EXTENDS Naturals, FiniteSets, CondVar

CONSTANTS
    Threads,     \* threads that wait
    Timed,       \* those that may use wait_for() or wait_until()
    MaxNotifies  \* bound: calls of notify()

\* What the constants must be.
EventAssumption ==
    /\ Timed \subseteq Threads /\ MaxNotifies \in Nat

VARIABLES
    signaled_,
    auto_reset_, \* the argument of the constructor
    st,          \* "idle", "asleep" or "test"
    notifies,    \* history: calls of notify()
    passes       \* history: waits that found the event signaled, up to MaxNotifies + 1

vars == <<signaled_, auto_reset_, st, notifies, passes>>

Init ==
    /\ signaled_ = FALSE /\ auto_reset_ \in BOOLEAN
    /\ st = [t \in Threads |-> "idle"] /\ notifies = 0 /\ passes = 0

Waiting(t) == st[t] # "idle"

-----------------------------------------------------------------------------
(* Mutated forms of definitions below: what plausible bugs would make them. *)

StaySignaled == UNCHANGED signaled_
NotifySomeone == st' \in WakeOne(st)

-----------------------------------------------------------------------------

Wake == IF auto_reset_ THEN st' \in WakeOne(st) ELSE st' = WakeAll(st)

Notify ==
    /\ notifies < MaxNotifies
    /\ signaled_' = TRUE
    /\ Wake
    /\ notifies' = notifies + 1
    /\ UNCHANGED <<auto_reset_, passes>>

Reset ==
    /\ signaled_' = FALSE
    /\ UNCHANGED <<auto_reset_, st, notifies, passes>>

Consume == signaled_' = (signaled_ /\ ~auto_reset_)

\* wait(), wait_for(), wait_until(): the predicate holds at once, or after a
\* wakeup, or when the timeout has the last look at it.
Pass(t) ==
    /\ st[t] # "asleep" \/ t \in Timed
    /\ signaled_
    /\ Consume
    /\ st' = [st EXCEPT ![t] = "idle"]
    /\ passes' = IF passes > MaxNotifies THEN passes ELSE passes + 1
    /\ UNCHANGED <<auto_reset_, notifies>>

Block(t) ==
    /\ st[t] # "asleep" /\ ~signaled_
    /\ st' = [st EXCEPT ![t] = "asleep"]
    /\ UNCHANGED <<signaled_, auto_reset_, notifies, passes>>

TimeOut(t) ==
    /\ t \in Timed /\ Waiting(t) /\ ~signaled_
    /\ st' = [st EXCEPT ![t] = "idle"]
    /\ UNCHANGED <<signaled_, auto_reset_, notifies, passes>>

Spurious(t) ==
    /\ st[t] = "asleep"
    /\ st' = Awake(st, t)
    /\ UNCHANGED <<signaled_, auto_reset_, notifies, passes>>

Next == Notify \/ Reset \/ \E t \in Threads : Pass(t) \/ Block(t) \/ TimeOut(t) \/ Spurious(t)

Spec == Init /\ [][Next]_vars

\* A thread that was woken runs.
Fairness == \A t \in Threads : WF_vars(st[t] = "test" /\ (Pass(t) \/ Block(t)))

FairSpec == Spec /\ Fairness

-----------------------------------------------------------------------------
(* Properties. *)

TypeOK ==
    /\ signaled_ \in BOOLEAN /\ auto_reset_ \in BOOLEAN
    /\ st \in [Threads -> {"idle", "asleep", "test"}]
    /\ notifies \in Nat /\ passes \in Nat

\* While the event is signaled nobody sleeps through it: with auto_reset_ at
\* least one waiter is awake to consume it, otherwise all are.
SignalSeen ==
    signaled_ /\ Asleep(st) # {} => auto_reset_ /\ \E t \in Threads : st[t] = "test"

\* An event with auto_reset_ lets at most one waiter pass per notify().
OnePassEach == auto_reset_ => passes <= notifies

\* Both at once: a signal is neither slept through nor spent twice.
EventInv == TypeOK /\ SignalSeen /\ OnePassEach

\* A signaled event is consumed or reset, or nobody waits for it (auto), and
\* every waiter gets past it or sees it reset (manual).
SignalConsumed ==
    /\ (auto_reset_ /\ signaled_ /\ \E t \in Threads : Waiting(t))
           ~> (~signaled_ \/ \A t \in Threads : ~Waiting(t))
    /\ \A t \in Threads : (~auto_reset_ /\ signaled_ /\ Waiting(t)) ~> (~signaled_ \/ ~Waiting(t))
=============================================================================
