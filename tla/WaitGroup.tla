------------------------------ MODULE WaitGroup ------------------------------
(***************************************************************************)
(* wait_group and its RAII handle sync_group of src/sync.hpp.  Work is     *)
(* announced with add(), and settled by release(), called by hand or by    *)
(* the destructor of a handle; waiters leave when nothing is outstanding.  *)
(***************************************************************************)
EXTENDS Naturals, FiniteSets, CondVar

CONSTANTS
    Threads,     \* threads that wait
    Timed,       \* those that may use wait_for() or wait_until()
    Handles,     \* sync_group objects
    Initial,     \* the count given to the constructor
    MaxCount     \* bound: count_, which wraps at 2^32 in the code

\* What the constants must be.
GroupAssumption ==
    /\ Timed \subseteq Threads /\ IsFiniteSet(Handles)
    /\ Initial \in Nat /\ MaxCount \in Nat /\ Initial <= MaxCount

VARIABLES
    count_,
    st,          \* "idle", "asleep" or "test"
    wg_,         \* the handles whose wg_ is not null
    unclaimed    \* history: work announced that no handle stands for

vars == <<count_, st, wg_, unclaimed>>

Init ==
    /\ count_ = Initial /\ st = [t \in Threads |-> "idle"]
    /\ wg_ = {} /\ unclaimed = Initial

Waiting(t) == st[t] # "idle"

-----------------------------------------------------------------------------
(* Mutated forms of definitions below: what plausible bugs would make them. *)

KeepOther(from, to) == wg_ \cup {to}
LeaveAtOnce == TRUE
WakeNobody == UNCHANGED st

-----------------------------------------------------------------------------

\* add(), operator++ and operator+=.
Add(n) ==
    /\ count_ + n <= MaxCount
    /\ count_' = count_ + n
    /\ unclaimed' = unclaimed + n
    /\ UNCHANGED <<st, wg_>>

WakeWaiters == st' = WakeAll(st)

\* release(): nothing is outstanding, one unit of several is settled, or the
\* last one is and the waiters are woken.
DoRelease ==
    \/ count_ = 0 /\ UNCHANGED <<count_, st>>
    \/ count_ = 1 /\ count_' = 0 /\ WakeWaiters
    \/ count_ > 1 /\ count_' = count_ - 1 /\ UNCHANGED st

\* release() by hand, for work that no handle stands for, or once too often
\* when nothing is outstanding.
Release ==
    /\ unclaimed > 0 \/ count_ = 0
    /\ DoRelease
    /\ unclaimed' = IF unclaimed = 0 THEN 0 ELSE unclaimed - 1
    /\ UNCHANGED wg_

\* sync_group(wg): the handle takes charge of announced work.
Construct(h) ==
    /\ h \notin wg_ /\ unclaimed > 0
    /\ wg_' = wg_ \cup {h}
    /\ unclaimed' = unclaimed - 1
    /\ UNCHANGED <<count_, st>>

\* The handles that hold the group after a move.
Exchange(from, to) == (wg_ \ {from}) \cup {to}

\* The move constructor, and move assignment to an empty handle.
Move(from, to) ==
    /\ from \in wg_ /\ to \notin wg_
    /\ wg_' = Exchange(from, to)
    /\ UNCHANGED <<count_, st, unclaimed>>

\* Move assignment to a handle that must release what it holds.
MoveOver(from, to) ==
    /\ from \in wg_ /\ to \in wg_ /\ from # to
    /\ DoRelease
    /\ wg_' = Exchange(from, to)
    /\ UNCHANGED unclaimed

\* The destructor.
Destroy(h) ==
    /\ h \in wg_
    /\ DoRelease
    /\ wg_' = wg_ \ {h}
    /\ UNCHANGED unclaimed

\* wait(), the destructor of the group, wait_for(), wait_until().
Block(t) ==
    /\ st[t] # "asleep" /\ count_ # 0
    /\ st' = [st EXCEPT ![t] = "asleep"]
    /\ UNCHANGED <<count_, wg_, unclaimed>>

Settled == count_ = 0

Leave(t) ==
    /\ st[t] = "test" /\ Settled
    /\ st' = [st EXCEPT ![t] = "idle"]
    /\ UNCHANGED <<count_, wg_, unclaimed>>

TimeOut(t) ==
    /\ t \in Timed /\ Waiting(t)
    /\ st' = [st EXCEPT ![t] = "idle"]
    /\ UNCHANGED <<count_, wg_, unclaimed>>

Spurious(t) ==
    /\ st[t] = "asleep"
    /\ st' = Awake(st, t)
    /\ UNCHANGED <<count_, wg_, unclaimed>>

-----------------------------------------------------------------------------

Next ==
    \/ \E n \in 1..2 : Add(n)
    \/ Release
    \/ \E h \in Handles : Construct(h) \/ Destroy(h)
    \/ \E h, k \in Handles : Move(h, k) \/ MoveOver(h, k)
    \/ \E t \in Threads : Block(t) \/ Leave(t) \/ TimeOut(t) \/ Spurious(t)

Spec == Init /\ [][Next]_vars

\* A thread that was woken runs.
Fairness == \A t \in Threads : WF_vars(st[t] = "test" /\ (Leave(t) \/ Block(t)))

FairSpec == Spec /\ Fairness

-----------------------------------------------------------------------------
(* Properties. *)

TypeOK ==
    /\ count_ \in 0..MaxCount /\ st \in [Threads -> {"idle", "asleep", "test"}]
    /\ wg_ \in SUBSET Handles /\ unclaimed \in Nat

\* Every unit of announced work is settled exactly once, through any chain of
\* moves between handles: the count is the work nobody has settled.
Balanced == count_ = unclaimed + Cardinality(wg_)

\* Nobody sleeps in wait() when nothing is outstanding.
ZeroWakes == count_ = 0 => Asleep(st) = {}

\* Both at once: work is settled exactly once, and settling the last unit
\* wakes everyone.
GroupInv == TypeOK /\ Balanced /\ ZeroWakes

\* wait() returns only when no handle holds the group and nothing announced
\* is left.
LeaveMeansDone ==
    [][\A t \in Threads \ Timed : Waiting(t) /\ ~(Waiting(t))' => wg_ = {} /\ unclaimed = 0]_vars

\* Waiters leave a settled group, unless work is added before they run.
SettledReleases == \A t \in Threads : (count_ = 0 /\ Waiting(t)) ~> (~Waiting(t) \/ count_ # 0)
=============================================================================
