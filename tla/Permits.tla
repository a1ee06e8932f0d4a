------------------------------- MODULE Permits -------------------------------
(***************************************************************************)
(* The scoped permits of sync.hpp: semaphore_lock over a semaphore_t and   *)
(* sync_counting over a std::counting_semaphore.  Threads hold the handles *)
(* and may hand them to each other by moves.  A semaphore_t remembers who  *)
(* was admitted by thread id; a counting semaphore only counts.  kind says *)
(* which of the two the handles are.                                       *)
(***************************************************************************)
EXTENDS Naturals, FiniteSets

CONSTANTS Threads, Handles, Max

PermitAssumption == Max \in Nat

VARIABLES kind,       \* "lock" or "counting": fixed by Init
          free,       \* permits left
          threads_,   \* semaphore_t: the thread ids admitted
          sem_,       \* handles whose sem_ is not null
          at,         \* at[h]: the thread that holds the handle
          stranded    \* history: a handle was released by a thread not admitted

permitVars == <<kind, free, threads_, sem_, at, stranded>>

PermitInit ==
    /\ kind \in {"lock", "counting"} /\ free = Max
    /\ threads_ = {} /\ sem_ = {} /\ stranded = FALSE
    /\ at = [h \in Handles |-> CHOOSE t \in Threads : TRUE]

-----------------------------------------------------------------------------
(* Mutated forms of definitions below. *)

KeepOther(h, g) == sem_' = sem_ \cup {h}

-----------------------------------------------------------------------------

\* The constructor: acquire(), which throws for a thread admitted already.
Acquire(h, t) ==
    /\ h \notin sem_ /\ free > 0
    /\ kind = "lock" => t \notin threads_
    /\ free' = free - 1 /\ sem_' = sem_ \cup {h} /\ at' = [at EXCEPT ![h] = t]
    /\ threads_' = IF kind = "lock" THEN threads_ \cup {t} ELSE threads_
    /\ UNCHANGED <<kind, stranded>>

\* sem_->release(), called in the thread that holds h; semaphore_t ignores a
\* thread it did not admit.
ReleaseOf(h) ==
    IF kind = "lock" /\ at[h] \notin threads_
    THEN stranded' = TRUE /\ UNCHANGED <<free, threads_>>
    ELSE free' = free + 1 /\ threads_' = threads_ \ {at[h]} /\ UNCHANGED stranded

Exchange(h, g) == sem_' = (sem_ \ {g}) \cup {h}

\* Move construction, and assignment to a handle that holds nothing.
Move(h, g, t) ==
    /\ h \notin sem_ /\ g \in sem_
    /\ Exchange(h, g) /\ at' = [at EXCEPT ![h] = t]
    /\ UNCHANGED <<kind, free, threads_, stranded>>

\* Assignment to a handle that holds a permit releases it first.
MoveOver(h, g) ==
    /\ h \in sem_ /\ g \in sem_ /\ h # g
    /\ ReleaseOf(h) /\ Exchange(h, g)
    /\ UNCHANGED <<kind, at>>

\* The destructor.
Destroy(h) ==
    /\ h \in sem_
    /\ ReleaseOf(h) /\ sem_' = sem_ \ {h}
    /\ UNCHANGED <<kind, at>>

PermitNext == \E h \in Handles :
    \/ \E t \in Threads : Acquire(h, t)
    \/ \E g \in Handles, t \in Threads : Move(h, g, t)
    \/ \E g \in Handles : MoveOver(h, g)
    \/ Destroy(h)

PermitSpec == PermitInit /\ [][PermitNext]_permitVars

-----------------------------------------------------------------------------
\* Through any chain of moves a permit is returned exactly once: permits left
\* and handles that hold one make up the count.  A semaphore_lock keeps this
\* promise unless it is released in a thread other than one admitted: that
\* permit stays taken for ever.
PermitsReturned ==
    /\ ~stranded => free + Cardinality(sem_) = Max
    /\ free + Cardinality(sem_) <= Max
    /\ kind = "counting" => ~stranded
=============================================================================
