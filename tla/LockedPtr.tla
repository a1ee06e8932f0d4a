------------------------------ MODULE LockedPtr ------------------------------
(***************************************************************************)
(* The locked pointers of sync.hpp: sync_ptr and guard_ptr over a          *)
(* unique_sync (std::mutex), reader_ptr and writer_ptr over a shared_sync  *)
(* (std::shared_mutex).  A handle reaches the data through ptr_ and owns a *)
(* lock through its base class, a std::unique_lock or std::shared_lock     *)
(* whose members, lock(), unlock(), release() and swap(), are public too;  *)
(* guard_ptr has no base class.  A call that would block is an action that *)
(* is not enabled, and one that throws changes nothing.                    *)
(***************************************************************************)
EXTENDS Naturals, FiniteSets

CONSTANTS Readers,     \* reader_ptr objects
          Writers,     \* writer_ptr, or sync_ptr, objects
          Guards,      \* guard_ptr objects, which cannot be moved
          Objects,     \* the unique_sync and shared_sync objects
          MaxRaw,      \* bound: mutexes that release() left locked
          None

\* The classes are different, and None is no object.
PtrAssumption ==
    /\ Readers \cap Writers = {} /\ Guards \cap (Readers \cup Writers) = {}
    /\ None \notin Objects

VARIABLES lock,        \* lock[h]: the object whose mutex the base class refers to, or None
          owned,       \* the handles whose base class owns that mutex
          ptr_,        \* ptr_[h]: the object whose data h reaches, or None
          alive,       \* the handles that exist
          raw,         \* <<h, o>>: release() of h left the mutex of o locked
          opened,      \* history: handles that were unlocked, and not locked again
          detached     \* history: handles that were released or swapped

ptrVars == <<lock, owned, ptr_, alive, raw, opened, detached>>

Pointers == Readers \cup Writers \cup Guards

PtrInit ==
    /\ lock = [h \in Pointers |-> None] /\ ptr_ = [h \in Pointers |-> None]
    /\ owned = {} /\ alive = {} /\ raw = {} /\ opened = {} /\ detached = {}

\* Handles of one class, the only ones that can be moved to each other.
SameClass(h, g) == {h, g} \subseteq Readers \/ {h, g} \subseteq Writers

\* Who holds the mutex of o: through a handle, or by a call of release().
Holders(o) == {g \in owned : lock[g] = o} \cup {g \in Pointers : <<g, o>> \in raw}

\* lock() and lock_shared() return.
MayLock(h, o) == Holders(o) # {} => h \in Readers /\ Holders(o) \subseteq Readers

\* A set in which h is when g was, and g is not.
Passed(S, h, g) == IF g \in S THEN (S \ {g}) \cup {h} ELSE S \ {h}

-----------------------------------------------------------------------------
(* Mutated forms of definitions below. *)

MoveKeepsPtr(h, g) ==
    /\ h \in alive /\ g \in alive /\ h # g /\ SameClass(h, g)
    /\ lock' = [lock EXCEPT ![h] = lock[g], ![g] = None]
    /\ ptr_' = [ptr_ EXCEPT ![h] = ptr_[g]]
    /\ owned' = Passed(owned, h, g)
    /\ opened' = Passed(opened, h, g) /\ detached' = Passed(detached, h, g)
    /\ UNCHANGED <<alive, raw>>

-----------------------------------------------------------------------------

Construct(h, o) ==
    /\ h \notin alive /\ MayLock(h, o)
    /\ lock' = [lock EXCEPT ![h] = o] /\ ptr_' = [ptr_ EXCEPT ![h] = o]
    /\ owned' = owned \cup {h} /\ alive' = alive \cup {h}
    /\ UNCHANGED <<raw, opened, detached>>

\* What a move does to both handles: the mutex, its ownership and the pointer pass
\* from g to h.
PassOn(h, g) ==
    /\ lock' = [lock EXCEPT ![h] = lock[g], ![g] = None]
    /\ ptr_' = [ptr_ EXCEPT ![h] = ptr_[g], ![g] = None]
    /\ owned' = Passed(owned, h, g)
    /\ opened' = Passed(opened, h, g) /\ detached' = Passed(detached, h, g)
    /\ UNCHANGED raw

MoveConstruct(h, g) ==
    /\ h \notin alive /\ g \in alive /\ SameClass(h, g)
    /\ PassOn(h, g)
    /\ alive' = alive \cup {h}

\* operator=: what h owned is unlocked first.
MoveAssign(h, g) ==
    /\ h \in alive /\ g \in alive /\ h # g /\ SameClass(h, g)
    /\ PassOn(h, g)
    /\ UNCHANGED alive

\* The base class unlocks what it owns; ~guard_ptr() unlocks.
Destroy(h) ==
    /\ h \in alive
    /\ lock' = [lock EXCEPT ![h] = None] /\ ptr_' = [ptr_ EXCEPT ![h] = None]
    /\ owned' = owned \ {h} /\ alive' = alive \ {h}
    /\ opened' = opened \ {h} /\ detached' = detached \ {h}
    /\ UNCHANGED raw

\* unlock() of the base class: ptr_ stays.
Unlock(h) ==
    /\ h \in alive \ Guards /\ h \in owned
    /\ owned' = owned \ {h} /\ opened' = opened \cup ({h} \ detached)
    /\ UNCHANGED <<lock, ptr_, alive, raw, detached>>

\* lock() and the forms of try_lock() that succeed.
Relock(h) ==
    /\ h \in alive \ Guards /\ h \notin owned
    /\ lock[h] # None /\ MayLock(h, lock[h])
    /\ owned' = owned \cup {h} /\ opened' = opened \ {h}
    /\ UNCHANGED <<lock, ptr_, alive, raw, detached>>

\* release(), or a move of the base class alone: the mutex is left to the caller,
\* locked if it was (a mutex is left so once by one handle).
Release(h) ==
    /\ h \in alive \ Guards /\ lock[h] # None
    /\ <<h, lock[h]>> \notin raw /\ Cardinality(raw) < MaxRaw
    /\ raw' = IF h \in owned THEN raw \cup {<<h, lock[h]>>} ELSE raw
    /\ lock' = [lock EXCEPT ![h] = None] /\ owned' = owned \ {h}
    /\ detached' = detached \cup {h} /\ opened' = opened \ {h}
    /\ UNCHANGED <<ptr_, alive>>

\* The caller unlocks what release() left.
RawUnlock(h, o) ==
    /\ <<h, o>> \in raw
    /\ raw' = raw \ {<<h, o>>}
    /\ UNCHANGED <<lock, owned, ptr_, alive, opened, detached>>

\* swap() of the base class: the mutexes change places, and the pointers do not.
Swap(h, g) ==
    /\ h \in alive /\ g \in alive /\ h # g /\ SameClass(h, g)
    /\ lock' = [lock EXCEPT ![h] = lock[g], ![g] = lock[h]]
    /\ owned' = {k \in Pointers : IF k = h THEN g \in owned ELSE IF k = g THEN h \in owned ELSE k \in owned}
    /\ detached' = detached \cup {h, g} /\ opened' = opened \ {h, g}
    /\ UNCHANGED <<ptr_, alive, raw>>

PtrNext == \E h \in Pointers :
    \/ \E o \in Objects : Construct(h, o) \/ RawUnlock(h, o)
    \/ \E g \in Pointers : MoveConstruct(h, g) \/ MoveAssign(h, g) \/ Swap(h, g)
    \/ Destroy(h) \/ Unlock(h) \/ Relock(h) \/ Release(h)

PtrSpec == PtrInit /\ [][PtrNext]_ptrVars

-----------------------------------------------------------------------------
\* What is left of "access to protected data only when a lock is being actively
\* asserted".  Whatever is done to other handles, a handle that nobody released or
\* swapped stays tied to the mutex of the data it reaches through any chain of
\* moves, so that lock() protects it again after unlock(); one that nobody unlocked
\* either owns that mutex; and of those that own it, two reach the same data only
\* if both are readers.
AccessIsLocked ==
    /\ \A h \in Pointers : ptr_[h] # None /\ h \notin detached =>
          lock[h] = ptr_[h] /\ (h \notin opened => h \in owned)
    /\ \A h, g \in owned \ detached : h # g /\ ptr_[h] # None /\ ptr_[h] = ptr_[g] => {h, g} \subseteq Readers
=============================================================================
