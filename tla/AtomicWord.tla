----------------------------- MODULE AtomicWord -----------------------------
(***************************************************************************)
(* The one-word atomics of atomics.hpp: sequence_t, once_t and atomic_ref. *)
(* Each object is one machine word and each public operation one atomic    *)
(* access to it, except copying a sequence_t, which is a load and a store. *)
(* kind says which class the word belongs to; it never changes.            *)
(***************************************************************************)
EXTENDS Integers, Sequences, FiniteSets

CONSTANTS Threads,      \* the threads that share the word
          Width,        \* bits of the unsigned type T
          MaxOps        \* bound on the operations of one behaviour

\* A word has at least two bits; the provers are told that 2^Width is a number.
WordAssumption == Width \in Nat /\ Width > 1 /\ 2 ^ Width \in Nat /\ 2 ^ Width > 2

VARIABLES kind,         \* "sequence", "once" or "ref"
          cell,         \* seq_, flag_ (0 or 1) or the referenced integer
          pc,           \* pc[t]: "idle", or inside a two-step operation
          local,        \* local[t]: the value a two-step operation has loaded
          ops,          \* operations begun
          drawn,        \* sequence_t: what was drawn since the last store
          wins, resets, \* once_t: callers told true, and reset() calls
          net           \* atomic_ref: the last store, increments less decrements since

wordVars == <<kind, cell, pc, local, ops, drawn, wins, resets, net>>

Wrap(n) == n % (2 ^ Width)

WordInit ==
    /\ kind \in {"sequence", "once", "ref"}
    /\ cell = IF kind = "once" THEN 1 ELSE 0
    /\ pc = [t \in Threads |-> "idle"]
    /\ local = [t \in Threads |-> 0]
    /\ ops = 0 /\ drawn = <<>> /\ wins = 0 /\ resets = 0 /\ net = 0

Begin(t, k) == kind = k /\ pc[t] = "idle" /\ ops < MaxOps /\ ops' = ops + 1

-----------------------------------------------------------------------------
(* sequence_t *)

\* (Mutated form of Draw.)
DrawLost(t) ==
    /\ Begin(t, "sequence")
    /\ drawn' = Append(drawn, cell)
    /\ cell' = IF cell + 1 < 2 ^ Width THEN cell + 1 ELSE cell
    /\ UNCHANGED <<kind, pc, local, wins, resets, net>>

\* operator* and the conversion to T: fetch_add(1), the old value is drawn.
Draw(t) ==
    /\ Begin(t, "sequence")
    /\ drawn' = Append(drawn, cell)
    /\ cell' = Wrap(cell + 1)
    /\ UNCHANGED <<kind, pc, local, wins, resets, net>>

\* set() and operator=(T).
SetSequence(t, v) ==
    /\ Begin(t, "sequence")
    /\ cell' = v /\ drawn' = <<>>
    /\ UNCHANGED <<kind, pc, local, wins, resets, net>>

\* Copy construction and assignment load from the other object ...
CopyLoad(t) ==
    /\ Begin(t, "sequence")
    /\ \E v \in 0..(2 ^ Width - 1) : local' = [local EXCEPT ![t] = v]
    /\ pc' = [pc EXCEPT ![t] = "store"]
    /\ UNCHANGED <<kind, cell, drawn, wins, resets, net>>

\* ... and store here, whatever was drawn in between.
CopyStore(t) ==
    /\ pc[t] = "store"
    /\ cell' = local[t] /\ drawn' = <<>>
    /\ pc' = [pc EXCEPT ![t] = "idle"]
    /\ UNCHANGED <<kind, local, ops, wins, resets, net>>

-----------------------------------------------------------------------------
(* once_t *)

\* operator bool and operator!: flag_.exchange(false).
Once(t) ==
    /\ Begin(t, "once")
    /\ wins' = wins + cell
    /\ cell' = 0
    /\ UNCHANGED <<kind, pc, local, drawn, resets, net>>

ResetOnce(t) ==
    /\ Begin(t, "once")
    /\ cell' = 1 /\ resets' = resets + 1
    /\ UNCHANGED <<kind, pc, local, drawn, wins, net>>

-----------------------------------------------------------------------------
(* atomic_ref *)

\* ++ -- += -= through fetch_add and fetch_sub.
FetchAdd(t, d) ==
    /\ Begin(t, "ref")
    /\ cell' = Wrap(cell + d) /\ net' = net + d
    /\ UNCHANGED <<kind, pc, local, drawn, wins, resets>>

\* store(), exchange() and operator=.
Exchange(t, v) ==
    /\ Begin(t, "ref")
    /\ cell' = v /\ net' = v
    /\ UNCHANGED <<kind, pc, local, drawn, wins, resets>>

\* A read-modify-write loop: load() ...
Load(t) ==
    /\ Begin(t, "ref")
    /\ local' = [local EXCEPT ![t] = cell]
    /\ pc' = [pc EXCEPT ![t] = "cas"]
    /\ UNCHANGED <<kind, cell, drawn, wins, resets, net>>

\* (Mutated form of CompareExchange.)
CompareExchangeBlind(t) ==
    /\ pc[t] = "cas"
    /\ cell' = Wrap(local[t] + 1) /\ net' = net + 1
    /\ pc' = [pc EXCEPT ![t] = "idle"]
    /\ UNCHANGED <<kind, local, ops, drawn, wins, resets>>

\* ... then compare_exchange_strong(expected, expected + 1) until it succeeds;
\* a failure leaves the value found in expected.
CompareExchange(t) ==
    /\ pc[t] = "cas"
    /\ \/ /\ cell = local[t]
          /\ cell' = Wrap(local[t] + 1) /\ net' = net + 1
          /\ pc' = [pc EXCEPT ![t] = "idle"] /\ UNCHANGED local
       \/ /\ cell # local[t]
          /\ local' = [local EXCEPT ![t] = cell]
          /\ UNCHANGED <<cell, net, pc>>
    /\ UNCHANGED <<kind, ops, drawn, wins, resets>>

WordNext ==
    \E t \in Threads :
        \/ Draw(t) \/ CopyLoad(t) \/ CopyStore(t)
        \/ \E v \in {0, 2 ^ Width - 1} : SetSequence(t, v)
        \/ Once(t) \/ ResetOnce(t)
        \/ \E d \in {1, -1} : FetchAdd(t, d)
        \/ \E v \in {0, 2} : Exchange(t, v)
        \/ Load(t) \/ CompareExchange(t)

WordSpec == WordInit /\ [][WordNext]_wordVars

-----------------------------------------------------------------------------
\* Two draws since the last store differ as long as fewer than 2^Width draws lie
\* between them, across the wrap of the counter and however the threads
\* interleave (sequence_t::operator*).
TicketsUnique ==
    \A i, j \in 1..Len(drawn) : (i < j /\ j - i < 2 ^ Width) => drawn[i] # drawn[j]

\* once_t answers true at most once per arming, and a word updated through
\* fetch_add, fetch_sub and compare_exchange loops loses no update.
WordKept == wins + (IF kind = "once" THEN cell ELSE 0) <= resets + 1
            /\ (kind = "ref" => cell = Wrap(net))
=============================================================================
