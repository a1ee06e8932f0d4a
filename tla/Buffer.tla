------------------------------- MODULE Buffer -------------------------------
(***************************************************************************)
(* atomic::buffer_t<T, S> of atomics.hpp, used by one producer and one     *)
(* consumer.  One action per load or store of head_ and tail_; the access  *)
(* to data_ goes with the store that follows or the load that precedes it. *)
(***************************************************************************)
EXTENDS Naturals, Sequences, FiniteSets

CONSTANTS S, MaxPush, MaxPull

\* static_assert(S > 2).
BufferAssumption == S \in Nat /\ S > 2 /\ MaxPush \in Nat

VARIABLES head, tail, data,
          ppc, ptail,         \* the producer: next step, and the tail it loaded
          cpc, chead, ctail,  \* the consumer: next step, and what it loaded
          pushed,             \* items accepted by push(), in order
          pulls, pulled       \* calls of pull() and pop(), and the items delivered

bufferVars == <<head, tail, data, ppc, ptail, cpc, chead, ctail, pushed, pulls, pulled>>

Unset == 0

\* if (++next >= S) next -= S
After(i) == IF i + 1 >= S THEN (i + 1) - S ELSE i + 1

BufferInit ==
    /\ head = 0 /\ tail = 0 /\ data = [i \in 0..S-1 |-> Unset]
    /\ ppc = "idle" /\ ptail = 0 /\ cpc = "idle" /\ chead = 0 /\ ctail = 0
    /\ pushed = <<>> /\ pulls = 0 /\ pulled = <<>>

PushLoad ==
    /\ ppc = "idle" /\ Len(pushed) < MaxPush
    /\ ptail' = tail /\ ppc' = "check"
    /\ UNCHANGED <<head, tail, data, cpc, chead, ctail, pushed, pulls, pulled>>

\* head_ is loaded; a full buffer refuses the item.
PushCheck ==
    /\ ppc = "check"
    /\ ppc' = IF After(ptail) = head THEN "idle" ELSE "store"
    /\ UNCHANGED <<head, tail, data, ptail, cpc, chead, ctail, pushed, pulls, pulled>>

PushStore ==
    /\ ppc = "store"
    /\ pushed' = Append(pushed, Len(pushed) + 1)
    /\ data' = [data EXCEPT ![ptail] = Len(pushed) + 1]
    /\ tail' = After(ptail) /\ ppc' = "idle"
    /\ UNCHANGED <<head, ptail, cpc, chead, ctail, pulls, pulled>>

PullLoad ==
    /\ cpc = "idle" /\ pulls < MaxPull
    /\ pulls' = pulls + 1 /\ chead' = head /\ cpc' = "check"
    /\ UNCHANGED <<head, tail, data, ppc, ptail, ctail, pushed, pulled>>

\* (Mutated form of PullCheck.)
PullAny ==
    /\ cpc = "check"
    /\ ctail' = tail /\ cpc' = "store"
    /\ UNCHANGED <<head, tail, data, ppc, ptail, chead, pushed, pulls, pulled>>

PullCheck ==
    /\ cpc = "check"
    /\ ctail' = tail
    /\ cpc' = IF chead = tail THEN "idle" ELSE "store"
    /\ UNCHANGED <<head, tail, data, ppc, ptail, chead, pushed, pulls, pulled>>

\* pull() delivers data_[head] and advances its copy of head; what it stores is
\* the tail it loaded, into tail_.
PullStore ==
    /\ cpc = "store"
    /\ pulled' = Append(pulled, data[chead])
    /\ tail' = ctail /\ cpc' = "idle"
    /\ UNCHANGED <<head, data, ppc, ptail, chead, ctail, pushed, pulls>>

\* An index handed out where an item is due: no push() carries this number.
AsItem(i) == MaxPush + 1 + i

\* pop() does the same and returns its advanced copy of head, not the item.
PopStore ==
    /\ cpc = "store"
    /\ pulled' = Append(pulled, AsItem(After(chead)))
    /\ tail' = ctail /\ cpc' = "idle"
    /\ UNCHANGED <<head, data, ppc, ptail, chead, ctail, pushed, pulls>>

BufferNext == PushLoad \/ PushCheck \/ PushStore \/ PullLoad \/ PullCheck \/ PullStore \/ PopStore

BufferSpec == BufferInit /\ [][BufferNext]_bufferVars

-----------------------------------------------------------------------------
\* No interleaving makes pull() deliver a slot that push() has not filled, even
\* when the consumer puts an old tail_ back over the producer's new one.
DeliversWritten == \A i \in 1..Len(pulled) : pulled[i] # Unset

\* What a queue promises: the items come out in the order they went in, each once.
Fifo == Len(pulled) <= Len(pushed) /\ \A i \in 1..Len(pulled) : pulled[i] = pushed[i]
=============================================================================
