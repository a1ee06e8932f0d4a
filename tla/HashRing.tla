------------------------------ MODULE HashRing ------------------------------
(***************************************************************************)
(* hash64_ring of hash.hpp: a map from the hashes of a node's virtual      *)
(* nodes to the node.  Two virtual nodes may hash alike; emplace() then    *)
(* keeps the first one.  The hash is any function the first call fixes.    *)
(***************************************************************************)
EXTENDS Integers, FiniteSets, FiniteSetsExt

CONSTANTS Nodes, Vnodes,      \* nodes, and virtual nodes of each
          Points,             \* hash values, a set of naturals
          Hashes,             \* the hash functions: a subset of [Virtual -> Points]
          MaxRingCalls, ULong \* size_ is counted modulo ULong

VARIABLES ring_, size_, hash_,
          joined,             \* history: the nodes inserted and not removed since
          listed,             \* history: the ring was built from a list of nodes
          called, ringCalls   \* history: the last call

ringVars == <<ring_, size_, hash_, joined, listed, called, ringCalls>>

Virtual == Nodes \X (1..Vnodes)
NoRing == [p \in {} |-> 0]

RingAssumption ==
    /\ Vnodes \in Nat \ {0} /\ Points \subseteq Nat /\ Hashes \subseteq [Virtual -> Points]
    /\ IsFiniteSet(Nodes) /\ ULong \in Nat /\ Cardinality(Nodes) < ULong

RingInit ==
    /\ ring_ = NoRing /\ size_ = 0 /\ hash_ = NoRing /\ joined = {} /\ listed = FALSE
    /\ called = <<>> /\ ringCalls = 0

Alike == \E v, w \in Virtual : v # w /\ hash_[v] = hash_[w]

\* What to_u64 gives for the virtual nodes of n.
Spots(h, n) == {h[<<n, i>>] : i \in 1..Vnodes}

\* emplace() of every virtual node of n.
Emplaced(ring, h, n) ==
    [p \in DOMAIN ring \cup Spots(h, n) |-> IF p \in DOMAIN ring THEN ring[p] ELSE n]

-----------------------------------------------------------------------------
(* Mutated forms of definitions below. *)

AnyOwner(n) == Spots(hash_, n) \cap DOMAIN ring_

-----------------------------------------------------------------------------

\* The lists with the nodes of a set.
Lists(set) == {list \in [1..Cardinality(set) -> set] : \A n \in set : \E i \in DOMAIN list : list[i] = n}

\* The constructors: empty, or with the nodes of a list, which size_ does not count.  The
\* nodes are emplaced in the order of the list: a point goes to the first that has it.
Construct(h, first) ==
    /\ hash_' = h
    /\ \E list \in Lists(first) :
          ring_' = [p \in UNION {Spots(h, n) : n \in first} |->
                       list[Min({i \in DOMAIN list : p \in Spots(h, list[i])})]]
    /\ joined' = first /\ listed' = (first # {})
    /\ UNCHANGED <<size_, called, ringCalls>>

RingCall == hash_ # NoRing /\ ringCalls < MaxRingCalls /\ ringCalls' = ringCalls + 1

Insert(n) ==
    /\ RingCall
    /\ ring_' = Emplaced(ring_, hash_, n)
    /\ size_' = IF Spots(hash_, n) \subseteq DOMAIN ring_ THEN size_ ELSE (size_ + 1) % ULong
    /\ joined' = joined \cup {n} /\ called' = <<"insert", n>>
    /\ UNCHANGED <<hash_, listed>>

\* The points remove() erases.
OwnPoints(n) == {p \in Spots(hash_, n) \cap DOMAIN ring_ : ring_[p] = n}

Remove(n) ==
    /\ RingCall
    /\ ring_' = [p \in DOMAIN ring_ \ OwnPoints(n) |-> ring_[p]]
    /\ size_' = IF OwnPoints(n) = {} THEN size_ ELSE (size_ + ULong - 1) % ULong
    /\ joined' = joined \ {n} /\ called' = <<"remove", n>>
    /\ UNCHANGED <<hash_, listed>>

RingNext ==
    \/ hash_ = NoRing /\ \E h \in Hashes, first \in {{}, Nodes} : Construct(h, first)
    \/ \E n \in Nodes : Insert(n) \/ Remove(n)

RingSpec == RingInit /\ [][RingNext]_ringVars

\* get(): the node at the first point from the key's hash on, or else at the first.
Owner(ring, k) ==
    LET from == {p \in DOMAIN ring : p >= k}
    IN ring[Min(IF from = {} THEN DOMAIN ring ELSE from)]

-----------------------------------------------------------------------------

(* Consistent hashing: a node that joins takes keys over and leaves all other*)
(* keys where they were; a node that leaves gives up its own keys only,      *)
(* however the virtual nodes collide.                                        *)
MovesOnlyItsKeys ==
    [][\A k \in Points :
          DOMAIN ring_ # {} /\ DOMAIN ring_' # {} /\ Owner(ring_, k) # Owner(ring_', k)
          => IF called'[1] = "insert" THEN Owner(ring_', k) = called'[2]
                                      ELSE Owner(ring_, k) = called'[2]]_ringVars

(* Without collisions the ring is the one a fresh insertion of its nodes in  *)
(* any order gives, and size() counts them, unless a list was given.         *)
RingOfMembers ==
    hash_ # NoRing /\ ~Alike =>
        /\ ring_ = [p \in UNION {Spots(hash_, n) : n \in joined} |->
                      CHOOSE n \in joined : p \in Spots(hash_, n)]
        /\ ~listed => size_ = Cardinality(joined)
=============================================================================
