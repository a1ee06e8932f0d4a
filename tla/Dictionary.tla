----------------------------- MODULE Dictionary -----------------------------
(***************************************************************************)
(* One bucket of atomic::dictionary_t<K, V, S> of atomics.hpp: a linked    *)
(* list of nodes that every thread may walk while others push nodes at its *)
(* head by compare-and-exchange, unlink one with a plain store, or clear   *)
(* it.  One action per atomic access; a new node that is not published is  *)
(* private and appears when it is pushed.                                  *)
(***************************************************************************)
EXTENDS Integers, FiniteSets

CONSTANTS Threads, Keys,
          EmptiesOnMove, \* moving a K leaves the source empty (a std::string, not an int)
          EmptyKey,      \* what it leaves; of this bucket, or not one of Keys
          MaxNodes,      \* nodes published in one behaviour
          MaxOps         \* operations begun in one behaviour

VARIABLES table,         \* table_[index]: the first node or Nil
          next, key,     \* the fields of each node
          count,         \* count_
          freed,         \* nodes deleted
          pc, op, arg,   \* pc[t], and the operation and key of thread t
          cur, prev,     \* its cursor and the node before it
          made,          \* the node it publishes, or the successor it saved
          nodes, ops,    \* nodes and operations begun
          live,          \* nodes published and not yet unlinked (history)
          there,         \* there[t]: nodes of the key t looks for, live since t began (history)
          overlap,       \* kinds of operations that have run at the same time
          doubled,       \* keys that may legally have two nodes (history)
          broken, missed \* a freed node was touched; a live key was not found

DictAssumption == IsFiniteSet(Threads) /\ Keys # {} /\ MaxNodes \in Nat /\ EmptiesOnMove \in BOOLEAN

dictVars == <<table, next, key, count, freed, pc, op, arg, cur, prev, made,
              nodes, ops, live, there, overlap, doubled, broken, missed>>

Nil == 0
AnyKey == CHOOSE k \in Keys : TRUE
Nodes == 1..MaxNodes
Readers == {"find", "each"}                    \* find, contains, at; keys, each
Writers == {"insert", "insert_or_assign", "try_emplace"}
Removers == {"remove", "clear"}

DictInit ==
    /\ table = Nil /\ next = [n \in Nodes |-> Nil] /\ key = [n \in Nodes |-> AnyKey]
    /\ count = 0 /\ freed = {} /\ nodes = 0 /\ ops = 0 /\ live = {}
    /\ pc = [t \in Threads |-> "idle"] /\ op = [t \in Threads |-> "find"]
    /\ arg = [t \in Threads |-> AnyKey]
    /\ cur = [t \in Threads |-> Nil] /\ prev = [t \in Threads |-> Nil]
    /\ made = [t \in Threads |-> Nil] /\ there = [t \in Threads |-> {}]
    /\ overlap = {} /\ doubled = {} /\ broken = FALSE /\ missed = FALSE

Busy == {t \in Threads : pc[t] # "idle"}
Touch(n) == broken' = (broken \/ n \in freed)
Goto(t, where) == pc' = [pc EXCEPT ![t] = where]

\* What a search compares with the keys of the nodes: try_emplace() has moved the
\* key of its caller into the node it may insert, and looks for what is left.
Searched(o, k) == IF o = "try_emplace" /\ EmptiesOnMove THEN EmptyKey ELSE k

Begin(t, o, k) ==
    /\ pc[t] = "idle" /\ ops < MaxOps /\ ~broken
    /\ ops' = ops + 1
    /\ op' = [op EXCEPT ![t] = o] /\ arg' = [arg EXCEPT ![t] = k]
    /\ there' = [there EXCEPT ![t] = {n \in live : key[n] = Searched(o, k)}]
    /\ overlap' = IF Busy = {} THEN overlap ELSE overlap \cup {o} \cup {op[u] : u \in Busy}
    /\ doubled' = IF o = "insert" \/ Searched(o, k) # k \/ (o \in Writers /\ \E u \in Busy : op[u] \in Writers /\ arg[u] = k)
                  THEN doubled \cup {k} ELSE doubled

\* A new node for key k of thread t whose next is the head it has just loaded.
NewNode(t, k) ==
    /\ nodes < MaxNodes
    /\ nodes' = nodes + 1
    /\ made' = [made EXCEPT ![t] = nodes + 1]
    /\ key' = [key EXCEPT ![nodes + 1] = k]
    /\ next' = [next EXCEPT ![nodes + 1] = table]
    /\ Goto(t, "cas")

\* insert() and emplace(): make a node and load the head.
Insert(t, k) ==
    /\ Begin(t, "insert", k) /\ NewNode(t, k)
    /\ UNCHANGED <<table, count, freed, cur, prev, live, broken, missed>>

\* (Mutated form of Publish.)
PublishStale(t) ==
    /\ pc[t] = "cas"
    /\ table' = made[t] /\ live' = live \cup {made[t]} /\ Goto(t, "add")
    /\ UNCHANGED <<next, key, count, freed, op, arg, cur, prev, made, nodes, ops, there, overlap, doubled, broken, missed>>

\* compare_exchange_weak: publish, or load the head again.
Publish(t) ==
    /\ pc[t] = "cas"
    /\ \/ /\ table = next[made[t]]
          /\ table' = made[t] /\ live' = live \cup {made[t]}
          /\ Goto(t, "add") /\ UNCHANGED next
       \/ /\ table # next[made[t]]
          /\ next' = [next EXCEPT ![made[t]] = table]
          /\ UNCHANGED <<table, live, pc>>
    /\ UNCHANGED <<key, count, freed, op, arg, cur, prev, made, nodes, ops, there, overlap, doubled, broken, missed>>

CountUp(t) ==
    /\ pc[t] = "add" /\ count' = count + 1 /\ Goto(t, "idle")
    /\ UNCHANGED <<table, next, key, freed, op, arg, cur, prev, made, nodes, ops, live, there, overlap, doubled, broken, missed>>

\* Every operation that searches loads the head first.
Walk(t, o, k) ==
    /\ Begin(t, o, k)
    /\ cur' = [cur EXCEPT ![t] = table] /\ prev' = [prev EXCEPT ![t] = Nil]
    /\ Goto(t, "walk")
    /\ UNCHANGED <<table, next, key, count, freed, made, nodes, live, broken, missed>>

\* current->key != key: on to current->next.
Step(t) ==
    /\ pc[t] = "walk" /\ cur[t] # Nil /\ (op[t] = "each" \/ key[cur[t]] # Searched(op[t], arg[t]))
    /\ Touch(cur[t])
    /\ prev' = [prev EXCEPT ![t] = cur[t]] /\ cur' = [cur EXCEPT ![t] = next[cur[t]]]
    /\ UNCHANGED <<table, next, key, count, freed, pc, op, arg, made, nodes, ops, live, there, overlap, doubled, missed>>

\* The key is there: readers answer, insert_or_assign() assigns the value,
\* try_emplace() gives up, and remove() loads the successor.
Found(t) ==
    /\ pc[t] = "walk" /\ cur[t] # Nil /\ op[t] # "each" /\ key[cur[t]] = Searched(op[t], arg[t])
    /\ Touch(cur[t])
    /\ IF op[t] = "remove"
       THEN made' = [made EXCEPT ![t] = next[cur[t]]] /\ Goto(t, "unlink")
       ELSE UNCHANGED made /\ Goto(t, "idle")
    /\ UNCHANGED <<table, next, key, count, freed, op, arg, cur, prev, nodes, ops, live, there, overlap, doubled, missed>>

\* The end of the list: insert_or_assign() and try_emplace() go on to insert, the
\* latter the key it was given.
NotFound(t) ==
    /\ pc[t] = "walk" /\ cur[t] = Nil
    /\ missed' = (missed \/ (op[t] # "each" /\ there[t] \cap live # {}))
    /\ IF op[t] \in Writers THEN NewNode(t, arg[t])
       ELSE Goto(t, "idle") /\ UNCHANGED <<made, key, next, nodes>>
    /\ UNCHANGED <<table, count, freed, op, arg, cur, prev, ops, live, there, overlap, doubled, broken>>

\* (Mutated form of Unlink.)
UnlinkFirst(t) ==
    /\ pc[t] = "unlink"
    /\ table' = made[t] /\ UNCHANGED <<next, broken>>
    /\ live' = live \ {cur[t]}
    /\ Goto(t, "delete")
    /\ UNCHANGED <<key, count, freed, op, arg, cur, prev, made, nodes, ops, there, overlap, doubled, missed>>

\* remove(): prev->next.store(next) or table_[index].store(next) ...
Unlink(t) ==
    /\ pc[t] = "unlink"
    /\ IF prev[t] # Nil
       THEN Touch(prev[t]) /\ next' = [next EXCEPT ![prev[t]] = made[t]] /\ UNCHANGED table
       ELSE table' = made[t] /\ UNCHANGED <<next, broken>>
    /\ live' = live \ {cur[t]}
    /\ Goto(t, "delete")
    /\ UNCHANGED <<key, count, freed, op, arg, cur, prev, made, nodes, ops, there, overlap, doubled, missed>>

\* ... then delete, then count_.fetch_sub(1).
Delete(t) ==
    /\ pc[t] = "delete"
    /\ Touch(cur[t]) /\ freed' = freed \cup {cur[t]}
    /\ Goto(t, "sub")
    /\ UNCHANGED <<table, next, key, count, op, arg, cur, prev, made, nodes, ops, live, there, overlap, doubled, missed>>

CountDown(t) ==
    /\ pc[t] = "sub" /\ count' = count - 1 /\ Goto(t, "idle")
    /\ UNCHANGED <<table, next, key, freed, op, arg, cur, prev, made, nodes, ops, live, there, overlap, doubled, broken, missed>>

\* clear(): take the whole list by exchange, delete node after node, count_ = 0.
Clear(t) ==
    /\ Begin(t, "clear", arg[t])
    /\ cur' = [cur EXCEPT ![t] = table] /\ table' = Nil /\ live' = {}
    /\ Goto(t, "drop")
    /\ UNCHANGED <<next, key, count, freed, prev, made, nodes, broken, missed>>

Drop(t) ==
    /\ pc[t] = "drop"
    /\ IF cur[t] # Nil
       THEN /\ Touch(cur[t]) /\ freed' = freed \cup {cur[t]}
            /\ cur' = [cur EXCEPT ![t] = next[cur[t]]] /\ UNCHANGED <<count, pc>>
       ELSE count' = 0 /\ Goto(t, "idle") /\ UNCHANGED <<freed, cur, broken>>
    /\ UNCHANGED <<table, next, key, op, arg, prev, made, nodes, ops, live, there, overlap, doubled, missed>>

DictNext == \E t \in Threads :
    \/ \E k \in Keys : Insert(t, k)
    \/ \E k \in Keys, o \in {"find", "insert_or_assign", "try_emplace", "remove"} : Walk(t, o, k)
    \/ Walk(t, "each", arg[t])
    \/ Publish(t) \/ CountUp(t) \/ Step(t) \/ Found(t) \/ NotFound(t)
    \/ Unlink(t) \/ Delete(t) \/ CountDown(t) \/ Clear(t) \/ Drop(t)

DictSpec == DictInit /\ [][DictNext]_dictVars

-----------------------------------------------------------------------------
\* The nodes on the list: in every set that has the head and the successor of each
\* node it has.
Reachable ==
    {n \in Nodes : \A S \in SUBSET Nodes :
        table \in S \cup {Nil} /\ (\A m \in S : next[m] \in S \cup {Nil}) => n \in S}

\* remove() and clear() have only run alone.
RemovedAlone == overlap \cap Removers = {}

\* As long as remove() and clear() run alone, inserts and searches of any number
\* of threads lose no node and touch no deleted one: the list holds exactly the
\* nodes published and not removed, and once no operation is under way size()
\* counts them.
ListIsLive ==
    RemovedAlone => /\ ~broken /\ Reachable = live /\ live \cap freed = {}
                    /\ (Busy = {} => count = Cardinality(live))

\* A search that only inserts overlap never misses a node of the key it looks for
\* that was in the dictionary from its first step to its last; what try_emplace()
\* looks for is what the move of its key has left.
NeverMisses == RemovedAlone => ~missed

\* insert_or_assign() and try_emplace() keep one node per key, unless insert()
\* has added the key, two such calls for it have overlapped (their search and
\* their insert are separate steps) or try_emplace() was given a key that a move
\* empties: it looks for another key and may insert this one again.
OneNodePerKey ==
    RemovedAlone => \A m, n \in live : (m # n /\ key[m] = key[n]) => key[m] \in doubled
=============================================================================
