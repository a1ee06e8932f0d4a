--------------------------- MODULE TaskPoolProofs ---------------------------
(***************************************************************************)
(* Proofs about task_pool (TaskPool.tla), for any number of clients,       *)
(* owners, workers, closures and restarts, whether calls of owners overlap *)
(* or not and whether closures let exceptions escape, or drain the pool    *)
(* they run on, or neither.                                                *)
(***************************************************************************)
EXTENDS TaskPool, FiniteSetTheorems, TLAPS

\* The vector of workers is empty exactly when the pool is not started; a worker
\* that has been joined had exited; a pool that accepts has workers to be joined.
WorkersKnown ==
    /\ started_ <=> workers_ # {}
    /\ accepting_ => joinable # {}
    /\ \A w \in workers_ \ joinable : wpc[w] = "done"

\* What a resize() in progress will pass to start() is one of the counts.
TargetsKnown == \A c \in Clients : target[c] \in Counts \cup {0} /\ (pc[c] = "start" => target[c] # 0)

\* A task that was taken from the queue has returned, or a worker is running it.
TakenIsRunning == \A t \in Tasks : InSeq(t, started) => t \in finished \/ \E w \in Workers : t \in task[w]

\* Until the calls of two owners overlap: at most one is in progress, one that
\* clears the vector finds every worker joined, and one that starts the pool
\* again finds it stopped.
Unraced ==
    ~raced =>
        /\ \A c, d \in Clients : pc[c] # "idle" /\ pc[d] # "idle" => c = d
        /\ \A c \in Clients : pc[c] = "forget" => joinable = {}
        /\ \A c \in Clients : pc[c] = "start" => ~started_

\* The inductive invariant.
PoolIInv == PoolInv /\ WorkersKnown /\ TargetsKnown /\ TakenIsRunning /\ Unraced

-----------------------------------------------------------------------------
(* The parts of PoolInv that have no name of their own. *)

\* A worker outside the vector has no thread, and one inside has.
VectorHasThreads == \A w \in Workers : wpc[w] = "none" <=> w \notin workers_

\* Workers leave only the empty queue of a draining pool.
ExitsWhenDrained == \A w \in Workers : wpc[w] = "done" => ~accepting_ /\ tasks_ = <<>>

\* A worker holds a closure exactly while it runs it, and one that drains its own
\* pool runs a closure that does.
RunsItsTask ==
    /\ \A w \in Workers : task[w] # {} <=> wpc[w] \in {"running", "joining"}
    /\ \A w \in Workers : wpc[w] = "joining" => ~accepting_ /\ task[w] \cap DrainTasks # {}

\* A queued task has a worker left.
QueueServed == tasks_ # <<>> => workers_ # {} \/ aborted

\* The inductive invariant, part by part.
LEMMA Parts ==
    PoolIInv <=>
        /\ TypeOK /\ ParallelismKept /\ StopIsSeen /\ AbortNeedsRace
        /\ VectorHasThreads /\ ExitsWhenDrained /\ RunsItsTask /\ QueueServed
        /\ WorkersKnown /\ TargetsKnown /\ TakenIsRunning /\ Unraced
BY DEF PoolIInv, PoolInv, VectorHasThreads, ExitsWhenDrained, RunsItsTask, QueueServed

\* The same after a step.
LEMMA PartsAfter ==
    ASSUME TypeOK', ParallelismKept', StopIsSeen', AbortNeedsRace', VectorHasThreads',
           ExitsWhenDrained', RunsItsTask', QueueServed', WorkersKnown', TargetsKnown',
           TakenIsRunning', Unraced'
    PROVE  PoolIInv'
BY DEF PoolIInv, PoolInv, VectorHasThreads, ExitsWhenDrained, RunsItsTask, QueueServed

\* The workers that are awake and about to look at the queue.
Ready == In("init") \cup In("test")

\* Sets of workers are finite, and one more or less changes their number by one.
LEMMA WorkerCounts ==
    ASSUME NEW S \in SUBSET Workers
    PROVE  /\ Cardinality(S) \in Nat
           /\ \A w \in Workers \ S : Cardinality(S \cup {w}) = Cardinality(S) + 1
           /\ \A w \in S : Cardinality(S) > 0 /\ Cardinality(S \ {w}) = Cardinality(S) - 1
<1>1. IsFiniteSet(Workers)
  BY PoolAssumption, FS_Interval DEF Workers
<1>2. IsFiniteSet(S) /\ Cardinality(S) \in Nat
  BY <1>1, FS_Subset, FS_CardinalityType
<1>3. ASSUME NEW w \in Workers \ S PROVE Cardinality(S \cup {w}) = Cardinality(S) + 1
  BY <1>2, FS_AddElement
<1>4. ASSUME NEW w \in S PROVE Cardinality(S) > 0 /\ Cardinality(S \ {w}) = Cardinality(S) - 1
  <2>1. Cardinality(S \ {w}) = Cardinality(S) - 1
    BY <1>2, FS_RemoveElement
  <2>2. Cardinality(S) # 0
    BY <1>2, FS_EmptySet
  <2> QED BY <1>2, <2>1, <2>2
<1> QED BY <1>2, <1>3, <1>4

\* notify_one() wakes one sleeper if there is one; notify_all() leaves none.
LEMMA WakeFacts ==
    ASSUME wpc \in [Workers -> WorkerState]
    PROVE  /\ NotifyOne => \/ wpc' = wpc /\ In("asleep") = {}
                           \/ \E v \in Workers : wpc[v] = "asleep" /\ wpc' = [wpc EXCEPT ![v] = "test"]
           /\ NotifyAll => /\ wpc' \in [Workers -> WorkerState]
                           /\ \A w \in Workers : wpc'[w] = IF wpc[w] = "asleep" THEN "test" ELSE wpc[w]
<1>1. Asleep(wpc) = In("asleep")
  BY DEF Asleep, In
<1>2. NotifyOne => \/ wpc' = wpc /\ In("asleep") = {}
                   \/ \E v \in Workers : wpc[v] = "asleep" /\ wpc' = [wpc EXCEPT ![v] = "test"]
  BY <1>1 DEF NotifyOne, WakeOne, Awake, In
<1>3. NotifyAll => /\ wpc' \in [Workers -> WorkerState]
                   /\ \A w \in Workers : wpc'[w] = IF wpc[w] = "asleep" THEN "test" ELSE wpc[w]
  BY DEF NotifyAll, WakeAll, WorkerState
<1> QED BY <1>2, <1>3

\* A pool that was just constructed satisfies the invariant.
LEMMA InvInit == Init => PoolIInv
<1> SUFFICES ASSUME Init PROVE PoolIInv
  OBVIOUS
<1>1. TypeOK
  <2>1. /\ tasks_ \in Seq(Tasks) /\ started \in Seq(Tasks) /\ workers_ \in SUBSET Workers
        /\ joinable \in SUBSET workers_ /\ finished \in SUBSET Tasks /\ starts \in Nat
    BY DEF Init
  <2>2. accepting_ \in BOOLEAN /\ started_ \in BOOLEAN /\ aborted \in BOOLEAN /\ raced \in BOOLEAN
    BY DEF Init
  <2>3. wpc \in [Workers -> WorkerState] /\ task \in [Workers -> SUBSET Tasks]
    BY DEF Init, WorkerState
  <2>4. pc \in [Clients -> ClientState] /\ target \in [Clients -> Nat]
    BY DEF Init, ClientState
  <2> QED BY <2>1, <2>2, <2>3, <2>4 DEF TypeOK
<1>2. ParallelismKept /\ StopIsSeen
  BY DEF Init, ParallelismKept, StopIsSeen, In
<1>3. AbortNeedsRace /\ ~accepting_ /\ ~started_
  BY DEF Init, AbortNeedsRace
<1>4. VectorHasThreads /\ ExitsWhenDrained /\ RunsItsTask /\ QueueServed
  BY DEF Init, VectorHasThreads, ExitsWhenDrained, RunsItsTask, QueueServed
<1>5. WorkersKnown
  BY <1>3 DEF Init, WorkersKnown
<1>6. TargetsKnown /\ TakenIsRunning /\ Unraced
  BY DEF Init, TargetsKnown, TakenIsRunning, InSeq, Unraced
<1> QED BY <1>1, <1>2, <1>3, <1>4, <1>5, <1>6, Parts

\* dispatch(): the task joins the queue of a pool that has workers, and a worker
\* wakes for it if any slept.
LEMMA DispatchKeeps ==
    ASSUME PoolIInv, ~aborted, NEW c \in Clients, NEW t \in Tasks, Dispatch(c, t)
    PROVE  PoolIInv'
<1> USE DEF TypeOK
<1>1. /\ accepting_ /\ tasks_' = Append(tasks_, t) /\ NotifyOne
      /\ UNCHANGED <<raced, accepting_, started_, workers_, joinable, task, pc, target,
                     aborted, started, finished, starts>>
  BY DEF Dispatch
<1>2. \/ wpc' = wpc /\ In("asleep") = {}
      \/ \E v \in Workers : wpc[v] = "asleep" /\ wpc' = [wpc EXCEPT ![v] = "test"]
  BY <1>1, Parts, WakeFacts
<1>3. wpc' \in [Workers -> WorkerState]
  BY <1>2, Parts DEF WorkerState
<1>4. TypeOK'
  BY <1>1, <1>3, Parts
<1>5. \A w \in Workers : \/ wpc'[w] = wpc[w]
                         \/ wpc[w] = "asleep" /\ wpc'[w] = "test"
  BY <1>2, Parts
<1>6. ParallelismKept'
  <2>1. CASE wpc' = wpc /\ In("asleep") = {}
    BY <2>1 DEF ParallelismKept, In
  <2>2. ASSUME NEW v \in Workers, wpc[v] = "asleep", wpc' = [wpc EXCEPT ![v] = "test"]
        PROVE  ParallelismKept'
    <3>1. v \in In("asleep") /\ Ready \in SUBSET Workers /\ v \notin Ready
      BY <2>2 DEF In, Ready
    <3>2. Ready' = Ready \cup {v}
      BY <2>2, Parts DEF Ready, In
    <3>3. Len(tasks_) <= Cardinality(Ready) /\ Len(tasks_) \in Nat /\ Cardinality(Ready) \in Nat
      BY <3>1, Parts, WorkerCounts DEF ParallelismKept, Ready
    <3>4. Cardinality(Ready') = Cardinality(Ready) + 1 /\ Len(tasks_') = Len(tasks_) + 1
      BY <1>1, <3>1, <3>2, Parts, WorkerCounts
    <3> QED BY <3>3, <3>4 DEF ParallelismKept, Ready
  <2> QED BY <1>2, <2>1, <2>2
<1>7. StopIsSeen' /\ VectorHasThreads' /\ RunsItsTask'
  BY <1>1, <1>5, Parts DEF StopIsSeen, VectorHasThreads, RunsItsTask, In
<1>8. ExitsWhenDrained'
  BY <1>1, <1>5, Parts DEF ExitsWhenDrained
<1>9. QueueServed' /\ WorkersKnown'
  BY <1>1, <1>5, Parts DEF QueueServed, WorkersKnown
<1>10. AbortNeedsRace' /\ TargetsKnown' /\ TakenIsRunning' /\ Unraced'
  BY <1>1, Parts DEF AbortNeedsRace, TargetsKnown, TakenIsRunning, InSeq, Unraced
<1> QED BY <1>4, <1>6, <1>7, <1>8, <1>9, <1>10, PartsAfter

\* What the critical section of start() leaves behind when it does something: a
\* pool that had no workers has as many as asked for, all of them to be joined.
LEMMA StartFacts ==
    ASSUME PoolIInv, NEW c \in Clients, NEW n \in Counts, ~started_, StartWorkers(c, n)
    PROVE  /\ accepting_' /\ started_' /\ starts' \in Nat /\ aborted' \in BOOLEAN
           /\ workers_' \in SUBSET Workers /\ workers_' # {} /\ joinable' = workers_'
           /\ wpc' \in [Workers -> WorkerState]
           /\ \A w \in Workers : wpc'[w] = IF w \in workers_' THEN "init" ELSE "none"
           /\ Cardinality(workers_') = WorkerCount(n)
           /\ aborted' => WorkersRace(c)
           /\ \A w \in Workers : task[w] = {}
<1>1. /\ accepting_' = TRUE /\ started_' = TRUE /\ workers_' = 1..WorkerCount(n) /\ joinable' = workers_'
      /\ wpc' = [w \in Workers |-> IF w \in workers_' THEN "init" ELSE "none"]
      /\ starts' = starts + 1 /\ aborted' \in {FALSE, WorkersRace(c)}
  BY DEF StartWorkers
<1>2. WorkerCount(n) \in Workers /\ MaxWorkers \in Nat
  BY PoolAssumption
<1>3. WorkerCount(n) \in 1..MaxWorkers
  BY <1>2 DEF Workers
<1>4. workers_' \in SUBSET Workers /\ workers_' # {}
  BY <1>1, <1>2, <1>3 DEF Workers
<1>5. Cardinality(workers_') = WorkerCount(n)
  BY <1>1, <1>2, <1>3, FS_Interval
<1>6. \A w \in Workers : task[w] = {}
  BY Parts DEF WorkersKnown, VectorHasThreads, RunsItsTask
<1>7. starts' \in Nat
  BY <1>1, Parts DEF TypeOK
<1>8. wpc' \in [Workers -> WorkerState] /\ \A w \in Workers : wpc'[w] = IF w \in workers_' THEN "init" ELSE "none"
  BY <1>1 DEF WorkerState
<1>9. aborted' \in BOOLEAN /\ (aborted' => WorkersRace(c))
  BY <1>1 DEF WorkersRace
<1> QED BY <1>1, <1>4, <1>5, <1>6, <1>7, <1>8, <1>9

\* What start() keeps whoever calls it: everything but what depends on the call
\* it is part of.
LEMMA StartKeeps ==
    ASSUME PoolIInv, ~aborted, NEW c \in Clients, NEW n \in Counts, StartWorkers(c, n),
           UNCHANGED <<tasks_, task, target, started, finished>>
    PROVE  /\ accepting_' \in BOOLEAN /\ started_' \in BOOLEAN /\ aborted' \in BOOLEAN /\ starts' \in Nat
           /\ workers_' \in SUBSET Workers /\ joinable' \in SUBSET workers_'
           /\ wpc' \in [Workers -> WorkerState]
           /\ ParallelismKept' /\ StopIsSeen' /\ VectorHasThreads' /\ ExitsWhenDrained'
           /\ RunsItsTask' /\ QueueServed' /\ WorkersKnown' /\ TakenIsRunning'
           /\ aborted' => WorkersRace(c)
<1>1. CASE started_
  <2>1. UNCHANGED <<accepting_, started_, workers_, joinable, wpc, starts, aborted>>
    BY <1>1 DEF StartWorkers
  <2>2. ParallelismKept' /\ StopIsSeen' /\ VectorHasThreads' /\ ExitsWhenDrained'
    BY <2>1, Parts DEF ParallelismKept, StopIsSeen, VectorHasThreads, ExitsWhenDrained, In
  <2>3. RunsItsTask' /\ QueueServed' /\ WorkersKnown' /\ TakenIsRunning'
    BY <2>1, Parts DEF RunsItsTask, QueueServed, WorkersKnown, TakenIsRunning, InSeq
  <2> QED BY <2>1, <2>2, <2>3, Parts DEF TypeOK
<1>2. CASE ~started_
  <2>1. ParallelismKept' /\ StopIsSeen'
    BY <1>2, StartFacts DEF ParallelismKept, StopIsSeen, In
  <2>2. VectorHasThreads' /\ ExitsWhenDrained'
    BY <1>2, StartFacts DEF VectorHasThreads, ExitsWhenDrained
  <2>3. RunsItsTask'
    BY <1>2, StartFacts DEF RunsItsTask
  <2>4. QueueServed' /\ WorkersKnown'
    BY <1>2, StartFacts DEF QueueServed, WorkersKnown
  <2>5. TakenIsRunning'
    BY Parts DEF TakenIsRunning, InSeq
  <2> QED BY <1>2, <2>1, <2>2, <2>3, <2>4, <2>5, StartFacts
<1> QED BY <1>1, <1>2

\* start(): another owner's call in progress is a race; otherwise nobody is in
\* drain() to be disturbed.
LEMMA StartCallKeeps ==
    ASSUME PoolIInv, ~aborted, NEW c \in Clients, NEW n \in Counts, Start(c, n)
    PROVE  PoolIInv'
<1>1. /\ StartWorkers(c, n) /\ pc[c] = "idle"
      /\ raced' = (raced \/ \E d \in Clients \ {c} : pc[d] # "idle")
      /\ UNCHANGED <<tasks_, task, pc, target, started, finished>>
  BY DEF Start, RaceNoted
<1>2. raced' \in BOOLEAN /\ (~raced' => ~raced /\ \A d \in Clients : pc[d] = "idle")
  BY <1>1
<1>3. TypeOK'
  BY <1>1, <1>2, StartKeeps, Parts DEF TypeOK
<1>4. AbortNeedsRace'
  BY <1>1, <1>2, StartKeeps DEF AbortNeedsRace, WorkersRace
<1>5. TargetsKnown'
  BY <1>1, Parts DEF TargetsKnown
<1>6. Unraced'
  BY <1>1, <1>2 DEF Unraced
<1> QED BY <1>1, <1>3, <1>4, <1>5, <1>6, StartKeeps, PartsAfter

\* resize(), after drain(): if no other call overlaps, nobody else is in drain().
LEMMA ResizeStartKeeps ==
    ASSUME PoolIInv, ~aborted, NEW c \in Clients, ResizeStart(c)
    PROVE  PoolIInv'
<1>1. /\ StartWorkers(c, target[c]) /\ pc[c] = "start" /\ pc' = [pc EXCEPT ![c] = "idle"]
      /\ UNCHANGED <<raced, tasks_, task, target, started, finished>>
  BY DEF ResizeStart
<1>2. target[c] \in Counts
  BY <1>1, Parts DEF TargetsKnown
<1>3. pc' \in [Clients -> ClientState]
  BY <1>1, Parts DEF TypeOK, ClientState
<1>4. TypeOK'
  BY <1>1, <1>2, <1>3, StartKeeps, Parts DEF TypeOK
<1>5. ~raced => \A d \in Clients \ {c} : pc[d] = "idle"
  BY <1>1, Parts DEF Unraced
<1>6. AbortNeedsRace'
  BY <1>1, <1>2, <1>5, StartKeeps DEF AbortNeedsRace, WorkersRace
<1>7. TargetsKnown'
  BY <1>1, Parts DEF TargetsKnown, TypeOK
<1>8. Unraced'
  BY <1>1, <1>5, Parts DEF Unraced, TypeOK
<1> QED BY <1>1, <1>2, <1>4, <1>6, <1>7, <1>8, StartKeeps, PartsAfter

\* The first part of drain(): nobody stays asleep, and a call that overlaps
\* another is a race.
LEMMA DrainStopKeeps ==
    ASSUME PoolIInv, ~aborted, NEW c \in Clients, NEW n \in Counts \cup {0}, DrainStop(c),
           target' = [target EXCEPT ![c] = n]
    PROVE  PoolIInv'
<1>1. /\ pc[c] = "idle" /\ accepting_' = FALSE /\ NotifyAll /\ pc' = [pc EXCEPT ![c] = "join"]
      /\ raced' = (raced \/ \E d \in Clients \ {c} : pc[d] # "idle")
      /\ UNCHANGED <<tasks_, started_, workers_, joinable, task, aborted, started, finished, starts>>
  BY DEF DrainStop, RaceNoted
<1>2. raced' \in BOOLEAN /\ (~raced' => ~raced /\ \A d \in Clients : pc[d] = "idle")
  BY <1>1
<1>3. /\ wpc' \in [Workers -> WorkerState]
      /\ \A w \in Workers : wpc'[w] = IF wpc[w] = "asleep" THEN "test" ELSE wpc[w]
  BY <1>1, Parts, WakeFacts DEF TypeOK
<1>4. n \in Nat /\ pc' \in [Clients -> ClientState] /\ target' \in [Clients -> Nat]
  BY <1>1, PoolAssumption, Parts DEF TypeOK, ClientState
<1>5. TypeOK'
  BY <1>1, <1>2, <1>3, <1>4, Parts DEF TypeOK
<1>6. ParallelismKept' /\ StopIsSeen'
  BY <1>3 DEF ParallelismKept, StopIsSeen, In
<1>7. VectorHasThreads' /\ ExitsWhenDrained' /\ RunsItsTask'
  BY <1>1, <1>3, Parts DEF VectorHasThreads, ExitsWhenDrained, RunsItsTask
<1>8. QueueServed' /\ WorkersKnown'
  BY <1>1, <1>3, Parts DEF QueueServed, WorkersKnown, TypeOK
<1>9. TargetsKnown' /\ TakenIsRunning'
  BY <1>1, Parts DEF TargetsKnown, TakenIsRunning, InSeq, TypeOK
<1>10. AbortNeedsRace'
  BY <1>1 DEF AbortNeedsRace
<1>11. Unraced'
  BY <1>1, <1>2, Parts DEF Unraced, TypeOK
<1> QED BY <1>5, <1>6, <1>7, <1>8, <1>9, <1>10, <1>11, PartsAfter

\* The join: a worker is joined once it has exited, so that a pool that accepts,
\* whose workers do not exit, keeps its workers joinable.
LEMMA DrainJoinKeeps ==
    ASSUME PoolIInv, ~aborted, NEW c \in Clients, DrainJoin(c)
    PROVE  PoolIInv'
<1>1. /\ pc[c] = "join" /\ (\A w \in joinable : wpc[w] = "done") /\ pc' = [pc EXCEPT ![c] = "forget"]
      /\ joinable' = {} /\ aborted' \in {FALSE, joinable # {} /\ WorkersRace(c)}
      /\ UNCHANGED <<raced, tasks_, accepting_, started_, workers_, wpc, task, target, started, finished, starts>>
  BY DEF DrainJoin, Exited, JoinEach
<1>2. aborted' \in BOOLEAN /\ (aborted' => WorkersRace(c))
  BY <1>1 DEF WorkersRace
<1>3. pc' \in [Clients -> ClientState]
  BY <1>1, Parts DEF TypeOK, ClientState
<1>4. TypeOK'
  BY <1>1, <1>2, <1>3, Parts DEF TypeOK
<1>5. ~raced => \A d \in Clients \ {c} : pc[d] = "idle"
  BY <1>1, Parts DEF Unraced
<1>6. AbortNeedsRace'
  BY <1>1, <1>2, <1>5 DEF AbortNeedsRace, WorkersRace
<1>7. WorkersKnown'
  BY <1>1, Parts DEF WorkersKnown, ExitsWhenDrained, TypeOK
<1>8. ParallelismKept' /\ StopIsSeen' /\ VectorHasThreads' /\ ExitsWhenDrained' /\ RunsItsTask'
  BY <1>1, Parts DEF ParallelismKept, StopIsSeen, VectorHasThreads, ExitsWhenDrained, RunsItsTask, In
<1>9. QueueServed'
  BY <1>1, Parts DEF QueueServed
<1>10. TargetsKnown' /\ TakenIsRunning'
  BY <1>1, Parts DEF TargetsKnown, TakenIsRunning, InSeq, TypeOK
<1>11. Unraced'
  BY <1>1, <1>5, Parts DEF Unraced, TypeOK
<1> QED BY <1>4, <1>6, <1>7, <1>8, <1>9, <1>10, <1>11, PartsAfter

\* Every worker of a pool whose workers have all been joined has exited: none of
\* them holds a task, and the queue they left is empty.
LEMMA JoinedMeansDrained ==
    ASSUME PoolIInv, ~aborted, joinable = {}
    PROVE  /\ tasks_ = <<>> /\ ~accepting_
           /\ \A w \in Workers : wpc[w] \in {"none", "done"} /\ task[w] = {}
           /\ Accepted \subseteq finished
<1>1. ~accepting_
  BY Parts DEF WorkersKnown
<1>2. \A w \in Workers : wpc[w] \in {"none", "done"}
  BY Parts DEF WorkersKnown, VectorHasThreads
<1>3. \A w \in Workers : task[w] = {}
  BY <1>2, Parts DEF RunsItsTask
<1>4. tasks_ = <<>>
  <2>1. CASE workers_ = {}
    BY <2>1, Parts DEF QueueServed
  <2>2. CASE workers_ # {}
    BY <2>2, Parts DEF WorkersKnown, ExitsWhenDrained, TypeOK
  <2> QED BY <2>1, <2>2
<1>5. Accepted \subseteq finished
  BY <1>3, <1>4, Parts DEF Accepted, TakenIsRunning, InSeq
<1> QED BY <1>1, <1>2, <1>3, <1>4, <1>5

\* The end of drain(): the vector is cleared when every worker has been joined.
LEMMA DrainForgetKeeps ==
    ASSUME PoolIInv, ~aborted, NEW c \in Clients, DrainForget(c)
    PROVE  PoolIInv'
<1>1. /\ pc[c] = "forget" /\ joinable = {} /\ workers_' = {} /\ wpc' = [w \in Workers |-> "none"]
      /\ started_' = FALSE /\ aborted' \in {FALSE, WorkersRace(c)}
      /\ pc' = [pc EXCEPT ![c] = IF target[c] = 0 THEN "idle" ELSE "start"]
      /\ UNCHANGED <<raced, tasks_, accepting_, joinable, task, target, started, finished, starts>>
  BY DEF DrainForget, ResetStarted
<1>2. aborted' \in BOOLEAN /\ (aborted' => WorkersRace(c))
  BY <1>1 DEF WorkersRace
<1>3. pc' \in [Clients -> ClientState] /\ wpc' \in [Workers -> WorkerState]
  BY <1>1, Parts DEF TypeOK, ClientState, WorkerState
<1>4. TypeOK'
  BY <1>1, <1>2, <1>3, Parts DEF TypeOK
<1>5. ~raced => \A d \in Clients \ {c} : pc[d] = "idle"
  BY <1>1, Parts DEF Unraced
<1>6. AbortNeedsRace'
  BY <1>1, <1>2, <1>5 DEF AbortNeedsRace, WorkersRace
<1>7. WorkersKnown'
  BY <1>1, JoinedMeansDrained DEF WorkersKnown
<1>8. ParallelismKept' /\ StopIsSeen' /\ VectorHasThreads' /\ ExitsWhenDrained'
  BY <1>1 DEF ParallelismKept, StopIsSeen, VectorHasThreads, ExitsWhenDrained, In
<1>9. RunsItsTask' /\ QueueServed'
  BY <1>1, JoinedMeansDrained DEF RunsItsTask, QueueServed
<1>10. TargetsKnown' /\ TakenIsRunning'
  BY <1>1, Parts DEF TargetsKnown, TakenIsRunning, InSeq, TypeOK
<1>11. Unraced'
  BY <1>1, <1>5, Parts DEF Unraced, TypeOK
<1> QED BY <1>4, <1>6, <1>7, <1>8, <1>9, <1>10, <1>11, PartsAfter

\* Joinable threads at the end of drain() mean that another owner's call overlapped.
LEMMA DrainAbortKeeps ==
    ASSUME PoolIInv, ~aborted, NEW c \in Clients, DrainAbort(c)
    PROVE  PoolIInv'
<1>1. /\ pc[c] = "forget" /\ joinable # {} /\ aborted' = TRUE
      /\ UNCHANGED <<raced, tasks_, accepting_, started_, workers_, joinable, wpc, task, pc, target,
                     started, finished, starts>>
  BY DEF DrainAbort
<1>2. TypeOK' /\ QueueServed'
  BY <1>1, Parts DEF TypeOK, QueueServed
<1>3. AbortNeedsRace'
  BY <1>1, Parts DEF AbortNeedsRace, Unraced
<1>4. ParallelismKept' /\ StopIsSeen' /\ VectorHasThreads' /\ ExitsWhenDrained' /\ RunsItsTask'
  BY <1>1, Parts DEF ParallelismKept, StopIsSeen, VectorHasThreads, ExitsWhenDrained, RunsItsTask, In
<1>5. WorkersKnown' /\ TargetsKnown' /\ TakenIsRunning' /\ Unraced'
  BY <1>1, Parts DEF WorkersKnown, TargetsKnown, TakenIsRunning, InSeq, Unraced
<1> QED BY <1>2, <1>3, <1>4, <1>5, PartsAfter

\* A worker that starts up, or wakes, only comes to look at the queue.
LEMMA WorkerAwakens ==
    ASSUME PoolIInv, ~aborted, NEW w \in Workers, WorkerInit(w) \/ WorkerSpurious(w)
    PROVE  PoolIInv'
<1> USE DEF TypeOK
<1>1. /\ wpc[w] \in {"init", "asleep"} /\ wpc' = [wpc EXCEPT ![w] = "test"]
      /\ UNCHANGED <<raced, tasks_, accepting_, started_, workers_, joinable, task, pc, target,
                     aborted, started, finished, starts>>
  BY DEF WorkerInit, WorkerSpurious
<1>2. TypeOK'
  BY <1>1, Parts DEF WorkerState
<1>3. ParallelismKept'
  <2>1. Ready \in SUBSET Workers /\ Ready' = Ready \cup {w} /\ In("asleep")' \subseteq In("asleep")
    BY <1>1, Parts DEF Ready, In
  <2>2. Cardinality(Ready) \in Nat /\ Cardinality(Ready') \in Nat /\ Cardinality(Ready) <= Cardinality(Ready')
    <3>1. CASE w \in Ready
      <4>1. Ready' = Ready
        BY <2>1, <3>1
      <4>2. Cardinality(Ready) \in Nat
        BY <2>1, WorkerCounts
      <4> QED BY <4>1, <4>2
    <3>2. CASE w \notin Ready
      <4>1. Cardinality(Ready) \in Nat /\ Cardinality(Ready \cup {w}) = Cardinality(Ready) + 1
        BY <2>1, <3>2, WorkerCounts
      <4> QED BY <2>1, <4>1
    <3> QED BY <3>1, <3>2
  <2>3. In("asleep") # {} => Len(tasks_) <= Cardinality(Ready)
    BY Parts DEF ParallelismKept, Ready
  <2>4. Len(tasks_') \in Nat /\ Len(tasks_') = Len(tasks_)
    BY <1>1, Parts
  <2> QED BY <2>1, <2>2, <2>3, <2>4 DEF ParallelismKept, Ready
<1>4. StopIsSeen' /\ VectorHasThreads' /\ ExitsWhenDrained' /\ RunsItsTask'
  BY <1>1, Parts DEF StopIsSeen, VectorHasThreads, ExitsWhenDrained, RunsItsTask, In
<1>5. WorkersKnown' /\ QueueServed'
  BY <1>1, Parts DEF WorkersKnown, QueueServed
<1>6. AbortNeedsRace' /\ TargetsKnown' /\ TakenIsRunning' /\ Unraced'
  BY <1>1, Parts DEF AbortNeedsRace, TargetsKnown, TakenIsRunning, InSeq, Unraced
<1> QED BY <1>2, <1>3, <1>4, <1>5, <1>6, PartsAfter

\* A worker sleeps only when the pool accepts and has nothing queued, and exits
\* only when the pool drains and has nothing queued.
LEMMA WorkerRests ==
    ASSUME PoolIInv, ~aborted, NEW w \in Workers, WorkerSleep(w) \/ WorkerQuit(w)
    PROVE  PoolIInv'
<1> USE DEF TypeOK
<1>1. /\ wpc[w] = "test" /\ tasks_ = <<>>
      /\ \/ accepting_ /\ wpc' = [wpc EXCEPT ![w] = "asleep"]
         \/ ~accepting_ /\ wpc' = [wpc EXCEPT ![w] = "done"]
      /\ UNCHANGED <<raced, tasks_, accepting_, started_, workers_, joinable, task, pc, target,
                     aborted, started, finished, starts>>
  BY DEF WorkerSleep, WorkerQuit, MayProceed, MayQuit
<1>2. TypeOK'
  BY <1>1, Parts DEF WorkerState
<1>3. ParallelismKept'
  <2>1. Ready' \in SUBSET Workers
    BY DEF Ready, In
  <2>2. Cardinality(Ready') \in Nat /\ Len(tasks_') = 0
    BY <1>1, <2>1, WorkerCounts
  <2> QED BY <2>2 DEF ParallelismKept, Ready
<1>4. StopIsSeen'
  BY <1>1, Parts DEF StopIsSeen, In
<1>5. VectorHasThreads' /\ ExitsWhenDrained' /\ RunsItsTask'
  BY <1>1, Parts DEF VectorHasThreads, ExitsWhenDrained, RunsItsTask
<1>6. WorkersKnown' /\ QueueServed'
  BY <1>1, Parts DEF WorkersKnown, QueueServed
<1>7. AbortNeedsRace' /\ TargetsKnown' /\ TakenIsRunning' /\ Unraced'
  BY <1>1, Parts DEF AbortNeedsRace, TargetsKnown, TakenIsRunning, InSeq, Unraced
<1> QED BY <1>2, <1>3, <1>4, <1>5, <1>6, <1>7, PartsAfter

\* A worker takes the front of the queue: one task less, and one worker less that
\* is awake to take the others.
LEMMA WorkerTakeKeeps ==
    ASSUME PoolIInv, ~aborted, NEW w \in Workers, WorkerTake(w)
    PROVE  PoolIInv'
<1> USE DEF TypeOK
<1>1. /\ wpc[w] = "test" /\ tasks_ # <<>> /\ wpc' = [wpc EXCEPT ![w] = "running"]
      /\ task' = [task EXCEPT ![w] = {Head(tasks_)}] /\ started' = Append(started, Head(tasks_))
      /\ tasks_' = Tail(tasks_)
      /\ UNCHANGED <<raced, accepting_, started_, workers_, joinable, pc, target, aborted, finished, starts>>
  BY DEF WorkerTake, MayProceed, MayQuit, FrontTask, PopFront
<1>2. Head(tasks_) \in Tasks /\ Tail(tasks_) \in Seq(Tasks) /\ Len(Tail(tasks_)) = Len(tasks_) - 1
  BY <1>1, Parts
<1>3. TypeOK'
  <2>1. wpc' \in [Workers -> WorkerState] /\ task' \in [Workers -> SUBSET Tasks]
    BY <1>1, <1>2, Parts DEF WorkerState
  <2>2. started' \in Seq(Tasks) /\ tasks_' \in Seq(Tasks)
    BY <1>1, <1>2, Parts
  <2> QED BY <1>1, <2>1, <2>2, Parts
<1>4. ParallelismKept'
  <2>1. Ready \in SUBSET Workers /\ w \in Ready /\ Ready' = Ready \ {w} /\ In("asleep")' = In("asleep")
    BY <1>1, Parts DEF Ready, In
  <2>2. Cardinality(Ready) \in Nat /\ Cardinality(Ready') = Cardinality(Ready) - 1
    BY <2>1, WorkerCounts
  <2>3. In("asleep") # {} => Len(tasks_) <= Cardinality(Ready)
    BY Parts DEF ParallelismKept, Ready
  <2>4. Len(tasks_) \in Nat /\ Len(tasks_') = Len(tasks_) - 1
    BY <1>1, <1>2, Parts
  <2> QED BY <2>1, <2>2, <2>3, <2>4 DEF ParallelismKept, Ready
<1>5. StopIsSeen' /\ VectorHasThreads'
  BY <1>1, Parts DEF StopIsSeen, VectorHasThreads, In
<1>6. ExitsWhenDrained'
  BY <1>1, Parts DEF ExitsWhenDrained
<1>7. RunsItsTask'
  BY <1>1, Parts DEF RunsItsTask
<1>8. WorkersKnown' /\ QueueServed'
  BY <1>1, Parts DEF WorkersKnown, QueueServed
<1>9. TakenIsRunning'
  <2> SUFFICES ASSUME NEW t \in Tasks, InSeq(t, started')
               PROVE  t \in finished \/ \E v \in Workers : t \in task'[v]
    BY <1>1 DEF TakenIsRunning
  <2>1. CASE t = Head(tasks_)
    BY <1>1, <2>1, Parts
  <2>2. CASE t # Head(tasks_)
    <3>1. InSeq(t, started)
      BY <1>1, <1>2, <2>2, Parts DEF InSeq
    <3>2. task[w] = {}
      BY <1>1, Parts DEF RunsItsTask
    <3> QED BY <1>1, <3>1, <3>2, Parts DEF TakenIsRunning
  <2> QED BY <2>1, <2>2
<1>10. AbortNeedsRace' /\ TargetsKnown' /\ Unraced'
  BY <1>1, Parts DEF AbortNeedsRace, TargetsKnown, Unraced
<1> QED BY <1>3, <1>4, <1>5, <1>6, <1>7, <1>8, <1>9, <1>10, PartsAfter

\* A worker that ran its task looks at the queue again, unless the task let an
\* exception escape.
LEMMA WorkerReturnKeeps ==
    ASSUME PoolIInv, ~aborted, NEW w \in Workers, WorkerReturn(w)
    PROVE  PoolIInv'
<1> USE DEF TypeOK
<1>1. /\ wpc[w] = "running" /\ wpc' = [wpc EXCEPT ![w] = "test"]
      /\ finished' = finished \cup task[w] /\ aborted' = (task[w] \cap ThrowTasks # {})
      /\ task' = [task EXCEPT ![w] = {}]
      /\ UNCHANGED <<raced, tasks_, accepting_, started_, workers_, joinable, pc, target, started, starts>>
  BY DEF WorkerReturn
<1>2. TypeOK'
  <2>1. wpc' \in [Workers -> WorkerState] /\ task' \in [Workers -> SUBSET Tasks] /\ finished' \in SUBSET Tasks
    BY <1>1, Parts DEF WorkerState
  <2>2. aborted' \in BOOLEAN
    BY <1>1
  <2> QED BY <1>1, <2>1, <2>2, Parts
<1>3. ParallelismKept'
  <2>1. Ready \in SUBSET Workers /\ w \notin Ready /\ Ready' = Ready \cup {w} /\ In("asleep")' = In("asleep")
    BY <1>1, Parts DEF Ready, In
  <2>2. Cardinality(Ready) \in Nat /\ Cardinality(Ready') = Cardinality(Ready) + 1
    BY <2>1, WorkerCounts
  <2>3. In("asleep") # {} => Len(tasks_) <= Cardinality(Ready)
    BY Parts DEF ParallelismKept, Ready
  <2>4. Len(tasks_') \in Nat /\ Len(tasks_') = Len(tasks_)
    BY <1>1, Parts
  <2> QED BY <2>1, <2>2, <2>3, <2>4 DEF ParallelismKept, Ready
<1>4. StopIsSeen' /\ VectorHasThreads'
  BY <1>1, Parts DEF StopIsSeen, VectorHasThreads, In
<1>5. ExitsWhenDrained'
  BY <1>1, Parts DEF ExitsWhenDrained
<1>6. RunsItsTask'
  BY <1>1, Parts DEF RunsItsTask
<1>7. WorkersKnown'
  BY <1>1, Parts DEF WorkersKnown
<1>8. QueueServed'
  BY <1>1, Parts DEF QueueServed
<1>9. TakenIsRunning'
  <2> SUFFICES ASSUME NEW t \in Tasks, InSeq(t, started)
               PROVE  t \in finished' \/ \E v \in Workers : t \in task'[v]
    BY <1>1 DEF TakenIsRunning
  <2>1. t \in finished \/ \E v \in Workers : t \in task[v]
    BY Parts DEF TakenIsRunning
  <2> QED BY <1>1, <2>1, Parts
<1>10. AbortNeedsRace'
  BY <1>1 DEF AbortNeedsRace
<1>11. TargetsKnown' /\ Unraced'
  BY <1>1, Parts DEF TargetsKnown, Unraced
<1> QED BY <1>2, <1>3, <1>4, <1>5, <1>6, <1>7, <1>8, <1>9, <1>10, <1>11, PartsAfter

\* A task that drains its own pool: nobody stays asleep, and the task is still
\* the worker's.
LEMMA TaskDrainsKeeps ==
    ASSUME PoolIInv, ~aborted, NEW w \in Workers, TaskDrains(w)
    PROVE  PoolIInv'
<1>1. /\ wpc[w] = "running" /\ task[w] \cap DrainTasks # {} /\ accepting_' = FALSE
      /\ wpc' = [WakeAll(wpc) EXCEPT ![w] = "joining"]
      /\ UNCHANGED <<raced, tasks_, started_, workers_, joinable, task, pc, target,
                     aborted, started, finished, starts>>
  BY DEF TaskDrains
<1>2. /\ wpc' \in [Workers -> WorkerState] /\ wpc'[w] = "joining"
      /\ \A v \in Workers \ {w} : wpc'[v] = IF wpc[v] = "asleep" THEN "test" ELSE wpc[v]
  BY <1>1, Parts DEF WakeAll, WorkerState, TypeOK
<1>3. TypeOK'
  BY <1>1, <1>2, Parts DEF TypeOK
<1>4. ParallelismKept' /\ StopIsSeen'
  BY <1>2 DEF ParallelismKept, StopIsSeen, In
<1>5. VectorHasThreads' /\ ExitsWhenDrained'
  BY <1>1, <1>2, Parts DEF VectorHasThreads, ExitsWhenDrained
<1>6. RunsItsTask'
  BY <1>1, <1>2, Parts DEF RunsItsTask
<1>7. QueueServed' /\ WorkersKnown'
  BY <1>1, <1>2, Parts DEF QueueServed, WorkersKnown, TypeOK
<1>8. TargetsKnown' /\ TakenIsRunning' /\ AbortNeedsRace' /\ Unraced'
  BY <1>1, Parts DEF TargetsKnown, TakenIsRunning, InSeq, AbortNeedsRace, Unraced
<1> QED BY <1>3, <1>4, <1>5, <1>6, <1>7, <1>8, PartsAfter

\* The join of its own thread ends the process with the worker still in drain().
LEMMA SelfJoinKeeps ==
    ASSUME PoolIInv, ~aborted, NEW w \in Workers, SelfJoin(w)
    PROVE  PoolIInv'
<1>1. /\ wpc[w] = "joining" /\ aborted' = TRUE
      /\ UNCHANGED <<raced, tasks_, accepting_, started_, workers_, joinable, wpc, task, pc, target,
                     started, finished, starts>>
  BY DEF SelfJoin
<1>2. TypeOK' /\ QueueServed'
  BY <1>1, Parts DEF TypeOK, QueueServed
<1>3. AbortNeedsRace'
  BY <1>1 DEF AbortNeedsRace, In
<1>4. ParallelismKept' /\ StopIsSeen' /\ VectorHasThreads' /\ ExitsWhenDrained' /\ RunsItsTask'
  BY <1>1, Parts DEF ParallelismKept, StopIsSeen, VectorHasThreads, ExitsWhenDrained, RunsItsTask, In
<1>5. WorkersKnown' /\ TargetsKnown' /\ TakenIsRunning' /\ Unraced'
  BY <1>1, Parts DEF WorkersKnown, TargetsKnown, TakenIsRunning, InSeq, Unraced
<1> QED BY <1>2, <1>3, <1>4, <1>5, PartsAfter

\* Every step of a client or a worker keeps the invariant.
LEMMA InvStep == PoolIInv /\ [Next]_vars => PoolIInv'
<1> SUFFICES ASSUME PoolIInv, [Next]_vars PROVE PoolIInv'
  OBVIOUS
<1>1. CASE UNCHANGED vars
  <2>1. TypeOK' /\ ParallelismKept' /\ StopIsSeen' /\ AbortNeedsRace'
    BY <1>1, Parts DEF vars, TypeOK, ParallelismKept, StopIsSeen, AbortNeedsRace, In
  <2>2. VectorHasThreads' /\ ExitsWhenDrained' /\ RunsItsTask' /\ QueueServed'
    BY <1>1, Parts DEF vars, VectorHasThreads, ExitsWhenDrained, RunsItsTask, QueueServed
  <2>3. WorkersKnown' /\ TargetsKnown' /\ TakenIsRunning' /\ Unraced'
    BY <1>1, Parts DEF vars, WorkersKnown, TargetsKnown, TakenIsRunning, InSeq, Unraced
  <2> QED BY <2>1, <2>2, <2>3, PartsAfter
<1>2. CASE Next
  <2>1. ~aborted
    BY <1>2 DEF Next
  <2>2. ASSUME NEW c \in Clients, ClientCall(c) PROVE PoolIInv'
    <3>1. ASSUME NEW n \in Counts, Resize(c, n) PROVE PoolIInv'
      BY <2>1, <3>1, DrainStopKeeps DEF Resize
    <3>2. CASE Shutdown(c)
      BY <2>1, <3>2, DrainStopKeeps DEF Shutdown
    <3> QED BY <2>1, <2>2, <3>1, <3>2, DispatchKeeps, StartCallKeeps DEF ClientCall
  <2>3. ASSUME NEW c \in Clients, ClientStep(c) PROVE PoolIInv'
    BY <2>1, <2>3, DrainJoinKeeps, DrainForgetKeeps, DrainAbortKeeps, ResizeStartKeeps DEF ClientStep
  <2>4. ASSUME NEW w \in Workers, WorkerStep(w) \/ WorkerSpurious(w) PROVE PoolIInv'
    BY <2>1, <2>4, WorkerAwakens, WorkerRests, WorkerTakeKeeps, WorkerReturnKeeps,
       TaskDrainsKeeps, SelfJoinKeeps DEF WorkerStep
  <2> QED BY <1>2, <2>2, <2>3, <2>4 DEF Next
<1> QED BY <1>1, <1>2

\* The inductive invariant holds throughout.
LEMMA Invariance == Spec => []PoolIInv
BY InvInit, InvStep, PTL DEF Spec

\* Whatever clients, owners and workers do at once: no worker of task_pool sleeps
\* that a task or drain() needs, workers leave only the empty queue of a draining
\* pool, a queued task has a worker left, and only a race of owners, a throwing
\* task or a task that drains its own pool ends the process.
THEOREM PoolTheorem == Spec => []PoolInv
<1>1. PoolIInv => PoolInv
  BY DEF PoolIInv
<1> QED BY <1>1, Invariance, PTL

\* As long as the calls of the owners do not overlap: drain() returns to a caller
\* who can rely on every accepted task having run to its end, and resize() leaves
\* a started pool of the size it was asked for.
THEOREM OwnerTheorem == Spec => OwnerServed
<1>1. ASSUME PoolIInv, [Next]_vars
      PROVE  [\A c \in Clients : ~raced /\ pc[c] = "forget" /\ pc'[c] # "forget" =>
                 tasks_ = <<>> /\ Accepted \subseteq finished]_vars
  <2> SUFFICES ASSUME Next, NEW c \in Clients, pc[c] = "forget", pc'[c] # "forget"
               PROVE  tasks_ = <<>> /\ Accepted \subseteq finished
    BY <1>1
  <2>1. ~aborted
    BY DEF Next
  <2>2. pc \in [Clients -> ClientState]
    BY <1>1, Parts DEF TypeOK
  <2>3. DrainForget(c)
    <3>1. ASSUME NEW d \in Clients, ClientCall(d) PROVE FALSE
      BY <2>2, <3>1 DEF ClientCall, Dispatch, Start, Resize, Shutdown, DrainStop
    <3>2. ASSUME NEW w \in Workers, WorkerStep(w) \/ WorkerSpurious(w) PROVE FALSE
      BY <2>2, <3>2 DEF WorkerStep, WorkerSpurious, WorkerInit, WorkerSleep, WorkerQuit, WorkerTake,
                            WorkerReturn, TaskDrains, SelfJoin
    <3>3. PICK d \in Clients : ClientStep(d)
      BY <3>1, <3>2 DEF Next
    <3>4. DrainForget(d) /\ d = c
      BY <2>2, <3>3 DEF ClientStep, DrainJoin, DrainForget, DrainAbort, ResizeStart
    <3> QED BY <3>4
  <2>4. joinable = {}
    BY <2>3 DEF DrainForget
  <2> QED BY <1>1, <2>1, <2>4, JoinedMeansDrained
<1>2. ASSUME PoolIInv, [Next]_vars
      PROVE  [\A c \in Clients : ~raced /\ pc[c] = "start" /\ pc'[c] = "idle" =>
                 started_' /\ accepting_' /\ Cardinality(workers_') = WorkerCount(target[c])]_vars
  <2> SUFFICES ASSUME Next, NEW c \in Clients, ~raced, pc[c] = "start", pc'[c] = "idle"
               PROVE  started_' /\ accepting_' /\ Cardinality(workers_') = WorkerCount(target[c])
    BY <1>2
  <2>1. pc \in [Clients -> ClientState]
    BY <1>2, Parts DEF TypeOK
  <2>2. ResizeStart(c)
    <3>1. ASSUME NEW d \in Clients, ClientCall(d) PROVE FALSE
      BY <2>1, <3>1 DEF ClientCall, Dispatch, Start, Resize, Shutdown, DrainStop
    <3>2. ASSUME NEW w \in Workers, WorkerStep(w) \/ WorkerSpurious(w) PROVE FALSE
      BY <2>1, <3>2 DEF WorkerStep, WorkerSpurious, WorkerInit, WorkerSleep, WorkerQuit, WorkerTake,
                            WorkerReturn, TaskDrains, SelfJoin
    <3>3. PICK d \in Clients : ClientStep(d)
      BY <3>1, <3>2 DEF Next
    <3>4. ResizeStart(d) /\ d = c
      BY <2>1, <3>3 DEF ClientStep, DrainJoin, DrainForget, DrainAbort, ResizeStart
    <3> QED BY <3>4
  <2>3. ~started_ /\ target[c] \in Counts /\ StartWorkers(c, target[c])
    BY <1>2, <2>2, Parts DEF Unraced, TargetsKnown, ResizeStart
  <2> QED BY <1>2, <2>3, StartFacts
<1> QED BY <1>1, <1>2, Invariance, PTL DEF Spec, OwnerServed, DrainedAll, ResizeTakesEffect

\* The steps of the pool seen as steps of the abstract dispatch service: dispatch()
\* joins the line, a worker that takes a task begins the first, the rest stutter.
LEMMA ServiceStep == TypeOK /\ [Next]_vars => [Service!ServiceNext]_(Service!serviceVars)
<1> SUFFICES ASSUME TypeOK, [Next]_vars
             PROVE  Service!ServiceNext \/ UNCHANGED <<tasks_, started>>
  BY DEF Service!serviceVars
<1>1. ASSUME NEW c \in Clients, NEW t \in Tasks, Dispatch(c, t) PROVE Service!JoinLine(t)
  BY <1>1 DEF Dispatch, Accepted, InSeq, Service!JoinLine, Service!Fresh, Service!InLine, Service!Begun
<1>2. ASSUME NEW w \in Workers, WorkerTake(w) PROVE Service!BeginFirst
  BY <1>2 DEF WorkerTake, MayProceed, MayQuit, FrontTask, PopFront, Service!BeginFirst
<1>3. ASSUME NEW c \in Clients, ClientCall(c) PROVE Service!ServiceNext \/ UNCHANGED <<tasks_, started>>
  BY <1>1, <1>3 DEF ClientCall, Start, Resize, Shutdown, DrainStop, Service!ServiceNext
<1>4. ASSUME NEW c \in Clients, ClientStep(c) PROVE UNCHANGED <<tasks_, started>>
  BY <1>4 DEF ClientStep, DrainJoin, DrainForget, DrainAbort, ResizeStart
<1>5. ASSUME NEW w \in Workers, WorkerStep(w) \/ WorkerSpurious(w)
      PROVE  Service!ServiceNext \/ UNCHANGED <<tasks_, started>>
  BY <1>2, <1>5 DEF WorkerStep, WorkerSpurious, WorkerInit, WorkerSleep, WorkerQuit, WorkerReturn,
                    TaskDrains, SelfJoin, Service!ServiceNext
<1> QED BY <1>3, <1>4, <1>5 DEF Next, vars

\* task_pool implements the dispatch service: however many workers, tasks leave
\* the queue from its front only, each once, and none comes back.
THEOREM Refinement == Spec => ImplementsService
<1>1. Init => Service!ServiceInit
  BY DEF Init, Service!ServiceInit
<1>2. PoolIInv => TypeOK
  BY Parts
<1> QED BY <1>1, <1>2, ServiceStep, Invariance, PTL DEF Spec, ImplementsService, Service!ServiceSpec
=============================================================================
