------------------------------- MODULE TaskPool -------------------------------
(***************************************************************************)
(* task_pool of src/tasks.hpp: a queue of closures and a vector of worker  *)
(* threads that take them from its front.                                  *)
(*                                                                         *)
(* Every critical section of mutex_ is one action.  The joins of drain()   *)
(* are outside the lock, so drain() is three steps: stop accepting, join,  *)
(* forget the workers.  resize() is drain() followed by start().           *)
(*                                                                         *)
(* A closure may call the pool back.  Its dispatch() is a client's, and    *)
(* its start() finds the pool started; its shutdown() or resize() is a     *)
(* drain() that joins the very thread it runs on.                          *)
(***************************************************************************)
EXTENDS Naturals, Sequences, FiniteSets, CondVar

CONSTANTS
    Clients,              \* threads that hold a reference to the pool
    Owners,               \* the clients that call start(), resize(), shutdown()
    Tasks,                \* closures; each is accepted at most once
    ThrowTasks,           \* closures that let an exception escape
    DrainTasks,           \* closures that call shutdown() or resize() on their own pool
    Counts,               \* values passed for the count argument
    HardwareConcurrency,  \* std::thread::hardware_concurrency(), may be 0
    MaxWorkers,           \* bound: workers of a pool
    MaxStarts             \* bound: times the pool is started

Workers == 1..MaxWorkers

\* start(): the number of workers that a count argument stands for.
WorkerCount(count) ==
    IF count # 0 THEN count
    ELSE IF HardwareConcurrency # 0 THEN HardwareConcurrency ELSE 1

ASSUME PoolAssumption ==
    /\ Owners \subseteq Clients
    /\ ThrowTasks \subseteq Tasks /\ DrainTasks \subseteq Tasks
    /\ Counts \subseteq Nat /\ HardwareConcurrency \in Nat
    /\ MaxWorkers \in Nat /\ MaxStarts \in Nat
    /\ \A n \in Counts : WorkerCount(n) \in Workers

VARIABLES
    tasks_,      \* std::queue of closures
    accepting_,  \* std::atomic<bool>
    started_,    \* volatile bool
    workers_,    \* the threads in the vector: 1..n for some n
    joinable,    \* those of them that have not been joined
    wpc,         \* where each worker is in its loop
    task,        \* the closure a worker runs, if any
    pc,          \* where each client is in drain() or resize()
    target,      \* the count a resize() in progress will pass to start()
    aborted,     \* std::terminate was called
    raced,       \* history: an owner's call began while another owner's was in progress
    started,     \* history: tasks taken from the queue, in order
    finished,    \* history: tasks that returned
    starts       \* history: times the pool was started

vars == <<tasks_, accepting_, started_, workers_, joinable, wpc, task, pc, target,
          aborted, raced, started, finished, starts>>

WorkerState == {"none", "init", "test", "asleep", "running", "joining", "done"}
ClientState == {"idle", "join", "forget", "start"}

InSeq(t, s) == \E i \in DOMAIN s : s[i] = t
Accepted == {t \in Tasks : InSeq(t, started) \/ InSeq(t, tasks_)}
In(state) == {w \in Workers : wpc[w] = state}

Init ==
    /\ tasks_ = <<>> /\ accepting_ = FALSE /\ started_ = FALSE
    /\ workers_ = {} /\ joinable = {}
    /\ wpc = [w \in Workers |-> "none"]
    /\ task = [w \in Workers |-> {}]
    /\ pc = [c \in Clients |-> "idle"] /\ target = [c \in Clients |-> 0]
    /\ aborted = FALSE /\ raced = FALSE /\ started = <<>> /\ finished = {} /\ starts = 0

-----------------------------------------------------------------------------
(* Mutated forms of definitions below: what plausible bugs would make them. *)

NotifyNone == UNCHANGED wpc
NotifyJustOne == wpc' \in WakeOne(wpc)
QuitWhenStopped == ~accepting_
KeepStarted == UNCHANGED started_
BackOfQueue == tasks_[Len(tasks_)]

-----------------------------------------------------------------------------
(* Operations of the clients. *)

\* cvar_.notify_one(): some sleeping worker, if there is one.
NotifyOne == wpc' \in WakeOne(wpc)

\* cvar_.notify_all().
NotifyAll == wpc' = WakeAll(wpc)

Dispatch(c, t) ==
    /\ pc[c] = "idle" /\ t \notin Accepted
    /\ accepting_
    /\ tasks_' = Append(tasks_, t)
    /\ NotifyOne
    /\ UNCHANGED <<raced, accepting_, started_, workers_, joinable, task, pc, target,
                   aborted, started, finished, starts>>

\* drain() walks the vector without the lock: changing it, or joining one of
\* its threads, under another client's walk is undefined, and one outcome is
\* std::terminate (an exception that meets the noexcept of drain()).
WorkersRace(c) == \E d \in Clients \ {c} : pc[d] = "join"

RaceNoted(c) == raced' = (raced \/ \E d \in Clients \ {c} : pc[d] # "idle")

\* The critical section of start(): nothing happens if the pool is started.
StartWorkers(c, count) ==
    IF started_
    THEN UNCHANGED <<accepting_, started_, workers_, joinable, wpc, starts, aborted>>
    ELSE /\ starts < MaxStarts
         /\ accepting_' = TRUE /\ started_' = TRUE
         /\ workers_' = 1..WorkerCount(count) /\ joinable' = workers_'
         /\ wpc' = [w \in Workers |-> IF w \in workers_' THEN "init" ELSE "none"]
         /\ starts' = starts + 1
         /\ aborted' \in {FALSE, WorkersRace(c)}

Start(c, count) ==
    /\ pc[c] = "idle" /\ c \in Owners
    /\ StartWorkers(c, count)
    /\ RaceNoted(c)
    /\ UNCHANGED <<tasks_, task, pc, target, started, finished>>

\* drain(), first part: what shutdown(), the destructor and resize() begin with.
DrainStop(c) ==
    /\ pc[c] = "idle" /\ c \in Owners
    /\ accepting_' = FALSE
    /\ NotifyAll
    /\ pc' = [pc EXCEPT ![c] = "join"]
    /\ RaceNoted(c)
    /\ UNCHANGED <<tasks_, started_, workers_, joinable, task, aborted, started, finished, starts>>

Shutdown(c) == DrainStop(c) /\ target' = [target EXCEPT ![c] = 0]

\* resize(0) only drains.
Resize(c, count) ==
    DrainStop(c) /\ (count = 0 \/ starts < MaxStarts) /\ target' = [target EXCEPT ![c] = count]

Exited == \A w \in joinable : wpc[w] = "done"

JoinEach == joinable' = {}

\* drain(), second part: join every worker that is joinable.
DrainJoin(c) ==
    /\ pc[c] = "join" /\ Exited
    /\ pc' = [pc EXCEPT ![c] = "forget"]
    /\ JoinEach
    /\ aborted' \in {FALSE, joinable # {} /\ WorkersRace(c)}
    /\ UNCHANGED <<raced, tasks_, accepting_, started_, workers_, wpc, task, target, started, finished, starts>>

ResetStarted == started_' = FALSE

\* drain(), last part: clear the vector.
DrainForget(c) ==
    /\ pc[c] = "forget" /\ joinable = {}
    /\ workers_' = {}
    /\ wpc' = [w \in Workers |-> "none"]
    /\ ResetStarted
    /\ aborted' \in {FALSE, WorkersRace(c)}
    /\ pc' = [pc EXCEPT ![c] = IF target[c] = 0 THEN "idle" ELSE "start"]
    /\ UNCHANGED <<raced, tasks_, accepting_, joinable, task, target, started, finished, starts>>

\* Another client has restarted the pool since: clearing the vector destroys
\* joinable threads, which calls std::terminate.
DrainAbort(c) ==
    /\ pc[c] = "forget" /\ joinable # {}
    /\ aborted' = TRUE
    /\ UNCHANGED <<raced, tasks_, accepting_, started_, workers_, joinable, wpc, task, pc, target,
                   started, finished, starts>>

\* resize(), after drain().
ResizeStart(c) ==
    /\ pc[c] = "start"
    /\ StartWorkers(c, target[c])
    /\ pc' = [pc EXCEPT ![c] = "idle"]
    /\ UNCHANGED <<raced, tasks_, task, target, started, finished>>

-----------------------------------------------------------------------------
(* The workers. *)

\* startup_() returns.
WorkerInit(w) ==
    /\ wpc[w] = "init"
    /\ wpc' = [wpc EXCEPT ![w] = "test"]
    /\ UNCHANGED <<raced, tasks_, accepting_, started_, workers_, joinable, task, pc, target,
                   aborted, started, finished, starts>>

\* The predicate of cvar_.wait().
MayProceed == ~accepting_ \/ tasks_ # <<>>

MayQuit == ~accepting_ /\ tasks_ = <<>>

FrontTask == Head(tasks_)

PopFront == Tail(tasks_)

WorkerSleep(w) ==
    /\ wpc[w] = "test" /\ ~MayProceed
    /\ wpc' = [wpc EXCEPT ![w] = "asleep"]
    /\ UNCHANGED <<raced, tasks_, accepting_, started_, workers_, joinable, task, pc, target,
                   aborted, started, finished, starts>>

WorkerQuit(w) ==
    /\ wpc[w] = "test" /\ MayProceed /\ MayQuit
    /\ wpc' = [wpc EXCEPT ![w] = "done"]
    /\ UNCHANGED <<raced, tasks_, accepting_, started_, workers_, joinable, task, pc, target,
                   aborted, started, finished, starts>>

WorkerTake(w) ==
    /\ wpc[w] = "test" /\ MayProceed /\ ~MayQuit
    /\ wpc' = [wpc EXCEPT ![w] = "running"]
    /\ task' = [task EXCEPT ![w] = {FrontTask}]
    /\ started' = Append(started, FrontTask)
    /\ tasks_' = PopFront
    /\ UNCHANGED <<raced, accepting_, started_, workers_, joinable, pc, target, aborted, finished, starts>>

\* task() returns, or its exception leaves the thread: nothing catches it.
WorkerReturn(w) ==
    /\ wpc[w] = "running" /\ task[w] \cap DrainTasks = {}
    /\ wpc' = [wpc EXCEPT ![w] = "test"]
    /\ finished' = finished \cup task[w]
    /\ aborted' = (task[w] \cap ThrowTasks # {})
    /\ task' = [task EXCEPT ![w] = {}]
    /\ UNCHANGED <<raced, tasks_, accepting_, started_, workers_, joinable, pc, target, started, starts>>

\* A closure calls shutdown() or resize(): the first part of drain(), in the
\* thread of a worker.
TaskDrains(w) ==
    /\ wpc[w] = "running" /\ task[w] \cap DrainTasks # {}
    /\ accepting_' = FALSE
    /\ wpc' = [WakeAll(wpc) EXCEPT ![w] = "joining"]
    /\ UNCHANGED <<raced, tasks_, started_, workers_, joinable, task, pc, target,
                   aborted, started, finished, starts>>

\* The second part: the workers before it in the vector have been joined, and
\* the join of its own thread throws, out of the noexcept drain().
SelfJoin(w) ==
    /\ wpc[w] = "joining" /\ \A v \in joinable : v < w => wpc[v] = "done"
    /\ aborted' = TRUE
    /\ UNCHANGED <<raced, tasks_, accepting_, started_, workers_, joinable, wpc, task, pc, target,
                   started, finished, starts>>

\* The wait returns though nobody notified: the predicate is tested again.
WorkerSpurious(w) ==
    /\ wpc[w] = "asleep"
    /\ wpc' = [wpc EXCEPT ![w] = "test"]
    /\ UNCHANGED <<raced, tasks_, accepting_, started_, workers_, joinable, task, pc, target,
                   aborted, started, finished, starts>>

-----------------------------------------------------------------------------

ClientCall(c) ==
    \/ \E t \in Tasks : Dispatch(c, t)
    \/ \E n \in Counts : Start(c, n)
    \/ \E n \in Counts : Resize(c, n)
    \/ Shutdown(c)

ClientStep(c) == DrainJoin(c) \/ DrainForget(c) \/ DrainAbort(c) \/ ResizeStart(c)

WorkerStep(w) ==
    \/ WorkerInit(w) \/ WorkerSleep(w) \/ WorkerQuit(w) \/ WorkerTake(w) \/ WorkerReturn(w)
    \/ TaskDrains(w) \/ SelfJoin(w)

Next ==
    /\ ~aborted
    /\ \/ \E c \in Clients : ClientCall(c) \/ ClientStep(c)
       \/ \E w \in Workers : WorkerStep(w) \/ WorkerSpurious(w)

Spec == Init /\ [][Next]_vars

\* Threads are scheduled and tasks return or call back; nobody is obliged to start a call,
\* and no spurious wakeup is owed.
Fairness ==
    /\ \A w \in Workers : WF_vars(~aborted /\ WorkerStep(w))
    /\ \A c \in Clients : WF_vars(~aborted /\ ClientStep(c))

FairSpec == Spec /\ Fairness

-----------------------------------------------------------------------------
(* Properties. *)

TypeOK ==
    /\ tasks_ \in Seq(Tasks) /\ accepting_ \in BOOLEAN /\ started_ \in BOOLEAN
    /\ workers_ \in SUBSET Workers /\ joinable \in SUBSET workers_
    /\ wpc \in [Workers -> WorkerState]
    /\ task \in [Workers -> SUBSET Tasks]
    /\ pc \in [Clients -> ClientState] /\ target \in [Clients -> Nat]
    /\ aborted \in BOOLEAN /\ raced \in BOOLEAN
    /\ started \in Seq(Tasks) /\ finished \in SUBSET Tasks /\ starts \in Nat

\* As many workers are awake as there are tasks queued, or no worker sleeps:
\* the notify_one() of dispatch() is never spent on a worker too few, however
\* wakeups and new tasks interleave.
ParallelismKept ==
    In("asleep") # {} => Len(tasks_) <= Cardinality(In("init") \cup In("test"))

\* Once drain() has begun no worker is, or goes back to, sleep.
StopIsSeen == ~accepting_ => In("asleep") = {}

\* Until two owners' calls overlap, a closure lets an exception escape or a
\* closure drains the pool it runs on, the process is not terminated: no worker
\* is joined twice or destroyed joinable.
AbortNeedsRace == aborted => raced \/ finished \cap ThrowTasks # {} \/ In("joining") # {}

\* What holds whatever owners, clients and workers do at once: no worker sleeps
\* that a task or drain() needs, workers leave an empty queue of a draining pool
\* only, a queued task has a worker left, and only a race of owners, a throwing
\* task or a task that drains its own pool ends the process.
PoolInv ==
    /\ TypeOK /\ ParallelismKept /\ StopIsSeen /\ AbortNeedsRace
    /\ \A w \in Workers : wpc[w] = "none" <=> w \notin workers_
    /\ \A w \in Workers : wpc[w] = "done" => ~accepting_ /\ tasks_ = <<>>
    /\ \A w \in Workers : task[w] # {} <=> wpc[w] \in {"running", "joining"}
    /\ \A w \in Workers : wpc[w] = "joining" => ~accepting_ /\ task[w] \cap DrainTasks # {}
    /\ tasks_ # <<>> => workers_ # {} \/ aborted

\* When drain() is over every task the pool ever accepted has returned, and
\* none is left behind in the queue.
DrainedAll ==
    [][\A c \in Clients : ~raced /\ pc[c] = "forget" /\ pc'[c] # "forget" =>
          tasks_ = <<>> /\ Accepted \subseteq finished]_vars

\* resize(count) with no other owner's call in between leaves a started pool of that size: the
\* start() inside it does not find the pool still started.
ResizeTakesEffect ==
    [][\A c \in Clients : ~raced /\ pc[c] = "start" /\ pc'[c] = "idle" =>
          started_' /\ accepting_' /\ Cardinality(workers_') = WorkerCount(target[c])]_vars

\* Both of them: what drain() and resize() leave behind when the calls of the
\* owners do not overlap.
OwnerServed == DrainedAll /\ ResizeTakesEffect

\* drain() returns, whatever tasks were queued when it was called, unless the
\* call of another owner overlaps it: a start() before the join makes it wait for
\* workers that nobody stops.
DrainReturns ==
    \A c \in Clients : (pc[c] = "join") ~> (pc[c] \in {"idle", "start"} \/ raced \/ aborted)

\* Every accepted task is run to its end, shutdown or not.
DispatchedIsRun == \A t \in Tasks : InSeq(t, tasks_) ~> (t \in finished \/ aborted)

\* The pool implements the abstract dispatch service: tasks leave the queue
\* from its front only, each once.
Service == INSTANCE TaskService WITH line <- tasks_, begun <- started, dropped <- {}
ImplementsService == Service!ServiceSpec
=============================================================================
