------------------------------ MODULE TaskQueue ------------------------------
(***************************************************************************)
(* task_queue of src/tasks.hpp: a deque of closures, one dispatch thread   *)
(* that takes them from the front, and any number of client threads.       *)
(*                                                                         *)
(* Every critical section of mutex_ is one action.  What the code does     *)
(* outside the lock (the notification of priority() and shutdown(), the    *)
(* join, the running of a task, the shutdown strategy) is a step of its    *)
(* own.  Only the dispatch thread ever waits on cvar_.                     *)
(***************************************************************************)
EXTENDS Naturals, Sequences

CONSTANTS
    Clients,     \* threads that hold a reference to the queue
    Owners,      \* the clients that call startup() and shutdown()
    Tasks,       \* closures; each is accepted at most once
    StopTasks,   \* closures whose body calls shutdown() on their own queue
    Limits,      \* values passed for the max argument of dispatch()
    MaxStarts,   \* bound: number of dispatch threads created
    MaxConfigs   \* bound: number of handler changes

ASSUME QueueAssumption ==
    /\ Owners \subseteq Clients
    /\ StopTasks \subseteq Tasks
    /\ Limits \subseteq Nat
    /\ MaxStarts \in Nat
    /\ MaxConfigs \in Nat

VARIABLES
    tasks_,      \* std::deque<task_t>
    running_,    \* volatile bool
    joinable,    \* thread_.joinable()
    disp,        \* where the dispatch thread is in process()
    notified,    \* the sleeping dispatch thread has been notified
    pc,          \* where each client is in priority() or shutdown()
    handlers,    \* version of errors_, timeout_ and shutdown_
    aborted,     \* std::terminate was called
    (* History: what the properties are about. *)
    started,     \* tasks taken from the queue, in order
    cleared,     \* tasks discarded by clear()
    rank,        \* position of a task among those dispatch() accepted
    issued,      \* number of tasks dispatch() accepted
    late,        \* tasks started since running_ was last cleared
    seen,        \* tasks accepted when a client saw empty()
    starts       \* dispatch threads created

history == <<started, cleared, rank, issued, late, seen, starts>>
vars == <<tasks_, running_, joinable, disp, notified, pc, handlers, aborted, history>>

ClientState == {"idle", "notify", "notify_all", "join"}
DispState == {"none", "loop", "waiting", "running", "closing", "done"}

InSeq(t, s) == \E i \in DOMAIN s : s[i] = t
Accepted == {t \in Tasks : InSeq(t, started) \/ InSeq(t, tasks_) \/ t \in cleared}
Finished == {t \in Tasks : InSeq(t, started) /\ ~(disp = "running" /\ started[Len(started)] = t)}

Init ==
    /\ tasks_ = <<>> /\ running_ = FALSE /\ joinable = FALSE
    /\ disp = "none" /\ notified = FALSE
    /\ pc = [c \in Clients |-> "idle"]
    /\ handlers = 0 /\ aborted = FALSE
    /\ started = <<>> /\ cleared = {}
    /\ rank = [t \in Tasks |-> 0] /\ issued = 0
    /\ late = 0 /\ seen = [c \in Clients |-> {}] /\ starts = 0

-----------------------------------------------------------------------------
(* Mutated forms of definitions below: what plausible bugs would make them. *)

NotifyNobody == UNCHANGED notified
PushFrontInstead(t) == <<t>> \o tasks_
StartTwice == starts < MaxStarts
DontJoin == TRUE
StopWhenDrained == ~running_ /\ tasks_ = <<>>
TakeBack == tasks_[Len(tasks_)]
DontPop == tasks_
WaitAgain == tasks_ = <<>> /\ disp' = "waiting" /\ notified' = FALSE /\ UNCHANGED <<tasks_, started, late>>

-----------------------------------------------------------------------------
(* Operations of the clients. *)

\* cvar_.notify_one() and cvar_.notify_all(): at most one thread sleeps.
Notify == notified' = (notified \/ disp = "waiting")

HasRoom(max) == max = 0 \/ Len(tasks_) < max

PushBack(t) == Append(tasks_, t)

\* dispatch(): the notification is sent while mutex_ is held.
Dispatch(c, t, max) ==
    /\ pc[c] = "idle" /\ t \notin Accepted
    /\ running_ /\ HasRoom(max)
    /\ tasks_' = PushBack(t)
    /\ Notify
    /\ issued' = issued + 1
    /\ rank' = [rank EXCEPT ![t] = issued + 1]
    /\ UNCHANGED <<running_, joinable, disp, pc, handlers, aborted,
                   started, cleared, late, seen, starts>>

\* priority(): push_front, then unlock; the notification comes after.
Priority(c, t) ==
    /\ pc[c] = "idle" /\ t \notin Accepted
    /\ running_
    /\ tasks_' = <<t>> \o tasks_
    /\ pc' = [pc EXCEPT ![c] = "notify"]
    /\ UNCHANGED <<running_, joinable, disp, notified, handlers, aborted, history>>

PriorityNotify(c) ==
    /\ pc[c] = "notify"
    /\ Notify
    /\ pc' = [pc EXCEPT ![c] = "idle"]
    /\ UNCHANGED <<tasks_, running_, joinable, disp, handlers, aborted, history>>

\* notify(): wake the dispatch thread, whatever the queue holds.
NotifyOp(c) ==
    /\ pc[c] = "idle" /\ running_
    /\ Notify
    /\ UNCHANGED <<tasks_, running_, joinable, disp, pc, handlers, aborted, history>>

Clear(c) ==
    /\ pc[c] = "idle"
    /\ tasks_' = <<>>
    /\ cleared' = cleared \cup {t \in Tasks : InSeq(t, tasks_)}
    /\ UNCHANGED <<running_, joinable, disp, notified, pc, handlers, aborted,
                   started, rank, issued, late, seen, starts>>

\* empty(): the value returned to a caller.
Empty == ~running_ \/ tasks_ = <<>>

\* A client reads empty() and gets true; of a running queue this tells it
\* that everything accepted so far has been taken.
SeeEmpty(c) ==
    /\ pc[c] = "idle" /\ Empty
    /\ seen' = [seen EXCEPT ![c] = IF running_ THEN Accepted ELSE @]
    /\ UNCHANGED <<tasks_, running_, joinable, disp, notified, pc, handlers, aborted,
                   started, cleared, rank, issued, late, starts>>

\* errors(), timeout(), shutdown(handler): refused while running_.
SetHandler(c) ==
    /\ pc[c] = "idle" /\ ~running_ /\ handlers < MaxConfigs
    /\ handlers' = handlers + 1
    /\ UNCHANGED <<tasks_, running_, joinable, disp, notified, pc, aborted, history>>

MayStart == ~running_ /\ starts < MaxStarts

\* startup(): assigning to a joinable std::thread calls std::terminate.
Startup(c) ==
    /\ pc[c] = "idle" /\ c \in Owners /\ MayStart
    /\ running_' = TRUE
    /\ starts' = starts + 1
    /\ late' = 0
    /\ IF joinable
       THEN aborted' = TRUE /\ UNCHANGED <<joinable, disp, notified>>
       ELSE joinable' = TRUE /\ disp' = "loop" /\ notified' = FALSE /\ UNCHANGED aborted
    /\ UNCHANGED <<tasks_, pc, handlers, started, cleared, rank, issued, seen>>

\* shutdown(): running_ is cleared under the lock ...
Shutdown(c) ==
    /\ pc[c] = "idle" /\ c \in Owners /\ running_
    /\ running_' = FALSE
    /\ pc' = [pc EXCEPT ![c] = "notify_all"]
    /\ UNCHANGED <<tasks_, joinable, disp, notified, handlers, aborted, history>>

\* ... the notification is sent without it ...
ShutdownNotify(c) ==
    /\ pc[c] = "notify_all"
    /\ Notify
    /\ pc' = [pc EXCEPT ![c] = IF joinable THEN "join" ELSE "idle"]
    /\ UNCHANGED <<tasks_, running_, joinable, disp, handlers, aborted, history>>

Exited == disp = "done"

\* ... and thread_.join() returns once process() has.
ShutdownJoin(c) ==
    /\ pc[c] = "join" /\ Exited
    /\ pc' = [pc EXCEPT ![c] = "idle"]
    /\ joinable' = FALSE /\ disp' = "none"
    /\ UNCHANGED <<tasks_, running_, notified, handlers, aborted, history>>

-----------------------------------------------------------------------------
(* The dispatch thread: process(). *)

FrontTask == Head(tasks_)

PopFront == Tail(tasks_)

\* Take the front of the queue, unlock, and call it.
RunFront ==
    /\ tasks_ # <<>>
    /\ started' = Append(started, FrontTask)
    /\ tasks_' = PopFront
    /\ disp' = "running"
    /\ late' = IF running_ THEN late ELSE late + 1
    /\ notified' = FALSE

Sleep == tasks_ = <<>> /\ disp' = "waiting" /\ notified' = FALSE /\ UNCHANGED <<tasks_, started, late>>

MustStop == ~running_

\* Top of the loop: running_ is tested, the queue looked at.
Loop ==
    /\ disp = "loop" /\ ~MustStop
    /\ RunFront \/ Sleep
    /\ UNCHANGED <<running_, joinable, pc, handlers, aborted, cleared, rank, issued, seen, starts>>

LoopBreak ==
    /\ disp = "loop" /\ MustStop
    /\ disp' = "closing"
    /\ UNCHANGED <<tasks_, running_, joinable, notified, pc, handlers, aborted, history>>

BackToLoop == tasks_ = <<>> /\ disp' = "loop" /\ notified' = FALSE /\ UNCHANGED <<tasks_, started, late>>

\* wait_for() returns: notified, timed out or spuriously.  running_ is not
\* tested again before a task is taken.
Wake ==
    /\ disp = "waiting"
    /\ RunFront \/ BackToLoop
    /\ UNCHANGED <<running_, joinable, pc, handlers, aborted, cleared, rank, issued, seen, starts>>

\* The task returns, or throws an exception that errors_ receives.
TaskReturns ==
    /\ disp = "running"
    /\ disp' = "loop"
    /\ UNCHANGED <<tasks_, running_, joinable, notified, pc, handlers, aborted, history>>

\* The task calls shutdown() on its own queue: join() of the calling thread
\* throws std::system_error, which the handler of process() catches.
TaskStops ==
    /\ disp = "running" /\ started[Len(started)] \in StopTasks
    /\ running_
    /\ running_' = FALSE
    /\ disp' = "loop"
    /\ UNCHANGED <<tasks_, joinable, notified, pc, handlers, aborted, history>>

\* The shutdown strategy runs in the dispatch thread, then the thread ends.
Closing ==
    /\ disp = "closing"
    /\ disp' = "done"
    /\ UNCHANGED <<tasks_, running_, joinable, notified, pc, handlers, aborted, history>>

-----------------------------------------------------------------------------

ClientCall(c) ==
    \/ \E t \in Tasks, max \in Limits : Dispatch(c, t, max)
    \/ \E t \in Tasks : Priority(c, t)
    \/ NotifyOp(c) \/ Clear(c) \/ SeeEmpty(c) \/ SetHandler(c)
    \/ Startup(c) \/ Shutdown(c)

ClientStep(c) == PriorityNotify(c) \/ ShutdownNotify(c) \/ ShutdownJoin(c)

DispatcherStep == Loop \/ LoopBreak \/ Wake \/ TaskReturns \/ TaskStops \/ Closing

Next ==
    /\ ~aborted
    /\ (\E c \in Clients : ClientCall(c) \/ ClientStep(c)) \/ DispatcherStep

Spec == Init /\ [][Next]_vars

\* The threads are scheduled and tasks return.  A sleeping dispatch thread
\* is only sure to wake once notified: the timeout is the user's choice.  No
\* client is ever obliged to start a call.
DispatcherProgress == Loop \/ LoopBreak \/ (notified /\ Wake) \/ TaskReturns \/ Closing

Fairness ==
    /\ WF_vars(~aborted /\ DispatcherProgress)
    /\ \A c \in Clients : WF_vars(~aborted /\ ClientStep(c))

FairSpec == Spec /\ Fairness

-----------------------------------------------------------------------------
(* Properties. *)

TypeOK ==
    /\ tasks_ \in Seq(Tasks) /\ running_ \in BOOLEAN /\ joinable \in BOOLEAN
    /\ disp \in DispState /\ notified \in BOOLEAN
    /\ pc \in [Clients -> ClientState]
    /\ handlers \in Nat /\ aborted \in BOOLEAN
    /\ started \in Seq(Tasks) /\ cleared \in SUBSET Tasks
    /\ rank \in [Tasks -> Nat] /\ issued \in Nat
    /\ late \in Nat /\ seen \in [Clients -> SUBSET Tasks] /\ starts \in Nat

\* The dispatch thread is never asleep beside a task it was not told about:
\* it has been notified, or the client that pushed the task by priority() is
\* about to do so.  The unconditional wait_for() of process() depends on it.
NoLostWakeup ==
    disp = "waiting" /\ tasks_ # <<>> => notified \/ \E c \in Clients : pc[c] = "notify"

\* A client asleep in join() waits for a thread that has been told to stop:
\* the dispatch thread is not asleep unaware of the cleared running_.
StopIsSeen ==
    (\E c \in Clients : pc[c] = "join") /\ disp = "waiting" => notified

\* No closure is started twice, or both started and still queued or cleared.
AtMostOnce ==
    LET all == started \o tasks_
    IN  /\ \A i, j \in DOMAIN all : i # j => all[i] # all[j]
        /\ \A i \in DOMAIN all : all[i] \notin cleared

\* Tasks accepted by dispatch() are started in the order they were accepted,
\* across restarts of the queue and whatever priority() and clear() do.
DispatchOrder ==
    LET all == started \o tasks_
    IN  \A i, j \in DOMAIN all :
            i < j /\ rank[all[i]] > 0 /\ rank[all[j]] > 0 => rank[all[i]] < rank[all[j]]

\* Once running_ is cleared at most one more task is started: the one that a
\* dispatch thread woken from wait_for() finds at the front.
AtMostOneLate == late <= 1

\* startup() assigns to a joinable thread_, and std::terminate is called, only
\* while another client is inside shutdown() or after a task has shut down the
\* queue that ran it.
Stopping(c) == pc[c] \in {"notify_all", "join"}

Overlap == (\E c \in Clients : Stopping(c)) \/ (\E i \in DOMAIN started : started[i] \in StopTasks)

AbortNeedsOverlap == aborted => Overlap

\* shutdown() returns to the client that is inside it; and when that client had
\* seen empty() of the running queue to be true, every task accepted before it
\* looked has finished by then.
ShutdownReturns ==
    /\ \A c \in Clients : (pc[c] = "notify_all") ~> (pc[c] = "idle" \/ aborted)
    /\ [][\A c \in Clients : pc[c] = "join" /\ pc'[c] = "idle" =>
             seen[c] \subseteq Finished \cup cleared]_vars

\* A task in the queue is started, or cleared, or the queue is stopped.
QueuedIsRun ==
    \A t \in Tasks : InSeq(t, tasks_) ~> (InSeq(t, started) \/ t \in cleared \/ ~running_ \/ aborted)

\* The inductive invariant: there is a dispatch thread exactly while thread_
\* is joinable; a client inside shutdown() has stopped it and is alone there;
\* a task is started late only by a thread that slept when running_ fell.
OneDispatcher == (joinable <=> disp # "none") /\ (running_ => joinable)

StopperAlone ==
    \A c \in Clients : pc[c] \in {"notify_all", "join"} =>
        /\ joinable /\ (aborted \/ ~running_)
        /\ \A d \in Clients : pc[d] \in {"notify_all", "join"} => d = c

LateOnlyFromSleep ==
    /\ notified => disp = "waiting"
    /\ running_ => late = 0
    /\ disp = "waiting" => late = 0
    /\ late <= 1

QueueInv ==
    TypeOK /\ OneDispatcher /\ StopperAlone /\ LateOnlyFromSleep /\ NoLostWakeup /\ StopIsSeen

\* The queue implements the abstract dispatch service.
Service == INSTANCE TaskService WITH line <- tasks_, begun <- started, dropped <- cleared
ImplementsService == Service!ServiceSpec
=============================================================================
