------------------------------ MODULE TimerQueue ------------------------------
(***************************************************************************)
(* timer_queue of src/tasks.hpp: closures ordered by the time they expire, *)
(* and one thread that runs each when its time has come and puts periodic  *)
(* ones back.                                                              *)
(*                                                                         *)
(* Every critical section of lock_ is one action.  The steady clock is a   *)
(* counter that any step may find further on.  timers_ is a multimap,      *)
(* modelled by the sequence of its values in iteration order; a timer is a *)
(* record of its id, its key and its period (0 for a single shot).         *)
(***************************************************************************)
EXTENDS Naturals, Sequences, FiniteSets

CONSTANTS
    Clients,     \* threads that hold a reference to the timer queue
    Owners,      \* the clients that call startup(), shutdown(), the destructor
    Periods,     \* periods passed to periodic(), repeats() and reset()
    Offsets,     \* offsets passed to reset()
    MaxTimers,   \* bound: timers created
    MaxTime      \* bound: the clock stops here

ASSUME TimerAssumption ==
    /\ Owners \subseteq Clients
    /\ Periods \subseteq Nat /\ Offsets \subseteq Nat
    /\ MaxTimers \in Nat /\ MaxTime \in Nat

Ids == 0..(MaxTimers - 1)
Times == 0..MaxTime

VARIABLES
    timers_,     \* std::multimap<timepoint_t, timer_t>
    next_,       \* id of the next timer
    stop_,       \* std::atomic<bool>
    joinable,    \* thread_.joinable()
    thr,         \* where the timer thread is in run()
    deadline,    \* the times a sleeping timer thread waits for: one or none
    woken,       \* the sleeping timer thread has been notified
    current,     \* id of the timer whose task runs
    pc,          \* where each client is in shutdown()
    now,         \* std::chrono::steady_clock::now()
    broken,      \* a closure was copied after its destruction
    aborted,     \* std::terminate was called
    misuse,      \* history: what was done that may end the process, see Misuses
    origin,      \* history: first expiry since a timer was last scheduled
    laps,        \* history: times it expired since then
    ended        \* history: ids that cancel() or clear() removed

vars == <<timers_, next_, stop_, joinable, thr, deadline, woken, current, pc, now,
          broken, aborted, misuse, origin, laps, ended>>

\* startup() created a thread after shutdown(); a task called shutdown() on its
\* own queue; a task threw what is no std::exception.
Misuses == {"restart", "self_stop", "escape"}

ThreadState == {"none", "init", "loop", "asleep", "running", "done"}

Init ==
    /\ timers_ = <<>> /\ next_ = 0 /\ stop_ = FALSE
    /\ joinable = FALSE /\ thr = "none" /\ deadline = {} /\ woken = FALSE
    /\ current = 0 /\ pc = [c \in Clients |-> "idle"] /\ now = 0
    /\ broken = FALSE /\ aborted = FALSE /\ misuse = {}
    /\ origin = [i \in Ids |-> 0] /\ laps = [i \in Ids |-> 0] /\ ended = {}

-----------------------------------------------------------------------------
(* The multimap. *)

Timer(id, expires, period) == [id |-> id, expires |-> expires, period |-> period]

Queued(id) == \E i \in DOMAIN timers_ : timers_[i].id = id

\* emplace(): after every element whose key is not greater.
Emplace(s, t) ==
    LET k == Cardinality({i \in DOMAIN s : s[i].expires <= t.expires})
    IN  SubSeq(s, 1, k) \o <<t>> \o SubSeq(s, k + 1, Len(s))

\* find(): where the timer is that a call names.
Find(s, id) == CHOOSE i \in DOMAIN s : s[i].id = id

\* erase() of the element found.
Erase(s, id) ==
    LET k == Find(s, id)
    IN  SubSeq(s, 1, k - 1) \o SubSeq(s, k + 1, Len(s))

TimerOf(id) == timers_[Find(timers_, id)]

-----------------------------------------------------------------------------
(* Mutated forms of definitions below: what plausible bugs would make them. *)

NotifyNobody == UNCHANGED woken
NextFromNow(t) == now + t.period
StopWhenIdle == stop_ /\ timers_ = <<>>
SleepForever == {}

-----------------------------------------------------------------------------
(* Operations of the clients. *)

Notify == woken' = (woken \/ thr = "asleep")

\* at(), once() and periodic(): whatever clock reading, delay and shortening
\* the arguments hold, they come down to a time and a period.
Add(c, expires, period) ==
    /\ pc[c] = "idle" /\ next_ < MaxTimers
    /\ timers_' = Emplace(timers_, Timer(next_, expires, period))
    /\ next_' = next_ + 1
    /\ Notify
    /\ origin' = [origin EXCEPT ![next_] = expires]
    /\ UNCHANGED <<stop_, joinable, thr, deadline, current, pc, now, broken, aborted, misuse, laps, ended>>

\* repeats(id, period), and finish(id), which is repeats(id, zero).
Repeats(c, id, period) ==
    /\ pc[c] = "idle" /\ Queued(id)
    /\ timers_' = [i \in DOMAIN timers_ |->
                      IF timers_[i].id = id THEN [timers_[i] EXCEPT !.period = period] ELSE timers_[i]]
    /\ origin' = [origin EXCEPT ![id] = TimerOf(id).expires]
    /\ laps' = [laps EXCEPT ![id] = 0]
    /\ UNCHANGED <<next_, stop_, joinable, thr, deadline, woken, current, pc, now, broken, aborted, misuse, ended>>

Cancel(c, id) ==
    /\ pc[c] = "idle" /\ Queued(id)
    /\ timers_' = Erase(timers_, id)
    /\ Notify
    /\ ended' = ended \cup {id}
    /\ UNCHANGED <<next_, stop_, joinable, thr, deadline, current, pc, now, broken, aborted, misuse, origin, laps>>

\* reset() and refresh() copy the closure through a reference to the element
\* they have just erased: the copy may be good or not.
Reschedule(id, expires, period) ==
    /\ timers_' = Emplace(Erase(timers_, id), Timer(id, expires, period))
    /\ broken' \in BOOLEAN
    /\ origin' = [origin EXCEPT ![id] = expires]
    /\ laps' = [laps EXCEPT ![id] = 0]

\* interval zero keeps the period the timer has.
Reset(c, id, offset, interval) ==
    /\ pc[c] = "idle" /\ Queued(id)
    /\ Reschedule(id, now + offset, IF interval = 0 THEN TimerOf(id).period ELSE interval)
    /\ Notify
    /\ UNCHANGED <<next_, stop_, joinable, thr, deadline, current, pc, now, aborted, misuse, ended>>

Refresh(c, id) ==
    /\ pc[c] = "idle" /\ Queued(id) /\ TimerOf(id).period # 0
    /\ TimerOf(id).expires > now
    /\ Reschedule(id, now + TimerOf(id).period, TimerOf(id).period)
    /\ Notify
    /\ UNCHANGED <<next_, stop_, joinable, thr, deadline, current, pc, now, aborted, misuse, ended>>

\* A periodic timer that is due but has not been run yet is erased, and the
\* caller is told true.
RefreshLate(c, id) ==
    /\ pc[c] = "idle" /\ Queued(id) /\ TimerOf(id).period # 0
    /\ TimerOf(id).expires <= now
    /\ timers_' = Erase(timers_, id)
    /\ Notify
    /\ UNCHANGED <<next_, stop_, joinable, thr, deadline, current, pc, now, broken, aborted, misuse,
                   origin, laps, ended>>

\* clear() notifies nobody.
Clear(c) ==
    /\ pc[c] = "idle"
    /\ timers_' = <<>>
    /\ ended' = ended \cup {id \in Ids : Queued(id)}
    /\ UNCHANGED <<next_, stop_, joinable, thr, deadline, woken, current, pc, now, broken, aborted, misuse,
                   origin, laps>>

\* startup() does nothing while thread_ is joinable.
Startup(c) ==
    /\ pc[c] = "idle" /\ c \in Owners /\ ~joinable
    /\ joinable' = TRUE /\ thr' = "init"
    /\ misuse' = IF stop_ THEN misuse \cup {"restart"} ELSE misuse
    /\ UNCHANGED <<timers_, next_, stop_, deadline, woken, current, pc, now, broken, aborted,
                   origin, laps, ended>>

\* shutdown(): stop_ is set under the lock and never cleared again ...
Shutdown(c) ==
    /\ pc[c] = "idle" /\ c \in Owners /\ ~stop_
    /\ stop_' = TRUE
    /\ pc' = [pc EXCEPT ![c] = "notify_all"]
    /\ UNCHANGED <<timers_, next_, joinable, thr, deadline, woken, current, now, broken, aborted, misuse,
                   origin, laps, ended>>

NeedsJoin == joinable

\* ... the notification comes after it is released ...
ShutdownNotify(c) ==
    /\ pc[c] = "notify_all"
    /\ Notify
    /\ pc' = [pc EXCEPT ![c] = IF NeedsJoin THEN "join" ELSE "idle"]
    /\ UNCHANGED <<timers_, next_, stop_, joinable, thr, deadline, current, now, broken, aborted, misuse,
                   origin, laps, ended>>

Exited == thr = "done"

\* ... and then the thread is joined.
ShutdownJoin(c) ==
    /\ pc[c] = "join" /\ Exited
    /\ pc' = [pc EXCEPT ![c] = "idle"]
    /\ joinable' = FALSE /\ thr' = "none"
    /\ UNCHANGED <<timers_, next_, stop_, deadline, woken, current, now, broken, aborted, misuse,
                   origin, laps, ended>>

\* The destructor's shutdown() returns at once when stop_ is set; destroying a
\* joinable thread_ then calls std::terminate.
Destroy(c) ==
    /\ c \in Owners /\ \A d \in Clients : pc[d] = "idle"
    /\ stop_ /\ joinable
    /\ aborted' = TRUE
    /\ UNCHANGED <<timers_, next_, stop_, joinable, thr, deadline, woken, current, pc, now, broken, misuse,
                   origin, laps, ended>>

-----------------------------------------------------------------------------
(* The timer thread: run(). *)

\* startup_() returns.
ThreadInit ==
    /\ thr = "init"
    /\ thr' = "loop"
    /\ UNCHANGED <<timers_, next_, stop_, joinable, deadline, woken, current, pc, now, broken, aborted, misuse,
                   origin, laps, ended>>

MustStop == stop_

ThreadStop ==
    /\ thr = "loop" /\ MustStop
    /\ thr' = "done"
    /\ UNCHANGED <<timers_, next_, stop_, joinable, deadline, woken, current, pc, now, broken, aborted, misuse,
                   origin, laps, ended>>

IsDue(t) == t.expires <= now

NextExpiry(t) == t.expires + t.period

PutBack(t) == t.period # 0

\* The first timer is due: take it, put it back if periodic, and run its task
\* outside the lock.
Fire ==
    /\ thr = "loop" /\ ~MustStop /\ timers_ # <<>>
    /\ LET first == Head(timers_)
       IN  /\ IsDue(first)
           /\ timers_' = IF PutBack(first)
                         THEN Emplace(Tail(timers_), [first EXCEPT !.expires = NextExpiry(first)])
                         ELSE Tail(timers_)
           /\ current' = first.id
           /\ laps' = [laps EXCEPT ![first.id] = @ + 1]
    /\ thr' = "running"
    /\ UNCHANGED <<next_, stop_, joinable, deadline, woken, pc, now, broken, aborted, misuse, origin, ended>>

\* cond_.wait() with nothing queued, cond_.wait_until() otherwise.
WaitFor == IF timers_ = <<>> THEN {} ELSE {Head(timers_).expires}

ThreadSleep ==
    /\ thr = "loop" /\ ~MustStop
    /\ timers_ # <<>> => ~IsDue(Head(timers_))
    /\ thr' = "asleep" /\ woken' = FALSE
    /\ deadline' = WaitFor
    /\ UNCHANGED <<timers_, next_, stop_, joinable, current, pc, now, broken, aborted, misuse, origin, laps, ended>>

\* Either wait may return for no reason.  What follows is what the top of the
\* loop does: stop_ is tested, then the queue.
Wake ==
    /\ thr = "asleep"
    /\ thr' = "loop" /\ woken' = FALSE /\ deadline' = {}
    /\ UNCHANGED <<timers_, next_, stop_, joinable, current, pc, now, broken, aborted, misuse, origin, laps, ended>>

\* The task returns, or throws what errors_ receives.  The calls it makes are a
\* client's, but for a shutdown() that finds stop_ clear.
TaskReturns ==
    /\ thr = "running"
    /\ thr' = "loop"
    /\ UNCHANGED <<timers_, next_, stop_, joinable, deadline, woken, current, pc, now, broken, aborted, misuse,
                   origin, laps, ended>>

\* The task calls shutdown() on its own queue: stop_ is set, nobody sleeps to be
\* notified, and the join of its own thread throws a std::system_error, which
\* errors_ receives.  thread_ stays joinable.
TaskStops ==
    /\ thr = "running" /\ ~stop_
    /\ stop_' = TRUE
    /\ thr' = "loop"
    /\ misuse' = misuse \cup {"self_stop"}
    /\ UNCHANGED <<timers_, next_, joinable, deadline, woken, current, pc, now, broken, aborted,
                   origin, laps, ended>>

\* What is no std::exception passes the handler and meets the noexcept of run().
TaskEscapes ==
    /\ thr = "running"
    /\ aborted' = TRUE
    /\ misuse' = misuse \cup {"escape"}
    /\ UNCHANGED <<timers_, next_, stop_, joinable, thr, deadline, woken, current, pc, now, broken,
                   origin, laps, ended>>

Tick ==
    /\ now < MaxTime
    /\ now' = now + 1
    /\ UNCHANGED <<timers_, next_, stop_, joinable, thr, deadline, woken, current, pc, broken, aborted, misuse,
                   origin, laps, ended>>

-----------------------------------------------------------------------------

ClientCall(c) ==
    \/ \E e \in Times, p \in Periods \cup {0} : Add(c, e, p)
    \/ \E id \in Ids, p \in Periods \cup {0} : Repeats(c, id, p)
    \/ \E id \in Ids : Cancel(c, id) \/ Refresh(c, id) \/ RefreshLate(c, id)
    \/ \E id \in Ids, o \in Offsets, p \in Periods \cup {0} : Reset(c, id, o, p)
    \/ Clear(c) \/ Startup(c) \/ Shutdown(c) \/ Destroy(c)

ClientStep(c) == ShutdownNotify(c) \/ ShutdownJoin(c)

ThreadStep ==
    ThreadInit \/ ThreadStop \/ Fire \/ ThreadSleep \/ TaskReturns \/ TaskStops \/ TaskEscapes

Next ==
    /\ ~broken /\ ~aborted
    /\ (\E c \in Clients : ClientCall(c) \/ ClientStep(c)) \/ ThreadStep \/ Wake \/ Tick

Spec == Init /\ [][Next]_vars

\* Time passes, threads are scheduled, tasks return, and a wait ends once it
\* was notified or its deadline has passed.
MustWake == woken \/ \E d \in deadline : d <= now

Live == ~broken /\ ~aborted

Fairness ==
    /\ WF_vars(Live /\ Tick)
    /\ WF_vars(Live /\ (ThreadStep \/ (MustWake /\ Wake)))
    /\ \A c \in Clients : WF_vars(Live /\ ClientStep(c))

FairSpec == Spec /\ Fairness

-----------------------------------------------------------------------------
(* Properties. *)

TypeOK ==
    /\ timers_ \in Seq([id : Ids, expires : Nat, period : Nat])
    /\ next_ \in 0..MaxTimers /\ stop_ \in BOOLEAN /\ joinable \in BOOLEAN
    /\ thr \in ThreadState /\ deadline \in SUBSET Nat /\ woken \in BOOLEAN
    /\ current \in Nat /\ pc \in [Clients -> {"idle", "notify_all", "join"}] /\ now \in Nat
    /\ broken \in BOOLEAN /\ aborted \in BOOLEAN /\ misuse \in SUBSET Misuses
    /\ origin \in [Ids -> Nat] /\ laps \in [Ids -> Nat] /\ ended \in SUBSET Ids

\* Timers are run in the order they expire, and no id is queued twice, after
\* any mix of insertions, put-backs and reschedulings.
Ordered ==
    \A i, j \in DOMAIN timers_ : i < j =>
        timers_[i].expires <= timers_[j].expires /\ timers_[i].id # timers_[j].id

\* A sleeping timer thread that nobody notified wakes no later than the first
\* timer expires: no operation makes the front earlier without waking it.
WakesInTime ==
    thr = "asleep" /\ ~woken /\ timers_ # <<>> =>
        \E d \in deadline : d <= Head(timers_).expires

\* A client blocked in join() waits for a thread that has been told.
StopIsSeen == (\E c \in Clients : pc[c] = "join") /\ thr = "asleep" => woken

\* However the calls of clients and tasks interleave, the destructor finds a
\* joinable thread_ behind a set stop_, and ends the process, only if startup()
\* was called after shutdown() or a task stopped its own queue; and nothing else
\* ends it but a task that throws what is no std::exception.
AbortNeedsMisuse == aborted => misuse # {}

\* All at once: the multimap is in order, the thread that serves it never sleeps
\* past its front or past a request to stop, and only a queue that was restarted,
\* that a task of its own stopped or that ran a task with a foreign exception can
\* end the process.
TimerInv == TypeOK /\ Ordered /\ WakesInTime /\ StopIsSeen /\ AbortNeedsMisuse

\* Periodic timers do not drift: the n-th expiry is n periods after the first
\* one asked for, however late the tasks before it were run.
NoDrift ==
    \A i \in DOMAIN timers_ :
        LET t == timers_[i] IN t.expires = origin[t.id] + laps[t.id] * t.period

\* No task is run before its time: a timer that has been run n times since it
\* was scheduled had its n-th expiry in the past.
NeverEarly ==
    thr = "running" /\ laps[current] > 0 =>
        /\ origin[current] <= now
        /\ Queued(current) => origin[current] + (laps[current] - 1) * TimerOf(current).period <= now

\* A timer removed by cancel() or clear() never comes back, even when its
\* task was running at the time.
CancelIsFinal == \A id \in ended : ~Queued(id)

\* A timer is run at the times asked for: neither late by drift, nor early, nor
\* once cancel() or clear() has taken it, through resets, refreshes and put-backs.
OnSchedule == NoDrift /\ NeverEarly /\ CancelIsFinal

\* shutdown() returns.
ShutdownReturns ==
    \A c \in Clients : (pc[c] = "notify_all") ~> (pc[c] = "idle" \/ ~Live)

\* A timer that is due is run, or rescheduled or removed by a client, or the
\* thread is being stopped.
DueIsRun ==
    \A id \in Ids :
        (joinable /\ Queued(id) /\ TimerOf(id).expires <= now) ~>
            (~Queued(id) \/ TimerOf(id).expires > now \/ (thr = "running" /\ current = id) \/ stop_ \/ ~Live)

\* refresh() either leaves the timer alone or schedules it anew: what the
\* comment "if hasnt expired, refresh..." and the result true say.
RefreshKeeps ==
    [][\A id \in Ids : Queued(id) /\ ~(Queued(id))' =>
          id \in ended' \/ (thr = "loop" /\ thr' = "running" /\ current' = id)]_vars
=============================================================================
