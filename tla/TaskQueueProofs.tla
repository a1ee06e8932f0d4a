--------------------------- MODULE TaskQueueProofs ---------------------------
(***************************************************************************)
(* Proofs about TaskQueue, for every number of clients, closures, owners   *)
(* and restarts, with closures that shut down their own queue or without.  *)
(***************************************************************************)
EXTENDS TaskQueue, TLAPS

\* Type correctness of every action of process() and of the client calls.
LEMMA TypeInit == Init => TypeOK
<1> SUFFICES ASSUME Init PROVE TypeOK
  OBVIOUS
<1>1. tasks_ \in Seq(Tasks) /\ started \in Seq(Tasks) /\ disp \in DispState
  BY DEF Init, DispState
<1>2. /\ running_ \in BOOLEAN /\ joinable \in BOOLEAN /\ notified \in BOOLEAN
      /\ aborted \in BOOLEAN /\ cleared \in SUBSET Tasks
  BY DEF Init
<1>3. /\ handlers \in Nat /\ issued \in Nat /\ late \in Nat /\ starts \in Nat
      /\ rank \in [Tasks -> Nat]
  BY DEF Init
<1>4. seen \in [Clients -> SUBSET Tasks]
  BY DEF Init
<1>5. pc \in [Clients -> ClientState]
  BY DEF Init, ClientState
<1> QED
  BY <1>1, <1>2, <1>3, <1>4, <1>5 DEF TypeOK

\* What taking the front task does to the variables it changes.
LEMMA RunFrontType ==
  ASSUME TypeOK, RunFront
  PROVE  /\ tasks_' \in Seq(Tasks) /\ started' \in Seq(Tasks)
         /\ disp' = "running" /\ notified' = FALSE /\ late' \in Nat
<1>1. tasks_ \in Seq(Tasks) /\ started \in Seq(Tasks) /\ late \in Nat
  BY DEF TypeOK
<1>2. Head(tasks_) \in Tasks /\ Tail(tasks_) \in Seq(Tasks)
  BY <1>1 DEF RunFront
<1>3. tasks_' \in Seq(Tasks) /\ started' \in Seq(Tasks)
  BY <1>1, <1>2 DEF RunFront, FrontTask, PopFront
<1>4. late' \in Nat
  BY <1>1 DEF RunFront
<1> QED
  BY <1>3, <1>4 DEF RunFront

\* Every step of a client or of the dispatch thread keeps the types.
LEMMA TypeStep == TypeOK /\ [Next]_vars => TypeOK'
<1> SUFFICES ASSUME TypeOK, [Next]_vars PROVE TypeOK'
  OBVIOUS
<1> USE QueueAssumption DEF TypeOK, DispState, ClientState, history
<1>1. ASSUME NEW c \in Clients, NEW t \in Tasks, NEW max \in Limits, Dispatch(c, t, max)
      PROVE TypeOK'
  BY <1>1 DEF Dispatch, Notify, PushBack
<1>2. ASSUME NEW c \in Clients, NEW t \in Tasks, Priority(c, t) PROVE TypeOK'
  BY <1>2 DEF Priority
<1>3. ASSUME NEW c \in Clients, PriorityNotify(c) PROVE TypeOK'
  BY <1>3 DEF PriorityNotify, Notify
<1>4. ASSUME NEW c \in Clients, NotifyOp(c) PROVE TypeOK'
  BY <1>4 DEF NotifyOp, Notify
<1>5. ASSUME NEW c \in Clients, Clear(c) PROVE TypeOK'
  BY <1>5 DEF Clear
<1>6. ASSUME NEW c \in Clients, SeeEmpty(c) PROVE TypeOK'
  BY <1>6 DEF SeeEmpty, Accepted
<1>7. ASSUME NEW c \in Clients, SetHandler(c) PROVE TypeOK'
  BY <1>7 DEF SetHandler
<1>8. ASSUME NEW c \in Clients, Startup(c) PROVE TypeOK'
  <2>1. /\ running_' = TRUE /\ starts' = starts + 1 /\ late' = 0
        /\ UNCHANGED <<tasks_, pc, handlers, started, cleared, rank, issued, seen>>
    BY <1>8 DEF Startup
  <2>2. joinable' \in BOOLEAN /\ notified' \in BOOLEAN /\ aborted' \in BOOLEAN
    BY <1>8, Zenon DEF Startup
  <2>3. disp' \in DispState
    BY <1>8 DEF Startup
  <2> QED
    BY <2>1, <2>2, <2>3
<1>9. ASSUME NEW c \in Clients, Shutdown(c) PROVE TypeOK'
  BY <1>9 DEF Shutdown
<1>10. ASSUME NEW c \in Clients, ShutdownNotify(c) PROVE TypeOK'
  BY <1>10 DEF ShutdownNotify, Notify
<1>11. ASSUME NEW c \in Clients, ShutdownJoin(c) PROVE TypeOK'
  BY <1>11 DEF ShutdownJoin
<1>12. CASE Loop
  <2>1. CASE RunFront
    BY <1>12, <2>1, RunFrontType DEF Loop
  <2>2. CASE Sleep
    BY <1>12, <2>2 DEF Loop, Sleep
  <2> QED
    BY <1>12, <2>1, <2>2 DEF Loop
<1>13. CASE LoopBreak
  BY <1>13 DEF LoopBreak
<1>14. CASE Wake
  <2>1. CASE RunFront
    BY <1>14, <2>1, RunFrontType DEF Wake
  <2>2. CASE BackToLoop
    BY <1>14, <2>2 DEF Wake, BackToLoop
  <2> QED
    BY <1>14, <2>1, <2>2 DEF Wake
<1>15. CASE TaskReturns
  BY <1>15 DEF TaskReturns
<1>16. CASE TaskStops
  BY <1>16 DEF TaskStops
<1>17. CASE Closing
  BY <1>17 DEF Closing
<1>18. CASE UNCHANGED vars
  BY <1>18 DEF vars
<1> QED
  BY <1>1, <1>2, <1>3, <1>4, <1>5, <1>6, <1>7, <1>8, <1>9, <1>10, <1>11, <1>12, <1>13,
     <1>14, <1>15, <1>16, <1>17, <1>18
  DEF Next, ClientCall, ClientStep, DispatcherStep

\* The variables of the queue always have the types the class declares.
THEOREM TypeCorrect == Spec => []TypeOK
  BY TypeInit, TypeStep, PTL DEF Spec

-----------------------------------------------------------------------------

\* The part of the inductive invariant that is not about types.
Shape == OneDispatcher /\ StopperAlone /\ LateOnlyFromSleep /\ NoLostWakeup /\ StopIsSeen

\* A queue that was just constructed satisfies the inductive invariant.
LEMMA InvInit == Init => QueueInv
<1> SUFFICES ASSUME Init PROVE QueueInv
  OBVIOUS
<1>1. OneDispatcher /\ LateOnlyFromSleep /\ NoLostWakeup /\ StopIsSeen
  BY DEF Init, OneDispatcher, LateOnlyFromSleep, NoLostWakeup, StopIsSeen
<1>2. StopperAlone
  BY DEF Init, StopperAlone
<1> QED
  BY <1>1, <1>2, TypeInit DEF QueueInv

\* No call and no step of process() breaks the inductive invariant.
LEMMA InvStep == QueueInv /\ [Next]_vars => QueueInv'
<1> SUFFICES ASSUME QueueInv, [Next]_vars PROVE QueueInv'
  OBVIOUS
<1>0. TypeOK /\ TypeOK' /\ Shape
  BY TypeStep DEF QueueInv, Shape
<1>a. SUFFICES Shape'
  BY <1>0 DEF QueueInv, Shape
<1> USE <1>0 DEF TypeOK, DispState, ClientState, history,
        Shape, OneDispatcher, StopperAlone, LateOnlyFromSleep, NoLostWakeup, StopIsSeen
<1>1. ASSUME ~aborted, NEW c \in Clients, NEW t \in Tasks, NEW max \in Limits, Dispatch(c, t, max) PROVE Shape'
  BY <1>1 DEF Dispatch, Notify, PushBack
<1>2. ASSUME ~aborted, NEW c \in Clients, NEW t \in Tasks, Priority(c, t) PROVE Shape'
  BY <1>2 DEF Priority
<1>3. ASSUME ~aborted, NEW c \in Clients, PriorityNotify(c) PROVE Shape'
  BY <1>3 DEF PriorityNotify, Notify
<1>4. ASSUME ~aborted, NEW c \in Clients, NotifyOp(c) PROVE Shape'
  BY <1>4 DEF NotifyOp, Notify
<1>5. ASSUME ~aborted, NEW c \in Clients, Clear(c) PROVE Shape'
  BY <1>5 DEF Clear
<1>6. ASSUME ~aborted, NEW c \in Clients, SeeEmpty(c) PROVE Shape'
  BY <1>6 DEF SeeEmpty
<1>7. ASSUME ~aborted, NEW c \in Clients, SetHandler(c) PROVE Shape'
  BY <1>7 DEF SetHandler
<1>8. ASSUME ~aborted, NEW c \in Clients, Startup(c) PROVE Shape'
  BY <1>8 DEF Startup, MayStart
<1>9. ASSUME ~aborted, NEW c \in Clients, Shutdown(c) PROVE Shape'
  BY <1>9 DEF Shutdown
<1>10. ASSUME ~aborted, NEW c \in Clients, ShutdownNotify(c) PROVE Shape'
  BY <1>10 DEF ShutdownNotify, Notify
<1>11. ASSUME ~aborted, NEW c \in Clients, ShutdownJoin(c) PROVE Shape'
  BY <1>11 DEF ShutdownJoin, Exited
<1>12. ASSUME ~aborted, Loop PROVE Shape'
  BY <1>12 DEF Loop, RunFront, Sleep, MustStop
<1>13. ASSUME ~aborted, LoopBreak PROVE Shape'
  BY <1>13 DEF LoopBreak, MustStop
<1>14. ASSUME ~aborted, Wake PROVE Shape'
  BY <1>14 DEF Wake, RunFront, BackToLoop
<1>15. ASSUME ~aborted, TaskReturns PROVE Shape'
  BY <1>15 DEF TaskReturns
<1>16. ASSUME ~aborted, TaskStops PROVE Shape'
  BY <1>16 DEF TaskStops
<1>17. ASSUME ~aborted, Closing PROVE Shape'
  BY <1>17 DEF Closing
<1>18. CASE UNCHANGED vars
  BY <1>18 DEF vars
<1> QED
  BY <1>1, <1>2, <1>3, <1>4, <1>5, <1>6, <1>7, <1>8, <1>9, <1>10, <1>11, <1>12, <1>13,
     <1>14, <1>15, <1>16, <1>17, <1>18
  DEF Next, ClientCall, ClientStep, DispatcherStep

\* The inductive invariant holds of every queue, whoever starts and stops it.
THEOREM Invariance == Spec => []QueueInv
  BY InvInit, InvStep, PTL DEF Spec

\* process() never sleeps beside a task it was not, or is not about to be,
\* told of.
THEOREM WakeupTheorem == Spec => []NoLostWakeup
<1>1. QueueInv => NoLostWakeup
  BY DEF QueueInv
<1> QED
  BY <1>1, Invariance, PTL

\* Whoever is in the join of shutdown() waits for a thread that was told.
THEOREM StopTheorem == Spec => []StopIsSeen
<1>1. QueueInv => StopIsSeen
  BY DEF QueueInv
<1> QED
  BY <1>1, Invariance, PTL

\* At most one task is started after shutdown() has cleared running_.
THEOREM LateTheorem == Spec => []AtMostOneLate
<1>1. QueueInv => AtMostOneLate
  BY DEF QueueInv, LateOnlyFromSleep, AtMostOneLate
<1> QED
  BY <1>1, Invariance, PTL

-----------------------------------------------------------------------------
(* std::terminate needs an overlap of calls. *)

\* A dispatch thread that stops while thread_ is joinable has somebody inside
\* shutdown(), or a task behind it that stopped the queue.
\* (The task that runs is the last of those started.)
StopHasCause ==
    /\ (joinable /\ ~running_) \/ aborted => Overlap
    /\ disp = "running" => started # <<>>

\* Each step keeps it: shutdown() is left by joining the thread, and the tasks
\* that were started stay started.
LEMMA CauseStep ==
  ASSUME QueueInv, StopHasCause, [Next]_vars
  PROVE  StopHasCause'
<1> USE DEF StopHasCause, Overlap, Stopping, history, QueueInv, TypeOK, ClientState
<1>1. ASSUME ~aborted, NEW c \in Clients, NEW t \in Tasks, NEW max \in Limits, Dispatch(c, t, max)
      PROVE StopHasCause'
  BY <1>1 DEF Dispatch
<1>2. ASSUME ~aborted, NEW c \in Clients, NEW t \in Tasks, Priority(c, t) PROVE StopHasCause'
  BY <1>2 DEF Priority
<1>3. ASSUME ~aborted, NEW c \in Clients, PriorityNotify(c) PROVE StopHasCause'
  BY <1>3 DEF PriorityNotify
<1>4. ASSUME ~aborted, NEW c \in Clients, NotifyOp(c) \/ Clear(c) \/ SeeEmpty(c) \/ SetHandler(c)
      PROVE StopHasCause'
  BY <1>4 DEF NotifyOp, Clear, SeeEmpty, SetHandler
<1>5. ASSUME ~aborted, NEW c \in Clients, Startup(c) PROVE StopHasCause'
  BY <1>5 DEF Startup, MayStart
<1>6. ASSUME ~aborted, NEW c \in Clients, Shutdown(c) PROVE StopHasCause'
  BY <1>6 DEF Shutdown
<1>7. ASSUME ~aborted, NEW c \in Clients, ShutdownNotify(c) PROVE StopHasCause'
  BY <1>7 DEF ShutdownNotify, OneDispatcher
<1>8. ASSUME ~aborted, NEW c \in Clients, ShutdownJoin(c) PROVE StopHasCause'
  BY <1>8 DEF ShutdownJoin
<1>9. ASSUME ~aborted, Loop \/ Wake PROVE StopHasCause'
  <2>1. CASE RunFront
    <3>1. ASSUME NEW i \in DOMAIN started
          PROVE  i \in DOMAIN started' /\ started'[i] = started[i]
      BY <2>1 DEF RunFront
    <3>2. started' # <<>> /\ UNCHANGED <<pc, running_, joinable, aborted>>
      BY <1>9, <2>1 DEF RunFront, Loop, Wake
    <3>3. Overlap => Overlap'
      BY <3>1, <3>2
    <3> QED
      BY <3>2, <3>3
  <2>2. CASE Sleep \/ BackToLoop
    BY <1>9, <2>2 DEF Loop, Wake, Sleep, BackToLoop
  <2> QED
    BY <1>9, <2>1, <2>2 DEF Loop, Wake
<1>10. ASSUME ~aborted, LoopBreak \/ TaskReturns \/ Closing PROVE StopHasCause'
  BY <1>10 DEF LoopBreak, TaskReturns, Closing
<1>11. ASSUME ~aborted, TaskStops PROVE StopHasCause'
  <2>1. Len(started) \in DOMAIN started /\ started[Len(started)] \in StopTasks
    BY <1>11 DEF TaskStops
  <2> QED
    BY <1>11, <2>1 DEF TaskStops
<1>12. CASE UNCHANGED vars
  BY <1>12 DEF vars
<1> QED
  BY <1>1, <1>2, <1>3, <1>4, <1>5, <1>6, <1>7, <1>8, <1>9, <1>10, <1>11, <1>12
  DEF Next, ClientCall, ClientStep, DispatcherStep

\* startup() meets a joinable thread_, and ends the process, only while another
\* client is inside shutdown() or after a task has shut down its own queue.
THEOREM TerminateTheorem == Spec => []AbortNeedsOverlap
<1>1. Init => StopHasCause
  BY DEF Init, StopHasCause
<1>2. QueueInv /\ StopHasCause /\ [Next]_vars => StopHasCause'
  BY CauseStep
<1>3. StopHasCause => AbortNeedsOverlap
  BY DEF StopHasCause, AbortNeedsOverlap
<1> QED
  BY <1>1, <1>2, <1>3, Invariance, PTL DEF Spec

-----------------------------------------------------------------------------
(* The queue implements the dispatch service. *)

\* Each step of the queue is a step of the abstract service or a stutter.
LEMMA ServiceStep == TypeOK /\ [Next]_vars => [Service!ServiceNext]_(Service!serviceVars)
<1> SUFFICES ASSUME TypeOK, [Next]_vars
             PROVE  Service!ServiceNext \/ UNCHANGED <<tasks_, started, cleared>>
  BY DEF Service!serviceVars
<1> USE DEF history
<1>1. ASSUME NEW c \in Clients, NEW t \in Tasks, NEW max \in Limits, Dispatch(c, t, max)
      PROVE Service!JoinLine(t)
  BY <1>1 DEF Dispatch, PushBack, Accepted, InSeq,
              Service!JoinLine, Service!Fresh, Service!InLine, Service!Begun
<1>2. ASSUME NEW c \in Clients, NEW t \in Tasks, Priority(c, t) PROVE Service!JoinLine(t)
  BY <1>2 DEF Priority, Accepted, InSeq,
              Service!JoinLine, Service!Fresh, Service!InLine, Service!Begun
<1>3. ASSUME NEW c \in Clients, Clear(c) PROVE Service!DropLine
  <2>1. {t \in Tasks : InSeq(t, tasks_)} = {tasks_[i] : i \in DOMAIN tasks_}
    BY DEF InSeq, TypeOK
  <2> QED
    BY <1>3, <2>1 DEF Clear, Service!DropLine
<1>4. ASSUME RunFront, Loop \/ Wake PROVE Service!BeginFirst
  BY <1>4 DEF RunFront, Loop, Wake, FrontTask, PopFront, Service!BeginFirst
<1>5. ASSUME NEW c \in Clients,
             \/ PriorityNotify(c) \/ NotifyOp(c) \/ SeeEmpty(c) \/ SetHandler(c) \/ Startup(c)
             \/ Shutdown(c) \/ ShutdownNotify(c) \/ ShutdownJoin(c)
      PROVE UNCHANGED <<tasks_, started, cleared>>
  BY <1>5 DEF PriorityNotify, NotifyOp, SeeEmpty, SetHandler, Startup, Shutdown, ShutdownNotify,
              ShutdownJoin
<1>6. CASE LoopBreak \/ TaskReturns \/ TaskStops \/ Closing
  BY <1>6 DEF LoopBreak, TaskReturns, TaskStops, Closing
<1>7. CASE (Loop /\ Sleep) \/ (Wake /\ BackToLoop)
  BY <1>7 DEF Loop, Sleep, Wake, BackToLoop
<1>8. CASE UNCHANGED vars
  BY <1>8 DEF vars
<1>9. Loop => (RunFront \/ Sleep)
  BY DEF Loop
<1>10. Wake => (RunFront \/ BackToLoop)
  BY DEF Wake
<1> QED
  BY <1>1, <1>2, <1>3, <1>4, <1>5, <1>6, <1>7, <1>8, <1>9, <1>10
  DEF Next, ClientCall, ClientStep, DispatcherStep, Service!ServiceNext

\* Whatever the threads do, the queue takes tasks in, starts them from the
\* front, each once, and drops them only in clear().
THEOREM Refinement == Spec => ImplementsService
<1>1. Init => Service!ServiceInit
  BY DEF Init, Service!ServiceInit
<1> QED
  BY <1>1, ServiceStep, TypeCorrect, PTL DEF Spec, ImplementsService, Service!ServiceSpec

-----------------------------------------------------------------------------
(* No task is started twice, and dispatched tasks are started in order. *)

\* Everything accepted and not cleared, in the order it is or was started.
Whole == started \o tasks_

\* The inductive invariant behind both properties: Whole has no duplicates,
\* none of its tasks was cleared, ranks rise along it, a task that was never
\* accepted has no rank, and no rank is beyond the number issued.
OrderInv ==
    /\ \A i, j \in 1..Len(Whole) : i # j => Whole[i] # Whole[j]
    /\ \A i \in 1..Len(Whole) : Whole[i] \notin cleared
    /\ \A i, j \in 1..Len(Whole) :
          i < j /\ rank[Whole[i]] > 0 /\ rank[Whole[j]] > 0 => rank[Whole[i]] < rank[Whole[j]]
    /\ \A t \in Tasks : rank[t] <= issued
    /\ \A t \in Tasks : t \notin Accepted => rank[t] = 0

\* What concatenation yields, element by element.
LEMMA JoinElements ==
  ASSUME NEW S, NEW a \in Seq(S), NEW b \in Seq(S)
  PROVE  /\ a \o b \in Seq(S) /\ Len(a \o b) = Len(a) + Len(b)
         /\ DOMAIN (a \o b) = 1..(Len(a) + Len(b))
         /\ \A i \in 1..Len(a) : (a \o b)[i] = a[i]
         /\ \A i \in 1..Len(b) : (a \o b)[Len(a) + i] = b[i]
  OBVIOUS

\* What push_front yields, element by element.
LEMMA PushFrontElements ==
  ASSUME NEW S, NEW x \in S, NEW q \in Seq(S)
  PROVE  /\ Len(<<x>> \o q) = 1 + Len(q) /\ (<<x>> \o q)[1] = x /\ <<x>> \o q \in Seq(S)
         /\ \A i \in 1..Len(q) : (<<x>> \o q)[i + 1] = q[i]
         /\ DOMAIN (<<x>> \o q) = 1..(1 + Len(q))
<1>1. <<x>> \in Seq(S) /\ Len(<<x>>) = 1 /\ <<x>>[1] = x /\ Len(q) \in Nat
  OBVIOUS
<1>2. /\ <<x>> \o q \in Seq(S) /\ Len(<<x>> \o q) = 1 + Len(q)
      /\ DOMAIN (<<x>> \o q) = 1..(1 + Len(q))
  BY <1>1, JoinElements
<1>3. \A i \in 1..Len(<<x>>) : (<<x>> \o q)[i] = <<x>>[i]
  BY <1>1, JoinElements
<1>4. \A i \in 1..Len(q) : (<<x>> \o q)[1 + i] = q[i]
  BY <1>1, JoinElements
<1>5. \A i \in 1..Len(q) : 1 + i = i + 1
  BY <1>1
<1> QED
  BY <1>1, <1>2, <1>3, <1>4, <1>5

\* The elements of Whole are those of the two sequences it is made of.
LEMMA WholeElements ==
  ASSUME TypeOK
  PROVE  /\ Whole \in Seq(Tasks) /\ Len(Whole) = Len(started) + Len(tasks_)
         /\ DOMAIN Whole = 1..Len(Whole)
         /\ \A i \in 1..Len(started) : Whole[i] = started[i]
         /\ \A i \in 1..Len(tasks_) : Whole[Len(started) + i] = tasks_[i]
  BY DEF TypeOK, Whole

\* A task outside Accepted is nowhere in Whole, and was not cleared.
LEMMA NotAccepted ==
  ASSUME TypeOK, NEW t \in Tasks, t \notin Accepted
  PROVE  t \notin cleared /\ \A i \in 1..Len(Whole) : Whole[i] # t
<1>1. /\ started \in Seq(Tasks) /\ tasks_ \in Seq(Tasks) /\ t \notin cleared
      /\ \A i \in 1..Len(started) : started[i] # t
      /\ \A i \in 1..Len(tasks_) : tasks_[i] # t
  BY DEF TypeOK, Accepted, InSeq
<1>2. ASSUME NEW i \in 1..Len(Whole) PROVE Whole[i] # t
  <2>1. CASE i <= Len(started)
    BY <1>1, <2>1, WholeElements
  <2>2. CASE i > Len(started)
    <3>1. i - Len(started) \in 1..Len(tasks_) /\ i = Len(started) + (i - Len(started))
      BY <1>1, <2>2, WholeElements
    <3> QED
      BY <1>1, <3>1, WholeElements
  <2> QED
    BY <1>1, <2>1, <2>2, WholeElements
<1> QED
  BY <1>1, <1>2

\* Taking the front task moves it from one part of Whole to the other.
LEMMA WholeTake ==
  ASSUME TypeOK, RunFront
  PROVE  Whole' = Whole
<1>1. started \in Seq(Tasks) /\ tasks_ \in Seq(Tasks) /\ tasks_ # <<>>
  BY DEF TypeOK, RunFront
<1>2. Append(started, Head(tasks_)) \o Tail(tasks_) = started \o tasks_
  BY <1>1
<1> QED
  BY <1>2 DEF Whole, RunFront, FrontTask, PopFront

\* A step that moves no task in or out of Whole keeps OrderInv.
LEMMA OrderFrame ==
  ASSUME OrderInv, Whole' = Whole, Accepted' = Accepted, UNCHANGED <<cleared, rank, issued>>
  PROVE  OrderInv'
  BY DEF OrderInv

\* dispatch() appends a task with a rank above all others.
LEMMA OrderDispatch ==
  ASSUME TypeOK, OrderInv,
         NEW c \in Clients, NEW t \in Tasks, NEW max \in Limits, Dispatch(c, t, max)
  PROVE  OrderInv'
<1> DEFINE n == Len(Whole)
<1>1. Whole \in Seq(Tasks) /\ n \in Nat /\ rank \in [Tasks -> Nat] /\ issued \in Nat
  BY WholeElements DEF TypeOK
<1>2. Whole' = Append(Whole, t) /\ UNCHANGED cleared
  BY DEF Dispatch, PushBack, Whole, TypeOK
<1>3. /\ Len(Whole') = n + 1 /\ Whole'[n + 1] = t
      /\ \A i \in 1..n : Whole'[i] = Whole[i] /\ Whole[i] \in Tasks
  BY <1>1, <1>2
<1>4. t \notin cleared /\ \A i \in 1..n : Whole[i] # t
  BY NotAccepted DEF Dispatch
<1>5. issued' = issued + 1 /\ rank'[t] = issued + 1 /\ \A u \in Tasks \ {t} : rank'[u] = rank[u]
  BY <1>1 DEF Dispatch
<1>6. \A u \in Tasks \ {t} : u \in Accepted => u \in Accepted'
  <2>1. /\ started' = started /\ cleared' = cleared /\ DOMAIN tasks_ \subseteq DOMAIN tasks_'
        /\ \A i \in DOMAIN tasks_ : tasks_'[i] = tasks_[i]
    BY DEF Dispatch, PushBack, TypeOK
  <2> QED
    BY <2>1 DEF Accepted, InSeq
<1>6a. t \in Accepted'
  <2>1. tasks_' \in Seq(Tasks) /\ Len(tasks_') \in DOMAIN tasks_' /\ tasks_'[Len(tasks_')] = t
    BY DEF Dispatch, PushBack, TypeOK
  <2> QED
    BY <2>1 DEF Accepted, InSeq
<1>6b. \A i \in 1..Len(Whole') : i \in 1..n \/ i = n + 1
  BY <1>1, <1>3
<1> HIDE DEF n
<1>7. \A i, j \in 1..Len(Whole') : i # j => Whole'[i] # Whole'[j]
  BY <1>3, <1>4, <1>6b DEF OrderInv, n
<1>8. \A i \in 1..Len(Whole') : Whole'[i] \notin cleared'
  BY <1>2, <1>3, <1>4, <1>6b DEF OrderInv, n
<1>9. \A i, j \in 1..Len(Whole') :
        i < j /\ rank'[Whole'[i]] > 0 /\ rank'[Whole'[j]] > 0 => rank'[Whole'[i]] < rank'[Whole'[j]]
  <2>1. \A i \in 1..n : rank'[Whole'[i]] = rank[Whole[i]] /\ rank[Whole[i]] <= issued
    BY <1>1, <1>3, <1>4, <1>5 DEF OrderInv
  <2>2. \A i \in 1..n : rank[Whole[i]] \in Nat
    BY <1>1, <1>3
  <2>3. ASSUME NEW i \in 1..Len(Whole'), NEW j \in 1..Len(Whole'),
               i < j, rank'[Whole'[i]] > 0, rank'[Whole'[j]] > 0
        PROVE  rank'[Whole'[i]] < rank'[Whole'[j]]
    <3>1. i \in 1..n
      BY <1>1, <1>3, <1>6b, <2>3
    <3>2. CASE j \in 1..n
      BY <2>1, <2>3, <3>1, <3>2 DEF OrderInv, n
    <3>3. CASE j = n + 1
      <4>1. rank'[Whole'[j]] = issued + 1
        BY <1>3, <1>5, <3>3
      <4> QED
        BY <1>1, <2>1, <2>2, <3>1, <4>1
    <3> QED
      BY <1>6b, <3>2, <3>3
  <2> QED
    BY <2>3
<1>10. ASSUME NEW u \in Tasks PROVE rank'[u] <= issued'
  <2>1. rank[u] \in Nat /\ rank[u] <= issued
    BY <1>1 DEF OrderInv
  <2> QED
    BY <1>1, <1>5, <2>1
<1>11. \A u \in Tasks : u \notin Accepted' => rank'[u] = 0
  BY <1>5, <1>6, <1>6a DEF OrderInv
<1> QED
  BY <1>7, <1>8, <1>9, <1>10, <1>11 DEF OrderInv

\* priority() puts a task without a rank between the two parts of Whole.
LEMMA OrderPriority ==
  ASSUME TypeOK, OrderInv, NEW c \in Clients, NEW t \in Tasks, Priority(c, t)
  PROVE  OrderInv'
<1> DEFINE n == Len(Whole)
<1> DEFINE k == Len(started)
<1>1. /\ started \in Seq(Tasks) /\ tasks_ \in Seq(Tasks) /\ Whole \in Seq(Tasks)
      /\ k \in Nat /\ n \in Nat /\ n = k + Len(tasks_) /\ rank \in [Tasks -> Nat]
      /\ Len(tasks_) \in Nat /\ DOMAIN tasks_ = 1..Len(tasks_)
  BY WholeElements DEF TypeOK
<1>2. /\ tasks_' = <<t>> \o tasks_ /\ UNCHANGED <<started, cleared, rank, issued>>
      /\ t \notin Accepted
  BY DEF Priority, history
<1>3. /\ Len(tasks_') = 1 + Len(tasks_) /\ tasks_'[1] = t /\ tasks_' \in Seq(Tasks)
      /\ \A i \in 1..Len(tasks_) : tasks_'[i + 1] = tasks_[i]
      /\ DOMAIN tasks_' = 1..(1 + Len(tasks_))
  <2> DEFINE q == <<t>> \o tasks_
  <2>1. tasks_ \in Seq(Tasks)
    BY <1>1
  <2>2. /\ Len(q) = 1 + Len(tasks_) /\ q[1] = t /\ q \in Seq(Tasks)
        /\ \A i \in 1..Len(tasks_) : q[i + 1] = tasks_[i]
        /\ DOMAIN q = 1..(1 + Len(tasks_))
    BY <2>1, PushFrontElements
  <2>3. tasks_' = q
    BY <1>2
  <2> HIDE DEF q
  <2> QED
    BY <2>2, <2>3, Zenon
<1>4. /\ Len(Whole') = n + 1 /\ Whole'[k + 1] = t
      /\ \A i \in 1..k : Whole'[i] = Whole[i]
      /\ \A i \in (k + 1)..n : Whole'[i + 1] = Whole[i]
  <2>1. Whole' = started \o tasks_'
    BY <1>2 DEF Whole
  <2>2. /\ Len(Whole') = n + 1
        /\ \A i \in 1..k : Whole'[i] = started[i]
        /\ \A i \in 1..(1 + Len(tasks_)) : Whole'[k + i] = tasks_'[i]
    <3>1. /\ Len(Whole') = k + Len(tasks_')
          /\ \A i \in 1..k : Whole'[i] = started[i]
          /\ \A i \in 1..Len(tasks_') : Whole'[k + i] = tasks_'[i]
      <4>1. ASSUME NEW q \in Seq(Tasks)
            PROVE  /\ Len(started \o q) = k + Len(q)
                   /\ \A i \in 1..k : (started \o q)[i] = started[i]
                   /\ \A i \in 1..Len(q) : (started \o q)[k + i] = q[i]
        BY <1>1, JoinElements
      <4> QED
        BY <1>3, <2>1, <4>1
    <3> QED
      BY <1>1, <1>3, <3>1
  <2>3. ASSUME NEW i \in (k + 1)..n PROVE Whole'[i + 1] = Whole[i]
    <3> DEFINE m == i - k
    <3>1. m \in 1..Len(tasks_) /\ i = k + m
      BY <1>1
    <3> HIDE DEF m
    <3>2. Whole[i] = tasks_[m]
      BY <3>1, WholeElements
    <3>3. m + 1 \in 1..(1 + Len(tasks_)) /\ k + (m + 1) = i + 1
      BY <1>1, <3>1
    <3>4. Whole'[i + 1] = tasks_'[m + 1]
      BY <2>2, <3>3
    <3> QED
      BY <1>3, <3>1, <3>2, <3>4
  <2>4. 1 \in 1..(1 + Len(tasks_)) /\ \A i \in 1..k : Whole[i] = started[i]
    BY <1>1, WholeElements
  <2> QED
    BY <1>3, <2>2, <2>3, <2>4
<1>5. t \notin cleared /\ rank[t] = 0 /\ \A i \in 1..n : Whole[i] # t
  BY <1>2, NotAccepted DEF OrderInv
<1>7. \A u \in Tasks : u \in Accepted => u \in Accepted'
  <2>1. \A i \in DOMAIN tasks_ : i + 1 \in DOMAIN tasks_' /\ tasks_'[i + 1] = tasks_[i]
    <3>1. ASSUME NEW i \in DOMAIN tasks_
          PROVE  i \in 1..Len(tasks_) /\ i + 1 \in 1..(1 + Len(tasks_))
      BY <1>1
    <3> QED
      BY <1>3, <3>1
  <2> QED
    BY <1>2, <2>1 DEF Accepted, InSeq
<1>8. ASSUME NEW i \in 1..(n + 1), i # k + 1
      PROVE  \E m \in 1..n : Whole'[i] = Whole[m] /\ ((i = m /\ m <= k) \/ (i = m + 1 /\ m > k))
  <2>1. CASE i <= k
    <3>1. i \in 1..k /\ i \in 1..n
      BY <1>1, <2>1
    <3> QED
      BY <1>4, <2>1, <3>1
  <2>2. CASE i > k
    <3>1. i - 1 \in (k + 1)..n /\ (i - 1) + 1 = i /\ i - 1 \in 1..n /\ i - 1 > k
      BY <1>1, <1>8, <2>2
    <3> QED
      BY <1>4, <3>1
  <2> QED
    BY <1>1, <2>1, <2>2
<1> HIDE DEF k, n
<1>9. ASSUME NEW i \in 1..(n + 1), NEW j \in 1..(n + 1), i < j
      PROVE  /\ Whole'[i] # Whole'[j]
             /\ rank[Whole'[i]] > 0 /\ rank[Whole'[j]] > 0 => rank[Whole'[i]] < rank[Whole'[j]]
  <2>1. CASE i = k + 1
    <3>1. j # k + 1
      BY <1>1, <1>9, <2>1
    <3>2. Whole'[j] # t
      BY <1>5, <1>8, <3>1
    <3> QED
      BY <1>4, <1>5, <2>1, <3>2
  <2>2. CASE j = k + 1
    <3>1. i # k + 1
      BY <1>1, <1>9, <2>2
    <3>2. Whole'[i] # t
      BY <1>5, <1>8, <3>1
    <3> QED
      BY <1>4, <1>5, <2>2, <3>2
  <2>3. CASE i # k + 1 /\ j # k + 1
    <3>1. PICK x \in 1..n : Whole'[i] = Whole[x] /\ ((i = x /\ x <= k) \/ (i = x + 1 /\ x > k))
      BY <1>8, <2>3
    <3>2. PICK y \in 1..n : Whole'[j] = Whole[y] /\ ((j = y /\ y <= k) \/ (j = y + 1 /\ y > k))
      BY <1>8, <2>3
    <3>3. x < y
      BY <1>1, <1>9, <3>1, <3>2
    <3> QED
      BY <1>1, <3>1, <3>2, <3>3 DEF OrderInv, n
  <2> QED
    BY <2>1, <2>2, <2>3
<1>10. \A i \in 1..(n + 1) : Whole'[i] \notin cleared
  BY <1>4, <1>5, <1>8 DEF OrderInv, n
<1>11. \A i, j \in 1..(n + 1) : i # j => Whole'[i] # Whole'[j]
  <2>1. \A i, j \in 1..(n + 1) : i # j => i < j \/ j < i
    BY <1>1
  <2> QED
    BY <1>9, <2>1
<1>12. \A u \in Tasks : u \notin Accepted' => rank[u] = 0
  BY <1>7 DEF OrderInv
<1>13. \A u \in Tasks : rank[u] <= issued
  BY DEF OrderInv
<1>14. /\ \A i, j \in 1..Len(Whole') : i # j => Whole'[i] # Whole'[j]
       /\ \A i \in 1..Len(Whole') : Whole'[i] \notin cleared'
       /\ \A i, j \in 1..Len(Whole') :
            i < j /\ rank'[Whole'[i]] > 0 /\ rank'[Whole'[j]] > 0
              => rank'[Whole'[i]] < rank'[Whole'[j]]
  BY <1>2, <1>4, <1>9, <1>10, <1>11
<1> QED
  BY <1>2, <1>12, <1>13, <1>14 DEF OrderInv

\* clear() leaves the started tasks, of which none was in the queue.
LEMMA OrderClear ==
  ASSUME TypeOK, OrderInv, NEW c \in Clients, Clear(c)
  PROVE  OrderInv'
<1> DEFINE k == Len(started)
<1>1. /\ started \in Seq(Tasks) /\ tasks_ \in Seq(Tasks) /\ k \in Nat
      /\ Len(Whole) = k + Len(tasks_) /\ Len(tasks_) \in Nat
  BY WholeElements DEF TypeOK
<1>2. /\ tasks_' = <<>> /\ cleared' = cleared \cup {t \in Tasks : InSeq(t, tasks_)}
      /\ UNCHANGED <<started, rank, issued>>
  BY DEF Clear
<1>3. Whole' = started
  <2>1. started \o <<>> = started
    BY <1>1
  <2> QED
    BY <1>2, <2>1 DEF Whole
<1>4. \A i \in 1..k : Whole[i] = started[i] /\ i \in 1..Len(Whole)
  BY <1>1, WholeElements
<1>5. ASSUME NEW i \in 1..k, InSeq(started[i], tasks_) PROVE FALSE
  <2>1. PICK j \in 1..Len(tasks_) : tasks_[j] = started[i]
    BY <1>1, <1>5 DEF InSeq
  <2>2. Whole[k + j] = started[i] /\ k + j \in 1..Len(Whole) /\ k + j # i
    BY <1>1, <2>1, WholeElements
  <2> QED
    BY <1>4, <2>2 DEF OrderInv
<1>6. \A u \in Tasks : u \in Accepted => u \in Accepted'
  BY <1>2 DEF Accepted
<1> HIDE DEF k
<1>7. \A i, j \in 1..k : i # j => started[i] # started[j]
  BY <1>4 DEF OrderInv
<1>8. \A i \in 1..k : started[i] \notin cleared'
  BY <1>2, <1>4, <1>5 DEF OrderInv
<1>9. \A i, j \in 1..k :
        i < j /\ rank[started[i]] > 0 /\ rank[started[j]] > 0 => rank[started[i]] < rank[started[j]]
  BY <1>4 DEF OrderInv
<1>10. (\A u \in Tasks : rank[u] <= issued) /\ \A u \in Tasks : u \notin Accepted' => rank[u] = 0
  BY <1>6 DEF OrderInv
<1> QED
  BY <1>2, <1>3, <1>7, <1>8, <1>9, <1>10 DEF OrderInv, k

\* Taking the front task accepts and forgets none.
LEMMA TakeAccepts ==
  ASSUME TypeOK, RunFront, UNCHANGED cleared
  PROVE  Accepted' = Accepted
<1>1. /\ started \in Seq(Tasks) /\ tasks_ \in Seq(Tasks) /\ tasks_ # <<>>
      /\ started' = Append(started, Head(tasks_)) /\ tasks_' = Tail(tasks_)
  BY DEF TypeOK, RunFront, FrontTask, PopFront
<1>2. ASSUME NEW t \in Tasks
      PROVE  InSeq(t, started') <=> (InSeq(t, started) \/ t = Head(tasks_))
  <2>1. Len(started') = Len(started) + 1 /\ started'[Len(started) + 1] = Head(tasks_)
    BY <1>1
  <2>2. \A i \in DOMAIN started : i \in DOMAIN started' /\ started'[i] = started[i]
    BY <1>1
  <2>3. \A i \in DOMAIN started' : i \in DOMAIN started \/ i = Len(started) + 1
    BY <1>1
  <2>4. Len(started) + 1 \in DOMAIN started'
    BY <1>1
  <2> QED
    BY <2>1, <2>2, <2>3, <2>4 DEF InSeq
<1>3. ASSUME NEW t \in Tasks
      PROVE  InSeq(t, tasks_) <=> (InSeq(t, tasks_') \/ t = Head(tasks_))
  <2>1. \A i \in DOMAIN tasks_' : i + 1 \in DOMAIN tasks_ /\ tasks_'[i] = tasks_[i + 1]
    BY <1>1
  <2>2. \A i \in DOMAIN tasks_ : i = 1 \/ (i - 1 \in DOMAIN tasks_' /\ tasks_'[i - 1] = tasks_[i])
    BY <1>1
  <2>3. 1 \in DOMAIN tasks_ /\ tasks_[1] = Head(tasks_)
    BY <1>1
  <2> QED
    BY <2>1, <2>2, <2>3 DEF InSeq
<1> QED
  BY <1>2, <1>3 DEF Accepted

\* No call and no step of process() breaks OrderInv.
LEMMA OrderStep ==
  ASSUME TypeOK, OrderInv, [Next]_vars
  PROVE  OrderInv'
<1>1. ASSUME NEW c \in Clients, NEW t \in Tasks, NEW max \in Limits, Dispatch(c, t, max)
      PROVE  OrderInv'
  BY <1>1, OrderDispatch
<1>2. ASSUME NEW c \in Clients, NEW t \in Tasks, Priority(c, t) PROVE OrderInv'
  BY <1>2, OrderPriority
<1>3. ASSUME NEW c \in Clients, Clear(c) PROVE OrderInv'
  BY <1>3, OrderClear
<1>4. ASSUME RunFront, Loop \/ Wake PROVE OrderInv'
  <2>1. UNCHANGED <<cleared, rank, issued>>
    BY <1>4 DEF Loop, Wake
  <2> QED
    BY <1>4, <2>1, WholeTake, TakeAccepts, OrderFrame
<1>5. ASSUME UNCHANGED <<tasks_, started, cleared, rank, issued>> PROVE OrderInv'
  BY <1>5, OrderFrame DEF Whole, Accepted, InSeq
<1>6. ASSUME NEW c \in Clients,
             \/ PriorityNotify(c) \/ NotifyOp(c) \/ SeeEmpty(c) \/ SetHandler(c) \/ Startup(c)
             \/ Shutdown(c) \/ ShutdownNotify(c) \/ ShutdownJoin(c)
      PROVE  OrderInv'
  BY <1>5, <1>6 DEF PriorityNotify, NotifyOp, SeeEmpty, SetHandler, Startup, Shutdown,
                    ShutdownNotify, ShutdownJoin, history
<1>7. CASE LoopBreak \/ TaskReturns \/ TaskStops \/ Closing
  BY <1>5, <1>7 DEF LoopBreak, TaskReturns, TaskStops, Closing, history
<1>8. CASE (Loop /\ Sleep) \/ (Wake /\ BackToLoop)
  BY <1>5, <1>8 DEF Loop, Sleep, Wake, BackToLoop
<1>9. CASE UNCHANGED vars
  BY <1>5, <1>9 DEF vars, history
<1>10. (Loop => (RunFront \/ Sleep)) /\ (Wake => (RunFront \/ BackToLoop))
  BY DEF Loop, Wake
<1> QED
  BY <1>1, <1>2, <1>3, <1>4, <1>6, <1>7, <1>8, <1>9, <1>10
  DEF Next, ClientCall, ClientStep, DispatcherStep

\* OrderInv holds of every reachable state of the queue.
LEMMA OrderInvariance == Spec => [](TypeOK /\ OrderInv)
<1>1. Init => OrderInv
  BY DEF Init, OrderInv, Whole
<1>2. TypeOK /\ OrderInv /\ [Next]_vars => OrderInv'
  BY OrderStep
<1> QED
  BY <1>1, <1>2, TypeCorrect, PTL DEF Spec

\* No closure is called twice, and none that clear() discarded is called,
\* whichever of dispatch(), priority(), clear(), shutdown() and restarts of
\* the queue come between.
THEOREM OnceTheorem == Spec => []AtMostOnce
<1>1. TypeOK /\ OrderInv => AtMostOnce
  BY WholeElements DEF OrderInv, AtMostOnce, Whole
<1> QED
  BY <1>1, OrderInvariance, PTL

\* Closures accepted by dispatch() are called in the order of acceptance:
\* the "ordered execution" the single dispatch thread is there to give.
THEOREM OrderTheorem == Spec => []DispatchOrder
<1>1. TypeOK /\ OrderInv => DispatchOrder
  BY WholeElements DEF OrderInv, DispatchOrder, Whole
<1> QED
  BY <1>1, OrderInvariance, PTL
=============================================================================
