----------------------------- MODULE TaskService -----------------------------
(***************************************************************************)
(* What a dispatch service of tasks.hpp promises its clients, whatever     *)
(* threads carry it out: an accepted task waits in line, tasks leave the   *)
(* line only from its front, to be started, and a task that was started or *)
(* discarded never comes back.  task_queue and task_pool implement it.     *)
(***************************************************************************)
EXTENDS Sequences

CONSTANT Tasks   \* the closures handed to dispatch() and priority()

VARIABLES
    line,        \* accepted tasks that have not been started
    begun,       \* tasks started, in the order they were
    dropped      \* tasks discarded by clear()

serviceVars == <<line, begun, dropped>>

InLine(t) == \E i \in DOMAIN line : line[i] = t

Begun(t) == \E i \in DOMAIN begun : begun[i] = t

Fresh(t) == ~InLine(t) /\ ~Begun(t) /\ t \notin dropped

ServiceInit == line = <<>> /\ begun = <<>> /\ dropped = {}

JoinLine(t) ==
    /\ Fresh(t)
    /\ line' \in {Append(line, t), <<t>> \o line}
    /\ UNCHANGED <<begun, dropped>>

BeginFirst ==
    /\ line # <<>>
    /\ line' = Tail(line)
    /\ begun' = Append(begun, Head(line))
    /\ UNCHANGED dropped

DropLine ==
    /\ line' = <<>>
    /\ dropped' = dropped \cup {line[i] : i \in DOMAIN line}
    /\ UNCHANGED begun

ServiceNext == (\E t \in Tasks : JoinLine(t)) \/ BeginFirst \/ DropLine

ServiceSpec == ServiceInit /\ [][ServiceNext]_serviceVars
=============================================================================
