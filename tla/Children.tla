------------------------------ MODULE Children ------------------------------
(***************************************************************************)
(* Child processes of process.hpp (POSIX): async, at_fork, detach, spawn,  *)
(* wait and stop, called by several threads of one parent.  wait() passes  *)
(* its pid to waitpid() and reports WEXITSTATUS of the status, which is    *)
(* still -1 when waitpid() fails.                                          *)
(***************************************************************************)
EXTENDS Integers, FiniteSets

CONSTANTS Threads, Pids,
          MaxFaults            \* bound on failed forks and interrupted waits

VARIABLES child,               \* child[p]: "none", "running", "zombie" or "reaped"
          code,                \* code[p]: how it ended
          target,              \* target[t]: the pid t waits for, Any, or Idle
          answer,              \* answer[t]: what its last wait() returned
          asked,               \* asked[t]: and for which pid, or Any
          waited,              \* pids that somebody has waited for
          stolen, cut,         \* pids reaped by waitpid(-1); pids whose wait was
                               \* interrupted (history)
          faults               \* failed forks and interrupted waits so far

childVars == <<child, code, target, answer, asked, waited, stolen, cut, faults>>

Any == -1                      \* waitpid(-1): any child
Idle == 0
Lost == 255                    \* WEXITSTATUS(-1)

\* fork() gives a parent numbers that are neither 0 nor -1.
ChildAssumption == Any \notin Pids /\ Idle \notin Pids

ChildInit ==
    /\ child = [p \in Pids |-> "none"] /\ code = [p \in Pids |-> 0]
    /\ target = [t \in Threads |-> Idle]
    /\ answer = [t \in Threads |-> 0] /\ asked = [t \in Threads |-> Idle]
    /\ waited = {} /\ stolen = {} /\ cut = {} /\ faults = 0

In(state) == {p \in Pids : child[p] = state}

\* async(), at_fork() and detach(): the child runs by itself.
Async(t) ==
    /\ target[t] = Idle
    /\ \E p \in In("none") : child' = [child EXCEPT ![p] = "running"]
    /\ UNCHANGED <<code, target, answer, asked, waited, stolen, cut, faults>>

\* spawn(): fork, then wait(child).
Spawn(t) ==
    /\ target[t] = Idle
    /\ \E p \in In("none") : /\ child' = [child EXCEPT ![p] = "running"]
                             /\ target' = [target EXCEPT ![t] = p]
                             /\ waited' = waited \cup {p}
    /\ UNCHANGED <<code, answer, asked, stolen, cut, faults>>

\* spawn() when fork() fails: child is -1, and so is the pid it waits for.
SpawnFails(t) ==
    /\ target[t] = Idle /\ faults < MaxFaults
    /\ faults' = faults + 1
    /\ target' = [target EXCEPT ![t] = Any]
    /\ UNCHANGED <<child, code, answer, asked, waited, stolen, cut>>

\* wait(pid): the program waits once for a child that async() gave it.
Wait(t, p) ==
    /\ target[t] = Idle /\ child[p] # "none" /\ p \notin waited
    /\ target' = [target EXCEPT ![t] = p] /\ waited' = waited \cup {p}
    /\ UNCHANGED <<child, code, answer, asked, stolen, cut, faults>>

\* The child ends: its program returns 0, or exec fails and it calls _exit(-1).
Exit(p) ==
    /\ child[p] = "running"
    /\ child' = [child EXCEPT ![p] = "zombie"]
    /\ \E c \in {0, 255} : code' = [code EXCEPT ![p] = c]
    /\ UNCHANGED <<target, answer, asked, waited, stolen, cut, faults>>

\* stop(pid) sends SIGTERM; WEXITSTATUS of a child ended by a signal is 0.
Stop(p) ==
    /\ child[p] = "running"
    /\ child' = [child EXCEPT ![p] = "zombie"] /\ code' = [code EXCEPT ![p] = 0]
    /\ UNCHANGED <<target, answer, asked, waited, stolen, cut, faults>>

Return(t, c) ==
    /\ answer' = [answer EXCEPT ![t] = c] /\ asked' = [asked EXCEPT ![t] = target[t]]
    /\ target' = [target EXCEPT ![t] = Idle]

\* (Mutated form of Reap.)
ReapAny(t) ==
    /\ target[t] # Idle
    /\ \E p \in In("zombie") : /\ child' = [child EXCEPT ![p] = "reaped"]
                               /\ stolen' = IF target[t] = Any THEN stolen \cup {p} ELSE stolen
                               /\ Return(t, code[p])
    /\ UNCHANGED <<code, waited, cut, faults>>

\* waitpid() finds a child that has ended and reaps it.
Reap(t) ==
    /\ target[t] # Idle
    /\ \E p \in In("zombie") : /\ target[t] \in {p, Any}
                               /\ child' = [child EXCEPT ![p] = "reaped"]
                               /\ stolen' = IF target[t] = Any THEN stolen \cup {p} ELSE stolen
                               /\ Return(t, code[p])
    /\ UNCHANGED <<code, waited, cut, faults>>

\* waitpid() fails at once: there is no such child left.
NoChild(t) ==
    /\ target[t] # Idle
    /\ IF target[t] = Any THEN In("running") \cup In("zombie") = {}
                          ELSE child[target[t]] = "reaped"
    /\ Return(t, Lost)
    /\ UNCHANGED <<child, code, waited, stolen, cut, faults>>

\* A signal handler interrupts waitpid(), which is not called again.
Interrupted(t) ==
    /\ target[t] # Idle /\ faults < MaxFaults
    /\ faults' = faults + 1 /\ cut' = cut \cup {target[t]}
    /\ Return(t, Lost)
    /\ UNCHANGED <<child, code, waited, stolen>>

ChildNext ==
    \/ \E t \in Threads : \/ Async(t) \/ Spawn(t) \/ SpawnFails(t)
                          \/ Reap(t) \/ NoChild(t) \/ Interrupted(t)
                          \/ \E p \in Pids : Wait(t, p)
    \/ \E p \in Pids : Exit(p) \/ Stop(p)

-----------------------------------------------------------------------------
\* wait() never answers for another child: what a thread was told of a pid is how
\* that child ended, or 255 because this wait was interrupted or because a spawn()
\* whose fork() failed, and which therefore waited for any child, reaped it first.
AnswersForItsChild ==
    \A t \in Threads : asked[t] \in Pids =>
        \/ child[asked[t]] = "reaped" /\ answer[t] = code[asked[t]]
        \/ answer[t] = Lost /\ asked[t] \in stolen \cup cut
=============================================================================
