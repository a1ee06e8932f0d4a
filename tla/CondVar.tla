------------------------------- MODULE CondVar -------------------------------
(***************************************************************************)
(* std::condition_variable, as src/sync.hpp and src/tasks.hpp use it.  The *)
(* function st gives the state of every thread; a thread that waits is     *)
(* "asleep", one that has been woken and must look at its predicate again, *)
(* with the mutex held, is in "test".                                      *)
(***************************************************************************)

Asleep(st) == {t \in DOMAIN st : st[t] = "asleep"}

Awake(st, t) == [st EXCEPT ![t] = "test"]

\* notify_one(): any one of the sleepers, if there is one.
WakeOne(st) == IF Asleep(st) = {} THEN {st} ELSE {Awake(st, t) : t \in Asleep(st)}

\* notify_all().
WakeAll(st) == [t \in DOMAIN st |-> IF st[t] = "asleep" THEN "test" ELSE st[t]]
=============================================================================
