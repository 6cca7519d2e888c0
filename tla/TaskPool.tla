------------------------------ MODULE TaskPool ------------------------------
(***************************************************************************)
(* What a thread pool promises its users, without queues, condition        *)
(* variables or locks: accepted tasks start in the order of acceptance, at *)
(* most Runners of them at a time, each runs once; a wait that reports     *)
(* idleness does so at a moment when everything accepted is done; a closed *)
(* pool accepts nothing and goes away when everything accepted is done.    *)
(* ThreadPool implements it.                                               *)
(***************************************************************************)
EXTENDS Naturals, FiniteSets

CONSTANTS
  Runners,   \* how many tasks may run at a time
  Users,     \* the threads that may ask whether the pool is idle
  MaxTasks   \* bound: tasks accepted in one behaviour

VARIABLES
  accepted,  \* how many tasks were accepted: they are 1 .. accepted
  running,   \* the tasks in progress
  done,      \* the tasks that have returned
  told,      \* the users whose last operation reported an idle pool
  closed,    \* is the pool being destroyed?
  gone       \* is it destroyed?

vars == <<accepted, running, done, told, closed, gone>>

Init ==
  /\ accepted = 0
  /\ running = {}
  /\ done = {}
  /\ told = {}
  /\ closed = FALSE
  /\ gone = FALSE

(* An operation of user u that is not an idle wait replaces its answer. *)
Forgets(u) == told' = told \ {u}

Accept(u, n) ==
  /\ ~closed
  /\ accepted + n <= MaxTasks
  /\ accepted' = accepted + n
  /\ Forgets(u)
  /\ UNCHANGED <<running, done, closed, gone>>

Refuse(u) == Forgets(u) /\ UNCHANGED <<accepted, running, done, closed, gone>>

Start(k) ==
  /\ k <= accepted
  /\ running \cup done = 1 .. (k - 1)
  /\ Cardinality(running) < Runners
  /\ running' = running \cup {k}
  /\ UNCHANGED <<accepted, done, told, closed, gone>>

Return(k) ==
  /\ k \in running
  /\ running' = running \ {k}
  /\ done' = done \cup {k}
  /\ UNCHANGED <<accepted, told, closed, gone>>

ReportIdle(u) ==
  /\ done = 1 .. accepted
  /\ told' = told \cup {u}
  /\ UNCHANGED <<accepted, running, done, closed, gone>>

Close ==
  /\ ~closed
  /\ closed' = TRUE
  /\ UNCHANGED <<accepted, running, done, told, gone>>

Leave ==
  /\ closed
  /\ done = 1 .. accepted
  /\ gone' = TRUE
  /\ UNCHANGED <<accepted, running, done, told, closed>>

Next ==
  \/ \E u \in Users : Refuse(u) \/ ReportIdle(u)
  \/ \E u \in Users : \E n \in 0 .. MaxTasks : Accept(u, n)
  \/ \E k \in 1 .. MaxTasks : Start(k) \/ Return(k)
  \/ Close
  \/ Leave

SafeSpec == Init /\ [][Next]_vars

(* An accepted task starts when a runner is free, a started one returns,   *)
(* and a closed pool with nothing left to do goes away.                    *)
Progress ==
  /\ \A k \in 1 .. MaxTasks : WF_vars(Start(k)) /\ WF_vars(Return(k))
  /\ WF_vars(Leave)

Spec == SafeSpec /\ Progress
=============================================================================
