----------------------------- MODULE SharedPool -----------------------------
(***************************************************************************)
(* Runs of fan-in branches that share one pool and one observer            *)
(* (include/pb/runtime/thread_pool_backend.hpp): by several callers, and   *)
(* by case stages, which run engines on the workers that execute them.     *)
(* What one run does in detail is in ParallelFanIn; here what counts is    *)
(* who waits for whom and who is in the observer with whom.  What throws   *)
(* on a worker is caught in the case, which finishes all the same; what    *)
(* throws on the thread of the run leaves its branch without waiting.      *)
(*                                                                         *)
(* A thread has at most one run in progress that is not waiting for a      *)
(* stage of its own, so a run goes by the name of its thread.              *)
(***************************************************************************)
EXTENDS Naturals, Sequences, FiniteSets

CONSTANTS
  Callers,       \* threads outside the pool that run engines
  Workers,       \* the pool's workers
  NumCases,      \* the cases of each fan-in branch
  CallerThrows,  \* may a callback or a constructor throw on a run's thread?
  None           \* no run, no task, not in the observer

Threads == Callers \union Workers

(* A run at a step: at, of the branch's case next, with the group's        *)
(* pending_; a case a worker has taken; a callback in progress.            *)
RunType ==
  [at : {"start", "predicate", "selected", "wait", "completed", "success", "caught"},
   next : Nat, pending : Nat]

TaskType == [by : Threads, at : {"begin", "stage", "nested", "end", "finish"}]

EventType == [run : Threads, locked : BOOLEAN]

ASSUME SharedPoolAssumption ==
  /\ Callers \intersect Workers = {}
  /\ Workers # {}
  /\ NumCases \in Nat \ {0}
  /\ CallerThrows \in BOOLEAN
  /\ None \notin Threads \union RunType \union TaskType \union EventType

VARIABLES
  run,      \* the run in progress of each thread
  queue,    \* posted cases no worker has taken, by their run
  task,     \* the posted case each worker executes
  telling   \* the call of the observer each thread is in

vars == <<run, queue, task, telling>>

NewRun == [at |-> "start", next |-> 1, pending |-> 0]

Init ==
  /\ run = [t \in Threads |-> None]
  /\ queue = <<>>
  /\ task = [w \in Workers |-> None]
  /\ telling = [t \in Threads |-> None]

(* A run or a task that has come to a place; a run with n cases pending.   *)
At(x, place) == [x EXCEPT !.at = place]
Counting(r, n) == [r EXCEPT !.pending = n]

Running(t) == run[t] # None /\ telling[t] = None
Working(w) == task[w] # None /\ run[w] = None /\ telling[w] = None

(* A case of t's run is in the queue, or in a worker's hands.              *)
Queued(t) == \E i \in DOMAIN queue : queue[i] = t
Executed(t) == \E w \in Workers : task[w] # None /\ task[w].by = t

(* An exception has taken the run out of the frame of its branch, where    *)
(* the mutex was that its cases refer to.                                  *)
Unwound(t) == run[t] = None \/ run[t].at = "caught"

(* try_run, of a caller, or of the stage of a worker's case.  Bound: not   *)
(* while cases of a run that was unwound are left (there are none else).   *)
BeginRun(t) ==
  /\ run[t] = None /\ telling[t] = None
  /\ ~Queued(t) /\ ~Executed(t)
  /\ run' = [run EXCEPT ![t] = NewRun]
  /\ UNCHANGED <<queue, telling>>

CallerBegins(c) == BeginRun(c) /\ UNCHANGED task

(* Bounds: a stage runs one engine, and a stage of that engine runs none.  *)
StageBegins(w) ==
  /\ Working(w) /\ task[w].at = "stage" /\ task[w].by \in Callers
  /\ BeginRun(w)
  /\ task' = [task EXCEPT ![w] = At(@, "nested")]

(* Mutant: the observer is called without the run's mutex.                 *)
EnterUnlocked(t, r, locked) ==
  telling' = [telling EXCEPT ![t] = [run |-> r, locked |-> locked]]

(* A callback of the observer begins.  The events of a branch come through *)
(* the mutex of its run's synchronized_observer, those of a pipeline's     *)
(* stages directly.  A case left behind locks a mutex that is gone, which  *)
(* is undefined: here it keeps nobody out.                                 *)
Enter(t, r, locked) ==
  /\ locked /\ ~Unwound(r) =>
       \A u \in Threads : telling[u] # [run |-> r, locked |-> TRUE]
  /\ telling' = [telling EXCEPT ![t] = [run |-> r, locked |-> locked]]

(* The end of schedule_fan_in_cases for one case.                          *)
Advance(r) ==
  IF r.next < NumCases
  THEN [at |-> "predicate", next |-> r.next + 1, pending |-> r.pending]
  ELSE At(r, "wait")

(* notify_stage_start, notify_stage_success or _failure, and               *)
(* notify_stage_exception of the fan-in's stage, the pipeline's only one.  *)
TellStage(t) ==
  /\ Running(t) /\ run[t].at \in {"start", "success", "caught"}
  /\ Enter(t, t, FALSE)
  /\ UNCHANGED <<run, queue, task>>

(* on_case_selected and on_fan_in_case_scheduled, or on_case_skipped.      *)
TellCase(t) ==
  /\ Running(t) /\ run[t].at = "predicate"
  /\ Enter(t, t, TRUE)
  /\ UNCHANGED <<run, queue, task>>

Post(t) ==
  /\ Running(t) /\ run[t].at = "selected"
  /\ run' = [run EXCEPT ![t] = Counting(Advance(@), run[t].pending + 1)]
  /\ queue' = Append(queue, t)
  /\ UNCHANGED <<task, telling>>

(* Mutant: the branch waits for the pool to be idle.                       *)
WaitReturnsIdle(t) ==
  /\ Running(t) /\ run[t].at = "wait"
  /\ queue = <<>> /\ \A w \in Workers : task[w] = None
  /\ run' = [run EXCEPT ![t] = At(@, "completed")]
  /\ UNCHANGED <<queue, task, telling>>

WaitReturns(t) ==
  /\ Running(t) /\ run[t].at = "wait"
  /\ run[t].pending = 0
  /\ run' = [run EXCEPT ![t] = At(@, "completed")]
  /\ UNCHANGED <<queue, task, telling>>

(* on_fan_in_completed.                                                    *)
TellBranch(t) ==
  /\ Running(t) /\ run[t].at = "completed"
  /\ Enter(t, t, TRUE)
  /\ UNCHANGED <<run, queue, task>>

(* The callback returns: the run, or the case, goes on.                    *)
CallerLeaves(t) ==
  /\ telling[t] # None /\ run[t] # None
  /\ telling' = [telling EXCEPT ![t] = None]
  /\ \/ run[t].at = "start" /\ run' = [run EXCEPT ![t] = At(@, "predicate")]
     \/ run[t].at = "predicate" /\ run' = [run EXCEPT ![t] = At(@, "selected")]
     \/ run[t].at = "predicate" /\ run' = [run EXCEPT ![t] = Advance(@)]
     \/ run[t].at = "completed" /\ run' = [run EXCEPT ![t] = At(@, "success")]
     \/ run[t].at \in {"success", "caught"} /\ run' = [run EXCEPT ![t] = None]
  /\ UNCHANGED <<queue, task>>

(* A callback throws, or the constructor of a predicate or a stage does:   *)
(* past group.wait(), if cases are pending, to the handler of run_stages.  *)
Unwind(t) ==
  /\ CallerThrows /\ run[t] # None
  /\ \/ telling[t] # None /\ run[t].at # "caught"
     \/ run[t].at \in {"predicate", "selected"}
  /\ run' = [run EXCEPT ![t] = At(@, "caught")]
  /\ telling' = [telling EXCEPT ![t] = None]
  /\ UNCHANGED <<queue, task>>

(* worker_loop takes the front task.  While its stage waits for a run of   *)
(* its own, the worker takes no other.                                     *)
Take(w) ==
  /\ task[w] = None /\ queue # <<>>
  /\ task' = [task EXCEPT ![w] = [by |-> Head(queue), at |-> "begin"]]
  /\ queue' = Tail(queue)
  /\ UNCHANGED <<run, telling>>

(* on_stage_start of a case, later its on_stage_success and                *)
(* on_fan_in_case_completed.                                               *)
TellOfCase(w) ==
  /\ Working(w) /\ task[w].at \in {"begin", "end"}
  /\ Enter(w, task[w].by, TRUE)
  /\ UNCHANGED <<run, queue, task>>

WorkerLeaves(w) ==
  /\ telling[w] # None /\ run[w] = None
  /\ telling' = [telling EXCEPT ![w] = None]
  /\ task' = [task EXCEPT ![w] =
       IF task[w].at = "begin" THEN At(@, "stage") ELSE At(@, "finish")]
  /\ UNCHANGED <<run, queue>>

StageReturns(w) ==
  /\ Working(w) /\ task[w].at \in {"stage", "nested"}
  /\ task' = [task EXCEPT ![w] = At(@, "end")]
  /\ UNCHANGED <<run, queue, telling>>

(* finish, and the end of the task.  Nobody looks any more at the count of *)
(* a group whose run is over.                                              *)
Finish(w) ==
  /\ Working(w) /\ task[w].at = "finish"
  /\ LET by == task[w].by
     IN  run' = IF run[by] = None THEN run
                ELSE [run EXCEPT ![by] = Counting(@, run[by].pending - 1)]
  /\ task' = [task EXCEPT ![w] = None]
  /\ UNCHANGED <<queue, telling>>

RunStep(t) ==
  TellStage(t) \/ TellCase(t) \/ Post(t) \/ WaitReturns(t) \/ TellBranch(t) \/ CallerLeaves(t)

WorkerStep(w) ==
  Take(w) \/ TellOfCase(w) \/ WorkerLeaves(w) \/ StageReturns(w) \/ Finish(w)

Next ==
  \/ \E c \in Callers : CallerBegins(c)
  \/ \E w \in Workers : StageBegins(w) \/ WorkerStep(w)
  \/ \E t \in Threads : RunStep(t) \/ Unwind(t)

(* Threads are scheduled, callbacks and stages return.  Nobody need begin  *)
(* a run, or throw.                                                        *)
Spec ==
  /\ Init /\ [][Next]_vars
  /\ \A t \in Threads : WF_vars(RunStep(t))
  /\ \A w \in Workers : WF_vars(WorkerStep(w))

-----------------------------------------------------------------------------
(* The observer "is not thread-safe; ... fan-in events are forwarded under *)
(* the runtime's own synchronization" (trace.hpp:351-353).  For the events *)
(* of one run, those of its stages included, this is so as long as nothing *)
(* throws on its thread.  Each run has a mutex of its own, so two threads  *)
(* may be in the observer for two runs.                                    *)
SinkOverlapsOnlyAcrossRuns ==
  \A t, u \in Threads :
    t # u /\ telling[t] # None /\ telling[u] # None => telling[t].run # telling[u].run

(* What holds whatever throws: two threads are in the observer for one run *)
(* only when that run has left its branch by an exception, and so has      *)
(* neither waited for its cases nor kept the mutex they share              *)
(* (run_parallel_fan_in_branch, synchronized_observer).                    *)
OverlapsInARunNeedUnwinding ==
  \A t, u \in Threads :
    t # u /\ telling[t] # None /\ telling[u] # None /\ telling[t].run = telling[u].run
      => Unwound(telling[t].run)

(* Every worker executes a stage that waits for cases behind it in the     *)
(* queue.                                                                  *)
Waits(t) == run[t] # None /\ run[t].at = "wait" /\ run[t].pending > 0
Exhausted == \A w \in Workers : Waits(w)

(* Runs on a shared pool do not deadlock each other: every run returns,    *)
(* unless the stages of cases that run engines occupy all the workers.     *)
EveryRunReturns ==
  \A t \in Threads : run[t] # None ~> run[t] = None \/ Exhausted
=============================================================================
