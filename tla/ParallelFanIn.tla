--------------------------- MODULE ParallelFanIn ---------------------------
(***************************************************************************)
(* One fan-in branch of thread_pool_engine                                 *)
(* (include/pb/runtime/thread_pool_backend.hpp): the calling thread        *)
(* evaluates the predicates in declaration order and posts the selected    *)
(* cases to the pool, the workers run the case stages, and the caller      *)
(* waits for the task group before it hands the aggregate over.            *)
(*                                                                         *)
(* The pool is used through what TaskPool promises: posted tasks start in  *)
(* order, each once, at most one per worker.  A posted case refers to the  *)
(* caller's frame: the aggregate and the synchronized observer live there. *)
(***************************************************************************)
EXTENDS Naturals, Sequences, FiniteSets

CONSTANTS
  NumCases,      \* the branch's cases, in declaration order
  Workers,       \* the pool's workers
  CallerThrows,  \* may a callback or a constructor throw on the caller?
  WorkerThrows,  \* may an observer callback throw on a worker?
  CopyThrows,    \* may copying the input on a worker throw?
  PostThrows,    \* may capturing or posting a case throw?
  Cancellable    \* was the engine given a token with a source?

Cases == 1 .. NumCases

ASSUME FanInAssumption ==
  /\ NumCases \in Nat \ {0}
  /\ Workers # {}
  /\ {CallerThrows, WorkerThrows, CopyThrows, PostThrows, Cancellable}
       \subseteq BOOLEAN

VARIABLES
  pc,           \* the caller's place in run_parallel_fan_in_branch
  next,         \* the case schedule_fan_in_cases is at
  slot,         \* the aggregate's slots
  tally,        \* fan_in_case_tally
  pending_,     \* fan_in_task_group_state
  first_error_, \* the case whose error the group keeps, 0 if none
  cancelled,    \* the token's flag
  queue,        \* posted cases no worker has taken
  job,          \* the case each worker is running, 0 if none
  at,           \* each worker's place in the posted lambda
  outcome,      \* the result each worker is about to pass to finish
  scheduled,    \* history: cases on_fan_in_case_scheduled was emitted for
  finished,     \* history: cases on_fan_in_case_completed was emitted for
  chosen,       \* history: cases counted in tally.selected
  rejected,     \* history: cases whose predicate failed
  lost,         \* history: chosen cases that died before settling the slot
  late,         \* history: cases posted although the token was stopped
  report        \* history: the counts given to on_fan_in_completed

caller == <<pc, next, tally, scheduled, chosen, rejected, late, report>>
group  == <<pending_, first_error_>>
work   == <<queue, job, at, outcome, finished>>
vars == <<caller, slot, group, cancelled, work, lost>>

Contract == INSTANCE FanIn WITH
  phase <- CASE pc = "returned" -> IF first_error_ = 0 THEN "aggregate"
                                                       ELSE "error"
             [] pc = "threw" -> "aborted"
             [] OTHER -> "running"

CallerState == {"start", "predicate", "token", "skip", "reject", "schedule",
                "post", "wait", "asleep", "tally", "report",
                "returned", "threw"}
WorkerState == {"idle", "copy", "start", "stage", "succeeded", "failed",
                "threw", "tell", "finish", "notify"}

(* The steps of a posted case that use the caller's frame.                 *)
UsesFrame == {"start", "stage", "succeeded", "failed", "threw", "tell"}

Init ==
  /\ pc = "start"
  /\ next = 1
  /\ slot = [k \in Cases |-> "skipped"]
  /\ tally = [selected |-> 0, completed |-> 0, failed |-> 0]
  /\ pending_ = 0
  /\ first_error_ = 0
  /\ cancelled = FALSE
  /\ queue = <<>>
  /\ job = [w \in Workers |-> 0]
  /\ at = [w \in Workers |-> "idle"]
  /\ outcome = [w \in Workers |-> "ok"]
  /\ scheduled = {}
  /\ finished = {}
  /\ chosen = {}
  /\ rejected = {}
  /\ lost = {}
  /\ late = {}
  /\ report = Contract!NoReport

-----------------------------------------------------------------------------
(* The calling thread.                                                     *)

(* An exception on the caller unwinds its frame: nobody waits for the      *)
(* cases already posted.                                                   *)
Unwind == CallerThrows /\ pc' = "threw"

(* Mutant: one case too many. *)
AdvancePastEnd ==
  IF next <= NumCases
  THEN pc' = "predicate" /\ next' = next + 1
  ELSE pc' = "wait" /\ UNCHANGED next

(* The end of schedule_fan_in_cases for one case.                          *)
Advance ==
  IF next < NumCases
  THEN pc' = "predicate" /\ next' = next + 1
  ELSE pc' = "wait" /\ UNCHANGED next

(* on_fan_in_started. *)
Begin ==
  /\ pc = "start"
  /\ pc' = "predicate" \/ Unwind
  /\ UNCHANGED <<next, tally, scheduled, chosen, rejected, late, report,
                 slot, group, cancelled, work, lost>>

(* evaluate_fan_in_predicate: what the predicate throws, and what the      *)
(* observer throws around it, becomes an error of the case; what the       *)
(* observer throws while that exception is being reported unwinds.         *)
EvaluatePredicate ==
  /\ pc = "predicate"
  /\ \/ /\ pc' \in {"token", "skip"} \/ Unwind
        /\ UNCHANGED <<slot, tally, rejected>>
     \/ /\ slot' = [slot EXCEPT ![next] = "failed"]
        /\ tally' = [tally EXCEPT !.failed = @ + 1]
        /\ rejected' = rejected \cup {next}
        /\ pc' = "reject"
  /\ UNCHANGED <<next, scheduled, chosen, late, report, group, cancelled,
                 work, lost>>

(* on_case_skipped and on_case_failed of a case that is not scheduled.     *)
ReportUnscheduled ==
  /\ pc \in {"skip", "reject"}
  /\ Advance \/ (Unwind /\ UNCHANGED next)
  /\ UNCHANGED <<tally, scheduled, chosen, rejected, late, report, slot,
                 group, cancelled, work, lost>>

(* Mutant: the token is read once, for the first case. *)
CheckTokenOnce ==
  /\ pc = "token"
  /\ IF cancelled /\ next = 1
     THEN pc' = "skip" /\ UNCHANGED <<tally, chosen>>
     ELSE /\ pc' = "schedule"
          /\ tally' = [tally EXCEPT !.selected = @ + 1]
          /\ chosen' = chosen \cup {next}
  /\ UNCHANGED <<next, scheduled, rejected, late, report, slot, group,
                 cancelled, work, lost>>

(* The only place the token is read.                                       *)
CheckToken ==
  /\ pc = "token"
  /\ IF cancelled
     THEN pc' = "skip" /\ UNCHANGED <<tally, chosen>>
     ELSE /\ pc' = "schedule"
          /\ tally' = [tally EXCEPT !.selected = @ + 1]
          /\ chosen' = chosen \cup {next}
  /\ UNCHANGED <<next, scheduled, rejected, late, report, slot, group,
                 cancelled, work, lost>>

(* on_case_selected, on_fan_in_case_scheduled, and the stage object.       *)
Schedule ==
  /\ pc = "schedule"
  /\ scheduled' \in {scheduled, scheduled \cup {next}}
  /\ \/ pc' = "post" /\ next \in scheduled'
     \/ Unwind
  /\ UNCHANGED <<next, tally, chosen, rejected, late, report, slot, group,
                 cancelled, work, lost>>

KeepFirst(k) == IF first_error_ = 0 THEN k ELSE first_error_

(* post_fan_in_case: the group grows before the post, and a failed post is *)
(* finished with its exception by the caller itself.                       *)
Post ==
  /\ pc = "post"
  /\ Advance
  /\ \/ /\ queue' = Append(queue, next)
        /\ pending_' = pending_ + 1
        /\ late' = IF cancelled THEN late \cup {next} ELSE late
        /\ UNCHANGED <<first_error_, lost>>
     \/ /\ PostThrows
        /\ first_error_' = KeepFirst(next)
        /\ lost' = lost \cup {next}
        /\ UNCHANGED <<queue, pending_, late>>
  /\ UNCHANGED <<tally, scheduled, chosen, rejected, report, slot, cancelled,
                 job, at, outcome, finished>>

(* Mutant: the group counts as drained with one case left. *)
WaitForAllButOne ==
  /\ pc = "wait"
  /\ pc' = IF pending_ <= 1 THEN "tally" ELSE "asleep"
  /\ UNCHANGED <<next, tally, scheduled, chosen, rejected, late, report,
                 slot, group, cancelled, work, lost>>

(* fan_in_task_group_state::wait. *)
Wait ==
  /\ pc = "wait"
  /\ pc' = IF pending_ = 0 THEN "tally" ELSE "asleep"
  /\ UNCHANGED <<next, tally, scheduled, chosen, rejected, late, report,
                 slot, group, cancelled, work, lost>>

SpuriousWake ==
  /\ pc = "asleep"
  /\ pc' = "wait"
  /\ UNCHANGED <<next, tally, scheduled, chosen, rejected, late, report,
                 slot, group, cancelled, work, lost>>

Completed == {k \in Cases : slot[k] = "completed"}

(* Mutant: the failed predicates are forgotten. *)
TallyOverwrites ==
  /\ pc = "tally"
  /\ LET completed == Cardinality(Completed)
     IN  tally' = [tally EXCEPT !.completed = completed,
                                !.failed = tally.selected - completed]
  /\ pc' = "report"
  /\ UNCHANGED <<next, scheduled, chosen, rejected, late, report, slot,
                 group, cancelled, work, lost>>

(* tally_fan_in_completions and the failures derived from it.              *)
TallyCompletions ==
  /\ pc = "tally"
  /\ LET completed == Cardinality(Completed)
     IN  tally' = [tally EXCEPT !.completed = completed,
                                !.failed = @ + (tally.selected - completed)]
  /\ pc' = "report"
  /\ UNCHANGED <<next, scheduled, chosen, rejected, late, report, slot,
                 group, cancelled, work, lost>>

(* on_fan_in_completed, then the aggregate or the group's error.           *)
ReportAndReturn ==
  /\ pc = "report"
  /\ report' = [selected |-> tally.selected, completed |-> tally.completed,
                failed |-> tally.failed, made |-> TRUE]
  /\ pc' = "returned" \/ Unwind
  /\ UNCHANGED <<next, tally, scheduled, chosen, rejected, late, slot, group,
                 cancelled, work, lost>>

(* cancellation_source::request_stop, from any thread. *)
RequestStop ==
  /\ Cancellable /\ ~cancelled
  /\ cancelled' = TRUE
  /\ UNCHANGED <<caller, slot, group, work, lost>>

-----------------------------------------------------------------------------
(* A worker in the posted lambda.                                          *)

Goto(w, place) == at' = [at EXCEPT ![w] = place]
Mark(w, state) == slot' = [slot EXCEPT ![job[w]] = state]

(* The lambda's own catch: the error goes to the group.                    *)
EscapeTo(w) ==
  /\ Goto(w, "finish")
  /\ outcome' = [outcome EXCEPT ![w] = "error"]

(* Mutant: the case stays in the queue. *)
TakeCopies(w) ==
  /\ at[w] = "idle" /\ queue # <<>>
  /\ job' = [job EXCEPT ![w] = Head(queue)]
  /\ outcome' = [outcome EXCEPT ![w] = "ok"]
  /\ Goto(w, "copy")
  /\ UNCHANGED <<caller, slot, group, cancelled, queue, finished, lost>>

Take(w) ==
  /\ at[w] = "idle" /\ queue # <<>>
  /\ job' = [job EXCEPT ![w] = Head(queue)]
  /\ queue' = Tail(queue)
  /\ outcome' = [outcome EXCEPT ![w] = "ok"]
  /\ Goto(w, "copy")
  /\ UNCHANGED <<caller, slot, group, cancelled, finished, lost>>

(* run_fan_in_case_stage copies the input outside the try of the stage.    *)
CopyInput(w) ==
  /\ at[w] = "copy"
  /\ \/ Goto(w, "start") /\ UNCHANGED <<outcome, lost>>
     \/ CopyThrows /\ EscapeTo(w) /\ lost' = lost \cup {job[w]}
  /\ UNCHANGED <<caller, slot, group, cancelled, queue, job, finished>>

(* run_fan_in_case_stage_with_arg: on_stage_start, the stage, the slot, and *)
(* the event; whatever throws marks the slot failed and is reported.       *)
StageStart(w) ==
  /\ at[w] = "start"
  /\ \/ Goto(w, "stage") /\ UNCHANGED slot
     \/ WorkerThrows /\ Mark(w, "failed") /\ Goto(w, "threw")
  /\ UNCHANGED <<caller, group, cancelled, queue, job, outcome, finished, lost>>

RunStage(w) ==
  /\ at[w] = "stage"
  /\ \/ Mark(w, "completed") /\ Goto(w, "succeeded")
     \/ Mark(w, "failed") /\ (Goto(w, "failed") \/ Goto(w, "threw"))
  /\ UNCHANGED <<caller, group, cancelled, queue, job, outcome, finished, lost>>

ReportStage(w) ==
  /\ at[w] \in {"succeeded", "failed"}
  /\ \/ Goto(w, "tell") /\ UNCHANGED slot
     \/ WorkerThrows /\ Mark(w, "failed") /\ Goto(w, "threw")
  /\ UNCHANGED <<caller, group, cancelled, queue, job, outcome, finished, lost>>

ReportException(w) ==
  /\ at[w] = "threw"
  /\ \/ Goto(w, "tell") /\ UNCHANGED outcome
     \/ WorkerThrows /\ EscapeTo(w)
  /\ UNCHANGED <<caller, slot, group, cancelled, queue, job, finished, lost>>

(* Mutant: success means settled. *)
TellSettled(w) ==
  /\ at[w] = "tell"
  /\ finished' = finished \cup {<<job[w], slot[job[w]] # "skipped">>}
  /\ Goto(w, "finish")
  /\ UNCHANGED <<caller, slot, group, cancelled, queue, job, outcome, lost>>

(* on_fan_in_case_completed, with success = !slot.failed().                *)
TellCompleted(w) ==
  /\ at[w] = "tell"
  /\ finished' = finished \cup {<<job[w], slot[job[w]] # "failed">>}
  /\ \/ Goto(w, "finish") /\ UNCHANGED outcome
     \/ WorkerThrows /\ EscapeTo(w)
  /\ UNCHANGED <<caller, slot, group, cancelled, queue, job, lost>>

(* Mutant: notifies if nothing was pending before the decrement. *)
FinishDecidesFirst(w) ==
  /\ at[w] = "finish"
  /\ first_error_' = IF outcome[w] = "error" THEN KeepFirst(job[w])
                                             ELSE first_error_
  /\ pending_' = IF pending_ > 0 THEN pending_ - 1 ELSE pending_
  /\ Goto(w, IF pending_ = 0 THEN "notify" ELSE "idle")
  /\ UNCHANGED <<caller, slot, cancelled, queue, job, outcome, finished, lost>>

(* fan_in_task_group_state::finish under its mutex ...                     *)
Finish(w) ==
  /\ at[w] = "finish"
  /\ first_error_' = IF outcome[w] = "error" THEN KeepFirst(job[w])
                                             ELSE first_error_
  /\ pending_' = IF pending_ > 0 THEN pending_ - 1 ELSE pending_
  /\ Goto(w, "notify")
  /\ UNCHANGED <<caller, slot, cancelled, queue, job, outcome, finished, lost>>

(* ... and its notify_one after it.                                        *)
NotifyGroup(w) ==
  /\ at[w] = "notify"
  /\ pc' = IF pc = "asleep" THEN "wait" ELSE pc
  /\ job' = [job EXCEPT ![w] = 0]
  /\ Goto(w, "idle")
  /\ UNCHANGED <<next, tally, scheduled, chosen, rejected, late, report, slot,
                 group, cancelled, queue, outcome, finished, lost>>

-----------------------------------------------------------------------------
CallerStep ==
  \/ Begin \/ EvaluatePredicate \/ ReportUnscheduled \/ CheckToken \/ Schedule
  \/ Post \/ Wait \/ TallyCompletions \/ ReportAndReturn

WorkerStep(w) ==
  \/ Take(w) \/ CopyInput(w) \/ StageStart(w) \/ RunStage(w) \/ ReportStage(w)
  \/ ReportException(w) \/ TellCompleted(w) \/ Finish(w) \/ NotifyGroup(w)

Ended == pc \in {"returned", "threw"}
Quiet == queue = <<>> /\ \A w \in Workers : at[w] = "idle"
Terminated == Ended /\ Quiet /\ UNCHANGED vars

Next ==
  \/ CallerStep
  \/ \E w \in Workers : WorkerStep(w)
  \/ RequestStop
  \/ SpuriousWake
  \/ Terminated

(* The caller and the workers move when they can: stages and callbacks     *)
(* return.                                                                 *)
Spec == Init /\ [][Next]_vars
FairSpec == Spec /\ WF_vars(CallerStep) /\ \A w \in Workers : WF_vars(WorkerStep(w))

-----------------------------------------------------------------------------
(* Properties.                                                             *)

TypeOK ==
  /\ pc \in CallerState
  /\ next \in Cases
  /\ slot \in [Cases -> Contract!SlotState]
  /\ tally \in [selected : Nat, completed : Nat, failed : Nat]
  /\ pending_ \in Nat
  /\ first_error_ \in Cases \cup {0}
  /\ cancelled \in BOOLEAN
  /\ queue \in Seq(Cases)
  /\ job \in [Workers -> Cases \cup {0}]
  /\ at \in [Workers -> WorkerState]
  /\ outcome \in [Workers -> {"ok", "error"}]
  /\ finished \subseteq Cases \X BOOLEAN
  /\ UNION {scheduled, chosen, rejected, lost, late} \subseteq Cases
  /\ report \in [selected : Nat, completed : Nat, failed : Nat, made : BOOLEAN]

(* Drain before the result: when the branch is over, with a value, an      *)
(* error or an exception, none of its cases is queued or running on a      *)
(* worker, so nothing refers to the caller's frame any more (group.wait()  *)
(* before the return in run_parallel_fan_in_branch).                       *)
DrainsBeforeReturn ==
  Ended => queue = <<>> /\ \A w \in Workers : at[w] \in {"idle", "notify"}

(* The caller asleep in wait() with no case pending has a notify_one on    *)
(* its way: finish decrements under the mutex and notifies after it.       *)
NoSleepingOnGroup ==
  pc = "asleep" /\ pending_ = 0 => \E w \in Workers : at[w] = "notify"

(* Two workers never write the same slot, and no worker writes a slot the  *)
(* caller may still write: a case is with one thread at a time.            *)
SlotsHaveOneWriter ==
  /\ \A v, w \in Workers : at[v] \in UsesFrame /\ job[v] = job[w] => v = w
  /\ \A w \in Workers :
       at[w] \in UsesFrame => /\ \A i \in DOMAIN queue : queue[i] # job[w]
                              /\ pc \in {"predicate", "token", "reject",
                                         "schedule", "post"} => job[w] < next

(* The per-case events on a worker follow the caller's: a case_completed   *)
(* is emitted at most once, for a scheduled case, and once the branch has  *)
(* been aggregated its success flag is what the slot says.                 *)
EventsTellSlots ==
  /\ \A e \in finished : e[1] \in scheduled
  /\ \A d, e \in finished : d[1] = e[1] => d = e
  /\ report.made => \A e \in finished : e[2] <=> slot[e[1]] = "completed"

(* The documented lifecycle (observer.hpp): as many scheduled events as    *)
(* case_completed events as selected cases when on_fan_in_completed fires, *)
(* unless the branch is going to return an error (a case that is lost, or  *)
(* an observer that throws on a worker, may leave its case without one).   *)
LifecycleUnlessError ==
  report.made /\ first_error_ = 0 =>
    /\ Cardinality(scheduled) = report.selected
    /\ Cardinality({e[1] : e \in finished}) = report.selected

(* What the observer was told agrees with the aggregate, whatever order    *)
(* the workers' events came in.                                            *)
EventsTellTheRun == EventsTellSlots /\ LifecycleUnlessError

(* A stop request keeps every further case off the pool but the one whose  *)
(* token check it raced with (the check in schedule_fan_in_cases against   *)
(* the post that follows it).                                              *)
AtMostOneLateCase == Cardinality(late) <= 1

(* The documented reach of a stop request (cancellation.hpp,               *)
(* thread_pool_backend.hpp): a case that was waiting in the queue when the *)
(* stop was requested is not begun.                                        *)
StopReachesQueuedCases ==
  [][\A w \in Workers :
       at[w] = "idle" /\ at'[w] = "copy" /\ job'[w] \notin late
         => ~cancelled]_vars

(* The branch implements the promises of FanIn.                            *)
ImplementsFanIn == Contract!Spec

(* Liveness: the branch ends, and every case it posted gets its turn, also *)
(* when the caller did not stay to wait for it.                            *)
BranchEnds == <>(Ended /\ Quiet)
=============================================================================
