--------------------------- MODULE SequentialFanIn ---------------------------
(***************************************************************************)
(* One fan-in branch of the sequential engine                              *)
(* (include/pb/runtime/sequential.hpp): each case's predicate and, if it   *)
(* says yes, its stage, one case after the other on the calling thread.    *)
(* The case helpers are those of the parallel branch; what differs is who  *)
(* counts, when, and where an exception of theirs goes: out of the branch. *)
(***************************************************************************)
EXTENDS Naturals, FiniteSets

CONSTANTS
  NumCases,        \* the branch's cases, in declaration order
  ObserverThrows,  \* may an observer callback throw?
  MakingThrows     \* may making a predicate, a stage or a copy throw?

Cases == 1 .. NumCases

VARIABLES
  pc,         \* the place in run_fan_in_branch_impl and run_fan_in_cases
  next,       \* the case it is at
  slot,       \* the aggregate's slots
  tally,      \* fan_in_case_tally
  chosen,     \* history: cases counted in tally.selected
  rejected,   \* history: cases whose predicate failed
  scheduled,  \* history: cases on_fan_in_case_scheduled was emitted for
  finished,   \* history: cases on_fan_in_case_completed was emitted for
  report      \* history: the counts given to on_fan_in_completed

counts == <<tally, report>>
told   == <<scheduled, finished>>
fate   == <<chosen, rejected>>
vars   == <<pc, next, slot, counts, told, fate>>

(* No case is lost and the branch goes on: the exception ends it.          *)
Contract == INSTANCE FanIn WITH
  lost <- {},
  phase <- CASE pc = "returned" -> "aggregate"
             [] pc = "threw" -> "aborted"
             [] OTHER -> "running"

Init ==
  /\ pc = "start"
  /\ next = 1
  /\ slot = [k \in Cases |-> "skipped"]
  /\ tally = [selected |-> 0, completed |-> 0, failed |-> 0]
  /\ report = Contract!NoReport
  /\ scheduled = {} /\ finished = {}
  /\ chosen = {} /\ rejected = {}

(* A callback that returns, or throws to the handler at place.             *)
Call(place, handler) == pc' = place \/ (ObserverThrows /\ pc' = handler)

(* The end of run_fan_in_cases for one case, after its last callback.      *)
Advance ==
  \/ IF next < NumCases THEN pc' = "predicate" /\ next' = next + 1
                        ELSE pc' = "report" /\ UNCHANGED next
  \/ ObserverThrows /\ pc' = "threw" /\ UNCHANGED next

(* on_fan_in_started.                                                      *)
Begin ==
  /\ pc = "start"
  /\ Call("predicate", "threw")
  /\ UNCHANGED <<next, slot, counts, told, fate>>

(* Mutant: a failed predicate is not counted. *)
EvaluateUncounted ==
  /\ pc = "predicate"
  /\ \/ /\ Call("skip", "threw") \/ (MakingThrows /\ pc' = "threw")
        /\ UNCHANGED <<slot, tally, chosen, rejected>>
     \/ /\ pc' = "reject"
        /\ slot' = [slot EXCEPT ![next] = "failed"]
        /\ rejected' = rejected \cup {next}
        /\ UNCHANGED <<tally, chosen>>
     \/ /\ pc' = "select"
        /\ tally' = [tally EXCEPT !.selected = @ + 1]
        /\ chosen' = chosen \cup {next}
        /\ UNCHANGED <<slot, rejected>>
  /\ UNCHANGED <<next, report, told>>

(* evaluate_fan_in_predicate and what follows from its answer.  An observer *)
(* that throws while the predicate's exception is reported unwinds.        *)
EvaluatePredicate ==
  /\ pc = "predicate"
  /\ \/ /\ Call("skip", "threw") \/ (MakingThrows /\ pc' = "threw")
        /\ UNCHANGED <<slot, tally, chosen, rejected>>
     \/ /\ pc' = "reject"
        /\ slot' = [slot EXCEPT ![next] = "failed"]
        /\ tally' = [tally EXCEPT !.failed = @ + 1]
        /\ rejected' = rejected \cup {next}
        /\ UNCHANGED chosen
     \/ /\ pc' = "select"
        /\ tally' = [tally EXCEPT !.selected = @ + 1]
        /\ chosen' = chosen \cup {next}
        /\ UNCHANGED <<slot, rejected>>
  /\ UNCHANGED <<next, report, told>>

(* on_case_skipped, or on_case_failed for a failed predicate.              *)
ReportUnscheduled ==
  /\ pc \in {"skip", "reject"}
  /\ Advance
  /\ UNCHANGED <<slot, counts, told, fate>>

(* on_case_selected and on_fan_in_case_scheduled.                          *)
Schedule ==
  /\ pc = "select"
  /\ \/ pc' = "copy" /\ scheduled' = scheduled \cup {next}
     \/ /\ ObserverThrows
        /\ pc' = "threw" /\ scheduled' \in {scheduled, scheduled \cup {next}}
  /\ UNCHANGED <<next, slot, counts, finished, fate>>

(* The stage object is made and the input copied outside the try of the    *)
(* stage.                                                                  *)
CopyInput ==
  /\ pc = "copy"
  /\ pc' = "begin" \/ (MakingThrows /\ pc' = "threw")
  /\ UNCHANGED <<next, slot, counts, told, fate>>

Mark(state) == slot' = [slot EXCEPT ![next] = state]

(* run_fan_in_case_stage_with_arg: on_stage_start, the stage and its slot, *)
(* the event of the outcome; whatever throws fails the slot.               *)
StartStage ==
  /\ pc = "begin"
  /\ \/ pc' = "stage" /\ UNCHANGED slot
     \/ ObserverThrows /\ pc' = "caught" /\ Mark("failed")
  /\ UNCHANGED <<next, counts, told, fate>>

RunStage ==
  /\ pc = "stage"
  /\ \/ pc' = "settled" /\ (Mark("completed") \/ Mark("failed"))
     \/ pc' = "caught" /\ Mark("failed")
  /\ UNCHANGED <<next, counts, told, fate>>

(* on_stage_success or on_stage_failure, with on_case_failed.              *)
ReportStage ==
  /\ pc = "settled"
  /\ \/ pc' = "tell" /\ UNCHANGED slot
     \/ ObserverThrows /\ pc' = "caught" /\ Mark("failed")
  /\ UNCHANGED <<next, counts, told, fate>>

(* on_stage_exception and on_case_failed.                                  *)
ReportException ==
  /\ pc = "caught"
  /\ Call("tell", "threw")
  /\ UNCHANGED <<next, slot, counts, told, fate>>

(* The case is counted by its slot, then on_fan_in_case_completed.         *)
TellCompleted ==
  /\ pc = "tell"
  /\ LET succeeded == slot[next] # "failed"
     IN  /\ tally' = IF succeeded THEN [tally EXCEPT !.completed = @ + 1]
                                  ELSE [tally EXCEPT !.failed = @ + 1]
         /\ finished' = finished \cup {<<next, succeeded>>}
  /\ Advance
  /\ UNCHANGED <<slot, report, scheduled, fate>>

(* on_fan_in_completed, then the aggregate: run_fan_in_case_stage never    *)
(* returns an error, so the branch has none to return.                     *)
ReportAndReturn ==
  /\ pc = "report"
  /\ report' = [selected |-> tally.selected, completed |-> tally.completed,
                failed |-> tally.failed, made |-> TRUE]
  /\ Call("returned", "threw")
  /\ UNCHANGED <<next, slot, tally, told, fate>>

Ended == pc \in {"returned", "threw"}

Next ==
  \/ Begin \/ EvaluatePredicate \/ ReportUnscheduled \/ Schedule \/ CopyInput
  \/ StartStage \/ RunStage \/ ReportStage \/ ReportException \/ TellCompleted
  \/ ReportAndReturn

Spec == Init /\ [][Next]_vars

-----------------------------------------------------------------------------
(* Properties.                                                             *)

TypeOK ==
  /\ pc \in {"start", "predicate", "skip", "reject", "select", "copy", "begin",
             "stage", "settled", "caught", "tell", "report", "returned", "threw"}
  /\ next \in Cases
  /\ slot \in [Cases -> Contract!SlotState]
  /\ tally \in [selected : 0 .. NumCases, completed : 0 .. NumCases,
                failed : 0 .. NumCases]
  /\ report \in [selected : Nat, completed : Nat, failed : Nat, made : BOOLEAN]
  /\ UNION {chosen, rejected, scheduled} \subseteq Cases
  /\ finished \subseteq Cases \X BOOLEAN

(* The branch implements the promises of FanIn, as the parallel one does,  *)
(* whatever the observer or a copy throws.                                 *)
ImplementsFanIn == Contract!Spec

(* The documented lifecycle (observer.hpp): as many scheduled events as    *)
(* case_completed events as selected cases when on_fan_in_completed fires; *)
(* here also when observers and copies throw, because that ends the branch. *)
LifecycleOrdering ==
  report.made => /\ scheduled = chosen
                 /\ {e[1] : e \in finished} = scheduled
                 /\ \A e \in finished : e[2] <=> slot[e[1]] = "completed"

(* Declaration order (fan-in-join-design.md): a case is scheduled only     *)
(* after every earlier case is over, so at most one is open.               *)
OneCaseAtATime ==
  \A k \in scheduled : \A j \in chosen :
    j < k => \E success \in BOOLEAN : <<j, success>> \in finished
=============================================================================
