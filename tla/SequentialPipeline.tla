------------------------- MODULE SequentialPipeline -------------------------
(***************************************************************************)
(* A chain of the sequential engine with its branches opened: invoke_stage *)
(* (include/pb/runtime/sequential.hpp) runs a selected-output branch or a  *)
(* fan-in branch as one stage of the chain, inside that stage's try.       *)
(***************************************************************************)
EXTENDS SequentialEngine, FiniteSets

CONSTANTS
  NumCases,     \* the cases of a branch
  Storage,      \* may the engine store its stages, must it?
  MakingThrows, \* may making a case's stage or copying its input throw?
  Shapes        \* the chains an instance looks at

Kinds == {"simple", "branch", "fan_in"}
Plain == [k \in Stages |-> "simple"]

(* Chains with at most one branch of each kind. *)
OneOfEach ==
  {s \in [Stages -> Kinds] :
     \A j, k \in Stages : s[j] = s[k] => j = k \/ s[j] = "simple"}

ASSUME PipelineAssumption ==
  /\ NumCases \in Nat \ {0}
  /\ Storage \subseteq BOOLEAN
  /\ MakingThrows \in BOOLEAN
  /\ Shapes \subseteq OneOfEach
  /\ Throwing \subseteq Callbacks \cup {"selected", "skipped"}

VARIABLES
  shape,  \* the kind of each stage
  b_stored, b_pc, b_case, b_error, b_events, b_broke, b_said, b_given, b_worked,
  f_pc, f_next, f_slot, f_tally, f_chosen, f_rejected, f_scheduled,
  f_finished, f_report

b_vars == <<b_stored, b_pc, b_case, b_error, b_events, b_broke, b_said,
            b_given, b_worked>>
f_vars == <<f_pc, f_next, f_slot, f_tally, f_chosen, f_rejected, f_scheduled,
            f_finished, f_report>>
allvars == <<vars, shape, b_vars, f_vars>>

Branch == INSTANCE SelectedBranch WITH
  stored <- b_stored, pc <- b_pc, case <- b_case, error <- b_error,
  events <- b_events, broke <- b_broke, said <- b_said, given <- b_given,
  worked <- b_worked

Fan == INSTANCE SequentialFanIn WITH
  ObserverThrows <- Throwing # {},
  pc <- f_pc, next <- f_next, slot <- f_slot, tally <- f_tally,
  chosen <- f_chosen, rejected <- f_rejected, scheduled <- f_scheduled,
  finished <- f_finished, report <- f_report

(* A branch's own error type is that of the library, so only the           *)
(* converting recursion meets one.                                         *)
PipelineInit ==
  /\ Init
  /\ shape \in IF mode = "convert" THEN Shapes ELSE {Plain}
  /\ Branch!Init
  /\ Fan!Init

Invoking(kind) == pc = "invoke" /\ shape[stage] = kind

InvokeSimple ==
  /\ Invoking("simple")
  /\ InvokeStage
  /\ UNCHANGED <<shape, b_vars, f_vars>>

BranchStep ==
  /\ Invoking("branch")
  /\ Branch!Next
  /\ UNCHANGED <<vars, shape, f_vars>>

(* Mutant: the error of the branch is taken for a value. *)
EndBranchIgnoresError ==
  /\ Invoking("branch") /\ Branch!Ended
  /\ \/ b_pc = "threw" /\ Raise
     \/ /\ b_pc = "returned"
        /\ error' = IF b_error.role = "branch" THEN error
                    ELSE [stage |-> Elsewhere, category |-> "returned"]
        /\ pc' = "succeeded"
        /\ UNCHANGED <<stage, culprit>>
  /\ UNCHANGED <<mode, events, broke, shape, b_vars, f_vars>>

(* The branch's value, its error, or what it threw, as the stage's: an     *)
(* error names the child it came from, or the branch if nothing matched.   *)
EndBranch ==
  /\ Invoking("branch") /\ Branch!Ended
  /\ \/ b_pc = "threw" /\ Raise
     \/ /\ b_pc = "returned" /\ b_error = Branch!NoError
        /\ pc' = "succeeded"
        /\ UNCHANGED <<stage, error, culprit>>
     \/ /\ b_pc = "returned" /\ b_error # Branch!NoError
        /\ error' = [stage |-> IF b_error.role = "branch" THEN stage
                                                          ELSE Elsewhere,
                     category |-> "returned"]
        /\ pc' = "failed"
        /\ Blame
        /\ UNCHANGED stage
  /\ UNCHANGED <<mode, events, broke, shape, b_vars, f_vars>>

FanInStep ==
  /\ Invoking("fan_in")
  /\ Fan!Next
  /\ UNCHANGED <<vars, shape, b_vars>>

(* The sequential fan-in branch has no error to return.                    *)
EndFanIn ==
  /\ Invoking("fan_in") /\ Fan!Ended
  /\ \/ f_pc = "threw" /\ Raise
     \/ f_pc = "returned" /\ pc' = "succeeded" /\ UNCHANGED <<stage, error, culprit>>
  /\ UNCHANGED <<mode, events, broke, shape, b_vars, f_vars>>

FrameStep ==
  /\ StartStage \/ ReportSuccess \/ ReportFailure \/ HandleException
  /\ UNCHANGED <<shape, b_vars, f_vars>>

PipelineNext ==
  \/ FrameStep
  \/ InvokeSimple
  \/ BranchStep \/ EndBranch
  \/ FanInStep \/ EndFanIn
  \/ Ended /\ UNCHANGED allvars

PipelineSpec == PipelineInit /\ [][PipelineNext]_allvars

-----------------------------------------------------------------------------
(* Properties.                                                             *)

PipelineTypeOK ==
  /\ TypeOK
  /\ shape \in [Stages -> Kinds]
  /\ Branch!TypeOK
  /\ Fan!TypeOK

(* To the engine a branch is one stage: every chain with branches behaves  *)
(* as a chain of SequentialEngine (invoke_stage), so what the engine       *)
(* promises of stages it promises of branches.                             *)
BranchIsAStage == Spec

(* In it, the two kinds of branch keep the promises of FirstMatch          *)
(* (run_selected_branch and its form with storage) ...                     *)
BranchRunsFirstMatch == Branch!ImplementsFirstMatch

(* ... and of FanIn (run_fan_in_branch).                                   *)
FanInKeepsContract == Fan!ImplementsFanIn

(* What SequentialEngine says of stages and SelectedBranch of predicates   *)
(* and case stages, where their comments state it: caller and observer are *)
(* told one story ...                                                      *)
AnswersMatchLastEvents ==
  /\ AnswerMatchesLastEvent
  /\ Branch!AnswerMatchesLastEvent

(* ... an exception leaves only by way of a handler's or a case callback,  *)
(* and where there is a chain of handlers every one of them reports it ... *)
ExceptionsStopOrTellAll ==
  /\ TryRunContained
  /\ EscapesThroughEveryFrame
  /\ Branch!BranchContained
  /\ Branch!EscapesThroughEveryFrame

(* ... and there is one verdict on each.                                   *)
OneVerdictOnEach ==
  /\ OneVerdictUnlessRethrown
  /\ Branch!OneVerdictPerChild

(* The case events tell the route through a branch, and those of a fan-in  *)
(* branch come in the documented order, one case at a time.                *)
CaseEventsTellRoute ==
  /\ Branch!EventsTellRoute
  /\ Fan!LifecycleOrdering
  /\ Fan!OneCaseAtATime
=============================================================================
