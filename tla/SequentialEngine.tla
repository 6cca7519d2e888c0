-------------------------- MODULE SequentialEngine --------------------------
(***************************************************************************)
(* One run of a chain of stages: the recursions of                         *)
(* include/pb/runtime/sequential.hpp, and of thread_pool_engine, which has *)
(* the shape of the first of them.                                         *)
(*                                                                         *)
(*   "convert"  try_run_after_result (try_run), run_after_result (run)     *)
(*              when the chain's error type can hold an exception's error, *)
(*              and run_stages of the thread-pool engine                   *)
(*   "rethrow"  run_after_result when the error type cannot hold it        *)
(*   "plain"    run_stages of the sequential engine: no stage returns a    *)
(*              result                                                     *)
(*                                                                         *)
(* In the first two the rest of the chain runs inside the try of the stage *)
(* before it, so an exception that leaves a handler goes to the handler of *)
(* the previous stage.  A branch is one stage here; SequentialPipeline     *)
(* opens it.                                                               *)
(***************************************************************************)
EXTENDS Naturals, Sequences

CONSTANTS
  NumStages,  \* the length of the chain
  Modes,      \* the recursions an instance looks at
  Throwing    \* the observer callbacks that may throw; "success" also stands
              \* for what is done with the value right behind that callback

Stages == 1 .. NumStages
Callbacks == {"start", "success", "failure", "exception"}

ASSUME EngineAssumption ==
  /\ NumStages \in Nat \ {0}
  /\ Modes \subseteq {"convert", "rethrow", "plain"}

(* What an error's stage field may hold besides a stage of the chain.      *)
Unnamed == 0
Elsewhere == NumStages + 1

VARIABLES
  mode,     \* the recursion in use
  pc,       \* the place in the frame of stage
  stage,    \* the stage whose frame is running
  error,    \* the error being passed on or returned
  events,   \* history: the observer's callbacks, in order
  broke,    \* history: which of them threw
  culprit   \* history: the stage at which things first went wrong, or 0

vars == <<mode, pc, stage, error, events, broke, culprit>>

NoError == [stage |-> Unnamed, category |-> "none"]

Init ==
  /\ mode \in Modes
  /\ pc = "start"
  /\ stage = 1
  /\ error = NoError
  /\ events = <<>>
  /\ broke = {}
  /\ culprit = 0

Notify(kind) == events' = Append(events, [kind |-> kind, stage |-> stage])

Blame == culprit' = IF culprit = 0 THEN stage ELSE culprit

(* A callback throws, if the observer may do that in this one.             *)
Breaks(kind) == kind \in Throwing /\ broke' = broke \cup {kind}

(* An exception inside the try of the current frame.                       *)
Raise == pc' = "caught" /\ Blame /\ UNCHANGED <<stage, error>>

(* Mutants of Unwind: past the first frame; the frame stays the same.      *)
UnwindTooFar ==
  /\ IF mode # "plain" THEN pc' = "caught" /\ stage' = stage - 1
                       ELSE pc' = "threw" /\ UNCHANGED stage
  /\ UNCHANGED <<error, culprit>>

UnwindInPlace ==
  /\ IF mode # "plain" /\ stage > 1 /\ Len(events) < 2 * NumStages
     THEN pc' = "caught" ELSE pc' = "threw"
  /\ UNCHANGED <<stage, error, culprit>>

(* An exception out of the current frame's handler.                        *)
Unwind ==
  /\ IF mode # "plain" /\ stage > 1
     THEN pc' = "caught" /\ stage' = stage - 1
     ELSE pc' = "threw" /\ UNCHANGED stage
  /\ UNCHANGED <<error, culprit>>

(* Mutant: the overload without an index, which means the first stage. *)
AnnotateFirst(e) ==
  IF e.stage = Unnamed THEN [e EXCEPT !.stage = 1] ELSE e

(* annotate_stage_error: an error that names no stage gets the current     *)
(* one.  An error type without a place for it is not changed; the stage    *)
(* here is then the one observer_error_for gives the observer's copy.      *)
Annotate(e) ==
  IF e.stage = Unnamed THEN [e EXCEPT !.stage = stage] ELSE e

StartStage ==
  /\ pc = "start"
  /\ Notify("start")
  /\ \/ pc' = "invoke" /\ UNCHANGED <<stage, error, broke, culprit>>
     \/ Breaks("start") /\ Raise
  /\ UNCHANGED mode

(* Mutant: what the stage throws is not caught. *)
InvokeUncaught ==
  /\ pc = "invoke"
  /\ \/ pc' = "succeeded" /\ UNCHANGED <<error, culprit>>
     \/ pc' = "threw" /\ Blame /\ UNCHANGED error
  /\ UNCHANGED <<mode, stage, events, broke>>

(* invoke_stage: a value, an error (of an expected-like stage), which may  *)
(* name a stage of its own, or an exception.                               *)
InvokeStage ==
  /\ pc = "invoke"
  /\ \/ pc' = "succeeded" /\ UNCHANGED <<stage, error, culprit>>
     \/ /\ mode # "plain"
        /\ \E named \in {Unnamed, Elsewhere} :
             error' = Annotate([stage |-> named, category |-> "returned"])
        /\ pc' = "failed"
        /\ Blame
        /\ UNCHANGED stage
     \/ Raise
  /\ UNCHANGED <<mode, events, broke>>

(* on_stage_success, then the rest of the chain or the value.  In the      *)
(* plain recursion this is after the try.  The last frame makes its        *)
(* result<FinalOutput> of the value behind the callback and, in the other  *)
(* recursions, inside the try: a move or conversion that throws there is   *)
(* caught like the callback throwing, and is a success that breaks here.   *)
ReportSuccess ==
  /\ pc = "succeeded"
  /\ Notify("success")
  /\ \/ /\ IF stage < NumStages THEN pc' = "start" /\ stage' = stage + 1
                                ELSE pc' = "returned" /\ UNCHANGED stage
        /\ UNCHANGED <<error, broke, culprit>>
     \/ /\ Breaks("success")
        /\ IF mode = "plain"
           THEN pc' = "threw" /\ Blame /\ UNCHANGED <<stage, error>>
           ELSE Raise
  /\ UNCHANGED mode

ReportFailure ==
  /\ pc = "failed"
  /\ Notify("failure")
  /\ \/ pc' = "returned" /\ UNCHANGED <<stage, error, broke, culprit>>
     \/ Breaks("failure") /\ Raise
  /\ UNCHANGED mode

(* Mutants: the handler always passes the exception on; it names the first *)
(* stage.                                                                  *)
HandleRethrows ==
  /\ pc = "caught"
  /\ Notify("exception")
  /\ Unwind
  /\ UNCHANGED <<mode, broke>>

HandleNamesFirst ==
  /\ pc = "caught"
  /\ Notify("exception")
  /\ IF mode = "convert"
     THEN /\ error' = [stage |-> 1, category |-> "exception"]
          /\ pc' = "returned"
          /\ UNCHANGED <<stage, culprit>>
     ELSE Unwind
  /\ UNCHANGED <<mode, broke>>

(* The catch clauses of a frame: on_stage_exception, then the error or the *)
(* exception itself.                                                       *)
HandleException ==
  /\ pc = "caught"
  /\ Notify("exception")
  /\ \/ /\ mode = "convert"
        /\ error' = [stage |-> stage, category |-> "exception"]
        /\ pc' = "returned"
        /\ UNCHANGED <<stage, broke, culprit>>
     \/ /\ Breaks("exception") \/ (mode # "convert" /\ UNCHANGED broke)
        /\ Unwind
  /\ UNCHANGED mode

Ended == pc \in {"returned", "threw"}
Terminated == Ended /\ UNCHANGED vars

Next ==
  \/ StartStage \/ InvokeStage \/ ReportSuccess \/ ReportFailure
  \/ HandleException \/ Terminated

Spec == Init /\ [][Next]_vars

-----------------------------------------------------------------------------
(* Properties.                                                             *)

TypeOK ==
  /\ mode \in Modes
  /\ pc \in {"start", "invoke", "succeeded", "failed", "caught",
             "returned", "threw"}
  /\ stage \in Stages
  /\ error \in [stage : Stages \cup {Unnamed, Elsewhere},
                category : {"none", "returned", "exception"}]
  /\ events \in Seq([kind : Callbacks, stage : Stages])
  /\ broke \subseteq Callbacks
  /\ culprit \in Stages \cup {0}

Reports(k, kind) ==
  \E i \in DOMAIN events : events[i] = [kind |-> kind, stage |-> k]

(* The callbacks of a run nest like its frames: stages are started one     *)
(* after the other, each once and after the success of the one before, and *)
(* once an exception is being reported only stages further out report      *)
(* theirs, each once (the nesting of the try blocks).                      *)
EventsNest ==
  \A i, j \in DOMAIN events :
    i < j =>
      \/ events[i].stage = events[j].stage
         /\ \/ events[i].kind = "start" /\ events[j].kind # "start"
            \/ events[i].kind # "exception" /\ events[j].kind = "exception"
      \/ /\ events[i].stage < events[j].stage
         /\ events[i].kind \in {"start", "success"}
         /\ Reports(events[i].stage, "success")
      \/ events[i].stage > events[j].stage /\ events[j].kind = "exception"

(* The caller and the observer are told the same story: the last callback  *)
(* of a run that returns is the success of the last stage and comes with a *)
(* value, or it is the failure or exception of the stage its error names   *)
(* (normalize_stage_error and exception_error against the notifications).  *)
AnswerMatchesLastEvent ==
  pc = "returned" =>
    LET last == events[Len(events)]
    IN  \/ /\ last = [kind |-> "success", stage |-> NumStages]
           /\ error = NoError
        \/ /\ last.kind = "failure" /\ error.category = "returned"
           /\ error.stage \in {last.stage, Elsewhere}
        \/ /\ last.kind = "exception" /\ error.category = "exception"
           /\ error.stage = last.stage

(* An exception only leaves the nested recursions after every stage that   *)
(* was started has been reported as having thrown (the handlers of         *)
(* try_run_after_result and run_after_result, one per frame).              *)
EscapesThroughEveryFrame ==
  pc = "threw" /\ mode # "plain" =>
    \A k \in Stages : Reports(k, "start") => Reports(k, "exception")

(* The documented error (error-model-tutorial.md): stage.key and           *)
(* stage.name say where the failure came from, unless the stage named      *)
(* another itself.  The exception is an observer that throws while an      *)
(* exception is reported: the stage before is named then.                  *)
ErrorNamesCulprit ==
  pc = "returned" /\ mode = "convert" /\ error # NoError =>
    "exception" \in broke \/ error.stage \in {culprit, Elsewhere}

(* The documented observer coverage (sequential-branch-execution-          *)
(* limitations.md): a failure or an exception is reported for a stage that *)
(* fails or throws, so never for one that has been reported successful.    *)
OneVerdict ==
  \A k \in Stages :
    Reports(k, "success") => ~Reports(k, "failure") /\ ~Reports(k, "exception")

(* It is so in the other recursions if the observer throws at most from    *)
(* on_stage_start, and moving or converting the last value does not throw  *)
(* after on_stage_success: a stage that was reported successful would be   *)
(* reported again (the handlers of try_run_after_result and run_stages).   *)
OneVerdictUnlessRethrown ==
  mode # "rethrow" /\ broke \subseteq {"start"} => OneVerdict

(* The documented use of try_run (error-model-tutorial.md): a value or an  *)
(* error, and no exception but one of on_stage_exception itself.           *)
TryRunContained == mode = "convert" /\ pc = "threw" => "exception" \in broke
=============================================================================
