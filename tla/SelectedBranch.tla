--------------------------- MODULE SelectedBranch ---------------------------
(***************************************************************************)
(* One selected-output branch (include/pb/runtime/sequential.hpp): the     *)
(* first case whose predicate says yes runs.  The code has it twice.       *)
(* run_selected_branch asks the cases one after the other, each predicate  *)
(* and stage in a try of its own.  For an engine that stores its stages,   *)
(* run_selected_branch_cases_with_storage recurs: the case callbacks, the  *)
(* case's stage and all later cases are inside the try of the predicate.   *)
(***************************************************************************)
EXTENDS Naturals, Sequences

CONSTANTS
  NumCases,  \* the branch's cases, in declaration order
  Storage,   \* which of the two an instance looks at
  Throwing   \* the observer callbacks that may throw

Cases == 1 .. NumCases
Roles == {"predicate", "stage"}
Callbacks == {"start", "success", "failure", "exception",
              "selected", "skipped"}

VARIABLES
  stored,  \* does the engine store its stages?
  pc,      \* the place in the frame of case
  case,    \* the case whose frame is running
  error,   \* the child the returned error names, and why
  events,  \* history: the observer's callbacks
  broke,   \* history: which of them threw
  said,    \* history: what the predicates said
  given,   \* history: the case whose stage was given the input, or 0
  worked   \* history: did it produce a value?

vars == <<stored, pc, case, error, events, broke, said, given, worked>>

NoError == [case |-> 0, role |-> "branch", category |-> "none"]

Promise == INSTANCE FirstMatch WITH
  answer <- CASE pc = "threw" -> "exception"
             [] pc = "returned" -> IF error = NoError THEN "value"
                                   ELSE IF error.role = "branch" THEN "unmatched"
                                   ELSE "error"
             [] OTHER -> "none"

Init ==
  /\ stored \in Storage
  /\ pc = "ask"
  /\ case = 1
  /\ error = NoError
  /\ events = <<>>
  /\ broke = {}
  /\ said = [k \in Cases |-> "nothing"]
  /\ given = 0
  /\ worked = FALSE

Notify(kind, role) ==
  events' = Append(events, [kind |-> kind, role |-> role, case |-> case])

Named(role, category) == [case |-> case, role |-> role, category |-> category]

(* A callback throws, if the observer may do that in this one.             *)
Breaks(kind) == kind \in Throwing /\ broke' = broke \cup {kind}

(* A callback that returns, or throws to the handler at place.             *)
Call(kind, role, next, place) ==
  /\ Notify(kind, role)
  /\ \/ pc' = next /\ UNCHANGED broke
     \/ Breaks(kind) /\ pc' = place

(* Where an exception outside the tries around predicate and stage goes.   *)
Around == IF stored THEN "predicate caught" ELSE "threw"

StartPredicate ==
  /\ pc = "ask"
  /\ Call("start", "predicate", "evaluate", "predicate caught")
  /\ UNCHANGED <<stored, case, error, said, given, worked>>

(* The predicate answers, declines with an error, or throws.               *)
EvaluatePredicate ==
  /\ pc = "evaluate"
  /\ \/ /\ \E word \in {"no", "yes"} : said' = [said EXCEPT ![case] = word]
        /\ pc' = "answered" /\ UNCHANGED error
     \/ pc' = "declined" /\ error' = Named("predicate", "returned")
                         /\ UNCHANGED said
     \/ pc' = "predicate caught" /\ UNCHANGED <<error, said>>
  /\ UNCHANGED <<stored, case, events, broke, given, worked>>

(* Mutant: the answer is negated. *)
ReportPredicateNegated ==
  /\ pc = "answered"
  /\ Call("success", "predicate",
          IF said[case] = "yes" THEN "skip" ELSE "select", "predicate caught")
  /\ UNCHANGED <<stored, case, error, said, given, worked>>

(* on_stage_success and the test of the answer.                            *)
ReportPredicate ==
  /\ pc = "answered"
  /\ Call("success", "predicate",
          IF said[case] = "yes" THEN "select" ELSE "skip", "predicate caught")
  /\ UNCHANGED <<stored, case, error, said, given, worked>>

ReportPredicateFailure ==
  /\ pc = "declined"
  /\ Call("failure", "predicate", "returned", "predicate caught")
  /\ UNCHANGED <<stored, case, error, said, given, worked>>

SelectCase ==
  /\ pc = "select"
  /\ Call("selected", "predicate", "begin", Around)
  /\ UNCHANGED <<stored, case, error, said, given, worked>>

(* Mutant: the first no is the branch's. *)
SkipToUnmatched ==
  /\ pc = "skip"
  /\ Notify("skipped", "predicate")
  /\ pc' = "returned"
  /\ error' = Named("branch", "unmatched")
  /\ UNCHANGED <<stored, case, broke, said, given, worked>>

(* on_case_skipped, then the next case or unselected_branch_error.         *)
SkipCase ==
  /\ pc = "skip"
  /\ Notify("skipped", "predicate")
  /\ \/ /\ case < NumCases
        /\ case' = case + 1
        /\ pc' = "ask"
        /\ UNCHANGED <<error, broke>>
     \/ /\ case = NumCases
        /\ error' = Named("branch", "unmatched")
        /\ pc' = "returned"
        /\ UNCHANGED <<case, broke>>
     \/ Breaks("skipped") /\ pc' = Around /\ UNCHANGED <<case, error>>
  /\ UNCHANGED <<stored, said, given, worked>>

StartCase ==
  /\ pc = "begin"
  /\ Call("start", "stage", "run", "stage caught")
  /\ UNCHANGED <<stored, case, error, said, given, worked>>

(* The stage is given the input by a move.                                 *)
RunCase ==
  /\ pc = "run"
  /\ given' = case
  /\ \/ pc' = "ran" /\ worked' = TRUE /\ UNCHANGED error
     \/ pc' = "failed" /\ error' = Named("stage", "returned")
                       /\ UNCHANGED worked
     \/ pc' = "stage caught" /\ UNCHANGED <<error, worked>>
  /\ UNCHANGED <<stored, case, events, broke, said>>

(* on_stage_success or on_stage_failure of the stage.  The branch's result *)
(* is made of the value behind on_stage_success and inside the same try: a *)
(* move or conversion that throws there is a success that breaks here.     *)
ReportCase ==
  /\ pc \in {"ran", "failed"}
  /\ Call(IF pc = "ran" THEN "success" ELSE "failure", "stage",
          "returned", "stage caught")
  /\ UNCHANGED <<stored, case, error, said, given, worked>>

(* The handler of the stage's try.                                         *)
HandleCase ==
  /\ pc = "stage caught"
  /\ Call("exception", "stage", "returned", Around)
  /\ error' = Named("stage", "exception")
  /\ UNCHANGED <<stored, case, said, given, worked>>

(* The handler of the predicate's try.  What it throws goes, with storage, *)
(* to the handler of the case before.                                      *)
HandlePredicate ==
  /\ pc = "predicate caught"
  /\ Notify("exception", "predicate")
  /\ error' = Named("predicate", "exception")
  /\ \/ pc' = "returned" /\ UNCHANGED <<case, broke>>
     \/ /\ Breaks("exception")
        /\ IF stored /\ case > 1
           THEN case' = case - 1 /\ UNCHANGED pc
           ELSE pc' = "threw" /\ UNCHANGED case
  /\ UNCHANGED <<stored, said, given, worked>>

Ended == pc \in {"returned", "threw"}

Next ==
  \/ StartPredicate \/ EvaluatePredicate \/ ReportPredicate
  \/ ReportPredicateFailure \/ SelectCase \/ SkipCase \/ StartCase \/ RunCase
  \/ ReportCase \/ HandleCase \/ HandlePredicate

Spec == Init /\ [][Next]_vars

-----------------------------------------------------------------------------
(* Properties.                                                             *)

TypeOK ==
  /\ stored \in Storage
  /\ pc \in {"ask", "evaluate", "answered", "declined", "select", "skip",
             "begin", "run", "ran", "failed", "stage caught",
             "predicate caught", "returned", "threw"}
  /\ case \in Cases
  /\ error \in [case : Cases \cup {0}, role : Roles \cup {"branch"},
                category : {"none", "returned", "exception", "unmatched"}]
  /\ events \in Seq([kind : Callbacks, role : Roles, case : Cases])
  /\ broke \subseteq Callbacks
  /\ said \in [Cases -> {"nothing", "no", "yes"}]
  /\ given \in Cases \cup {0}
  /\ worked \in BOOLEAN

Reports(k, kind, role) ==
  \E i \in DOMAIN events : events[i] = [kind |-> kind, role |-> role, case |-> k]

(* Both ways of running the branch keep the promise of FirstMatch,         *)
(* whatever the observer throws: the first match runs, once, and no        *)
(* predicate sees an input that was moved into a stage.                    *)
ImplementsFirstMatch == Promise!Spec

(* The case callbacks tell the route that was taken: a case is selected    *)
(* after all earlier ones were skipped, a skipped case had its predicate's *)
(* no, only a selected case is given the input, and the branch says that   *)
(* nothing matched after every case was skipped.                           *)
EventsTellRoute ==
  LET Selected(k) == Reports(k, "selected", "predicate")
      Skipped(k)  == Reports(k, "skipped", "predicate")
  IN  /\ \A k \in Cases :
           /\ Skipped(k) => said[k] = "no"
           /\ Selected(k) => /\ said[k] = "yes"
                             /\ \A j \in 1 .. k - 1 : Skipped(j)
      /\ given # 0 => Selected(given)
      /\ pc = "returned" /\ error.role = "branch" /\ error # NoError
           => \A k \in Cases : Skipped(k)

(* The caller and the observer are told the same story: the last callback  *)
(* of a branch that returns is about the child its error names.            *)
AnswerMatchesLastEvent ==
  pc = "returned" =>
    LET last == events[Len(events)]
        About(kind, role, k) == last = [kind |-> kind, role |-> role, case |-> k]
    IN  \/ error = NoError /\ About("success", "stage", given)
        \/ error.category = "unmatched" /\ About("skipped", "predicate", NumCases)
        \/ error.category = "returned" /\ About("failure", error.role, error.case)
        \/ error.category = "exception" /\ About("exception", error.role, error.case)

(* With storage an exception only leaves the branch after every predicate  *)
(* that was asked has been reported as having thrown (the recursion inside *)
(* the try of run_selected_branch_cases_with_storage).                     *)
EscapesThroughEveryFrame ==
  pc = "threw" /\ stored =>
    \A k \in Cases :
      Reports(k, "start", "predicate") => Reports(k, "exception", "predicate")

(* The documented observer coverage (sequential-branch-execution-          *)
(* limitations.md): a predicate or a case stage gets one verdict, success, *)
(* failure or exception, if the observer throws at most when one starts    *)
(* and the value is moved or converted without throwing after a success.   *)
OneVerdictPerChild ==
  broke \subseteq {"start"} =>
  \A k \in Cases : \A role \in Roles :
    \A v, w \in {"success", "failure", "exception"} :
      Reports(k, v, role) /\ Reports(k, w, role) => v = w

(* What predicates and stages throw, and what an observer throws about     *)
(* them, is an error of the branch (evaluate_branch_predicate,             *)
(* run_branch_stage and their stored forms).  What leaves it is an         *)
(* exception of a handler's callback or of a case callback.                *)
BranchContained ==
  pc = "threw" => broke \cap {"exception", "selected", "skipped"} # {}
=============================================================================
