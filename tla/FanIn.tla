------------------------------- MODULE FanIn -------------------------------
(***************************************************************************)
(* What a fan-in branch promises, whichever backend runs it: each case's   *)
(* slot of the aggregate is settled while the branch is running and never  *)
(* afterwards, on_fan_in_completed is emitted once, when every selected    *)
(* case has been accounted for, its three counts agree with the slots, and *)
(* the branch hands over the aggregate only if no case was lost.           *)
(***************************************************************************)
EXTENDS Naturals, FiniteSets

CONSTANT Cases

VARIABLES
  slot,      \* the aggregate: "skipped", "completed" or "failed" per case
  chosen,    \* the cases whose stage was selected to run
  rejected,  \* the cases whose predicate failed
  lost,      \* chosen cases that ended without settling their slot
  report,    \* the counts on_fan_in_completed was given, or NoReport
  phase      \* "running", or how the branch ended

vars == <<slot, chosen, rejected, lost, report, phase>>

SlotState == {"skipped", "completed", "failed"}
NoReport == [selected |-> 0, completed |-> 0, failed |-> 0, made |-> FALSE]

CasesIn(state) == {k \in Cases : slot[k] = state}

Init ==
  /\ slot = [k \in Cases |-> "skipped"]
  /\ chosen = {}
  /\ rejected = {}
  /\ lost = {}
  /\ report = NoReport
  /\ phase = "running"

Choose(k) ==
  /\ phase = "running" /\ k \notin rejected
  /\ chosen' = chosen \cup {k}
  /\ UNCHANGED <<slot, rejected, lost, report, phase>>

Reject(k) ==
  /\ phase = "running" /\ k \notin chosen
  /\ rejected' = rejected \cup {k}
  /\ slot' = [slot EXCEPT ![k] = "failed"]
  /\ UNCHANGED <<chosen, lost, report, phase>>

(* A chosen case completes or fails; a completed one may still turn into a *)
(* failed one, never the other way round.                                  *)
Settle(k, state) ==
  /\ phase = "running" /\ k \in chosen
  /\ slot[k] = "skipped" \/ state = "failed"
  /\ slot' = [slot EXCEPT ![k] = state]
  /\ UNCHANGED <<chosen, rejected, lost, report, phase>>

Lose(k) ==
  /\ phase = "running" /\ k \in chosen /\ slot[k] = "skipped"
  /\ lost' = lost \cup {k}
  /\ UNCHANGED <<slot, chosen, rejected, report, phase>>

(* The counts are those of the aggregate, and nothing chosen is open.      *)
Report ==
  /\ phase = "running"
  /\ \A k \in chosen : slot[k] # "skipped" \/ k \in lost
  /\ report' = [selected  |-> Cardinality(chosen),
                completed |-> Cardinality(CasesIn("completed")),
                failed    |-> Cardinality(CasesIn("failed") \cup lost),
                made      |-> TRUE]
  /\ \/ phase' = "error"
     \/ lost = {} /\ phase' = "aggregate"
     \/ phase' = "aborted"
  /\ UNCHANGED <<slot, chosen, rejected, lost>>

Abort ==
  /\ phase = "running"
  /\ phase' = "aborted"
  /\ UNCHANGED <<slot, chosen, rejected, lost, report>>

Next ==
  \/ \E k \in Cases : Choose(k) \/ Reject(k) \/ Lose(k)
  \/ \E k \in Cases : \E state \in {"completed", "failed"} : Settle(k, state)
  \/ Report
  \/ Abort

Spec == Init /\ [][Next]_vars
=============================================================================
