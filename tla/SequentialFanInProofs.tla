----------------------- MODULE SequentialFanInProofs -----------------------
(* Theorems about SequentialFanIn, for any number of cases, and whether or *)
(* not the observer or a copy throws.                                      *)
EXTENDS SequentialFanIn, FiniteSetTheorems, TLAPS

(* What is known of the constants.                                         *)
Instance == NumCases \in Nat \ {0}

Told == {e[1] : e \in finished}
Settled == {"completed", "failed"}
BeforeStage == {"copy", "begin", "stage"}
BeforeTold == {"settled", "caught", "tell"}
Open == {"select"} \cup BeforeStage \cup BeforeTold

(* Nothing has been decided of case k.                                     *)
Fresh(k) ==
  slot[k] = "skipped" /\ k \notin chosen /\ k \notin rejected
    /\ k \notin scheduled /\ k \notin Told

(* What is known of the case at hand, and of those after it.               *)
Here ==
  /\ \A k \in Cases : k > next => Fresh(k)
  /\ pc \in {"start", "predicate"} => Fresh(next)
  /\ pc \in Open => next \in chosen /\ next \notin Told
  /\ pc = "select" => next \notin scheduled
  /\ pc \in BeforeStage \cup BeforeTold => next \in scheduled
  /\ pc \in {"select"} \cup BeforeStage => slot[next] = "skipped"
  /\ pc \in BeforeTold => slot[next] \in Settled
  /\ ~Ended => ~report.made

(* What slots, sets and events say of a case goes together.                *)
Verdicts ==
  /\ \A k \in chosen : k \notin rejected
  /\ \A k \in rejected : slot[k] = "failed"
  /\ \A k \in scheduled : k \in chosen
  /\ \A k \in Cases : slot[k] \in Settled => k \in chosen \/ k \in rejected
  /\ \A e \in finished : /\ e[1] \in scheduled /\ slot[e[1]] \in Settled
                         /\ e[2] <=> slot[e[1]] = "completed"

(* A chosen case is over, or it is the one at hand.                        *)
Accounted ==
  /\ \A k \in chosen : k \in Told \/ (k = next /\ pc \in Open \cup {"threw"})
  /\ report.made => \A k \in chosen : k \in Told

(* The counts are those of the cases that are over.                        *)
Completed == {k \in Told : slot[k] = "completed"}
Failed == rejected \cup {k \in Told : slot[k] = "failed"}
Tallied ==
  /\ tally.selected = Cardinality(chosen)
  /\ tally.completed = Cardinality(Completed)
  /\ tally.failed = Cardinality(Failed)

IInv == Instance /\ TypeOK /\ Here /\ Verdicts /\ Accounted /\ Tallied

-----------------------------------------------------------------------------
(* There are finitely many cases.                                          *)
LEMMA FiniteCases ==
  ASSUME Instance, NEW S \in SUBSET Cases
  PROVE  IsFiniteSet(S) /\ Cardinality(S) \in 0 .. NumCases
<1>1. IsFiniteSet(Cases) /\ Cardinality(Cases) = NumCases
  BY FS_Interval DEF Cases, Instance
<1>2. IsFiniteSet(S) /\ Cardinality(S) \in Nat /\ Cardinality(S) <= Cardinality(Cases)
  BY <1>1, FS_Subset, FS_CardinalityType
<1>. QED
  BY <1>1, <1>2 DEF Instance

(* Counting one more case.                                                 *)
LEMMA OneMore ==
  ASSUME Instance, NEW S \in SUBSET Cases, NEW k \in Cases, k \notin S
  PROVE  Cardinality(S \cup {k}) = Cardinality(S) + 1
BY FiniteCases, FS_AddElement

(* The case whose stage is over has its event.                             *)
LEMMA Telling ==
  ASSUME NEW success, finished' = finished \cup {<<next, success>>}
  PROVE  /\ \A k : k \in Told' <=> k \in Told \/ k = next
         /\ \A e \in finished' : e \in finished \/ (e[1] = next /\ e[2] = success)
<1>1. \A e : e \in finished' <=> e \in finished \/ e = <<next, success>>
  OBVIOUS
<1>2. ASSUME NEW k PROVE k \in Told' <=> k \in Told \/ k = next
  <2>1. k \in Told' <=> \E e \in finished' : k = e[1]
    BY DEF Told
  <2>2. k \in Told <=> \E e \in finished : k = e[1]
    BY DEF Told
  <2>3. ASSUME NEW e \in finished', k = e[1]
        PROVE  (\E d \in finished : k = d[1]) \/ k = next
    BY <1>1, <2>3
  <2>4. ASSUME k = next PROVE \E e \in finished' : k = e[1]
    <3>1. <<next, success>> \in finished' /\ <<next, success>>[1] = next
      OBVIOUS
    <3>. QED
      BY <2>4, <3>1, Zenon
  <2>5. ASSUME NEW e \in finished, k = e[1] PROVE \E d \in finished' : k = d[1]
    BY <1>1, <2>5
  <2>. QED
    BY <2>1, <2>2, <2>3, <2>4, <2>5, Zenon
<1>. QED
  BY <1>1, <1>2

(* A step leaves what is known of case k alone.                            *)
Same(k) ==
  /\ slot'[k] = slot[k]
  /\ k \in chosen' <=> k \in chosen
  /\ k \in rejected' <=> k \in rejected
  /\ k \in scheduled' <=> k \in scheduled
  /\ k \in Told' <=> k \in Told

(* A step that decides nothing.                                            *)
Quiet ==
  /\ UNCHANGED <<slot, tally, chosen, rejected, scheduled, finished>>
  /\ pc # "report" => UNCHANGED report

(* A step is quiet, or decides something of the case at hand only.         *)
LEMMA Steps ==
  ASSUME IInv, [Next]_vars
  PROVE  /\ \/ Quiet
            \/ EvaluatePredicate \/ Schedule \/ TellCompleted
            \/ (StartStage \/ RunStage \/ ReportStage)
         /\ \A k \in Cases : k # next => Same(k)
<1>. USE DEF Same, Quiet, counts, told, fate
<1>0. slot \in [Cases -> {"skipped", "completed", "failed"}] /\ next \in Cases
  BY DEF IInv, TypeOK, Contract!SlotState
<1>1. CASE Begin \/ ReportUnscheduled \/ CopyInput \/ ReportException \/ ReportAndReturn
             \/ UNCHANGED vars
  <2>1. Quiet
    BY <1>1 DEF Begin, ReportUnscheduled, CopyInput, ReportException, ReportAndReturn, vars
  <2>. QED
    BY <2>1 DEF Told
<1>2. CASE EvaluatePredicate
  BY <1>0, <1>2 DEF EvaluatePredicate, Told
<1>3. CASE Schedule
  BY <1>0, <1>3 DEF Schedule, Told
<1>4. CASE StartStage \/ RunStage \/ ReportStage
  BY <1>0, <1>4 DEF StartStage, RunStage, ReportStage, Mark, Told
<1>5. CASE TellCompleted
  <2>1. UNCHANGED <<slot, scheduled, chosen, rejected>>
        /\ \E success : finished' = finished \cup {<<next, success>>}
    BY <1>5 DEF TellCompleted
  <2>. QED
    BY <1>5, <2>1, Telling
<1>. QED
  BY <1>1, <1>2, <1>3, <1>4, <1>5 DEF Next

(* Where a step leads, and what it does to the case at hand.               *)
LEMMA Places ==
  ASSUME IInv, [Next]_vars
  PROVE  \/ UNCHANGED <<pc, next, report>> /\ \A k : Same(k)
         \/ next' = next + 1 /\ next < NumCases /\ pc' = "predicate" /\ pc \in {"skip", "reject", "tell"}
            /\ report' = report
         \/ next' = next /\ pc' # pc /\ ~Ended
<1>1. CASE UNCHANGED vars
  BY <1>1 DEF vars, Same, Told, counts, told, fate
<1>2. CASE ReportUnscheduled \/ TellCompleted
  BY <1>2 DEF ReportUnscheduled, TellCompleted, Advance, Ended, counts
<1>3. CASE ~(ReportUnscheduled \/ TellCompleted) /\ Next
  BY <1>3 DEF Next, Begin, Call, EvaluatePredicate, Schedule, CopyInput, StartStage, RunStage,
     ReportStage, ReportException, ReportAndReturn, Ended
<1>. QED
  BY <1>1, <1>2, <1>3

-----------------------------------------------------------------------------
(* What is known of case k when the branch is at some place with it.       *)
At(k) ==
  /\ pc \in {"start", "predicate"} => Fresh(k)
  /\ pc \in Open => k \in chosen /\ k \notin Told
  /\ pc = "select" => k \notin scheduled
  /\ pc \in BeforeStage \cup BeforeTold => k \in scheduled
  /\ pc \in {"select"} \cup BeforeStage => slot[k] = "skipped"
  /\ pc \in BeforeTold => slot[k] \in Settled

(* Here, with the case at hand as a bound variable, which a prime leaves alone. *)
LEMMA HereIs ==
  /\ Here <=> /\ \A k \in Cases : k > next => Fresh(k)
              /\ \A k : k = next => At(k)
              /\ ~Ended => ~report.made
  /\ (/\ \A k \in Cases : k > next' => Fresh(k)'
      /\ \A k : k = next' => At(k)'
      /\ ~Ended' => ~report'.made) => Here'
BY DEF Here, At, Fresh, Told

(* The cases are decided one after the other.                              *)
LEMMA HereStep ==
  ASSUME IInv, [Next]_vars
  PROVE  Here'
<1>. USE DEF Open, BeforeStage, BeforeTold, Settled
<1>0. /\ next \in 1 .. NumCases /\ NumCases \in Nat /\ next \in Cases
      /\ slot \in [Cases -> {"skipped", "completed", "failed"}]
  BY DEF IInv, Instance, TypeOK, Cases, Contract!SlotState
<1>a. /\ \A k \in Cases : k > next => Fresh(k)
      /\ At(next)
      /\ ~Ended => ~report.made
  BY HereIs DEF IInv
<1>b. ASSUME next' = next \/ next' = next + 1
      PROVE  \A k \in Cases : k > next' => Fresh(k)'
  <2>1. \A k \in Cases : Same(k) /\ Fresh(k) => Fresh(k)'
    BY DEF Same, Fresh
  <2>2. \A k \in Cases : \A n : (n = next \/ n = next + 1) /\ k > n => k > next /\ k # next
    BY <1>0 DEF Cases
  <2>. QED
    BY <1>a, <1>b, <2>1, <2>2, Steps
<1>c. ASSUME next' = next, ~Ended, report' = report \/ Ended', At(next)'
      PROVE  Here'
  <2>1. \A k : k = next' => At(k)'
    BY <1>c DEF At, Fresh, Told
  <2>. QED
    BY <1>a, <1>b, <1>c, <2>1, HereIs DEF Ended
<1>d. ASSUME next' = next + 1, next < NumCases, pc' = "predicate", report' = report, ~Ended
      PROVE  Here'
  <2>1. \A n : n = next + 1 => n \in Cases /\ n > next /\ n # next
    BY <1>0, <1>d DEF Cases
  <2>2. \A n : n = next + 1 => Same(n) /\ Fresh(n)
    BY <1>a, <2>1, Steps
  <2>3. \A k : k = next' => At(k)'
    BY <1>d, <2>2 DEF At, Same, Fresh
  <2>. QED
    BY <1>a, <1>b, <1>d, <2>3, HereIs DEF Ended
<1>1. CASE Begin
  BY <1>1, <1>a, <1>c DEF Begin, Call, At, Fresh, Told, Ended, counts, told, fate
<1>2. CASE EvaluatePredicate
  BY <1>0, <1>2, <1>a, <1>c DEF EvaluatePredicate, Call, At, Fresh, Told, Ended, told
<1>3. CASE ReportUnscheduled
  <2>1. CASE next' = next
    BY <1>0, <1>3, <1>c, <2>1 DEF ReportUnscheduled, Advance, At, Ended, counts
  <2>2. CASE next' # next
    BY <1>3, <1>d, <2>2 DEF ReportUnscheduled, Advance, Ended, counts
  <2>. QED
    BY <2>1, <2>2
<1>4. CASE Schedule
  BY <1>0, <1>4, <1>a, <1>c DEF Schedule, At, Told, Ended, counts, fate
<1>5. CASE CopyInput
  BY <1>5, <1>a, <1>c DEF CopyInput, At, Told, Ended, counts, told, fate
<1>6. CASE StartStage \/ RunStage \/ ReportStage
  BY <1>0, <1>6, <1>a, <1>c DEF StartStage, RunStage, ReportStage, Mark, At, Told, Ended,
     counts, told, fate
<1>7. CASE ReportException
  BY <1>7, <1>a, <1>c DEF ReportException, Call, At, Told, Ended, counts, told, fate
<1>8. CASE TellCompleted
  <2>1. CASE next' = next
    BY <1>0, <1>8, <1>c, <2>1 DEF TellCompleted, Advance, At, Ended
  <2>2. CASE next' # next
    BY <1>8, <1>d, <2>2 DEF TellCompleted, Advance, Ended
  <2>. QED
    BY <2>1, <2>2
<1>9. CASE ReportAndReturn
  BY <1>9, <1>c DEF ReportAndReturn, Call, At, Ended
<1>10. CASE UNCHANGED vars
  BY <1>10 DEF vars, IInv, Here, Fresh, Told, Ended, counts, told, fate
<1>. QED
  BY <1>1, <1>2, <1>3, <1>4, <1>5, <1>6, <1>7, <1>8, <1>9, <1>10 DEF Next

(* Slots, sets and events change together.                                 *)
LEMMA VerdictsStep ==
  ASSUME IInv, [Next]_vars
  PROVE  Verdicts'
<1>. USE DEF Open, BeforeStage, BeforeTold, Settled, IInv, Verdicts
<1>0. /\ next \in Cases /\ chosen \subseteq Cases /\ rejected \subseteq Cases
      /\ scheduled \subseteq Cases /\ finished \subseteq Cases \X BOOLEAN
      /\ slot \in [Cases -> {"skipped", "completed", "failed"}]
  BY DEF TypeOK, Contract!SlotState
<1>a. At(next)
  BY HereIs
<1>b. \A e \in finished : e[1] \in Cases /\ e[1] \in Told
  BY <1>0 DEF Told
<1>1. CASE Quiet
  BY <1>1 DEF Quiet
<1>2. CASE EvaluatePredicate
  <2>1. next \notin chosen /\ next \notin rejected /\ next \notin scheduled /\ next \notin Told
    BY <1>2, <1>a DEF EvaluatePredicate, At, Fresh
  <2>2. /\ UNCHANGED <<scheduled, finished>>
        /\ \/ UNCHANGED <<slot, rejected>> /\ chosen' \in {chosen, chosen \cup {next}}
           \/ /\ UNCHANGED chosen /\ rejected' = rejected \cup {next}
              /\ slot' = [slot EXCEPT ![next] = "failed"]
    BY <1>2 DEF EvaluatePredicate, told
  <2>3. \A e \in finished : e[1] # next
    BY <1>b, <2>1
  <2>. QED
    BY <1>0, <1>b, <2>1, <2>2, <2>3
<1>3. CASE Schedule
  <2>1. /\ UNCHANGED <<slot, chosen, rejected, finished>>
        /\ scheduled' \in {scheduled, scheduled \cup {next}} /\ next \in chosen
    BY <1>3, <1>a DEF Schedule, fate, At
  <2>. QED
    BY <2>1
<1>4. CASE StartStage \/ RunStage \/ ReportStage
  <2>1. /\ UNCHANGED <<chosen, rejected, scheduled, finished>>
        /\ slot' = slot \/ \E state \in Settled : slot' = [slot EXCEPT ![next] = state]
    BY <1>4 DEF StartStage, RunStage, ReportStage, Mark, told, fate
  <2>2. next \in chosen /\ next \notin Told
    BY <1>4, <1>a DEF StartStage, RunStage, ReportStage, At
  <2>3. \A e \in finished : e[1] # next
    BY <1>b, <2>2
  <2>. QED
    BY <1>0, <1>b, <2>1, <2>2, <2>3
<1>5. CASE TellCompleted
  <2>. DEFINE success == slot[next] # "failed"
  <2>1. /\ UNCHANGED <<slot, chosen, rejected, scheduled>>
        /\ finished' = finished \cup {<<next, success>>}
    BY <1>5 DEF TellCompleted, fate
  <2>2. next \in scheduled /\ slot[next] \in Settled
    BY <1>5, <1>a DEF TellCompleted, At
  <2>3. success <=> slot[next] = "completed"
    BY <2>2
  <2>. HIDE DEF success
  <2>4. \A e \in finished' : e \in finished \/ (e[1] = next /\ e[2] = success)
    BY <2>1, Telling
  <2>. QED
    BY <2>1, <2>2, <2>3, <2>4
<1>. QED
  BY <1>1, <1>2, <1>3, <1>4, <1>5, Steps

(* No chosen case is left behind.                                          *)
LEMMA AccountedStep ==
  ASSUME IInv, [Next]_vars
  PROVE  Accounted'
<1>. USE DEF Open, BeforeStage, BeforeTold, Settled
<1>0. /\ \A k \in chosen : k \in Told \/ (k = next /\ pc \in Open \cup {"threw"})
      /\ report.made => \A k \in chosen : k \in Told
      /\ ~Ended => ~report.made
  BY HereIs DEF IInv, Accounted
<1>1. chosen' \subseteq Cases
  BY DEF IInv, TypeOK, Next, Begin, EvaluatePredicate, ReportUnscheduled, Schedule,
     CopyInput, StartStage, RunStage, ReportStage, ReportException, TellCompleted,
     ReportAndReturn, vars, fate
<1>2. ASSUME NEW k \in chosen', k # next
      PROVE  k \in Told'
  BY <1>0, <1>1, <1>2, Steps DEF Same
<1>3. ASSUME next \in chosen'
      PROVE  \A k : k = next => k \in Told' \/ (k = next' /\ pc' \in Open \cup {"threw"})
  <2>1. CASE EvaluatePredicate
    <3>1. next' = next /\ UNCHANGED finished /\ (pc' = "select" \/ UNCHANGED chosen)
          /\ pc = "predicate"
      BY <2>1 DEF EvaluatePredicate, told
    <3>2. next \notin chosen
      BY <3>1, HereIs DEF IInv, At, Fresh
    <3>. QED
      BY <1>3, <3>1, <3>2
  <2>2. CASE TellCompleted
    <3>1. \E success : finished' = finished \cup {<<next, success>>}
      BY <2>2 DEF TellCompleted
    <3>. QED
      BY <3>1, Telling
  <2>3. CASE ~EvaluatePredicate /\ ~TellCompleted
    <3>1. UNCHANGED <<chosen, finished>>
          /\ (pc \in Open \cup {"threw"} => next' = next /\ pc' \in Open \cup {"threw"})
      BY <2>3 DEF Next, Begin, Call, ReportUnscheduled, Schedule, CopyInput, StartStage,
         RunStage, ReportStage, ReportException, ReportAndReturn, vars, fate, told
    <3>2. UNCHANGED Told
      BY <3>1 DEF Told
    <3>. QED
      BY <1>0, <1>3, <3>1, <3>2
  <2>. QED
    BY <2>1, <2>2, <2>3
<1>4. report'.made => \A k \in chosen' : k \in Told'
  <2>1. CASE ReportAndReturn
    <3>1. pc = "report" /\ UNCHANGED <<chosen, finished>>
      BY <2>1 DEF ReportAndReturn, told, fate
    <3>. QED
      BY <1>0, <3>1 DEF Told
  <2>2. CASE UNCHANGED vars
    BY <1>0, <2>2 DEF vars, counts, told, fate, Told
  <2>3. CASE ~ReportAndReturn /\ Next
    <3>1. report' = report /\ ~Ended
      BY <2>3 DEF Next, Begin, EvaluatePredicate, ReportUnscheduled, Schedule,
         CopyInput, StartStage, RunStage, ReportStage, ReportException, TellCompleted,
         counts, Ended
    <3>. QED
      BY <1>0, <3>1
  <2>. QED
    BY <2>1, <2>2, <2>3
<1>. QED
  BY <1>2, <1>3, <1>4 DEF Accounted, Told

(* The counts go with the sets.                                            *)
LEMMA TalliedStep ==
  ASSUME IInv, [Next]_vars
  PROVE  Tallied'
<1>. USE DEF Open, BeforeStage, BeforeTold, Settled
<1>0. /\ next \in Cases /\ chosen \subseteq Cases /\ rejected \subseteq Cases
      /\ Instance /\ Told \subseteq Cases
      /\ slot \in [Cases -> {"skipped", "completed", "failed"}]
      /\ tally \in [selected : 0 .. NumCases, completed : 0 .. NumCases, failed : 0 .. NumCases]
  BY DEF IInv, TypeOK, Contract!SlotState, Told
<1>a. At(next) /\ (next \in chosen => next \notin rejected)
  BY HereIs DEF IInv, Verdicts
<1>b. /\ Completed \subseteq Cases /\ Failed \subseteq Cases /\ Tallied
  BY <1>0 DEF IInv, Completed, Failed
<1>c. ASSUME UNCHANGED Told, next \notin Told, \A k \in Cases : k # next => slot'[k] = slot[k]
      PROVE  /\ UNCHANGED Completed
             /\ \A k : k \in Failed' <=> k \in rejected' \/ (k \in Told /\ slot[k] = "failed")
  BY <1>0, <1>c DEF Completed, Failed
<1>1. CASE Quiet \/ Schedule
  <2>1. UNCHANGED <<slot, tally, chosen, rejected, finished>>
    BY <1>1 DEF Quiet, Schedule, fate, counts
  <2>. QED
    BY <1>b, <2>1 DEF Tallied, Completed, Failed, Told
<1>2. CASE EvaluatePredicate
  <2>1. next \notin chosen /\ next \notin rejected /\ next \notin Told /\ UNCHANGED finished
    BY <1>2, <1>a DEF EvaluatePredicate, At, Fresh, told
  <2>2. UNCHANGED Told /\ \A k \in Cases : k # next => slot'[k] = slot[k]
    BY <1>0, <1>2, <2>1 DEF Told, EvaluatePredicate
  <2>3. CASE UNCHANGED <<slot, tally, chosen, rejected>>
    BY <1>b, <2>1, <2>3 DEF Tallied, Completed, Failed, Told
  <2>4. CASE /\ slot' = [slot EXCEPT ![next] = "failed"] /\ UNCHANGED chosen
             /\ tally' = [tally EXCEPT !.failed = @ + 1] /\ rejected' = rejected \cup {next}
    <3>1. next \notin Failed /\ Failed' = Failed \cup {next}
      BY <1>c, <2>1, <2>2, <2>4 DEF Failed
    <3>2. Cardinality(Failed') = Cardinality(Failed) + 1
      BY <1>0, <1>b, <3>1, OneMore
    <3>. QED
      BY <1>0, <1>b, <1>c, <2>1, <2>2, <2>4, <3>2 DEF Tallied
  <2>5. CASE /\ UNCHANGED <<slot, rejected>> /\ tally' = [tally EXCEPT !.selected = @ + 1]
             /\ chosen' = chosen \cup {next}
    <3>1. Cardinality(chosen') = Cardinality(chosen) + 1
      BY <1>0, <2>1, <2>5, OneMore
    <3>2. UNCHANGED <<Completed, Failed>>
      BY <2>2, <2>5 DEF Completed, Failed
    <3>. QED
      BY <1>0, <1>b, <2>5, <3>1, <3>2 DEF Tallied
  <2>. QED
    BY <1>2, <2>3, <2>4, <2>5 DEF EvaluatePredicate
<1>3. CASE StartStage \/ RunStage \/ ReportStage
  <2>1. /\ UNCHANGED <<tally, chosen, rejected, finished>>
        /\ next \notin Told
    BY <1>3, <1>a DEF StartStage, RunStage, ReportStage, counts, told, fate, At
  <2>2. UNCHANGED Told /\ \A k \in Cases : k # next => slot'[k] = slot[k]
    BY <1>0, <1>3, <2>1 DEF Told, StartStage, RunStage, ReportStage, Mark
  <2>3. UNCHANGED <<Completed, Failed>>
    BY <1>c, <2>1, <2>2 DEF Failed
  <2>. QED
    BY <1>b, <2>1, <2>3 DEF Tallied
<1>4. CASE TellCompleted
  <2>. DEFINE success == slot[next] # "failed"
  <2>1. /\ UNCHANGED <<slot, chosen, rejected>>
        /\ finished' = finished \cup {<<next, success>>}
        /\ tally' = IF success THEN [tally EXCEPT !.completed = @ + 1]
                    ELSE [tally EXCEPT !.failed = @ + 1]
    BY <1>4 DEF TellCompleted, fate
  <2>2. next \notin Told /\ next \notin rejected /\ slot[next] \in Settled
    BY <1>4, <1>a DEF TellCompleted, At
  <2>3. \A k : k \in Told' <=> k \in Told \/ k = next
    BY <2>1, Telling
  <2>4. CASE slot[next] = "completed"
    <3>1. next \notin Completed /\ Completed' = Completed \cup {next} /\ UNCHANGED Failed
      BY <2>1, <2>2, <2>3, <2>4 DEF Completed, Failed
    <3>2. Cardinality(Completed') = Cardinality(Completed) + 1
      BY <1>0, <1>b, <3>1, OneMore
    <3>. QED
      BY <1>0, <1>b, <2>1, <2>4, <3>1, <3>2 DEF Tallied
  <2>5. CASE slot[next] = "failed"
    <3>1. next \notin Failed /\ Failed' = Failed \cup {next} /\ UNCHANGED Completed
      BY <2>1, <2>2, <2>3, <2>5 DEF Completed, Failed
    <3>2. Cardinality(Failed') = Cardinality(Failed) + 1
      BY <1>0, <1>b, <3>1, OneMore
    <3>. QED
      BY <1>0, <1>b, <2>1, <2>5, <3>1, <3>2 DEF Tallied
  <2>. QED
    BY <2>2, <2>4, <2>5
<1>. QED
  BY <1>1, <1>2, <1>3, <1>4, Steps

(* No step leaves the types, and no count exceeds the number of cases.     *)
LEMMA TypesStep ==
  ASSUME IInv, [Next]_vars
  PROVE  TypeOK'
<1>0. /\ next \in Cases /\ next \in 1 .. NumCases /\ NumCases \in Nat \ {0}
      /\ slot \in [Cases -> {"skipped", "completed", "failed"}]
      /\ tally \in [selected : 0 .. NumCases, completed : 0 .. NumCases, failed : 0 .. NumCases]
      /\ report \in [selected : Nat, completed : Nat, failed : Nat, made : BOOLEAN]
      /\ chosen \subseteq Cases /\ rejected \subseteq Cases /\ scheduled \subseteq Cases
      /\ finished \subseteq Cases \X BOOLEAN
  BY DEF IInv, Instance, TypeOK, Cases, Contract!SlotState
<1>. USE DEF counts, told, fate
<1>1. pc' \in {"start", "predicate", "skip", "reject", "select", "copy", "begin",
               "stage", "settled", "caught", "tell", "report", "returned", "threw"}
  BY DEF IInv, TypeOK, Next, Begin, Call, EvaluatePredicate, ReportUnscheduled, Schedule,
     CopyInput, StartStage, RunStage, ReportStage, ReportException, TellCompleted,
     ReportAndReturn, Advance, vars
<1>2. next' \in Cases
  <2>1. next' = next \/ (next < NumCases /\ next' = next + 1)
    BY DEF Next, Begin, EvaluatePredicate, ReportUnscheduled, Schedule,
       CopyInput, StartStage, RunStage, ReportStage, ReportException, TellCompleted,
       ReportAndReturn, Advance, vars
  <2>. QED
    BY <1>0, <2>1 DEF Cases
<1>3. slot' \in [Cases -> Contract!SlotState]
  BY <1>0 DEF Next, Begin, EvaluatePredicate, ReportUnscheduled, Schedule,
     CopyInput, StartStage, RunStage, ReportStage, ReportException, TellCompleted,
     ReportAndReturn, Mark, vars, Contract!SlotState
<1>4. chosen' \subseteq Cases /\ rejected' \subseteq Cases /\ scheduled' \subseteq Cases
  BY <1>0 DEF Next, Begin, EvaluatePredicate, ReportUnscheduled, Schedule,
     CopyInput, StartStage, RunStage, ReportStage, ReportException, TellCompleted,
     ReportAndReturn, vars
<1>5. finished' \subseteq Cases \X BOOLEAN
  <2>1. CASE TellCompleted
    <3>1. \E success \in BOOLEAN : finished' = finished \cup {<<next, success>>}
      BY <2>1 DEF TellCompleted
    <3>. QED
      BY <1>0, <3>1
  <2>2. CASE ~TellCompleted
    BY <1>0, <2>2 DEF Next, Begin, EvaluatePredicate, ReportUnscheduled, Schedule,
       CopyInput, StartStage, RunStage, ReportStage, ReportException, ReportAndReturn, vars
  <2>. QED
    BY <2>1, <2>2
<1>6. tally' \in [selected : 0 .. NumCases, completed : 0 .. NumCases, failed : 0 .. NumCases]
  <2>1. \/ tally' = tally
        \/ tally' = [tally EXCEPT !.selected = @ + 1]
        \/ tally' = [tally EXCEPT !.completed = @ + 1]
        \/ tally' = [tally EXCEPT !.failed = @ + 1]
    BY DEF Next, Begin, EvaluatePredicate, ReportUnscheduled, Schedule,
       CopyInput, StartStage, RunStage, ReportStage, ReportException, TellCompleted,
       ReportAndReturn, vars
  <2>2. Completed' \subseteq Cases /\ Failed' \subseteq Cases
    BY <1>4, <1>5 DEF Completed, Failed, Told
  <2>3. /\ tally'.selected \in 0 .. NumCases /\ tally'.completed \in 0 .. NumCases
        /\ tally'.failed \in 0 .. NumCases
    BY <1>4, <2>2, TalliedStep, FiniteCases DEF IInv, Tallied
  <2>. QED
    BY <1>0, <2>1, <2>3
<1>7. report' \in [selected : Nat, completed : Nat, failed : Nat, made : BOOLEAN]
  <2>1. CASE ReportAndReturn
    BY <1>0, <2>1 DEF ReportAndReturn
  <2>2. CASE ~ReportAndReturn
    BY <1>0, <2>2 DEF Next, Begin, EvaluatePredicate, ReportUnscheduled, Schedule,
       CopyInput, StartStage, RunStage, ReportStage, ReportException, TellCompleted, vars
  <2>. QED
    BY <2>1, <2>2
<1>. QED
  BY <1>1, <1>2, <1>3, <1>4, <1>5, <1>6, <1>7 DEF TypeOK

-----------------------------------------------------------------------------
(* Nothing is decided when the branch starts.                              *)
LEMMA Initial ==
  ASSUME Instance, Init
  PROVE  IInv
<1>1. 1 \in Cases /\ NumCases \in Nat \ {0}
  BY DEF Instance, Cases
<1>2. TypeOK
  BY <1>1 DEF Init, TypeOK, Contract!SlotState, Contract!NoReport
<1>3. Told = {} /\ Completed = {} /\ Failed = {}
  BY DEF Init, Told, Completed, Failed
<1>4. Here /\ Verdicts /\ Accounted
  BY <1>1, <1>3 DEF Init, Here, Fresh, Verdicts, Accounted, Open, BeforeStage, BeforeTold,
     Contract!NoReport, Settled
<1>5. Tallied
  BY <1>3, FS_EmptySet DEF Init, Tallied
<1>. QED
  BY <1>2, <1>4, <1>5 DEF IInv

(* The invariant is inductive.                                             *)
LEMMA Inductive ==
  ASSUME IInv, [Next]_vars
  PROVE  IInv'
<1>1. Instance'
  BY DEF IInv, Instance
<1>. QED
  BY <1>1, TypesStep, HereStep, VerdictsStep, AccountedStep, TalliedStep DEF IInv

(* What the invariant says of the events.                                  *)
LEMMA EventsFit ==
  ASSUME IInv
  PROVE  LifecycleOrdering /\ OneCaseAtATime
<1>0. /\ next \in 1 .. NumCases /\ scheduled \subseteq Cases /\ chosen \subseteq Cases
      /\ finished \subseteq Cases \X BOOLEAN /\ NumCases \in Nat
  BY DEF IInv, TypeOK, Cases, Instance
<1>1. LifecycleOrdering
  <2>. SUFFICES ASSUME report.made
                PROVE  /\ scheduled = chosen /\ Told = scheduled
                       /\ \A e \in finished : e[2] <=> slot[e[1]] = "completed"
    BY DEF LifecycleOrdering, Told
  <2>1. \A k \in Told : k \in scheduled
    BY DEF IInv, Verdicts, Told
  <2>. QED
    BY <2>1 DEF IInv, Verdicts, Accounted
<1>2. OneCaseAtATime
  <2>. SUFFICES ASSUME NEW k \in scheduled, NEW j \in chosen, j < k
                PROVE  \E success \in BOOLEAN : <<j, success>> \in finished
    BY DEF OneCaseAtATime
  <2>1. ~(k > next)
    BY <1>0 DEF IInv, Here, Fresh
  <2>2. j # next
    BY <1>0, <2>1 DEF Cases
  <2>3. j \in Told
    BY <2>2 DEF IInv, Accounted
  <2>4. PICK e \in finished : e[1] = j
    BY <2>3 DEF Told
  <2>5. e = <<j, e[2]>> /\ e[2] \in BOOLEAN
    BY <1>0, <2>4
  <2>. QED
    BY <2>4, <2>5
<1>. QED
  BY <1>1, <1>2

-----------------------------------------------------------------------------
(* FanIn counts as SequentialFanIn does.                                   *)
LEMMA SameCardinality == \A S : Contract!Cardinality(S) = Cardinality(S)
BY DEF Contract!Cardinality, Cardinality

(* The counts that are reported are those of the aggregate.                *)
LEMMA CountsAreSlots ==
  ASSUME IInv, pc = "report"
  PROVE  /\ Contract!CasesIn("completed") = Completed
         /\ Contract!CasesIn("failed") \cup {} = Failed
         /\ \A k \in chosen : slot[k] # "skipped"
<1>0. /\ Told \subseteq Cases /\ rejected \subseteq Cases /\ chosen \subseteq Cases
  BY DEF IInv, TypeOK, Told
<1>1. \A k \in chosen : k \in Told
  BY DEF IInv, Accounted, Open, BeforeStage, BeforeTold
<1>2. \A k \in Told : slot[k] \in Settled
  BY DEF IInv, Verdicts, Told
<1>3. /\ \A k \in Cases : slot[k] \in Settled => k \in chosen \/ k \in rejected
      /\ \A k \in rejected : slot[k] = "failed"
  BY DEF IInv, Verdicts
<1>. QED
  BY <1>0, <1>1, <1>2, <1>3 DEF Contract!CasesIn, Completed, Failed, Settled

(* Every step of the branch is one of FanIn or changes nothing there.      *)
LEMMA StepsImplement ==
  ASSUME IInv, [Next]_vars
  PROVE  [Contract!Next]_(Contract!vars)
<1>. USE DEF Contract!Next, Contract!vars, IInv
<1>0. /\ next \in Cases /\ slot \in [Cases -> {"skipped", "completed", "failed"}]
      /\ At(next)
  BY HereIs DEF TypeOK, Contract!SlotState
<1>a. ASSUME UNCHANGED <<slot, chosen, rejected, report>>, ~Ended, pc' # "returned"
      PROVE  [Contract!Next]_(Contract!vars)
  <2>1. CASE pc' = "threw"
    <3>1. Contract!Abort
      BY <1>a, <2>1 DEF Contract!Abort, Ended
    <3>. QED
      BY <3>1
  <2>2. CASE pc' # "threw"
    BY <1>a, <2>2 DEF Ended
  <2>. QED
    BY <2>1, <2>2
<1>1. CASE Begin \/ ReportUnscheduled \/ Schedule \/ CopyInput \/ ReportException \/ TellCompleted
  BY <1>1, <1>a DEF Begin, Call, ReportUnscheduled, Schedule, CopyInput, ReportException,
     TellCompleted, Advance, Ended, counts, told, fate
<1>2. CASE EvaluatePredicate
  <2>1. CASE UNCHANGED <<slot, chosen, rejected>>
    BY <1>2, <1>a, <2>1 DEF EvaluatePredicate, Call, Ended
  <2>2. CASE /\ slot' = [slot EXCEPT ![next] = "failed"] /\ UNCHANGED chosen
             /\ rejected' = rejected \cup {next} /\ pc' = "reject"
    <3>1. Contract!Reject(next)
      BY <1>0, <1>2, <2>2 DEF EvaluatePredicate, Contract!Reject, At, Fresh
    <3>. QED
      BY <1>0, <3>1
  <2>3. CASE /\ UNCHANGED <<slot, rejected>> /\ chosen' = chosen \cup {next} /\ pc' = "select"
    <3>1. Contract!Choose(next)
      BY <1>0, <1>2, <2>3 DEF EvaluatePredicate, Contract!Choose, At, Fresh
    <3>. QED
      BY <1>0, <3>1
  <2>. QED
    BY <1>2, <2>1, <2>2, <2>3 DEF EvaluatePredicate
<1>3. CASE StartStage \/ RunStage \/ ReportStage
  <2>1. /\ UNCHANGED <<chosen, rejected, report>>
        /\ pc \in {"begin", "stage", "settled"}
        /\ pc' \in {"stage", "settled", "caught", "tell"}
        /\ \/ slot' = slot
           \/ slot' = [slot EXCEPT ![next] = "failed"]
           \/ slot' = [slot EXCEPT ![next] = "completed"] /\ pc = "stage"
    BY <1>3 DEF StartStage, RunStage, ReportStage, Mark, fate, counts
  <2>2. next \in chosen /\ (pc = "stage" => slot[next] = "skipped")
    BY <1>0, <2>1 DEF At, Open, BeforeStage, BeforeTold
  <2>3. CASE slot' = slot
    BY <1>a, <2>1, <2>3 DEF Ended
  <2>4. CASE slot' # slot
    <3>1. \E state \in {"completed", "failed"} : Contract!Settle(next, state)
      BY <2>1, <2>2, <2>4 DEF Contract!Settle
    <3>. QED
      BY <1>0, <3>1
  <2>. QED
    BY <2>3, <2>4
<1>4. CASE ReportAndReturn
  <2>1. /\ pc = "report" /\ UNCHANGED <<slot, chosen, rejected>> /\ pc' \in {"returned", "threw"}
        /\ report' = [selected |-> tally.selected, completed |-> tally.completed,
                      failed |-> tally.failed, made |-> TRUE]
    BY <1>4 DEF ReportAndReturn, Call, told, fate
  <2>2. report' = [selected |-> Contract!Cardinality(chosen),
                   completed |-> Contract!Cardinality(Contract!CasesIn("completed")),
                   failed |-> Contract!Cardinality(Contract!CasesIn("failed") \cup {}),
                   made |-> TRUE]
    BY <2>1, CountsAreSlots, SameCardinality DEF Tallied
  <2>3. Contract!Report
    BY <2>1, <2>2, CountsAreSlots DEF Contract!Report
  <2>. QED
    BY <2>3
<1>5. CASE UNCHANGED vars
  BY <1>5 DEF vars, counts, fate
<1>. QED
  BY <1>1, <1>2, <1>3, <1>4, <1>5 DEF Next

(* The invariant holds in every reachable state of the branch.             *)
THEOREM Invariance == Instance /\ Spec => []IInv
<1>1. Instance /\ Init => IInv
  BY Initial
<1>2. IInv /\ [Next]_vars => IInv'
  BY Inductive
<1>. QED
  BY <1>1, <1>2, PTL DEF Spec

(* The sequential branch implements FanIn (ImplementsFanIn), for any       *)
(* number of cases and whatever the observer or a copy throws.             *)
THEOREM Implements == Instance /\ Spec => ImplementsFanIn
<1>1. Init => Contract!Init
  BY DEF Init, Contract!Init
<1>2. IInv /\ [Next]_vars => [Contract!Next]_(Contract!vars)
  BY StepsImplement
<1>. QED
  BY <1>1, <1>2, Invariance, PTL DEF Spec, ImplementsFanIn, Contract!Spec
=============================================================================
