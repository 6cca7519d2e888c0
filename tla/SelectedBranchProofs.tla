------------------------ MODULE SelectedBranchProofs ------------------------
(* Theorems about SelectedBranch, for any number of cases, both ways of    *)
(* running them, and observers that may throw from any callback.           *)
EXTENDS SelectedBranch, SequenceTheorems, TLAPS

(* What is known of the constants.                                         *)
Instance ==
  /\ NumCases \in Nat \ {0}
  /\ Storage \subseteq BOOLEAN
  /\ Throwing \subseteq Callbacks

Event == [kind : Callbacks, role : Roles, case : Cases]
Error == [case : Cases \cup {0}, role : Roles \cup {"branch"},
          category : {"none", "returned", "exception", "unmatched"}]
Verdicts == {"success", "failure", "exception"}

Selected(k) == Reports(k, "selected", "predicate")
Skipped(k)  == Reports(k, "skipped", "predicate")
Silent(k) == \A kind \in Callbacks : \A role \in Roles : ~Reports(k, kind, role)
Undecided(k, role) == \A v \in Verdicts : ~Reports(k, v, role)

(* The places before the predicate's answer, and those before the case's   *)
(* stage has had its verdict.                                              *)
Asking == {"ask", "evaluate", "answered", "declined"}
Going  == Asking \cup {"select", "skip", "begin", "run", "ran", "failed"}

(* What has been reported of the case at hand, and of those after it.      *)
Heard ==
  /\ pc \in Going \cup {"stage caught"} =>
       \A k \in Cases : k > case => Silent(k)
  /\ pc = "ask" => Silent(case)
  /\ pc \in Asking => Undecided(case, "predicate")
  /\ pc \in Going => Undecided(case, "stage")

(* What the predicates have said, and what the events say of that.         *)
Route ==
  /\ pc \in Going =>
       \A k \in Cases : /\ k > case => said[k] = "nothing"
                        /\ k < case => Skipped(k)
  /\ pc \in {"ask", "evaluate"} => said[case] = "nothing"
  /\ pc = "answered" => said[case] \in {"no", "yes"}
  /\ pc = "skip" => said[case] = "no"
  /\ pc \in {"select", "begin", "run"} => said[case] = "yes"
  /\ pc \in {"begin", "run"} => Selected(case)
  /\ pc \in Asking \cup {"select", "skip", "begin", "run"} => given = 0
  /\ pc = "ran" => given = case /\ worked

(* The error a frame is about to return.                                   *)
Errors ==
  /\ pc \in Going \ {"declined", "failed"} => error = NoError
  /\ pc = "declined" => error = Named("predicate", "returned")
  /\ pc = "failed" => error = Named("stage", "returned")

(* The frames an exception has passed have reported it.                    *)
Passed ==
  pc = "predicate caught" =>
    \A k \in Cases :
      k > case /\ Reports(k, "start", "predicate") => Reports(k, "exception", "predicate")

(* Nothing is caught after the verdict, if only a start throws.            *)
OneEach ==
  broke \subseteq {"start"} =>
    /\ pc = "predicate caught" => Undecided(case, "predicate")
    /\ pc = "stage caught" => Undecided(case, "stage")

IInv ==
  /\ Instance /\ TypeOK /\ Heard /\ Route /\ Errors /\ Passed /\ OneEach
  /\ EventsTellRoute /\ AnswerMatchesLastEvent /\ EscapesThroughEveryFrame
  /\ OneVerdictPerChild /\ BranchContained

-----------------------------------------------------------------------------
(* What a callback adds to the history.                                    *)
LEMMA Notified ==
  ASSUME TypeOK, NEW kind \in Callbacks, NEW role \in Roles, Notify(kind, role)
  PROVE  /\ events' \in Seq(Event)
         /\ DOMAIN events = 1 .. Len(events) /\ Len(events) \in Nat
         /\ DOMAIN events' = 1 .. Len(events) + 1 /\ Len(events') = Len(events) + 1
         /\ \A i \in DOMAIN events : i \in DOMAIN events' /\ events'[i] = events[i]
         /\ Len(events') \in DOMAIN events'
         /\ events'[Len(events')] = [kind |-> kind, role |-> role, case |-> case]
         /\ \A i \in DOMAIN events' : i \in DOMAIN events \/ i = Len(events')
<1>1. events \in Seq(Event) /\ case \in Cases
  BY DEF TypeOK, Event
<1>2. [kind |-> kind, role |-> role, case |-> case] \in Event
  BY <1>1 DEF Event
<1>. DEFINE e == [kind |-> kind, role |-> role, case |-> case]
<1>3. events' = Append(events, e)
  BY DEF Notify
<1>. HIDE DEF e
<1>4. /\ Append(events, e) \in Seq(Event) /\ Len(Append(events, e)) = Len(events) + 1
      /\ \A i \in 1 .. Len(events) : Append(events, e)[i] = events[i]
      /\ Append(events, e)[Len(events) + 1] = e
  BY <1>1, <1>2, AppendProperties DEF e
<1>5. Len(events) \in Nat
  BY <1>1, LenProperties
<1>. QED
  BY <1>1, <1>3, <1>4, <1>5 DEF e

(* What has been reported stays reported, and the callback is.             *)
LEMMA Reporting ==
  ASSUME TypeOK, NEW kind \in Callbacks, NEW role \in Roles, Notify(kind, role)
  PROVE  \A k, m, r :
           Reports(k, m, r)' <=> Reports(k, m, r) \/ (k = case /\ m = kind /\ r = role)
<1>1. ASSUME NEW k, NEW m, NEW r, Reports(k, m, r)'
      PROVE  Reports(k, m, r) \/ (k = case /\ m = kind /\ r = role)
  <2>1. PICK i \in DOMAIN events' : events'[i] = [kind |-> m, role |-> r, case |-> k]
    BY <1>1 DEF Reports
  <2>2. CASE i \in DOMAIN events
    BY <2>1, <2>2, Notified DEF Reports
  <2>3. CASE i = Len(events')
    <3>1. [kind |-> m, role |-> r, case |-> k] = [kind |-> kind, role |-> role, case |-> case]
      BY <2>1, <2>3, Notified
    <3>2. m = kind /\ k = case /\ r = role
      BY <3>1
    <3>. QED
      BY <3>2
  <2>. QED
    BY <2>2, <2>3, Notified
<1>2. ASSUME NEW k, NEW m, NEW r, Reports(k, m, r)
      PROVE  Reports(k, m, r)'
  <2>1. PICK i \in DOMAIN events : events[i] = [kind |-> m, role |-> r, case |-> k]
    BY <1>2 DEF Reports
  <2>2. i \in DOMAIN events' /\ events'[i] = [kind |-> m, role |-> r, case |-> k]
    BY <2>1, Notified
  <2>. QED
    BY <2>2 DEF Reports
<1>3. \A k, m, r : k = case /\ m = kind /\ r = role => Reports(k, m, r)'
  BY Notified DEF Reports
<1>. QED
  BY <1>1, <1>2, <1>3

(* Nothing is reported by a step without a callback.                       *)
LEMMA NotReporting ==
  ASSUME UNCHANGED events
  PROVE  \A k, m, r : Reports(k, m, r)' <=> Reports(k, m, r)
BY DEF Reports

(* A step is silent or one callback about the case at hand.                *)
Silently == (EvaluatePredicate \/ RunCase \/ UNCHANGED vars) /\ UNCHANGED events

(* What each step with a callback is about.                                *)
Telling(kind, role) ==
  /\ Notify(kind, role)
  /\ \/ StartPredicate /\ kind = "start" /\ role = "predicate"
     \/ ReportPredicate /\ kind = "success" /\ role = "predicate"
     \/ ReportPredicateFailure /\ kind = "failure" /\ role = "predicate"
     \/ SelectCase /\ kind = "selected" /\ role = "predicate"
     \/ SkipCase /\ kind = "skipped" /\ role = "predicate"
     \/ StartCase /\ kind = "start" /\ role = "stage"
     \/ ReportCase /\ role = "stage" /\ kind = IF pc = "ran" THEN "success" ELSE "failure"
     \/ HandleCase /\ kind = "exception" /\ role = "stage"
     \/ HandlePredicate /\ kind = "exception" /\ role = "predicate"

(* A step tells the observer at most one thing.                            *)
LEMMA Steps ==
  ASSUME [Next]_vars
  PROVE  Silently \/ \E kind \in Callbacks, role \in Roles : Telling(kind, role)
BY DEF Next, Silently, Telling, vars, Callbacks, Roles, Call, StartPredicate,
   EvaluatePredicate, ReportPredicate, ReportPredicateFailure, SelectCase,
   SkipCase, StartCase, RunCase, ReportCase, HandleCase, HandlePredicate

-----------------------------------------------------------------------------
(* What a step with a callback does besides, with the places it can go to. *)
LEMMA Effects ==
  ASSUME Instance, TypeOK, NEW kind \in Callbacks, NEW role \in Roles, Telling(kind, role)
  PROVE  /\ UNCHANGED <<stored, said, given, worked>>
         /\ broke' \in {broke, broke \cup {kind}}
         /\ case' = case \/ (pc = "skip" /\ pc' = "ask" /\ case < NumCases /\ case' = case + 1)
              \/ (pc = "predicate caught" /\ pc' = pc /\ case > 1 /\ case' = case - 1)
<1>. USE DEF Telling, Call, Breaks
<1>1. UNCHANGED <<stored, said, given, worked>>
  BY DEF StartPredicate, ReportPredicate, ReportPredicateFailure, SelectCase, SkipCase,
     StartCase, ReportCase, HandleCase, HandlePredicate
<1>2. broke' \in {broke, broke \cup {kind}}
  BY DEF StartPredicate, ReportPredicate, ReportPredicateFailure, SelectCase, SkipCase,
     StartCase, ReportCase, HandleCase, HandlePredicate
<1>3. case' = case \/ (pc = "skip" /\ pc' = "ask" /\ case < NumCases /\ case' = case + 1)
        \/ (pc = "predicate caught" /\ pc' = pc /\ case > 1 /\ case' = case - 1)
  BY DEF StartPredicate, ReportPredicate, ReportPredicateFailure, SelectCase, SkipCase,
     StartCase, ReportCase, HandleCase, HandlePredicate
<1>. QED
  BY <1>1, <1>2, <1>3

(* No step leaves the types.                                               *)
LEMMA TypesStep ==
  ASSUME Instance, TypeOK, [Next]_vars
  PROVE  TypeOK'
<1>0. NumCases \in Nat \ {0} /\ Instance'
  BY DEF Instance
<1>a. /\ error \in Error
      /\ Named("predicate", "returned") \in Error /\ Named("predicate", "exception") \in Error
      /\ Named("stage", "returned") \in Error /\ Named("stage", "exception") \in Error
      /\ Named("branch", "unmatched") \in Error
  BY DEF Named, TypeOK, Error, Roles
<1>b. error' \in Error =>
        error' \in [case : Cases \cup {0}, role : Roles \cup {"branch"},
                    category : {"none", "returned", "exception", "unmatched"}]
  BY DEF Error
<1>1. CASE Silently
  <2>1. CASE EvaluatePredicate
    <3>1. said' \in [Cases -> {"nothing", "no", "yes"}]
      BY <2>1 DEF EvaluatePredicate, TypeOK
    <3>2. error' \in {error, Named("predicate", "returned")}
          /\ pc' \in {"answered", "declined", "predicate caught"}
      BY <2>1 DEF EvaluatePredicate
    <3>3. error' \in Error
      BY <3>2, <1>a
    <3>. QED
      BY <2>1, <3>1, <3>2, <3>3, <1>b DEF EvaluatePredicate, TypeOK
  <2>2. CASE RunCase
    <3>1. /\ error' \in {error, Named("stage", "returned")} /\ given' = case
          /\ pc' \in {"ran", "failed", "stage caught"} /\ worked' \in {worked, TRUE}
      BY <2>2 DEF RunCase
    <3>2. error' \in Error
      BY <3>1, <1>a
    <3>3. worked' \in BOOLEAN /\ given' \in Cases \cup {0}
      BY <3>1, Zenon DEF TypeOK
    <3>4. UNCHANGED <<stored, case, events, broke, said>>
      BY <2>2 DEF RunCase
    <3>. QED
      BY <3>1, <3>2, <3>3, <3>4, <1>b DEF TypeOK
  <2>3. CASE UNCHANGED vars
    BY <2>3 DEF vars, TypeOK
  <2>. QED
    BY <1>1, <2>1, <2>2, <2>3 DEF Silently
<1>2. ASSUME NEW kind \in Callbacks, NEW role \in Roles, Telling(kind, role)
      PROVE  TypeOK'
  <2>1. events' \in Seq([kind : Callbacks, role : Roles, case : Cases])
    BY <1>2, Notified DEF Telling, Event
  <2>2. broke' \subseteq Callbacks
    <3>1. broke \subseteq Callbacks
      BY DEF TypeOK
    <3>. QED
      BY <1>2, <3>1, Effects, Zenon
  <2>3. case' \in Cases
    <3>1. case \in 1 .. NumCases
      BY DEF TypeOK, Cases
    <3>2. case' = case \/ (case < NumCases /\ case' = case + 1) \/ (case > 1 /\ case' = case - 1)
      BY <1>2, Effects
    <3>. QED
      BY <1>0, <3>1, <3>2 DEF Cases
  <2>4. pc' \in {"ask", "evaluate", "answered", "declined", "select", "skip",
                 "begin", "run", "ran", "failed", "stage caught",
                 "predicate caught", "returned", "threw"}
    BY <1>2 DEF Telling, Call, Around, TypeOK, StartPredicate, ReportPredicate,
       ReportPredicateFailure, SelectCase, SkipCase, StartCase, ReportCase, HandleCase,
       HandlePredicate
  <2>5. error' \in {error, Named("branch", "unmatched"), Named("stage", "exception"),
                    Named("predicate", "exception")}
    BY <1>2 DEF Telling, StartPredicate, ReportPredicate,
       ReportPredicateFailure, SelectCase, SkipCase, StartCase, ReportCase, HandleCase,
       HandlePredicate
  <2>6. error' \in Error
    BY <2>5, <1>a
  <2>. HIDE DEF Callbacks, Roles
  <2>. QED
    BY <1>2, <1>b, <2>1, <2>2, <2>3, <2>4, <2>6, Effects DEF TypeOK
<1>. QED
  BY <1>1, <1>2, Steps

(* Nothing is reported of a case before it is asked, and no verdict on the *)
(* child that is running.                                                  *)
LEMMA HeardStep ==
  ASSUME Instance, TypeOK, Heard, [Next]_vars
  PROVE  Heard'
<1>0. case \in 1 .. NumCases /\ NumCases \in Nat
  BY DEF Instance, TypeOK, Cases
<1>c. \A k \in Cases : \A c : (c = case \/ c = case + 1) /\ k > c => k > case /\ k # case
  BY <1>0 DEF Cases
<1>b. ASSUME /\ pc' \in Going \cup {"stage caught"} => \A k \in Cases : k > case' => Silent(k)'
             /\ pc' = "ask" => \A k : k = case' => Silent(k)'
             /\ pc' \in Asking => \A k : k = case' => Undecided(k, "predicate")'
             /\ pc' \in Going => \A k : k = case' => Undecided(k, "stage")'
      PROVE  Heard'
  BY <1>b DEF Heard, Silent, Undecided, Reports
<1>1. CASE Silently
  <2>1. /\ \A k, m, r : Reports(k, m, r)' <=> Reports(k, m, r)
        /\ case' = case
    BY <1>1, NotReporting DEF Silently, EvaluatePredicate, RunCase, vars
  <2>2. \/ pc' = pc
        \/ pc = "evaluate" /\ pc' \in {"answered", "declined", "predicate caught"}
        \/ pc = "run" /\ pc' \in {"ran", "failed", "stage caught"}
    BY <1>1 DEF Silently, EvaluatePredicate, RunCase, vars
  <2>3. \A k : (Silent(k) => Silent(k)') /\ \A r : Undecided(k, r) => Undecided(k, r)'
    BY <2>1 DEF Silent, Undecided
  <2>4. /\ pc \in Going \cup {"stage caught"} => \A k \in Cases : k > case' => Silent(k)'
        /\ pc = "ask" => \A k : k = case' => Silent(k)'
        /\ pc \in Asking => \A k : k = case' => Undecided(k, "predicate")'
        /\ pc \in Going => \A k : k = case' => Undecided(k, "stage")'
    BY <2>1, <2>3 DEF Heard
  <2>. QED
    BY <1>b, <2>2, <2>4 DEF Going, Asking
<1>2. ASSUME NEW kind \in Callbacks, NEW role \in Roles, Telling(kind, role)
      PROVE  Heard'
  <2>. USE DEF Going, Asking
  <2>1. \A k, m, r :
           Reports(k, m, r)' <=> Reports(k, m, r) \/ (k = case /\ m = kind /\ r = role)
    BY <1>2, Reporting DEF Telling
  <2>2. \A k : k # case /\ Silent(k) => Silent(k)'
    BY <2>1 DEF Silent
  <2>3. pc' \in Going \cup {"stage caught"} =>
          /\ pc \in Going \cup {"stage caught"}
          /\ case' = case \/ (pc = "skip" /\ pc' = "ask" /\ case < NumCases /\ case' = case + 1)
    BY <1>2, Effects DEF Telling, Call, Around, StartPredicate, ReportPredicate,
       ReportPredicateFailure, SelectCase, SkipCase, StartCase, ReportCase, HandleCase,
       HandlePredicate
  <2>4. pc' \in Going \cup {"stage caught"} => \A k \in Cases : k > case' => Silent(k)'
    <3>. SUFFICES ASSUME pc' \in Going \cup {"stage caught"}, NEW k \in Cases, k > case'
                  PROVE  Silent(k)'
      OBVIOUS
    <3>0. case' = case \/ case' = case + 1
      BY <2>3
    <3>1. k > case /\ k # case
      BY <1>c, <3>0
    <3>2. Silent(k)
      <4>1. pc \in Going \cup {"stage caught"}
        BY <2>3
      <4>. HIDE DEF Going
      <4>. QED
        BY <3>1, <4>1 DEF Heard
    <3>. QED
      BY <2>2, <3>1, <3>2
  <2>5. pc' = "ask" => \A k : k = case' => Silent(k)'
    <3>. SUFFICES ASSUME pc' = "ask", NEW k, k = case' PROVE Silent(k)'
      OBVIOUS
    <3>1. pc = "skip" /\ case < NumCases /\ case' = case + 1
      BY <1>2 DEF Telling, Call, Around, StartPredicate, ReportPredicate,
       ReportPredicateFailure, SelectCase, SkipCase, StartCase, ReportCase, HandleCase,
       HandlePredicate
    <3>2. k \in Cases /\ k # case /\ k > case
      BY <1>0, <3>1 DEF Cases
    <3>. QED
      BY <2>2, <3>1, <3>2 DEF Heard
  <2>6. \A k \in Cases : \A r \in Roles : Silent(k)' => Undecided(k, r)'
    BY DEF Silent, Undecided, Callbacks, Verdicts
  <2>7. CASE pc' = "ask"
    <3>1. case' \in Cases
      BY <1>2, TypesStep DEF Steps, TypeOK
    <3>. QED
      BY <1>b, <2>4, <2>5, <2>6, <2>7, <3>1 DEF Roles
  <2>8. CASE pc' \in Going \ {"ask"}
    <3>1. case' = case
      BY <2>3, <2>8
    <3>2. \/ StartPredicate \/ ReportPredicate \/ SelectCase \/ StartCase
      BY <1>2, <2>8 DEF Telling, Call, Around, SkipCase, ReportPredicateFailure, ReportCase,
         HandleCase, HandlePredicate
    <3>3. /\ pc \in Going /\ (pc' \in Asking => pc \in Asking /\ kind = "start")
          /\ role # "stage" \/ kind = "start"
      <4>1. \/ pc = "ask" /\ kind = "start"
            \/ pc = "answered" /\ pc' \notin Asking /\ role = "predicate"
            \/ pc = "select" /\ pc' \notin Asking /\ role = "predicate"
            \/ pc = "begin" /\ pc' \notin Asking /\ kind = "start"
        BY <1>2, <2>8, <3>2 DEF Telling, Call, Around, StartPredicate, ReportPredicate,
           ReportPredicateFailure, SkipCase, ReportCase, HandleCase, HandlePredicate,
           SelectCase, StartCase
      <4>. QED
        BY <4>1
    <3>4. /\ pc' \in Asking => \A k : k = case' => Undecided(k, "predicate")'
          /\ pc' \in Going => \A k : k = case' => Undecided(k, "stage")'
      <4>1. /\ Undecided(case, "stage")
            /\ pc' \in Asking => Undecided(case, "predicate")
        BY <3>3 DEF Heard
      <4>. QED
        BY <2>1, <3>1, <3>3, <4>1 DEF Undecided, Verdicts
    <3>. QED
      BY <1>b, <2>4, <2>8, <3>4
  <2>9. CASE pc' \notin Going
    BY <1>b, <2>4, <2>9
  <2>. QED
    BY <2>7, <2>8, <2>9
<1>. QED
  BY <1>1, <1>2, Steps

(* The branch says that nothing matched.                                   *)
Unmatched == pc = "returned" /\ error.role = "branch" /\ error # NoError

(* What EventsTellRoute says, before a step and after it.                  *)
LEMMA Routes ==
  ASSUME Instance
  PROVE  /\ EventsTellRoute =>
              /\ \A k \in Cases : /\ Skipped(k) => said[k] = "no"
                                  /\ Selected(k) => said[k] = "yes"
                                  /\ Selected(k) => \A j \in Cases : j < k => Skipped(j)
              /\ given # 0 => Selected(given)
              /\ Unmatched => \A k \in Cases : Skipped(k)
         /\ (/\ \A k \in Cases : /\ Skipped(k)' => said'[k] = "no"
                                 /\ Selected(k)' => said'[k] = "yes"
                                 /\ Selected(k)' => \A j \in Cases : j < k => Skipped(j)'
             /\ given' # 0 => \A k : k = given' => Selected(k)'
             /\ Unmatched' => \A k \in Cases : Skipped(k)')
            => EventsTellRoute'
<1>1. \A k \in Cases : \A j : j \in Cases /\ j < k <=> j \in 1 .. k - 1
  BY DEF Cases, Instance
<1>2. ASSUME EventsTellRoute
      PROVE  /\ \A k \in Cases : /\ Skipped(k) => said[k] = "no"
                                 /\ Selected(k) => said[k] = "yes"
                                 /\ Selected(k) => \A j \in 1 .. k - 1 : Skipped(j)
             /\ given # 0 => Selected(given)
             /\ Unmatched => \A k \in Cases : Skipped(k)
  BY <1>2 DEF EventsTellRoute, Unmatched, Skipped, Selected
<1>3. ASSUME /\ \A k \in Cases : /\ Skipped(k)' => said'[k] = "no"
                                 /\ Selected(k)' => said'[k] = "yes"
                                 /\ Selected(k)' => \A j \in 1 .. k - 1 : Skipped(j)'
             /\ given' # 0 => \A k : k = given' => Selected(k)'
             /\ Unmatched' => \A k \in Cases : Skipped(k)'
      PROVE  EventsTellRoute'
  BY <1>3 DEF EventsTellRoute, Unmatched, Skipped, Selected, Reports
<1>. QED
  BY <1>1, <1>2, <1>3

(* A case is skipped for a no and selected for the first yes.              *)
LEMMA RouteStep ==
  ASSUME Instance, TypeOK, Errors, Route, EventsTellRoute, [Next]_vars
  PROVE  (Route /\ EventsTellRoute)'
<1>. USE DEF Going, Asking
<1>0. /\ case \in 1 .. NumCases /\ NumCases \in Nat
      /\ said \in [Cases -> {"nothing", "no", "yes"}] /\ case \in Cases
  BY DEF Instance, TypeOK, Cases
<1>a. /\ \A k \in Cases : /\ Skipped(k) => said[k] = "no"
                          /\ Selected(k) => said[k] = "yes"
                          /\ Selected(k) => \A j \in Cases : j < k => Skipped(j)
      /\ given # 0 => Selected(given)
      /\ Unmatched => \A k \in Cases : Skipped(k)
  BY Routes
<1>c. ASSUME /\ pc' \in Going =>
                  \A k \in Cases : /\ k > case' => said'[k] = "nothing"
                                   /\ k < case' => Skipped(k)'
             /\ pc' \in {"ask", "evaluate"} => said'[case'] = "nothing"
             /\ pc' = "answered" => said'[case'] \in {"no", "yes"}
             /\ pc' = "skip" => said'[case'] = "no"
             /\ pc' \in {"select", "begin", "run"} => said'[case'] = "yes"
             /\ pc' \in {"begin", "run"} => \A k : k = case' => Selected(k)'
             /\ pc' \in Asking \cup {"select", "skip", "begin", "run"} => given' = 0
             /\ pc' = "ran" => given' = case' /\ worked'
      PROVE  Route'
  BY <1>c DEF Route, Selected, Skipped, Reports
<1>1. CASE Silently
  <2>1. \A k : (Skipped(k)' <=> Skipped(k)) /\ (Selected(k)' <=> Selected(k))
    BY <1>1, NotReporting DEF Silently, Skipped, Selected
  <2>2. CASE EvaluatePredicate
    <3>1. pc = "evaluate" /\ UNCHANGED <<case, given, worked>> /\ pc' # "returned"
          /\ pc' \in {"answered", "declined", "predicate caught"}
      BY <2>2 DEF EvaluatePredicate
    <3>2. ~Skipped(case) /\ ~Selected(case)
      BY <1>0, <1>a, <3>1 DEF Route
    <3>3. /\ \A k \in Cases : k # case => said'[k] = said[k]
          /\ pc' = "answered" => said'[case] \in {"no", "yes"}
      BY <1>0, <2>2 DEF EvaluatePredicate
    <3>4. EventsTellRoute'
      <4>1. ~Unmatched'
        BY <3>1 DEF Unmatched
      <4>2. \A k \in Cases : /\ Skipped(k)' => said'[k] = "no"
                             /\ Selected(k)' => said'[k] = "yes"
                             /\ Selected(k)' => \A j \in Cases : j < k => Skipped(j)'
        BY <1>a, <2>1, <3>2, <3>3
      <4>. QED
        BY <1>a, <2>1, <3>1, <4>1, <4>2, Routes
    <3>5. Route'
      <4>1. \A k \in Cases : k > case => k # case
        BY <1>0 DEF Cases
      <4>. QED
        BY <1>0, <1>c, <2>1, <3>1, <3>3, <4>1 DEF Route
    <3>. QED
      BY <3>4, <3>5
  <2>3. CASE RunCase
    <3>1. /\ pc = "run" /\ UNCHANGED <<case, said>> /\ given' = case
          /\ (pc' = "ran" /\ worked') \/ pc' \in {"failed", "stage caught"}
      BY <2>3 DEF RunCase
    <3>2. EventsTellRoute'
      <4>1. ~Unmatched'
        BY <3>1 DEF Unmatched
      <4>2. Selected(case)
        BY <3>1 DEF Route
      <4>. QED
        BY <1>a, <2>1, <3>1, <4>1, <4>2, Routes
    <3>3. Route'
      BY <1>c, <2>1, <3>1 DEF Route
    <3>. QED
      BY <3>2, <3>3
  <2>4. CASE UNCHANGED vars
    <3>1. UNCHANGED <<pc, case, said, given, worked>> /\ (Unmatched' => Unmatched)
      BY <2>4 DEF vars, Unmatched
    <3>2. EventsTellRoute'
      BY <1>a, <2>1, <3>1, Routes
    <3>3. Route'
      BY <1>c, <2>1, <3>1 DEF Route
    <3>. QED
      BY <3>2, <3>3
  <2>. QED
    BY <1>1, <2>2, <2>3, <2>4 DEF Silently
<1>2. ASSUME NEW kind \in Callbacks, NEW role \in Roles, Telling(kind, role)
      PROVE  (Route /\ EventsTellRoute)'
  <2>1. \A k, m, r :
           Reports(k, m, r)' <=> Reports(k, m, r) \/ (k = case /\ m = kind /\ r = role)
    BY <1>2, Reporting DEF Telling
  <2>2. /\ UNCHANGED <<said, given, worked>>
        /\ \A k : (Skipped(k) => Skipped(k)') /\ (Selected(k) => Selected(k)')
    BY <1>2, <2>1, Effects DEF Skipped, Selected
  <2>3. ASSUME kind \notin {"skipped", "selected"}
        PROVE  /\ \A k : (Skipped(k)' <=> Skipped(k)) /\ (Selected(k)' <=> Selected(k))
               /\ pc' \in Going => case' = case
               /\ ~Unmatched'
    <3>1. /\ \A k : (Skipped(k)' <=> Skipped(k)) /\ (Selected(k)' <=> Selected(k))
      BY <2>1, <2>3 DEF Skipped, Selected
    <3>2. pc' \in Going => case' = case
      <4>1. pc # "skip"
        BY <1>2, <2>3 DEF Telling, StartPredicate, ReportPredicate,
           ReportPredicateFailure, ReportCase, HandleCase, HandlePredicate, StartCase, SelectCase
      <4>. QED
        BY <1>2, <4>1, Effects
    <3>3. ~Unmatched'
      <4>1. pc' = "returned" =>
              \/ error' = Named("predicate", "exception")
              \/ error' = Named("stage", "exception")
              \/ error' = error /\ pc \in {"ran", "failed", "declined"}
        BY <1>2, <2>3 DEF Telling, Call, Around, StartPredicate, ReportPredicate,
           ReportPredicateFailure, SkipCase, ReportCase, HandleCase, HandlePredicate,
           SelectCase, StartCase
      <4>. QED
        BY <4>1 DEF Unmatched, Errors, Named
    <3>. QED
      BY <3>1, <3>2, <3>3
  <2>4. CASE kind \notin {"skipped", "selected"}
    <3>1. EventsTellRoute'
      BY <1>a, <2>2, <2>3, <2>4, Routes
    <3>2. pc' \in Going =>
            \/ pc = "ask" /\ pc' = "evaluate"
            \/ pc = "answered" /\ pc' = IF said[case] = "yes" THEN "select" ELSE "skip"
            \/ pc = "begin" /\ pc' = "run"
      <4>. HIDE DEF Going, Asking
      <4>1. \/ pc = "ask" /\ pc' = "evaluate"
            \/ pc = "answered" /\ pc' = IF said[case] = "yes" THEN "select" ELSE "skip"
            \/ pc = "begin" /\ pc' = "run"
            \/ pc' \in {"predicate caught", "stage caught", "returned", "threw"}
        BY <1>2, <2>4 DEF Telling, Call, Around, StartPredicate, ReportPredicate,
         ReportPredicateFailure, SkipCase, ReportCase, HandleCase, HandlePredicate,
           SelectCase, StartCase
      <4>. QED
        BY <4>1 DEF Going, Asking
    <3>3. Route'
      <4>1. CASE pc' \notin Going
        BY <1>c, <4>1
      <4>2. CASE pc = "ask" /\ pc' = "evaluate"
        BY <1>c, <2>2, <2>3, <2>4, <4>2 DEF Route
      <4>3. CASE pc = "answered" /\ pc' = IF said[case] = "yes" THEN "select" ELSE "skip"
        BY <1>c, <2>2, <2>3, <2>4, <4>3 DEF Route
      <4>4. CASE pc = "begin" /\ pc' = "run"
        BY <1>c, <2>2, <2>3, <2>4, <4>4 DEF Route
      <4>. QED
        BY <3>2, <4>1, <4>2, <4>3, <4>4
    <3>. QED
      BY <3>1, <3>3
  <2>5. CASE kind = "selected"
    <3>1. /\ pc = "select" /\ case' = case /\ role = "predicate"
          /\ pc' \in {"begin", "predicate caught", "threw"}
      BY <1>2, <2>5 DEF Telling, Call, Around, SelectCase
    <3>2. /\ \A k : (Skipped(k)' <=> Skipped(k)) /\ (Selected(k)' <=> Selected(k) \/ k = case)
          /\ ~Unmatched'
      BY <2>1, <2>5, <3>1 DEF Skipped, Selected, Unmatched
    <3>3. said[case] = "yes" /\ \A j \in Cases : j < case => Skipped(j)
      BY <3>1 DEF Route
    <3>4. EventsTellRoute'
      <4>1. \A k \in Cases : /\ Skipped(k)' => said'[k] = "no"
                             /\ Selected(k)' => said'[k] = "yes"
                             /\ Selected(k)' => \A j \in Cases : j < k => Skipped(j)'
        BY <1>a, <2>2, <3>2, <3>3
      <4>. QED
        BY <1>a, <2>2, <3>2, <4>1, Routes
    <3>5. Route'
      BY <1>c, <2>2, <3>1, <3>2 DEF Route
    <3>. QED
      BY <3>4, <3>5
  <2>6. CASE kind = "skipped"
    <3>1. /\ pc = "skip" /\ role = "predicate"
          /\ \/ pc' = "ask" /\ case < NumCases /\ case' = case + 1
             \/ pc' = "returned" /\ case = NumCases
             \/ pc' \in {"predicate caught", "threw"}
      BY <1>2, <2>6 DEF Telling, Around, SkipCase
    <3>2. \A k : (Skipped(k)' <=> Skipped(k) \/ k = case) /\ (Selected(k)' <=> Selected(k))
      BY <2>1, <2>6, <3>1 DEF Skipped, Selected
    <3>3. said[case] = "no" /\ \A j \in Cases : j < case => Skipped(j)
      BY <3>1 DEF Route
    <3>4. EventsTellRoute'
      <4>1. \A k \in Cases : /\ Skipped(k)' => said'[k] = "no"
                             /\ Selected(k)' => said'[k] = "yes"
                             /\ Selected(k)' => \A j \in Cases : j < k => Skipped(j)'
        BY <1>a, <2>2, <3>2, <3>3
      <4>2. Unmatched' => \A k \in Cases : Skipped(k)'
        <5>1. Unmatched' => case = NumCases
          BY <3>1 DEF Unmatched
        <5>2. \A k \in Cases : case = NumCases => k < case \/ k = case
          BY <1>0 DEF Cases
        <5>. QED
          BY <3>2, <3>3, <5>1, <5>2
      <4>. QED
        BY <1>a, <2>2, <3>2, <4>1, <4>2, Routes
    <3>5. Route'
      <4>1. CASE pc' = "ask"
        <5>1. /\ \A k \in Cases : (k > case' => k > case) /\ (k < case' => k < case \/ k = case)
              /\ case' > case /\ case' \in Cases
          BY <1>0, <3>1, <4>1 DEF Cases
        <5>. QED
          BY <1>c, <2>2, <3>1, <3>2, <4>1, <5>1 DEF Route
      <4>2. CASE pc' # "ask"
        BY <1>c, <3>1, <4>2
      <4>. QED
        BY <4>1, <4>2
    <3>. QED
      BY <3>4, <3>5
  <2>. QED
    BY <2>4, <2>5, <2>6
<1>. QED
  BY <1>1, <1>2, Steps

(* The error is the one the last callback is about, and only a handler's   *)
(* or a case callback leaves the branch.                                   *)
LEMMA AnswerStep ==
  ASSUME Instance, TypeOK, Errors, Route, AnswerMatchesLastEvent, BranchContained, [Next]_vars
  PROVE  (Errors /\ AnswerMatchesLastEvent /\ BranchContained)'
<1>a. ASSUME pc' # "returned" PROVE AnswerMatchesLastEvent'
  BY <1>a DEF AnswerMatchesLastEvent
<1>b. ASSUME pc' # "threw" PROVE BranchContained'
  BY <1>b DEF BranchContained
<1>1. CASE EvaluatePredicate
  <2>1. /\ pc = "evaluate" /\ case' = case
        /\ \/ pc' \in {"answered", "predicate caught"} /\ error' = error
           \/ pc' = "declined" /\ error' = Named("predicate", "returned")
    BY <1>1 DEF EvaluatePredicate
  <2>2. Errors'
    BY <2>1 DEF Errors, Going, Asking, Named
  <2>. QED
    BY <1>a, <1>b, <2>1, <2>2
<1>2. CASE RunCase
  <2>1. /\ pc = "run" /\ case' = case
        /\ \/ pc' \in {"ran", "stage caught"} /\ error' = error
           \/ pc' = "failed" /\ error' = Named("stage", "returned")
    BY <1>2 DEF RunCase
  <2>2. Errors'
    BY <2>1 DEF Errors, Going, Asking, Named
  <2>. QED
    BY <1>a, <1>b, <2>1, <2>2
<1>3. CASE UNCHANGED vars
  BY <1>3 DEF vars, Errors, Named, AnswerMatchesLastEvent, BranchContained
<1>4. ASSUME NEW kind \in Callbacks, NEW role \in Roles, Telling(kind, role)
      PROVE  (Errors /\ AnswerMatchesLastEvent /\ BranchContained)'
  <2>1. events'[Len(events')] = [kind |-> kind, role |-> role, case |-> case]
    BY <1>4, Notified DEF Telling
  <2>. DEFINE last == events'[Len(events')]
              About(k, m, r) == last = [kind |-> m, role |-> r, case |-> k]
  <2>2. ASSUME \/ error' = NoError /\ About(given', "success", "stage")
               \/ error'.category = "unmatched" /\ About(NumCases, "skipped", "predicate")
               \/ error'.category = "returned" /\ About(error'.case, "failure", error'.role)
               \/ error'.category = "exception" /\ About(error'.case, "exception", error'.role)
        PROVE  AnswerMatchesLastEvent'
    BY <2>2 DEF AnswerMatchesLastEvent
  <2>. HIDE DEF last, About
  <2>3. CASE pc' \notin {"returned", "threw"}
    <3>1. /\ pc' \notin {"declined", "failed"}
          /\ pc' \in Going => error' = error /\ pc \in Going \ {"declined", "failed"}
      BY <1>4, <2>3 DEF Telling, Call, Around, StartPredicate, ReportPredicate, Going, Asking,
         ReportPredicateFailure, SkipCase, ReportCase, HandleCase, HandlePredicate,
         SelectCase, StartCase
    <3>2. Errors'
      BY <3>1 DEF Errors
    <3>. QED
      BY <1>a, <1>b, <2>3, <3>2
  <2>4. CASE pc' = "returned"
    <3>1. Errors'
      BY <2>4 DEF Errors, Going, Asking
    <3>2. \/ pc = "ran" /\ kind = "success" /\ role = "stage" /\ error' = error
          \/ pc = "failed" /\ kind = "failure" /\ role = "stage" /\ error' = error
          \/ pc = "declined" /\ kind = "failure" /\ role = "predicate" /\ error' = error
          \/ case = NumCases /\ kind = "skipped" /\ role = "predicate"
             /\ error' = Named("branch", "unmatched")
          \/ kind = "exception" /\ error' = Named(role, "exception")
      BY <1>4, <2>4 DEF Telling, Call, Around, StartPredicate, ReportPredicate,
         ReportPredicateFailure, SkipCase, ReportCase, HandleCase, HandlePredicate,
         SelectCase, StartCase
    <3>3. given' = given /\ last = [kind |-> kind, role |-> role, case |-> case]
      BY <1>4, <2>1, Effects DEF last
    <3>. QED
      BY <2>2, <2>4, <3>1, <3>2, <3>3, <1>b DEF Errors, Route, Going, Named, NoError, About
  <2>5. CASE pc' = "threw"
    <3>1. Errors'
      BY <2>5 DEF Errors, Going, Asking
    <3>2. broke' = broke \cup {kind} /\ kind \in {"exception", "selected", "skipped"}
      BY <1>4, <2>5 DEF Telling, Call, Around, Breaks, StartPredicate, ReportPredicate,
         ReportPredicateFailure, SkipCase, ReportCase, HandleCase, HandlePredicate,
         SelectCase, StartCase
    <3>. QED
      BY <1>a, <2>5, <3>1, <3>2 DEF BranchContained
  <2>. QED
    BY <2>3, <2>4, <2>5
<1>. QED
  BY <1>1, <1>2, <1>3, <1>4, Steps DEF Silently

(* With storage a frame is left by an exception when it has reported it.   *)
LEMMA PassedStep ==
  ASSUME Instance, TypeOK, Heard, Passed, EscapesThroughEveryFrame, [Next]_vars
  PROVE  (Passed /\ EscapesThroughEveryFrame)'
<1>. DEFINE Through(k) == Reports(k, "start", "predicate") => Reports(k, "exception", "predicate")
<1>0. /\ case \in 1 .. NumCases /\ NumCases \in Nat
      /\ \A k \in Cases : k \in 1 .. NumCases
  BY DEF Instance, TypeOK, Cases
<1>a. ASSUME pc \in Going \cup {"stage caught"}, NEW k \in Cases, k > case
      PROVE  ~Reports(k, "start", "predicate")
  BY <1>a DEF Heard, Silent, Callbacks, Roles
<1>b. ASSUME /\ pc' = "predicate caught" => \A k \in Cases : k > case' => Through(k)'
             /\ pc' = "threw" /\ stored' => \A k \in Cases : Through(k)'
      PROVE  (Passed /\ EscapesThroughEveryFrame)'
  BY <1>b DEF Passed, EscapesThroughEveryFrame
<1>1. CASE Silently
  <2>1. \A k, m, r : Reports(k, m, r)' <=> Reports(k, m, r)
    BY <1>1, NotReporting DEF Silently
  <2>2. \/ UNCHANGED <<pc, case, stored>>
        \/ pc' # "threw" /\ case' = case /\ pc \in Going
    BY <1>1 DEF Silently, EvaluatePredicate, RunCase, vars, Going, Asking
  <2>. QED
    BY <1>a, <1>b, <2>1, <2>2 DEF Passed, EscapesThroughEveryFrame
<1>2. ASSUME NEW kind \in Callbacks, NEW role \in Roles, Telling(kind, role)
      PROVE  (Passed /\ EscapesThroughEveryFrame)'
  <2>1. \A k, m, r :
           Reports(k, m, r)' <=> Reports(k, m, r) \/ (k = case /\ m = kind /\ r = role)
    BY <1>2, Reporting DEF Telling
  <2>2. CASE HandlePredicate
    <3>1. /\ pc = "predicate caught" /\ kind = "exception" /\ role = "predicate"
          /\ pc' = "predicate caught" => case' = case - 1
          /\ pc' = "threw" /\ stored' => ~(case > 1)
      <4>1. pc = "predicate caught"
        BY <2>2 DEF HandlePredicate
      <4>2. kind = "exception" /\ role = "predicate"
        BY <1>2, <4>1 DEF Telling, StartPredicate, ReportPredicate,
         ReportPredicateFailure, SkipCase, ReportCase, HandleCase, SelectCase, StartCase
      <4>. QED
        BY <2>2, <4>1, <4>2 DEF HandlePredicate
    <3>2. \A k \in Cases : k >= case => Through(k)'
      <4>. SUFFICES ASSUME NEW k \in Cases, k >= case PROVE Through(k)'
        OBVIOUS
      <4>1. CASE k = case
        BY <2>1, <3>1, <4>1
      <4>2. CASE k # case
        <5>1. k > case
          BY <1>0, <4>2
        <5>2. Through(k)
          BY <3>1, <5>1 DEF Passed
        <5>. QED
          BY <2>1, <3>1, <4>2, <5>2
      <4>. QED
        BY <4>1, <4>2
    <3>3. /\ pc' = "predicate caught" => \A k \in Cases : k > case' => k >= case
          /\ pc' = "threw" /\ stored' => \A k \in Cases : k >= case
      <4>1. \A k \in Cases : /\ \A c : c = case - 1 /\ k > c => k >= case
                             /\ ~(case > 1) => k >= case
        BY <1>0
      <4>. QED
        BY <3>1, <4>1
    <3>. HIDE DEF Through
    <3>. QED
      BY <1>b, <3>2, <3>3
  <2>3. CASE ~HandlePredicate
    <3>1. /\ pc \in Going \cup {"stage caught"}
          /\ pc' = "predicate caught" => case' = case
          /\ ~(pc' = "threw" /\ stored')
      <4>1. pc \in {"ask", "answered", "declined", "select", "skip", "begin", "ran", "failed",
                    "stage caught"}
        BY <1>2, <2>3 DEF Telling, StartPredicate, ReportPredicate,
           ReportPredicateFailure, SkipCase, ReportCase, HandleCase, SelectCase, StartCase
      <4>2. pc' = "predicate caught" => case' = case
        BY <1>2, <4>1, Effects
      <4>3. pc' = "threw" => Around = "threw"
        BY <1>2, <2>3 DEF Telling, Call, StartPredicate, ReportPredicate,
           ReportPredicateFailure, SkipCase, ReportCase, HandleCase, SelectCase, StartCase
      <4>4. (Around = "threw" => ~stored) /\ stored' = stored
        BY <1>2, Effects DEF Around
      <4>. QED
        BY <4>1, <4>2, <4>3, <4>4 DEF Going, Asking
    <3>2. \A k \in Cases : k > case => Through(k)'
      <4>1. \A k \in Cases : k > case => k # case
        BY <1>0
      <4>. QED
        BY <1>a, <2>1, <3>1, <4>1
    <3>. HIDE DEF Through
    <3>. QED
      BY <1>b, <3>1, <3>2
  <2>. QED
    BY <2>2, <2>3
<1>. QED
  BY <1>1, <1>2, Steps

(* With an observer that throws at most when a child starts, there is no   *)
(* second verdict.                                                         *)
LEMMA OneEachStep ==
  ASSUME Instance, TypeOK, Heard, OneEach, OneVerdictPerChild, [Next]_vars
  PROVE  (OneEach /\ OneVerdictPerChild)'
<1>. DEFINE One == \A k \in Cases : \A role \in Roles : \A v, w \in Verdicts :
                     Reports(k, v, role) /\ Reports(k, w, role) => v = w
<1>. SUFFICES ASSUME broke' \subseteq {"start"}
              PROVE  /\ One'
                     /\ pc' = "predicate caught" => \A k : k = case' => Undecided(k, "predicate")'
                     /\ pc' = "stage caught" => \A k : k = case' => Undecided(k, "stage")'
  BY DEF OneEach, OneVerdictPerChild, Undecided, Verdicts, Reports
<1>1. CASE Silently
  <2>1. \A k, m, r : Reports(k, m, r)' <=> Reports(k, m, r)
    BY <1>1, NotReporting DEF Silently
  <2>2. /\ broke' = broke /\ case' = case
        /\ \/ pc' = pc
           \/ pc \in Asking /\ pc' # "stage caught"
           \/ pc \in Going /\ pc' # "predicate caught"
    BY <1>1 DEF Silently, EvaluatePredicate, RunCase, vars, Going, Asking
  <2>3. One
    BY <2>2 DEF OneVerdictPerChild, Verdicts
  <2>4. /\ pc' = "predicate caught" => Undecided(case, "predicate")
        /\ pc' = "stage caught" => Undecided(case, "stage")
    BY <2>2 DEF OneEach, Heard, Asking, Going
  <2>. QED
    BY <2>1, <2>2, <2>3, <2>4 DEF Undecided
<1>2. ASSUME NEW kind \in Callbacks, NEW role \in Roles, Telling(kind, role)
      PROVE  /\ One'
             /\ pc' = "predicate caught" => \A k : k = case' => Undecided(k, "predicate")'
             /\ pc' = "stage caught" => \A k : k = case' => Undecided(k, "stage")'
  <2>1. \A k, m, r :
           Reports(k, m, r)' <=> Reports(k, m, r) \/ (k = case /\ m = kind /\ r = role)
    BY <1>2, Reporting DEF Telling
  <2>2. broke \subseteq {"start"}
    BY <1>2, Effects
  <2>3. One
    BY <2>2 DEF OneVerdictPerChild, Verdicts
  <2>4. CASE kind \in Verdicts
    <3>1. Undecided(case, role)
      <4>1. \/ pc \in Asking /\ role = "predicate"
            \/ pc \in Going /\ role = "stage"
            \/ pc = "stage caught" /\ role = "stage"
            \/ pc = "predicate caught" /\ role = "predicate"
        BY <1>2, <2>4 DEF Telling, Going, Asking, Verdicts, StartPredicate, ReportPredicate,
           ReportPredicateFailure, SkipCase, ReportCase, HandleCase, SelectCase, StartCase,
           HandlePredicate
      <4>. QED
        BY <2>2, <4>1 DEF OneEach, Heard
    <3>2. pc' \notin {"predicate caught", "stage caught"}
      <4>1. kind # "start" /\ kind \notin broke'
        BY <2>4 DEF Verdicts
      <4>. QED
        BY <1>2, <4>1 DEF Telling, Call, Around, Breaks, StartPredicate, ReportPredicate,
           ReportPredicateFailure, SkipCase, ReportCase, HandleCase, SelectCase, StartCase,
           HandlePredicate
    <3>3. One'
      BY <2>1, <2>3, <3>1 DEF Undecided
    <3>. QED
      BY <3>2, <3>3
  <2>5. CASE kind \notin Verdicts
    <3>1. \A v \in Verdicts : \A k, r : Reports(k, v, r)' <=> Reports(k, v, r)
      BY <2>1, <2>5
    <3>2. One'
      BY <2>3, <3>1
    <3>3. /\ pc' = "predicate caught" => pc = "ask" /\ case' = case
          /\ pc' = "stage caught" => pc = "begin" /\ case' = case
      BY <1>2, <2>5 DEF Telling, Call, Around, Breaks, Verdicts, StartPredicate, ReportPredicate,
         ReportPredicateFailure, SkipCase, ReportCase, HandleCase, SelectCase, StartCase,
         HandlePredicate
    <3>4. /\ pc' = "predicate caught" => Undecided(case, "predicate")
          /\ pc' = "stage caught" => Undecided(case, "stage")
      BY <3>3 DEF Heard, Asking, Going
    <3>5. \A k, r : Undecided(k, r) => Undecided(k, r)'
      BY <3>1 DEF Undecided
    <3>. QED
      BY <3>2, <3>3, <3>4, <3>5
  <2>. QED
    BY <2>4, <2>5
<1>. QED
  BY <1>1, <1>2, Steps

-----------------------------------------------------------------------------
(* Nothing has been reported, said or given when the branch starts.        *)
LEMMA Initial ==
  ASSUME Instance, Init
  PROVE  IInv
<1>1. events \in Seq(Event) /\ DOMAIN events = {} /\ NumCases \in Nat \ {0} /\ 1 \in Cases
  BY EmptySeq DEF Init, Instance, Cases
<1>2. TypeOK
  BY <1>1 DEF Init, TypeOK, Event, NoError
<1>3. \A k, m, r : ~Reports(k, m, r)
  BY <1>1 DEF Reports
<1>4. Heard /\ OneEach /\ OneVerdictPerChild
  BY <1>3 DEF Heard, OneEach, OneVerdictPerChild, Undecided, Silent
<1>5. Route
  BY <1>1 DEF Init, Route, Going, Asking, Cases
<1>6. EventsTellRoute
  BY <1>3 DEF Init, EventsTellRoute
<1>7. Errors /\ Passed /\ AnswerMatchesLastEvent /\ EscapesThroughEveryFrame /\ BranchContained
  BY DEF Init, Errors, Passed, AnswerMatchesLastEvent, EscapesThroughEveryFrame, BranchContained
<1>. QED
  BY <1>2, <1>4, <1>5, <1>6, <1>7 DEF IInv

(* The invariant is inductive.                                             *)
LEMMA Inductive ==
  ASSUME IInv, [Next]_vars
  PROVE  IInv'
<1>1. Instance'
  BY DEF IInv, Instance
<1>. QED
  BY <1>1, TypesStep, HeardStep, RouteStep, AnswerStep, PassedStep, OneEachStep DEF IInv

(* Every step of the branch is one of FirstMatch or changes nothing there. *)
LEMMA StepsImplement ==
  ASSUME IInv, [Next]_vars
  PROVE  [Promise!Next]_(Promise!vars)
<1>. USE DEF Promise!Next, Promise!vars, IInv
<1>0. case \in Cases /\ worked \in BOOLEAN
  BY DEF TypeOK
<1>1. CASE EvaluatePredicate
  <2>1. pc = "evaluate" /\ UNCHANGED <<case, given, worked>> /\ pc' \notin {"returned", "threw"}
    BY <1>1 DEF EvaluatePredicate
  <2>2. CASE said' # said
    <3>1. \E word \in {"no", "yes"} : said' = [said EXCEPT ![case] = word]
      BY <1>1, <2>2 DEF EvaluatePredicate
    <3>2. said[case] = "nothing" /\ given = 0 /\ \A j \in Cases : j < case => said[j] = "no"
      <4>1. \A j \in Cases : j < case => Skipped(j)
        BY <2>1 DEF Route, Going, Asking
      <4>2. \A j \in Cases : Skipped(j) => said[j] = "no"
        BY DEF EventsTellRoute, Skipped
      <4>. QED
        BY <2>1, <4>1, <4>2 DEF Route, Asking
    <3>3. Promise!Ask(case)
      BY <2>1, <3>1, <3>2 DEF Promise!Ask
    <3>. QED
      BY <1>0, <3>3
  <2>3. CASE said' = said
    BY <2>1, <2>3
  <2>. QED
    BY <2>2, <2>3
<1>2. CASE RunCase
  <2>1. pc = "run" /\ given' = case /\ said' = said /\ pc' \notin {"returned", "threw"}
        /\ worked' \in BOOLEAN
    BY <1>0, <1>2 DEF RunCase
  <2>2. Promise!Give(case)
    BY <2>1 DEF Promise!Give, Route
  <2>. QED
    BY <1>0, <2>2
<1>3. CASE UNCHANGED vars
  BY <1>3 DEF vars
<1>4. ASSUME NEW kind \in Callbacks, NEW role \in Roles, Telling(kind, role)
      PROVE  [Promise!Next]_(Promise!vars)
  <2>1. UNCHANGED <<said, given, worked>> /\ pc \notin {"returned", "threw"}
    BY <1>4, Effects DEF Telling, StartPredicate, ReportPredicate,
       ReportPredicateFailure, SkipCase, ReportCase, HandleCase, SelectCase, StartCase,
       HandlePredicate
  <2>2. CASE pc' \notin {"returned", "threw"}
    BY <2>1, <2>2
  <2>3. CASE pc' = "threw"
    BY <2>1, <2>3 DEF Promise!Answer
  <2>4. CASE pc' = "returned"
    <3>1. \/ pc = "ran" /\ error' = error
          \/ error' # NoError /\ error'.role # "branch"
          \/ error' # NoError /\ pc = "skip" /\ case = NumCases
      <4>1. \/ pc = "ran" /\ error' = error
            \/ pc = "failed" /\ error' = error
            \/ pc = "declined" /\ error' = error
            \/ pc = "skip" /\ case = NumCases /\ error' = Named("branch", "unmatched")
            \/ error' = Named(role, "exception")
        BY <1>4, <2>4 DEF Telling, Call, Around, StartPredicate, ReportPredicate,
           ReportPredicateFailure, SkipCase, ReportCase, HandleCase, HandlePredicate,
           SelectCase, StartCase
      <4>. QED
        BY <4>1 DEF Errors, Named, NoError, Roles
    <3>2. pc = "ran" => worked /\ error = NoError
      BY DEF Route, Errors, Going
    <3>3. pc = "skip" /\ case = NumCases => \A k \in Cases : said[k] = "no"
      <4>1. pc = "skip" => /\ \A j \in Cases : j < case => Skipped(j)
                           /\ said[case] = "no"
        BY DEF Route, Going
      <4>2. \A j \in Cases : Skipped(j) => said[j] = "no"
        BY DEF EventsTellRoute, Skipped
      <4>3. case = NumCases => \A j \in Cases : j < case \/ j = case
        BY DEF Cases, Instance
      <4>. QED
        BY <4>1, <4>2, <4>3
    <3>4. Promise!Answer
      BY <2>1, <2>4, <3>1, <3>2, <3>3 DEF Promise!Answer
    <3>. QED
      BY <3>4
  <2>. QED
    BY <2>2, <2>3, <2>4
<1>. QED
  BY <1>1, <1>2, <1>3, <1>4, Steps DEF Silently

(* The invariant holds in every reachable state of either form.            *)
THEOREM Invariance == Instance /\ Spec => []IInv
<1>1. Instance /\ Init => IInv
  BY Initial
<1>2. IInv /\ [Next]_vars => IInv'
  BY Inductive
<1>. QED
  BY <1>1, <1>2, PTL DEF Spec

(* Both forms of the branch implement FirstMatch (ImplementsFirstMatch),   *)
(* for any number of cases and whatever the observer throws: the first     *)
(* match runs, once, and no predicate sees an input that was given away.   *)
THEOREM Implements == Instance /\ Spec => ImplementsFirstMatch
<1>1. Init => Promise!Init
  BY DEF Init, Promise!Init
<1>2. IInv /\ [Next]_vars => [Promise!Next]_(Promise!vars)
  BY StepsImplement
<1>. QED
  BY <1>1, <1>2, Invariance, PTL DEF Spec, ImplementsFirstMatch, Promise!Spec
=============================================================================
