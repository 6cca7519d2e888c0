---------------------- MODULE SequentialPipelineProofs ----------------------
(* Theorems about SequentialEngine and SequentialPipeline, for chains of   *)
(* any length, each recursion of the engine, branches of any number of     *)
(* cases, and whatever the observer or a copy throws.                      *)
EXTENDS SequentialPipeline, SequenceTheorems, TLAPS

(***************************************************************************)
(* The chain of stages by itself.                                          *)
(***************************************************************************)
Event == [kind : Callbacks, stage : Stages]

(* Event e may come after event d.                                         *)
Follows(d, e) ==
  \/ /\ d.stage = e.stage
     /\ \/ d.kind = "start" /\ e.kind # "start"
        \/ d.kind # "exception" /\ e.kind = "exception"
  \/ /\ d.stage < e.stage
     /\ d.kind \in {"start", "success"}
     /\ Reports(d.stage, "success")
  \/ d.stage > e.stage /\ e.kind = "exception"

(* An event of a stage that has been left for the next one.                *)
Left(d) ==
  d.stage < stage /\ d.kind \in {"start", "success"} /\ Reports(d.stage, "success")

(* What has been reported when the run is at some place of some frame.     *)
Rung(d) ==
  /\ pc = "start" => Left(d)
  /\ pc \in {"invoke", "succeeded", "failed"} =>
       Left(d) \/ (d.kind = "start" /\ d.stage = stage)
  /\ pc = "caught" =>
       Left(d) \/ (d.stage = stage /\ d.kind # "exception") \/ d.stage > stage
Ladder == \A i \in DOMAIN events : Rung(events[i])

(* The error, and who is to blame, while the run goes on.                  *)
Errors ==
  /\ pc \in {"start", "invoke", "succeeded"} => error = NoError /\ culprit = 0
  /\ pc = "failed" => /\ error.category = "returned"
                      /\ error.stage \in {stage, Elsewhere}
                      /\ culprit = stage
  /\ pc = "caught" /\ mode = "convert" => "exception" \in broke \/ culprit = stage

(* The frames an exception has passed have reported it.                    *)
Passed ==
  pc = "caught" =>
    \A k \in Stages : k > stage /\ Reports(k, "start") => Reports(k, "exception")

(* Where the one verdict on the stage at hand stands.                      *)
Verdict ==
  mode # "rethrow" /\ broke \subseteq {"start"} =>
    OneVerdict /\ (pc = "caught" => ~Reports(stage, "success"))

IInv ==
  /\ TypeOK /\ Ladder /\ Errors /\ Passed /\ Verdict
  /\ EventsNest /\ AnswerMatchesLastEvent /\ EscapesThroughEveryFrame
  /\ ErrorNamesCulprit /\ TryRunContained

-----------------------------------------------------------------------------
(* The history consists of events.                                         *)
LEMMA EventsTyped ==
  ASSUME TypeOK
  PROVE  /\ DOMAIN events = 1 .. Len(events) /\ Len(events) \in Nat
         /\ \A i \in DOMAIN events : events[i] \in Event
<1>1. events \in Seq(Event)
  BY DEF TypeOK, Event
<1>. QED
  BY <1>1, ElementOfSeq, LenProperties

(* What a callback adds to the history.                                    *)
LEMMA Notified ==
  ASSUME TypeOK, NEW kind \in Callbacks, Notify(kind)
  PROVE  /\ events' \in Seq(Event)
         /\ DOMAIN events = 1 .. Len(events) /\ Len(events) \in Nat
         /\ DOMAIN events' = 1 .. Len(events) + 1 /\ Len(events') = Len(events) + 1
         /\ \A i \in DOMAIN events : i \in DOMAIN events' /\ events'[i] = events[i]
         /\ Len(events') \in DOMAIN events'
         /\ events'[Len(events')] = [kind |-> kind, stage |-> stage]
         /\ \A i \in DOMAIN events' : i \in DOMAIN events \/ i = Len(events')
<1>1. events \in Seq(Event) /\ stage \in Stages
  BY DEF TypeOK, Event
<1>2. [kind |-> kind, stage |-> stage] \in Event
  BY <1>1 DEF Event
<1>. DEFINE e == [kind |-> kind, stage |-> stage]
<1>3. events' = Append(events, e)
  BY DEF Notify
<1>. HIDE DEF e
<1>4. /\ Append(events, e) \in Seq(Event) /\ Len(Append(events, e)) = Len(events) + 1
      /\ \A i \in 1 .. Len(events) : Append(events, e)[i] = events[i]
      /\ Append(events, e)[Len(events) + 1] = e
  BY <1>1, <1>2, AppendProperties DEF e
<1>5. Len(events) \in Nat
  BY <1>1, LenProperties
<1>. QED
  BY <1>1, <1>3, <1>4, <1>5 DEF e

(* What has been reported stays reported, and the callback is.             *)
LEMMA Reporting ==
  ASSUME TypeOK, NEW kind \in Callbacks, Notify(kind)
  PROVE  \A k, m : Reports(k, m)' <=> Reports(k, m) \/ (k = stage /\ m = kind)
<1>1. \A k, m : Reports(k, m)' => Reports(k, m) \/ (k = stage /\ m = kind)
  <2>. SUFFICES ASSUME NEW k, NEW m, NEW i \in DOMAIN events',
                       events'[i] = [kind |-> m, stage |-> k]
                PROVE  Reports(k, m) \/ (k = stage /\ m = kind)
    BY DEF Reports
  <2>1. CASE i \in DOMAIN events
    BY <2>1, Notified DEF Reports
  <2>2. CASE i = Len(events')
    <3>1. [kind |-> m, stage |-> k] = [kind |-> kind, stage |-> stage]
      BY <2>2, Notified
    <3>2. m = kind /\ k = stage
      BY <3>1
    <3>. QED
      BY <3>2
  <2>. QED
    BY <2>1, <2>2, Notified
<1>2. \A k, m : Reports(k, m) => Reports(k, m)'
  <2>. SUFFICES ASSUME NEW k, NEW m, NEW i \in DOMAIN events,
                       events[i] = [kind |-> m, stage |-> k]
                PROVE  Reports(k, m)'
    BY DEF Reports
  <2>1. i \in DOMAIN events' /\ events'[i] = [kind |-> m, stage |-> k]
    BY Notified
  <2>. QED
    BY <2>1 DEF Reports
<1>3. \A k, m : k = stage /\ m = kind => Reports(k, m)'
  BY Notified DEF Reports
<1>. QED
  BY <1>1, <1>2, <1>3

(* The history nests if the new event may follow every earlier one.        *)
LEMMA Nesting ==
  ASSUME TypeOK, EventsNest, NEW kind \in Callbacks, Notify(kind),
         \A i \in DOMAIN events : Follows(events[i], [kind |-> kind, stage |-> stage])
  PROVE  EventsNest'
<1>1. \A k, m : Reports(k, m) => Reports(k, m)'
  BY Reporting
<1>2. \A i, j \in DOMAIN events : i < j => Follows(events[i], events[j])
  BY DEF EventsNest, Follows
<1>3. \A d, e : Follows(d, e) => Follows(d, e)'
  <2>. SUFFICES ASSUME NEW d, NEW e, Follows(d, e) PROVE Follows(d, e)'
    OBVIOUS
  <2>1. Reports(d.stage, "success") => Reports(d.stage, "success")'
    BY <1>1
  <2>. QED
    BY <2>1 DEF Follows
<1>4. \A i, j \in DOMAIN events' : i < j => Follows(events'[i], events'[j])
  <2>. SUFFICES ASSUME NEW i \in DOMAIN events', NEW j \in DOMAIN events', i < j
                PROVE  Follows(events'[i], events'[j])
    OBVIOUS
  <2>1. i \in DOMAIN events
    BY Notified
  <2>2. CASE j \in DOMAIN events
    BY <1>2, <2>1, <2>2, Notified
  <2>3. CASE j = Len(events')
    BY <2>1, <2>3, Notified
  <2>. QED
    BY <2>2, <2>3, Notified
<1>5. \A d, e : Follows(d, e)' <=>
        \/ /\ d.stage = e.stage
           /\ \/ d.kind = "start" /\ e.kind # "start"
              \/ d.kind # "exception" /\ e.kind = "exception"
        \/ /\ d.stage < e.stage
           /\ d.kind \in {"start", "success"}
           /\ Reports(d.stage, "success")'
        \/ d.stage > e.stage /\ e.kind = "exception"
  BY DEF Follows
<1>6. \A d, e : Follows(d, e) =>
        \/ /\ d.stage = e.stage
           /\ \/ d.kind = "start" /\ e.kind # "start"
              \/ d.kind # "exception" /\ e.kind = "exception"
        \/ /\ d.stage < e.stage
           /\ d.kind \in {"start", "success"}
           /\ Reports(d.stage, "success")'
        \/ d.stage > e.stage /\ e.kind = "exception"
  BY <1>3, <1>5
<1>. QED
  BY <1>4, <1>6 DEF EventsNest, Reports

-----------------------------------------------------------------------------
(* No step leaves the types.                                               *)
LEMMA TypesStep ==
  ASSUME TypeOK, [Next]_vars
  PROVE  TypeOK'
<1>. USE DEF Stages, Callbacks, Unnamed, Elsewhere, Blame, Raise, Unwind, Breaks
<1>0. NumStages \in Nat \ {0}
  BY EngineAssumption
<1>1. ASSUME NEW kind \in Callbacks, Notify(kind)
      PROVE  events' \in Seq([kind : Callbacks, stage : Stages])
  BY <1>1, Notified DEF Event
<1>2. CASE StartStage
  BY <1>0, <1>1, <1>2 DEF StartStage, TypeOK
<1>3. CASE InvokeStage
  <2>1. mode' = mode /\ UNCHANGED <<stage, events, broke>>
    BY <1>3 DEF InvokeStage
  <2>2. error' \in [stage : Stages \union {Unnamed, Elsewhere},
                    category : {"none", "returned", "exception"}]
    <3>1. ASSUME NEW named \in {Unnamed, Elsewhere},
                 error' = Annotate([stage |-> named, category |-> "returned"])
          PROVE  error' \in [stage : Stages \union {Unnamed, Elsewhere},
                             category : {"none", "returned", "exception"}]
      BY <1>0, <3>1 DEF Annotate, TypeOK
    <3>. QED
      BY <1>3, <3>1 DEF InvokeStage, TypeOK
  <2>. QED
    BY <1>0, <1>3, <2>1, <2>2 DEF InvokeStage, TypeOK
<1>4. CASE ReportSuccess
  <2>1. events' \in Seq([kind : Callbacks, stage : Stages])
    BY <1>1, <1>4 DEF ReportSuccess
  <2>2. /\ mode' = mode /\ error' = error
        /\ pc' \in {"start", "returned", "caught", "threw"}
        /\ stage' = stage \/ (stage < NumStages /\ stage' = stage + 1)
        /\ broke' = broke \/ broke' = broke \union {"success"}
        /\ culprit' = culprit \/ culprit' = stage
    BY <1>4 DEF ReportSuccess
  <2>3. stage' \in Stages /\ broke' \subseteq Callbacks /\ culprit' \in Stages \union {0}
    <3>1. stage' \in Stages
      BY <1>0, <2>2 DEF TypeOK
    <3>2. culprit' \in Stages \union {0}
      BY <2>2 DEF TypeOK
    <3>3. "success" \in Callbacks
      OBVIOUS
    <3>4. broke' \subseteq Callbacks
      BY <2>2, <3>3, Zenon DEF TypeOK
    <3>. QED
      BY <3>1, <3>2, <3>4
  <2>. HIDE DEF Stages, Callbacks, Unnamed, Elsewhere
  <2>. QED
    BY <2>1, <2>2, <2>3 DEF TypeOK
<1>5. CASE ReportFailure
  BY <1>0, <1>1, <1>5 DEF ReportFailure, TypeOK
<1>6. CASE HandleException
  <2>1. events' \in Seq([kind : Callbacks, stage : Stages])
    BY <1>1, <1>6 DEF HandleException
  <2>2. /\ mode' = mode /\ culprit' = culprit
        /\ error' = error \/ error' = [stage |-> stage, category |-> "exception"]
        /\ pc' \in {"returned", "caught", "threw"}
        /\ stage' = stage \/ (stage > 1 /\ stage' = stage - 1)
        /\ broke' = broke \/ broke' = broke \union {"exception"}
    BY <1>6 DEF HandleException
  <2>3. error' \in [stage : Stages \union {Unnamed, Elsewhere},
                    category : {"none", "returned", "exception"}]
    BY <2>2 DEF TypeOK
  <2>4. stage' \in Stages /\ broke' \subseteq Callbacks
    <3>1. stage' \in Stages
      BY <1>0, <2>2 DEF TypeOK
    <3>2. "exception" \in Callbacks
      OBVIOUS
    <3>3. broke' \subseteq Callbacks
      BY <2>2, <3>2, Zenon DEF TypeOK
    <3>. QED
      BY <3>1, <3>3
  <2>. HIDE DEF Stages, Callbacks, Unnamed, Elsewhere
  <2>. QED
    BY <2>1, <2>2, <2>3, <2>4 DEF TypeOK
<1>7. CASE UNCHANGED vars
  BY <1>7 DEF vars, TypeOK
<1>. QED
  BY <1>2, <1>3, <1>4, <1>5, <1>6, <1>7 DEF Next, Terminated

(* Every callback may follow those before it.                              *)
LEMMA EventsNestStep ==
  ASSUME TypeOK, Ladder, EventsNest, [Next]_vars
  PROVE  EventsNest'
<1>0. \A i \in DOMAIN events : events[i] \in Event
  BY EventsTyped
<1>1. CASE StartStage
  <2>1. \A i \in DOMAIN events : Follows(events[i], [kind |-> "start", stage |-> stage])
    BY <1>1 DEF StartStage, Ladder, Rung, Left, Follows
  <2>. QED
    BY <1>1, <2>1, Nesting DEF StartStage, Callbacks
<1>2. CASE ReportSuccess
  <2>1. \A i \in DOMAIN events : Follows(events[i], [kind |-> "success", stage |-> stage])
    BY <1>2 DEF ReportSuccess, Ladder, Rung, Left, Follows
  <2>. QED
    BY <1>2, <2>1, Nesting DEF ReportSuccess, Callbacks
<1>3. CASE ReportFailure
  <2>1. \A i \in DOMAIN events : Follows(events[i], [kind |-> "failure", stage |-> stage])
    BY <1>3 DEF ReportFailure, Ladder, Rung, Left, Follows
  <2>. QED
    BY <1>3, <2>1, Nesting DEF ReportFailure, Callbacks
<1>4. CASE HandleException
  <2>1. \A i \in DOMAIN events : Follows(events[i], [kind |-> "exception", stage |-> stage])
    BY <1>4 DEF HandleException, Ladder, Rung, Left, Follows
  <2>. QED
    BY <1>4, <2>1, Nesting DEF HandleException, Callbacks
<1>5. CASE InvokeStage \/ UNCHANGED vars
  BY <1>5 DEF InvokeStage, vars, EventsNest, Reports
<1>. QED
  BY <1>1, <1>2, <1>3, <1>4, <1>5 DEF Next, Terminated

(* The frames are entered and left one by one.                             *)
LEMMA LadderStep ==
  ASSUME TypeOK, Ladder, [Next]_vars
  PROVE  Ladder'
<1>0. /\ \A i \in DOMAIN events : events[i] \in Event
      /\ stage \in Nat /\ NumStages \in Nat
  BY EventsTyped, EngineAssumption DEF TypeOK, Stages
<1>a. \A i \in DOMAIN events : events[i].stage \in Nat
  BY <1>0 DEF Event, Stages
<1>b. ASSUME NEW kind \in Callbacks, Notify(kind), stage' \in Nat, stage <= stage', NEW d,
             d.stage \in Nat, Left(d)
      PROVE  Left(d)'
  <2>1. Reports(d.stage, "success") => Reports(d.stage, "success")'
    BY <1>b, Reporting
  <2>. QED
    BY <1>0, <1>b, <2>1 DEF Left
<1>c. ASSUME NEW kind \in Callbacks, Notify(kind),
             \A i \in DOMAIN events : \A d : d = events[i] => Rung(d)',
             \A d : d = [kind |-> kind, stage |-> stage] => Rung(d)'
      PROVE  Ladder'
  <2>. SUFFICES ASSUME NEW i \in DOMAIN events' PROVE Rung(events[i])'
    BY DEF Ladder
  <2>1. \A d : d = events'[i] => Rung(d)'
    BY <1>c, Notified
  <2>. QED
    BY <2>1 DEF Rung, Left, Reports
<1>1. CASE StartStage
  <2>1. Notify("start") /\ stage' = stage /\ pc = "start" /\ pc' \in {"invoke", "caught"}
    BY <1>1 DEF StartStage, Raise
  <2>2. \A i \in DOMAIN events : Left(events[i])
    BY <2>1 DEF Ladder, Rung
  <2>3. \A i \in DOMAIN events : \A d : d = events[i] => Rung(d)'
    BY <1>0, <1>a, <1>b, <2>1, <2>2 DEF Rung, Callbacks
  <2>4. \A d : d = [kind |-> "start", stage |-> stage] => Rung(d)'
    BY <2>1 DEF Rung
  <2>. QED
    BY <1>c, <2>1, <2>3, <2>4 DEF Callbacks
<1>2. CASE ReportSuccess
  <2>1. /\ Notify("success") /\ pc = "succeeded"
        /\ \/ pc' = "start" /\ stage' = stage + 1
           \/ pc' \in {"returned", "caught", "threw"} /\ stage' = stage
    BY <1>2 DEF ReportSuccess, Raise
  <2>2. \A k : k = stage => Reports(k, "success")'
    BY <2>1, Reporting DEF Callbacks
  <2>3. \A d : d.stage = stage /\ d.kind \in {"start", "success"} => Rung(d)'
    <3>1. ASSUME NEW d, d.stage = stage PROVE Reports(d.stage, "success")'
      BY <3>1, <2>2
    <3>. QED
      BY <1>0, <2>1, <3>1 DEF Rung, Left
  <2>4. \A i \in DOMAIN events : Left(events[i]) \/ (events[i].kind = "start" /\ events[i].stage = stage)
    BY <2>1 DEF Ladder, Rung
  <2>5. \A i \in DOMAIN events : \A d : d = events[i] => Rung(d)'
    <3>1. \A i \in DOMAIN events : \A d : d = events[i] /\ Left(d) => Left(d)'
      BY <1>0, <1>a, <1>b, <2>1 DEF Callbacks
    <3>2. \A d : Left(d)' /\ pc' \in {"start", "returned", "caught", "threw"} => Rung(d)'
      BY DEF Rung
    <3>. QED
      BY <2>1, <2>3, <2>4, <3>1, <3>2
  <2>6. \A d : d = [kind |-> "success", stage |-> stage] => Rung(d)'
    BY <2>3
  <2>. QED
    BY <1>c, <2>1, <2>5, <2>6 DEF Callbacks
<1>3. CASE ReportFailure
  <2>1. /\ Notify("failure") /\ pc = "failed" /\ pc' \in {"returned", "caught"} /\ stage' = stage
    BY <1>3 DEF ReportFailure, Raise
  <2>2. \A i \in DOMAIN events : Left(events[i]) \/ (events[i].kind = "start" /\ events[i].stage = stage)
    BY <2>1 DEF Ladder, Rung
  <2>3. \A i \in DOMAIN events : \A d : d = events[i] => Rung(d)'
    <3>1. \A i \in DOMAIN events : \A d : d = events[i] /\ Left(d) => Left(d)'
      BY <1>0, <1>a, <1>b, <2>1 DEF Callbacks
    <3>. QED
      BY <2>1, <2>2, <3>1 DEF Rung
  <2>4. \A d : d = [kind |-> "failure", stage |-> stage] => Rung(d)'
    BY <2>1 DEF Rung
  <2>. QED
    BY <1>c, <2>1, <2>3, <2>4 DEF Callbacks
<1>4. CASE HandleException
  <2>1. /\ Notify("exception") /\ pc = "caught"
        /\ pc' \in {"returned", "threw"} \/ (pc' = "caught" /\ stage' = stage - 1)
    BY <1>4 DEF HandleException, Unwind
  <2>2. \A i \in DOMAIN events : \A d : d = events[i] => Rung(d)'
    <3>. SUFFICES ASSUME NEW i \in DOMAIN events, NEW d, d = events[i],
                         pc' = "caught", stage' = stage - 1
                  PROVE  Rung(d)'
      BY <2>1 DEF Rung
    <3>1. d.stage \in Nat /\ Rung(d)
      BY <1>a DEF Ladder
    <3>2. Reports(d.stage, "success") => Reports(d.stage, "success")'
      BY <2>1, Reporting DEF Callbacks
    <3>3. CASE Left(d)
      BY <1>0, <3>1, <3>2, <3>3 DEF Rung, Left
    <3>4. CASE ~Left(d)
      BY <1>0, <2>1, <3>1, <3>4 DEF Rung
    <3>. QED
      BY <3>3, <3>4
  <2>3. \A d : d = [kind |-> "exception", stage |-> stage] => Rung(d)'
    BY <1>0, <2>1 DEF Rung
  <2>. QED
    BY <1>c, <2>1, <2>2, <2>3 DEF Callbacks
<1>5. CASE InvokeStage \/ UNCHANGED vars
  <2>1. UNCHANGED <<stage, events>> /\ (pc' = pc \/ (pc = "invoke" /\ pc' \in {"succeeded", "failed", "caught"}))
    BY <1>5 DEF InvokeStage, Raise, vars
  <2>2. \A i \in DOMAIN events : Rung(events[i])
    BY DEF Ladder
  <2>. QED
    BY <2>1, <2>2 DEF Ladder, Rung, Left, Reports
<1>. QED
  BY <1>1, <1>2, <1>3, <1>4, <1>5 DEF Next, Terminated

(* An error is there, and somebody to blame, once something went wrong,    *)
(* and what is returned names the stage that is to blame; an exception     *)
(* leaves try_run only from on_stage_exception.                            *)
LEMMA ErrorsStep ==
  ASSUME TypeOK, Errors, AnswerMatchesLastEvent, ErrorNamesCulprit, TryRunContained,
         [Next]_vars
  PROVE  (Errors /\ AnswerMatchesLastEvent /\ ErrorNamesCulprit /\ TryRunContained)'
<1>. USE DEF Errors, AnswerMatchesLastEvent, ErrorNamesCulprit, TryRunContained
<1>0. stage \in Nat \ {0} /\ NumStages \in Nat /\ Elsewhere # NoError.stage
  BY EngineAssumption DEF TypeOK, Stages, Elsewhere, NoError, Unnamed
<1>1. CASE StartStage
  BY <1>0, <1>1 DEF StartStage, Raise, Blame
<1>2. CASE InvokeStage
  <2>1. CASE UNCHANGED error
    BY <1>0, <1>2, <2>1 DEF InvokeStage, Raise, Blame, Annotate
  <2>2. ASSUME NEW named \in {Unnamed, Elsewhere},
               error' = Annotate([stage |-> named, category |-> "returned"])
        PROVE  error'.category = "returned" /\ error'.stage \in {stage, Elsewhere}
    BY <1>0, <2>2 DEF Annotate, Unnamed, Elsewhere
  <2>3. CASE pc' = "failed"
    BY <1>0, <1>2, <2>2, <2>3 DEF InvokeStage, Blame, Raise
  <2>. QED
    BY <1>2, <2>1, <2>3 DEF InvokeStage, Raise
<1>3. CASE ReportSuccess
  <2>1. Notify("success") /\ pc = "succeeded" /\ error = NoError /\ UNCHANGED <<error, mode>>
    BY <1>3 DEF ReportSuccess, Raise
  <2>2. events'[Len(events')] = [kind |-> "success", stage |-> stage]
    BY <2>1, Notified DEF Callbacks
  <2>3. pc' = "returned" => stage = NumStages
    BY <1>0, <1>3 DEF ReportSuccess, Raise, TypeOK, Stages
  <2>. QED
    BY <1>0, <1>3, <2>1, <2>2, <2>3 DEF ReportSuccess, Raise, Blame
<1>4. CASE ReportFailure
  <2>1. Notify("failure") /\ pc = "failed" /\ UNCHANGED <<error, stage, mode>>
    BY <1>4 DEF ReportFailure, Raise
  <2>2. events'[Len(events')] = [kind |-> "failure", stage |-> stage]
    BY <2>1, Notified DEF Callbacks
  <2>. QED
    BY <1>0, <1>4, <2>1, <2>2 DEF ReportFailure, Raise, Blame
<1>5. CASE HandleException
  <2>1. Notify("exception") /\ pc = "caught" /\ mode' = mode /\ culprit' = culprit
    BY <1>5 DEF HandleException, Unwind
  <2>2. events'[Len(events')] = [kind |-> "exception", stage |-> stage]
    BY <2>1, Notified DEF Callbacks
  <2>3. CASE pc' = "returned"
    BY <1>5, <2>1, <2>2, <2>3 DEF HandleException, Unwind
  <2>4. CASE pc' # "returned"
    BY <1>5, <2>1, <2>4 DEF HandleException, Unwind, Breaks
  <2>. QED
    BY <2>3, <2>4
<1>6. CASE UNCHANGED vars
  BY <1>6 DEF vars
<1>. QED
  BY <1>1, <1>2, <1>3, <1>4, <1>5, <1>6 DEF Next, Terminated

(* A frame is left by an exception when it has reported it.                *)
LEMMA PassedStep ==
  ASSUME TypeOK, Ladder, Passed, EscapesThroughEveryFrame, [Next]_vars
  PROVE  (Passed /\ EscapesThroughEveryFrame)'
<1>0. stage \in Nat \ {0} /\ NumStages \in Nat
  BY EngineAssumption DEF TypeOK, Stages
<1>1. CASE StartStage \/ InvokeStage \/ ReportSuccess \/ ReportFailure
  <2>1. \A k \in Stages : k > stage => ~Reports(k, "start")
    <3>. SUFFICES ASSUME NEW i \in DOMAIN events, NEW k \in Stages, k > stage
                  PROVE  events[i] # [kind |-> "start", stage |-> k]
      BY DEF Reports
    <3>1. Rung(events[i])
      BY DEF Ladder
    <3>2. ~(events[i].stage > stage)
      BY <1>0, <1>1, <3>1, EventsTyped DEF Rung, Left, StartStage, InvokeStage,
         ReportSuccess, ReportFailure, Event, Stages
    <3>. QED
      BY <3>2
  <2>2. \A k \in Stages : k > stage => ~Reports(k, "start")'
    <3>1. ASSUME NEW kind \in Callbacks, Notify(kind)
          PROVE  \A k \in Stages : k > stage => ~Reports(k, "start")'
      <4>1. \A k \in Stages : k > stage => k # stage
        BY <1>0 DEF Stages
      <4>. QED
        BY <2>1, <3>1, <4>1, Reporting
    <3>2. CASE UNCHANGED events
      BY <2>1, <3>2 DEF Reports
    <3>. QED
      BY <1>1, <3>1, <3>2 DEF StartStage, InvokeStage, ReportSuccess, ReportFailure, Callbacks
  <2>3. /\ pc' = "caught" => stage' = stage
        /\ pc' = "threw" => mode = "plain"
        /\ mode' = mode
    BY <1>1 DEF StartStage, InvokeStage, ReportSuccess, ReportFailure, Raise
  <2>4. Passed'
    <3>. SUFFICES ASSUME pc' = "caught" PROVE Passed'
      BY DEF Passed
    <3>. QED
      BY <2>2, <2>3 DEF Passed
  <2>. QED
    BY <2>3, <2>4 DEF EscapesThroughEveryFrame
<1>2. CASE HandleException
  <2>1. /\ Notify("exception") /\ pc = "caught" /\ mode' = mode
        /\ pc' = "caught" => stage' = stage - 1
        /\ pc' = "threw" /\ mode # "plain" => stage = 1
    BY <1>0, <1>2 DEF HandleException, Unwind
  <2>2. \A k \in Stages : k >= stage => (Reports(k, "start")' => Reports(k, "exception")')
    <3>. SUFFICES ASSUME NEW k \in Stages, k >= stage, Reports(k, "start")'
                  PROVE  Reports(k, "exception")'
      OBVIOUS
    <3>1. k = stage \/ k > stage
      BY <1>0 DEF Stages
    <3>2. CASE k = stage
      BY <2>1, <3>2, Reporting DEF Callbacks
    <3>3. CASE k > stage
      <4>1. Reports(k, "start")
        BY <2>1, Reporting DEF Callbacks
      <4>2. Reports(k, "exception")
        BY <2>1, <3>3, <4>1 DEF Passed
      <4>. QED
        BY <2>1, <4>2, Reporting DEF Callbacks
    <3>. QED
      BY <3>1, <3>2, <3>3
  <2>3. Passed'
    <3>1. pc' = "caught" => \A k \in Stages : k > stage' => k >= stage
      BY <1>0, <2>1 DEF Stages
    <3>. QED
      BY <2>2, <3>1 DEF Passed
  <2>4. EscapesThroughEveryFrame'
    <3>1. \A k \in Stages : k >= 1
      BY DEF Stages
    <3>. QED
      BY <2>1, <2>2, <3>1 DEF EscapesThroughEveryFrame
  <2>. QED
    BY <2>3, <2>4
<1>3. CASE UNCHANGED vars
  BY <1>3 DEF vars, Passed, EscapesThroughEveryFrame, Reports
<1>. QED
  BY <1>1, <1>2, <1>3 DEF Next, Terminated

(* With an observer that throws at most from on_stage_start, nothing is    *)
(* caught after a success or a failure has been reported.                  *)
LEMMA VerdictStep ==
  ASSUME TypeOK, Ladder, Verdict, [Next]_vars
  PROVE  Verdict'
<1>0. mode' = mode /\ broke \subseteq broke'
  BY DEF Next, StartStage, InvokeStage, ReportSuccess, ReportFailure, HandleException,
         Raise, Breaks, Terminated, vars
<1>. SUFFICES ASSUME mode # "rethrow", broke' \subseteq {"start"}
              PROVE  OneVerdict' /\ (pc' = "caught" => ~Reports(stage, "success")')
  BY <1>0 DEF Verdict
<1>1. OneVerdict /\ (pc = "caught" => ~Reports(stage, "success"))
  BY <1>0 DEF Verdict
<1>2. pc \in {"start", "invoke", "succeeded", "failed"} =>
        \A m : Reports(stage, m) => m = "start"
  <2>. SUFFICES ASSUME NEW i \in DOMAIN events, NEW m,
                       events[i] = [kind |-> m, stage |-> stage],
                       pc \in {"start", "invoke", "succeeded", "failed"}
                PROVE  m = "start"
    BY DEF Reports
  <2>1. Rung(events[i]) /\ stage \in Nat
    BY DEF Ladder, TypeOK, Stages
  <2>2. ~Left(events[i])
    BY <2>1 DEF Left
  <2>. QED
    BY <2>1, <2>2 DEF Rung
<1>3. CASE StartStage
  <2>1. Notify("start") /\ stage' = stage /\ pc = "start"
    BY <1>3 DEF StartStage, Raise
  <2>2. \A k, m : m # "start" => (Reports(k, m)' <=> Reports(k, m))
    BY <2>1, Reporting DEF Callbacks
  <2>3. ~Reports(stage, "success")'
    BY <1>2, <2>1, <2>2
  <2>. QED
    BY <1>1, <2>1, <2>2, <2>3 DEF OneVerdict
<1>4. CASE InvokeStage \/ UNCHANGED vars
  <2>1. UNCHANGED events /\ stage' = stage /\ (pc' = pc \/ pc = "invoke")
    BY <1>4 DEF InvokeStage, Raise, vars
  <2>. QED
    BY <1>1, <1>2, <2>1 DEF OneVerdict, Reports
<1>5. CASE ReportSuccess
  <2>1. Notify("success") /\ pc = "succeeded" /\ pc' # "caught"
    BY <1>5 DEF ReportSuccess, Raise, Breaks
  <2>2. \A k, m : m # "success" => (Reports(k, m)' <=> Reports(k, m))
    BY <2>1, Reporting DEF Callbacks
  <2>3. \A k : Reports(k, "success")' => Reports(k, "success") \/ k = stage
    BY <2>1, Reporting DEF Callbacks
  <2>. QED
    BY <1>1, <1>2, <2>1, <2>2, <2>3 DEF OneVerdict
<1>6. CASE ReportFailure
  <2>1. Notify("failure") /\ pc = "failed" /\ pc' # "caught"
    BY <1>6 DEF ReportFailure, Raise, Breaks
  <2>2. \A k, m : m # "failure" => (Reports(k, m)' <=> Reports(k, m))
    BY <2>1, Reporting DEF Callbacks
  <2>3. \A k : Reports(k, "failure")' => Reports(k, "failure") \/ k = stage
    BY <2>1, Reporting DEF Callbacks
  <2>. QED
    BY <1>1, <1>2, <2>1, <2>2, <2>3 DEF OneVerdict
<1>7. CASE HandleException
  <2>1. Notify("exception") /\ pc = "caught" /\ pc' # "caught"
    <3>1. mode \in {"convert", "rethrow", "plain"}
      BY EngineAssumption DEF TypeOK
    <3>. QED
      BY <1>7, <3>1 DEF HandleException, Unwind, Breaks
  <2>2. \A k, m : m # "exception" => (Reports(k, m)' <=> Reports(k, m))
    BY <2>1, Reporting DEF Callbacks
  <2>3. \A k : Reports(k, "exception")' => Reports(k, "exception") \/ k = stage
    BY <2>1, Reporting DEF Callbacks
  <2>. QED
    BY <1>1, <2>1, <2>2, <2>3 DEF OneVerdict
<1>. QED
  BY <1>3, <1>4, <1>5, <1>6, <1>7 DEF Next, Terminated

-----------------------------------------------------------------------------
(* Nothing has been reported when the run starts.                          *)
LEMMA Initial ==
  ASSUME Init
  PROVE  IInv
<1>1. events \in Seq(Event) /\ DOMAIN events = {}
  BY EmptySeq DEF Init
<1>2. TypeOK
  BY <1>1, EngineAssumption
  DEF Init, TypeOK, Event, NoError, Stages, Unnamed
<1>3. Ladder /\ EventsNest /\ OneVerdict
  BY <1>1 DEF Ladder, EventsNest, OneVerdict, Reports
<1>4. Errors /\ Passed /\ Verdict /\ AnswerMatchesLastEvent /\ EscapesThroughEveryFrame
        /\ ErrorNamesCulprit /\ TryRunContained
  BY <1>3 DEF Init, Errors, Passed, Verdict, AnswerMatchesLastEvent,
     EscapesThroughEveryFrame, ErrorNamesCulprit, TryRunContained
<1>. QED
  BY <1>2, <1>3, <1>4 DEF IInv

(* The invariant holds in every reachable state of every recursion.        *)
THEOREM Invariance == Spec => []IInv
<1>1. Init => IInv
  BY Initial
<1>2. IInv /\ [Next]_vars => IInv'
  BY TypesStep, EventsNestStep, LadderStep, ErrorsStep, PassedStep, VerdictStep DEF IInv
<1>. QED
  BY <1>1, <1>2, PTL DEF Spec

(* The callbacks of a run nest like its frames (EventsNest), in chains of  *)
(* any length.                                                             *)
THEOREM Nested == Spec => []EventsNest
<1>1. IInv => EventsNest
  BY DEF IInv
<1>. QED
  BY <1>1, Invariance, PTL

(* In a run of try_run the error names the stage that went wrong           *)
(* (ErrorNamesCulprit), unless the observer threw while an exception was   *)
(* reported.                                                               *)
THEOREM Named == Spec => []ErrorNamesCulprit
<1>1. IInv => ErrorNamesCulprit
  BY DEF IInv
<1>. QED
  BY <1>1, Invariance, PTL

-----------------------------------------------------------------------------
(***************************************************************************)
(* The chain with its branches opened.                                     *)
(***************************************************************************)
BranchProofs == INSTANCE SelectedBranchProofs WITH
  stored <- b_stored, pc <- b_pc, case <- b_case, error <- b_error,
  events <- b_events, broke <- b_broke, said <- b_said, given <- b_given,
  worked <- b_worked

FanProofs == INSTANCE SequentialFanInProofs WITH
  ObserverThrows <- Throwing # {},
  pc <- f_pc, next <- f_next, slot <- f_slot, tally <- f_tally,
  chosen <- f_chosen, rejected <- f_rejected, scheduled <- f_scheduled,
  finished <- f_finished, report <- f_report

(* Only the converting recursion runs a chain with branches.               *)
Shaped ==
  /\ mode \in Modes /\ stage \in Stages
  /\ shape \in [Stages -> Kinds]
  /\ mode # "convert" => shape = Plain

-----------------------------------------------------------------------------
(* The end of a branch is the end of a stage's invocation.                 *)
LEMMA BranchEnds ==
  ASSUME Shaped, EndBranch \/ EndFanIn
  PROVE  InvokeStage
<1>1. mode # "plain"
  BY DEF EndBranch, EndFanIn, Invoking, Shaped, Plain
<1>2. NumStages \in Nat
  BY EngineAssumption
<1>. USE DEF InvokeStage, Invoking
<1>3. CASE EndFanIn
  BY <1>3 DEF EndFanIn
<1>4. CASE EndBranch /\ pc' # "failed"
  BY <1>4 DEF EndBranch
<1>5. CASE EndBranch /\ pc' = "failed"
  <2>1. /\ Blame /\ UNCHANGED <<mode, stage, events, broke>> /\ pc = "invoke"
        /\ error' = [stage |-> IF b_error.role = "branch" THEN stage ELSE Elsewhere,
                     category |-> "returned"]
    BY <1>5 DEF EndBranch, Raise
  <2>2. \E named \in {Unnamed, Elsewhere} :
          error' = Annotate([stage |-> named, category |-> "returned"])
    <3>1. CASE b_error.role = "branch"
      <4>1. error' = Annotate([stage |-> Unnamed, category |-> "returned"])
        BY <2>1, <3>1 DEF Annotate
      <4>. QED
        BY <4>1
    <3>2. CASE b_error.role # "branch"
      <4>1. error' = Annotate([stage |-> Elsewhere, category |-> "returned"])
        BY <1>2, <2>1, <3>2 DEF Annotate, Elsewhere, Unnamed
      <4>. QED
        BY <4>1
    <3>. QED
      BY <3>1, <3>2
  <2>. QED
    BY <1>1, <1>5, <2>1, <2>2
<1>. QED
  BY <1>3, <1>4, <1>5

(* A branch's steps are steps of its own, and the rest of the chain's are  *)
(* the engine's.                                                           *)
LEMMA PipelineSteps ==
  ASSUME Shaped, [PipelineNext]_allvars
  PROVE  /\ [Next]_vars
         /\ Branch!Next \/ UNCHANGED b_vars
         /\ Fan!Next \/ UNCHANGED f_vars
<1>1. CASE FrameStep
  BY <1>1 DEF FrameStep, Next
<1>2. CASE InvokeSimple
  BY <1>2 DEF InvokeSimple, Next
<1>3. CASE BranchStep
  BY <1>3 DEF BranchStep
<1>4. CASE EndBranch
  BY <1>4, BranchEnds DEF EndBranch, Next
<1>5. CASE FanInStep
  BY <1>5 DEF FanInStep
<1>6. CASE EndFanIn
  BY <1>6, BranchEnds DEF EndFanIn, Next
<1>7. CASE UNCHANGED allvars
  BY <1>7 DEF allvars
<1>. QED
  BY <1>1, <1>2, <1>3, <1>4, <1>5, <1>6, <1>7 DEF PipelineNext

(* A chain begins with both of its branches unused.                        *)
LEMMA ShapedInitial ==
  ASSUME PipelineInit
  PROVE  Init /\ Branch!Init /\ Fan!Init /\ Shaped
<1>1. mode \in Modes /\ stage \in Stages
  BY EngineAssumption DEF PipelineInit, Init, Stages
<1>2. shape \in [Stages -> Kinds] /\ (mode # "convert" => shape = Plain)
  BY PipelineAssumption DEF PipelineInit, OneOfEach, Plain, Kinds
<1>. QED
  BY <1>1, <1>2 DEF PipelineInit, Shaped

(* The shape of a chain is fixed.                                          *)
LEMMA ShapedStep ==
  ASSUME Shaped, TypeOK', [PipelineNext]_allvars
  PROVE  Shaped'
<1>1. UNCHANGED <<shape, mode>>
  BY DEF PipelineNext, allvars, vars, FrameStep, InvokeSimple, BranchStep, EndBranch,
     FanInStep, EndFanIn, StartStage, ReportSuccess, ReportFailure, HandleException,
     InvokeStage
<1>. QED
  BY <1>1 DEF Shaped, TypeOK

(* To the engine a branch is one stage (BranchIsAStage): every behaviour   *)
(* of a chain with branches is one of SequentialEngine, so the invariant   *)
(* of the engine holds in it.                                              *)
THEOREM BranchesAreStages == PipelineSpec => BranchIsAStage /\ [](IInv /\ Shaped)
<1>1. PipelineInit => Init /\ IInv /\ Shaped
  BY ShapedInitial, Initial
<1>2. IInv /\ Shaped /\ [PipelineNext]_allvars => [Next]_vars /\ (IInv /\ Shaped)'
  <2>. SUFFICES ASSUME IInv, Shaped, [PipelineNext]_allvars
                PROVE  [Next]_vars /\ (IInv /\ Shaped)'
    OBVIOUS
  <2>1. [Next]_vars
    BY PipelineSteps
  <2>2. IInv'
    BY <2>1, TypesStep, EventsNestStep, LadderStep, ErrorsStep, PassedStep, VerdictStep
    DEF IInv
  <2>. QED
    BY <2>1, <2>2, ShapedStep DEF IInv
<1>. QED
  BY <1>1, <1>2, PTL DEF PipelineSpec, Spec, BranchIsAStage

-----------------------------------------------------------------------------
(* The invariants of the two branches.                                     *)
BranchInv == BranchProofs!IInv
FanInv == FanProofs!IInv

(* So their invariants hold before they run.                               *)
LEMMA BranchInitial ==
  ASSUME Branch!Init, Fan!Init
  PROVE  BranchInv /\ FanInv
<1>1. BranchProofs!Instance /\ FanProofs!Instance
  BY PipelineAssumption DEF BranchProofs!Instance, FanProofs!Instance, Callbacks,
     BranchProofs!Callbacks
<1>2. BranchProofs!Init
  BY DEF BranchProofs!Init, Branch!Init, BranchProofs!NoError, Branch!NoError,
     BranchProofs!Cases, Branch!Cases
<1>3. FanProofs!Init
  BY DEF FanProofs!Init, Fan!Init, FanProofs!Cases, Fan!Cases,
     FanProofs!Contract!NoReport, Fan!Contract!NoReport
<1>. QED
  BY <1>1, <1>2, <1>3, BranchProofs!Initial, FanProofs!Initial DEF BranchInv, FanInv

(* The branch's steps, as its theorems know them.                          *)
LEMMA BranchSteps ==
  ASSUME Branch!Next
  PROVE  BranchProofs!Next
BY DEF Branch!Next, BranchProofs!Next, Branch!StartPredicate, BranchProofs!StartPredicate,
   Branch!EvaluatePredicate, BranchProofs!EvaluatePredicate, Branch!ReportPredicate,
   BranchProofs!ReportPredicate, Branch!ReportPredicateFailure,
   BranchProofs!ReportPredicateFailure, Branch!SelectCase, BranchProofs!SelectCase,
   Branch!SkipCase, BranchProofs!SkipCase, Branch!StartCase, BranchProofs!StartCase,
   Branch!RunCase, BranchProofs!RunCase, Branch!ReportCase, BranchProofs!ReportCase,
   Branch!HandleCase, BranchProofs!HandleCase, Branch!HandlePredicate,
   BranchProofs!HandlePredicate, Branch!Call, BranchProofs!Call, Branch!Notify,
   BranchProofs!Notify, Branch!Breaks, BranchProofs!Breaks, Branch!Named,
   BranchProofs!Named, Branch!Around, BranchProofs!Around

(* And those of the fan-in branch.                                         *)
LEMMA FanSteps ==
  ASSUME Fan!Next
  PROVE  FanProofs!Next
BY DEF Fan!Next, FanProofs!Next, Fan!Begin, FanProofs!Begin, Fan!EvaluatePredicate,
   FanProofs!EvaluatePredicate, Fan!ReportUnscheduled, FanProofs!ReportUnscheduled,
   Fan!Schedule, FanProofs!Schedule, Fan!CopyInput, FanProofs!CopyInput,
   Fan!StartStage, FanProofs!StartStage, Fan!RunStage, FanProofs!RunStage,
   Fan!ReportStage, FanProofs!ReportStage, Fan!ReportException,
   FanProofs!ReportException, Fan!TellCompleted, FanProofs!TellCompleted,
   Fan!ReportAndReturn, FanProofs!ReportAndReturn, Fan!Call, FanProofs!Call,
   Fan!Advance, FanProofs!Advance, Fan!Mark, FanProofs!Mark, Fan!counts,
   FanProofs!counts, Fan!told, FanProofs!told, Fan!fate, FanProofs!fate

(* What the branches know holds whatever the rest of the chain does.       *)
LEMMA BranchesKeep ==
  ASSUME Shaped, BranchInv, FanInv, [PipelineNext]_allvars
  PROVE  BranchInv' /\ FanInv'
<1>1. [BranchProofs!Next]_(BranchProofs!vars)
  <2>1. CASE Branch!Next
    BY <2>1, BranchSteps
  <2>2. CASE UNCHANGED b_vars
    BY <2>2 DEF b_vars, BranchProofs!vars
  <2>. QED
    BY <2>1, <2>2, PipelineSteps
<1>2. [FanProofs!Next]_(FanProofs!vars)
  <2>1. CASE Fan!Next
    BY <2>1, FanSteps
  <2>2. CASE UNCHANGED f_vars
    BY <2>2 DEF f_vars, FanProofs!vars, FanProofs!counts, FanProofs!told, FanProofs!fate
  <2>. QED
    BY <2>1, <2>2, PipelineSteps
<1>3. BranchInv'
  BY <1>1, BranchProofs!Inductive DEF BranchInv
<1>4. FanInv'
  BY <1>2, FanProofs!Inductive DEF FanInv
<1>. QED
  BY <1>3, <1>4

-----------------------------------------------------------------------------
(* The invariants of the engine and of both branches hold in every         *)
(* reachable state of every chain.                                         *)
THEOREM Together == PipelineSpec => [](BranchInv /\ FanInv)
<1>1. PipelineInit => BranchInv /\ FanInv
  BY ShapedInitial, BranchInitial
<1>2. Shaped /\ BranchInv /\ FanInv /\ [PipelineNext]_allvars => (BranchInv /\ FanInv)'
  BY BranchesKeep
<1>. QED
  BY <1>1, <1>2, BranchesAreStages, PTL DEF PipelineSpec

(* Every field of the chain and of its branches stays in its type; no      *)
(* count of the fan-in branch exceeds its cases (PipelineTypeOK).          *)
THEOREM Typed == PipelineSpec => []PipelineTypeOK
<1>1. IInv => TypeOK
  BY DEF IInv
<1>2. BranchInv => Branch!TypeOK
  BY DEF BranchInv, BranchProofs!IInv, BranchProofs!TypeOK, Branch!TypeOK,
     BranchProofs!Cases, Branch!Cases, BranchProofs!Roles, Branch!Roles,
     BranchProofs!Callbacks, Branch!Callbacks
<1>3. FanInv => Fan!TypeOK
  BY DEF FanInv, FanProofs!IInv, FanProofs!TypeOK, Fan!TypeOK, FanProofs!Cases, Fan!Cases,
     FanProofs!Contract!SlotState, Fan!Contract!SlotState
<1>4. IInv /\ Shaped /\ BranchInv /\ FanInv => PipelineTypeOK
  BY <1>1, <1>2, <1>3 DEF PipelineTypeOK, Shaped
<1>. QED
  BY <1>4, BranchesAreStages, Together, PTL

(* The callbacks of a chain nest like its frames (EventsNest), also when   *)
(* some of its stages are branches.                                        *)
THEOREM PipelineNests == PipelineSpec => []EventsNest
<1>1. IInv => EventsNest
  BY DEF IInv
<1>. QED
  BY <1>1, BranchesAreStages, PTL

(* An error of a chain names the stage it came from (ErrorNamesCulprit),   *)
(* also when that is a branch.                                             *)
THEOREM PipelineNames == PipelineSpec => []ErrorNamesCulprit
<1>1. IInv => ErrorNamesCulprit
  BY DEF IInv
<1>. QED
  BY <1>1, BranchesAreStages, PTL

(* Caller and observer are told one story, by the engine and by a branch   *)
(* (AnswersMatchLastEvents).                                               *)
THEOREM OneStory == PipelineSpec => []AnswersMatchLastEvents
<1>1. IInv => AnswerMatchesLastEvent
  BY DEF IInv
<1>2. BranchInv => Branch!AnswerMatchesLastEvent
  BY DEF BranchInv, BranchProofs!IInv, BranchProofs!AnswerMatchesLastEvent,
     Branch!AnswerMatchesLastEvent, BranchProofs!NoError, Branch!NoError
<1>3. IInv /\ BranchInv => AnswersMatchLastEvents
  BY <1>1, <1>2 DEF AnswersMatchLastEvents
<1>. QED
  BY <1>3, BranchesAreStages, Together, PTL

(* An exception leaves only by way of a handler's or a case callback, and  *)
(* every handler of a chain of handlers reports it                         *)
(* (ExceptionsStopOrTellAll).                                              *)
THEOREM ExceptionsAreTold == PipelineSpec => []ExceptionsStopOrTellAll
<1>1. IInv => TryRunContained /\ EscapesThroughEveryFrame
  BY DEF IInv
<1>2. BranchInv => Branch!BranchContained /\ Branch!EscapesThroughEveryFrame
  BY DEF BranchInv, BranchProofs!IInv, BranchProofs!BranchContained,
     Branch!BranchContained, BranchProofs!EscapesThroughEveryFrame,
     Branch!EscapesThroughEveryFrame, BranchProofs!Reports, Branch!Reports,
     BranchProofs!Cases, Branch!Cases
<1>3. IInv /\ BranchInv => ExceptionsStopOrTellAll
  BY <1>1, <1>2 DEF ExceptionsStopOrTellAll
<1>. QED
  BY <1>3, BranchesAreStages, Together, PTL

(* There is one verdict on a stage, a predicate and a case stage unless    *)
(* the observer throws after a start (OneVerdictOnEach).                   *)
THEOREM OneVerdicts == PipelineSpec => []OneVerdictOnEach
<1>1. IInv => OneVerdictUnlessRethrown
  BY DEF IInv, Verdict, OneVerdictUnlessRethrown
<1>2. BranchInv => Branch!OneVerdictPerChild
  BY DEF BranchInv, BranchProofs!IInv, BranchProofs!OneVerdictPerChild,
     Branch!OneVerdictPerChild, BranchProofs!Reports, Branch!Reports,
     BranchProofs!Cases, Branch!Cases, BranchProofs!Roles, Branch!Roles
<1>3. IInv /\ BranchInv => OneVerdictOnEach
  BY <1>1, <1>2 DEF OneVerdictOnEach
<1>. QED
  BY <1>3, BranchesAreStages, Together, PTL

(* The case events tell the route through a branch, and those of a fan-in  *)
(* branch come in the documented order (CaseEventsTellRoute).              *)
THEOREM RouteIsTold == PipelineSpec => []CaseEventsTellRoute
<1>1. BranchInv => Branch!EventsTellRoute
  BY DEF BranchInv, BranchProofs!IInv, BranchProofs!EventsTellRoute,
     Branch!EventsTellRoute, BranchProofs!Reports, Branch!Reports,
     BranchProofs!Cases, Branch!Cases, BranchProofs!NoError, Branch!NoError
<1>2. FanInv => Fan!LifecycleOrdering /\ Fan!OneCaseAtATime
  BY FanProofs!EventsFit DEF FanInv, FanProofs!LifecycleOrdering, Fan!LifecycleOrdering,
     FanProofs!OneCaseAtATime, Fan!OneCaseAtATime
<1>3. BranchInv /\ FanInv => CaseEventsTellRoute
  BY <1>1, <1>2 DEF CaseEventsTellRoute
<1>. QED
  BY <1>3, Together, PTL

(* A branch of a chain runs its first match (BranchRunsFirstMatch): the    *)
(* chain takes only the branch's own steps with it.                        *)
THEOREM BranchImplements == PipelineSpec => BranchRunsFirstMatch
<1>1. Branch!Init => Branch!Promise!Init
  BY DEF Branch!Init, Branch!Promise!Init
<1>2. BranchInv /\ [BranchProofs!Next]_(BranchProofs!vars)
        => [Branch!Promise!Next]_(Branch!Promise!vars)
  <2>. SUFFICES ASSUME BranchInv, [BranchProofs!Next]_(BranchProofs!vars)
                PROVE  [Branch!Promise!Next]_(Branch!Promise!vars)
    OBVIOUS
  <2>1. [BranchProofs!Promise!Next]_(BranchProofs!Promise!vars)
    BY BranchProofs!StepsImplement DEF BranchInv
  <2>2. BranchProofs!Promise!Next => Branch!Promise!Next
    BY DEF BranchProofs!Promise!Next, Branch!Promise!Next, BranchProofs!Promise!Ask,
       Branch!Promise!Ask, BranchProofs!Promise!Give, Branch!Promise!Give,
       BranchProofs!Promise!Answer, Branch!Promise!Answer, BranchProofs!NoError,
       Branch!NoError, BranchProofs!Cases, Branch!Cases
  <2>3. UNCHANGED BranchProofs!Promise!vars => UNCHANGED Branch!Promise!vars
    BY DEF BranchProofs!Promise!vars, Branch!Promise!vars, BranchProofs!NoError,
       Branch!NoError
  <2>. QED
    BY <2>1, <2>2, <2>3
<1>3. Shaped /\ [PipelineNext]_allvars => [BranchProofs!Next]_(BranchProofs!vars)
  BY PipelineSteps, BranchSteps DEF b_vars, BranchProofs!vars
<1>4. PipelineInit => Branch!Init
  BY DEF PipelineInit
<1>. QED
  BY <1>1, <1>2, <1>3, <1>4, BranchesAreStages, Together, PTL
  DEF PipelineSpec, BranchRunsFirstMatch, Branch!ImplementsFirstMatch, Branch!Promise!Spec

(* A fan-in branch of a chain keeps the promises of FanIn                  *)
(* (FanInKeepsContract).                                                   *)
THEOREM FanInImplements == PipelineSpec => FanInKeepsContract
<1>1. Fan!Init => Fan!Contract!Init
  BY DEF Fan!Init, Fan!Contract!Init
<1>2. FanInv /\ [FanProofs!Next]_(FanProofs!vars)
        => [Fan!Contract!Next]_(Fan!Contract!vars)
  <2>. SUFFICES ASSUME FanInv, [FanProofs!Next]_(FanProofs!vars)
                PROVE  [Fan!Contract!Next]_(Fan!Contract!vars)
    OBVIOUS
  <2>1. [FanProofs!Contract!Next]_(FanProofs!Contract!vars)
    BY FanProofs!StepsImplement DEF FanInv
  <2>2. FanProofs!Contract!Next => Fan!Contract!Next
    BY DEF FanProofs!Contract!Next, Fan!Contract!Next, FanProofs!Contract!Choose,
       Fan!Contract!Choose, FanProofs!Contract!Reject, Fan!Contract!Reject,
       FanProofs!Contract!Settle, Fan!Contract!Settle, FanProofs!Contract!Lose,
       Fan!Contract!Lose, FanProofs!Contract!Report, Fan!Contract!Report,
       FanProofs!Contract!Abort, Fan!Contract!Abort, FanProofs!Contract!CasesIn,
       Fan!Contract!CasesIn, FanProofs!Contract!Cardinality,
       Fan!Contract!Cardinality, FanProofs!Cases, Fan!Cases
  <2>3. UNCHANGED FanProofs!Contract!vars => UNCHANGED Fan!Contract!vars
    BY DEF FanProofs!Contract!vars, Fan!Contract!vars
  <2>. QED
    BY <2>1, <2>2, <2>3
<1>3. Shaped /\ [PipelineNext]_allvars => [FanProofs!Next]_(FanProofs!vars)
  BY PipelineSteps, FanSteps DEF f_vars, FanProofs!vars, FanProofs!counts, FanProofs!told,
     FanProofs!fate
<1>4. PipelineInit => Fan!Init
  BY DEF PipelineInit
<1>. QED
  BY <1>1, <1>2, <1>3, <1>4, BranchesAreStages, Together, PTL
  DEF PipelineSpec, FanInKeepsContract, Fan!ImplementsFanIn, Fan!Contract!Spec
=============================================================================
