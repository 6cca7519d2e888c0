------------------------- MODULE ParallelFanInProofs -------------------------
(* Theorems about ParallelFanIn, for any number of cases and any set of    *)
(* workers.                                                                *)
EXTENDS ParallelFanIn, SequenceTheorems, FiniteSetTheorems, TLAPS

(* The fields that say where a case is.                                    *)
Types ==
  /\ pc \in CallerState
  /\ next \in Cases
  /\ pending_ \in Nat
  /\ queue \in Seq(Cases)
  /\ job \in [Workers -> Cases \union {0}]
  /\ at \in [Workers -> WorkerState]

(* The caller's places before the post of the case it is at; the cases it  *)
(* is past when it is at case n in some place.                             *)
Before == {"start", "predicate", "token", "skip", "reject", "schedule", "post"}
Passed(k, n, place) == k < n \/ (k = n /\ place \notin Before)

(* A case is in one place of the queue or with one worker, once the caller *)
(* is past it.                                                             *)
OnePlace ==
  /\ \A w \in Workers : at[w] = "idle" <=> job[w] = 0
  /\ \A v, w \in Workers : job[v] # 0 /\ job[v] = job[w] => v = w
  /\ \A i, j \in 1 .. Len(queue) : queue[i] = queue[j] => i = j
  /\ \A w \in Workers : \A i \in 1 .. Len(queue) : queue[i] # job[w]
  /\ \A w \in Workers : job[w] # 0 => Passed(job[w], next, pc)
  /\ \A i \in 1 .. Len(queue) : Passed(queue[i], next, pc)

(* Workers that have a case and have not finished it in the group.         *)
Busy == {w \in Workers : at[w] \notin {"idle", "notify"}}

(* The group counts the cases that are posted and not finished.            *)
Counted == IsFiniteSet(Busy) /\ pending_ = Len(queue) + Cardinality(Busy)

(* The caller goes on when nothing is pending.                             *)
Drained == pc \in {"tally", "report", "returned"} => pending_ = 0

-----------------------------------------------------------------------------
(* What the caller's steps do to these fields, but for a post: none brings *)
(* it back before the post of a case it is past.                           *)
CallerMoves ==
  /\ UNCHANGED <<pending_, queue, job, at>>
  /\ pc' \in CallerState /\ next' \in Cases /\ next <= next'
  /\ pc \notin Before => pc' \notin Before /\ next' = next

(* What a post does.                                                       *)
Posts ==
  /\ UNCHANGED <<job, at>>
  /\ pc = "post"
  /\ \/ pc' = "predicate" /\ next' = next + 1 /\ next' \in Cases
     \/ pc' = "wait" /\ next' = next
  /\ \/ queue' = Append(queue, next) /\ pending_' = pending_ + 1
     \/ UNCHANGED <<queue, pending_>>

(* A worker's steps in the posted lambda between taking a case and telling *)
(* the group.                                                              *)
Works(w) ==
  /\ UNCHANGED <<pc, next, pending_, queue, job>>
  /\ w \in Busy
  /\ \E p \in WorkerState \ {"idle", "notify"} : at' = [at EXCEPT ![w] = p]

(* Advance goes to the next case, and to the wait after the last.          *)
LEMMA AdvanceMoves ==
  ASSUME Types, Advance
  PROVE  \/ pc' = "predicate" /\ next' = next + 1 /\ next' \in Cases
         \/ pc' = "wait" /\ next' = next
BY FanInAssumption DEF Types, Advance, Cases

(* The posted lambda's own steps are of that kind.                         *)
LEMMA WorkSteps ==
  ASSUME NEW w \in Workers,
         \/ CopyInput(w) \/ StageStart(w) \/ RunStage(w) \/ ReportStage(w)
         \/ ReportException(w) \/ TellCompleted(w)
  PROVE  Works(w)
<1>. USE DEF caller, group, work
<1>1. UNCHANGED <<pc, next, pending_, queue, job>>
  BY DEF CopyInput, StageStart, RunStage, ReportStage, ReportException, TellCompleted
<1>2. w \in Busy
  BY DEF CopyInput, StageStart, RunStage, ReportStage, ReportException,
              TellCompleted, Busy
<1>3. \E p \in WorkerState \ {"idle", "notify"} : at' = [at EXCEPT ![w] = p]
  BY DEF CopyInput, StageStart, RunStage, ReportStage, ReportException,
              TellCompleted, Goto, EscapeTo, WorkerState
<1>. QED
  BY <1>1, <1>2, <1>3 DEF Works

(* The steps, in these terms.                                              *)
LEMMA Kinds ==
  ASSUME Types, [Next]_vars
  PROVE  \/ CallerMoves \/ Posts
         \/ \E w \in Workers : \/ Take(w) \/ Works(w) \/ Finish(w) \/ NotifyGroup(w)
<1>. USE DEF caller, group, work
<1>0. next \in Nat
  BY DEF Types, Cases
<1>1. CASE Begin \/ EvaluatePredicate \/ CheckToken \/ Schedule
  BY <1>0, <1>1 DEF Begin, EvaluatePredicate, CheckToken, Schedule, Unwind,
                    CallerMoves, Types, Before, CallerState
<1>2. CASE ReportUnscheduled
  <2>1. pc \in Before /\ UNCHANGED <<pending_, queue, job, at>>
    BY <1>2 DEF ReportUnscheduled, Before
  <2>2. CASE Advance
    BY <1>0, <2>1, <2>2, AdvanceMoves DEF CallerMoves, Types, CallerState
  <2>3. CASE Unwind /\ UNCHANGED next
    BY <1>0, <2>1, <2>3 DEF Unwind, CallerMoves, Types, CallerState
  <2>. QED
    BY <1>2, <2>2, <2>3 DEF ReportUnscheduled
<1>3. CASE Post
  BY <1>3, AdvanceMoves DEF Post, Posts
<1>4. CASE Wait \/ TallyCompletions \/ ReportAndReturn \/ SpuriousWake
  BY <1>0, <1>4 DEF Wait, TallyCompletions, ReportAndReturn, SpuriousWake, Unwind,
                    CallerMoves, Types, Before, CallerState
<1>5. CASE RequestStop \/ UNCHANGED vars
  BY <1>0, <1>5 DEF RequestStop, vars, CallerMoves, Types
<1>6. ASSUME NEW w \in Workers,
             \/ CopyInput(w) \/ StageStart(w) \/ RunStage(w) \/ ReportStage(w)
             \/ ReportException(w) \/ TellCompleted(w)
      PROVE  Works(w)
  BY <1>6, WorkSteps
<1>. QED
  BY <1>1, <1>2, <1>3, <1>4, <1>5, <1>6 DEF Next, CallerStep, WorkerStep, Terminated

-----------------------------------------------------------------------------
(* What a worker finds at the front of the queue, and leaves there.        *)
LEMMA Popped ==
  ASSUME Types, NEW w \in Workers, Take(w)
  PROVE  /\ Len(queue) \in Nat \ {0} /\ queue[1] \in Cases
         /\ queue' \in Seq(Cases) /\ Len(queue') = Len(queue) - 1
         /\ \A i \in 1 .. Len(queue') : i + 1 \in 1 .. Len(queue) /\ queue'[i] = queue[i + 1]
         /\ \A v \in Workers : job'[v] = IF v = w THEN queue[1] ELSE job[v]
         /\ \A v \in Workers : at'[v] = IF v = w THEN "copy" ELSE at[v]
         /\ at[w] = "idle" /\ UNCHANGED <<pc, next, pending_>>
<1>1. queue \in Seq(Cases) /\ queue # <<>> /\ queue' = Tail(queue)
  BY DEF Types, Take
<1>2. /\ Len(queue) \in Nat \ {0} /\ Head(queue) = queue[1] /\ queue[1] \in Cases
      /\ queue' \in Seq(Cases) /\ Len(queue') = Len(queue) - 1
      /\ \A i \in 1 .. Len(queue') : queue'[i] = queue[i + 1]
  BY <1>1, HeadTailProperties, ElementOfSeq, EmptySeq
<1>3. \A i \in 1 .. Len(queue') : i + 1 \in 1 .. Len(queue)
  BY <1>2
<1>. QED
  BY <1>2, <1>3 DEF Types, Take, Goto, caller, group

(* No step leaves the types of these fields.                               *)
LEMMA TypesStep ==
  ASSUME Types, [Next]_vars
  PROVE  Types'
<1>1. CASE CallerMoves
  BY <1>1 DEF CallerMoves, Types
<1>2. CASE Posts
  <2>1. Append(queue, next) \in Seq(Cases)
    BY AppendProperties DEF Types
  <2>. QED
    BY <1>2, <2>1 DEF Posts, Types, CallerState
<1>3. ASSUME NEW w \in Workers, Take(w) PROVE Types'
  <2>1. job' \in [Workers -> Cases \union {0}] /\ at' \in [Workers -> WorkerState]
    BY <1>3, Popped DEF Types, Take, Goto, WorkerState
  <2>. QED
    BY <1>3, <2>1, Popped DEF Types
<1>4. ASSUME NEW w \in Workers, Works(w) PROVE Types'
  BY <1>4 DEF Works, Types
<1>5. ASSUME NEW w \in Workers, Finish(w) PROVE Types'
  BY <1>5 DEF Finish, Goto, Types, WorkerState, caller
<1>6. ASSUME NEW w \in Workers, NotifyGroup(w) PROVE Types'
  BY <1>6 DEF NotifyGroup, Goto, Types, WorkerState, CallerState, group
<1>. QED
  BY <1>1, <1>2, <1>3, <1>4, <1>5, <1>6, Kinds

(* What a worker has and what is in the queue are cases.                   *)
LEMMA InCases ==
  ASSUME Types
  PROVE  /\ \A w \in Workers : job[w] # 0 => job[w] \in Cases
         /\ \A i \in 1 .. Len(queue) : queue[i] \in Cases
BY ElementOfSeq DEF Types

(* OnePlace holds after a step that moves no case and takes the caller     *)
(* back before none.                                                       *)
LEMMA OnePlaceFrame ==
  ASSUME OnePlace, UNCHANGED <<queue, job>>,
         \A w \in Workers : at'[w] = "idle" <=> at[w] = "idle",
         \A k \in Cases : Passed(k, next, pc) => Passed(k, next', pc'), Types
  PROVE  OnePlace'
<1>1. \A w \in Workers : job'[w] # 0 => Passed(job'[w], next', pc')
  BY InCases DEF OnePlace
<1>2. \A i \in 1 .. Len(queue) : Passed(queue'[i], next', pc')
  BY InCases DEF OnePlace
<1>. QED
  BY <1>1, <1>2 DEF OnePlace

(* No step puts a case in a second place, or back in front of the caller.  *)
LEMMA OnePlaceStep ==
  ASSUME Types, OnePlace, [Next]_vars
  PROVE  OnePlace'
<1>0. next \in Nat /\ next' \in Nat /\ Cases \subseteq Nat
  BY TypesStep DEF Types, Cases
<1>1. CASE CallerMoves
  <2>1. \A k \in Cases : Passed(k, next, pc) => Passed(k, next', pc')
    BY <1>0, <1>1 DEF CallerMoves, Passed
  <2>. QED
    BY <1>1, <2>1, OnePlaceFrame DEF CallerMoves
<1>2. CASE Posts
  <2>1. \A k \in Cases : Passed(k, next, pc) => Passed(k, next', pc')
    BY <1>0, <1>2 DEF Posts, Passed, Before
  <2>2. CASE UNCHANGED queue
    BY <1>2, <2>1, <2>2, OnePlaceFrame DEF Posts
  <2>3. CASE queue' = Append(queue, next)
    <3>1. /\ Len(queue) \in Nat /\ Len(queue') = Len(queue) + 1
          /\ \A i \in 1 .. Len(queue) : queue'[i] = queue[i]
          /\ queue'[Len(queue) + 1] = next
      BY <2>3, AppendProperties, LenProperties DEF Types
    <3>2. ~Passed(next, next, pc) /\ Passed(next, next', pc')
      BY <1>0, <1>2 DEF Posts, Passed, Before
    <3>3. /\ \A w \in Workers : job[w] # next
          /\ \A i \in 1 .. Len(queue) : queue[i] # next
      BY <1>0, <3>2 DEF OnePlace, Types, Cases
    <3>4. \A w \in Workers : job[w] # 0 => Passed(job'[w], next', pc')
      BY <1>2, <2>1, InCases DEF OnePlace, Posts
    <3>5. \A i \in 1 .. Len(queue) : Passed(queue'[i], next', pc')
      BY <2>1, <3>1, InCases DEF OnePlace
    <3>6. \A i \in 1 .. Len(queue') : i \in 1 .. Len(queue) \/ i = Len(queue) + 1
      BY <3>1
    <3>7. \A i \in 1 .. Len(queue') : Passed(queue'[i], next', pc')
      BY <3>1, <3>2, <3>5, <3>6 DEF Passed
    <3>8. \A i, j \in 1 .. Len(queue') : queue'[i] = queue'[j] => i = j
      BY <3>1, <3>3, <3>6 DEF OnePlace
    <3>9. \A w \in Workers : \A i \in 1 .. Len(queue') : queue'[i] # job[w]
      BY <3>1, <3>3, <3>6 DEF OnePlace
    <3>. QED
      BY <1>2, <3>4, <3>7, <3>8, <3>9 DEF OnePlace, Posts, Passed
  <2>. QED
    BY <1>2, <2>2, <2>3 DEF Posts
<1>3. ASSUME NEW w \in Workers, Take(w) PROVE OnePlace'
  <2>. USE Popped
  <2>1. job[w] = 0 /\ queue[1] # 0
    BY <1>0, <1>3 DEF OnePlace, Cases
  <2>2. \A v \in Workers : job[v] # queue[1] /\ Passed(queue[1], next, pc)
    BY <1>3 DEF OnePlace
  <2>3. next' = next /\ pc' = pc
    BY <1>3
  <2>4. \A v \in Workers : at'[v] = "idle" <=> job'[v] = 0
    BY <1>3, <2>1 DEF OnePlace
  <2>5. \A u, v \in Workers : job'[u] # 0 /\ job'[u] = job'[v] => u = v
    BY <1>3, <2>2 DEF OnePlace
  <2>6. \A i, j \in 1 .. Len(queue') : queue'[i] = queue'[j] => i = j
    <3>. TAKE i \in 1 .. Len(queue'), j \in 1 .. Len(queue')
    <3>1. queue'[i] = queue'[j] => i + 1 = j + 1
      BY <1>3 DEF OnePlace
    <3>. QED
      BY <3>1
  <2>7. \A i \in 1 .. Len(queue') : queue'[i] # queue[1] /\ Passed(queue'[i], next, pc)
    <3>. TAKE i \in 1 .. Len(queue')
    <3>1. queue'[i] = queue[i + 1] /\ i + 1 \in 1 .. Len(queue) /\ 1 \in 1 .. Len(queue) /\ i + 1 # 1
      BY <1>3
    <3>. QED
      BY <3>1 DEF OnePlace
  <2>8. \A v \in Workers : \A i \in 1 .. Len(queue') : queue'[i] # job'[v]
    BY <1>3, <2>7 DEF OnePlace
  <2>9. \A v \in Workers : job'[v] # 0 => Passed(job'[v], next, pc)
    BY <1>3, <2>2 DEF OnePlace
  <2>10. /\ \A v \in Workers : job'[v] # 0 => Passed(job'[v], next', pc')
         /\ \A i \in 1 .. Len(queue') : Passed(queue'[i], next', pc')
    BY <1>3, <2>7, <2>9 DEF Passed
  <2>. QED
    BY <2>4, <2>5, <2>6, <2>8, <2>10 DEF OnePlace
<1>4. ASSUME NEW w \in Workers, Works(w) PROVE OnePlace'
  <2>1. \A v \in Workers : at'[v] = "idle" <=> at[v] = "idle"
    BY <1>4 DEF Works, Types, Busy
  <2>. QED
    BY <1>4, <2>1, OnePlaceFrame DEF Works, Passed
<1>5. ASSUME NEW w \in Workers, Finish(w) PROVE OnePlace'
  <2>1. \A v \in Workers : at'[v] = "idle" <=> at[v] = "idle"
    BY <1>5 DEF Finish, Goto, Types
  <2>. QED
    BY <1>5, <2>1, OnePlaceFrame DEF Finish, Passed, caller
<1>6. ASSUME NEW w \in Workers, NotifyGroup(w) PROVE OnePlace'
  <2>1. /\ \A v \in Workers : job'[v] = IF v = w THEN 0 ELSE job[v]
        /\ \A v \in Workers : at'[v] = IF v = w THEN "idle" ELSE at[v]
        /\ UNCHANGED <<queue, next>> /\ (pc \notin Before => pc' \notin Before)
    BY <1>6 DEF NotifyGroup, Goto, Types, Before
  <2>2. \A k \in Cases : Passed(k, next, pc) => Passed(k, next', pc')
    BY <2>1 DEF Passed
  <2>3. \A i \in 1 .. Len(queue) : queue[i] \in Cases /\ queue[i] # 0
    <3>. 0 \notin Cases
      BY DEF Cases
    <3>. QED
      BY InCases
  <2>4. \A v \in Workers : job'[v] # 0 => Passed(job'[v], next', pc')
    BY <2>1, <2>2, InCases DEF OnePlace
  <2>5. \A i \in 1 .. Len(queue) : Passed(queue'[i], next', pc')
    BY <2>1, <2>2, <2>3 DEF OnePlace
  <2>6. \A u, v \in Workers : job'[u] # 0 /\ job'[u] = job'[v] => u = v
    BY <2>1 DEF OnePlace
  <2>7. \A v \in Workers : at'[v] = "idle" <=> job'[v] = 0
    BY <2>1 DEF OnePlace
  <2>8. \A v \in Workers : \A i \in 1 .. Len(queue) : queue[i] # job'[v]
    BY <2>1, <2>3 DEF OnePlace
  <2>. QED
    BY <2>1, <2>4, <2>5, <2>6, <2>7, <2>8 DEF OnePlace
<1>. QED
  BY <1>1, <1>2, <1>3, <1>4, <1>5, <1>6, Kinds

-----------------------------------------------------------------------------
(* A post is counted before a worker can finish it, and finish, of a busy  *)
(* worker, never meets an empty group.                                     *)
LEMMA CountedStep ==
  ASSUME Types, Counted, [Next]_vars
  PROVE  Counted'
<1>0. /\ Len(queue) \in Nat /\ pending_ \in Nat
      /\ IsFiniteSet(Busy) /\ Cardinality(Busy) \in Nat
      /\ pending_ = Len(queue) + Cardinality(Busy)
  BY LenProperties, FS_CardinalityType DEF Types, Counted
<1>1. CASE CallerMoves
  BY <1>1 DEF CallerMoves, Counted, Busy
<1>2. CASE Posts
  <2>1. Busy' = Busy
    BY <1>2 DEF Posts, Busy
  <2>2. Len(Append(queue, next)) = Len(queue) + 1
    BY AppendProperties DEF Types
  <2>. QED
    BY <1>0, <1>2, <2>1, <2>2 DEF Posts, Counted
<1>3. ASSUME NEW w \in Workers, Take(w) PROVE Counted'
  <2>1. w \notin Busy /\ Busy' = Busy \union {w}
    BY <1>3, Popped DEF Busy
  <2>2. IsFiniteSet(Busy') /\ Cardinality(Busy') = Cardinality(Busy) + 1
    BY <1>0, <2>1, FS_AddElement
  <2>3. Len(queue') = Len(queue) - 1 /\ pending_' = pending_
    BY <1>3, Popped
  <2>. QED
    BY <1>0, <2>2, <2>3 DEF Counted
<1>4. ASSUME NEW w \in Workers, Works(w) PROVE Counted'
  <2>1. Busy' = Busy
    BY <1>4 DEF Works, Busy, Types
  <2>. QED
    BY <1>0, <1>4, <2>1 DEF Works, Counted
<1>5. ASSUME NEW w \in Workers, Finish(w) PROVE Counted'
  <2>1. w \in Busy /\ Busy' = Busy \ {w}
    BY <1>5 DEF Finish, Goto, Busy, Types
  <2>2. /\ IsFiniteSet(Busy') /\ Cardinality(Busy') = Cardinality(Busy) - 1
        /\ Cardinality(Busy) # 0
    BY <1>0, <2>1, FS_RemoveElement, FS_EmptySet
  <2>3. pending_' = pending_ - 1 /\ queue' = queue
    BY <1>0, <1>5, <2>2 DEF Finish
  <2>. QED
    BY <1>0, <2>2, <2>3 DEF Counted
<1>6. ASSUME NEW w \in Workers, NotifyGroup(w) PROVE Counted'
  <2>1. Busy' = Busy /\ UNCHANGED <<queue, pending_>>
    BY <1>6 DEF NotifyGroup, Goto, Busy, Types, group
  <2>. QED
    BY <2>1 DEF Counted
<1>. QED
  BY <1>1, <1>2, <1>3, <1>4, <1>5, <1>6, Kinds

(* Nothing is posted after the wait, and only the wait ends it.            *)
LEMMA DrainedStep ==
  ASSUME Types, Counted, Drained, [Next]_vars
  PROVE  Drained'
<1>. USE DEF Drained
<1>1. CASE Begin \/ EvaluatePredicate \/ CheckToken \/ Schedule
  BY <1>1 DEF Begin, EvaluatePredicate, CheckToken, Schedule, Unwind
<1>2. CASE ReportUnscheduled \/ Post
  BY <1>2 DEF ReportUnscheduled, Post, Advance, Unwind
<1>3. CASE Wait \/ TallyCompletions \/ ReportAndReturn \/ SpuriousWake
  BY <1>3 DEF Wait, TallyCompletions, ReportAndReturn, SpuriousWake, Unwind, group
<1>4. CASE RequestStop \/ UNCHANGED vars
  BY <1>4 DEF RequestStop, vars, caller, group
<1>5. ASSUME NEW w \in Workers, NotifyGroup(w) PROVE Drained'
  BY <1>5 DEF NotifyGroup, group
<1>6. ASSUME NEW w \in Workers, WorkerStep(w), ~NotifyGroup(w)
      PROVE  pc' = pc /\ pending_' \in {pending_, pending_ - 1}
                      /\ (pending_' # pending_ => pending_ > 0)
  BY <1>6 DEF WorkerStep, Take, CopyInput, StageStart, RunStage, ReportStage,
              ReportException, TellCompleted, Finish, caller, group
<1>7. ASSUME NEW w \in Workers, WorkerStep(w) PROVE Drained'
  BY <1>5, <1>6, <1>7 DEF Types
<1>. QED
  BY <1>1, <1>2, <1>3, <1>4, <1>7 DEF Next, CallerStep, Terminated

-----------------------------------------------------------------------------
IInv == Types /\ OnePlace /\ Counted /\ Drained

(* Nothing is posted before the branch starts.                             *)
LEMMA Initial ==
  ASSUME Init
  PROVE  IInv
<1>1. Len(queue) = 0 /\ queue \in Seq(Cases)
  BY EmptySeq DEF Init
<1>2. Types
  BY <1>1, FanInAssumption DEF Init, Types, CallerState, WorkerState, Cases
<1>3. OnePlace
  BY <1>1 DEF Init, OnePlace
<1>4. Busy = {}
  BY DEF Init, Busy
<1>5. Counted
  BY <1>1, <1>4, FS_EmptySet DEF Init, Counted
<1>6. Drained
  BY DEF Init, Drained
<1>. QED
  BY <1>2, <1>3, <1>5, <1>6 DEF IInv

(* The invariant holds in every reachable state, whatever throws.          *)
THEOREM Invariance == Spec => []IInv
<1>1. Init => IInv
  BY Initial
<1>2. IInv /\ [Next]_vars => IInv'
  BY TypesStep, OnePlaceStep, CountedStep, DrainedStep DEF IInv
<1>. QED
  BY <1>1, <1>2, PTL DEF Spec

(* Two threads never write one slot, however many cases and workers there  *)
(* are and whatever throws (SlotsHaveOneWriter): a case is in the queue or *)
(* with one worker, and only once the caller is past it.                   *)
THEOREM OneWriter == Spec => []SlotsHaveOneWriter
<1>1. IInv => SlotsHaveOneWriter
  <2>. SUFFICES ASSUME IInv PROVE SlotsHaveOneWriter
    OBVIOUS
  <2>1. \A w \in Workers : at[w] \in UsesFrame => job[w] # 0
    BY DEF IInv, OnePlace, UsesFrame
  <2>2. DOMAIN queue = 1 .. Len(queue)
    BY DEF IInv, Types
  <2>3. \A w \in Workers :
          at[w] \in UsesFrame /\ pc \in {"predicate", "token", "reject", "schedule", "post"}
            => job[w] < next
    BY <2>1 DEF IInv, OnePlace, Passed, Before
  <2>. QED
    BY <2>1, <2>2, <2>3 DEF IInv, OnePlace, SlotsHaveOneWriter
<1>. QED
  BY <1>1, Invariance, PTL

(* A branch does not end before its cases (DrainsBeforeReturn), for any    *)
(* number of cases and workers, if nothing throws on the calling thread:   *)
(* group.wait() returns when what the group counts, the queued cases and   *)
(* the busy workers, is none.                                              *)
THEOREM Drains == Spec => [](~CallerThrows => DrainsBeforeReturn)
<1>. DEFINE NotThrown == ~CallerThrows => pc # "threw"
<1>1. Init => NotThrown
  BY DEF Init
<1>2. NotThrown /\ [Next]_vars => NotThrown'
  <2>. SUFFICES ASSUME ~CallerThrows, pc # "threw", [Next]_vars PROVE pc' # "threw"
    OBVIOUS
  <2>. USE DEF Unwind
  <2>1. CASE CallerStep
    BY <2>1 DEF CallerStep, Begin, EvaluatePredicate, ReportUnscheduled, CheckToken,
                Schedule, Post, Wait, TallyCompletions, ReportAndReturn, Advance
  <2>2. CASE SpuriousWake \/ RequestStop \/ UNCHANGED vars
    BY <2>2 DEF SpuriousWake, RequestStop, vars, caller
  <2>3. ASSUME NEW w \in Workers, WorkerStep(w) PROVE pc' # "threw"
    BY <2>3 DEF WorkerStep, Take, CopyInput, StageStart, RunStage, ReportStage,
                ReportException, TellCompleted, Finish, NotifyGroup, caller
  <2>. QED
    BY <2>1, <2>2, <2>3 DEF Next, Terminated
<1>3. IInv /\ NotThrown => (~CallerThrows => DrainsBeforeReturn)
  <2>. SUFFICES ASSUME IInv, pc = "returned" PROVE queue = <<>> /\ Busy = {}
    BY DEF DrainsBeforeReturn, Ended, Busy
  <2>1. /\ pending_ = 0 /\ pending_ = Len(queue) + Cardinality(Busy)
        /\ Len(queue) \in Nat /\ Cardinality(Busy) \in Nat /\ IsFiniteSet(Busy)
    BY LenProperties, FS_CardinalityType DEF IInv, Types, Counted, Drained
  <2>2. Len(queue) = 0 /\ Cardinality(Busy) = 0
    BY <2>1
  <2>. QED
    BY <2>1, <2>2, EmptySeq, FS_EmptySet DEF IInv, Types
<1>. HIDE DEF NotThrown
<1>. QED
  BY <1>1, <1>2, <1>3, Invariance, PTL DEF Spec

(* The caller does not sleep on a group in which nothing is pending        *)
(* (NoSleepingOnGroup): whoever finished the last case is about to notify. *)
THEOREM GroupWakeup == Spec => []NoSleepingOnGroup
<1>1. Init => Types /\ NoSleepingOnGroup
  BY Initial DEF Init, IInv, NoSleepingOnGroup
<1>2. Types /\ NoSleepingOnGroup /\ [Next]_vars => (Types /\ NoSleepingOnGroup)'
  <2>. SUFFICES ASSUME Types, NoSleepingOnGroup, [Next]_vars
                PROVE  NoSleepingOnGroup'
    BY TypesStep
  <2>. USE DEF NoSleepingOnGroup
  <2>1. CASE CallerStep
    BY <2>1 DEF CallerStep, Begin, EvaluatePredicate, ReportUnscheduled, CheckToken,
                Schedule, Post, Wait, TallyCompletions, ReportAndReturn, Advance,
                Unwind, group
  <2>2. CASE SpuriousWake \/ RequestStop \/ UNCHANGED vars
    BY <2>2 DEF SpuriousWake, RequestStop, vars, caller, group, work
  <2>3. ASSUME NEW w \in Workers, Finish(w) PROVE NoSleepingOnGroup'
    <3>1. at'[w] = "notify"
      BY <2>3 DEF Finish, Goto, Types
    <3>. QED
      BY <3>1
  <2>4. ASSUME NEW w \in Workers, NotifyGroup(w) PROVE NoSleepingOnGroup'
    BY <2>4 DEF NotifyGroup
  <2>5. ASSUME NEW w \in Workers, Works(w) \/ Take(w) PROVE NoSleepingOnGroup'
    <3>1. UNCHANGED <<pc, pending_>> /\ at[w] # "notify"
      BY <2>5 DEF Works, Take, Busy, caller, group
    <3>2. \A v \in Workers : at[v] = "notify" => at'[v] = "notify"
      BY <2>5, <3>1 DEF Works, Take, Goto, Types
    <3>. QED
      BY <3>1, <3>2
  <2>6. ASSUME NEW w \in Workers, WorkerStep(w) PROVE NoSleepingOnGroup'
    BY <2>3, <2>4, <2>5, <2>6, WorkSteps DEF WorkerStep
  <2>. QED
    BY <2>1, <2>2, <2>6 DEF Next, Terminated
<1>. QED
  BY <1>1, <1>2, PTL DEF Spec

-----------------------------------------------------------------------------
(* The parallel fan-in branch implements FanIn, and tells of its run.      *)

Told == {e[1] : e \in finished}
Fates == <<slot, chosen, rejected, scheduled, lost, finished>>

(* Nothing has been decided of case k; it is chosen and not yet run.       *)
Fresh(k) ==
  slot[k] = "skipped" /\ k \notin chosen /\ k \notin rejected
    /\ k \notin scheduled /\ k \notin lost /\ k \notin Told
Untouched(k) ==
  slot[k] = "skipped" /\ k \in chosen /\ k \notin lost /\ k \notin Told

Settled == {"completed", "failed"}
BeforeStage == {"copy", "start", "stage"}
BeforeTold == {"succeeded", "failed", "threw", "tell"}

(* What is known of the case somebody is at.                               *)
CallerKnows ==
  /\ \A k \in Cases : k > next => Fresh(k)
  /\ pc \in {"start", "predicate", "token"} => Fresh(next)
  /\ pc \in {"schedule", "post"} => Untouched(next)
  /\ pc = "post" => next \in scheduled

QueueKnows ==
  \A i \in 1 .. Len(queue) : Untouched(queue[i]) /\ queue[i] \in scheduled

WorkersKnow ==
  \A w \in Workers : job[w] # 0 =>
    /\ job[w] \in chosen /\ job[w] \in scheduled
    /\ at[w] \in BeforeStage => Untouched(job[w])
    /\ at[w] \in BeforeTold =>
         slot[job[w]] \in Settled /\ job[w] \notin lost /\ job[w] \notin Told

Verdicts ==
  /\ \A k \in chosen : k \notin rejected
  /\ \A k \in rejected : slot[k] = "failed"
  /\ \A k \in lost : k \in chosen /\ slot[k] = "skipped"
  /\ \A k \in scheduled : k \in chosen
  /\ \A k \in Cases : slot[k] \in Settled => k \in chosen \/ k \in rejected
  /\ \A e \in finished : /\ e[1] \in scheduled /\ slot[e[1]] \in Settled
                         /\ e[2] <=> slot[e[1]] = "completed"

(* The caller left before it reported.                                     *)
Gone == pc = "threw" /\ ~report.made

With(k, places) == \E w \in Workers : job[w] = k /\ at[w] \in places
Queued(k) == \E i \in 1 .. Len(queue) : queue[i] = k
Failing(k) == \E w \in Workers : job[w] = k /\ at[w] = "finish" /\ outcome[w] = "error"

(* Where the account of a chosen case stands, for its slot and for its     *)
(* events, and why a lost one will be an error.                            *)
InHand(k) ==
  \/ Gone \/ (k = next /\ pc \in {"schedule", "post"}) \/ Queued(k)
  \/ With(k, BeforeStage) \/ slot[k] \in Settled \/ k \in lost
Announced(k) == Gone \/ (k = next /\ pc = "schedule") \/ k \in scheduled
Excused(k) == first_error_ # 0 \/ Failing(k)
ToTell(k) ==
  \/ Gone \/ (k = next /\ pc \in {"schedule", "post"}) \/ Queued(k)
  \/ With(k, BeforeStage \union BeforeTold) \/ k \in Told \/ Excused(k)

Accounted ==
  /\ \A k \in chosen : InHand(k) /\ Announced(k) /\ ToTell(k)
  /\ \A k \in lost : Excused(k)

Reported ==
  /\ report.made => pc \in {"returned", "threw"} /\ pending_ = 0
  /\ pc = "returned" => report.made

Tallied ==
  /\ tally.selected = Cardinality(chosen)
  /\ ~report.made /\ pc # "report" =>
       tally.completed = 0 /\ tally.failed = Cardinality(rejected)
  /\ pc = "report" =>
       /\ tally.completed = Cardinality(Completed)
       /\ tally.failed = Cardinality(rejected) + (tally.selected - tally.completed)
  /\ report.made => report.selected = tally.selected

LateOnce ==
  \/ late = {}
  \/ /\ cancelled /\ pc \notin {"schedule", "post"}
     /\ \E k \in Cases : late = {k}

Story ==
  /\ CallerKnows /\ QueueKnows /\ WorkersKnow /\ Verdicts
  /\ Accounted /\ Reported /\ Tallied /\ LateOnce

Base == TypeOK /\ IInv

-----------------------------------------------------------------------------
(* There are finitely many cases.                                          *)
LEMMA FiniteCases ==
  ASSUME NEW S \in SUBSET Cases
  PROVE  IsFiniteSet(S) /\ Cardinality(S) \in Nat
<1>1. IsFiniteSet(Cases)
  BY FS_Interval, FanInAssumption DEF Cases
<1>. QED
  BY <1>1, FS_Subset, FS_CardinalityType

(* A step leaves what is known of case k alone.                            *)
Same(k) ==
  /\ slot'[k] = slot[k]
  /\ k \in chosen' <=> k \in chosen
  /\ k \in rejected' <=> k \in rejected
  /\ k \in scheduled' <=> k \in scheduled
  /\ k \in lost' <=> k \in lost
  /\ k \in Told' <=> k \in Told

(* What is known of it then stays.                                         *)
LEMMA SameKeeps ==
  ASSUME NEW k, Same(k)
  PROVE  (Fresh(k) => Fresh(k)') /\ (Untouched(k) => Untouched(k)')
BY DEF Same, Fresh, Untouched

(* Of every case, if no field that tells of cases changes.                 *)
LEMMA AllSame ==
  ASSUME UNCHANGED Fates
  PROVE  \A k : Same(k)
BY DEF Fates, Same, Told

(* The steps that decide nothing.                                          *)
LEMMA Quiets ==
  ASSUME \/ Begin \/ ReportUnscheduled \/ Wait \/ TallyCompletions
         \/ ReportAndReturn \/ SpuriousWake \/ RequestStop \/ UNCHANGED vars
         \/ \E w \in Workers : Take(w) \/ Finish(w) \/ NotifyGroup(w)
  PROVE  UNCHANGED Fates
BY DEF Begin, ReportUnscheduled, Wait, TallyCompletions, ReportAndReturn,
       SpuriousWake, RequestStop, vars, Take, Finish, NotifyGroup, caller,
       work, Fates

(* The caller's other steps decide the case it is at.                      *)
LEMMA CallerDecides ==
  ASSUME Base, EvaluatePredicate \/ CheckToken \/ Schedule \/ Post
  PROVE  /\ \A k \in Cases : k # next => Same(k)
         /\ pc \in Before
         /\ UNCHANGED <<job, at, outcome, finished, cancelled, report>>
<1>. USE DEF Same, Told, group, work
<1>1. CASE EvaluatePredicate
  BY <1>1 DEF EvaluatePredicate, Unwind, Before, Base, TypeOK
<1>2. CASE CheckToken
  BY <1>2 DEF CheckToken, Before
<1>3. CASE Schedule
  BY <1>3 DEF Schedule, Unwind, Before
<1>4. CASE Post
  BY <1>4 DEF Post, Before
<1>. QED
  BY <1>1, <1>2, <1>3, <1>4

Decides(w) ==
  \/ CopyInput(w) \/ StageStart(w) \/ RunStage(w) \/ ReportStage(w)
  \/ ReportException(w) \/ TellCompleted(w)

(* A worker's steps in the lambda decide the case it has.                  *)
LEMMA WorkerDecides ==
  ASSUME Base, NEW w \in Workers, Decides(w)
  PROVE  /\ \A k \in Cases : k # job[w] => Same(k)
         /\ \A k \in Cases : k \in chosen' <=> k \in chosen
         /\ \A v \in Workers : v # w => at'[v] = at[v] /\ outcome'[v] = outcome[v]
         /\ UNCHANGED <<caller, group, cancelled, queue, job>>
<1>. USE DEF Same, Told, Mark, Goto, EscapeTo, Base, TypeOK, caller
<1>1. CASE CopyInput(w)
  BY <1>1 DEF CopyInput
<1>2. CASE StageStart(w) \/ RunStage(w) \/ ReportStage(w)
  BY <1>2 DEF StageStart, RunStage, ReportStage
<1>3. CASE ReportException(w)
  BY <1>3 DEF ReportException
<1>4. CASE TellCompleted(w)
  BY <1>4 DEF TellCompleted
<1>. QED
  BY <1>1, <1>2, <1>3, <1>4 DEF Decides

-----------------------------------------------------------------------------
(* No more cases complete than were chosen.                                *)
LEMMA CompletedAreChosen ==
  ASSUME Base, Verdicts
  PROVE  /\ Completed \subseteq chosen /\ chosen \subseteq Cases
         /\ Cardinality(Completed) \in Nat /\ Cardinality(chosen) \in Nat
         /\ Cardinality(Completed) <= Cardinality(chosen)
         /\ Cardinality(rejected) \in Nat
<1>1. chosen \in SUBSET Cases /\ rejected \in SUBSET Cases
  BY DEF Base, TypeOK
<1>2. Completed \subseteq chosen
  BY DEF Completed, Verdicts, Settled
<1>. QED
  BY <1>1, <1>2, FiniteCases, FS_Subset

(* What the types say of the fields that ParallelFanInProofs leaves out.   *)
StoryTypes ==
  /\ slot \in [Cases -> {"skipped", "completed", "failed"}]
  /\ tally \in [selected : Nat, completed : Nat, failed : Nat]
  /\ first_error_ \in Cases \union {0}
  /\ cancelled \in BOOLEAN
  /\ outcome \in [Workers -> {"ok", "error"}]
  /\ finished \subseteq Cases \X BOOLEAN
  /\ chosen \subseteq Cases /\ rejected \subseteq Cases
  /\ scheduled \subseteq Cases /\ lost \subseteq Cases /\ late \subseteq Cases
  /\ report \in [selected : Nat, completed : Nat, failed : Nat, made : BOOLEAN]

(* The two together are TypeOK.                                            *)
LEMMA TypesAreTypeOK ==
  /\ TypeOK <=> (Types /\ StoryTypes)
  /\ TypeOK' <=> (Types /\ StoryTypes)'
<1>. DEFINE Sets == /\ scheduled \subseteq Cases /\ chosen \subseteq Cases
                    /\ rejected \subseteq Cases /\ lost \subseteq Cases
                    /\ late \subseteq Cases
<1>1. UNION {scheduled, chosen, rejected, lost, late} \subseteq Cases <=> Sets
  OBVIOUS
<1>2. (UNION {scheduled, chosen, rejected, lost, late} \subseteq Cases)' <=> Sets'
  OBVIOUS
<1>3. TypeOK <=> (Types /\ StoryTypes)
  BY <1>1, Zenon DEF TypeOK, Types, StoryTypes, Contract!SlotState
<1>4. TypeOK' <=> (Types /\ StoryTypes)'
  BY <1>2, Zenon DEF TypeOK, Types, StoryTypes, Contract!SlotState
<1>. QED
  BY <1>3, <1>4

(* No step leaves the types: the failures derived in the tally are not     *)
(* negative.                                                               *)
LEMMA TypeOKStep ==
  ASSUME Base, Verdicts, Tallied, [Next]_vars
  PROVE  Base'
<1>8. IInv'
  BY TypesStep, OnePlaceStep, CountedStep, DrainedStep DEF Base, IInv
<1>. SUFFICES StoryTypes'
  BY <1>8, TypesAreTypeOK DEF Base, IInv
<1>. USE DEF StoryTypes, caller, group, work
<1>0. Types /\ StoryTypes /\ next \in Cases
  BY TypesAreTypeOK DEF Base, Types
<1>1. CASE \/ Begin \/ ReportUnscheduled \/ CheckToken \/ Schedule \/ Wait
           \/ SpuriousWake \/ RequestStop \/ UNCHANGED vars
  <2>1. CASE CheckToken
    BY <1>0, <2>1 DEF CheckToken
  <2>2. CASE Schedule
    BY <1>0, <2>2 DEF Schedule
  <2>. QED
    BY <1>0, <1>1, <2>1, <2>2 DEF Begin, ReportUnscheduled, Wait, SpuriousWake,
                                  RequestStop, vars
<1>2. CASE EvaluatePredicate
  BY <1>0, <1>2 DEF EvaluatePredicate
<1>3. CASE Post
  BY <1>0, <1>3 DEF Post, KeepFirst
<1>4. CASE TallyCompletions
  <2>1. tally.selected - Cardinality(Completed) \in Nat /\ Cardinality(Completed) \in Nat
    BY CompletedAreChosen, <1>0 DEF Tallied
  <2>2. tally' \in [selected : Nat, completed : Nat, failed : Nat]
    <3>. DEFINE c == Cardinality(Completed)
    <3>1. tally' = [tally EXCEPT !.completed = c, !.failed = @ + (tally.selected - c)]
      BY <1>4 DEF TallyCompletions
    <3>2. tally.failed + (tally.selected - c) \in Nat /\ c \in Nat
      BY <1>0, <2>1
    <3>. HIDE DEF c
    <3>. QED
      BY <1>0, <3>1, <3>2
  <2>. QED
    BY <1>0, <1>4, <2>2 DEF TallyCompletions
<1>5. CASE ReportAndReturn
  BY <1>0, <1>5 DEF ReportAndReturn
<1>6. ASSUME NEW w \in Workers, WorkerStep(w) PROVE StoryTypes'
  <2>. USE DEF Goto, Mark, EscapeTo
  <2>0. at[w] # "idle" => job[w] \in Cases
    BY InCases, <1>0 DEF Base, IInv, OnePlace
  <2>1. CASE Take(w)
    BY <1>0, <2>1 DEF Take
  <2>2. CASE CopyInput(w)
    BY <1>0, <2>0, <2>2 DEF CopyInput
  <2>3. CASE StageStart(w) \/ RunStage(w) \/ ReportStage(w)
    BY <1>0, <2>3 DEF StageStart, RunStage, ReportStage
  <2>4. CASE ReportException(w)
    BY <1>0, <2>4 DEF ReportException
  <2>5. CASE TellCompleted(w)
    <3>0. <<job[w], slot[job[w]] # "failed">> \in Cases \X BOOLEAN
      BY <2>0, <2>5 DEF TellCompleted
    <3>1. finished' \subseteq Cases \X BOOLEAN
      BY <1>0, <2>5, <3>0 DEF TellCompleted
    <3>2. outcome' \in [Workers -> {"ok", "error"}]
      BY <1>0, <2>5 DEF TellCompleted
    <3>. QED
      BY <1>0, <2>5, <3>1, <3>2 DEF TellCompleted
  <2>6. CASE Finish(w)
    BY <1>0, <2>0, <2>6 DEF Finish, KeepFirst
  <2>7. CASE NotifyGroup(w)
    BY <1>0, <2>7 DEF NotifyGroup
  <2>. QED
    BY <1>6, <2>1, <2>2, <2>3, <2>4, <2>5, <2>6, <2>7 DEF WorkerStep
<1>. QED
  BY <1>1, <1>2, <1>3, <1>4, <1>5, <1>6 DEF Next, CallerStep, Terminated

-----------------------------------------------------------------------------
(* Who has a case: nobody has the one the caller is about to post, or a    *)
(* later one, and no two have the same.                                    *)
LEMMA Holders ==
  ASSUME Base
  PROVE  /\ next \in Cases /\ Cases \subseteq Nat /\ 0 \notin Cases
         /\ \A w \in Workers : job[w] # 0 => job[w] \in Cases /\ ~(job[w] > next)
         /\ \A i \in 1 .. Len(queue) : queue[i] \in Cases /\ ~(queue[i] > next)
         /\ pc \in Before => /\ \A w \in Workers : job[w] # next
                             /\ \A i \in 1 .. Len(queue) : queue[i] # next
         /\ \A v, w \in Workers : v # w /\ job[w] # 0 => job[v] # job[w]
         /\ \A w \in Workers : \A i \in 1 .. Len(queue) : queue[i] # job[w]
         /\ \A w \in Workers : at[w] # "idle" <=> job[w] # 0
<1>1. next \in Cases /\ Cases \subseteq Nat /\ 0 \notin Cases
  BY DEF Base, TypeOK, Cases
<1>2. /\ \A w \in Workers : job[w] # 0 => job[w] \in Cases /\ Passed(job[w], next, pc)
      /\ \A i \in 1 .. Len(queue) : queue[i] \in Cases /\ Passed(queue[i], next, pc)
  BY InCases DEF Base, IInv, OnePlace
<1>3. \A k \in Cases : Passed(k, next, pc) => ~(k > next) /\ (pc \in Before => k # next)
  BY <1>1 DEF Passed
<1>. QED
  BY <1>1, <1>2, <1>3 DEF Base, IInv, OnePlace

(* A worker's own steps leave the case the caller is at, and those to      *)
(* come, alone.                                                            *)
LEMMA CallerKnowsStep ==
  ASSUME Base, CallerKnows, [Next]_vars
  PROVE  CallerKnows'
<1>. USE Holders, SameKeeps DEF CallerKnows, Before
<1>0. \A k \in Cases : k > next + 1 => k > next
  BY DEF Cases
<1>1. CASE UNCHANGED Fates /\ UNCHANGED <<pc, next>>
  BY <1>1, AllSame DEF Fates
<1>2. CASE Begin \/ ReportUnscheduled \/ Wait \/ TallyCompletions \/ ReportAndReturn
           \/ SpuriousWake \/ \E w \in Workers : NotifyGroup(w)
  <2>1. \A k : Same(k)
    BY <1>2, AllSame, Quiets
  <2>2. CASE ReportUnscheduled
    BY <2>1, <2>2, FanInAssumption DEF ReportUnscheduled, Advance, Unwind, Cases
  <2>. QED
    BY <1>2, <2>1, <2>2 DEF Begin, Wait, TallyCompletions, ReportAndReturn, SpuriousWake,
                 NotifyGroup, Unwind
<1>3. CASE EvaluatePredicate \/ CheckToken \/ Schedule
  <2>1. \A k \in Cases : k # next => Same(k)
    BY <1>3, CallerDecides
  <2>2. \A k \in Cases : k > next => Fresh(k)'
    BY <2>1
  <2>3. next' = next
    BY <1>3 DEF EvaluatePredicate, CheckToken, Schedule
  <2>4. CASE EvaluatePredicate
    <3>1. pc' = "token" => Same(next)
      BY <2>4 DEF EvaluatePredicate, Same, Told, work
    <3>. QED
      BY <2>2, <2>3, <2>4, <3>1 DEF EvaluatePredicate, Unwind
  <2>5. CASE CheckToken
    <3>1. pc' = "schedule" => Untouched(next)'
      BY <2>5 DEF CheckToken, Fresh, Untouched, Told, work
    <3>. QED
      BY <2>2, <2>3, <2>5, <3>1 DEF CheckToken
  <2>6. CASE Schedule
    <3>1. Untouched(next)'
      BY <2>6 DEF Schedule, Untouched, Told, work
    <3>. QED
      BY <2>2, <2>3, <2>6, <3>1 DEF Schedule, Unwind
  <2>. QED
    BY <1>3, <2>4, <2>5, <2>6
<1>4. CASE Post
  <2>1. \A k \in Cases : k > next => Fresh(k)'
    BY <1>4, CallerDecides
  <2>2. \/ pc' = "predicate" /\ next' = next + 1 /\ next' \in Cases
        \/ pc' = "wait" /\ next' = next
    BY <1>4, AdvanceMoves DEF Post, Base, IInv
  <2>3. \A k \in Cases : k > next' => k > next
    BY <2>2 DEF Cases
  <2>4. pc' = "predicate" => Fresh(next)'
    BY <2>1, <2>2 DEF Fresh
  <2>. QED
    BY <2>1, <2>2, <2>3, <2>4
<1>5. ASSUME NEW w \in Workers, Decides(w) PROVE CallerKnows'
  <2>1. UNCHANGED <<pc, next>> /\ \A k \in Cases : k # job[w] => Same(k)
    BY <1>5, WorkerDecides DEF caller
  <2>2. job[w] # 0
    BY <1>5 DEF Decides, CopyInput, StageStart, RunStage, ReportStage,
                ReportException, TellCompleted
  <2>3. pc \in Before => Same(next)
    BY <2>1, <2>2
  <2>4. \A k \in Cases : k > next => Same(k)
    BY <2>1, <2>2
  <2>5. pc' = "post" => next' \in scheduled'
    BY <2>1, <2>3 DEF Same
  <2>. QED
    BY <2>1, <2>3, <2>4, <2>5
<1>6. ASSUME NEW w \in Workers, Take(w) \/ Finish(w) PROVE CallerKnows'
  BY <1>1, <1>6, Quiets DEF Take, Finish, caller
<1>7. CASE RequestStop \/ UNCHANGED vars
  BY <1>1, <1>7, Quiets DEF RequestStop, vars, caller
<1>. QED
  BY <1>2, <1>3, <1>4, <1>5, <1>6, <1>7
  DEF Next, CallerStep, WorkerStep, Decides, Terminated

(* A queued case is left alone until a worker takes it.                    *)
LEMMA QueueKnowsStep ==
  ASSUME Base, CallerKnows, QueueKnows, [Next]_vars
  PROVE  QueueKnows'
<1>. USE Holders, SameKeeps
<1>0. ASSUME UNCHANGED queue, \A i \in 1 .. Len(queue) : Same(queue[i])
      PROVE  QueueKnows'
  BY <1>0 DEF QueueKnows, Same
<1>1. CASE UNCHANGED Fates /\ UNCHANGED queue
  BY <1>0, <1>1, AllSame
<1>2. CASE EvaluatePredicate \/ CheckToken \/ Schedule
  BY <1>0, <1>2, CallerDecides DEF EvaluatePredicate, CheckToken, Schedule, work
<1>3. CASE Post
  <2>1. \A i \in 1 .. Len(queue) : Same(queue[i])
    BY <1>3, CallerDecides
  <2>2. CASE queue' = Append(queue, next) /\ UNCHANGED lost
    <3>1. \A k : k = next => Untouched(k)' /\ k \in scheduled'
      BY <1>3, <2>2 DEF CallerKnows, Untouched, Post, Told
    <3>2. /\ Len(queue) \in Nat /\ Len(queue') = Len(queue) + 1
          /\ \A i \in 1 .. Len(queue) : queue'[i] = queue[i]
          /\ queue'[Len(queue) + 1] = next
      BY <2>2, AppendProperties, LenProperties DEF Base, TypeOK
    <3>3. \A k : Queued(k) => Untouched(k)' /\ k \in scheduled'
      BY <2>1 DEF QueueKnows, Same, Queued
    <3>4. \A i \in 1 .. Len(queue') : i \in 1 .. Len(queue) \/ i = Len(queue) + 1
      BY <3>2
    <3>5. \A i \in 1 .. Len(queue') : queue'[i] = next \/ Queued(queue'[i])
      BY <3>2, <3>4 DEF Queued
    <3>. QED
      BY <3>1, <3>3, <3>5 DEF QueueKnows
  <2>3. CASE UNCHANGED queue
    BY <1>0, <2>1, <2>3
  <2>. QED
    BY <1>3, <2>2, <2>3 DEF Post
<1>4. ASSUME NEW w \in Workers, Decides(w) PROVE QueueKnows'
  BY <1>0, <1>4, WorkerDecides
<1>5. ASSUME NEW w \in Workers, Take(w) PROVE QueueKnows'
  <2>1. \A k : Same(k)
    BY <1>5, AllSame, Quiets
  <2>2. \A i \in 1 .. Len(queue') : i + 1 \in 1 .. Len(queue) /\ queue'[i] = queue[i + 1]
    BY <1>5, Popped DEF Base, IInv
  <2>3. \A k : Queued(k) => Untouched(k)' /\ k \in scheduled'
    BY <2>1 DEF QueueKnows, Same, Queued
  <2>4. \A i \in 1 .. Len(queue') : Queued(queue'[i])
    BY <2>2 DEF Queued
  <2>. QED
    BY <2>3, <2>4 DEF QueueKnows
<1>6. ASSUME NEW w \in Workers, Finish(w) \/ NotifyGroup(w) PROVE QueueKnows'
  BY <1>1, <1>6, Quiets DEF Finish, NotifyGroup
<1>7. CASE \/ Begin \/ ReportUnscheduled \/ Wait \/ TallyCompletions
           \/ ReportAndReturn \/ SpuriousWake \/ RequestStop \/ UNCHANGED vars
  BY <1>1, <1>7, Quiets DEF Begin, ReportUnscheduled, Wait, TallyCompletions,
     ReportAndReturn, SpuriousWake, RequestStop, vars, work
<1>. QED
  BY <1>2, <1>3, <1>4, <1>5, <1>6, <1>7
  DEF Next, CallerStep, WorkerStep, Decides, Terminated

(* A worker settles the case it has, and then tells of it.                 *)
LEMMA WorkersKnowStep ==
  ASSUME Base, QueueKnows, WorkersKnow, [Next]_vars
  PROVE  WorkersKnow'
<1>. USE Holders, SameKeeps
<1>. DEFINE Knows(v) == job[v] # 0 =>
               /\ job[v] \in chosen /\ job[v] \in scheduled
               /\ at[v] \in BeforeStage => Untouched(job[v])
               /\ at[v] \in BeforeTold =>
                    slot[job[v]] \in Settled /\ job[v] \notin lost /\ job[v] \notin Told
<1>a. \A v \in Workers : Knows(v)
  BY DEF WorkersKnow
<1>b. (\A v \in Workers : Knows(v)') => WorkersKnow'
  BY DEF WorkersKnow
<1>0. ASSUME NEW v \in Workers, job'[v] = job[v], Same(job[v]),
             \/ at'[v] = at[v] \/ at'[v] \notin BeforeStage \union BeforeTold
      PROVE  Knows(v)'
  BY <1>0, <1>a DEF Same, Untouched
<1>c. ASSUME NEW v \in Workers, job'[v] = 0 PROVE Knows(v)'
  BY <1>c
<1>. HIDE DEF Knows
<1>1. CASE UNCHANGED Fates /\ UNCHANGED <<job, at>>
  BY <1>0, <1>b, <1>1, AllSame
<1>2. CASE EvaluatePredicate \/ CheckToken \/ Schedule \/ Post
  <2>1. \A v \in Workers : job[v] # 0 => Same(job[v])
    BY <1>2, CallerDecides
  <2>2. UNCHANGED <<job, at>>
    BY <1>2, CallerDecides
  <2>. QED
    BY <1>0, <1>b, <1>c, <2>1, <2>2
<1>4. ASSUME NEW w \in Workers, Decides(w) PROVE WorkersKnow'
  <2>1. /\ \A k \in Cases : k # job[w] => Same(k)
        /\ \A v \in Workers : v # w => at'[v] = at[v]
        /\ UNCHANGED <<chosen, scheduled, job>>
    BY <1>4, WorkerDecides DEF caller
  <2>2. \A v \in Workers : v # w => Knows(v)'
    BY <1>0, <1>c, <2>1
  <2>3. job[w] \in Cases
    BY <1>4 DEF Decides, CopyInput, StageStart, RunStage, ReportStage,
                ReportException, TellCompleted
  <2>4. Knows(w)
    BY <1>a
  <2>9. Knows(w)'
    <3>. USE DEF Knows, BeforeStage, BeforeTold, Settled, Base, TypeOK, Untouched, Goto,
                 Mark, EscapeTo, Told
    <3>1. CASE CopyInput(w)
      BY <2>1, <2>3, <2>4, <3>1 DEF CopyInput
    <3>2. CASE StageStart(w) \/ RunStage(w) \/ ReportStage(w)
      BY <2>1, <2>3, <2>4, <3>2 DEF StageStart, RunStage, ReportStage
    <3>3. CASE ReportException(w)
      BY <2>1, <2>3, <2>4, <3>3 DEF ReportException
    <3>4. CASE TellCompleted(w)
      BY <2>1, <2>3, <2>4, <3>4 DEF TellCompleted
    <3>. QED
      BY <1>4, <3>1, <3>2, <3>3, <3>4 DEF Decides
  <2>. QED
    BY <1>b, <2>2, <2>9
<1>5. ASSUME NEW w \in Workers, Take(w) PROVE WorkersKnow'
  <2>1. \A k : Same(k)
    BY <1>5, AllSame, Quiets
  <2>2. /\ Len(queue) \in Nat \ {0}
        /\ \A v \in Workers : job'[v] = IF v = w THEN queue[1] ELSE job[v]
        /\ \A v \in Workers : at'[v] = IF v = w THEN "copy" ELSE at[v]
    BY <1>5, Popped DEF Base, IInv
  <2>3. \A k : k = queue[1] => Untouched(k)' /\ k \in scheduled' /\ k \in chosen'
    <3>1. 1 \in 1 .. Len(queue)
      BY <2>2
    <3>. QED
      BY <2>1, <3>1 DEF QueueKnows, Same, Untouched
  <2>4. Knows(w)'
    BY <2>2, <2>3 DEF Knows, BeforeTold, Untouched
  <2>. QED
    BY <1>0, <1>b, <2>1, <2>2, <2>4
<1>6. ASSUME NEW w \in Workers, Finish(w) \/ NotifyGroup(w) PROVE WorkersKnow'
  <2>1. \A k : Same(k)
    BY <1>6, AllSame, Quiets
  <2>2. \A v \in Workers : /\ job'[v] = job[v] \/ job'[v] = 0
                           /\ at'[v] = at[v] \/ at'[v] \in {"notify", "idle"}
    BY <1>6 DEF Finish, NotifyGroup, Goto, Base, TypeOK
  <2>3. \A v \in Workers : at'[v] = at[v] \/ at'[v] \notin BeforeStage \union BeforeTold
    BY <2>2 DEF BeforeStage, BeforeTold
  <2>. QED
    BY <1>0, <1>b, <1>c, <2>1, <2>2, <2>3
<1>7. CASE \/ Begin \/ ReportUnscheduled \/ Wait \/ TallyCompletions
           \/ ReportAndReturn \/ SpuriousWake \/ RequestStop \/ UNCHANGED vars
  BY <1>1, <1>7, Quiets DEF Begin, ReportUnscheduled, Wait, TallyCompletions,
     ReportAndReturn, SpuriousWake, RequestStop, vars, work
<1>. QED
  BY <1>2, <1>4, <1>5, <1>6, <1>7
  DEF Next, CallerStep, WorkerStep, Decides, Terminated

(* A case is chosen or rejected, not both; it is lost or its slot is       *)
(* settled; its case_completed says what its slot says from then on.       *)
LEMMA VerdictsStep ==
  ASSUME Base, CallerKnows, WorkersKnow, Verdicts, [Next]_vars
  PROVE  Verdicts'
<1>. USE Holders
<1>1. CASE UNCHANGED Fates
  BY <1>1 DEF Fates, Verdicts
<1>2. CASE EvaluatePredicate
  <2>1. CASE UNCHANGED <<slot, rejected>>
    BY <1>1, <1>2, <2>1 DEF EvaluatePredicate, work, Fates
  <2>2. CASE slot' = [slot EXCEPT ![next] = "failed"] /\ rejected' = rejected \union {next}
    <3>1. Fresh(next) /\ UNCHANGED <<chosen, scheduled, lost, finished>>
      BY <1>2, <2>2 DEF EvaluatePredicate, CallerKnows, work
    <3>2. \A k : slot'[k] = IF k = next THEN "failed" ELSE slot[k]
      BY <2>2 DEF Base, TypeOK
    <3>. QED
      BY <2>2, <3>1, <3>2 DEF Verdicts, Fresh, Told, Settled
  <2>. QED
    BY <1>2, <2>1, <2>2 DEF EvaluatePredicate
<1>3. CASE CheckToken
  BY <1>3 DEF CheckToken, CallerKnows, Fresh, Verdicts, Settled, work
<1>4. CASE Schedule
  BY <1>4 DEF Schedule, CallerKnows, Untouched, Verdicts, Settled, work
<1>5. CASE Post
  BY <1>5 DEF Post, CallerKnows, Untouched, Verdicts, Settled
<1>6. ASSUME NEW w \in Workers, Decides(w) PROVE Verdicts'
  <2>1. UNCHANGED <<chosen, rejected, scheduled>>
    BY <1>6, WorkerDecides DEF caller
  <2>2. job[w] \in Cases /\ job[w] \in chosen /\ job[w] \in scheduled
    BY <1>6 DEF Decides, CopyInput, StageStart, RunStage, ReportStage,
                ReportException, TellCompleted, WorkersKnow
  <2>3. CASE CopyInput(w)
    <3>1. Untouched(job[w])
      BY <2>2, <2>3 DEF CopyInput, WorkersKnow, BeforeStage
    <3>. QED
      BY <2>1, <2>2, <2>3, <3>1 DEF CopyInput, Verdicts, Untouched, Settled
  <2>4. CASE StageStart(w) \/ RunStage(w) \/ ReportStage(w)
    <3>1. job[w] \notin lost /\ job[w] \notin Told
      BY <2>2, <2>4 DEF StageStart, RunStage, ReportStage, WorkersKnow, BeforeStage,
                   BeforeTold, Untouched
    <3>2. UNCHANGED <<finished, lost>>
      BY <2>4 DEF StageStart, RunStage, ReportStage
    <3>3. UNCHANGED slot \/ \E s \in Settled : slot' = [slot EXCEPT ![job[w]] = s]
      BY <2>4 DEF StageStart, RunStage, ReportStage, Mark, Settled
    <3>4. CASE UNCHANGED slot
      BY <2>1, <3>2, <3>4 DEF Verdicts
    <3>5. ASSUME NEW s \in Settled, slot' = [slot EXCEPT ![job[w]] = s] PROVE Verdicts'
      <4>1. \A k \in Cases : slot'[k] = IF k = job[w] THEN s ELSE slot[k]
        BY <2>2, <3>5 DEF Base, TypeOK
      <4>2. job[w] \notin rejected /\ \A e \in finished : e[1] # job[w]
        BY <2>2, <3>1 DEF Verdicts, Told
      <4>3. /\ rejected \subseteq Cases /\ lost \subseteq Cases
            /\ \A e \in finished : e[1] \in Cases
        BY TypesAreTypeOK DEF Base, StoryTypes
      <4>. QED
        BY <2>1, <2>2, <3>1, <3>2, <3>5, <4>1, <4>2, <4>3 DEF Verdicts
    <3>. QED
      BY <3>3, <3>4, <3>5
  <2>5. CASE ReportException(w)
    BY <2>1, <2>5 DEF ReportException, Verdicts
  <2>6. CASE TellCompleted(w)
    <3>1. slot[job[w]] \in Settled
      BY <2>2, <2>6 DEF TellCompleted, WorkersKnow, BeforeTold
    <3>2. UNCHANGED <<slot, lost>> /\ finished' = finished \union {<<job[w], slot[job[w]] # "failed">>}
      BY <2>6 DEF TellCompleted
    <3>3. \A e \in finished' : \/ e \in finished
                               \/ e[1] = job[w] /\ (e[2] <=> slot[job[w]] # "failed")
      <4>. DEFINE b == slot[job[w]] # "failed"
      <4>1. \A e \in finished' : e \in finished \/ e = <<job[w], b>>
        BY <3>2
      <4>. HIDE DEF b
      <4>2. \A e \in finished' : e \in finished \/ (e[1] = job[w] /\ e[2] = b)
        BY <4>1
      <4>. QED
        BY <4>2, Zenon DEF b
    <3>4. \A e \in finished' : /\ e[1] \in scheduled' /\ slot'[e[1]] \in Settled
                               /\ e[2] <=> slot'[e[1]] = "completed"
      <4>. SUFFICES ASSUME NEW e \in finished'
                    PROVE  /\ e[1] \in scheduled /\ slot[e[1]] \in Settled
                           /\ e[2] <=> slot[e[1]] = "completed"
        BY <2>1, <3>2
      <4>1. CASE e \in finished
        BY <4>1 DEF Verdicts
      <4>2. CASE e[1] = job[w] /\ (e[2] <=> slot[job[w]] # "failed")
        BY <2>2, <3>1, <4>2 DEF Settled
      <4>. QED
        BY <3>3, <4>1, <4>2
    <3>. QED
      BY <2>1, <3>2, <3>4 DEF Verdicts
  <2>. QED
    BY <1>6, <2>3, <2>4, <2>5, <2>6 DEF Decides
<1>7. ASSUME NEW w \in Workers, Take(w) \/ Finish(w) \/ NotifyGroup(w) PROVE Verdicts'
  BY <1>1, <1>7, Quiets
<1>8. CASE \/ Begin \/ ReportUnscheduled \/ Wait \/ TallyCompletions
           \/ ReportAndReturn \/ SpuriousWake \/ RequestStop \/ UNCHANGED vars
  BY <1>1, <1>8, Quiets
<1>. QED
  BY <1>2, <1>3, <1>4, <1>5, <1>6, <1>7, <1>8
  DEF Next, CallerStep, WorkerStep, Decides, Terminated

-----------------------------------------------------------------------------
(* A caller that has left, and an error of the group, stay.                *)
LEMMA GoneStays ==
  ASSUME Base, [Next]_vars
  PROVE  (Gone => Gone') /\ (first_error_ # 0 => first_error_' # 0)
<1>1. Gone => Gone'
  BY DEF Gone, Next, CallerStep, WorkerStep, Terminated, vars, caller, group, work, Begin,
         EvaluatePredicate, ReportUnscheduled, CheckToken, Schedule, Post, Wait,
         TallyCompletions, ReportAndReturn, RequestStop, SpuriousWake, Take, CopyInput,
         StageStart, RunStage, ReportStage, ReportException, TellCompleted, Finish,
         NotifyGroup
<1>2. first_error_ # 0 => first_error_' # 0
  BY DEF KeepFirst, Next, CallerStep, WorkerStep, Terminated, vars, caller, group, work,
         Begin, EvaluatePredicate, ReportUnscheduled, CheckToken, Schedule, Post, Wait,
         TallyCompletions, ReportAndReturn, RequestStop, SpuriousWake, Take, CopyInput,
         StageStart, RunStage, ReportStage, ReportException, TellCompleted, Finish,
         NotifyGroup
<1>. QED
  BY <1>1, <1>2

(* Some account of a case is kept up by a step that moves no case.         *)
LEMMA AccountFrame ==
  ASSUME Base, [Next]_vars, UNCHANGED <<queue, job, at, outcome>>,
         NEW k \in Cases, slot[k] \in Settled => slot'[k] \in Settled,
         k \in Told => k \in Told', k \in scheduled => k \in scheduled',
         k \in lost => k \in lost',
         pc \in {"schedule", "post"} => k # next \/ UNCHANGED <<pc, next>>
  PROVE  /\ InHand(k) => InHand(k)'
         /\ Announced(k) => Announced(k)'
         /\ Excused(k) => Excused(k)'
         /\ ToTell(k) => ToTell(k)'
<1>1. Excused(k) => Excused(k)'
  BY GoneStays DEF Excused, Failing
<1>2. (Queued(k) => Queued(k)') /\ \A p : With(k, p) => With(k, p)'
  BY DEF Queued, With
<1>. QED
  BY <1>1, <1>2, GoneStays DEF InHand, Announced, ToTell

(* No chosen case drops out of the account: it is with somebody, or its    *)
(* slot is settled, or it is lost with an error on its way to the group.   *)
LEMMA AccountedStep ==
  ASSUME Base, CallerKnows, WorkersKnow, Verdicts, Accounted, Reported, [Next]_vars
  PROVE  Accounted'
<1>. USE Holders
<1>0. chosen \subseteq Cases /\ lost \subseteq Cases
  BY TypesAreTypeOK DEF Base, StoryTypes
<1>a. ASSUME UNCHANGED <<chosen, lost>>,
             \A k \in Cases : /\ InHand(k) => InHand(k)'
                              /\ Announced(k) => Announced(k)'
                              /\ Excused(k) => Excused(k)'
                              /\ ToTell(k) => ToTell(k)'
      PROVE  Accounted'
  BY <1>0, <1>a DEF Accounted
<1>1. CASE /\ UNCHANGED Fates /\ UNCHANGED <<queue, job, at, outcome>>
           /\ pc \in {"schedule", "post"} => UNCHANGED <<pc, next>>
  BY <1>1, <1>a, AccountFrame DEF Fates, Told
<1>2. CASE EvaluatePredicate
  <2>1. /\ UNCHANGED <<queue, job, at, outcome, chosen, lost, scheduled, finished>>
        /\ pc = "predicate"
    BY <1>2 DEF EvaluatePredicate, work
  <2>2. \A k \in Cases : slot[k] \in Settled => slot'[k] \in Settled
    BY <1>2 DEF EvaluatePredicate, Base, TypeOK, Settled
  <2>. QED
    BY <1>a, <2>1, <2>2, AccountFrame DEF Told
<1>3. CASE CheckToken
  <2>1. /\ UNCHANGED <<queue, job, at, outcome, lost, scheduled, finished, slot, next>>
        /\ pc = "token"
        /\ UNCHANGED chosen \/ (pc' = "schedule" /\ chosen' = chosen \union {next})
    BY <1>3 DEF CheckToken, work
  <2>2. \A k \in Cases : /\ InHand(k) => InHand(k)'
                         /\ Announced(k) => Announced(k)'
                         /\ Excused(k) => Excused(k)'
                         /\ ToTell(k) => ToTell(k)'
    BY <2>1, AccountFrame DEF Told
  <2>3. \A k : pc' = "schedule" /\ k = next => InHand(k)' /\ Announced(k)' /\ ToTell(k)'
    BY <2>1 DEF InHand, Announced, ToTell
  <2>. QED
    BY <1>0, <2>1, <2>2, <2>3 DEF Accounted
<1>4. CASE Schedule
  <2>1. /\ UNCHANGED <<queue, job, at, outcome, lost, finished, slot, next, chosen, report,
                       first_error_>>
        /\ pc = "schedule" /\ scheduled \subseteq scheduled'
        /\ (pc' = "post" /\ next \in scheduled') \/ pc' = "threw"
    BY <1>4 DEF Schedule, Unwind, work, group
  <2>2. Gone' \/ (pc' = "post" /\ next \in scheduled')
    BY <2>1 DEF Gone, Reported
  <2>3. \A k \in Cases : k # next =>
          /\ InHand(k) => InHand(k)'
          /\ Announced(k) => Announced(k)'
          /\ ToTell(k) => ToTell(k)'
    BY <2>1, AccountFrame DEF Told
  <2>4. \A k : k = next => InHand(k)' /\ Announced(k)' /\ ToTell(k)'
    BY <2>1, <2>2 DEF InHand, Announced, ToTell
  <2>5. \A k \in Cases : Excused(k) => Excused(k)'
    BY <2>1 DEF Excused, Failing
  <2>. QED
    BY <1>0, <2>1, <2>3, <2>4, <2>5 DEF Accounted
<1>5. CASE Post
  <2>1. /\ UNCHANGED <<job, at, outcome, scheduled, finished, slot, chosen>>
        /\ pc = "post" /\ next \in scheduled
    BY <1>5 DEF Post, CallerKnows
  <2>2. \/ queue' = Append(queue, next) /\ UNCHANGED <<first_error_, lost>>
        \/ /\ UNCHANGED queue /\ lost' = lost \union {next}
           /\ first_error_' # 0
    BY <1>5 DEF Post, KeepFirst
  <2>3. \A k : Queued(k) => Queued(k)'
    <3>1. CASE queue' = Append(queue, next)
      <4>1. /\ Len(queue) \in Nat /\ Len(queue') = Len(queue) + 1
            /\ \A i \in 1 .. Len(queue) : queue'[i] = queue[i]
        BY <3>1, AppendProperties, LenProperties DEF Base, TypeOK
      <4>. QED
        BY <4>1 DEF Queued
    <3>. QED
      BY <2>2, <3>1 DEF Queued
  <2>4. \A k : k = next => Queued(k)' \/ (k \in lost' /\ first_error_' # 0)
    <3>1. CASE queue' = Append(queue, next)
      <4>1. Len(queue) + 1 \in 1 .. Len(queue') /\ queue'[Len(queue) + 1] = next
        BY <3>1, AppendProperties, LenProperties DEF Base, TypeOK
      <4>. QED
        BY <4>1 DEF Queued
    <3>. QED
      BY <2>2, <3>1
  <2>5. \A k : Excused(k) => Excused(k)'
    BY <2>1, GoneStays DEF Excused, Failing
  <2>6. \A k \in chosen : InHand(k)'
    <3>1. \A k : k # next /\ InHand(k) => InHand(k)'
      BY <2>1, <2>2, <2>3, GoneStays DEF InHand, With
    <3>. QED
      BY <2>4, <3>1 DEF InHand, Accounted
  <2>7. \A k \in chosen : ToTell(k)'
    <3>1. \A k : k # next /\ ToTell(k) => ToTell(k)'
      BY <2>1, <2>3, <2>5, GoneStays DEF ToTell, With, Told
    <3>. QED
      BY <2>4, <3>1 DEF ToTell, Excused, Accounted
  <2>8. \A k \in chosen : Announced(k)'
    BY <2>1, GoneStays DEF Accounted, Announced
  <2>9. \A k \in lost' : Excused(k)'
    BY <2>2, <2>5 DEF Accounted, Excused
  <2>. QED
    BY <2>1, <2>6, <2>7, <2>8, <2>9 DEF Accounted
<1>6. ASSUME NEW w \in Workers, Decides(w) PROVE Accounted'
  <2>. DEFINE j == job[w]
  <2>0. /\ \A k \in Cases : k # j => Same(k)
        /\ \A v \in Workers : v # w => at'[v] = at[v] /\ outcome'[v] = outcome[v]
        /\ UNCHANGED <<caller, group, cancelled, queue, job>>
    BY <1>6, WorkerDecides
  <2>1. /\ at[w] \in BeforeStage \union BeforeTold
        /\ j \in Cases /\ j \in chosen /\ j \in scheduled /\ j \notin lost
        /\ at[w] \in BeforeTold => slot[j] \in Settled
    BY <1>6 DEF Decides, CopyInput, StageStart, RunStage, ReportStage, ReportException,
                TellCompleted, WorkersKnow, BeforeStage, BeforeTold, Untouched
  <2>2. /\ \A v \in Workers : v # w => job[v] # j
        /\ \A k : k # j => \A p : With(k, p) => With(k, p)'
        /\ \A k : k # j => (Failing(k) => Failing(k)')
        /\ \A k : Queued(k) => Queued(k)'
    BY <2>0, <2>1 DEF With, Failing, Queued
  <2>3. \A k \in Cases : k # j =>
          /\ InHand(k) => InHand(k)'
          /\ Announced(k) => Announced(k)'
          /\ ToTell(k) => ToTell(k)'
          /\ Excused(k) => Excused(k)'
    BY <2>0, <2>2, GoneStays DEF InHand, Announced, ToTell, Excused, Same, caller, group
  <2>. USE DEF Goto, Mark, EscapeTo, Base, TypeOK
  <2>4. \/ at'[w] \in BeforeStage /\ UNCHANGED <<slot, lost>>
        \/ slot'[j] \in Settled /\ UNCHANGED lost
        \/ lost' = lost \union {j} /\ at'[w] = "finish" /\ outcome'[w] = "error"
    <3>. USE <2>1 DEF BeforeStage, BeforeTold, Settled
    <3>1. CASE CopyInput(w)
      BY <3>1 DEF CopyInput
    <3>2. CASE StageStart(w) \/ RunStage(w) \/ ReportStage(w)
      BY <3>2 DEF StageStart, RunStage, ReportStage
    <3>3. CASE ReportException(w) \/ TellCompleted(w)
      BY <3>3 DEF ReportException, TellCompleted
    <3>. QED
      BY <1>6, <3>1, <3>2, <3>3 DEF Decides
  <2>5. \/ at'[w] \in BeforeStage \union BeforeTold
        \/ at'[w] = "finish" /\ outcome'[w] = "error"
        \/ j \in Told'
    <3>. USE DEF BeforeStage, BeforeTold
    <3>1. CASE CopyInput(w)
      BY <3>1 DEF CopyInput
    <3>2. CASE StageStart(w) \/ RunStage(w) \/ ReportStage(w)
      BY <3>2 DEF StageStart, RunStage, ReportStage
    <3>3. CASE ReportException(w)
      BY <3>3 DEF ReportException
    <3>4. CASE TellCompleted(w)
      <4>1. <<j, slot[j] # "failed">> \in finished'
        BY <3>4 DEF TellCompleted
      <4>. QED
        BY <4>1 DEF Told
    <3>. QED
      BY <1>6, <3>1, <3>2, <3>3, <3>4 DEF Decides
  <2>6. \A k : k = j => InHand(k)' /\ Announced(k)' /\ ToTell(k)' /\ (k \in lost' => Excused(k)')
    BY <2>0, <2>1, <2>4, <2>5 DEF InHand, Announced, ToTell, Excused, With, Failing, caller
  <2>7. \A k \in lost' : k = j \/ k \in lost
    BY <2>4
  <2>8. chosen' = chosen
    BY <2>0 DEF caller
  <2>. HIDE DEF j
  <2>. QED
    BY <1>0, <2>3, <2>6, <2>7, <2>8 DEF Accounted
<1>7. ASSUME NEW w \in Workers, Take(w) PROVE Accounted'
  <2>1. \A k : Same(k)
    BY <1>7, AllSame, Quiets
  <2>2. UNCHANGED <<pc, next, report, first_error_, chosen, lost, scheduled>>
    BY <1>7 DEF Take, caller, group
  <2>3. /\ Len(queue) \in Nat \ {0}
        /\ \A v \in Workers : job'[v] = IF v = w THEN queue[1] ELSE job[v]
        /\ \A v \in Workers : at'[v] = IF v = w THEN "copy" ELSE at[v]
        /\ at[w] = "idle"
    BY <1>7, Popped DEF Base, IInv
  <2>4. \A v \in Workers : v # w => outcome'[v] = outcome[v]
    BY <1>7 DEF Take, Base, TypeOK
  <2>5. \A k : Queued(k) => Queued(k)' \/ With(k, BeforeStage)'
    <3>1. \A i \in 1 .. Len(queue) : i = 1 \/ (i - 1 \in 1 .. Len(queue') /\ queue'[i - 1] = queue[i])
      BY <1>7, <2>3, HeadTailProperties DEF Take, Base, TypeOK
    <3>. QED
      BY <2>3, <3>1 DEF Queued, With, BeforeStage
  <2>6. /\ \A k : With(k, BeforeStage) => With(k, BeforeStage)'
        /\ \A k : With(k, BeforeStage \union BeforeTold) => With(k, BeforeStage \union BeforeTold)'
        /\ \A k : With(k, BeforeStage)' => With(k, BeforeStage \union BeforeTold)'
        /\ \A k : Failing(k) => Failing(k)'
    BY <2>3, <2>4 DEF With, Failing, BeforeStage, BeforeTold
  <2>. QED
    BY <1>a, <2>1, <2>2, <2>5, <2>6 DEF InHand, Announced, ToTell, Excused, Same, Gone
<1>8. ASSUME NEW w \in Workers, Finish(w) \/ NotifyGroup(w) PROVE Accounted'
  <2>1. \A k : Same(k)
    BY <1>8, AllSame, Quiets
  <2>2. /\ UNCHANGED <<next, report, chosen, lost, scheduled, queue, outcome>>
        /\ pc \in {"schedule", "post"} => pc' = pc
    BY <1>8 DEF Finish, NotifyGroup, caller
  <2>3. /\ at[w] \in {"finish", "notify"}
        /\ \A v \in Workers : v # w => at'[v] = at[v] /\ job'[v] = job[v]
    BY <1>8 DEF Finish, NotifyGroup, Goto, Base, TypeOK
  <2>4. \A k : Failing(k) => Failing(k)' \/ first_error_' # 0
    <3>1. at[w] = "finish" /\ outcome[w] = "error" => first_error_' # 0
      BY <1>8 DEF Finish, NotifyGroup, KeepFirst
    <3>. QED
      BY <2>2, <2>3, <3>1 DEF Failing
  <2>5. /\ \A k : With(k, BeforeStage) => With(k, BeforeStage)'
        /\ \A k : With(k, BeforeStage \union BeforeTold) => With(k, BeforeStage \union BeforeTold)'
        /\ \A k : Queued(k) => Queued(k)'
    BY <2>2, <2>3 DEF With, BeforeStage, BeforeTold, Queued
  <2>. QED
    BY <1>a, <2>1, <2>2, <2>4, <2>5, GoneStays DEF InHand, Announced, ToTell, Excused, Same
<1>9. CASE \/ Begin \/ ReportUnscheduled \/ Wait \/ TallyCompletions
           \/ ReportAndReturn \/ SpuriousWake \/ RequestStop \/ UNCHANGED vars
  BY <1>1, <1>9, Quiets DEF Begin, ReportUnscheduled, Wait, TallyCompletions,
     ReportAndReturn, SpuriousWake, RequestStop, vars, work, caller
<1>. QED
  BY <1>2, <1>3, <1>4, <1>5, <1>6, <1>7, <1>8, <1>9
  DEF Next, CallerStep, WorkerStep, Decides, Terminated

-----------------------------------------------------------------------------
(* on_fan_in_completed is emitted on the way out, when nothing is pending. *)
LEMMA ReportedStep ==
  ASSUME Base, Reported, [Next]_vars
  PROVE  Reported'
<1>1. CASE CallerStep \/ SpuriousWake \/ RequestStop \/ UNCHANGED vars
  <2>. USE DEF Reported, Base, IInv, Drained
  <2>1. CASE Begin \/ EvaluatePredicate \/ ReportUnscheduled \/ CheckToken \/ Schedule \/ Post
    BY <2>1 DEF Begin, EvaluatePredicate, ReportUnscheduled, CheckToken, Schedule, Post,
                Unwind, Advance
  <2>2. CASE Wait \/ TallyCompletions \/ SpuriousWake
    BY <2>2 DEF Wait, TallyCompletions, SpuriousWake
  <2>3. CASE ReportAndReturn
    BY <2>3 DEF ReportAndReturn, Unwind, group
  <2>4. CASE RequestStop \/ UNCHANGED vars
    BY <2>4 DEF RequestStop, vars, caller, group
  <2>. QED
    BY <1>1, <2>1, <2>2, <2>3, <2>4 DEF CallerStep
<1>2. ASSUME NEW w \in Workers, WorkerStep(w) PROVE Reported'
  <2>1. CASE NotifyGroup(w)
    BY <2>1 DEF NotifyGroup, Reported, group
  <2>2. CASE ~NotifyGroup(w)
    BY <1>2, <2>2 DEF WorkerStep, Take, CopyInput, StageStart, RunStage, ReportStage,
       ReportException, TellCompleted, Finish, caller, group, Reported
  <2>. QED
    BY <2>1, <2>2
<1>. QED
  BY <1>1, <1>2 DEF Next, Terminated

(* What is posted and not finished: nothing, once nothing is pending.      *)
LEMMA AllDone ==
  ASSUME Base, pending_ = 0
  PROVE  /\ Len(queue) = 0
         /\ \A w \in Workers : at[w] \in {"idle", "notify"}
<1>1. /\ pending_ = Len(queue) + Cardinality(Busy)
      /\ Len(queue) \in Nat /\ Cardinality(Busy) \in Nat /\ IsFiniteSet(Busy)
  BY LenProperties, FS_CardinalityType DEF Base, IInv, Types, Counted
<1>2. Len(queue) = 0 /\ Busy = {}
  BY <1>1, FS_EmptySet
<1>. QED
  BY <1>2 DEF Busy

(* The counts follow the cases: a case is counted once in the selected, a  *)
(* failed predicate once in the failed, and nothing changes once the       *)
(* completed ones have been counted.                                       *)
LEMMA TalliedStep ==
  ASSUME Base, CallerKnows, Verdicts, Reported, Tallied, [Next]_vars
  PROVE  Tallied'
<1>0. /\ IsFiniteSet(chosen) /\ Cardinality(chosen) \in Nat
      /\ IsFiniteSet(rejected) /\ Cardinality(rejected) \in Nat
      /\ tally \in [selected : Nat, completed : Nat, failed : Nat]
  BY FiniteCases, TypesAreTypeOK DEF Base, StoryTypes
<1>1. CASE /\ UNCHANGED <<tally, chosen, rejected, report>>
           /\ pc' # pc => pc # "report" /\ pc' # "report"
           /\ pc = "report" => UNCHANGED slot
  BY <1>1 DEF Tallied, Completed
<1>2. CASE EvaluatePredicate
  <2>1. CASE UNCHANGED <<slot, tally, rejected>>
    BY <1>1, <1>2, <2>1 DEF EvaluatePredicate, Unwind
  <2>2. CASE /\ tally' = [tally EXCEPT !.failed = @ + 1]
             /\ rejected' = rejected \union {next} /\ pc' = "reject"
    <3>1. Cardinality(rejected') = Cardinality(rejected) + 1
      BY <1>0, <1>2, <2>2, FS_AddElement DEF EvaluatePredicate, CallerKnows, Fresh
    <3>2. UNCHANGED <<chosen, report>> /\ pc = "predicate"
      BY <1>2, <2>2 DEF EvaluatePredicate
    <3>. QED
      BY <1>0, <2>2, <3>1, <3>2 DEF Tallied, Reported
  <2>. QED
    BY <1>2, <2>1, <2>2 DEF EvaluatePredicate
<1>3. CASE CheckToken
  <2>1. CASE UNCHANGED <<tally, chosen>>
    BY <1>1, <1>3, <2>1 DEF CheckToken
  <2>2. CASE /\ tally' = [tally EXCEPT !.selected = @ + 1]
             /\ chosen' = chosen \union {next} /\ pc' = "schedule"
    <3>1. Cardinality(chosen') = Cardinality(chosen) + 1
      BY <1>0, <1>3, <2>2, FS_AddElement DEF CheckToken, CallerKnows, Fresh
    <3>2. UNCHANGED <<rejected, report>> /\ pc = "token"
      BY <1>3, <2>2 DEF CheckToken
    <3>. QED
      BY <1>0, <2>2, <3>1, <3>2 DEF Tallied, Reported
  <2>. QED
    BY <1>3, <2>1, <2>2 DEF CheckToken
<1>4. CASE TallyCompletions
  <2>. DEFINE c == Cardinality(Completed)
  <2>1. /\ tally' = [tally EXCEPT !.completed = c, !.failed = @ + (tally.selected - c)]
        /\ UNCHANGED <<chosen, rejected, report, slot>> /\ pc = "tally" /\ pc' = "report"
    BY <1>4 DEF TallyCompletions
  <2>2. Completed' = Completed /\ ~report.made
    BY <2>1 DEF Completed, Reported
  <2>3. Cardinality(Completed') = c
    BY <2>2
  <2>. HIDE DEF c
  <2>. QED
    BY <1>0, <2>1, <2>2, <2>3 DEF Tallied
<1>5. CASE ReportAndReturn
  BY <1>0, <1>5 DEF ReportAndReturn, Tallied, Unwind
<1>6. ASSUME NEW w \in Workers, Decides(w) PROVE Tallied'
  <2>1. pc # "report"
    <3>1. at[w] \notin {"idle", "notify"}
      BY <1>6 DEF Decides, CopyInput, StageStart, RunStage, ReportStage,
                  ReportException, TellCompleted
    <3>. QED
      BY <3>1, AllDone DEF Base, IInv, Drained
  <2>. QED
    BY <1>1, <1>6, <2>1, WorkerDecides DEF caller
<1>7. ASSUME NEW w \in Workers, Take(w) \/ Finish(w) \/ NotifyGroup(w) PROVE Tallied'
  BY <1>1, <1>7, Quiets DEF Take, Finish, NotifyGroup, caller, Fates
<1>8. CASE \/ Begin \/ ReportUnscheduled \/ Schedule \/ Post \/ Wait \/ SpuriousWake
           \/ RequestStop \/ UNCHANGED vars
  BY <1>1, <1>8 DEF Begin, ReportUnscheduled, Schedule, Post, Wait, SpuriousWake,
     RequestStop, vars, caller, Unwind, Advance
<1>. QED
  BY <1>2, <1>3, <1>4, <1>5, <1>6, <1>7, <1>8
  DEF Next, CallerStep, WorkerStep, Decides, Terminated

(* Once a case was posted late the token is stopped, and no other case     *)
(* gets past its check.                                                    *)
LEMMA LateOnceStep ==
  ASSUME Base, LateOnce, [Next]_vars
  PROVE  LateOnce'
<1>1. CASE /\ UNCHANGED late /\ (cancelled => cancelled')
           /\ pc' \in {"schedule", "post"} => pc \in {"schedule", "post"}
  BY <1>1 DEF LateOnce
<1>2. CASE CheckToken
  BY <1>2 DEF CheckToken, LateOnce
<1>3. CASE Post
  BY <1>3, Holders DEF Post, Advance, LateOnce
<1>4. CASE Begin \/ EvaluatePredicate \/ ReportUnscheduled \/ Schedule \/ Wait
           \/ TallyCompletions \/ ReportAndReturn \/ SpuriousWake \/ RequestStop
           \/ UNCHANGED vars
  BY <1>1, <1>4 DEF Begin, EvaluatePredicate, ReportUnscheduled, Schedule, Wait,
     TallyCompletions, ReportAndReturn, SpuriousWake, RequestStop, vars, caller, Unwind,
     Advance
<1>5. ASSUME NEW w \in Workers, WorkerStep(w) PROVE LateOnce'
  BY <1>1, <1>5 DEF WorkerStep, Take, CopyInput, StageStart, RunStage, ReportStage,
     ReportException, TellCompleted, Finish, NotifyGroup, caller
<1>. QED
  BY <1>2, <1>3, <1>4, <1>5 DEF Next, CallerStep, Terminated

-----------------------------------------------------------------------------
(* Nothing has happened when the branch starts.                            *)
LEMMA StoryInitial ==
  ASSUME Init
  PROVE  Base /\ Story
<1>. USE DEF Init
<1>0. Len(queue) = 0 /\ Told = {}
  BY EmptySeq DEF Told
<1>1. IInv
  BY Initial
<1>2. StoryTypes
  BY FanInAssumption DEF StoryTypes, Contract!NoReport
<1>3. Base
  BY <1>1, <1>2, TypesAreTypeOK DEF Base, IInv
<1>4. CallerKnows
  BY <1>0, Holders, <1>3 DEF CallerKnows, Fresh
<1>5. QueueKnows /\ WorkersKnow /\ Verdicts /\ Accounted /\ LateOnce
  BY <1>0 DEF QueueKnows, WorkersKnow, Verdicts, Accounted, LateOnce, Settled
<1>6. Reported /\ Tallied
  BY FS_EmptySet DEF Reported, Tallied, Contract!NoReport
<1>. QED
  BY <1>3, <1>4, <1>5, <1>6 DEF Story

(* The account of the branch is invariant, whatever throws.                *)
THEOREM StoryHolds == Spec => [](Base /\ Story)
<1>1. Init => Base /\ Story
  BY StoryInitial
<1>2. Base /\ Story /\ [Next]_vars => (Base /\ Story)'
  BY TypeOKStep, CallerKnowsStep, QueueKnowsStep, WorkersKnowStep, VerdictsStep,
     AccountedStep, ReportedStep, TalliedStep, LateOnceStep DEF Story
<1>. QED
  BY <1>1, <1>2, PTL DEF Spec

(* Every field keeps its type (TypeOK): the derived failures in            *)
(* run_parallel_fan_in_branch do not underflow, because no more cases      *)
(* complete than were selected.                                            *)
THEOREM Typed == Spec => []TypeOK
<1>1. Base /\ Story => TypeOK
  BY DEF Base
<1>. QED
  BY <1>1, StoryHolds, PTL

(* After a stop request at most one case more reaches the pool             *)
(* (AtMostOneLateCase), for any number of cases: the one whose token check *)
(* the request raced with.                                                 *)
THEOREM LateAtMostOnce == Spec => []AtMostOneLateCase
<1>1. Base /\ Story => AtMostOneLateCase
  <2>. SUFFICES ASSUME LateOnce PROVE AtMostOneLateCase
    BY DEF Story
  <2>1. Cardinality({}) = 0 /\ \A k \in Cases : Cardinality({k}) = 1
    BY FS_EmptySet, FS_Singleton
  <2>. QED
    BY <2>1 DEF LateOnce, AtMostOneLateCase
<1>. QED
  BY <1>1, StoryHolds, PTL

(* What the observer is told agrees with the aggregate and with the counts *)
(* (EventsTellTheRun), for any number of cases and workers, whatever order *)
(* the workers tell in and whatever throws.                                *)
THEOREM EventsTold == Spec => []EventsTellTheRun
<1>1. Base /\ Story => EventsTellTheRun
  <2>. SUFFICES ASSUME Base, Story PROVE EventsTellTheRun
    OBVIOUS
  <2>1. /\ \A e \in finished : e[1] \in scheduled
        /\ \A e \in finished : e[2] <=> slot[e[1]] = "completed"
        /\ scheduled \subseteq chosen
    BY DEF Story, Verdicts
  <2>2. \A d, e \in finished : d[1] = e[1] => d = e
    <3>. SUFFICES ASSUME NEW d \in finished, NEW e \in finished, d[1] = e[1] PROVE d = e
      OBVIOUS
    <3>1. d \in Cases \X BOOLEAN /\ e \in Cases \X BOOLEAN
      BY TypesAreTypeOK DEF Base, StoryTypes
    <3>2. /\ d = <<d[1], d[2]>> /\ d[2] \in BOOLEAN
          /\ e = <<e[1], e[2]>> /\ e[2] \in BOOLEAN
      BY <3>1
    <3>3. d[2] <=> e[2]
      BY <2>1
    <3>4. d[2] = e[2]
      BY <3>2, <3>3, Zenon
    <3>. QED
      BY <3>2, <3>4
  <2>3. LifecycleUnlessError
    <3>. SUFFICES ASSUME report.made, first_error_ = 0
                  PROVE  /\ Cardinality(scheduled) = report.selected
                         /\ Cardinality(Told) = report.selected
      BY DEF LifecycleUnlessError, Told
    <3>1. /\ pending_ = 0 /\ pc \notin {"schedule", "post"}
      BY DEF Story, Reported
    <3>2. /\ Len(queue) = 0
          /\ \A w \in Workers : at[w] \in {"idle", "notify"}
      BY <3>1, AllDone
    <3>3. chosen \subseteq scheduled /\ chosen \subseteq Told
      <4>1. \A k : ~Queued(k) /\ ~With(k, BeforeStage \union BeforeTold) /\ ~Failing(k)
        BY <3>2 DEF Queued, With, Failing, BeforeStage, BeforeTold
      <4>. QED
        BY <3>1, <4>1 DEF Story, Accounted, Announced, ToTell, Excused, Gone
    <3>4. scheduled = chosen /\ Told = chosen
      BY <2>1, <3>3 DEF Told
    <3>. QED
      BY <3>4 DEF Story, Tallied
  <2>. QED
    BY <2>1, <2>2, <2>3 DEF EventsTellTheRun, EventsTellSlots
<1>. QED
  BY <1>1, StoryHolds, PTL

-----------------------------------------------------------------------------
(* Each case is failed or lost, or completed: the report's failures are    *)
(* the chosen cases that did not complete and the failed predicates.       *)
LEMMA FailuresAddUp ==
  ASSUME Base, Story, pending_ = 0, pc = "report"
  PROVE  /\ \A k \in chosen : slot[k] # "skipped" \/ k \in lost
         /\ lost # {} => first_error_ # 0
         /\ report' = [selected |-> tally.selected, completed |-> tally.completed,
                       failed |-> tally.failed, made |-> TRUE]
            => report' = [selected  |-> Cardinality(chosen),
                          completed |-> Cardinality(Contract!CasesIn("completed")),
                          failed    |-> Cardinality(Contract!CasesIn("failed") \union lost),
                          made      |-> TRUE]
<1>1. \A w \in Workers : at[w] \in {"idle", "notify"}
  BY AllDone
<1>2. \A k : ~Queued(k) /\ ~With(k, BeforeStage) /\ ~Failing(k) /\ ~Gone
  BY <1>1, AllDone DEF Queued, With, Failing, BeforeStage, Gone
<1>3. \A k \in chosen : slot[k] \in Settled \/ k \in lost
  BY <1>2 DEF Story, Accounted, InHand
<1>4. \A k \in lost : first_error_ # 0
  BY <1>2 DEF Story, Accounted, Excused
<1>. DEFINE Done == Contract!CasesIn("completed")
            Lost == Contract!CasesIn("failed") \union lost
<1>5. /\ chosen \in SUBSET Cases /\ rejected \in SUBSET Cases /\ Done \in SUBSET Cases
      /\ Lost \in SUBSET Cases
  BY TypesAreTypeOK DEF Base, StoryTypes, Contract!CasesIn
<1>6. /\ Done \union Lost = chosen \union rejected
      /\ Done \intersect Lost = {} /\ chosen \intersect rejected = {}
  BY <1>3, <1>5 DEF Story, Verdicts, Settled, Contract!CasesIn
<1>7. /\ Cardinality(Done) + Cardinality(Lost) = Cardinality(chosen) + Cardinality(rejected)
      /\ Cardinality(Done) \in Nat /\ Cardinality(Lost) \in Nat
      /\ Cardinality(chosen) \in Nat /\ Cardinality(rejected) \in Nat
  <2>. HIDE DEF Done, Lost
  <2>1. /\ IsFiniteSet(Done) /\ IsFiniteSet(Lost) /\ IsFiniteSet(chosen)
        /\ IsFiniteSet(rejected)
        /\ Cardinality(Done) \in Nat /\ Cardinality(Lost) \in Nat
        /\ Cardinality(chosen) \in Nat /\ Cardinality(rejected) \in Nat
    BY <1>5, FiniteCases
  <2>2. /\ Cardinality(Done \union Lost) = Cardinality(Done) + Cardinality(Lost) - Cardinality({})
        /\ Cardinality(chosen \union rejected)
             = Cardinality(chosen) + Cardinality(rejected) - Cardinality({})
    BY <1>6, <2>1, FS_Union
  <2>. QED
    BY <1>6, <2>1, <2>2, FS_EmptySet
<1>8. /\ tally.selected = Cardinality(chosen)
      /\ tally.completed = Cardinality(Done)
      /\ tally.failed = Cardinality(rejected) + (tally.selected - tally.completed)
  BY DEF Story, Tallied, Completed, Contract!CasesIn
<1>9. tally.failed = Cardinality(Lost)
  BY <1>7, <1>8
<1>. HIDE DEF Done, Lost
<1>10. [selected |-> tally.selected, completed |-> tally.completed,
        failed |-> tally.failed, made |-> TRUE]
         = [selected |-> Cardinality(chosen), completed |-> Cardinality(Done),
            failed |-> Cardinality(Lost), made |-> TRUE]
  BY <1>8, <1>9
<1>. QED
  BY <1>3, <1>4, <1>10 DEF Done, Lost, Settled

(* FanIn counts as ParallelFanIn does.                                     *)
LEMMA SameCardinality == \A S : Contract!Cardinality(S) = Cardinality(S)
BY DEF Contract!Cardinality, Cardinality

(* A step that leaves the slots and the verdicts alone is none of FanIn's. *)
LEMMA Stutters ==
  ASSUME UNCHANGED <<slot, chosen, rejected, lost, report>>,
         pc' = pc \/ {pc, pc'} \intersect {"returned", "threw"} = {},
         pc = "returned" => first_error_' = first_error_
  PROVE  UNCHANGED Contract!vars
BY DEF Contract!vars

(* The caller's steps choose, reject, lose or report.                      *)
LEMMA CallerImplements ==
  ASSUME Base, Story, CallerStep, pc' # "threw"
  PROVE  Contract!Next \/ UNCHANGED Contract!vars
<1>. USE DEF Story
<1>0. next \in Cases
  BY Holders
<1>1. CASE EvaluatePredicate
  <2>1. CASE UNCHANGED <<slot, rejected>> /\ pc' \in {"token", "skip"}
    BY <1>1, <2>1, Stutters DEF EvaluatePredicate
  <2>2. CASE /\ slot' = [slot EXCEPT ![next] = "failed"]
             /\ rejected' = rejected \union {next} /\ pc' = "reject"
    <3>1. Contract!Reject(next)
      BY <1>1, <2>2 DEF EvaluatePredicate, CallerKnows, Fresh, Contract!Reject
    <3>. QED
      BY <1>0, <3>1 DEF Contract!Next
  <2>. QED
    BY <1>1, <2>1, <2>2 DEF EvaluatePredicate, Unwind
<1>2. CASE CheckToken
  <2>1. CASE UNCHANGED chosen
    BY <1>2, <2>1, Stutters DEF CheckToken
  <2>2. CASE chosen' = chosen \union {next}
    <3>1. Contract!Choose(next)
      BY <1>2, <2>2 DEF CheckToken, CallerKnows, Fresh, Contract!Choose
    <3>. QED
      BY <1>0, <3>1 DEF Contract!Next
  <2>. QED
    BY <1>2, <2>1, <2>2 DEF CheckToken
<1>3. CASE Post
  <2>1. pc' \in {"predicate", "wait"}
    BY <1>3 DEF Post, Advance
  <2>2. CASE UNCHANGED lost
    BY <1>3, <2>1, <2>2, Stutters DEF Post
  <2>3. CASE lost' = lost \union {next}
    <3>1. Contract!Lose(next)
      BY <1>3, <2>1, <2>3 DEF Post, CallerKnows, Untouched, Contract!Lose
    <3>. QED
      BY <1>0, <3>1 DEF Contract!Next
  <2>. QED
    BY <1>3, <2>2, <2>3 DEF Post
<1>4. CASE ReportAndReturn
  <2>1. /\ pc = "report" /\ pc' = "returned"
        /\ UNCHANGED <<slot, chosen, rejected, lost, first_error_>>
        /\ report' = [selected |-> tally.selected, completed |-> tally.completed,
                      failed |-> tally.failed, made |-> TRUE]
    BY <1>4 DEF ReportAndReturn, Unwind, group
  <2>2. pending_ = 0
    BY <2>1 DEF Base, IInv, Drained
  <2>3. Contract!Report
    <3>1. report' = [selected  |-> Contract!Cardinality(chosen),
                     completed |-> Contract!Cardinality(Contract!CasesIn("completed")),
                     failed    |-> Contract!Cardinality(Contract!CasesIn("failed") \union lost),
                     made      |-> TRUE]
      BY <2>1, <2>2, FailuresAddUp, SameCardinality
    <3>. QED
      BY <2>1, <2>2, <3>1, FailuresAddUp DEF Contract!Report
  <2>. QED
    BY <2>3 DEF Contract!Next
<1>5. CASE Begin \/ ReportUnscheduled \/ Schedule \/ Wait \/ TallyCompletions
  BY <1>5, Stutters DEF Begin, ReportUnscheduled, Schedule, Wait, TallyCompletions, Unwind,
     Advance
<1>. QED
  BY <1>1, <1>2, <1>3, <1>4, <1>5 DEF CallerStep

(* The workers' steps settle or lose, and only while the branch is         *)
(* running: the caller returns when no worker is busy.                     *)
LEMMA WorkerImplements ==
  ASSUME Base, Story, pc # "threw", NEW w \in Workers, WorkerStep(w)
  PROVE  Contract!Next \/ UNCHANGED Contract!vars
<1>1. CASE NotifyGroup(w)
  BY <1>1, Stutters DEF NotifyGroup, group
<1>2. CASE Take(w)
  BY <1>2, Stutters DEF Take, caller, group
<1>3. CASE Decides(w) \/ Finish(w)
  <2>1. at[w] \notin {"idle", "notify"}
    BY <1>3 DEF Decides, CopyInput, StageStart, RunStage, ReportStage, ReportException,
                TellCompleted, Finish
  <2>2. pc # "returned"
    BY <2>1, AllDone DEF Base, IInv, Drained
  <2>3. job[w] \in Cases
    BY <2>1, Holders
  <2>4. CASE Finish(w) \/ ReportException(w) \/ TellCompleted(w)
    BY <2>2, <2>4, Stutters DEF Finish, ReportException, TellCompleted, caller
  <2>5. CASE CopyInput(w)
    <3>1. CASE UNCHANGED lost
      BY <2>2, <2>5, <3>1, Stutters DEF CopyInput, caller
    <3>2. CASE lost' = lost \union {job[w]}
      <4>1. Untouched(job[w])
        BY <2>3, <2>5, Holders DEF CopyInput, Story, WorkersKnow, BeforeStage
      <4>2. Contract!Lose(job[w])
        BY <2>2, <2>5, <3>2, <4>1 DEF CopyInput, caller, Untouched, Contract!Lose
      <4>. QED
        BY <2>3, <4>2 DEF Contract!Next
    <3>. QED
      BY <2>5, <3>1, <3>2 DEF CopyInput
  <2>6. CASE StageStart(w) \/ RunStage(w) \/ ReportStage(w)
    <3>1. CASE UNCHANGED slot
      BY <2>2, <2>6, <3>1, Stutters DEF StageStart, RunStage, ReportStage, caller
    <3>2. ASSUME NEW s \in {"completed", "failed"}, Mark(w, s),
                 s = "failed" \/ at[w] = "stage"
          PROVE  Contract!Settle(job[w], s)
      <4>1. job[w] \in chosen /\ (slot[job[w]] = "skipped" \/ s = "failed")
        BY <2>1, <2>3, <3>2, Holders DEF Story, WorkersKnow, BeforeStage, Untouched
      <4>. QED
        BY <2>2, <2>6, <3>2, <4>1 DEF StageStart, RunStage, ReportStage, Mark, caller,
           Contract!Settle
    <3>3. UNCHANGED slot \/ \E s \in {"completed", "failed"} :
                              Mark(w, s) /\ (s = "failed" \/ at[w] = "stage")
      BY <2>6 DEF StageStart, RunStage, ReportStage
    <3>. QED
      BY <2>3, <3>1, <3>2, <3>3 DEF Contract!Next
  <2>. QED
    BY <1>3, <2>4, <2>5, <2>6 DEF Decides
<1>. QED
  BY <1>1, <1>2, <1>3 DEF WorkerStep, Decides

(* A branch whose caller is not thrown out of it implements FanIn, for any *)
(* number of cases and workers (ImplementsFanIn): slots are settled while  *)
(* it runs and never afterwards, on_fan_in_completed has the counts of the *)
(* aggregate, and a lost case is an error.                                 *)
THEOREM Implements == ~CallerThrows /\ Spec => ImplementsFanIn
<1>. DEFINE Stays == pc # "threw"
<1>1. Init => Stays /\ Contract!Init
  BY DEF Init, Contract!Init
<1>2. ~CallerThrows /\ Stays /\ [Next]_vars => Stays'
  <2>. SUFFICES ASSUME ~CallerThrows, pc # "threw", [Next]_vars PROVE pc' # "threw"
    OBVIOUS
  <2>. USE DEF Unwind
  <2>1. CASE CallerStep
    BY <2>1 DEF CallerStep, Begin, EvaluatePredicate, ReportUnscheduled, CheckToken,
                Schedule, Post, Wait, TallyCompletions, ReportAndReturn, Advance
  <2>2. CASE SpuriousWake \/ RequestStop \/ UNCHANGED vars
    BY <2>2 DEF SpuriousWake, RequestStop, vars, caller
  <2>3. ASSUME NEW w \in Workers, WorkerStep(w) PROVE pc' # "threw"
    BY <2>3 DEF WorkerStep, Take, CopyInput, StageStart, RunStage, ReportStage,
                ReportException, TellCompleted, Finish, NotifyGroup, caller
  <2>. QED
    BY <2>1, <2>2, <2>3 DEF Next, Terminated
<1>3. /\ Base /\ Story /\ Stays /\ Stays' /\ [Next]_vars
      => [Contract!Next]_(Contract!vars)
  <2>. SUFFICES ASSUME Base, Story, pc # "threw", pc' # "threw", [Next]_vars
                PROVE  Contract!Next \/ UNCHANGED Contract!vars
    OBVIOUS
  <2>1. CASE SpuriousWake \/ RequestStop \/ UNCHANGED vars
    BY <2>1, Stutters DEF SpuriousWake, RequestStop, vars, caller, group
  <2>. QED
    BY <2>1, CallerImplements, WorkerImplements DEF Next, Terminated
<1>4. ~CallerThrows => (~CallerThrows)'
  OBVIOUS
<1>. HIDE DEF Stays
<1>. QED
  BY <1>1, <1>2, <1>3, <1>4, StoryHolds, PTL DEF Spec, ImplementsFanIn, Contract!Spec
=============================================================================
