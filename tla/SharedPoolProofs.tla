-------------------------- MODULE SharedPoolProofs --------------------------
(* Theorems about SharedPool, for any callers, workers and cases.          *)
EXTENDS SharedPool, SequenceTheorems, FiniteSetTheorems, TLAPS

Types ==
  /\ run \in [Threads -> RunType \union {None}]
  /\ queue \in Seq(Threads)
  /\ task \in [Workers -> TaskType \union {None}]
  /\ telling \in [Threads -> EventType \union {None}]

(* The cases of t's run in the queue and in workers' hands are what its    *)
(* group counts as pending.  A run that is over has none, but for those    *)
(* that an exception left behind.                                          *)
Positions(q, t) == {i \in 1 .. Len(q) : q[i] = t}
Posted(t) == Positions(queue, t)
Hands(t) == {w \in Workers : task[w] # None /\ task[w].by = t}
Pending(t) == IF run[t] = None THEN 0 ELSE run[t].pending

Counted(t) == run[t] # None \/ ~CallerThrows

Counts ==
  \A t \in Threads :
    /\ IsFiniteSet(Hands(t))
    /\ Counted(t) => Cardinality(Posted(t)) + Cardinality(Hands(t)) = Pending(t)

(* Before its branch and after it, a run has no case pending.              *)
Drained ==
  \A t \in Threads :
    run[t] # None /\ run[t].at \in {"start", "completed", "success"}
      => run[t].pending = 0

(* A thread is in the observer for the run it makes or for the case it     *)
(* executes; without the mutex only for the stage of its run.              *)
OfRun(t) ==
  /\ run[t] # None /\ telling[t].run = t
  /\ telling[t].locked => run[t].at \in {"predicate", "completed"}
  /\ ~telling[t].locked => run[t].at \in {"start", "success", "caught"}

OfTask(t) ==
  /\ t \in Workers /\ run[t] = None /\ task[t] # None
  /\ telling[t].run = task[t].by /\ telling[t].locked

Places == \A t \in Threads : telling[t] # None => OfRun(t) \/ OfTask(t)

(* A run's mutex has one holder, while it is there.                        *)
Exclusive ==
  \A t, u \in Threads :
    /\ t # u
    /\ telling[t] # None /\ telling[t].locked
    /\ telling[u] # None /\ telling[u].locked
    => telling[t].run # telling[u].run \/ Unwound(telling[t].run)

(* No run leaves its branch by an exception if nothing throws.             *)
Unthrown ==
  ~CallerThrows => \A t \in Threads : run[t] # None => run[t].at # "caught"

IInv == Types /\ Counts /\ Drained /\ Places /\ Exclusive /\ Unthrown

-----------------------------------------------------------------------------
(* The step is one of a caller, of a worker, or of a run.                  *)
LEMMA Cases ==
  ASSUME Next
  PROVE  \/ \E c \in Callers : CallerBegins(c)
         \/ \E w \in Workers : \/ StageBegins(w) \/ Take(w) \/ TellOfCase(w)
                               \/ WorkerLeaves(w) \/ StageReturns(w) \/ Finish(w)
         \/ \E t \in Threads : \/ TellStage(t) \/ TellCase(t) \/ Post(t)
                               \/ WaitReturns(t) \/ TellBranch(t) \/ CallerLeaves(t) \/ Unwind(t)
BY ZenonT(20) DEF Next, RunStep, WorkerStep

(* None is no thread, no run, no task and no callback.                     *)
LEMMA ThreadFacts ==
  /\ Workers \subseteq Threads /\ Callers \subseteq Threads
  /\ None \notin Threads /\ None \notin RunType
  /\ None \notin TaskType /\ None \notin EventType
BY SharedPoolAssumption DEF Threads

(* What changing a field of a run or of a task gives.                      *)
RunPlaces == {"start", "predicate", "selected", "wait", "completed", "success", "caught"}
TaskPlaces == {"begin", "stage", "nested", "end", "finish"}

(* A run that moves keeps its count, and one that counts its place.        *)
LEMMA RunFields ==
  ASSUME NEW r \in RunType
  PROVE  /\ \A a \in RunPlaces :
              /\ At(r, a) \in RunType
              /\ At(r, a).at = a /\ At(r, a).pending = r.pending
         /\ \A n \in Nat :
              /\ Counting(r, n) \in RunType
              /\ Counting(r, n).at = r.at /\ Counting(r, n).pending = n
BY DEF RunType, RunPlaces, At, Counting

(* A task that comes to a place belongs to the same run.                   *)
LEMMA TaskFields ==
  ASSUME NEW k \in TaskType
  PROVE  \A a \in TaskPlaces :
           /\ At(k, a) \in TaskType
           /\ At(k, a).at = a /\ At(k, a).by = k.by
BY DEF TaskType, TaskPlaces, At

(* A run that advances evaluates the next predicate or waits, with the     *)
(* same cases pending.                                                     *)
LEMMA AdvanceType ==
  ASSUME NEW r \in RunType
  PROVE  /\ Advance(r) \in RunType
         /\ Advance(r).at \in {"predicate", "wait"}
         /\ Advance(r).pending = r.pending
<1>1. CASE r.next < NumCases
  BY <1>1 DEF Advance, RunType
<1>2. CASE ~(r.next < NumCases)
  BY <1>2, RunFields DEF Advance, RunPlaces
<1>. QED
  BY <1>1, <1>2

(* The field of a run in progress has the type of a run, and likewise for  *)
(* tasks and callbacks.                                                    *)
LEMMA InProgress ==
  ASSUME Types
  PROVE  /\ \A t \in Threads : run[t] # None => run[t] \in RunType
         /\ \A w \in Workers : task[w] # None => task[w] \in TaskType
         /\ \A t \in Threads : telling[t] # None => telling[t] \in EventType
BY DEF Types

(* A run has finitely many places in the queue.                            *)
LEMMA PositionsFinite ==
  ASSUME NEW q \in Seq(Threads), NEW t
  PROVE  IsFiniteSet(Positions(q, t))
<1>1. Len(q) \in Nat
  BY LenProperties
<1>2. IsFiniteSet(1 .. Len(q))
  BY <1>1, FS_Interval
<1>. QED
  BY <1>2, FS_Subset DEF Positions

(* A run with a case in the queue or in a worker's hands goes on, and      *)
(* counts it.                                                              *)
LEMMA PendingCovers ==
  ASSUME Types, Counts, NEW t \in Threads, Posted(t) # {} \/ Hands(t) # {}, Counted(t)
  PROVE  run[t] # None /\ run[t] \in RunType /\ run[t].pending \in Nat \ {0}
<1>1. /\ Cardinality(Posted(t)) \in Nat /\ Cardinality(Hands(t)) \in Nat
      /\ Cardinality(Posted(t)) # 0 \/ Cardinality(Hands(t)) # 0
  <2>. IsFiniteSet(Posted(t)) /\ IsFiniteSet(Hands(t))
    BY PositionsFinite DEF Types, Posted, Counts
  <2>. QED
    BY FS_CardinalityType, FS_EmptySet
<1>2. Pending(t) # 0
  BY <1>1 DEF Counts
<1>. QED
  BY <1>2, InProgress DEF Pending, RunType

(* A run begins with no case in the queue or in a worker's hands.          *)
LEMMA BeginsEmpty ==
  ASSUME Types, NEW t \in Threads, BeginRun(t)
  PROVE  Posted(t) = {} /\ Hands(t) = {}
<1>1. DOMAIN queue = 1 .. Len(queue)
  BY LenProperties DEF Types
<1>. QED
  BY <1>1 DEF BeginRun, Queued, Executed, Posted, Positions, Hands

(* A case that finishes is counted down by its run, if there is one.       *)
LEMMA Finishes ==
  ASSUME Types, Counts, NEW w \in Workers, Finish(w)
  PROVE  \E b \in Threads :
           /\ task[w] # None /\ task[w].by = b
           /\ \/ run[b] = None /\ run' = run
              \/ /\ run[b] # None /\ run[b] \in RunType
                 /\ run[b].pending \in Nat \ {0}
                 /\ \E r \in RunType :
                      /\ run' = [run EXCEPT ![b] = r]
                      /\ r.at = run[b].at /\ r.pending = run[b].pending - 1
<1>. USE ThreadFacts
<1>1. PICK b \in Threads : task[w] # None /\ task[w].by = b
  BY InProgress DEF Finish, Working, TaskType
<1>2. CASE run[b] = None
  BY <1>1, <1>2 DEF Finish
<1>3. CASE run[b] # None
  <2>1. run[b] \in RunType /\ run[b].pending \in Nat \ {0}
    BY <1>1, <1>3, PendingCovers DEF Hands, Counted
  <2>2. PICK n \in Nat : n = run[b].pending - 1
    BY <2>1
  <2>3. PICK r \in RunType : r = Counting(run[b], n) /\ r.at = run[b].at /\ r.pending = n
    BY <2>1, RunFields
  <2>4. run' = [run EXCEPT ![b] = r]
    BY <1>1, <1>3, <2>2, <2>3 DEF Finish
  <2>. QED
    BY <1>1, <1>3, <2>1, <2>2, <2>3, <2>4
<1>. QED
  BY <1>2, <1>3

(* Every step keeps the fields' types: a worker in a callback, whose task  *)
(* WorkerLeaves moves on, has a task, and a run that Finish counts down is *)
(* in progress with something pending.                                     *)
LEMMA TypesStep ==
  ASSUME Types, Counts, Places, [Next]_vars
  PROVE  Types'
<1>. USE ThreadFacts
<1>1. CASE UNCHANGED vars
  BY <1>1 DEF vars, Types
<1>2. CASE \E c \in Callers : CallerBegins(c)
  BY <1>2 DEF Types, CallerBegins, BeginRun, NewRun, RunType
<1>3. CASE \E w \in Workers : StageBegins(w)
  <2>. PICK w \in Workers : StageBegins(w)
    BY <1>3
  <2>1. run' \in [Threads -> RunType \union {None}]
    BY DEF Types, StageBegins, BeginRun, NewRun, RunType
  <2>2. task' \in [Workers -> TaskType \union {None}]
    BY InProgress, TaskFields DEF Types, StageBegins, Working, TaskPlaces
  <2>. QED
    BY <2>1, <2>2 DEF Types, StageBegins, BeginRun
<1>4. CASE \E w \in Workers : Take(w)
  <2>. PICK w \in Workers : Take(w)
    BY <1>4
  <2>1. Head(queue) \in Threads /\ Tail(queue) \in Seq(Threads)
    BY HeadTailProperties DEF Types, Take
  <2>. QED
    BY <2>1 DEF Types, Take, TaskType
<1>5. CASE \E w \in Workers : TellOfCase(w)
  BY <1>5, InProgress DEF Types, TellOfCase, Working, Enter, EventType, TaskType
<1>6. CASE \E w \in Workers : WorkerLeaves(w)
  <2>. PICK w \in Workers : WorkerLeaves(w)
    BY <1>6
  <2>1. task[w] \in TaskType
    BY InProgress DEF WorkerLeaves, Places, OfRun, OfTask
  <2>. QED
    BY <2>1, TaskFields DEF Types, WorkerLeaves, TaskPlaces
<1>7. CASE \E w \in Workers : StageReturns(w)
  BY <1>7, InProgress, TaskFields DEF Types, StageReturns, Working, TaskPlaces
<1>8. CASE \E w \in Workers : Finish(w)
  <2>. PICK w \in Workers : Finish(w)
    BY <1>8
  <2>1. run' = run \/ \E b \in Threads, r \in RunType : run' = [run EXCEPT ![b] = r]
    BY Finishes
  <2>2. run' \in [Threads -> RunType \union {None}]
    BY <2>1 DEF Types
  <2>. QED
    BY <2>2 DEF Types, Finish
<1>9. CASE \E t \in Threads : TellStage(t) \/ TellCase(t) \/ TellBranch(t)
  <2>. PICK t \in Threads : TellStage(t) \/ TellCase(t) \/ TellBranch(t)
    BY <1>9
  <2>1. \E locked \in BOOLEAN :
          telling' = [telling EXCEPT ![t] = [run |-> t, locked |-> locked]]
    BY DEF TellStage, TellCase, TellBranch, Enter
  <2>2. \A locked \in BOOLEAN : [run |-> t, locked |-> locked] \in EventType
    BY DEF EventType
  <2>3. telling' \in [Threads -> EventType \union {None}]
    BY <2>1, <2>2 DEF Types
  <2>. QED
    BY <2>3 DEF Types, TellStage, TellCase, TellBranch
<1>10. CASE \E t \in Threads : Post(t)
  <2>. PICK t \in Threads : Post(t)
    BY <1>10
  <2>1. Counting(Advance(run[t]), run[t].pending + 1) \in RunType
    <3>. run[t] \in RunType /\ run[t].pending + 1 \in Nat
      BY InProgress DEF Post, Running, RunType
    <3>. QED
      BY AdvanceType, RunFields
  <2>2. Append(queue, t) \in Seq(Threads)
    BY AppendProperties DEF Types
  <2>. QED
    BY <2>1, <2>2 DEF Types, Post
<1>11. CASE \E t \in Threads : WaitReturns(t)
  BY <1>11, InProgress, RunFields DEF Types, WaitReturns, Running, RunPlaces
<1>12. CASE \E t \in Threads : CallerLeaves(t)
  <2>. PICK t \in Threads : CallerLeaves(t)
    BY <1>12
  <2>1. run[t] \in RunType /\ Advance(run[t]) \in RunType
    BY InProgress, AdvanceType DEF CallerLeaves
  <2>2. \A a \in {"predicate", "selected", "success"} : At(run[t], a) \in RunType
    BY <2>1, RunFields DEF RunPlaces
  <2>3. \E r \in RunType \union {None} : run' = [run EXCEPT ![t] = r]
    BY <2>1, <2>2 DEF CallerLeaves
  <2>. QED
    BY <2>3 DEF Types, CallerLeaves
<1>13. CASE \E t \in Threads : Unwind(t)
  BY <1>13, InProgress, RunFields DEF Types, Unwind, RunPlaces
<1>. QED
  BY <1>1, <1>2, <1>3, <1>4, <1>5, <1>6, <1>7, <1>8, <1>9, <1>10, <1>11, <1>12, <1>13, Cases

-----------------------------------------------------------------------------
(* A posted case takes a place of its own in the queue; a taken one leaves *)
(* it.                                                                     *)
LEMMA PositionsAppend ==
  ASSUME NEW q \in Seq(Threads), NEW t \in Threads, NEW x \in Threads
  PROVE  Cardinality(Positions(Append(q, t), x)) =
           Cardinality(Positions(q, x)) + (IF x = t THEN 1 ELSE 0)
<1>. DEFINE n == Len(q)
<1>1. n \in Nat
  BY LenProperties
<1>2. /\ Len(Append(q, t)) = n + 1
      /\ \A i \in 1 .. n : Append(q, t)[i] = q[i]
      /\ Append(q, t)[n + 1] = t
  BY AppendProperties
<1>3. Positions(Append(q, t), x) =
        IF x = t THEN Positions(q, x) \union {n + 1} ELSE Positions(q, x)
  BY <1>1, <1>2 DEF Positions
<1>4. n + 1 \notin Positions(q, x)
  BY <1>1 DEF Positions
<1>5. /\ IsFiniteSet(Positions(q, x)) /\ Cardinality(Positions(q, x)) \in Nat
  BY PositionsFinite, FS_CardinalityType
<1>6. Cardinality(Positions(q, x) \union {n + 1}) = Cardinality(Positions(q, x)) + 1
  BY <1>4, <1>5, FS_AddElement
<1>. QED
  BY <1>3, <1>5, <1>6

(* What is behind the front of the queue moves up by one.                  *)
LEMMA PositionsTail ==
  ASSUME NEW q \in Seq(Threads), q # <<>>, NEW x \in Threads
  PROVE  Cardinality(Positions(q, x)) =
           Cardinality(Positions(Tail(q), x)) + (IF x = Head(q) THEN 1 ELSE 0)
<1>. DEFINE S == Positions(Tail(q), x)
            T == Positions(q, x) \ {1}
            f == [i \in S |-> i + 1]
<1>1. /\ Len(q) \in Nat \ {0} /\ q[1] = Head(q)
      /\ Tail(q) \in Seq(Threads) /\ Len(Tail(q)) = Len(q) - 1
      /\ \A i \in 1 .. Len(Tail(q)) : Tail(q)[i] = q[i + 1]
  BY HeadTailProperties, LenProperties, EmptySeq
<1>2. \A i \in S : i \in Nat /\ i + 1 \in T
  BY <1>1 DEF Positions
<1>3. \A j \in T : j - 1 \in S /\ f[j - 1] = j
  BY <1>1 DEF Positions
<1>4. \A i, j \in S : f[i] = f[j] => i = j
  BY <1>2
<1>5. f \in Bijection(S, T)
  <2>1. f \in [S -> T]
    BY <1>2
  <2>2. \A j \in T : \E i \in S : f[i] = j
    BY <1>3
  <2>. HIDE DEF f, S, T
  <2>3. f \in Injection(S, T)
    BY <2>1, <1>4 DEF Injection, IsInjective
  <2>4. f \in Surjection(S, T)
    BY <2>1, <2>2 DEF Surjection
  <2>. QED
    BY <2>3, <2>4 DEF Bijection
<1>6. IsFiniteSet(S) /\ IsFiniteSet(Positions(q, x))
  BY <1>1, PositionsFinite
<1>7. Cardinality(T) = Cardinality(S)
  <2>. HIDE DEF f, S, T
  <2>1. ExistsBijection(S, T)
    BY <1>5 DEF ExistsBijection
  <2>. QED
    BY <2>1, <1>6, FS_Bijection
<1>8. 1 \in Positions(q, x) <=> x = Head(q)
  BY <1>1 DEF Positions
<1>9. /\ Cardinality(T) = IF 1 \in Positions(q, x)
                          THEN Cardinality(Positions(q, x)) - 1
                          ELSE Cardinality(Positions(q, x))
      /\ Cardinality(Positions(q, x)) \in Nat
  BY <1>6, FS_RemoveElement, FS_CardinalityType
<1>. QED
  BY <1>7, <1>8, <1>9

(* Counts holds after a step that leaves the queue, whose cases the        *)
(* workers hold, and what the runs that go on count.                       *)
LEMMA CountsFrame ==
  ASSUME Counts, queue' = queue,
         \A w \in Workers :
           /\ task'[w] = None <=> task[w] = None
           /\ task[w] # None => task'[w].by = task[w].by,
         \A t \in Threads :
           Counted(t)' => Counted(t) /\ Pending(t)' = Pending(t)
  PROVE  Counts'
<1>1. \A t \in Threads : Posted(t)' = Posted(t)
  BY DEF Posted
<1>2. \A t \in Threads : Hands(t)' = Hands(t)
  BY DEF Hands
<1>. QED
  BY <1>1, <1>2, Zenon DEF Counts

(* Post adds a place in the queue and one pending, Take moves the case     *)
(* from the queue to a hand, Finish drops it from the hand and the count.  *)
LEMMA CountsStep ==
  ASSUME Types, Counts, Drained, Places, Unthrown, [Next]_vars
  PROVE  Counts'
<1>. USE ThreadFacts
<1>0. Types'
  BY TypesStep
<1>1. CASE UNCHANGED <<run, queue, task>>
  BY <1>1, CountsFrame DEF Pending, Counted
<1>2. ASSUME NEW t \in Threads, BeginRun(t),
             UNCHANGED task \/ \E w \in Workers : StageBegins(w)
      PROVE  Counts'
  <2>1. \A u \in Threads : Pending(u)' = Pending(u) /\ (u # t => (Counted(u)' <=> Counted(u)))
    BY <1>2 DEF BeginRun, NewRun, Types, Pending, Counted
  <2>2. \A w \in Workers :
          /\ task'[w] = None <=> task[w] = None
          /\ task[w] # None => task'[w].by = task[w].by
    BY <1>2, InProgress, TaskFields DEF Types, StageBegins, Working, TaskPlaces
  <2>3. \A u \in Threads : Hands(u)' = Hands(u) /\ Posted(u)' = Posted(u)
    BY <1>2, <2>2 DEF Hands, Posted, BeginRun
  <2>4. Cardinality(Posted(t)) + Cardinality(Hands(t)) = Pending(t)
    <3>1. Posted(t) = {} /\ Hands(t) = {}
      BY <1>2, BeginsEmpty
    <3>2. Cardinality(Posted(t)) = 0 /\ Cardinality(Hands(t)) = 0
      BY <3>1, FS_EmptySet
    <3>3. Pending(t) = 0
      BY <1>2 DEF Pending, BeginRun
    <3>. QED
      BY <3>2, <3>3
  <2>5. ASSUME NEW u \in Threads
        PROVE  /\ IsFiniteSet(Hands(u)')
               /\ Counted(u)' => Cardinality(Posted(u)') + Cardinality(Hands(u)') = Pending(u)'
    BY <2>1, <2>3, <2>4 DEF Counts
  <2>. QED
    BY <2>5, Zenon DEF Counts
<1>3. ASSUME NEW w \in Workers, Take(w)
      PROVE  Counts'
  <2>. DEFINE h == Head(queue)
  <2>1. h \in Threads /\ queue \in Seq(Threads) /\ queue # <<>>
    BY <1>3, HeadTailProperties DEF Types, Take
  <2>2. \A t \in Threads : Pending(t)' = Pending(t) /\ Counted(t)' = Counted(t)
    BY <1>3 DEF Take, Pending, Counted
  <2>3. \A t \in Threads :
          Cardinality(Posted(t)) = Cardinality(Posted(t)') + (IF t = h THEN 1 ELSE 0)
    BY <1>3, <2>1, PositionsTail DEF Posted, Take
  <2>4. \A t \in Threads : Cardinality(Posted(t)') \in Nat
    BY <1>0, PositionsFinite, FS_CardinalityType DEF Types, Posted
  <2>5. \A v \in Workers : task'[v] = IF v = w THEN [by |-> h, at |-> "begin"] ELSE task[v]
    BY <1>3 DEF Take, Types
  <2>6. [by |-> h, at |-> "begin"] # None
    BY <2>1 DEF TaskType
  <2>7. \A t \in Threads : Hands(t)' = IF t = h THEN Hands(t) \union {w} ELSE Hands(t)
    BY <1>3, <2>5, <2>6 DEF Hands, Take
  <2>8. w \notin Hands(h)
    BY <1>3 DEF Hands, Take
  <2>9. IsFiniteSet(Hands(h)) /\ Cardinality(Hands(h)) \in Nat
    BY <2>1, FS_CardinalityType DEF Counts
  <2>10. /\ IsFiniteSet(Hands(h) \union {w})
         /\ Cardinality(Hands(h) \union {w}) = Cardinality(Hands(h)) + 1
    BY <2>8, <2>9, FS_AddElement
  <2>11. ASSUME NEW t \in Threads
         PROVE  /\ IsFiniteSet(Hands(t)')
                /\ Counted(t)' => Cardinality(Posted(t)') + Cardinality(Hands(t)') = Pending(t)'
    <3>1. /\ IsFiniteSet(Hands(t))
          /\ Counted(t)' => Cardinality(Posted(t)) + Cardinality(Hands(t)) = Pending(t)
      BY <2>2 DEF Counts
    <3>2. CASE t = h
      <4>1. /\ IsFiniteSet(Hands(t)') /\ Cardinality(Hands(t)) \in Nat
            /\ Cardinality(Hands(t)') = Cardinality(Hands(t)) + 1
        BY <3>2, <2>7, <2>9, <2>10
      <4>2. /\ Cardinality(Posted(t)) = Cardinality(Posted(t)') + 1
            /\ Cardinality(Posted(t)') \in Nat /\ Pending(t)' = Pending(t)
        BY <3>2, <2>2, <2>3, <2>4
      <4>. QED
        BY <3>1, <4>1, <4>2
    <3>3. CASE t # h
      BY <3>1, <3>3, <2>2, <2>3, <2>4, <2>7
    <3>. QED
      BY <3>2, <3>3
  <2>. QED
    BY <2>11, Zenon DEF Counts
<1>4. ASSUME NEW w \in Workers, WorkerLeaves(w) \/ StageReturns(w)
      PROVE  Counts'
  <2>1. task[w] \in TaskType
    BY <1>4, InProgress DEF WorkerLeaves, StageReturns, Working, Places, OfRun, OfTask
  <2>2. \E a \in TaskPlaces : task' = [task EXCEPT ![w] = At(task[w], a)]
    BY <1>4 DEF WorkerLeaves, StageReturns, TaskPlaces
  <2>3. \A v \in Workers :
          /\ task'[v] = None <=> task[v] = None
          /\ task[v] # None => task'[v].by = task[v].by
    BY <2>1, <2>2, TaskFields DEF Types
  <2>4. UNCHANGED <<run, queue>>
    BY <1>4 DEF WorkerLeaves, StageReturns
  <2>. QED
    BY <2>3, <2>4, CountsFrame DEF Pending, Counted
<1>5. ASSUME NEW w \in Workers, Finish(w)
      PROVE  Counts'
  <2>1. PICK b \in Threads :
          /\ task[w] # None /\ task[w].by = b
          /\ \/ run[b] = None /\ run' = run
             \/ /\ run[b] # None /\ run[b] \in RunType
                /\ run[b].pending \in Nat \ {0}
                /\ \E r \in RunType :
                     /\ run' = [run EXCEPT ![b] = r]
                     /\ r.at = run[b].at /\ r.pending = run[b].pending - 1
    BY <1>5, Finishes
  <2>2. w \in Hands(b)
    BY <2>1 DEF Hands
  <2>3. \A t \in Threads : Counted(t)' = Counted(t)
    BY <2>1 DEF Types, Counted
  <2>4. \A t \in Threads : Pending(t) \in Nat
    BY InProgress DEF Pending, RunType
  <2>5. \A t \in Threads : Counted(t) => Pending(t)' = Pending(t) - (IF t = b THEN 1 ELSE 0)
    <3>1. Counted(b) => run[b] # None
      BY <2>2, PendingCovers
    <3>2. CASE run[b] = None
      BY <2>1, <2>4, <3>1, <3>2 DEF Pending
    <3>3. CASE run[b] # None
      <4>1. PICK r \in RunType : run' = [run EXCEPT ![b] = r] /\ r.pending = run[b].pending - 1
        BY <2>1, <3>3
      <4>2. \A t \in Threads : run'[t] = IF t = b THEN r ELSE run[t]
        BY <4>1 DEF Types
      <4>. QED
        BY <2>4, <3>3, <4>1, <4>2 DEF Pending
    <3>. QED
      BY <3>2, <3>3
  <2>6. \A v \in Workers : task'[v] = IF v = w THEN None ELSE task[v]
    BY <1>5 DEF Finish, Types
  <2>7. \A t \in Threads : Hands(t)' = IF t = b THEN Hands(b) \ {w} ELSE Hands(t)
    BY <2>1, <2>6 DEF Hands
  <2>8. \A t \in Threads : Posted(t)' = Posted(t)
    BY <1>5 DEF Finish, Posted
  <2>9. /\ IsFiniteSet(Hands(b) \ {w})
        /\ Cardinality(Hands(b) \ {w}) = Cardinality(Hands(b)) - 1
    BY <2>2, FS_RemoveElement DEF Counts
  <2>10. \A t \in Threads : /\ Cardinality(Posted(t)) \in Nat
                            /\ Cardinality(Hands(t)) \in Nat
    BY PositionsFinite, FS_CardinalityType DEF Types, Posted, Counts
  <2>11. ASSUME NEW t \in Threads
         PROVE  /\ IsFiniteSet(Hands(t)')
                /\ Counted(t)' => Cardinality(Posted(t)') + Cardinality(Hands(t)') = Pending(t)'
    <3>1. /\ IsFiniteSet(Hands(t))
          /\ Counted(t)' => Cardinality(Posted(t)) + Cardinality(Hands(t)) = Pending(t)
      BY <2>3 DEF Counts
    <3>2. /\ Cardinality(Posted(t)') = Cardinality(Posted(t))
          /\ Counted(t)' => Pending(t)' = Pending(t) - (IF t = b THEN 1 ELSE 0)
      BY <2>3, <2>5, <2>8
    <3>3. /\ IsFiniteSet(Hands(t)')
          /\ Cardinality(Hands(t)') = Cardinality(Hands(t)) - (IF t = b THEN 1 ELSE 0)
      <4>1. CASE t = b
        BY <4>1, <2>7, <2>9
      <4>2. CASE t # b
        BY <4>2, <3>1, <2>7, <2>10
      <4>. QED
        BY <4>1, <4>2
    <3>. QED
      BY <3>1, <3>2, <3>3, <2>10
  <2>. QED
    BY <2>11, Zenon DEF Counts
<1>6. ASSUME NEW t \in Threads, Post(t)
      PROVE  Counts'
  <2>1. run[t] # None /\ run[t] \in RunType /\ run[t].pending \in Nat
    BY <1>6, InProgress DEF Post, Running, RunType
  <2>2. /\ Counting(Advance(run[t]), run[t].pending + 1) \in RunType
        /\ Counting(Advance(run[t]), run[t].pending + 1).pending = run[t].pending + 1
    <3>. Advance(run[t]) \in RunType /\ run[t].pending + 1 \in Nat
      BY <2>1, AdvanceType
    <3>. QED
      BY RunFields
  <2>3. \A u \in Threads :
          run'[u] = IF u = t THEN Counting(Advance(run[t]), run[t].pending + 1) ELSE run[u]
    BY <1>6 DEF Post, Types
  <2>4. \A u \in Threads :
          Pending(u)' = Pending(u) + (IF u = t THEN 1 ELSE 0) /\ (Counted(u)' <=> Counted(u))
    <3>1. \A u \in Threads : Pending(u) \in Nat
      BY InProgress DEF Pending, RunType
    <3>2. Counting(Advance(run[t]), run[t].pending + 1) # None
      BY <2>2
    <3>3. \A u \in Threads : Counted(u)' <=> Counted(u)
      BY <2>1, <2>3, <3>2 DEF Counted
    <3>. QED
      BY <2>1, <2>2, <2>3, <3>1, <3>3 DEF Pending
  <2>5. \A u \in Threads : Hands(u)' = Hands(u)
    BY <1>6 DEF Post, Hands
  <2>6. \A u \in Threads :
          Cardinality(Posted(u)') = Cardinality(Posted(u)) + (IF u = t THEN 1 ELSE 0)
    BY <1>6, PositionsAppend DEF Types, Posted, Post
  <2>7. \A u \in Threads : /\ Cardinality(Posted(u)) \in Nat
                           /\ Cardinality(Hands(u)) \in Nat
    BY PositionsFinite, FS_CardinalityType DEF Types, Posted, Counts
  <2>8. ASSUME NEW u \in Threads
        PROVE  /\ IsFiniteSet(Hands(u)')
               /\ Counted(u)' => Cardinality(Posted(u)') + Cardinality(Hands(u)') = Pending(u)'
    <3>1. /\ IsFiniteSet(Hands(u))
          /\ Counted(u)' => Cardinality(Posted(u)) + Cardinality(Hands(u)) = Pending(u)
      BY <2>4 DEF Counts
    <3>. QED
      BY <3>1, <2>4, <2>5, <2>6, <2>7
  <2>. QED
    BY <2>8, Zenon DEF Counts
<1>7. ASSUME NEW t \in Threads, WaitReturns(t) \/ CallerLeaves(t) \/ Unwind(t)
      PROVE  Counts'
  <2>1. run[t] # None /\ run[t] \in RunType
    BY <1>7, InProgress DEF WaitReturns, CallerLeaves, Unwind, Running
  <2>2. \A a \in {"predicate", "selected", "completed", "success", "caught"} :
          At(run[t], a) \in RunType /\ At(run[t], a).pending = run[t].pending
    BY <2>1, RunFields DEF RunPlaces
  <2>3. \/ \E r \in RunType : run' = [run EXCEPT ![t] = r] /\ r.pending = run[t].pending
        \/ run' = [run EXCEPT ![t] = None] /\ (run[t].pending = 0 \/ CallerThrows)
    <3>1. CASE WaitReturns(t)
      BY <2>2, <3>1 DEF WaitReturns
    <3>2. CASE CallerLeaves(t)
      BY <2>1, <2>2, <3>2, AdvanceType DEF CallerLeaves, Drained, Unthrown
    <3>3. CASE Unwind(t)
      BY <2>2, <3>3 DEF Unwind
    <3>. QED
      BY <1>7, <3>1, <3>2, <3>3
  <2>4. \A u \in Threads : Counted(u)' => Counted(u) /\ Pending(u)' = Pending(u)
    BY <2>1, <2>3 DEF Types, Pending, Counted
  <2>5. UNCHANGED <<queue, task>>
    BY <1>7 DEF WaitReturns, CallerLeaves, Unwind
  <2>. QED
    BY <2>4, <2>5, CountsFrame
<1>8. CASE Next
  <2>1. CASE \E c \in Callers : CallerBegins(c)
    BY <2>1, <1>2 DEF CallerBegins
  <2>2. CASE \E w \in Workers : \/ StageBegins(w) \/ Take(w) \/ TellOfCase(w)
                                \/ WorkerLeaves(w) \/ StageReturns(w) \/ Finish(w)
    BY <2>2, <1>1, <1>2, <1>3, <1>4, <1>5 DEF StageBegins, TellOfCase
  <2>3. CASE \E t \in Threads : \/ TellStage(t) \/ TellCase(t) \/ Post(t)
                                \/ WaitReturns(t) \/ TellBranch(t) \/ CallerLeaves(t) \/ Unwind(t)
    BY <2>3, <1>1, <1>6, <1>7 DEF TellStage, TellCase, TellBranch
  <2>. QED
    BY <1>8, <2>1, <2>2, <2>3, Cases
<1>. QED
  BY <1>1, <1>8 DEF vars

-----------------------------------------------------------------------------
(* Only the return of a wait brings a run past its branch, and it waits    *)
(* until nothing is pending.                                               *)
LEMMA DrainedStep ==
  ASSUME Types, Counts, Drained, [Next]_vars
  PROVE  Drained'
<1>. USE ThreadFacts
<1>1. CASE UNCHANGED run
  BY <1>1 DEF Drained
<1>2. ASSUME NEW t \in Threads, BeginRun(t)
      PROVE  Drained'
  BY <1>2 DEF BeginRun, NewRun, Types, Drained
<1>3. ASSUME NEW w \in Workers, Finish(w)
      PROVE  Drained'
  <2>1. CASE run' = run
    BY <1>1, <2>1
  <2>2. ASSUME NEW b \in Threads, run[b] # None, run[b].pending \in Nat \ {0},
               NEW r \in RunType, run' = [run EXCEPT ![b] = r], r.at = run[b].at
        PROVE  Drained'
    <3>1. r.at \notin {"start", "completed", "success"}
      BY <2>2 DEF Drained
    <3>2. \A t \in Threads : run'[t] = IF t = b THEN r ELSE run[t]
      BY <2>2 DEF Types
    <3>. QED
      BY <3>1, <3>2 DEF Drained
  <2>. QED
    BY <1>3, <2>1, <2>2, Finishes
<1>4. ASSUME NEW t \in Threads, Post(t)
      PROVE  Drained'
  <2>. DEFINE r == Counting(Advance(run[t]), run[t].pending + 1)
  <2>1. r.at \in {"predicate", "wait"}
    <3>1. run[t] \in RunType /\ run[t].pending + 1 \in Nat
      BY <1>4, InProgress DEF Post, Running, RunType
    <3>2. Advance(run[t]) \in RunType /\ Advance(run[t]).at \in {"predicate", "wait"}
      BY <3>1, AdvanceType
    <3>3. r.at = Advance(run[t]).at
      BY <3>1, <3>2, RunFields
    <3>. QED
      BY <3>2, <3>3
  <2>2. \A u \in Threads : run'[u] = IF u = t THEN r ELSE run[u]
    BY <1>4 DEF Post, Types
  <2>. QED
    BY <2>1, <2>2 DEF Drained
<1>5. ASSUME NEW t \in Threads, WaitReturns(t) \/ CallerLeaves(t) \/ Unwind(t)
      PROVE  Drained'
  <2>1. run[t] # None /\ run[t] \in RunType
    BY <1>5, InProgress DEF WaitReturns, CallerLeaves, Unwind, Running
  <2>2. \A a \in {"predicate", "selected", "completed", "success", "caught"} :
          At(run[t], a).at = a /\ At(run[t], a).pending = run[t].pending
    BY <2>1, RunFields DEF RunPlaces
  <2>3. \/ /\ run' = [run EXCEPT ![t] = None]
        \/ \E r : /\ run' = [run EXCEPT ![t] = r]
                  /\ r.at \in {"start", "completed", "success"} => r.pending = 0
    BY <1>5, <2>1, <2>2, AdvanceType DEF WaitReturns, CallerLeaves, Unwind, Drained
  <2>. QED
    BY <2>3 DEF Types, Drained
<1>6. CASE Next
  <2>1. CASE \E c \in Callers : CallerBegins(c)
    BY <2>1, <1>2 DEF CallerBegins
  <2>2. CASE \E w \in Workers : \/ StageBegins(w) \/ Take(w) \/ TellOfCase(w)
                                \/ WorkerLeaves(w) \/ StageReturns(w) \/ Finish(w)
    BY <2>2, <1>1, <1>2, <1>3
       DEF StageBegins, Take, TellOfCase, WorkerLeaves, StageReturns
  <2>3. CASE \E t \in Threads : \/ TellStage(t) \/ TellCase(t) \/ Post(t)
                                \/ WaitReturns(t) \/ TellBranch(t) \/ CallerLeaves(t) \/ Unwind(t)
    BY <2>3, <1>1, <1>4, <1>5 DEF TellStage, TellCase, TellBranch
  <2>. QED
    BY <1>6, <2>1, <2>2, <2>3, Cases
<1>. QED
  BY <1>1, <1>6 DEF vars

-----------------------------------------------------------------------------
(* Places holds after a step of thread a, when a's own place is right and  *)
(* the step moves nobody else.                                             *)
LEMMA PlacesFrame ==
  ASSUME Places, NEW a \in Threads,
         \A u \in Threads \ {a} :
           /\ telling'[u] = telling[u]
           /\ \/ run'[u] = run[u]
              \/ run[u] # None /\ run'[u] # None /\ run'[u].at = run[u].at
           /\ u \in Workers => task'[u] = task[u],
         telling'[a] # None => OfRun(a)' \/ OfTask(a)'
  PROVE  Places'
<1>1. ASSUME NEW u \in Threads \ {a}, telling'[u] # None
      PROVE  OfRun(u)' \/ OfTask(u)'
  <2>1. OfRun(u) \/ OfTask(u)
    BY <1>1 DEF Places
  <2>2. OfRun(u) => OfRun(u)'
    BY <1>1 DEF OfRun
  <2>3. OfTask(u) => OfTask(u)'
    BY <1>1 DEF OfTask
  <2>. QED
    BY <2>1, <2>2, <2>3
<1>. QED
  BY <1>1, Zenon DEF Places

(* A thread that is in the observer neither moves its run nor its task,    *)
(* and Finish, of another thread, changes no place of a run.               *)
LEMMA PlacesStep ==
  ASSUME Types, Counts, Places, [Next]_vars
  PROVE  Places'
<1>. USE ThreadFacts
<1>1. CASE UNCHANGED vars
  BY <1>1, Zenon DEF vars, Places, OfRun, OfTask
<1>2. ASSUME NEW t \in Threads, BeginRun(t), UNCHANGED task \/ StageBegins(t), t \in Workers \/ UNCHANGED task
      PROVE  Places'
  <2>1. telling'[t] = None
    BY <1>2 DEF BeginRun, Types
  <2>2. \A u \in Threads \ {t} :
          /\ telling'[u] = telling[u] /\ run'[u] = run[u]
          /\ u \in Workers => task'[u] = task[u]
    BY <1>2 DEF BeginRun, StageBegins, Types
  <2>. QED
    BY <2>1, <2>2, PlacesFrame
<1>3. ASSUME NEW w \in Workers, Take(w)
      PROVE  Places'
  <2>1. \A u \in Threads \ {w} :
          /\ telling'[u] = telling[u] /\ run'[u] = run[u]
          /\ u \in Workers => task'[u] = task[u]
    BY <1>3 DEF Take, Types
  <2>2. telling'[w] # None => OfRun(w)'
    BY <1>3 DEF Take, Places, OfRun, OfTask
  <2>. QED
    BY <2>1, <2>2, PlacesFrame
<1>4. ASSUME NEW w \in Workers, TellOfCase(w)
      PROVE  Places'
  <2>1. \A u \in Threads \ {w} :
          /\ telling'[u] = telling[u] /\ run'[u] = run[u]
          /\ u \in Workers => task'[u] = task[u]
    BY <1>4 DEF TellOfCase, Enter, Types
  <2>2. telling'[w] = [run |-> task[w].by, locked |-> TRUE]
    BY <1>4 DEF TellOfCase, Enter, Types
  <2>3. OfTask(w)'
    BY <1>4, <2>2 DEF OfTask, TellOfCase, Working
  <2>. QED
    BY <2>1, <2>3, PlacesFrame
<1>5. ASSUME NEW w \in Workers, WorkerLeaves(w) \/ StageReturns(w)
      PROVE  Places'
  <2>1. \A u \in Threads \ {w} :
          /\ telling'[u] = telling[u] /\ run'[u] = run[u]
          /\ u \in Workers => task'[u] = task[u]
    BY <1>5 DEF WorkerLeaves, StageReturns, Types
  <2>2. telling'[w] = None
    BY <1>5 DEF WorkerLeaves, StageReturns, Working, Types
  <2>. QED
    BY <2>1, <2>2, PlacesFrame
<1>6. ASSUME NEW w \in Workers, Finish(w)
      PROVE  Places'
  <2>5. \A u \in Threads \ {w} :
          /\ telling'[u] = telling[u]
          /\ u \in Workers => task'[u] = task[u]
    BY <1>6 DEF Finish, Types
  <2>6. telling'[w] = None
    BY <1>6 DEF Finish, Working
  <2>7. \A u \in Threads :
          \/ run'[u] = run[u]
          \/ run[u] # None /\ run'[u] # None /\ run'[u].at = run[u].at
    <3>1. CASE run' = run
      BY <3>1
    <3>2. ASSUME NEW b \in Threads, run[b] # None,
                 NEW r \in RunType, run' = [run EXCEPT ![b] = r], r.at = run[b].at
          PROVE  \A u \in Threads :
                   \/ run'[u] = run[u]
                   \/ run[u] # None /\ run'[u] # None /\ run'[u].at = run[u].at
      BY <3>2 DEF Types
    <3>. QED
      BY <1>6, <3>1, <3>2, Finishes
  <2>. QED
    BY <2>5, <2>6, <2>7, PlacesFrame
<1>7. ASSUME NEW t \in Threads, TellStage(t) \/ TellCase(t) \/ TellBranch(t)
      PROVE  Places'
  <2>1. \A u \in Threads \ {t} :
          /\ telling'[u] = telling[u] /\ run'[u] = run[u]
          /\ u \in Workers => task'[u] = task[u]
    BY <1>7 DEF TellStage, TellCase, TellBranch, Enter, Types
  <2>2. OfRun(t)'
    <3>1. CASE TellStage(t)
      <4>1. telling'[t] = [run |-> t, locked |-> FALSE]
        BY <3>1 DEF TellStage, Enter, Types
      <4>. QED
        BY <3>1, <4>1 DEF TellStage, Running, OfRun
    <3>2. CASE TellCase(t) \/ TellBranch(t)
      <4>1. telling'[t] = [run |-> t, locked |-> TRUE]
        BY <3>2 DEF TellCase, TellBranch, Enter, Types
      <4>. QED
        <5>1. run[t] # None /\ run' = run /\ run[t].at \in {"predicate", "completed"}
          BY <3>2 DEF TellCase, TellBranch, Running
        <5>. QED
          BY <4>1, <5>1 DEF OfRun
    <3>. QED
      BY <1>7, <3>1, <3>2
  <2>. QED
    BY <2>1, <2>2, PlacesFrame
<1>8. ASSUME NEW t \in Threads, Post(t) \/ WaitReturns(t) \/ CallerLeaves(t) \/ Unwind(t)
      PROVE  Places'
  <2>1. /\ telling'[t] = None
        /\ \A u \in Threads \ {t} : telling'[u] = telling[u]
    BY <1>8 DEF Post, WaitReturns, CallerLeaves, Unwind, Running, Types
  <2>2. \A u \in Threads \ {t} : run'[u] = run[u]
    BY <1>8 DEF Post, WaitReturns, CallerLeaves, Unwind, Types
  <2>3. task' = task
    BY <1>8 DEF Post, WaitReturns, CallerLeaves, Unwind
  <2>. QED
    BY <2>1, <2>2, <2>3, PlacesFrame
<1>9. CASE Next
  <2>1. CASE \E c \in Callers : CallerBegins(c)
    BY <2>1, <1>2 DEF CallerBegins
  <2>2. CASE \E w \in Workers : \/ StageBegins(w) \/ Take(w) \/ TellOfCase(w)
                                \/ WorkerLeaves(w) \/ StageReturns(w) \/ Finish(w)
    BY <2>2, <1>2, <1>3, <1>4, <1>5, <1>6 DEF StageBegins
  <2>3. CASE \E t \in Threads : \/ TellStage(t) \/ TellCase(t) \/ Post(t)
                                \/ WaitReturns(t) \/ TellBranch(t) \/ CallerLeaves(t) \/ Unwind(t)
    BY <2>3, <1>7, <1>8
  <2>. QED
    BY <1>9, <2>1, <2>2, <2>3, Cases
<1>. QED
  BY <1>1, <1>9

-----------------------------------------------------------------------------
(* A run that has been unwound stays so until its thread begins another.   *)
LEMMA UnwoundStays ==
  ASSUME Types, Counts, Next, NEW r \in Threads, ~BeginRun(r)
  PROVE  Unwound(r) => Unwound(r)'
<1>. USE ThreadFacts
<1>1. CASE UNCHANGED run
  BY <1>1 DEF Unwound
<1>2. ASSUME NEW t \in Threads, BeginRun(t)
      PROVE  Unwound(r) => Unwound(r)'
  BY <1>2 DEF BeginRun, Types, Unwound
<1>3. ASSUME NEW w \in Workers, Finish(w)
      PROVE  Unwound(r) => Unwound(r)'
  <2>1. ASSUME NEW b \in Threads, run[b] # None,
               NEW x \in RunType, run' = [run EXCEPT ![b] = x], x.at = run[b].at
        PROVE  Unwound(r) => Unwound(r)'
    BY <2>1 DEF Types, Unwound
  <2>. QED
    BY <1>1, <1>3, <2>1, Finishes
<1>4. ASSUME NEW t \in Threads, Post(t) \/ WaitReturns(t)
      PROVE  Unwound(r) => Unwound(r)'
  BY <1>4 DEF Post, WaitReturns, Running, Types, Unwound
<1>5. ASSUME NEW t \in Threads, CallerLeaves(t)
      PROVE  Unwound(r) => Unwound(r)'
  BY <1>5 DEF CallerLeaves, Types, Unwound
<1>6. ASSUME NEW t \in Threads, Unwind(t)
      PROVE  Unwound(r) => Unwound(r)'
  <2>1. At(run[t], "caught").at = "caught"
    BY <1>6, InProgress, RunFields DEF Unwind, RunPlaces
  <2>. QED
    BY <1>6, <2>1 DEF Unwind, Types, Unwound
<1>7. CASE \E c \in Callers : CallerBegins(c)
  BY <1>7, <1>2 DEF CallerBegins
<1>8. CASE \E w \in Workers : \/ StageBegins(w) \/ Take(w) \/ TellOfCase(w)
                              \/ WorkerLeaves(w) \/ StageReturns(w) \/ Finish(w)
  BY <1>8, <1>1, <1>2, <1>3
     DEF StageBegins, Take, TellOfCase, WorkerLeaves, StageReturns
<1>9. CASE \E t \in Threads : \/ TellStage(t) \/ TellCase(t) \/ Post(t)
                              \/ WaitReturns(t) \/ TellBranch(t) \/ CallerLeaves(t) \/ Unwind(t)
  BY <1>9, <1>1, <1>4, <1>5, <1>6 DEF TellStage, TellCase, TellBranch
<1>. QED
  BY <1>7, <1>8, <1>9, Cases

(* Nobody is in the observer for a run that begins.                        *)
LEMMA BeginsUntold ==
  ASSUME Places, NEW r \in Threads, BeginRun(r), NEW t \in Threads, telling[t] # None
  PROVE  telling[t].run # r
<1>1. CASE OfRun(t)
  BY <1>1 DEF OfRun, BeginRun
<1>2. CASE OfTask(t)
  BY <1>2 DEF OfTask, BeginRun, Executed
<1>. QED
  BY <1>1, <1>2 DEF Places

(* Exclusive holds after a step that brings nobody into the observer.      *)
LEMMA ExclusiveFrame ==
  ASSUME Types, Counts, Exclusive, Places, Next,
         \A t \in Threads : telling'[t] = telling[t] \/ telling'[t] = None
  PROVE  Exclusive'
<1>. SUFFICES ASSUME NEW t \in Threads, NEW u \in Threads, t # u,
                     telling'[t] # None, telling'[t].locked,
                     telling'[u] # None, telling'[u].locked,
                     NEW r, r = telling'[t].run, r = telling'[u].run
              PROVE  Unwound(r)'
  BY DEF Exclusive, Unwound
<1>1. telling'[t] = telling[t] /\ telling'[u] = telling[u]
  OBVIOUS
<1>2. r \in Threads
  BY <1>1, InProgress DEF EventType
<1>3. ~BeginRun(r)
  BY <1>1, <1>2, BeginsUntold
<1>4. Unwound(r)
  BY <1>1 DEF Exclusive
<1>. QED
  BY <1>2, <1>3, <1>4, UnwoundStays

(* A callback that takes the mutex finds nobody who holds it, if it is     *)
(* there.                                                                  *)
LEMMA EnterKeepsExclusive ==
  ASSUME Types, Exclusive, NEW t \in Threads, NEW r \in Threads,
         NEW locked \in BOOLEAN, Enter(t, r, locked), run' = run
  PROVE  Exclusive'
<1>. USE ThreadFacts
<1>. DEFINE e == [run |-> r, locked |-> locked]
<1>1. \A u \in Threads : telling'[u] = IF u = t THEN e ELSE telling[u]
  BY DEF Enter, Types
<1>2. ASSUME locked, NEW u \in Threads, telling[u] # None, telling[u].locked, ~Unwound(r)
      PROVE  telling[u].run # r
  <2>1. telling[u] \in EventType /\ telling[u] # [run |-> r, locked |-> TRUE]
    BY <1>2, InProgress DEF Enter
  <2>2. telling[u] = [run |-> telling[u].run, locked |-> telling[u].locked]
    BY <2>1 DEF EventType
  <2>3. telling[u].locked = TRUE
    BY <1>2, <2>1 DEF EventType
  <2>. QED
    BY <2>1, <2>2, <2>3
<1>3. e.run = r /\ e.locked = locked
  OBVIOUS
<1>. HIDE DEF e
<1>4. ASSUME NEW u \in Threads, NEW v \in Threads, u # v,
             telling'[u] # None, telling'[u].locked,
             telling'[v] # None, telling'[v].locked,
             telling'[u].run = telling'[v].run
      PROVE  Unwound(telling'[u].run)
  <2>1. CASE u = t
    BY <2>1, <1>1, <1>2, <1>3, <1>4
  <2>2. CASE v = t
    BY <2>2, <1>1, <1>2, <1>3, <1>4
  <2>3. CASE u # t /\ v # t
    BY <2>3, <1>1, <1>4 DEF Exclusive
  <2>. QED
    BY <2>1, <2>2, <2>3
<1>. QED
  BY <1>4 DEF Exclusive, Unwound

(* Every step keeps a run's mutex to one holder.                           *)
LEMMA ExclusiveStep ==
  ASSUME Types, Counts, Exclusive, Places, [Next]_vars
  PROVE  Exclusive'
<1>. USE ThreadFacts
<1>1. CASE UNCHANGED vars
  BY <1>1 DEF vars, Exclusive, Unwound
<1>2. ASSUME Next, UNCHANGED telling
      PROVE  Exclusive'
  BY <1>2, ExclusiveFrame
<1>3. ASSUME Next, NEW t \in Threads, telling' = [telling EXCEPT ![t] = None]
      PROVE  Exclusive'
  <2>. \A u \in Threads : telling'[u] = telling[u] \/ telling'[u] = None
    BY <1>3 DEF Types
  <2>. QED
    BY <1>3, ExclusiveFrame
<1>4. ASSUME NEW w \in Workers, TellOfCase(w)
      PROVE  Exclusive'
  <2>1. task[w].by \in Threads
    BY <1>4, InProgress DEF TellOfCase, Working, TaskType
  <2>. QED
    BY <1>4, <2>1, EnterKeepsExclusive DEF TellOfCase
<1>5. ASSUME NEW t \in Threads, TellStage(t) \/ TellCase(t) \/ TellBranch(t)
      PROVE  Exclusive'
  BY <1>5, EnterKeepsExclusive DEF TellStage, TellCase, TellBranch
<1>6. CASE Next
  <2>1. CASE \E c \in Callers : CallerBegins(c)
    BY <2>1, <1>2, <1>6 DEF CallerBegins, BeginRun
  <2>2. CASE \E w \in Workers : \/ StageBegins(w) \/ Take(w) \/ TellOfCase(w)
                                \/ WorkerLeaves(w) \/ StageReturns(w) \/ Finish(w)
    BY <2>2, <1>2, <1>3, <1>4, <1>6
       DEF StageBegins, BeginRun, Take, WorkerLeaves, StageReturns, Finish
  <2>3. CASE \E t \in Threads : \/ TellStage(t) \/ TellCase(t) \/ Post(t)
                                \/ WaitReturns(t) \/ TellBranch(t) \/ CallerLeaves(t) \/ Unwind(t)
    BY <2>3, <1>2, <1>3, <1>5, <1>6 DEF Post, WaitReturns, CallerLeaves, Unwind
  <2>. QED
    BY <1>6, <2>1, <2>2, <2>3, Cases
<1>. QED
  BY <1>1, <1>6

-----------------------------------------------------------------------------
(* A run comes to the handler by an exception only.                        *)
LEMMA UnthrownStep ==
  ASSUME Types, Counts, Unthrown, [Next]_vars
  PROVE  Unthrown'
<1>. USE ThreadFacts
<1>. SUFFICES ASSUME ~CallerThrows
              PROVE  \A t \in Threads : run'[t] # None => run'[t].at # "caught"
  BY DEF Unthrown
<1>0. \A t \in Threads : run[t] # None => run[t].at # "caught"
  BY DEF Unthrown
<1>. DEFINE Kept == \A t \in Threads : run'[t] # None => run'[t].at # "caught"
<1>1. CASE UNCHANGED run
  BY <1>0, <1>1
<1>2. ASSUME NEW t \in Threads, NEW r, run' = [run EXCEPT ![t] = r], r # None => r.at # "caught"
      PROVE  Kept
  BY <1>0, <1>2 DEF Types
<1>3. ASSUME NEW t \in Threads, BeginRun(t)
      PROVE  Kept
  BY <1>2, <1>3 DEF BeginRun, NewRun
<1>4. ASSUME NEW w \in Workers, Finish(w)
      PROVE  Kept
  BY <1>0, <1>1, <1>2, <1>4, Finishes
<1>5. ASSUME NEW t \in Threads, Post(t)
      PROVE  Kept
  <2>1. run[t] \in RunType /\ run[t].pending + 1 \in Nat
    BY <1>5, InProgress DEF Post, Running, RunType
  <2>2. Counting(Advance(run[t]), run[t].pending + 1).at \in {"predicate", "wait"}
    BY <2>1, AdvanceType, RunFields
  <2>. QED
    BY <1>2, <1>5, <2>2 DEF Post
<1>6. ASSUME NEW t \in Threads, WaitReturns(t) \/ CallerLeaves(t)
      PROVE  Kept
  <2>1. run[t] # None /\ run[t] \in RunType
    BY <1>6, InProgress DEF WaitReturns, CallerLeaves, Running
  <2>2. /\ \A a \in {"predicate", "selected", "completed", "success"} : At(run[t], a).at = a
        /\ Advance(run[t]).at \in {"predicate", "wait"}
    BY <2>1, RunFields, AdvanceType DEF RunPlaces
  <2>. QED
    BY <1>2, <1>6, <2>2 DEF WaitReturns, CallerLeaves
<1>7. CASE Next
  <2>1. CASE \E c \in Callers : CallerBegins(c)
    BY <2>1, <1>3 DEF CallerBegins
  <2>2. CASE \E w \in Workers : \/ StageBegins(w) \/ Take(w) \/ TellOfCase(w)
                                \/ WorkerLeaves(w) \/ StageReturns(w) \/ Finish(w)
    BY <2>2, <1>1, <1>3, <1>4
       DEF StageBegins, Take, TellOfCase, WorkerLeaves, StageReturns
  <2>3. CASE \E t \in Threads : \/ TellStage(t) \/ TellCase(t) \/ Post(t)
                                \/ WaitReturns(t) \/ TellBranch(t) \/ CallerLeaves(t) \/ Unwind(t)
    BY <2>3, <1>1, <1>5, <1>6 DEF TellStage, TellCase, TellBranch, Unwind
  <2>. QED
    BY <1>7, <2>1, <2>2, <2>3, Cases
<1>. QED
  BY <1>1, <1>7 DEF vars

-----------------------------------------------------------------------------
(* Nothing has begun.                                                      *)
LEMMA Initial ==
  ASSUME Init
  PROVE  IInv
<1>1. Types /\ Drained /\ Places /\ Exclusive /\ Unthrown
  BY DEF Init, Types, Drained, Places, Exclusive, Unthrown
<1>2. \A t \in Threads : Posted(t) = {} /\ Hands(t) = {} /\ Pending(t) = 0
  BY DEF Init, Posted, Positions, Hands, Pending
<1>3. Counts
  BY <1>2, FS_EmptySet DEF Counts
<1>. QED
  BY <1>1, <1>3 DEF IInv

(* The invariant holds in every reachable state.                           *)
THEOREM Invariance == Spec => []IInv
<1>1. Init => IInv
  BY Initial
<1>2. IInv /\ [Next]_vars => IInv'
  BY TypesStep, CountsStep, DrainedStep, PlacesStep, ExclusiveStep, UnthrownStep DEF IInv
<1>. QED
  BY <1>1, <1>2, PTL DEF Spec

(* The mutex excludes the callbacks of a branch from one another.  Those   *)
(* of the run's own stages take no mutex, and nobody is in the observer    *)
(* for the run's cases then: before its branch and after one that waited   *)
(* a run has none.                                                         *)
LEMMA Apart ==
  ASSUME IInv, NEW t \in Threads, NEW u \in Threads, t # u,
         telling[t] # None, telling[u] # None, ~telling[t].locked
  PROVE  telling[t].run # telling[u].run \/ Unwound(telling[t].run)
<1>1. OfRun(t)
  BY DEF IInv, Places, OfTask
<1>2. CASE run[t].at = "caught"
  BY <1>1, <1>2 DEF OfRun, Unwound
<1>3. CASE run[t].at # "caught"
  <2>1. run[t].pending = 0
    BY <1>1, <1>3 DEF IInv, Drained, OfRun
  <2>2. Hands(t) = {}
    BY <1>1, <2>1, PendingCovers DEF IInv, Counted, OfRun
  <2>3. CASE OfRun(u)
    BY <1>1, <2>3 DEF OfRun
  <2>4. CASE OfTask(u)
    BY <1>1, <2>2, <2>4 DEF OfRun, OfTask, Hands
  <2>. QED
    BY <2>3, <2>4 DEF IInv, Places
<1>. QED
  BY <1>2, <1>3

(* So does the invariant for any two callbacks.                            *)
LEMMA Overlaps ==
  ASSUME IInv
  PROVE  OverlapsInARunNeedUnwinding
<1>. SUFFICES ASSUME NEW t \in Threads, NEW u \in Threads, t # u,
                     telling[t] # None, telling[u] # None,
                     telling[t].run = telling[u].run
              PROVE  Unwound(telling[t].run)
  BY DEF OverlapsInARunNeedUnwinding
<1>1. CASE telling[t].locked /\ telling[u].locked
  BY <1>1 DEF IInv, Exclusive
<1>2. CASE ~telling[t].locked \/ ~telling[u].locked
  BY <1>2, Apart
<1>. QED
  BY <1>1, <1>2

(* The run whose event a thread brings to the observer is in its branch,   *)
(* or beside it, when nothing throws.                                      *)
LEMMA ToldRunsGoOn ==
  ASSUME IInv, ~CallerThrows, NEW t \in Threads, telling[t] # None
  PROVE  ~Unwound(telling[t].run)
<1>1. PICK r \in Threads : r = telling[t].run
  BY InProgress DEF IInv, EventType
<1>2. run[r] # None
  <2>1. CASE OfRun(t)
    BY <1>1, <2>1 DEF OfRun
  <2>2. CASE OfTask(t)
    <3>1. t \in Hands(r)
      BY <1>1, <2>2 DEF OfTask, Hands
    <3>. QED
      BY <3>1, PendingCovers DEF IInv, Counted
  <2>. QED
    BY <2>1, <2>2 DEF IInv, Places
<1>. QED
  BY <1>1, <1>2 DEF IInv, Unthrown, Unwound

(* Two threads are in the observer for one run only if an exception has    *)
(* taken the run out of its branch (OverlapsInARunNeedUnwinding).          *)
THEOREM OverlapsNeedUnwinding == Spec => []OverlapsInARunNeedUnwinding
<1>1. IInv => OverlapsInARunNeedUnwinding
  BY Overlaps
<1>. QED
  BY <1>1, Invariance, PTL

(* If nothing throws on the threads of runs, the events of one run never   *)
(* overlap in the observer: of two threads in it each tells of a run of    *)
(* its own (SinkOverlapsOnlyAcrossRuns).                                   *)
THEOREM SinkOverlaps == ~CallerThrows => (Spec => []SinkOverlapsOnlyAcrossRuns)
<1>. SUFFICES ASSUME ~CallerThrows
              PROVE  Spec => []SinkOverlapsOnlyAcrossRuns
  OBVIOUS
<1>1. IInv => SinkOverlapsOnlyAcrossRuns
  BY Overlaps, ToldRunsGoOn DEF OverlapsInARunNeedUnwinding, SinkOverlapsOnlyAcrossRuns
<1>. QED
  BY <1>1, Invariance, PTL
=============================================================================
