-------------------------- MODULE ThreadPoolProofs --------------------------
(* Proofs about ThreadPool, for any number of workers, clients and tasks.  *)
EXTENDS ThreadPool, SequenceTheorems, FiniteSetTheorems, TLAPS

(* What accepting n tasks does to the queue. *)
LEMMA PushedProperties ==
  ASSUME TypeOK, NEW n \in Nat
  PROVE  /\ Pushed(n) \in Seq(Nat \ {0})
         /\ Len(Pushed(n)) = Len(tasks_) + n
         /\ \A i \in 1 .. Len(tasks_) : Pushed(n)[i] = tasks_[i]
         /\ \A i \in 1 .. n : Pushed(n)[Len(tasks_) + i] = submitted + i
<1> DEFINE new == [i \in 1 .. n |-> submitted + i]
<1>1. tasks_ \in Seq(Nat \ {0}) /\ submitted \in Nat
  BY DEF TypeOK
<1>2. new \in Seq(Nat \ {0}) /\ Len(new) = n
  <2>1. \A i \in 1 .. n : new[i] \in Nat \ {0}
    BY <1>1
  <2>2. new \in [1 .. n -> Nat \ {0}]
    BY <2>1
  <2>. QED
    BY <2>2
<1>3. \A i \in 1 .. n : new[i] = submitted + i
  OBVIOUS
<1>. HIDE DEF new
<1>4. Pushed(n) = tasks_ \o new
  BY DEF Pushed, new
<1>5. /\ Pushed(n) \in Seq(Nat \ {0})
      /\ Len(Pushed(n)) = Len(tasks_) + Len(new)
      /\ \A i \in 1 .. Len(tasks_) + Len(new) :
           Pushed(n)[i] = IF i <= Len(tasks_) THEN tasks_[i]
                                              ELSE new[i - Len(tasks_)]
  <2>1. new \in Seq(Nat \ {0})
    BY <1>2
  <2>2. /\ tasks_ \o new \in Seq(Nat \ {0})
        /\ Len(tasks_ \o new) = Len(tasks_) + Len(new)
        /\ \A i \in 1 .. Len(tasks_) + Len(new) :
             (tasks_ \o new)[i] = IF i <= Len(tasks_) THEN tasks_[i]
                                                      ELSE new[i - Len(tasks_)]
    BY ONLY <1>1, <2>1, ConcatProperties, Zenon
  <2>. QED
    BY <1>4, <2>2, Zenon
<1>6. Len(tasks_) \in Nat
  BY <1>1, LenProperties
<1>7. ASSUME NEW i \in 1 .. n PROVE Pushed(n)[Len(tasks_) + i] = submitted + i
  <2>1. /\ Len(tasks_) + i \in 1 .. Len(tasks_) + n
        /\ ~(Len(tasks_) + i <= Len(tasks_))
        /\ (Len(tasks_) + i) - Len(tasks_) = i
    BY <1>6
  <2>. QED
    BY <2>1, <1>2, <1>3, <1>5
<1>8. ASSUME NEW i \in 1 .. Len(tasks_) PROVE Pushed(n)[i] = tasks_[i]
  <2>1. i \in 1 .. Len(tasks_) + n /\ i <= Len(tasks_)
    BY <1>6
  <2>. QED
    BY <2>1, <1>2, <1>5
<1>. QED
  BY <1>2, <1>5, <1>7, <1>8

(* What a worker's pop does to a non-empty queue. *)
LEMMA PoppedProperties ==
  ASSUME TypeOK, tasks_ # <<>>
  PROVE  /\ Len(tasks_) \in Nat \ {0}
         /\ Head(tasks_) = tasks_[1]
         /\ Head(tasks_) \in Nat \ {0}
         /\ Tail(tasks_) \in Seq(Nat \ {0})
         /\ Len(Tail(tasks_)) = Len(tasks_) - 1
         /\ \A i \in 1 .. Len(tasks_) - 1 : Tail(tasks_)[i] = tasks_[i + 1]
<1>1. tasks_ \in Seq(Nat \ {0})
  BY DEF TypeOK
<1>. QED
  BY <1>1, HeadTailProperties, ElementOfSeq, EmptySeq

(* The worker count is positive, whatever the constructor was given. *)
LEMMA WorkersFacts ==
  /\ WorkerCount \in Nat \ {0}
  /\ Workers \subseteq Threads
  /\ Workers \subseteq Nat
  /\ IsFiniteSet(Workers)
  /\ Cardinality(Workers) = WorkerCount
<1>1. WorkerCount \in Nat \ {0}
  BY PoolAssumption DEF WorkerCount
<1>2. IsFiniteSet(1 .. WorkerCount) /\ Cardinality(1 .. WorkerCount) = WorkerCount
  BY <1>1, FS_Interval
<1>. QED
  BY <1>1, <1>2 DEF Workers, Threads

(* A new pool is well typed.                                               *)
LEMMA TypingInit == Init => TypeOK
<1>1. <<>> \in Seq(Nat \ {0})
  BY EmptySeq
<1>2. /\ [w \in Workers |-> "waiting"] \in [Workers -> WorkerState]
      /\ [w \in Workers |-> 0] \in [Workers -> Nat]
  BY DEF WorkerState
<1>3. /\ [t \in Threads |-> "none"] \in [Threads -> CallState]
      /\ [t \in Threads |-> "none"] \in [Threads -> Answer]
      /\ [t \in Threads |-> 0] \in [Threads -> Nat]
  BY DEF CallState, Answer
<1>. SUFFICES ASSUME Init PROVE TypeOK
  OBVIOUS
<1>4. tasks_ \in Seq(Nat \ {0})
  BY <1>1 DEF Init
<1>5. /\ worker \in [Workers -> WorkerState] /\ task \in [Workers -> Nat]
      /\ call \in [Threads -> CallState] /\ answer \in [Threads -> Answer]
      /\ before \in [Threads -> Nat]
  BY <1>2, <1>3 DEF Init
<1>6. /\ active_tasks_ \in Nat /\ stop_ \in BOOLEAN
      /\ cv_ \subseteq Workers /\ idle_cv_ \subseteq Threads
      /\ submitted \in Nat /\ done \subseteq Nat /\ unsignalled \in Nat
  BY DEF Init
<1>. QED
  BY <1>4, <1>5, <1>6 DEF TypeOK

(* Every operation keeps every field in its type. *)
LEMMA TypingStep ==
  ASSUME TypeOK, [Next]_vars
  PROVE  TypeOK'
<1> USE DEF TypeOK, WorkerState, CallState, Answer, WaitCall, fields, history
<1>1. ASSUME NEW t \in Threads, Enqueue(t) PROVE TypeOK'
  <2>1. Pushed(1) \in Seq(Nat \ {0})
    BY PushedProperties
  <2>2. submitted + 1 \in Nat
    OBVIOUS
  <2>3. CASE stop_
    BY <1>1, <2>3 DEF Enqueue
  <2>4. CASE ~stop_
    BY <1>1, <2>1, <2>2, <2>4 DEF Enqueue
  <2>. QED
    BY <2>3, <2>4
<1>2. ASSUME NEW t \in Threads, EnqueueRange(t) PROVE TypeOK'
  <2>1. CASE stop_
    BY <1>2, <2>1 DEF EnqueueRange
  <2>2. CASE ~stop_
    <3>1. PICK n \in 0 .. MaxBatch :
            /\ tasks_' = Pushed(n)
            /\ submitted' = submitted + n
            /\ \/ /\ call' = [call EXCEPT ![t] = "notify_all"]
                  /\ answer' = [answer EXCEPT ![t] = "none"]
                  /\ UNCHANGED unsignalled
               \/ /\ unsignalled' = unsignalled + n
                  /\ answer' = [answer EXCEPT ![t] = "threw"]
                  /\ UNCHANGED call
      BY <1>2, <2>2 DEF EnqueueRange
    <3>2. n \in Nat /\ submitted + n \in Nat /\ unsignalled + n \in Nat
      BY PoolAssumption
    <3>3. Pushed(n) \in Seq(Nat \ {0})
      BY <3>2, PushedProperties
    <3>4. UNCHANGED <<active_tasks_, stop_, cv_, idle_cv_, worker, task,
                      done, before>>
      BY <1>2 DEF EnqueueRange
    <3>. QED
      BY <3>1, <3>2, <3>3, <3>4
  <2>. QED
    BY <2>1, <2>2
<1>3. ASSUME NEW t \in Threads, NEW op \in WaitCall, WaitIdle(t, op)
      PROVE  TypeOK'
  BY <1>3 DEF WaitIdle
<1>4. ASSUME NEW t \in Threads, ReturnStep(t) PROVE TypeOK'
  BY <1>4 DEF ReturnStep, NotifyOne, NotifyAll, WaitIdleBlock,
              WaitIdleReturn, WaitIdleTimeout
<1>5. ASSUME NEW c \in Clients, Destroy(c) \/ DestroyStep(c) PROVE TypeOK'
  BY <1>5 DEF Destroy, DestroyStep, DestroyNotify, DestroyJoin, Threads
<1>6. ASSUME NEW w \in Workers, WorkerTake(w) PROVE TypeOK'
  BY <1>6, PoppedProperties DEF WorkerTake
<1>7. ASSUME NEW w \in Workers, BodyReturns(w) PROVE TypeOK'
  BY <1>7 DEF BodyReturns
<1>8. ASSUME NEW w \in Workers, WorkerBlock(w) \/ WorkerExit(w)
      PROVE  TypeOK'
  BY <1>8 DEF WorkerBlock, WorkerExit
<1>12. ASSUME NEW w \in Workers, NotifyIdle(w) \/ ReleaseTask(w)
       PROVE  TypeOK'
  <2>1. CASE NotifyIdle(w)
    BY <2>1 DEF NotifyIdle
  <2>2. CASE ReleaseTask(w)
    BY <2>2 DEF ReleaseTask
  <2>. QED
    BY <1>12, <2>1, <2>2
<1>11. ASSUME NEW w \in Workers, FinishTask(w) PROVE TypeOK'
  BY <1>11 DEF FinishTask
<1>9. CASE SpuriousWake
  BY <1>9 DEF SpuriousWake
<1>10. CASE UNCHANGED vars
  BY <1>10 DEF vars
<1>. QED
  BY <1>1, <1>2, <1>3, <1>4, <1>5, <1>6, <1>7, <1>8, <1>9, <1>10,
     <1>11, <1>12 DEF Next, CallStep, WorkerStep, Terminated

-----------------------------------------------------------------------------
(* The bookkeeping of threads: who sleeps where, who is in which call, and *)
(* what a worker may leave behind.                                         *)

Books == Bookkeeping /\ ExitsEmpty /\ DestroyAlone

(* All is in order in a new pool.                                          *)
LEMMA BooksInit == Init => Books
<1>. SUFFICES ASSUME Init PROVE Books
  OBVIOUS
<1>1. /\ \A w \in Workers : worker[w] = "waiting" /\ task[w] = 0
      /\ \A t \in Threads : call[t] = "none"
      /\ cv_ = {} /\ idle_cv_ = {} /\ stop_ = FALSE
  BY DEF Init
<1>2. Bookkeeping
  BY <1>1, WorkersFacts DEF Bookkeeping
<1>3. ExitsEmpty
  BY <1>1 DEF ExitsEmpty
<1>4. DestroyAlone
  BY <1>1 DEF DestroyAlone, Destroying, Threads
<1>. QED
  BY <1>2, <1>3, <1>4 DEF Books

(* An enqueue or enqueue_range changes, of all this, the queue and the     *)
(* caller's call, and only while stop_ is not set.                         *)
LEMMA EnqueueEffect ==
  ASSUME TypeOK, NEW t \in Threads, Enqueue(t) \/ EnqueueRange(t)
  PROVE  /\ CanCall(t)
         /\ UNCHANGED <<active_tasks_, stop_, cv_, idle_cv_, worker, task,
                        done, before>>
         /\ \A u \in Threads : answer'[u] # "idle" \/ answer'[u] = answer[u]
         /\ \/ UNCHANGED <<tasks_, submitted, call>>
            \/ /\ ~stop_
               /\ \E n \in Nat : tasks_' = Pushed(n) /\ submitted' = submitted + n
               /\ \/ UNCHANGED call
                  \/ call' = [call EXCEPT ![t] = "notify_one"]
                  \/ call' = [call EXCEPT ![t] = "notify_all"]
<1>1. /\ CanCall(t)
      /\ UNCHANGED <<active_tasks_, stop_, cv_, idle_cv_, worker, task,
                     done, before>>
  BY DEF Enqueue, EnqueueRange
<1>2. \/ answer' = [answer EXCEPT ![t] = "threw"]
      \/ answer' = [answer EXCEPT ![t] = "none"]
  BY DEF Enqueue, EnqueueRange
<1>3. \A u \in Threads : answer'[u] # "idle" \/ answer'[u] = answer[u]
  BY <1>2 DEF TypeOK
<1>4. CASE Enqueue(t) /\ ~stop_
  BY <1>1, <1>3, <1>4 DEF Enqueue
<1>5. CASE EnqueueRange(t) /\ ~stop_
  <2>1. PICK n \in 0 .. MaxBatch :
          /\ tasks_' = Pushed(n)
          /\ submitted' = submitted + n
          /\ call' = [call EXCEPT ![t] = "notify_all"] \/ UNCHANGED call
    BY <1>5 DEF EnqueueRange
  <2>2. n \in Nat
    BY PoolAssumption
  <2>. QED
    BY <1>1, <1>3, <1>5, <2>1, <2>2
<1>6. CASE stop_
  BY <1>1, <1>3, <1>6 DEF Enqueue, EnqueueRange
<1>. QED
  BY <1>4, <1>5, <1>6

(* What the operations of a thread outside the destructor do to the call   *)
(* of each thread: only the acting thread's changes, and a new operation   *)
(* of a client is begun only while stop_ is not set.                       *)
LEMMA CallChanges ==
  ASSUME TypeOK, NEW t \in Threads, CallStep(t) \/ ReturnStep(t)
  PROVE  /\ UNCHANGED <<stop_, worker, task>>
         /\ cv_' \subseteq cv_
         /\ \A u \in Threads \ {t} : call'[u] = call[u]
         /\ \/ call'[t] = call[t]
            \/ call'[t] = "none"
            \/ /\ call[t] = "none"
               /\ t \in Workers => worker[t] = "running"
               /\ ~stop_
               /\ call'[t] \in {"notify_one", "notify_all"}
            \/ /\ call[t] = "none"
               /\ t \notin Workers
               /\ ~stop_
               /\ call'[t] \in WaitCall
<1>1. CASE Enqueue(t) \/ EnqueueRange(t)
  <2>1. /\ CanCall(t)
        /\ UNCHANGED <<stop_, worker, task, cv_>>
        /\ \/ UNCHANGED call
           \/ ~stop_ /\ call' = [call EXCEPT ![t] = "notify_one"]
           \/ ~stop_ /\ call' = [call EXCEPT ![t] = "notify_all"]
    BY <1>1, EnqueueEffect
  <2>. QED
    BY <2>1 DEF CanCall, TypeOK
<1>2. ASSUME NEW op \in WaitCall, WaitIdle(t, op)
      PROVE  /\ UNCHANGED <<stop_, worker, task, cv_>>
             /\ \A u \in Threads \ {t} : call'[u] = call[u]
             /\ \/ call'[t] = call[t]
                \/ /\ call[t] = "none"
                   /\ t \notin Workers
                   /\ ~stop_
                   /\ call'[t] \in WaitCall
  BY <1>2 DEF WaitIdle, CanCall, OnWorker, TypeOK, fields
<1>3. CASE ReturnStep(t)
  <2>1. /\ UNCHANGED <<stop_, worker, task>>
        /\ cv_' \subseteq cv_
        /\ call' = call \/ call' = [call EXCEPT ![t] = "none"]
    BY <1>3 DEF ReturnStep, NotifyOne, NotifyAll, WaitIdleBlock,
                WaitIdleReturn, WaitIdleTimeout, fields
  <2>. QED
    BY <2>1 DEF TypeOK
<1>. QED
  BY <1>1, <1>2, <1>3 DEF CallStep

(* Who sleeps in idle_cv_ is in a wait, whatever thread t does. *)
LEMMA IdleSleepers ==
  ASSUME TypeOK, NEW t \in Threads, CallStep(t) \/ ReturnStep(t), Bookkeeping
  PROVE  \A u \in idle_cv_' : call'[u] \in WaitCall
<1>0. \A u \in idle_cv_ : u \in Threads /\ call[u] \in WaitCall
  BY DEF Bookkeeping, TypeOK
<1>1. CASE WaitIdleReturn(t) \/ WaitIdleTimeout(t)
  <2>1. /\ idle_cv_' \subseteq idle_cv_ /\ t \notin idle_cv_'
        /\ \A u \in Threads \ {t} : call'[u] = call[u]
    BY <1>1 DEF WaitIdleReturn, WaitIdleTimeout, TypeOK
  <2>. QED
    BY <1>0, <2>1
<1>2. CASE WaitIdleBlock(t)
  BY <1>0, <1>2 DEF WaitIdleBlock
<1>3. ASSUME call[t] \notin WaitCall, idle_cv_' = idle_cv_
      PROVE  \A u \in idle_cv_' : call'[u] \in WaitCall
  BY <1>0, <1>3, CallChanges
<1>4. CASE NotifyOne(t) \/ NotifyAll(t)
  BY <1>3, <1>4 DEF NotifyOne, NotifyAll, WaitCall
<1>5. CASE Enqueue(t) \/ EnqueueRange(t)
  BY <1>3, <1>5, EnqueueEffect DEF CanCall, WaitCall
<1>6. CASE \E op \in WaitCall : WaitIdle(t, op)
  BY <1>3, <1>6 DEF WaitIdle, CanCall, WaitCall
<1>. QED
  BY <1>1, <1>2, <1>4, <1>5, <1>6 DEF CallStep, ReturnStep

(* A thread in a call is asleep only where that call sleeps.               *)
LEMMA BookkeepingStep ==
  ASSUME TypeOK, Bookkeeping, [Next]_vars
  PROVE  Bookkeeping'
<1>. USE DEF Bookkeeping
<1>1. ASSUME NEW t \in Threads, CallStep(t) \/ ReturnStep(t)
      PROVE  Bookkeeping'
  <2>1. \A u \in idle_cv_' : call'[u] \in WaitCall
    BY <1>1, IdleSleepers
  <2>2. \A w \in Workers :
          /\ call'[w] # "none" => worker'[w] = "running"
          /\ call'[w] \in {"none", "notify_one", "notify_all"}
    BY <1>1, CallChanges, WorkersFacts
  <2>. QED
    BY <1>1, <2>1, <2>2, CallChanges
<1>2. ASSUME NEW c \in Clients, Destroy(c) \/ DestroyStep(c)
      PROVE  Bookkeeping'
  <2>1. /\ UNCHANGED <<worker, task, idle_cv_>> /\ cv_' \subseteq cv_
        /\ \A u \in Threads \ {c} : call'[u] = call[u]
        /\ call[c] \notin WaitCall
    BY <1>2 DEF Destroy, DestroyStep, DestroyNotify, DestroyJoin, WaitCall,
                TypeOK, Threads
  <2>2. c \in Threads /\ c \notin Workers
    BY PoolAssumption DEF Threads
  <2>. QED
    BY <2>1, <2>2, WorkersFacts DEF TypeOK
<1>3. ASSUME NEW w \in Workers, WorkerTake(w) PROVE Bookkeeping'
  <2>1. Head(tasks_) \in Nat \ {0}
    BY <1>3, PoppedProperties DEF WorkerTake
  <2>. QED
    BY <1>3, <2>1 DEF WorkerTake, TypeOK
<1>4. ASSUME NEW w \in Workers, WorkerBlock(w) PROVE Bookkeeping'
  BY <1>4 DEF WorkerBlock, TypeOK, fields
<1>5. ASSUME NEW w \in Workers, WorkerExit(w) PROVE Bookkeeping'
  BY <1>5 DEF WorkerExit, TypeOK
<1>6. ASSUME NEW w \in Workers, BodyReturns(w) PROVE Bookkeeping'
  BY <1>6 DEF BodyReturns, TypeOK
<1>7. ASSUME NEW w \in Workers, FinishTask(w) PROVE Bookkeeping'
  BY <1>7 DEF FinishTask, TypeOK
<1>8. ASSUME NEW w \in Workers, NotifyIdle(w) PROVE Bookkeeping'
  BY <1>8 DEF NotifyIdle, TypeOK
<1>9. ASSUME NEW w \in Workers, ReleaseTask(w) PROVE Bookkeeping'
  BY <1>9 DEF ReleaseTask, TypeOK
<1>10. CASE SpuriousWake
  BY <1>10 DEF SpuriousWake
<1>11. CASE UNCHANGED vars
  BY <1>11 DEF vars
<1>. QED
  BY <1>1, <1>2, <1>3, <1>4, <1>5, <1>6, <1>7, <1>8, <1>9, <1>10, <1>11
     DEF Next, WorkerStep, Terminated

(* A worker exits with an empty queue, which nothing refills after stop_.  *)
LEMMA ExitsEmptyStep ==
  ASSUME TypeOK, ExitsEmpty, [Next]_vars
  PROVE  ExitsEmpty'
<1>. USE DEF ExitsEmpty
<1>1. ASSUME NEW t \in Threads, Enqueue(t) \/ EnqueueRange(t)
      PROVE  ExitsEmpty'
  BY <1>1, EnqueueEffect
<1>2. ASSUME NEW t \in Threads, NEW op \in WaitCall, WaitIdle(t, op)
      PROVE  ExitsEmpty'
  BY <1>2 DEF WaitIdle, fields
<1>3. ASSUME NEW t \in Threads, ReturnStep(t) PROVE ExitsEmpty'
  BY <1>3 DEF ReturnStep, NotifyOne, NotifyAll, WaitIdleBlock,
              WaitIdleReturn, WaitIdleTimeout, fields
<1>4. ASSUME NEW c \in Clients, Destroy(c) \/ DestroyStep(c)
      PROVE  ExitsEmpty'
  BY <1>4 DEF Destroy, DestroyStep, DestroyNotify, DestroyJoin, fields
<1>5. ASSUME NEW w \in Workers, WorkerStep(w) PROVE ExitsEmpty'
  <2>1. \A v \in Workers \ {w} : worker'[v] = worker[v]
    BY <1>5 DEF WorkerStep, WorkerBlock, WorkerExit, WorkerTake, BodyReturns,
                FinishTask, NotifyIdle, ReleaseTask, TypeOK
  <2>2. CASE WorkerExit(w)
    BY <2>1, <2>2 DEF WorkerExit, fields
  <2>3. CASE WorkerTake(w)
    BY <2>3 DEF WorkerTake, TypeOK
  <2>4. CASE WorkerBlock(w) \/ BodyReturns(w) \/ NotifyIdle(w)
             \/ ReleaseTask(w) \/ FinishTask(w)
    BY <2>1, <2>4 DEF WorkerBlock, BodyReturns, NotifyIdle, ReleaseTask,
                      FinishTask, TypeOK, fields
  <2>. QED
    BY <1>5, <2>2, <2>3, <2>4 DEF WorkerStep
<1>6. CASE SpuriousWake
  BY <1>6 DEF SpuriousWake, fields
<1>7. CASE UNCHANGED vars
  BY <1>7 DEF vars, fields
<1>. QED
  BY <1>1, <1>2, <1>3, <1>4, <1>5, <1>6, <1>7 DEF Next, CallStep, Terminated

(* The destruction is not disturbed by a step that leaves stop_ alone, and *)
(* begins nothing on behalf of a client unless stop_ is not set.           *)
LEMMA DestroyUndisturbed ==
  ASSUME DestroyAlone, UNCHANGED stop_,
         \A c \in Clients : \/ call'[c] = call[c]
                            \/ call'[c] = "none"
                            \/ ~stop_ /\ call'[c] \notin Destroying,
         \A w \in Workers : worker[w] = "exited" => worker'[w] = "exited"
  PROVE  DestroyAlone'
<1>1. \A c \in Clients : call'[c] \in Destroying => call'[c] = call[c]
  BY DEF Destroying
<1>2. \A c \in Clients : call'[c] \in Destroying => stop_'
  BY <1>1 DEF DestroyAlone
<1>3. \A c \in Clients : stop_' => call'[c] \in Destroying \cup {"none"}
  BY DEF DestroyAlone
<1>4. \A c, d \in Clients :
        call'[c] \in Destroying /\ call'[d] \in Destroying => c = d
  BY <1>1 DEF DestroyAlone
<1>5. \A c \in Clients :
        call'[c] = "destroyed" => \A w \in Workers : worker'[w] = "exited"
  BY <1>1 DEF DestroyAlone, Destroying
<1>. QED
  BY <1>2, <1>3, <1>4, <1>5 DEF DestroyAlone, Destroying

(* One client destroys the pool, and no other is in a call by then.        *)
LEMMA DestroyAloneStep ==
  ASSUME TypeOK, DestroyAlone, [Next]_vars
  PROVE  DestroyAlone'
<1>0. Clients \subseteq Threads
  BY DEF Threads
<1>1. ASSUME NEW t \in Threads, CallStep(t) \/ ReturnStep(t)
      PROVE  DestroyAlone'
  <2>1. \A c \in Clients : \/ call'[c] = call[c]
                           \/ call'[c] = "none"
                           \/ ~stop_ /\ call'[c] \notin Destroying
    BY <1>0, <1>1, CallChanges DEF Destroying, WaitCall
  <2>. QED
    BY <1>1, <2>1, CallChanges, DestroyUndisturbed
<1>2. ASSUME NEW c \in Clients, Destroy(c) PROVE DestroyAlone'
  <2>1. /\ call'[c] = "dtor_notify" /\ stop_'
        /\ \A d \in Clients \ {c} : call'[d] = "none"
    BY <1>0, <1>2 DEF Destroy, TypeOK
  <2>. QED
    BY <2>1 DEF DestroyAlone, Destroying
<1>3. ASSUME NEW c \in Clients, DestroyStep(c) PROVE DestroyAlone'
  <2>1. /\ call[c] \in Destroying /\ call'[c] \in Destroying
        /\ call'[c] = "destroyed" => \A w \in Workers : worker[w] = "exited"
        /\ \A d \in Clients \ {c} : call'[d] = call[d]
        /\ UNCHANGED <<stop_, worker>>
    BY <1>0, <1>3 DEF DestroyStep, DestroyNotify, DestroyJoin, Destroying,
                      TypeOK, fields
  <2>2. stop_ /\ \A d \in Clients \ {c} : call'[d] = "none"
    BY <2>1 DEF DestroyAlone
  <2>. QED
    BY <2>1, <2>2 DEF DestroyAlone, Destroying
<1>4. ASSUME NEW w \in Workers, WorkerStep(w) PROVE DestroyAlone'
  <2>1. /\ UNCHANGED <<stop_, call>>
        /\ \A v \in Workers : worker[v] = "exited" => worker'[v] = "exited"
    BY <1>4 DEF WorkerStep, WorkerBlock, WorkerExit, WorkerTake, BodyReturns,
                FinishTask, NotifyIdle, ReleaseTask, TypeOK, fields
  <2>. QED
    BY <2>1, DestroyUndisturbed
<1>5. CASE SpuriousWake \/ UNCHANGED vars
  <2>1. UNCHANGED <<stop_, call, worker>>
    BY <1>5 DEF SpuriousWake, vars, fields
  <2>. QED
    BY <2>1, DestroyUndisturbed
<1>. QED
  BY <1>1, <1>2, <1>3, <1>4, <1>5 DEF Next, Terminated

(* A step keeps the three together.                                        *)
LEMMA BooksStep ==
  ASSUME TypeOK, Books, [Next]_vars
  PROVE  Books'
BY BookkeepingStep, ExitsEmptyStep, DestroyAloneStep DEF Books

-----------------------------------------------------------------------------
(* The count of active tasks.                                              *)

(* No step but a worker's own moves it in or out of its loop's phases, and *)
(* nothing but WorkerTake and FinishTask changes active_tasks_.            *)
LEMMA OtherSteps ==
  ASSUME TypeOK, [Next]_vars,
         ~ \E w \in Workers : WorkerStep(w)
  PROVE  UNCHANGED <<active_tasks_, worker, task, done>>
<1>1. ASSUME NEW t \in Threads, CallStep(t) \/ ReturnStep(t)
      PROVE  UNCHANGED <<active_tasks_, worker, task, done>>
  <2>1. CASE Enqueue(t) \/ EnqueueRange(t)
    BY <2>1, EnqueueEffect
  <2>2. CASE \E op \in WaitCall : WaitIdle(t, op)
    BY <2>2 DEF WaitIdle, fields
  <2>3. CASE ReturnStep(t)
    BY <2>3 DEF ReturnStep, NotifyOne, NotifyAll, WaitIdleBlock,
                WaitIdleReturn, WaitIdleTimeout, fields, history
  <2>. QED
    BY <1>1, <2>1, <2>2, <2>3 DEF CallStep
<1>2. ASSUME NEW c \in Clients, Destroy(c) \/ DestroyStep(c)
      PROVE  UNCHANGED <<active_tasks_, worker, task, done>>
  BY <1>2 DEF Destroy, DestroyStep, DestroyNotify, DestroyJoin, fields, history
<1>3. CASE SpuriousWake
  BY <1>3 DEF SpuriousWake, fields, history
<1>4. CASE UNCHANGED vars
  BY <1>4 DEF vars, fields, history
<1>. QED
  BY <1>1, <1>2, <1>3, <1>4 DEF Next, Terminated

(* No worker of a new pool is active.                                      *)
LEMMA ActiveInit == Init => ActiveCount
<1>. SUFFICES ASSUME Init PROVE ActiveCount
  OBVIOUS
<1>1. Active = {}
  BY DEF Init, Active
<1>. QED
  BY <1>1, FS_EmptySet DEF ActiveCount, Init

(* A worker joins Active with the increment and leaves it with the         *)
(* decrement, whose guard against 0 is therefore never needed.             *)
LEMMA ActiveStep ==
  ASSUME TypeOK, ActiveCount, [Next]_vars
  PROVE  ActiveCount'
<1>1. IsFiniteSet(Active)
  BY WorkersFacts, FS_Subset DEF Active
<1>2. ASSUME NEW w \in Workers, WorkerTake(w) PROVE ActiveCount'
  <2>1. w \notin Active /\ Active' = Active \cup {w}
    BY <1>2 DEF WorkerTake, Active, TypeOK
  <2>2. Cardinality(Active \cup {w}) = Cardinality(Active) + 1
    BY <1>1, <2>1, FS_AddElement
  <2>. QED
    BY <1>2, <2>1, <2>2 DEF WorkerTake, ActiveCount
<1>3. ASSUME NEW w \in Workers, FinishTask(w) PROVE ActiveCount'
  <2>1. w \in Active /\ Active' = Active \ {w}
    BY <1>3 DEF FinishTask, Active, TypeOK
  <2>2. Cardinality(Active \ {w}) = Cardinality(Active) - 1
    BY <1>1, <2>1, FS_RemoveElement
  <2>3. Cardinality(Active) # 0
    BY <1>1, <2>1, FS_EmptySet
  <2>. QED
    BY <1>3, <2>1, <2>2, <2>3 DEF FinishTask, ActiveCount, TypeOK
<1>4. ASSUME NEW w \in Workers,
             \/ WorkerBlock(w) \/ WorkerExit(w) \/ BodyReturns(w)
             \/ NotifyIdle(w) \/ ReleaseTask(w)
      PROVE  ActiveCount'
  <2>1. Active' = Active /\ active_tasks_' = active_tasks_
    BY <1>4 DEF WorkerBlock, WorkerExit, BodyReturns, NotifyIdle, ReleaseTask,
                Active, TypeOK, fields
  <2>. QED
    BY <2>1 DEF ActiveCount
<1>5. CASE ~ \E w \in Workers : WorkerStep(w)
  BY <1>5, OtherSteps DEF ActiveCount, Active
<1>. QED
  BY <1>2, <1>3, <1>4, <1>5 DEF WorkerStep

-----------------------------------------------------------------------------
(* The order of the queue.                                                 *)

(* The queue and the number of accepted tasks change only when an enqueue  *)
(* is accepted or a worker takes a task.                                   *)
LEMMA QueueChanges ==
  ASSUME TypeOK, [Next]_vars
  PROVE  \/ UNCHANGED <<tasks_, submitted>>
         \/ \E n \in Nat : tasks_' = Pushed(n) /\ submitted' = submitted + n
         \/ \E w \in Workers : WorkerTake(w)
<1>1. ASSUME NEW t \in Threads, CallStep(t) \/ ReturnStep(t)
      PROVE  \/ UNCHANGED <<tasks_, submitted>>
             \/ \E n \in Nat : tasks_' = Pushed(n) /\ submitted' = submitted + n
  <2>1. CASE Enqueue(t) \/ EnqueueRange(t)
    BY <2>1, EnqueueEffect
  <2>2. CASE \E op \in WaitCall : WaitIdle(t, op)
    BY <2>2 DEF WaitIdle, fields
  <2>3. CASE ReturnStep(t)
    BY <2>3 DEF ReturnStep, NotifyOne, NotifyAll, WaitIdleBlock,
                WaitIdleReturn, WaitIdleTimeout, fields, history
  <2>. QED
    BY <1>1, <2>1, <2>2, <2>3 DEF CallStep
<1>2. ASSUME NEW c \in Clients, Destroy(c) \/ DestroyStep(c)
      PROVE  UNCHANGED <<tasks_, submitted>>
  BY <1>2 DEF Destroy, DestroyStep, DestroyNotify, DestroyJoin, fields, history
<1>3. ASSUME NEW w \in Workers,
             \/ WorkerBlock(w) \/ WorkerExit(w) \/ BodyReturns(w)
             \/ NotifyIdle(w) \/ ReleaseTask(w) \/ FinishTask(w)
      PROVE  UNCHANGED <<tasks_, submitted>>
  BY <1>3 DEF WorkerBlock, WorkerExit, BodyReturns, NotifyIdle, ReleaseTask,
              FinishTask, fields, history
<1>4. CASE SpuriousWake
  BY <1>4 DEF SpuriousWake, fields, history
<1>5. CASE UNCHANGED vars
  BY <1>5 DEF vars, fields, history
<1>. QED
  BY <1>1, <1>2, <1>3, <1>4, <1>5 DEF Next, Terminated, WorkerStep

(* An empty queue is in order.                                             *)
LEMMA OrderInit == Init => StartsInOrder
<1>. SUFFICES ASSUME Init PROVE StartsInOrder
  OBVIOUS
<1>1. tasks_ = <<>> /\ submitted = 0
  BY DEF Init
<1>2. Len(tasks_) = 0
  BY <1>1, EmptySeq
<1>3. tasks_ \in Seq(Nat)
  BY <1>1, EmptySeq
<1>4. tasks_ = [i \in 1 .. Len(tasks_) |-> Started + i]
  BY <1>2, <1>3, LenProperties
<1>. QED
  BY <1>1, <1>2, <1>4 DEF StartsInOrder

(* Emplacing at the back and popping at the front keep the queue a run of  *)
(* consecutive task numbers that ends with the last accepted one.          *)
LEMMA OrderStep ==
  ASSUME TypeOK, TypeOK', StartsInOrder, [Next]_vars
  PROVE  /\ StartsInOrder'
         /\ \/ UNCHANGED <<tasks_, submitted>>
            \/ Started' = Started /\ submitted' >= submitted
            \/ /\ \E w \in Workers : WorkerTake(w)
               /\ Started' = Started + 1
               /\ submitted' = submitted
<1>1. /\ submitted \in Nat /\ submitted' \in Nat
      /\ Len(tasks_) \in Nat /\ Len(tasks_') \in Nat
      /\ tasks_' \in Seq(Nat)
  <2>1. tasks_ \in Seq(Nat \ {0}) /\ tasks_' \in Seq(Nat \ {0})
    BY DEF TypeOK
  <2>2. tasks_' \in Seq(Nat)
    BY <2>1
  <2>. QED
    BY <2>1, <2>2, LenProperties DEF TypeOK
<1>2. /\ Len(tasks_) <= submitted
      /\ \A i \in 1 .. Len(tasks_) : tasks_[i] = Started + i
  BY DEF StartsInOrder
<1>3. SUFFICES
        /\ Len(tasks_') <= submitted'
        /\ \A i \in 1 .. Len(tasks_') : tasks_'[i] = Started' + i
        /\ \/ UNCHANGED <<tasks_, submitted>>
           \/ Started' = Started /\ submitted' >= submitted
           \/ /\ \E w \in Workers : WorkerTake(w)
              /\ Started' = Started + 1
              /\ submitted' = submitted
  <2>1. tasks_' = [i \in 1 .. Len(tasks_') |-> tasks_'[i]]
    BY <1>1, LenProperties
  <2>. QED
    BY <1>1, <2>1 DEF StartsInOrder
<1>4. CASE UNCHANGED <<tasks_, submitted>>
  BY <1>2, <1>4 DEF Started
<1>5. ASSUME NEW n \in Nat, tasks_' = Pushed(n), submitted' = submitted + n
      PROVE  /\ Len(tasks_') <= submitted'
             /\ \A i \in 1 .. Len(tasks_') : tasks_'[i] = Started' + i
             /\ Started' = Started /\ submitted' >= submitted
  <2>1. Len(tasks_') = Len(tasks_) + n
    BY <1>5, PushedProperties
  <2>2. Started' = Started
    BY <1>1, <1>5, <2>1 DEF Started
  <2>3. ASSUME NEW i \in 1 .. Len(tasks_') PROVE tasks_'[i] = Started + i
    <3>1. CASE i <= Len(tasks_)
      <4>1. i \in 1 .. Len(tasks_)
        BY <1>1, <3>1
      <4>2. Pushed(n)[i] = tasks_[i]
        BY <4>1, PushedProperties
      <4>. QED
        BY <1>2, <1>5, <4>1, <4>2
    <3>2. CASE i > Len(tasks_)
      <4>1. i - Len(tasks_) \in 1 .. n
        BY <1>1, <2>1, <3>2
      <4>2. Pushed(n)[Len(tasks_) + (i - Len(tasks_))]
              = submitted + (i - Len(tasks_))
        BY <4>1, PushedProperties
      <4>3. Len(tasks_) + (i - Len(tasks_)) = i
        BY <1>1
      <4>. QED
        BY <1>1, <1>5, <4>2, <4>3 DEF Started
    <3>. QED
      BY <1>1, <3>1, <3>2
  <2>. QED
    BY <1>1, <1>2, <1>5, <2>1, <2>2, <2>3
<1>6. ASSUME NEW w \in Workers, WorkerTake(w)
      PROVE  /\ Len(tasks_') <= submitted'
             /\ \A i \in 1 .. Len(tasks_') : tasks_'[i] = Started' + i
             /\ Started' = Started + 1
             /\ submitted' = submitted
  <2>1. tasks_ # <<>> /\ tasks_' = Tail(tasks_) /\ submitted' = submitted
    BY <1>6 DEF WorkerTake, history
  <2>2. /\ Len(tasks_') = Len(tasks_) - 1
        /\ \A i \in 1 .. Len(tasks_) - 1 : tasks_'[i] = tasks_[i + 1]
    BY <2>1, PoppedProperties
  <2>3. Started' = Started + 1
    BY <1>1, <2>1, <2>2 DEF Started
  <2>4. ASSUME NEW i \in 1 .. Len(tasks_') PROVE tasks_'[i] = Started' + i
    <3>1. i \in 1 .. Len(tasks_) - 1 /\ i + 1 \in 1 .. Len(tasks_)
      BY <1>1, <2>2
    <3>2. tasks_'[i] = Started + (i + 1)
      BY <1>2, <2>2, <3>1
    <3>. QED
      BY <1>1, <2>3, <3>1, <3>2 DEF Started
  <2>. QED
    BY <1>1, <1>2, <2>1, <2>2, <2>3, <2>4
<1>. QED
  BY <1>4, <1>5, <1>6, QueueChanges

-----------------------------------------------------------------------------
(* Each task once.                                                         *)

(* Nothing has run in a new pool.                                          *)
LEMMA OnceInit == Init => EachTaskOnce
<1>. SUFFICES ASSUME Init PROVE EachTaskOnce
  OBVIOUS
<1>1. InBody = {} /\ done = {} /\ submitted = 0
  BY DEF Init, InBody
<1>2. Len(tasks_) = 0
  BY EmptySeq DEF Init
<1>3. Started = 0
  BY <1>1, <1>2 DEF Started
<1>. QED
  BY <1>1, <1>3 DEF EachTaskOnce

(* WorkerTake puts the next task number, which no worker has and which is  *)
(* not done, into one worker's hands; BodyReturns moves it from there to   *)
(* done; no other step touches a task that has started.                    *)
LEMMA OnceStep ==
  ASSUME TypeOK, TypeOK', StartsInOrder, EachTaskOnce, [Next]_vars
  PROVE  EachTaskOnce'
<1>0. Started \in Nat /\ Started' \in Nat
  <2>1. Len(tasks_) \in Nat /\ Len(tasks_') \in Nat
    BY LenProperties DEF TypeOK
  <2>2. Len(tasks_) <= submitted /\ Len(tasks_') <= submitted'
    BY OrderStep DEF StartsInOrder
  <2>. QED
    BY <2>1, <2>2 DEF Started, TypeOK
<1>1. ASSUME NEW w \in Workers, WorkerTake(w) PROVE EachTaskOnce'
  <2>1. /\ tasks_ # <<>> /\ tasks_' = Tail(tasks_) /\ submitted' = submitted
        /\ InBody' = InBody \cup {w} /\ w \notin InBody
        /\ task'[w] = Head(tasks_)
        /\ \A v \in InBody : task'[v] = task[v]
        /\ done' = done
    BY <1>1 DEF WorkerTake, InBody, TypeOK, history
  <2>2. Head(tasks_) = Started + 1
    BY <2>1, PoppedProperties DEF StartsInOrder
  <2>3. Started' = Started + 1
    <3>1. Len(tasks_') = Len(tasks_) - 1 /\ Len(tasks_) \in Nat
      BY <2>1, PoppedProperties
    <3>. QED
      BY <2>1, <3>1 DEF Started, TypeOK
  <2>4. \A v \in InBody' : task'[v] \in 1 .. Started' /\ task'[v] \notin done'
    BY <1>0, <2>1, <2>2, <2>3 DEF EachTaskOnce
  <2>5. \A u, v \in InBody' : task'[u] = task'[v] => u = v
    BY <1>0, <2>1, <2>2 DEF EachTaskOnce
  <2>6. done' \subseteq 1 .. Started'
    BY <1>0, <2>1, <2>3 DEF EachTaskOnce
  <2>7. ASSUME NEW k \in 1 .. Started'
        PROVE  k \in done' \/ \E v \in InBody' : task'[v] = k
    <3>1. CASE k = Started + 1
      BY <2>1, <2>2, <3>1
    <3>2. CASE k \in 1 .. Started
      BY <2>1, <3>2 DEF EachTaskOnce
    <3>. QED
      BY <1>0, <2>3, <3>1, <3>2
  <2>. QED
    BY <2>4, <2>5, <2>6, <2>7 DEF EachTaskOnce
<1>2. ASSUME NEW w \in Workers, BodyReturns(w) PROVE EachTaskOnce'
  <2>1. /\ w \in InBody /\ InBody' = InBody \ {w}
        /\ task' = task /\ done' = done \cup {task[w]}
        /\ UNCHANGED <<tasks_, submitted>>
    BY <1>2 DEF BodyReturns, InBody, TypeOK, fields
  <2>2. Started' = Started
    BY <2>1 DEF Started
  <2>. QED
    BY <2>1, <2>2 DEF EachTaskOnce
<1>3. CASE /\ Started' = Started /\ InBody' = InBody /\ done' = done
           /\ \A v \in InBody : task'[v] = task[v]
  BY <1>3 DEF EachTaskOnce
<1>4. ASSUME NEW w \in Workers,
             \/ WorkerBlock(w) \/ WorkerExit(w) \/ FinishTask(w)
             \/ NotifyIdle(w) \/ ReleaseTask(w)
      PROVE  EachTaskOnce'
  <2>1. /\ InBody' = InBody /\ done' = done
        /\ \A v \in InBody : task'[v] = task[v]
        /\ UNCHANGED <<tasks_, submitted>>
    BY <1>4 DEF WorkerBlock, WorkerExit, FinishTask, NotifyIdle, ReleaseTask,
                InBody, TypeOK, fields, history
  <2>. QED
    BY <1>3, <2>1 DEF Started
<1>5. CASE ~ \E w \in Workers : WorkerStep(w)
  <2>1. UNCHANGED <<worker, task, done>>
    BY <1>5, OtherSteps
  <2>2. Started' = Started
    BY <1>5, OrderStep DEF Started, WorkerStep
  <2>. QED
    BY <1>3, <2>1, <2>2 DEF InBody
<1>. QED
  BY <1>1, <1>2, <1>4, <1>5 DEF WorkerStep

-----------------------------------------------------------------------------
(* What an idle answer tells.                                              *)

BeforeBounded == \A t \in Threads : before[t] <= submitted

(* When the queue is empty and no task is active, every accepted task is   *)
(* done: an idle pool has nothing in a worker's hands.                     *)
LEMMA IdleMeansDone ==
  ASSUME TypeOK, ActiveCount, EachTaskOnce, Idle
  PROVE  1 .. submitted \subseteq done
<1>1. IsFiniteSet(Active)
  BY WorkersFacts, FS_Subset DEF Active
<1>2. Active = {}
  BY <1>1, FS_EmptySet DEF Idle, ActiveCount
<1>3. InBody = {}
  BY <1>2 DEF Active, InBody
<1>4. Len(tasks_) = 0
  BY EmptySeq DEF Idle
<1>5. Started = submitted
  BY <1>4 DEF Started, TypeOK
<1>. QED
  BY <1>3, <1>5 DEF EachTaskOnce

(* An answer becomes "idle" only while the predicate of idle_cv_ holds     *)
(* under the mutex, and "before" is taken when the wait begins.            *)
LEMMA AnswerChanges ==
  ASSUME TypeOK, [Next]_vars, NEW t \in Threads, answer'[t] = "idle"
  PROVE  before'[t] = before[t] /\ (answer[t] = "idle" \/ Idle)
<1>1. ASSUME NEW u \in Threads, Enqueue(u) \/ EnqueueRange(u)
      PROVE  before' = before /\ answer[t] = "idle"
  BY <1>1, EnqueueEffect
<1>2. ASSUME NEW u \in Threads, NEW op \in WaitCall, WaitIdle(u, op)
      PROVE  before'[t] = before[t] /\ answer[t] = "idle"
  <2>1. CASE u = t
    BY <1>2, <2>1 DEF WaitIdle, TypeOK
  <2>2. CASE u # t
    BY <1>2, <2>2 DEF WaitIdle, TypeOK
  <2>. QED
    BY <2>1, <2>2
<1>3. ASSUME NEW u \in Threads, ReturnStep(u)
      PROVE  before' = before /\ (answer[t] = "idle" \/ Idle)
  <2>1. CASE NotifyOne(u) \/ NotifyAll(u) \/ WaitIdleBlock(u)
    BY <2>1 DEF NotifyOne, NotifyAll, WaitIdleBlock, history
  <2>2. CASE WaitIdleReturn(u) \/ WaitIdleTimeout(u)
    BY <2>2 DEF WaitIdleReturn, WaitIdleTimeout, history, TypeOK
  <2>. QED
    BY <1>3, <2>1, <2>2 DEF ReturnStep
<1>4. ASSUME NEW c \in Clients, Destroy(c) \/ DestroyStep(c)
      PROVE  UNCHANGED <<answer, before>>
  BY <1>4 DEF Destroy, DestroyStep, DestroyNotify, DestroyJoin, history
<1>5. ASSUME NEW w \in Workers, WorkerStep(w)
      PROVE  UNCHANGED <<answer, before>>
  BY <1>5 DEF WorkerStep, WorkerBlock, WorkerExit, WorkerTake, BodyReturns,
              FinishTask, NotifyIdle, ReleaseTask, history
<1>6. CASE SpuriousWake
  BY <1>6 DEF SpuriousWake, history
<1>7. CASE UNCHANGED vars
  BY <1>7 DEF vars, history
<1>. QED
  BY <1>1, <1>2, <1>3, <1>4, <1>5, <1>6, <1>7 DEF Next, CallStep, Terminated

(* submitted only grows.                                                   *)
LEMMA BeforeStep ==
  ASSUME TypeOK, TypeOK', StartsInOrder, BeforeBounded, [Next]_vars
  PROVE  BeforeBounded'
<1>1. submitted' >= submitted /\ submitted \in Nat /\ submitted' \in Nat
  BY OrderStep DEF TypeOK
<1>2. ASSUME NEW u \in Threads, NEW op \in WaitCall, WaitIdle(u, op)
      PROVE  BeforeBounded'
  <2>1. /\ submitted' = submitted
        /\ \A v \in Threads : before'[v] \in {before[v], submitted}
    BY <1>2 DEF WaitIdle, TypeOK
  <2>. QED
    BY <1>1, <2>1 DEF TypeOK, BeforeBounded
<1>3. CASE before' = before
  BY <1>1, <1>3 DEF BeforeBounded, TypeOK
<1>4. ASSUME NEW u \in Threads, Enqueue(u) \/ EnqueueRange(u)
      PROVE  before' = before
  BY <1>4, EnqueueEffect
<1>5. ASSUME NEW u \in Threads, ReturnStep(u) PROVE before' = before
  BY <1>5 DEF ReturnStep, NotifyOne, NotifyAll, WaitIdleBlock, WaitIdleReturn,
              WaitIdleTimeout, history
<1>6. ASSUME NEW c \in Clients, Destroy(c) \/ DestroyStep(c)
      PROVE  before' = before
  BY <1>6 DEF Destroy, DestroyStep, DestroyNotify, DestroyJoin, history
<1>7. ASSUME NEW w \in Workers, WorkerStep(w) PROVE before' = before
  BY <1>7 DEF WorkerStep, WorkerBlock, WorkerExit, WorkerTake, BodyReturns,
              FinishTask, NotifyIdle, ReleaseTask, history
<1>8. SpuriousWake => before' = before
  BY DEF SpuriousWake, history
<1>9. UNCHANGED vars => before' = before
  BY DEF vars, history
<1>. QED
  BY <1>2, <1>3, <1>4, <1>5, <1>6, <1>7, <1>8, <1>9
     DEF Next, CallStep, Terminated

(* A done task stays done. *)
LEMMA DoneGrows ==
  ASSUME TypeOK, [Next]_vars
  PROVE  done \subseteq done'
<1>1. ASSUME NEW w \in Workers, WorkerStep(w) PROVE done \subseteq done'
  BY <1>1 DEF WorkerStep, WorkerBlock, WorkerExit, WorkerTake, BodyReturns,
              FinishTask, NotifyIdle, ReleaseTask, history
<1>. QED
  BY <1>1, OtherSteps

(* An answer covers what was submitted before the wait.                    *)
LEMMA AnswerStep ==
  ASSUME TypeOK, ActiveCount, EachTaskOnce, BeforeBounded,
         IdleAnswerCovers, [Next]_vars
  PROVE  IdleAnswerCovers'
<1>. SUFFICES ASSUME NEW t \in Threads, answer'[t] = "idle"
              PROVE  1 .. before'[t] \subseteq done'
  BY DEF IdleAnswerCovers
<1>1. before'[t] = before[t] /\ (answer[t] = "idle" \/ Idle)
  BY AnswerChanges
<1>2. 1 .. before[t] \subseteq done
  <2>1. CASE answer[t] = "idle"
    BY <2>1 DEF IdleAnswerCovers
  <2>2. CASE Idle
    BY <2>2, IdleMeansDone DEF BeforeBounded, TypeOK
  <2>. QED
    BY <1>1, <2>1, <2>2
<1>. QED
  BY <1>1, <1>2, DoneGrows

-----------------------------------------------------------------------------
(* The invariant of the pool and what follows from it.                     *)

(* The invariant is inductive.                                             *)
LEMMA Invariance == Spec => []IInv
<1>1. Init => IInv
  <2>. SUFFICES ASSUME Init PROVE IInv
    OBVIOUS
  <2>1. TypeOK
    BY TypingInit
  <2>2. Books /\ ActiveCount /\ StartsInOrder /\ EachTaskOnce
    BY BooksInit, ActiveInit, OrderInit, OnceInit
  <2>3. /\ \A t \in Threads : answer[t] = "none"
        /\ \A t \in Threads : before[t] <= submitted
    BY DEF Init
  <2>4. IdleAnswerCovers
    BY <2>3 DEF IdleAnswerCovers
  <2>. QED
    BY <2>1, <2>2, <2>3, <2>4 DEF IInv, Books
<1>2. IInv /\ [Next]_vars => IInv'
  <2>. SUFFICES ASSUME IInv, [Next]_vars PROVE IInv'
    OBVIOUS
  <2>1. /\ TypeOK /\ Books /\ ActiveCount /\ StartsInOrder /\ EachTaskOnce
        /\ IdleAnswerCovers /\ BeforeBounded
    BY DEF IInv, Books, BeforeBounded
  <2>2. TypeOK'
    BY <2>1, TypingStep
  <2>3. Books' /\ ActiveCount' /\ StartsInOrder' /\ EachTaskOnce'
    BY <2>1, <2>2, BooksStep, ActiveStep, OrderStep, OnceStep
  <2>4. IdleAnswerCovers' /\ BeforeBounded'
    BY <2>1, <2>2, AnswerStep, BeforeStep
  <2>. QED
    BY <2>2, <2>3, <2>4 DEF IInv, Books, BeforeBounded
<1>. QED
  BY <1>1, <1>2, PTL DEF Spec

(* Type correctness: every field keeps its type (TypeOK), so that no       *)
(* operation of the pool leaves the sets the other theorems speak about.   *)
THEOREM Typing == Spec => []TypeOK
<1>1. IInv => TypeOK
  BY DEF IInv
<1>. QED
  BY <1>1, Invariance, PTL

(* The count of a snapshot covers the tasks not done: those in the queue,  *)
(* and those in workers' hands, which are active.                          *)
LEMMA CountCovers ==
  ASSUME TypeOK, ActiveCount, EachTaskOnce, StartsInOrder
  PROVE  OutstandingCoversUnfinished
<1> DEFINE queued == Started + 1 .. submitted
           held == {task[w] : w \in InBody}
           taskOf == [w \in InBody |-> task[w]]
           unfinished == (1 .. submitted) \ done
<1>1. /\ submitted \in Nat /\ Len(tasks_) \in Nat /\ Len(tasks_) <= submitted
      /\ Started \in Nat /\ Started = submitted - Len(tasks_)
  BY LenProperties DEF TypeOK, StartsInOrder, Started
<1>2. unfinished \subseteq queued \cup held
  <2>. SUFFICES ASSUME NEW k \in 1 .. submitted, k \notin done, k \notin queued
                PROVE  k \in held
    OBVIOUS
  <2>1. k \in 1 .. Started
    BY <1>1
  <2>. QED
    BY <2>1 DEF EachTaskOnce
<1>3. IsFiniteSet(queued) /\ Cardinality(queued) = Len(tasks_)
  <2>1. Started + 1 \in Int /\ submitted \in Int
    BY <1>1
  <2>2. /\ IsFiniteSet(queued)
        /\ Cardinality(queued) = IF Started + 1 > submitted THEN 0
                                 ELSE submitted - (Started + 1) + 1
    BY <2>1, FS_Interval
  <2>. HIDE DEF queued
  <2>. QED
    BY <1>1, <2>2
<1>4. /\ IsFiniteSet(InBody) /\ Cardinality(InBody) \in Nat
      /\ Cardinality(InBody) <= active_tasks_
  <2>1. IsFiniteSet(Active) /\ InBody \subseteq Active
    BY WorkersFacts, FS_Subset DEF Active, InBody
  <2>. QED
    BY <2>1, FS_Subset, FS_CardinalityType DEF ActiveCount
<1>5. /\ IsFiniteSet(held) /\ Cardinality(held) \in Nat
      /\ Cardinality(held) <= Cardinality(InBody)
  <2>1. taskOf \in Surjection(InBody, held)
    BY DEF Surjection
  <2>2. IsFiniteSet(held) /\ Cardinality(held) <= Cardinality(InBody)
    BY <1>4, <2>1, FS_Surjection
  <2>. QED
    BY <2>2, FS_CardinalityType
<1>. HIDE DEF queued, held, taskOf
<1>6. /\ IsFiniteSet(queued \cup held)
      /\ Cardinality(queued \cup held) <= Len(tasks_) + Cardinality(held)
  <2>1. Cardinality(queued \cap held) \in Nat
    BY <1>3, FS_Subset, FS_CardinalityType
  <2>2. /\ IsFiniteSet(queued \cup held)
        /\ Cardinality(queued \cup held)
             = Cardinality(queued) + Cardinality(held) - Cardinality(queued \cap held)
    BY <1>3, <1>5, FS_Union
  <2>. QED
    BY <1>1, <1>3, <1>5, <2>1, <2>2
<1>7. /\ IsFiniteSet(unfinished)
      /\ Cardinality(unfinished) <= Cardinality(queued \cup held)
  BY <1>2, <1>6, FS_Subset
<1>8. /\ Cardinality(unfinished) \in Nat
      /\ Cardinality(queued \cup held) \in Nat
      /\ active_tasks_ \in Nat
  BY <1>6, <1>7, FS_CardinalityType DEF TypeOK
<1>. HIDE DEF unfinished
<1>9. Cardinality(unfinished) <= Len(tasks_) + active_tasks_
  BY <1>1, <1>4, <1>5, <1>6, <1>7, <1>8
<1>. QED
  BY <1>1, <1>8, <1>9 DEF OutstandingCoversUnfinished, Outstanding, unfinished

(* What becomes of accepted tasks, for any number of threads               *)
(* (TasksAccountedFor): they leave the queue in the order in which post,   *)
(* enqueue and enqueue_range accepted them, none is lost or run twice,     *)
(* also by workers that drain the queue of a pool that is being destroyed, *)
(* and snapshot().outstanding_tasks() misses none.                         *)
THEOREM Accounted == Spec => []TasksAccountedFor
<1>1. IInv => TasksAccountedFor
  BY CountCovers DEF IInv, TasksAccountedFor
<1>. QED
  BY <1>1, Invariance, PTL

(* wait_idle, wait_idle_for and wait_idle_until never report an idle pool  *)
(* too early (IdleAnswerCovers): every task accepted before the wait began *)
(* has returned.                                                           *)
THEOREM IdleIsTrue == Spec => []IdleAnswerCovers
<1>1. IInv => IdleAnswerCovers
  BY DEF IInv
<1>. QED
  BY <1>1, Invariance, PTL

(* A destroyed pool is quiet (DestroyedIsQuiet): the destructor joined     *)
(* every worker, and the workers left nothing behind.                      *)
THEOREM Quiet == Spec => []DestroyedIsQuiet
<1>1. IInv => DestroyedIsQuiet
  <2>. SUFFICES ASSUME IInv, NEW c \in Clients, call[c] = "destroyed"
                PROVE  /\ done = 1 .. submitted
                       /\ \A w \in Workers : worker[w] = "exited" /\ task[w] = 0
                       /\ \A t \in Threads : call[t] \in {"none", "destroyed"}
                       /\ idle_cv_ = {}
    BY DEF DestroyedIsQuiet, Destroyed
  <2>. USE DEF IInv
  <2>1. \A w \in Workers : worker[w] = "exited"
    BY DEF DestroyAlone
  <2>2. \A w \in Workers : task[w] = 0 /\ call[w] = "none"
    BY <2>1 DEF Bookkeeping
  <2>3. stop_ /\ tasks_ = <<>>
    BY <2>1, WorkersFacts DEF ExitsEmpty, Workers
  <2>4. \A d \in Clients : call[d] \in {"none", "destroyed"}
    BY <2>3 DEF DestroyAlone, Destroying
  <2>5. \A t \in Threads : call[t] \in {"none", "destroyed"}
    BY <2>2, <2>4 DEF Threads
  <2>6. idle_cv_ = {}
    BY <2>5 DEF Bookkeeping, WaitCall, TypeOK
  <2>7. InBody = {} /\ Started = submitted
    <3>1. Len(tasks_) = 0
      BY <2>3, EmptySeq
    <3>. QED
      BY <2>1, <3>1 DEF InBody, Started, TypeOK
  <2>8. done = 1 .. submitted
    BY <2>7 DEF EachTaskOnce
  <2>. QED
    BY <2>1, <2>2, <2>5, <2>6, <2>8
<1>. QED
  BY <1>1, Invariance, PTL

-----------------------------------------------------------------------------
(* No lost wakeup of an idle waiter.                                       *)

(* Nobody sleeps at first.                                                 *)
LEMMA IdleSleepInit == Init => NoSleepingOnIdle
BY DEF Init, NoSleepingOnIdle

(* Only FinishTask makes the pool idle, and it then owes the notification; *)
(* a waiter falls asleep only while the pool is not idle.                  *)
LEMMA IdleSleepStep ==
  ASSUME TypeOK, TypeOK', NoSleepingOnIdle, [Next]_vars
  PROVE  NoSleepingOnIdle'
<1>. SUFFICES ASSUME Idle', idle_cv_' # {}
              PROVE  \E w \in Workers : worker'[w] = "notifying"
  BY DEF NoSleepingOnIdle
<1>1. CASE Idle /\ idle_cv_ # {} /\ worker' = worker
  BY <1>1 DEF NoSleepingOnIdle
<1>2. ASSUME NEW t \in Threads, Enqueue(t) \/ EnqueueRange(t)
      PROVE  Idle /\ UNCHANGED <<worker, idle_cv_>>
  <2>1. UNCHANGED <<active_tasks_, worker, idle_cv_>>
    BY <1>2, EnqueueEffect
  <2>2. CASE UNCHANGED tasks_
    BY <2>1, <2>2 DEF Idle
  <2>3. ASSUME NEW n \in Nat, tasks_' = Pushed(n) PROVE tasks_ = <<>>
    <3>1. Len(tasks_') = 0
      BY EmptySeq DEF Idle
    <3>2. Len(tasks_) + n = 0 /\ Len(tasks_) \in Nat
      BY <2>3, <3>1, PushedProperties, LenProperties DEF TypeOK
    <3>3. Len(tasks_) = 0
      BY <3>2
    <3>. QED
      BY <3>3, EmptySeq DEF TypeOK
  <2>4. tasks_ = <<>>
    BY <1>2, <2>2, <2>3, EnqueueEffect DEF Idle
  <2>. QED
    BY <2>1, <2>4 DEF Idle
<1>3. ASSUME NEW t \in Threads, NEW op \in WaitCall, WaitIdle(t, op)
      PROVE  Idle /\ UNCHANGED <<worker, idle_cv_>>
  BY <1>3 DEF WaitIdle, Idle, fields
<1>4. ASSUME NEW t \in Threads, ReturnStep(t)
      PROVE  Idle /\ worker' = worker /\ idle_cv_ # {}
  <2>1. ~ WaitIdleBlock(t)
    BY DEF WaitIdleBlock, Idle, fields
  <2>2. UNCHANGED <<tasks_, active_tasks_, worker>> /\ idle_cv_' \subseteq idle_cv_
    BY <1>4, <2>1 DEF ReturnStep, NotifyOne, NotifyAll, WaitIdleReturn,
                      WaitIdleTimeout, fields
  <2>. QED
    BY <2>2 DEF Idle
<1>5. ASSUME NEW c \in Clients, Destroy(c) \/ DestroyStep(c)
      PROVE  Idle /\ UNCHANGED <<worker, idle_cv_>>
  BY <1>5 DEF Destroy, DestroyStep, DestroyNotify, DestroyJoin, Idle, fields
<1>6. ASSUME NEW w \in Workers, FinishTask(w)
      PROVE  worker'[w] = "notifying"
  BY <1>6 DEF FinishTask, Idle, TypeOK
<1>7. ASSUME NEW w \in Workers, WorkerTake(w) PROVE FALSE
  BY <1>7 DEF WorkerTake, Idle, TypeOK
<1>8. ASSUME NEW w \in Workers,
             WorkerBlock(w) \/ WorkerExit(w) \/ BodyReturns(w) \/ ReleaseTask(w)
      PROVE  \E v \in Workers : worker'[v] = "notifying"
  <2>1. Idle /\ idle_cv_ # {} /\ worker[w] # "notifying"
    BY <1>8 DEF WorkerBlock, WorkerExit, BodyReturns, ReleaseTask, Idle, fields
  <2>2. \A v \in Workers \ {w} : worker'[v] = worker[v]
    BY <1>8 DEF WorkerBlock, WorkerExit, BodyReturns, ReleaseTask, TypeOK
  <2>. QED
    BY <2>1, <2>2 DEF NoSleepingOnIdle
<1>9. ASSUME NEW w \in Workers, NotifyIdle(w) PROVE FALSE
  BY <1>9 DEF NotifyIdle
<1>10. CASE SpuriousWake
  BY <1>1, <1>10 DEF SpuriousWake, Idle, fields
<1>11. CASE UNCHANGED vars
  BY <1>1, <1>11 DEF vars, Idle, fields
<1>. QED
  BY <1>1, <1>2, <1>3, <1>4, <1>5, <1>6, <1>7, <1>8, <1>9, <1>10, <1>11
     DEF Next, CallStep, WorkerStep, Terminated

(* A thread asleep in wait_idle while the pool is idle has a notify_all on *)
(* its way (NoSleepingOnIdle), although finish_task notifies after it      *)
(* unlocked.                                                               *)
THEOREM IdleWakeup == Spec => []NoSleepingOnIdle
<1>1. Init => TypeOK /\ NoSleepingOnIdle
  BY TypingInit, IdleSleepInit
<1>2. TypeOK /\ NoSleepingOnIdle /\ [Next]_vars => (TypeOK /\ NoSleepingOnIdle)'
  BY TypingStep, IdleSleepStep
<1>. QED
  BY <1>1, <1>2, PTL DEF Spec


-----------------------------------------------------------------------------
(* No worker sleeps on work.                                               *)

(* The property counts notifications to come, of which there are finitely  *)
(* many although there may be infinitely many clients.                     *)
WorkSignalled == IsFiniteSet(Signalling) /\ NoSleepingOnWork

(* Calls that wake workers.                                                *)
Waking == {"notify_one", "notify_all", "dtor_notify"}

(* There are finitely many workers to look at the queue.                   *)
LEMMA LookingFinite ==
  /\ IsFiniteSet(Looking) /\ Cardinality(Looking) \in Nat
  /\ IsFiniteSet(Looking') /\ Cardinality(Looking') \in Nat
BY WorkersFacts, FS_Subset, FS_CardinalityType DEF Looking

(* No worker sleeps at first.                                             *)
LEMMA SignalledInit == Init => WorkSignalled
<1>. SUFFICES ASSUME Init PROVE WorkSignalled
  OBVIOUS
<1>1. Signalling = {} /\ cv_ = {}
  BY DEF Init, Signalling
<1>. QED
  BY <1>1, FS_EmptySet DEF WorkSignalled, NoSleepingOnWork

(* A step that leaves the queue and the notifications alone, puts no       *)
(* worker to sleep and keeps those who look at the queue looking.          *)
LEMMA SignalledFrame ==
  ASSUME TypeOK, WorkSignalled,
         UNCHANGED <<tasks_, unsignalled>>, cv_' \subseteq cv_,
         \A w \in Looking : w \in Looking',
         \A t \in Threads : \/ call'[t] = call[t]
                            \/ call[t] \notin Waking /\ call'[t] \notin Waking
  PROVE  WorkSignalled'
<1>1. Signalling' = Signalling
  BY DEF Signalling, Waking
<1>2. IsFiniteSet(Signalling') /\ Cardinality(Signalling) \in Nat
  BY <1>1, FS_CardinalityType DEF WorkSignalled
<1>3. Cardinality(Looking) <= Cardinality(Looking')
  BY LookingFinite, FS_Subset
<1>4. CASE cv_ = {}
  BY <1>2, <1>4 DEF WorkSignalled, NoSleepingOnWork
<1>5. CASE \E t \in Threads : call[t] \in {"notify_all", "dtor_notify"}
  BY <1>2, <1>5 DEF WorkSignalled, NoSleepingOnWork, Waking
<1>6. CASE Len(tasks_) <= Cardinality(Looking) + Cardinality(Signalling) + unsignalled
  <2>1. Len(tasks_)' \in Nat /\ unsignalled \in Nat
    BY LenProperties DEF TypeOK
  <2>2. Len(tasks_)' <= Cardinality(Looking') + Cardinality(Signalling') + unsignalled'
    BY <1>1, <1>2, <1>3, <1>6, <2>1, LookingFinite
  <2>. QED
    BY <1>2, <2>2 DEF WorkSignalled, NoSleepingOnWork
<1>. QED
  BY <1>4, <1>5, <1>6 DEF WorkSignalled, NoSleepingOnWork

-----------------------------------------------------------------------------
(* An accepted task comes with its notification.                           *)
LEMMA SignalledEnqueue ==
  ASSUME TypeOK, WorkSignalled, NEW t \in Threads, Enqueue(t)
  PROVE  WorkSignalled'
<1>1. CASE stop_
  BY <1>1, SignalledFrame DEF Enqueue, Looking
<1>2. CASE ~stop_
  <2>1. /\ tasks_' = Pushed(1) /\ call' = [call EXCEPT ![t] = "notify_one"]
        /\ call[t] = "none" /\ UNCHANGED <<cv_, worker, unsignalled>>
    BY <1>2 DEF Enqueue, CanCall
  <2>2. Len(tasks_') = Len(tasks_) + 1 /\ Len(tasks_) \in Nat /\ unsignalled \in Nat
    BY <2>1, PushedProperties, LenProperties DEF TypeOK
  <2>3. t \notin Signalling /\ Signalling' = Signalling \union {t}
    BY <2>1 DEF Signalling, TypeOK
  <2>4. /\ IsFiniteSet(Signalling') /\ Cardinality(Signalling) \in Nat
        /\ Cardinality(Signalling') = Cardinality(Signalling) + 1
    BY <2>3, FS_AddElement, FS_CardinalityType DEF WorkSignalled
  <2>5. Looking' = Looking
    BY <2>1 DEF Looking
  <2>6. CASE cv_ = {} \/ \E u \in Threads : call[u] \in {"notify_all", "dtor_notify"}
    <3>1. cv_' = {} \/ \E u \in Threads : call'[u] \in {"notify_all", "dtor_notify"}
      BY <2>1, <2>6 DEF TypeOK
    <3>. QED
      BY <2>4, <3>1 DEF WorkSignalled, NoSleepingOnWork
  <2>7. CASE Len(tasks_) <= Cardinality(Looking) + Cardinality(Signalling) + unsignalled
    <3>1. Len(tasks_') <= Cardinality(Looking') + Cardinality(Signalling') + unsignalled'
      BY <2>1, <2>2, <2>4, <2>5, <2>7, LookingFinite
    <3>. QED
      BY <2>4, <3>1 DEF WorkSignalled, NoSleepingOnWork
  <2>. QED
    BY <2>6, <2>7 DEF WorkSignalled, NoSleepingOnWork
<1>. QED
  BY <1>1, <1>2

(* A range comes with a notify_all, or is counted as unannounced.          *)
LEMMA SignalledRange ==
  ASSUME TypeOK, WorkSignalled, NEW t \in Threads, EnqueueRange(t)
  PROVE  WorkSignalled'
<1>1. CASE stop_
  BY <1>1, SignalledFrame DEF EnqueueRange, Looking
<1>2. CASE ~stop_
  <2>1. PICK n \in 0 .. MaxBatch :
          /\ tasks_' = Pushed(n)
          /\ \/ call' = [call EXCEPT ![t] = "notify_all"]
             \/ unsignalled' = unsignalled + n /\ UNCHANGED call
    BY <1>2 DEF EnqueueRange
  <2>2. call[t] = "none" /\ UNCHANGED <<cv_, worker>>
    BY <1>2 DEF EnqueueRange, CanCall
  <2>3. CASE call' = [call EXCEPT ![t] = "notify_all"]
    <3>1. Signalling' = Signalling /\ call'[t] = "notify_all"
      BY <2>2, <2>3 DEF Signalling, TypeOK
    <3>. QED
      BY <3>1 DEF WorkSignalled, NoSleepingOnWork
  <2>4. CASE unsignalled' = unsignalled + n /\ UNCHANGED call
    <3>1. n \in Nat
      BY PoolAssumption
    <3>2. Len(tasks_') = Len(tasks_) + n /\ Len(tasks_) \in Nat /\ unsignalled \in Nat
      BY <2>1, <3>1, PushedProperties, LenProperties DEF TypeOK
    <3>3. Signalling' = Signalling /\ Looking' = Looking
      BY <2>2, <2>4 DEF Signalling, Looking
    <3>4. Cardinality(Signalling) \in Nat /\ IsFiniteSet(Signalling')
      BY <3>3, FS_CardinalityType DEF WorkSignalled
    <3>5. CASE Len(tasks_) <= Cardinality(Looking) + Cardinality(Signalling) + unsignalled
      <4>1. Len(tasks_') <= Cardinality(Looking') + Cardinality(Signalling') + unsignalled'
        BY <2>4, <3>1, <3>2, <3>3, <3>4, <3>5, LookingFinite
      <4>. QED
        BY <3>4, <4>1 DEF WorkSignalled, NoSleepingOnWork
    <3>. QED
      BY <2>2, <2>4, <3>4, <3>5 DEF WorkSignalled, NoSleepingOnWork
  <2>. QED
    BY <2>1, <2>3, <2>4
<1>. QED
  BY <1>1, <1>2

(* notify_one gives up its own place in the count for that of the worker   *)
(* it wakes, or finds nobody asleep.                                       *)
LEMMA SignalledNotifyOne ==
  ASSUME TypeOK, Bookkeeping, WorkSignalled, NEW t \in Threads, NotifyOne(t)
  PROVE  WorkSignalled'
<1>1. t \in Signalling /\ Signalling' = Signalling \ {t}
  BY DEF NotifyOne, Signalling, TypeOK
<1>2. /\ IsFiniteSet(Signalling') /\ Cardinality(Signalling) \in Nat
      /\ Cardinality(Signalling') = Cardinality(Signalling) - 1
  BY <1>1, FS_RemoveElement, FS_CardinalityType DEF WorkSignalled
<1>3. CASE cv_ = {}
  BY <1>2, <1>3 DEF NotifyOne, WorkSignalled, NoSleepingOnWork
<1>4. CASE cv_ # {}
  <2>1. PICK w \in cv_ : cv_' = cv_ \ {w}
    BY <1>4 DEF NotifyOne
  <2>2. UNCHANGED <<worker, tasks_, unsignalled>>
    BY DEF NotifyOne, fields, history
  <2>3. w \notin Looking /\ Looking' = Looking \union {w}
    BY <2>1, <2>2 DEF Looking, Bookkeeping, TypeOK
  <2>4. Cardinality(Looking') = Cardinality(Looking) + 1
    BY <2>3, LookingFinite, FS_AddElement
  <2>5. CASE \E u \in Threads : call[u] \in {"notify_all", "dtor_notify"}
    <3>1. \E u \in Threads : call'[u] \in {"notify_all", "dtor_notify"}
      BY <2>5 DEF NotifyOne, TypeOK
    <3>. QED
      BY <1>2, <3>1 DEF WorkSignalled, NoSleepingOnWork
  <2>6. CASE Len(tasks_) <= Cardinality(Looking) + Cardinality(Signalling) + unsignalled
    <3>1. Len(tasks_) \in Nat /\ unsignalled \in Nat
      BY LenProperties DEF TypeOK
    <3>2. Len(tasks_') <= Cardinality(Looking') + Cardinality(Signalling') + unsignalled'
      BY <1>2, <2>2, <2>4, <2>6, <3>1, LookingFinite
    <3>. QED
      BY <1>2, <3>2 DEF WorkSignalled, NoSleepingOnWork
  <2>. QED
    BY <1>4, <2>5, <2>6 DEF WorkSignalled, NoSleepingOnWork
<1>. QED
  BY <1>3, <1>4

(* A worker that takes a task leaves one task less to look for; it sleeps  *)
(* and leaves only before an empty queue.                                  *)
LEMMA SignalledWorker ==
  ASSUME TypeOK, Bookkeeping, WorkSignalled, NEW w \in Workers, WorkerStep(w)
  PROVE  WorkSignalled'
<1>1. UNCHANGED <<call, unsignalled>>
  BY DEF WorkerStep, WorkerBlock, WorkerExit, WorkerTake, BodyReturns,
         FinishTask, NotifyIdle, ReleaseTask, history
<1>2. IsFiniteSet(Signalling') /\ Signalling' = Signalling /\ Cardinality(Signalling) \in Nat
  BY <1>1, FS_CardinalityType DEF WorkSignalled, Signalling
<1>3. CASE WorkerBlock(w) \/ WorkerExit(w)
  <2>1. Len(tasks_') = 0 /\ unsignalled' \in Nat
    BY <1>1, <1>3, EmptySeq DEF WorkerBlock, WorkerExit, fields, TypeOK
  <2>2. Len(tasks_') <= Cardinality(Looking') + Cardinality(Signalling') + unsignalled'
    BY <1>2, <2>1, LookingFinite
  <2>. QED
    BY <1>2, <2>2 DEF WorkSignalled, NoSleepingOnWork
<1>4. CASE WorkerTake(w)
  <2>1. /\ Len(tasks_') = Len(tasks_) - 1 /\ Len(tasks_) \in Nat /\ unsignalled \in Nat
        /\ cv_' = cv_
    BY <1>4, PoppedProperties DEF WorkerTake, TypeOK
  <2>2. w \in Looking /\ Looking' = Looking \ {w}
    BY <1>4 DEF WorkerTake, Looking, TypeOK
  <2>3. Cardinality(Looking') = Cardinality(Looking) - 1
    BY <2>2, LookingFinite, FS_RemoveElement
  <2>4. CASE Len(tasks_) <= Cardinality(Looking) + Cardinality(Signalling) + unsignalled
    <3>1. Len(tasks_') <= Cardinality(Looking') + Cardinality(Signalling') + unsignalled'
      BY <1>1, <1>2, <2>1, <2>3, <2>4, LookingFinite
    <3>. QED
      BY <1>2, <3>1 DEF WorkSignalled, NoSleepingOnWork
  <2>. QED
    BY <1>1, <1>2, <2>1, <2>4 DEF WorkSignalled, NoSleepingOnWork
<1>5. CASE BodyReturns(w) \/ FinishTask(w) \/ NotifyIdle(w) \/ ReleaseTask(w)
  <2>1. UNCHANGED <<tasks_, cv_>>
    BY <1>5 DEF BodyReturns, FinishTask, NotifyIdle, ReleaseTask, fields
  <2>2. \A v \in Looking : v \in Looking'
    BY <1>5 DEF BodyReturns, FinishTask, NotifyIdle, ReleaseTask, Looking, TypeOK
  <2>. QED
    BY <1>1, <2>1, <2>2, SignalledFrame
<1>. QED
  BY <1>3, <1>4, <1>5 DEF WorkerStep

(* Every step keeps the count, or wakes every worker.                      *)
LEMMA SignalledStep ==
  ASSUME TypeOK, Bookkeeping, WorkSignalled, [Next]_vars
  PROVE  WorkSignalled'
<1>1. ASSUME NEW t \in Threads, NEW op \in WaitCall, WaitIdle(t, op)
      PROVE  WorkSignalled'
  <2>1. /\ UNCHANGED <<tasks_, unsignalled, cv_, worker>>
        /\ \A u \in Threads : \/ call'[u] = call[u]
                              \/ call[u] = "none" /\ call'[u] \in WaitCall
    BY <1>1 DEF WaitIdle, CanCall, fields, TypeOK
  <2>2. \A u \in Threads : \/ call'[u] = call[u]
                           \/ call[u] \notin Waking /\ call'[u] \notin Waking
    BY <2>1 DEF Waking, WaitCall
  <2>3. \A w \in Looking : w \in Looking'
    BY <2>1 DEF Looking
  <2>. QED
    BY <2>1, <2>2, <2>3, SignalledFrame
<1>2. ASSUME NEW t \in Threads, NotifyAll(t)
      PROVE  WorkSignalled'
  <2>1. cv_' = {} /\ Signalling' = Signalling
    BY <1>2 DEF NotifyAll, Signalling, TypeOK
  <2>. QED
    BY <2>1 DEF WorkSignalled, NoSleepingOnWork
<1>3. ASSUME NEW t \in Threads,
             WaitIdleBlock(t) \/ WaitIdleReturn(t) \/ WaitIdleTimeout(t)
      PROVE  WorkSignalled'
  <2>1. /\ UNCHANGED <<tasks_, unsignalled, cv_, worker>>
        /\ \A u \in Threads : \/ call'[u] = call[u]
                              \/ call[u] \in WaitCall /\ call'[u] = "none"
    BY <1>3 DEF WaitIdleBlock, WaitIdleReturn, WaitIdleTimeout, WaitCall, fields,
                history, TypeOK
  <2>2. \A u \in Threads : \/ call'[u] = call[u]
                           \/ call[u] \notin Waking /\ call'[u] \notin Waking
    BY <2>1 DEF Waking, WaitCall
  <2>3. \A w \in Looking : w \in Looking'
    BY <2>1 DEF Looking
  <2>. QED
    BY <2>1, <2>2, <2>3, SignalledFrame
<1>4. ASSUME NEW c \in Clients, Destroy(c)
      PROVE  WorkSignalled'
  <2>1. c \in Threads /\ call'[c] = "dtor_notify"
    BY <1>4 DEF Destroy, TypeOK, Threads
  <2>2. Signalling' = Signalling
    BY <1>4 DEF Destroy, Signalling, TypeOK, Threads
  <2>. QED
    BY <2>1, <2>2 DEF WorkSignalled, NoSleepingOnWork
<1>5. ASSUME NEW c \in Clients, DestroyNotify(c)
      PROVE  WorkSignalled'
  <2>1. cv_' = {} /\ Signalling' = Signalling
    BY <1>5 DEF DestroyNotify, Signalling, TypeOK, Threads
  <2>. QED
    BY <2>1 DEF WorkSignalled, NoSleepingOnWork
<1>6. ASSUME NEW c \in Clients, DestroyJoin(c)
      PROVE  WorkSignalled'
  <2>1. /\ UNCHANGED <<tasks_, unsignalled, cv_, worker>>
        /\ \A u \in Threads : \/ call'[u] = call[u]
                              \/ call[u] \notin Waking /\ call'[u] \notin Waking
    BY <1>6 DEF DestroyJoin, Waking, fields, history, TypeOK, Threads
  <2>2. \A w \in Looking : w \in Looking'
    BY <2>1 DEF Looking
  <2>. QED
    BY <2>1, <2>2, SignalledFrame
<1>7. CASE SpuriousWake
  <2>1. UNCHANGED <<tasks_, unsignalled, worker, call>> /\ cv_' \subseteq cv_
    BY <1>7 DEF SpuriousWake, fields, history
  <2>. QED
    BY <2>1, SignalledFrame DEF Looking
<1>8. CASE UNCHANGED vars
  BY <1>8, SignalledFrame DEF vars, fields, history, Looking
<1>. QED
  BY <1>1, <1>2, <1>3, <1>4, <1>5, <1>6, <1>7, <1>8, SignalledEnqueue,
     SignalledRange, SignalledNotifyOne, SignalledWorker
     DEF Next, CallStep, ReturnStep, DestroyStep, Terminated

(* A worker never sleeps next to a task (NoSleepingOnWork), however many   *)
(* threads post, wait and destroy: while one sleeps, every queued task has *)
(* a worker or a notification under way, except those that a throwing      *)
(* enqueue_range left behind.                                              *)
THEOREM WorkWakeup == Spec => []NoSleepingOnWork
<1>1. Init => TypeOK /\ Bookkeeping /\ WorkSignalled
  BY TypingInit, BooksInit, SignalledInit DEF Books
<1>2. TypeOK /\ Bookkeeping /\ WorkSignalled /\ [Next]_vars
        => (TypeOK /\ Bookkeeping /\ WorkSignalled)'
  BY TypingStep, BookkeepingStep, SignalledStep
<1>3. WorkSignalled => NoSleepingOnWork
  BY DEF WorkSignalled
<1>. QED
  BY <1>1, <1>2, <1>3, PTL DEF Spec

-----------------------------------------------------------------------------
(* The pool implements TaskPool.                                           *)

InProgress == {task[w] : w \in InBody}
Told == {t \in Threads : answer[t] = "idle"}

(* The bound on tasks is the same in both modules.                         *)
Bounded == submitted <= MaxTasks

(* An enqueue takes no more than the bound.                                *)
LEMMA BoundedStep ==
  ASSUME TypeOK, TypeOK', Bounded, [Next]_vars
  PROVE  Bounded'
<1>1. ASSUME NEW t \in Threads, Enqueue(t) PROVE Bounded'
  BY <1>1, PoolAssumption DEF Enqueue, Bounded, TypeOK
<1>2. ASSUME NEW t \in Threads, EnqueueRange(t) PROVE Bounded'
  BY <1>2, PoolAssumption DEF EnqueueRange, Bounded, TypeOK
<1>3. CASE submitted' = submitted
  BY <1>3 DEF Bounded
<1>4. ASSUME NEW t \in Threads, NEW op \in WaitCall, WaitIdle(t, op)
      PROVE  submitted' = submitted
  BY <1>4 DEF WaitIdle
<1>5. ASSUME NEW t \in Threads, ReturnStep(t) PROVE submitted' = submitted
  BY <1>5 DEF ReturnStep, NotifyOne, NotifyAll, WaitIdleBlock, WaitIdleReturn,
              WaitIdleTimeout, history
<1>6. ASSUME NEW c \in Clients, Destroy(c) \/ DestroyStep(c)
      PROVE  submitted' = submitted
  BY <1>6 DEF Destroy, DestroyStep, DestroyNotify, DestroyJoin, history
<1>7. ASSUME NEW w \in Workers, WorkerStep(w) PROVE submitted' = submitted
  BY <1>7 DEF WorkerStep, WorkerBlock, WorkerExit, WorkerTake, BodyReturns,
              FinishTask, NotifyIdle, ReleaseTask, history
<1>8. SpuriousWake \/ UNCHANGED vars => submitted' = submitted
  BY DEF SpuriousWake, vars, history
<1>. QED
  BY <1>1, <1>2, <1>3, <1>4, <1>5, <1>6, <1>7, <1>8 DEF Next, CallStep, Terminated

(* A new pool has accepted nothing.                                        *)
LEMMA Starts == Init => Pool!Init
<1>. SUFFICES ASSUME Init PROVE Pool!Init
  OBVIOUS
<1>1. InBody = {}
  BY DEF Init, InBody
<1>2. {task[w] : w \in InBody} = {} /\ {t \in Threads : answer[t] = "idle"} = {}
  BY <1>1 DEF Init
<1>3. Destroyed = FALSE
  BY DEF Init, Destroyed, Threads
<1>. QED
  BY <1>2, <1>3 DEF Init, Pool!Init

(* What an answer does to the set of those who were told of idleness, and  *)
(* what leaves the rest of the user's view alone.                          *)
LEMMA Answered ==
  ASSUME TypeOK, NEW t \in Threads, NEW a \in Answer,
         answer' = [answer EXCEPT ![t] = a]
  PROVE  Told' = IF a = "idle" THEN Told \union {t} ELSE Told \ {t}
BY DEF Told, TypeOK

(* What a step leaves alone when it answers nobody, moves no worker, or is *)
(* not the end of the destructor.                                          *)
LEMMA SameTold == UNCHANGED answer => Told' = Told
BY DEF Told

(* The tasks in progress are those in workers' hands.                      *)
LEMMA SameHands == UNCHANGED <<worker, task>> => InProgress' = InProgress
BY DEF InProgress, InBody

(* The pool is gone when its destructor is done.                           *)
LEMMA SameGone ==
  ASSUME \A c \in Clients : call'[c] = "destroyed" <=> call[c] = "destroyed"
  PROVE  Destroyed' = Destroyed
BY DEF Destroyed

(* The abstract steps in the names used here.                              *)
LEMMA Stutters ==
  ASSUME UNCHANGED <<submitted, done, stop_>>, Destroyed' = Destroyed,
         InProgress' = InProgress, Told' = Told
  PROVE  UNCHANGED Pool!vars
BY DEF Pool!vars, InProgress, Told

(* A call that ends without an answer.                                     *)
LEMMA Refuses ==
  ASSUME NEW t \in Threads, Told' = Told \ {t}, Destroyed' = Destroyed,
         UNCHANGED <<submitted, done, stop_>>, InProgress' = InProgress
  PROVE  Pool!Next
<1>1. Pool!Refuse(t)
  BY DEF Pool!Refuse, Pool!Forgets, InProgress, Told
<1>. QED
  BY <1>1 DEF Pool!Next

(* A wait that answers.                                                    *)
LEMMA Reports ==
  ASSUME NEW t \in Threads, Told' = Told \union {t}, Destroyed' = Destroyed,
         done = 1 .. submitted,
         UNCHANGED <<submitted, done, stop_>>, InProgress' = InProgress
  PROVE  Pool!Next
<1>1. Pool!ReportIdle(t)
  BY DEF Pool!ReportIdle, InProgress, Told
<1>. QED
  BY <1>1 DEF Pool!Next

(* An enqueue that is accepted.                                            *)
LEMMA Accepts ==
  ASSUME NEW t \in Threads, NEW n \in 0 .. MaxTasks, ~stop_,
         submitted + n <= MaxTasks, submitted' = submitted + n,
         Told' = Told \ {t}, Destroyed' = Destroyed,
         UNCHANGED <<done, stop_>>, InProgress' = InProgress
  PROVE  Pool!Next
<1>1. Pool!Accept(t, n)
  BY DEF Pool!Accept, Pool!Forgets, InProgress, Told
<1>. QED
  BY <1>1 DEF Pool!Next

-----------------------------------------------------------------------------
(* A task that enters a queue is accepted; an operation of a closed pool   *)
(* is refused.                                                             *)
LEMMA EnqueueMaps ==
  ASSUME TypeOK, NEW t \in Threads, Enqueue(t) \/ EnqueueRange(t)
  PROVE  Pool!Next
<1>1. /\ CanCall(t) /\ UNCHANGED <<stop_, worker, task, done>>
      /\ InProgress' = InProgress
  BY EnqueueEffect, SameHands
<1>2. Destroyed' = Destroyed
  <2>1. \A c \in Clients : call'[c] = "destroyed" <=> call[c] = "destroyed"
    BY <1>1, EnqueueEffect DEF CanCall, TypeOK, Threads
  <2>. QED
    BY <2>1, SameGone
<1>3. \E a \in {"threw", "none"} : answer' = [answer EXCEPT ![t] = a]
  BY DEF Enqueue, EnqueueRange
<1>4. Told' = Told \ {t}
  BY <1>3, Answered DEF Answer
<1>5. CASE stop_
  BY <1>1, <1>2, <1>4, <1>5, Refuses DEF Enqueue, EnqueueRange
<1>6. CASE ~stop_
  <2>1. \E n \in Nat : submitted + n <= MaxTasks /\ submitted' = submitted + n
    <3>1. CASE Enqueue(t)
      <4>1. submitted < MaxTasks /\ submitted' = submitted + 1
        BY <1>6, <3>1 DEF Enqueue
      <4>2. submitted + 1 <= MaxTasks
        BY <4>1, PoolAssumption DEF TypeOK
      <4>. QED
        BY <4>1, <4>2
    <3>2. CASE EnqueueRange(t)
      <4>1. PICK n \in 0 .. MaxBatch :
              submitted + n <= MaxTasks /\ submitted' = submitted + n
        BY <1>6, <3>2 DEF EnqueueRange
      <4>2. n \in Nat
        BY PoolAssumption
      <4>. QED
        BY <4>1, <4>2
    <3>. QED
      BY <3>1, <3>2
  <2>2. PICK n \in Nat : submitted + n <= MaxTasks /\ submitted' = submitted + n
    BY <2>1
  <2>3. n \in 0 .. MaxTasks
    BY <2>2, PoolAssumption DEF TypeOK
  <2>. QED
    BY <1>1, <1>2, <1>4, <1>6, <2>2, <2>3, Accepts
<1>. QED
  BY <1>5, <1>6

(* A wait begins, refused to workers, and ends, reporting idleness only    *)
(* when everything accepted is done.                                       *)
LEMMA WaitMaps ==
  ASSUME TypeOK, NEW t \in Threads, NEW op \in WaitCall, WaitIdle(t, op)
  PROVE  Pool!Next
<1>1. /\ CanCall(t) /\ UNCHANGED <<submitted, done, stop_, worker, task>>
      /\ InProgress' = InProgress
  BY SameHands DEF WaitIdle, fields
<1>2. Destroyed' = Destroyed
  <2>1. \A c \in Clients : call'[c] = "destroyed" <=> call[c] = "destroyed"
    BY <1>1 DEF WaitIdle, CanCall, TypeOK, Threads, WaitCall
  <2>. QED
    BY <2>1, SameGone
<1>3. \E a \in {"threw", "none"} : answer' = [answer EXCEPT ![t] = a]
  BY DEF WaitIdle
<1>4. Told' = Told \ {t}
  BY <1>3, Answered DEF Answer
<1>. QED
  BY <1>1, <1>2, <1>4, Refuses

(* When the pool is idle, everything accepted is done.                     *)
LEMMA IdleIsDone ==
  ASSUME TypeOK, ActiveCount, StartsInOrder, EachTaskOnce, Idle
  PROVE  done = 1 .. submitted
<1>1. 1 .. submitted \subseteq done
  BY IdleMeansDone
<1>2. Started = submitted
  <2>. Len(tasks_) = 0
    BY EmptySeq DEF Idle
  <2>. QED
    BY DEF Started, TypeOK
<1>. QED
  BY <1>1, <1>2 DEF EachTaskOnce

(* A notification shows nothing; the end of a wait is an answer.           *)
LEMMA ReturnMaps ==
  ASSUME IInv, NEW t \in Threads, ReturnStep(t)
  PROVE  Pool!Next \/ UNCHANGED Pool!vars
<1>0. TypeOK
  BY DEF IInv
<1>1. /\ UNCHANGED <<submitted, done, stop_, worker, task>>
      /\ InProgress' = InProgress
  BY SameHands DEF ReturnStep, NotifyOne, NotifyAll, WaitIdleBlock, WaitIdleReturn,
                   WaitIdleTimeout, fields, history
<1>2. Destroyed' = Destroyed
  <2>1. \A c \in Clients : call'[c] = "destroyed" <=> call[c] = "destroyed"
    BY <1>0 DEF ReturnStep, NotifyOne, NotifyAll, WaitIdleBlock, WaitIdleReturn,
                WaitIdleTimeout, WaitCall, TypeOK, Threads
  <2>. QED
    BY <2>1, SameGone
<1>3. \/ UNCHANGED answer
      \/ answer' = [answer EXCEPT ![t] = "timeout"]
      \/ Idle /\ answer' = [answer EXCEPT ![t] = "idle"]
  BY DEF ReturnStep, NotifyOne, NotifyAll, WaitIdleBlock, WaitIdleReturn, WaitIdleTimeout
<1>4. CASE UNCHANGED answer
  BY <1>1, <1>2, <1>4, SameTold, Stutters
<1>5. CASE answer' = [answer EXCEPT ![t] = "timeout"]
  <2>1. Told' = Told \ {t}
    BY <1>0, <1>5, Answered DEF Answer
  <2>. QED
    BY <1>1, <1>2, <2>1, Refuses
<1>6. CASE Idle /\ answer' = [answer EXCEPT ![t] = "idle"]
  <2>1. Told' = Told \union {t}
    BY <1>0, <1>6, Answered DEF Answer
  <2>2. done = 1 .. submitted
    BY <1>6, IdleIsDone DEF IInv
  <2>. QED
    BY <1>1, <1>2, <2>1, <2>2, Reports
<1>. QED
  BY <1>3, <1>4, <1>5, <1>6

-----------------------------------------------------------------------------
(* The modules count alike.                                                *)
LEMMA SameCardinality == \A S : Pool!Cardinality(S) = Cardinality(S)
BY DEF Pool!Cardinality, Cardinality

(* The front task starts next, and a worker is free for it.                *)
LEMMA TakeMaps ==
  ASSUME IInv, Bounded, NEW w \in Workers, WorkerTake(w)
  PROVE  Pool!Next
<1>. PICK k : k = Head(tasks_)
  OBVIOUS
<1>. DEFINE taskOf == [v \in InBody |-> task[v]]
<1>0. TypeOK /\ StartsInOrder /\ EachTaskOnce
  BY DEF IInv
<1>1. /\ Len(tasks_) \in Nat \ {0} /\ submitted \in Nat /\ k = tasks_[1]
      /\ worker[w] = "waiting"
  BY <1>0, PoppedProperties DEF WorkerTake, TypeOK
<1>2. Started \in Nat /\ k = Started + 1 /\ k <= submitted /\ k \in 1 .. MaxTasks
  <2>1. Len(tasks_) <= submitted /\ tasks_[1] = Started + 1
    BY <1>0, <1>1 DEF StartsInOrder
  <2>2. Started \in Nat /\ Started + 1 <= submitted
    BY <1>1, <2>1 DEF Started
  <2>. QED
    BY <1>1, <2>1, <2>2, PoolAssumption DEF Bounded
<1>3. InProgress \union done = 1 .. (k - 1)
  <2>1. InProgress \union done \subseteq 1 .. Started
    BY <1>0 DEF EachTaskOnce, InProgress
  <2>2. \A j \in 1 .. Started : j \in InProgress \union done
    BY <1>0 DEF EachTaskOnce, InProgress
  <2>. QED
    BY <1>2, <2>1, <2>2
<1>4. Cardinality(InProgress) < WorkerCount
  <2>1. InBody \subseteq Workers \ {w}
    BY <1>1 DEF InBody
  <2>2. /\ IsFiniteSet(Workers \ {w}) /\ Cardinality(Workers \ {w}) = WorkerCount - 1
        /\ WorkerCount \in Nat \ {0}
    BY WorkersFacts, FS_RemoveElement
  <2>3. IsFiniteSet(InBody) /\ Cardinality(InBody) <= WorkerCount - 1
    BY <2>1, <2>2, FS_Subset
  <2>4. taskOf \in Surjection(InBody, InProgress)
    BY DEF Surjection, InProgress
  <2>5. IsFiniteSet(InProgress) /\ Cardinality(InProgress) <= Cardinality(InBody)
    BY <2>3, <2>4, FS_Surjection
  <2>6. Cardinality(InProgress) \in Nat /\ Cardinality(InBody) \in Nat
    BY <2>3, <2>5, FS_CardinalityType
  <2>. QED
    BY <2>2, <2>3, <2>5, <2>6
<1>5. InProgress' = InProgress \union {k}
  <2>1. InBody' = InBody \union {w} /\ w \notin InBody
    BY <1>0, <1>1 DEF WorkerTake, InBody, TypeOK
  <2>2. task'[w] = k /\ \A v \in InBody : task'[v] = task[v]
    BY <1>0, <2>1 DEF WorkerTake, TypeOK, InBody
  <2>. QED
    BY <2>1, <2>2 DEF InProgress
<1>6. UNCHANGED <<submitted, done, stop_>> /\ Told' = Told /\ Destroyed' = Destroyed
  BY SameTold, SameGone DEF WorkerTake, history
<1>7. Pool!Start(k)
  <2>1. Pool!Cardinality(InProgress) < WorkerCount
    BY <1>4, SameCardinality
  <2>. QED
    BY <1>2, <1>3, <1>5, <1>6, <2>1 DEF Pool!Start, InProgress, Told
<1>. QED
  BY <1>2, <1>7 DEF Pool!Next

(* The task whose body returns is the worker's alone.                      *)
LEMMA BodyMaps ==
  ASSUME IInv, Bounded, NEW w \in Workers, BodyReturns(w)
  PROVE  Pool!Next
<1>. PICK k : k = task[w]
  OBVIOUS
<1>0. TypeOK /\ StartsInOrder /\ EachTaskOnce
  BY DEF IInv
<1>1. w \in InBody /\ InBody' = InBody \ {w} /\ task' = task
  BY <1>0 DEF BodyReturns, InBody, TypeOK
<1>2. k \in 1 .. MaxTasks
  <2>1. k \in 1 .. Started /\ Len(tasks_) \in Nat /\ submitted \in Nat
    BY <1>0, <1>1, LenProperties DEF EachTaskOnce, TypeOK
  <2>. QED
    BY <2>1, PoolAssumption DEF Started, Bounded
<1>3. InProgress' = InProgress \ {k}
  BY <1>0, <1>1 DEF InProgress, EachTaskOnce
<1>4. /\ done' = done \union {k} /\ UNCHANGED <<submitted, stop_>>
      /\ Told' = Told /\ Destroyed' = Destroyed
  BY SameTold, SameGone DEF BodyReturns, fields
<1>5. k \in InProgress
  BY <1>1 DEF InProgress
<1>6. Pool!Return(k)
  BY <1>3, <1>4, <1>5 DEF Pool!Return, InProgress, Told
<1>. QED
  BY <1>2, <1>6 DEF Pool!Next

(* The rest of the worker loop shows nothing.                              *)
LEMMA LoopMaps ==
  ASSUME TypeOK, NEW w \in Workers,
         \/ WorkerBlock(w) \/ WorkerExit(w)
         \/ FinishTask(w) \/ NotifyIdle(w) \/ ReleaseTask(w)
  PROVE  UNCHANGED Pool!vars
<1>1. UNCHANGED <<submitted, done, stop_, answer, call>>
  BY DEF WorkerBlock, WorkerExit, FinishTask, NotifyIdle, ReleaseTask, fields, history
<1>2. InBody' = InBody /\ \A v \in InBody : task'[v] = task[v]
  BY DEF WorkerBlock, WorkerExit, FinishTask, NotifyIdle, ReleaseTask, InBody, TypeOK
<1>3. InProgress' = InProgress
  BY <1>2 DEF InProgress
<1>. QED
  BY <1>1, <1>3, SameTold, SameGone, Stutters

(* The destructor closes the pool, and is gone when all is done.           *)
LEMMA DestroyMaps ==
  ASSUME IInv, NEW c \in Clients, Destroy(c) \/ DestroyStep(c)
  PROVE  Pool!Next \/ UNCHANGED Pool!vars
<1>0. TypeOK /\ c \in Threads
  BY DEF IInv, Threads
<1>1. /\ UNCHANGED <<submitted, done>> /\ InProgress' = InProgress /\ Told' = Told
  BY SameHands, SameTold DEF Destroy, DestroyStep, DestroyNotify, DestroyJoin, history
<1>2. CASE Destroy(c)
  <2>1. Destroyed' = Destroyed
    BY <1>0, <1>2, SameGone DEF Destroy, TypeOK, Threads
  <2>2. Pool!Close
    BY <1>1, <1>2, <2>1 DEF Destroy, Pool!Close, InProgress, Told
  <2>. QED
    BY <2>2 DEF Pool!Next
<1>3. CASE DestroyNotify(c)
  <2>1. Destroyed' = Destroyed
    BY <1>0, <1>3, SameGone DEF DestroyNotify, TypeOK, Threads
  <2>. QED
    BY <1>1, <1>3, <2>1, Stutters DEF DestroyNotify, fields
<1>4. CASE DestroyJoin(c)
  <2>1. Destroyed' = TRUE
    BY <1>0, <1>4 DEF DestroyJoin, Destroyed, TypeOK
  <2>2. stop_ /\ tasks_ = <<>> /\ InBody = {}
    BY <1>4, WorkersFacts DEF IInv, DestroyJoin, ExitsEmpty, InBody, Workers
  <2>3. Started = submitted
    <3>. Len(tasks_) = 0
      BY <2>2, EmptySeq
    <3>. QED
      BY <1>0 DEF Started, TypeOK
  <2>4. done = 1 .. submitted
    BY <2>2, <2>3 DEF IInv, EachTaskOnce
  <2>5. stop_' = stop_
    BY <1>4 DEF DestroyJoin, fields
  <2>6. Pool!Leave
    BY <1>1, <2>1, <2>2, <2>4, <2>5 DEF Pool!Leave, InProgress, Told
  <2>. QED
    BY <2>6 DEF Pool!Next
<1>. QED
  BY <1>2, <1>3, <1>4 DEF DestroyStep

(* Every step of the pool is a step of TaskPool or shows nothing.          *)
LEMMA StepMaps ==
  ASSUME IInv, Bounded, [Next]_vars
  PROVE  [Pool!Next]_(Pool!vars)
<1>0. TypeOK
  BY DEF IInv
<1>1. ASSUME NEW t \in Threads, CallStep(t)
      PROVE  Pool!Next
  BY <1>0, <1>1, EnqueueMaps, WaitMaps DEF CallStep
<1>2. ASSUME NEW w \in Workers, WorkerStep(w)
      PROVE  Pool!Next \/ UNCHANGED Pool!vars
  BY <1>0, <1>2, TakeMaps, BodyMaps, LoopMaps DEF WorkerStep
<1>3. CASE SpuriousWake
  BY <1>3, SameHands, SameTold, SameGone, Stutters DEF SpuriousWake, fields, history
<1>4. CASE UNCHANGED vars
  BY <1>4, SameHands, SameTold, SameGone, Stutters DEF vars, fields, history
<1>. QED
  BY <1>1, <1>2, <1>3, <1>4, ReturnMaps, DestroyMaps DEF Next, Terminated

(* The pool keeps the safety promises of TaskPool (ImplementsTaskPool),    *)
(* however many workers, clients and tasks there are: tasks start in the   *)
(* order of acceptance, at most as many at a time as there are workers,    *)
(* each runs once; a wait reports idleness only when everything accepted   *)
(* is done; and the destructor returns after everything accepted.          *)
THEOREM Implements == Spec => ImplementsTaskPool
<1>1. Init => Bounded
  BY PoolAssumption DEF Init, Bounded
<1>2. IInv /\ IInv' /\ Bounded /\ [Next]_vars => Bounded'
  BY BoundedStep DEF IInv
<1>3. Init => Pool!Init
  BY Starts
<1>4. IInv /\ Bounded /\ [Next]_vars => [Pool!Next]_(Pool!vars)
  BY StepMaps
<1>. QED
  BY <1>1, <1>2, <1>3, <1>4, Invariance, PTL
     DEF Spec, ImplementsTaskPool, Pool!SafeSpec
=============================================================================
