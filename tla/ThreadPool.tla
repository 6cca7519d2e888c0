----------------------------- MODULE ThreadPool -----------------------------
(***************************************************************************)
(* The worker pool of include/pb/runtime/thread_pool.hpp: a FIFO queue of  *)
(* callables, a fixed set of worker threads, two condition variables (cv_  *)
(* for work, idle_cv_ for wait_idle and its timed forms) and one mutex.    *)
(*                                                                         *)
(* A region the code runs under mutex_ is one action.  What happens after  *)
(* the unlock (notify_one, notify_all, the task body, the destruction of   *)
(* the worker's local callable) is a step of its own, so that every other  *)
(* thread may move between the unlock and the notification.                *)
(*                                                                         *)
(* Tasks are named by the order in which they were accepted: the k-th      *)
(* accepted task is the number k.                                          *)
(***************************************************************************)
EXTENDS Naturals, Sequences, FiniteSets

CONSTANTS
  NumThreads,    \* the constructor's argument
  Clients,       \* the threads outside the pool that use it
  MaxTasks,      \* bound: tasks accepted in one behaviour
  MaxBatch,      \* bound: callables in one enqueue_range
  RangeMayThrow  \* may copying a callable of an enqueue_range throw?

(* A pool always has a worker: an argument of 0 is replaced by 1. *)
WorkerCount == IF NumThreads = 0 THEN 1 ELSE NumThreads
Workers == 1 .. WorkerCount
Threads == Workers \cup Clients

ASSUME PoolAssumption ==
  /\ NumThreads \in Nat
  /\ MaxTasks \in Nat
  /\ MaxBatch \in Nat
  /\ RangeMayThrow \in BOOLEAN
  /\ \A c \in Clients : c \notin Workers

VARIABLES
  tasks_,        \* the queue of accepted tasks no worker has taken
  active_tasks_, \* how many tasks workers have taken and not finished
  stop_,         \* set by the destructor
  cv_,           \* the workers asleep on cv_
  idle_cv_,      \* the threads asleep on idle_cv_
  worker,        \* where each worker is in its loop
  task,          \* the callable in each worker's local variable, 0 if empty
  call,          \* the pool operation each thread is in the middle of
  answer,        \* what the last operation of each thread returned
  submitted,     \* history: how many tasks were accepted
  done,          \* history: the tasks whose body has returned
  before,        \* history: "submitted" when each thread's last wait began
  unsignalled    \* history: tasks a throwing enqueue_range left unannounced

fields  == <<tasks_, active_tasks_, stop_>>
history == <<submitted, done, before, unsignalled>>
vars == <<fields, cv_, idle_cv_, worker, task, call, answer, history>>

(* A worker is "waiting" at cv_.wait (asleep if it is in cv_), "running"   *)
(* inside task(), "finishing" when the body has returned and the guard is  *)
(* about to call finish_task, "notifying" when finish_task has unlocked    *)
(* and owes idle_cv_ a notify_all, "releasing" when the guard is gone and  *)
(* the local callable is about to be destroyed.                            *)
WorkerState == {"waiting", "running", "finishing", "notifying", "releasing",
                "exited"}
WaitCall == {"wait_idle", "wait_idle_for"}
CallState == {"none", "notify_one", "notify_all", "dtor_notify", "dtor_join",
              "destroyed"} \cup WaitCall
Answer == {"none", "threw", "idle", "timeout"}

Init ==
  /\ tasks_ = <<>>
  /\ active_tasks_ = 0
  /\ stop_ = FALSE
  /\ cv_ = {}
  /\ idle_cv_ = {}
  /\ worker = [w \in Workers |-> "waiting"]
  /\ task = [w \in Workers |-> 0]
  /\ call = [t \in Threads |-> "none"]
  /\ answer = [t \in Threads |-> "none"]
  /\ submitted = 0
  /\ done = {}
  /\ before = [t \in Threads |-> 0]
  /\ unsignalled = 0

-----------------------------------------------------------------------------
(* Callers.                                                                *)

(* Mutant: idle as soon as the queue is empty. *)
IdleIgnoresActive == tasks_ = <<>>

(* The predicate of idle_cv_. *)
Idle == tasks_ = <<>> /\ active_tasks_ = 0

(* current_pool_ names this pool exactly while a worker is in a task.      *)
OnWorker(t) == t \in Workers

(* Who may start an operation: a task between two of its own operations,   *)
(* or a client of a pool nobody is destroying.                             *)
CanCall(t) ==
  /\ call[t] = "none"
  /\ IF t \in Workers THEN worker[t] = "running" ELSE ~stop_

(* Mutant: the queue is a stack. *)
PushedInFront(n) == [i \in 1 .. n |-> submitted + i] \o tasks_

(* The queue after n more tasks were accepted. *)
Pushed(n) == tasks_ \o [i \in 1 .. n |-> submitted + i]

(* Mutant: stop_ is not looked at. *)
EnqueueUnchecked(t) ==
  /\ CanCall(t)
  /\ submitted < MaxTasks
  /\ tasks_' = Pushed(1)
  /\ submitted' = submitted + 1
  /\ call' = [call EXCEPT ![t] = "notify_one"]
  /\ answer' = [answer EXCEPT ![t] = "none"]
  /\ UNCHANGED <<active_tasks_, stop_, cv_, idle_cv_, worker, task, done,
                 before, unsignalled>>

(* post, and the part of enqueue that does not concern the future: refused *)
(* once the destructor has set stop_, else pushed; the worker is told      *)
(* after the unlock.                                                       *)
Enqueue(t) ==
  /\ CanCall(t)
  /\ \/ /\ stop_
        /\ answer' = [answer EXCEPT ![t] = "threw"]
        /\ UNCHANGED <<tasks_, submitted, call>>
     \/ /\ ~stop_
        /\ submitted < MaxTasks
        /\ tasks_' = Pushed(1)
        /\ submitted' = submitted + 1
        /\ call' = [call EXCEPT ![t] = "notify_one"]
        /\ answer' = [answer EXCEPT ![t] = "none"]
  /\ UNCHANGED <<active_tasks_, stop_, cv_, idle_cv_, worker, task, done,
                 before, unsignalled>>

(* Mutant: one notification for the whole range. *)
EnqueueRangeTellsOne(t) ==
  /\ CanCall(t) /\ ~stop_
  /\ \E n \in 0 .. MaxBatch :
       /\ submitted + n <= MaxTasks
       /\ tasks_' = Pushed(n)
       /\ submitted' = submitted + n
  /\ call' = [call EXCEPT ![t] = "notify_one"]
  /\ answer' = [answer EXCEPT ![t] = "none"]
  /\ UNCHANGED <<active_tasks_, stop_, cv_, idle_cv_, worker, task, done,
                 before, unsignalled>>

(* enqueue_range pushes its n callables in one critical section.  When     *)
(* making the packaged_task of the next one throws, the n before it stay   *)
(* in the queue and the notify_all after the block is skipped.             *)
EnqueueRange(t) ==
  /\ CanCall(t)
  /\ \/ /\ stop_
        /\ answer' = [answer EXCEPT ![t] = "threw"]
        /\ UNCHANGED <<tasks_, submitted, call, unsignalled>>
     \/ /\ ~stop_
        /\ \E n \in 0 .. MaxBatch :
             /\ submitted + n <= MaxTasks
             /\ tasks_' = Pushed(n)
             /\ submitted' = submitted + n
             /\ \/ /\ call' = [call EXCEPT ![t] = "notify_all"]
                   /\ answer' = [answer EXCEPT ![t] = "none"]
                   /\ UNCHANGED unsignalled
                \/ /\ RangeMayThrow
                   /\ unsignalled' = unsignalled + n
                   /\ answer' = [answer EXCEPT ![t] = "threw"]
                   /\ UNCHANGED call
  /\ UNCHANGED <<active_tasks_, stop_, cv_, idle_cv_, worker, task, done,
                 before>>

(* notify_one: wakes one sleeper of cv_, if there is one.                  *)
NotifyOne(t) ==
  /\ call[t] = "notify_one"
  /\ call' = [call EXCEPT ![t] = "none"]
  /\ IF cv_ = {} THEN UNCHANGED cv_ ELSE \E w \in cv_ : cv_' = cv_ \ {w}
  /\ UNCHANGED <<fields, idle_cv_, worker, task, answer, history>>

NotifyAll(t) ==
  /\ call[t] = "notify_all"
  /\ call' = [call EXCEPT ![t] = "none"]
  /\ cv_' = {}
  /\ UNCHANGED <<fields, idle_cv_, worker, task, answer, history>>

(* wait_idle, wait_idle_for and wait_idle_until start with                 *)
(* ensure_external_waiter, which throws when called from one of this       *)
(* pool's own tasks.                                                       *)
WaitIdle(t, op) ==
  /\ CanCall(t)
  /\ IF OnWorker(t)
     THEN /\ answer' = [answer EXCEPT ![t] = "threw"]
          /\ UNCHANGED <<call, before>>
     ELSE /\ call' = [call EXCEPT ![t] = op]
          /\ answer' = [answer EXCEPT ![t] = "none"]
          /\ before' = [before EXCEPT ![t] = submitted]
  /\ UNCHANGED <<fields, cv_, idle_cv_, worker, task, submitted, done,
                 unsignalled>>

(* A waiter that holds the mutex and finds work goes to sleep. *)
WaitIdleBlock(t) ==
  /\ call[t] \in WaitCall
  /\ t \notin idle_cv_
  /\ ~Idle
  /\ idle_cv_' = idle_cv_ \cup {t}
  /\ UNCHANGED <<fields, cv_, worker, task, call, answer, history>>

WaitIdleReturn(t) ==
  /\ call[t] \in WaitCall
  /\ t \notin idle_cv_
  /\ Idle
  /\ call' = [call EXCEPT ![t] = "none"]
  /\ answer' = [answer EXCEPT ![t] = "idle"]
  /\ UNCHANGED <<fields, cv_, idle_cv_, worker, task, history>>

(* A timed wait that runs out returns the predicate's value at that time.  *)
WaitIdleTimeout(t) ==
  /\ call[t] = "wait_idle_for"
  /\ t \in idle_cv_
  /\ idle_cv_' = idle_cv_ \ {t}
  /\ call' = [call EXCEPT ![t] = "none"]
  /\ answer' = [answer EXCEPT ![t] = IF Idle THEN "idle" ELSE "timeout"]
  /\ UNCHANGED <<fields, cv_, worker, task, history>>

-----------------------------------------------------------------------------
(* The destructor, run by a client while no client uses the pool.          *)

Destroy(c) ==
  /\ ~stop_
  /\ \A d \in Clients : call[d] = "none"
  /\ stop_' = TRUE
  /\ call' = [call EXCEPT ![c] = "dtor_notify"]
  /\ UNCHANGED <<tasks_, active_tasks_, cv_, idle_cv_, worker, task, answer,
                 history>>

(* Mutant: notify_one in the destructor. *)
DestroyNotifyOne(c) ==
  /\ call[c] = "dtor_notify"
  /\ call' = [call EXCEPT ![c] = "dtor_join"]
  /\ IF cv_ = {} THEN UNCHANGED cv_ ELSE \E w \in cv_ : cv_' = cv_ \ {w}
  /\ UNCHANGED <<fields, idle_cv_, worker, task, answer, history>>

DestroyNotify(c) ==
  /\ call[c] = "dtor_notify"
  /\ call' = [call EXCEPT ![c] = "dtor_join"]
  /\ cv_' = {}
  /\ UNCHANGED <<fields, idle_cv_, worker, task, answer, history>>

(* Every worker is joined; then the members go.                            *)
DestroyJoin(c) ==
  /\ call[c] = "dtor_join"
  /\ \A w \in Workers : worker[w] = "exited"
  /\ call' = [call EXCEPT ![c] = "destroyed"]
  /\ UNCHANGED <<fields, cv_, idle_cv_, worker, task, answer, history>>

-----------------------------------------------------------------------------
(* The worker loop.                                                        *)

(* Mutant: the predicate of cv_ forgets stop_. *)
WorkerBlockForever(w) ==
  /\ worker[w] = "waiting" /\ w \notin cv_
  /\ tasks_ = <<>>
  /\ cv_' = cv_ \cup {w}
  /\ UNCHANGED <<fields, idle_cv_, worker, task, call, answer, history>>

WorkerBlock(w) ==
  /\ worker[w] = "waiting" /\ w \notin cv_
  /\ ~stop_ /\ tasks_ = <<>>
  /\ cv_' = cv_ \cup {w}
  /\ UNCHANGED <<fields, idle_cv_, worker, task, call, answer, history>>

(* Mutant: a stopped worker leaves at once. *)
WorkerExitAtStop(w) ==
  /\ worker[w] = "waiting" /\ w \notin cv_
  /\ stop_
  /\ worker' = [worker EXCEPT ![w] = "exited"]
  /\ UNCHANGED <<fields, cv_, idle_cv_, task, call, answer, history>>

WorkerExit(w) ==
  /\ worker[w] = "waiting" /\ w \notin cv_
  /\ stop_ /\ tasks_ = <<>>
  /\ worker' = [worker EXCEPT ![w] = "exited"]
  /\ UNCHANGED <<fields, cv_, idle_cv_, task, call, answer, history>>

(* The pop and the increment are in one critical section.                  *)
WorkerTake(w) ==
  /\ worker[w] = "waiting" /\ w \notin cv_
  /\ tasks_ # <<>>
  /\ task' = [task EXCEPT ![w] = Head(tasks_)]
  /\ tasks_' = Tail(tasks_)
  /\ active_tasks_' = active_tasks_ + 1
  /\ worker' = [worker EXCEPT ![w] = "running"]
  /\ UNCHANGED <<stop_, cv_, idle_cv_, call, answer, history>>

(* task() returns; a future it fulfils is ready from here on.              *)
BodyReturns(w) ==
  /\ worker[w] = "running"
  /\ call[w] = "none"
  /\ done' = done \cup {task[w]}
  /\ worker' = [worker EXCEPT ![w] = "finishing"]
  /\ UNCHANGED <<fields, cv_, idle_cv_, task, call, answer, submitted, before,
                 unsignalled>>

(* Mutants: the count is decremented twice, by the task and by the guard;  *)
(* idleness is decided before the decrement.                               *)
FinishTaskTwice(w) ==
  /\ worker[w] = "finishing"
  /\ active_tasks_' = active_tasks_ - 2
  /\ worker' = [worker EXCEPT ![w] = "notifying"]
  /\ UNCHANGED <<tasks_, stop_, cv_, idle_cv_, task, call, answer, history>>

FinishTaskDecidesFirst(w) ==
  /\ worker[w] = "finishing"
  /\ active_tasks_' = IF active_tasks_ > 0 THEN active_tasks_ - 1
                                            ELSE active_tasks_
  /\ worker' = [worker EXCEPT ![w] = IF Idle THEN "notifying" ELSE "releasing"]
  /\ UNCHANGED <<tasks_, stop_, cv_, idle_cv_, task, call, answer, history>>

FinishTask(w) ==
  /\ worker[w] = "finishing"
  /\ active_tasks_' = IF active_tasks_ > 0 THEN active_tasks_ - 1
                                            ELSE active_tasks_
  /\ worker' = [worker EXCEPT ![w] =
                  IF tasks_ = <<>> /\ active_tasks_' = 0 THEN "notifying"
                                                         ELSE "releasing"]
  /\ UNCHANGED <<tasks_, stop_, cv_, idle_cv_, task, call, answer, history>>

NotifyIdle(w) ==
  /\ worker[w] = "notifying"
  /\ idle_cv_' = {}
  /\ worker' = [worker EXCEPT ![w] = "releasing"]
  /\ UNCHANGED <<fields, cv_, task, call, answer, history>>

(* "task" is declared before the guard, so it is destroyed after it.       *)
ReleaseTask(w) ==
  /\ worker[w] = "releasing"
  /\ task' = [task EXCEPT ![w] = 0]
  /\ worker' = [worker EXCEPT ![w] = "waiting"]
  /\ UNCHANGED <<fields, cv_, idle_cv_, call, answer, history>>

(* A condition variable may wake a sleeper without a notification.         *)
SpuriousWake ==
  /\ \/ \E w \in cv_ : cv_' = cv_ \ {w} /\ UNCHANGED idle_cv_
     \/ \E t \in idle_cv_ : idle_cv_' = idle_cv_ \ {t} /\ UNCHANGED cv_
  /\ UNCHANGED <<fields, worker, task, call, answer, history>>

-----------------------------------------------------------------------------
(* Every client has left and the pool is gone: nothing is left to do.      *)
Destroyed == \E c \in Clients : call[c] = "destroyed"
Terminated == Destroyed /\ UNCHANGED vars

CallStep(t) ==
  \/ Enqueue(t) \/ EnqueueRange(t)
  \/ \E op \in WaitCall : WaitIdle(t, op)

ReturnStep(t) ==
  \/ NotifyOne(t) \/ NotifyAll(t)
  \/ WaitIdleBlock(t) \/ WaitIdleReturn(t) \/ WaitIdleTimeout(t)

DestroyStep(c) == DestroyNotify(c) \/ DestroyJoin(c)

WorkerStep(w) ==
  \/ WorkerBlock(w) \/ WorkerExit(w) \/ WorkerTake(w)
  \/ BodyReturns(w) \/ FinishTask(w) \/ NotifyIdle(w) \/ ReleaseTask(w)

Next ==
  \/ \E t \in Threads : CallStep(t) \/ ReturnStep(t)
  \/ \E c \in Clients : Destroy(c) \/ DestroyStep(c)
  \/ \E w \in Workers : WorkerStep(w)
  \/ SpuriousWake
  \/ Terminated

(* Threads that can move do move.  A task body returns after finitely many *)
(* operations on the pool (strong fairness: each operation it is in the    *)
(* middle of disables its return).  Nobody is obliged to start an          *)
(* operation or to destroy the pool.                                       *)
Fairness ==
  /\ \A t \in Threads : WF_vars(ReturnStep(t))
  /\ \A c \in Clients : WF_vars(DestroyStep(c))
  /\ \A w \in Workers : WF_vars(WorkerStep(w)) /\ SF_vars(BodyReturns(w))

Spec == Init /\ [][Next]_vars
FairSpec == Spec /\ Fairness

-----------------------------------------------------------------------------
(* Properties.                                                             *)

TypeOK ==
  /\ tasks_ \in Seq(Nat \ {0})
  /\ active_tasks_ \in Nat
  /\ stop_ \in BOOLEAN
  /\ cv_ \subseteq Workers
  /\ idle_cv_ \subseteq Threads
  /\ worker \in [Workers -> WorkerState]
  /\ task \in [Workers -> Nat]
  /\ call \in [Threads -> CallState]
  /\ answer \in [Threads -> Answer]
  /\ submitted \in Nat
  /\ done \subseteq Nat
  /\ before \in [Threads -> Nat]
  /\ unsignalled \in Nat

Active == {w \in Workers : worker[w] \in {"running", "finishing"}}
InBody == {w \in Workers : worker[w] = "running"}
Started == submitted - Len(tasks_)

(* FIFO: the queue holds exactly the accepted tasks from some point on, in *)
(* the order of acceptance (tasks_.front() and pop against emplace).       *)
StartsInOrder ==
  /\ Len(tasks_) <= submitted
  /\ tasks_ = [i \in 1 .. Len(tasks_) |-> Started + i]

(* Every task that left the queue is in exactly one place: in the hands of *)
(* one worker, its body not returned yet, or done.  No task is lost or run *)
(* twice by the worker loop, in shutdown too.                              *)
EachTaskOnce ==
  /\ \A w \in InBody : task[w] \in 1 .. Started /\ task[w] \notin done
  /\ \A v, w \in InBody : task[v] = task[w] => v = w
  /\ done \subseteq 1 .. Started
  /\ \A k \in 1 .. Started : k \in done \/ \E w \in InBody : task[w] = k

(* snapshot().outstanding_tasks(), the count behind idle(), never misses   *)
(* an accepted task whose body has not returned, whatever the workers are  *)
(* in the middle of.                                                       *)
Outstanding == Len(tasks_) + active_tasks_
OutstandingCoversUnfinished ==
  Outstanding >= Cardinality((1 .. submitted) \ done)

(* What becomes of accepted tasks: their order, their one run, their       *)
(* count.                                                                  *)
TasksAccountedFor ==
  /\ StartsInOrder
  /\ EachTaskOnce
  /\ OutstandingCoversUnfinished

(* Awake workers that are going to look at the queue, and notify_one calls *)
(* that are still to be made.                                              *)
Looking == {w \in Workers : worker[w] = "waiting" /\ w \notin cv_}
Signalling == {t \in Threads : call[t] = "notify_one"}

(* No worker sleeps next to a task it could run: if some worker is asleep, *)
(* then for every queued task a worker is on its way to the queue or a     *)
(* notification is on its way to a worker (the notifications after the     *)
(* unlock in post, enqueue, enqueue_range and the destructor).  The only   *)
(* tasks this does not cover are those an enqueue_range pushed before it   *)
(* threw.                                                                  *)
NoSleepingOnWork ==
  \/ cv_ = {}
  \/ \E t \in Threads : call[t] \in {"notify_all", "dtor_notify"}
  \/ Len(tasks_) <= Cardinality(Looking) + Cardinality(Signalling) + unsignalled

(* A thread asleep in wait_idle while the pool is idle has a notify_all on *)
(* its way (finish_task decides under the mutex and notifies after it).    *)
NoSleepingOnIdle ==
  Idle /\ idle_cv_ # {} => \E w \in Workers : worker[w] = "notifying"

(* A wait that reports an idle pool has seen every task accepted before it *)
(* began return, whichever threads accepted more meanwhile.                *)
IdleAnswerCovers ==
  \A t \in Threads : answer[t] = "idle" => 1 .. before[t] \subseteq done

(* When the destructor returns, every accepted task has run, no callable   *)
(* is left alive, and no thread is inside the pool or asleep on it.        *)
DestroyedIsQuiet ==
  Destroyed =>
    /\ done = 1 .. submitted
    /\ \A w \in Workers : worker[w] = "exited" /\ task[w] = 0
    /\ \A t \in Threads : call[t] \in {"none", "destroyed"}
    /\ idle_cv_ = {}

(* Liveness, as long as no enqueue_range throws after it has pushed a      *)
(* task: an idle wait eventually returns.                                  *)
AllSignalled == [](unsignalled = 0)
IdleWaitReturns ==
  AllSignalled => \A t \in Threads : call[t] \in WaitCall ~> call[t] = "none"

(* Liveness: the destructor returns, having run what was queued, also what *)
(* a throwing enqueue_range left unannounced.                              *)
DestructorReturns == stop_ ~> Destroyed /\ done = 1 .. submitted

(* Whoever waits for the pool is let go.  (That tasks return is among the  *)
(* promises of TaskPool, below.)                                           *)
WaitsReturn == IdleWaitReturns /\ DestructorReturns

-----------------------------------------------------------------------------
(* The pool implements TaskPool: a task is running while a worker is in    *)
(* its body.                                                               *)
Pool == INSTANCE TaskPool WITH
  Runners  <- WorkerCount,
  Users    <- Threads,
  accepted <- submitted,
  running  <- {task[w] : w \in InBody},
  told     <- {t \in Threads : answer[t] = "idle"},
  closed   <- stop_,
  gone     <- Destroyed

(* The order, once-only, idleness and shutdown promises of TaskPool ...    *)
ImplementsTaskPool == Pool!SafeSpec

(* ... and its progress promises, as long as no enqueue_range throws after *)
(* it has pushed a task (the notifications of post, enqueue and            *)
(* enqueue_range, the worker loop).                                        *)
KeepsTaskPoolMoving == AllSignalled => Pool!Progress

-----------------------------------------------------------------------------
(* The inductive invariant behind the theorems about this module.          *)

(* Which fields of a thread's bookkeeping go together.                     *)
Bookkeeping ==
  /\ \A w \in cv_ : worker[w] = "waiting"
  /\ \A t \in idle_cv_ : call[t] \in WaitCall
  /\ \A w \in Workers : call[w] # "none" => worker[w] = "running"
  /\ \A w \in Workers : call[w] \in {"none", "notify_one", "notify_all"}
  /\ \A w \in Workers :
       worker[w] \in {"waiting", "exited"} <=> task[w] = 0

(* active_tasks_ counts the workers between the pop and finish_task.       *)
ActiveCount == active_tasks_ = Cardinality(Active)

(* A worker leaves only in shutdown, and leaves an empty queue behind.     *)
ExitsEmpty == \A w \in Workers : worker[w] = "exited" => stop_ /\ tasks_ = <<>>

(* Destruction is one thread's, and it excludes the clients' operations.   *)
Destroying == {"dtor_notify", "dtor_join", "destroyed"}
DestroyAlone ==
  /\ \A c \in Clients : call[c] \in Destroying => stop_
  /\ \A c \in Clients : stop_ => call[c] \in Destroying \cup {"none"}
  /\ \A c, d \in Clients :
       call[c] \in Destroying /\ call[d] \in Destroying => c = d
  /\ \A c \in Clients :
       call[c] = "destroyed" => \A w \in Workers : worker[w] = "exited"

IInv ==
  /\ TypeOK
  /\ Bookkeeping
  /\ ActiveCount
  /\ ExitsEmpty
  /\ DestroyAlone
  /\ StartsInOrder
  /\ EachTaskOnce
  /\ IdleAnswerCovers
  /\ \A t \in Threads : before[t] <= submitted
=============================================================================
