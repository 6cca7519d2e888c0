---------------------------- MODULE StateContext ----------------------------
(***************************************************************************)
(* The stateful storage DSL of include/pb/runtime/state.hpp for one type   *)
(* of state: engines wrapped by stateful_engine under its five storage     *)
(* policies, the per-thread stack of active states, and the RAII frames    *)
(* (state_context) that push and pop it.                                   *)
(*                                                                         *)
(* Stages may run engines themselves, so a thread's calls nest; a frame    *)
(* that is not a local variable (a member, a coroutine's local) may go     *)
(* away in any order.  An engine in Parallel is over a thread pool, which  *)
(* runs the stages of a fan-in's cases on other threads.                   *)
(*                                                                         *)
(* A state in an engine is the number of times stages have written to it   *)
(* since it was made or assigned; what is in callers' and shared states is *)
(* left out.  States synchronize their own members, as state.hpp asks.     *)
(***************************************************************************)
EXTENDS Naturals, Sequences, FiniteSets, SequencesExt

CONSTANTS
  Threads,   \* the values of std::thread::id
  Engines,   \* the wrapped engines
  Storages,  \* the assignments of policies to engines to look at
  Parallel,  \* the engines that run case stages on other threads
  Lent,      \* states of callers: arguments of run_with_state, explicit frames
  Heap,      \* states made by make_shared
  None,      \* no state, no engine, no thread
  MaxCalls,  \* bound: calls and frames in progress when another begins
  MaxHits,   \* bound: writes to a state
  MaxBatch   \* the inputs of a batch

Policies == {"owned", "reset_per_run", "thread_local_owned", "shared", "borrowed"}

(* The objects stateful_storage holds: value_, a slot of the table.        *)
Value(e) == <<"value", e>>
(* Mutant: one slot for all threads.                                       *)
OneSlot(e, t) == <<"slot", e, "all">>

Slot(e, t) == <<"slot", e, t>>

Values == {Value(e) : e \in Engines}
Slots == {Slot(e, t) : e \in Engines, t \in Threads}
Objects == Values \union Slots \union Lent \union Heap

ASSUME StateAssumption ==
  /\ Storages \subseteq [Engines -> Policies]
  /\ Parallel \subseteq Engines
  /\ MaxBatch \in Nat
  /\ None \notin Threads \union Engines \union Objects
  /\ Lent \intersect Heap = {}
  /\ (Lent \union Heap) \intersect (Values \union Slots) = {}

VARIABLES
  storage,  \* each engine's policy, which is part of its type
  stack,    \* the vector of state_stack::storage, per thread
  calls,    \* the calls and frames of each thread, innermost last
  hits,     \* the contents of the states engines hold
  slots,    \* the slots thread_local_owned engines have made
  heap,     \* the pointer in the storage of each shared engine
  held,     \* the shared_ptrs callers hold
  ordered   \* history: have the thread's frames ended innermost first?

vars == <<storage, stack, calls, hits, slots, heap, held, ordered>>

(* A call in progress.  obj is the state of its frame, left the inputs a   *)
(* batch has left, caller the thread whose fan-in a case belongs to.  Of a *)
(* run with an engine's value_, alone is whether nothing else has used the *)
(* value since it began, and writes what it has written meanwhile; of one  *)
(* with a shared state, kept is whether set_shared_state has not replaced  *)
(* it.                                                                     *)
Call(kind, e, o) ==
  [kind |-> kind, engine |-> e, obj |-> o, left |-> 0, caller |-> None,
   writes |-> 0, alone |-> TRUE, kept |-> TRUE]

Kinds == {"run", "frame", "batch", "case"}
Framed(c) == c.kind \in {"run", "frame"}

(* The places of a thread's live frames, in the order they were made.      *)
Frames(t) == {i \in DOMAIN calls[t] : Framed(calls[t][i])}

(* The innermost call, as opposed to an explicit frame a stage has made,   *)
(* and the call that call i was made by.                                   *)
IsCall(c) == c.kind # "frame"
InCall(t) == SelectLastInSeq(calls[t], IsCall)
Below(t, i) == SelectLastInSubSeq(calls[t], 1, i - 1, IsCall)

Room == FoldFunction(LAMBDA cs, n : Len(cs) + n, 0, calls) < MaxCalls

InKind(t) == IF InCall(t) = 0 THEN "none" ELSE calls[t][InCall(t)].kind

(* Is the thread executing a stage, or none of the library's code?         *)
InUserCode(t) ==
  /\ InKind(t) # "batch"
  /\ \A u \in Threads : \A i \in DOMAIN calls[u] : calls[u][i].caller # t

Init ==
  /\ storage \in Storages
  /\ stack = [t \in Threads |-> <<>>]
  /\ calls = [t \in Threads |-> <<>>]
  /\ hits = [o \in Values \union Slots |-> 0]
  /\ slots = {}
  /\ heap \in [{e \in Engines : storage[e] = "shared"} -> Heap]
  /\ held = Heap
  /\ ordered = [t \in Threads |-> TRUE]

Top(t) == IF stack[t] = <<>> THEN None ELSE Last(stack[t])

(* Mutant: the search begins at the bottom.                                *)
PoppedFirst(s, o) ==
  LET i == SelectInSeq(s, LAMBDA x : x = o)
  IN  IF i = 0 THEN s ELSE RemoveAt(s, i)

(* The last entry that is o goes: the top if that is o.                    *)
Popped(s, o) ==
  LET i == SelectLastInSeq(s, LAMBDA x : x = o)
  IN  IF i = 0 THEN s ELSE RemoveAt(s, i)

(* Mutant: storages do not own the states they point to.                   *)
AliveByCaller(o) == o \in Heap => o \in held

(* The shared_ptrs in storages and callers' hands keep a state alive; the  *)
(* pointers on the stacks do not.                                          *)
Alive(o) == o \in Heap => o \in held \/ \E e \in DOMAIN heap : heap[e] = o

Active(e, t) ==
  CASE storage[e] \in {"owned", "reset_per_run"} -> Value(e)
    [] storage[e] = "thread_local_owned" -> Slot(e, t)
    [] storage[e] = "shared" -> heap[e]

(* The calls cs once something else uses o: none is alone with it.         *)
Crowd(cs, o) ==
  [u \in Threads |-> [i \in DOMAIN cs[u] |->
     IF o \in Values /\ cs[u][i].obj = o
     THEN [cs[u][i] EXCEPT !.alone = FALSE, !.writes = 0]
     ELSE cs[u][i]]]

Alone(o) ==
  \A u \in Threads : \A i \in DOMAIN calls[u] :
    o \in Values => calls[u][i].obj # o

(* A frame's constructor.                                                  *)
Enter(t, kind, e, o) ==
  /\ calls' = [Crowd(calls, o) EXCEPT
       ![t] = Append(@, [Call(kind, e, o) EXCEPT !.alone = Alone(o)])]
  /\ stack' = [stack EXCEPT ![t] = Append(@, o)]

(* reset_before_run, then the frame of the storage's active state.         *)
RunOwn(t, e) ==
  /\ storage[e] # "borrowed"
  /\ Enter(t, "run", e, Active(e, t))
  /\ hits' = IF storage[e] = "reset_per_run"
             THEN [hits EXCEPT ![Value(e)] = 0] ELSE hits
  /\ slots' = IF storage[e] = "thread_local_owned"
              THEN slots \union {<<e, t>>} ELSE slots
  /\ UNCHANGED <<storage, heap, held, ordered>>

RunLent(t, e, o) ==
  /\ Enter(t, "run", e, o)
  /\ UNCHANGED <<storage, hits, slots, heap, held, ordered>>

(* run, try_run, run_with_state, try_run_with_state.                       *)
Run(t, e) ==
  /\ InUserCode(t) /\ Room
  /\ RunOwn(t, e)

RunWithState(t, e, o) ==
  /\ InUserCode(t) /\ Room
  /\ RunLent(t, e, o)

(* try_run_range, try_run_each and their _with_state forms: o is None or   *)
(* the caller's state.  Every input is a run of its own.                   *)
Batch(t, e, o) ==
  /\ InUserCode(t) /\ Room
  /\ o = None => storage[e] # "borrowed"
  /\ calls' = [calls EXCEPT ![t] = Append(@, [Call("batch", e, o) EXCEPT !.left = MaxBatch])]
  /\ UNCHANGED <<storage, stack, hits, slots, heap, held, ordered>>

(* Mutants: one reset for the whole batch; no look at the storage.         *)
BatchItemKeeps(t) ==
  LET b == calls[t][InCall(t)]
  IN
  /\ InKind(t) = "batch" /\ b.left > 0
  /\ RunLent(t, b.engine, IF b.obj = None THEN Active(b.engine, t) ELSE b.obj)

BatchItemLent(t) ==
  LET b == calls[t][InCall(t)]
  IN
  /\ InKind(t) = "batch" /\ b.left > 0
  /\ RunLent(t, b.engine, b.obj)

BatchItem(t) ==
  LET i == InCall(t)
      b == calls[t][i]
  IN
  /\ InKind(t) = "batch" /\ b.left > 0
  /\ IF b.obj = None THEN RunOwn(t, b.engine) ELSE RunLent(t, b.engine, b.obj)

BatchReturns(t) ==
  LET i == InCall(t)
  IN
  /\ InKind(t) = "batch" /\ calls[t][i].left = 0
  /\ calls' = [calls EXCEPT ![t] = RemoveAt(@, i)]
  /\ UNCHANGED <<storage, stack, hits, slots, heap, held, ordered>>

(* The destructor of the frame that is call i of t.                        *)
Unframe(t, i, rest) ==
  /\ stack' = [stack EXCEPT ![t] = Popped(@, calls[t][i].obj)]
  /\ calls' = [calls EXCEPT ![t] = rest]
  /\ ordered' = [ordered EXCEPT ![t] =
       \/ stack'[t] = <<>>
       \/ @ /\ ~ \E j \in i + 1 .. Len(calls[t]) : Framed(calls[t][j])]

(* A run ends.  If it throws, the batch it is part of ends with it; if it  *)
(* returns, the batch goes on to the next input.                           *)
Leave(t, throws) ==
  LET i == InCall(t)
      b == Below(t, i)
      inBatch == b # 0 /\ calls[t][b].kind = "batch"
      rest == RemoveAt(calls[t], i)
  IN
  /\ InKind(t) = "run" /\ InUserCode(t)
  /\ Unframe(t, i, IF ~inBatch THEN rest
                   ELSE IF throws THEN RemoveAt(rest, b)
                   ELSE [rest EXCEPT ![b].left = @ - 1])
  /\ UNCHANGED <<storage, hits, slots, heap, held>>

(* An explicit state_context.                                              *)
MakeFrame(t, o) ==
  /\ InUserCode(t) /\ Room
  /\ Enter(t, "frame", None, o)
  /\ UNCHANGED <<storage, hits, slots, heap, held, ordered>>

DropFrame(t, i) ==
  /\ InUserCode(t)
  /\ calls[t][i].kind = "frame"
  /\ Unframe(t, i, RemoveAt(calls[t], i))
  /\ UNCHANGED <<storage, hits, slots, heap, held>>

(* The pool hands a case of t's run to an idle thread, or takes it back.   *)
StartCase(t, w) ==
  /\ InKind(t) = "run" /\ calls[t][InCall(t)].engine \in Parallel
  /\ w # t /\ calls[w] = <<>> /\ Room
  /\ calls' = [calls EXCEPT ![w] =
       <<[Call("case", calls[t][InCall(t)].engine, None) EXCEPT !.caller = t]>>]
  /\ UNCHANGED <<storage, stack, hits, slots, heap, held, ordered>>

EndCase(w) ==
  /\ InKind(w) = "case" /\ InUserCode(w)
  /\ calls' = [calls EXCEPT ![w] = RemoveAt(@, InCall(w))]
  /\ UNCHANGED <<storage, stack, hits, slots, heap, held, ordered>>

(* A stage writes to current_state<State>(); with no frame that throws,    *)
(* which is an end of the run or the case like any other.                  *)
Write(t) ==
  LET o == Top(t)
      mine == SelectLastInSeq(calls[t], LAMBDA c : Framed(c) /\ c.obj = o)
  IN
  /\ InKind(t) \in {"run", "case"} /\ InUserCode(t)
  /\ o \in DOMAIN hits /\ hits[o] < MaxHits
  /\ hits' = [hits EXCEPT ![o] = @ + 1]
  /\ calls' = [calls EXCEPT ![t][mine].writes =
       IF o \in Values /\ calls[t][mine].alone THEN @ + 1 ELSE @]
  /\ UNCHANGED <<storage, stack, slots, heap, held, ordered>>

(* set_state; with a default-constructed value it is reset_state.  What a  *)
(* caller writes through state_mut is the same to the runs in progress.    *)
SetState(e, value) ==
  /\ storage[e] \in {"owned", "reset_per_run"}
  /\ hits[Value(e)] # value
  /\ hits' = [hits EXCEPT ![Value(e)] = value]
  /\ calls' = Crowd(calls, Value(e))
  /\ UNCHANGED <<storage, stack, slots, heap, held, ordered>>

(* thread_local_state makes the slot of a thread that has not run yet.     *)
ThreadLocalState(t, e) ==
  /\ InUserCode(t)
  /\ storage[e] = "thread_local_owned"
  /\ <<e, t>> \notin slots
  /\ slots' = slots \union {<<e, t>>}
  /\ UNCHANGED <<storage, stack, calls, hits, heap, held, ordered>>

SetSharedState(e, o) ==
  /\ e \in DOMAIN heap /\ Alive(o) /\ heap[e] # o
  /\ heap' = [heap EXCEPT ![e] = o]
  /\ calls' = [u \in Threads |-> [i \in DOMAIN calls[u] |->
       [calls[u][i] EXCEPT !.kept = @ /\ calls[u][i].obj # heap[e]]]]
  /\ UNCHANGED <<storage, stack, hits, slots, held, ordered>>

(* A caller lets its shared_ptr go.                                        *)
Release(o) ==
  /\ o \in held
  /\ held' = held \ {o}
  /\ UNCHANGED <<storage, stack, calls, hits, slots, heap, ordered>>

Next ==
  \/ \E t \in Threads :
       \/ \E e \in Engines :
            \/ Run(t, e)
            \/ \E o \in Lent : RunWithState(t, e, o)
            \/ \E o \in Lent \union {None} : Batch(t, e, o)
       \/ BatchItem(t)
       \/ BatchReturns(t)
       \/ \E throws \in BOOLEAN : Leave(t, throws)
       \/ \E o \in Lent : MakeFrame(t, o)
       \/ \E i \in DOMAIN calls[t] : DropFrame(t, i)
       \/ \E w \in Threads : StartCase(t, w)
       \/ EndCase(t)
       \/ Write(t)
  \/ \E e \in Engines :
       \/ \E value \in 0 .. MaxHits : SetState(e, value)
       \/ \E t \in Threads : ThreadLocalState(t, e)
       \/ \E o \in Heap : SetSharedState(e, o)
  \/ \E o \in Heap : Release(o)

Spec == Init /\ [][Next]_vars

-----------------------------------------------------------------------------
CallType ==
  [kind : Kinds, engine : Engines \union {None}, obj : Objects \union {None},
   left : 0 .. MaxBatch, caller : Threads \union {None}, writes : Nat,
   alone : BOOLEAN, kept : BOOLEAN]

(* The variables have their types, and a frame its state.                  *)
TypeOK ==
  /\ storage \in Storages
  /\ DOMAIN stack = Threads /\ DOMAIN calls = Threads
  /\ \A t \in Threads :
       /\ \A i \in DOMAIN stack[t] : stack[t][i] \in Objects
       /\ \A i \in DOMAIN calls[t] : calls[t][i] \in CallType
       /\ \A i \in DOMAIN calls[t] : Framed(calls[t][i]) => calls[t][i].obj # None
  /\ hits \in [Values \union Slots -> Nat]
  /\ slots \subseteq Engines \X Threads
  /\ heap \in [{e \in Engines : storage[e] = "shared"} -> Heap]
  /\ held \subseteq Heap
  /\ ordered \in [Threads -> BOOLEAN]

(* state_stack::pop finds its entry by value: in whatever order a thread's *)
(* frames end, each takes one entry, and every entry that is left belongs  *)
(* to a frame that is left.  "The innermost frame wins" (state_context):   *)
(* as long as they end in LIFO order, exceptions, batches, nested runs and *)
(* cases run for other threads included, the entries are in the order of   *)
(* the frames, so current_state is the state of the thread's innermost     *)
(* live frame, and there is none without a frame.                          *)
FramesAreOnTheStack ==
  \A t \in Threads :
    \E frame \in Bijection(DOMAIN stack[t], Frames(t)) :
      /\ \A n \in DOMAIN stack[t] : stack[t][n] = calls[t][frame[n]].obj
      /\ ordered[t] => \A m, n \in DOMAIN stack[t] : m < n => frame[m] < frame[n]

(* reset_per_run is "scratch state that must not leak between calls": a    *)
(* run, on its own or an input of a batch, finds in the engine's state     *)
(* nothing but its own writes, unless another run of the same engine, of   *)
(* another thread or of one of its stages, is in progress with it or       *)
(* set_state is called.                                                    *)
ResetRunsSeeTheirWrites ==
  \A t \in Threads : \A i \in DOMAIN calls[t] :
    LET c == calls[t][i] IN
    c.kind = "run" /\ c.alone /\ c.obj = Value(c.engine)
      /\ storage[c.engine] = "reset_per_run"
    => hits[c.obj] = c.writes

(* thread_local_owned: "no two threads ever touch the same State".  A slot *)
(* is only on the stack of its thread, and has no content before it is     *)
(* made.                                                                   *)
ThreadLocalIsIsolated ==
  \A e \in Engines : storage[e] = "thread_local_owned" =>
    /\ \A t, u \in Threads :
         t # u => ToSet(stack[t]) \intersect ToSet(stack[u])
                    \intersect {Slot(e, v) : v \in Threads} = {}
    /\ \A t \in Threads : <<e, t>> \notin slots => hits[Slot(e, t)] = 0

(* The stack holds raw pointers into shared states.  A run's state stays   *)
(* alive for the run even when the caller lets its own pointer go, unless  *)
(* set_shared_state has replaced it in the middle of the run.              *)
DanglesOnlyWhenReplaced ==
  \A t \in Threads : \A i \in DOMAIN calls[t] :
    calls[t][i].kind = "run" /\ ~Alive(calls[t][i].obj) => ~calls[t][i].kept

(* state.hpp:35-38: the layer "wraps any engine (sequential, thread-pool,  *)
(* even an error-policy stack) and threads a typed state through every     *)
(* stage invocation".  The stack is per thread, so a case stage on a pool  *)
(* worker has none.                                                        *)
EveryStageHasState ==
  \A t \in Threads : InKind(t) \in {"run", "case"} => Top(t) # None
=============================================================================
