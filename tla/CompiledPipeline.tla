-------------------------- MODULE CompiledPipeline --------------------------
(***************************************************************************)
(* From a typed pipeline to an engine and its answers: compile, which      *)
(* picks wrappers by the policy markers (include/pb/runtime/sequential.hpp *)
(* and thread_pool_backend.hpp), the wrappers (error_policy.hpp), put on   *)
(* by compile or by hand in any order, and calls of the stack they make.   *)
(*                                                                         *)
(* What happens inside a node is in SequentialPipeline and ParallelFanIn;  *)
(* here a node succeeds, fails or throws.  A run also leaves its track in  *)
(* the graph that PipelineExports draws of the pipeline.                   *)
(***************************************************************************)
EXTENDS PipelineBuilder, PipelineExports

CONSTANTS
  None,        \* no observer, no sink
  Observers,   \* the observers users attach
  MaxMarked,   \* bound: nodes of a pipeline with markers or wrappers
  MaxLayers,   \* bound: wrappers of an engine
  MaxBatch     \* bound: the inputs of a batch

ErrorMarkers == {"throwing", "terminating", "ignoring", "propagating", "result"}
Wrappers == {"throwing", "terminating", "ignoring", "propagating", "verbose"}

(* The observer a verbose wrapper owns.                                    *)
Verbose == "verbose"

VARIABLES
  backend,    \* what the pipeline is compiled for; None before that
  raw,        \* does no stage return a result?
  layers,     \* the wrappers, innermost first
  observer,   \* observer_ of the engine
  under,      \* history: has anyone gone through verbose_engine::underlying()?
  frames,     \* the functions of the stack in progress: [layer, op]
  left,       \* the inputs a batch has left
  results,    \* the results it has
  at,         \* the node the engine runs next; 0 when it is not running
  exits,      \* where the track of the run goes on from
  track,      \* history: the edges the run has followed
  sink,       \* the observer the run was given
  told,       \* history: the observers told of the run, and what was attached
  outcome,    \* what the last function to return gave
  engineSaid, \* history: the outcome of the engine itself
  saidOf      \* history: its outcome for each input of the call

engineVars == <<backend, raw, layers, observer, under>>
callVars == <<frames, left, results, at, exits, track, sink, told, outcome,
              engineSaid, saidOf>>
vars == <<builderVars, engineVars, callVars>>

NoOutcome == [is |-> "none", category |-> "none"]
Value == [is |-> "value", category |-> "none"]
Fallback == [is |-> "fallback", category |-> "none"]
Results == [is |-> "results", category |-> "none"]
Terminated == [is |-> "terminated", category |-> "none"]
Error(c) == [is |-> "error", category |-> c]

(* An exception: pipeline_exception with its category, a stage's own (when *)
(* run catches none), or one of an observer's callback in a handler.       *)
Thrown(what) == [is |-> "thrown", category |-> what]

Categories == {"stage_failure", "exception", "contract_violation"}

IdleCall ==
  /\ frames = <<>> /\ left = 0 /\ results = <<>> /\ at = 0
  /\ exits = {} /\ track = {} /\ sink = None
  /\ told = [before |-> None, during |-> {}]
  /\ outcome = NoOutcome /\ engineSaid = NoOutcome /\ saidOf = <<>>

Init ==
  /\ BuilderInit
  /\ backend = None
  /\ raw = FALSE
  /\ layers = <<>>
  /\ observer = None
  /\ under = FALSE
  /\ IdleCall

Compiled == backend # None

(* Bound: the pipelines whose markers, wrappers, observers and calls are   *)
(* varied; of the others one unmarked engine is made, and try_run called.  *)
Small == Len(nodes) <= MaxMarked /\ \A i \in DOMAIN nodes : nodes[i].kind = "stage"
Idle == Compiled /\ frames = <<>>

Build ==
  /\ BuilderNext
  /\ policies' # <<>> => Small'
  /\ UNCHANGED <<engineVars, callVars>>

-----------------------------------------------------------------------------
(* first_policy_matching: the first marker of an axis, None if there is    *)
(* none.                                                                   *)
FirstPolicy(ms, axis) ==
  LET i == SelectInSeq(ms, LAMBDA m : m.axis = axis)
  IN  IF i = 0 THEN None ELSE ms[i].name

(* apply_error_policy: propagating and result leave the engine as it is.   *)
ErrorLayer(ms) ==
  LET marker == FirstPolicy(ms, "errors")
  IN  IF marker \in {"throwing", "terminating", "ignoring"} THEN <<marker>> ELSE <<>>

(* apply_diagnostics_policy: around that.                                  *)
DiagnosticsLayer(ms) ==
  IF FirstPolicy(ms, "diagnostics") = "verbose" THEN <<"verbose">> ELSE <<>>

CompiledLayers(ms) == ErrorLayer(ms) \o DiagnosticsLayer(ms)

(* verbose_engine's constructor attaches the observer it owns.             *)
Attached(ls) == IF Verbose \in Range(ls) THEN Verbose ELSE observer

(* Only sequential looks at the markers.  A branch returns a result.       *)
Compile(b, r) ==
  /\ finished /\ ~Compiled
  /\ b = "thread_pool" => ~r
  /\ r => \A i \in DOMAIN nodes : nodes[i].kind = "stage"
  /\ backend' = b
  /\ raw' = r
  /\ layers' = IF b = "sequential" THEN CompiledLayers(policies) ELSE <<>>
  /\ observer' = Attached(layers')
  /\ UNCHANGED <<builderVars, under, callVars>>

(* with_throw_on_error and the like take the engine by value and move it,  *)
(* which a verbose_engine does not allow.                                  *)
Wrap(wrapper) ==
  /\ Idle
  /\ Len(layers) < MaxLayers /\ Small /\ policies = <<>>
  /\ Verbose \notin Range(layers)
  /\ layers' = Append(layers, wrapper)
  /\ observer' = Attached(layers')
  /\ UNCHANGED <<builderVars, backend, raw, under, callVars>>

(* set_observer, between calls or by a stage; on a verbose wrapper only    *)
(* through underlying().                                                   *)
SetObserver(o) ==
  /\ Compiled /\ Small
  /\ frames # <<>> => at # 0
  /\ observer # o
  /\ observer' = o
  /\ under' = (under \/ Verbose \in Range(layers))
  /\ UNCHANGED <<builderVars, backend, raw, layers, callVars>>

-----------------------------------------------------------------------------
(* A call of the outermost wrapper, or of the bare engine.  The thread     *)
(* pool's engine has no batches.                                           *)
Call(op, n) ==
  /\ Idle
  /\ op = "each" => backend = "sequential"
  /\ ~Small => op = "try_run"
  /\ frames' = <<[level |-> Len(layers), op |-> op]>>
  /\ left' = n
  /\ results' = <<>>
  /\ outcome' = NoOutcome
  /\ engineSaid' = NoOutcome
  /\ saidOf' = [i \in 1 .. n |-> NoOutcome]
  /\ UNCHANGED <<builderVars, engineVars, at, exits, track, sink, told>>

Frame == Last(frames)

(* Mutant: the error policies wrap what the inner policy makes of a run.   *)
ForwardedAsIs(layer, op) == op

(* What a wrapper calls on the engine it wraps.                            *)
Forwarded(layer, op) == IF op = "run" /\ layer # "verbose" THEN "try_run" ELSE op

Descend ==
  /\ frames # <<>> /\ Frame.level > 0 /\ outcome = NoOutcome
  /\ frames' = Append(frames, [level |-> Frame.level - 1,
                               op |-> Forwarded(layers[Frame.level], Frame.op)])
  /\ UNCHANGED <<builderVars, engineVars, left, results, at, exits, track, sink, told, outcome, engineSaid, saidOf>>

AtEngine == frames # <<>> /\ Frame.level = 0 /\ outcome = NoOutcome

(* The engine begins a run, with the observer attached now.                *)
BeginRun ==
  /\ AtEngine /\ at = 0
  /\ Frame.op = "each" => left > 0
  /\ at' = 1
  /\ exits' = {FromInput}
  /\ track' = {}
  /\ sink' = observer
  /\ told' = [before |-> observer, during |-> {}]
  /\ UNCHANGED <<builderVars, engineVars, frames, left, results, outcome, engineSaid, saidOf>>

Running == AtEngine /\ at # 0
Node == nodes[at]
Graph == Descriptor(nodes)
Entry == IF Branches(Node) THEN BranchNode(at - 1) ELSE StageNode(at - 1)
(* Mutant: stages are reported to whoever is attached then.                *)
TellAttached == told' = [told EXCEPT !.during = @ \union {observer}]

Tell == told' = [told EXCEPT !.during = @ \union {sink}]

(* A node succeeds: the track enters it and leaves it by out.              *)
Pass(inside, out) ==
  /\ at' = at + 1
  /\ track' = track \union (exits \X {Entry}) \union inside
  /\ exits' = out
  /\ Tell
  /\ UNCHANGED <<builderVars, engineVars, frames, left, results, sink, outcome, engineSaid, saidOf>>

RunStage ==
  /\ Running /\ at <= Len(nodes) /\ Node.kind = "stage"
  /\ Pass({}, {Entry})

Tested(cs) == {<<Entry, PredNode(at - 1, j - 1)>> : j \in cs}
Taken(cs) == {<<PredNode(at - 1, j - 1), CaseNode(at - 1, j - 1)>> : j \in cs}

(* The predicates up to the first that says yes, and its case.             *)
RunBranch(j) ==
  /\ Running /\ at <= Len(nodes) /\ Node.kind = "branch"
  /\ Pass(Tested(1 .. j) \union Taken({j}), {CaseNode(at - 1, j - 1)})

(* Every predicate, and the cases of those that say yes; a case that fails *)
(* does not fail the branch.                                               *)
RunFanIn(cs) ==
  /\ Running /\ at <= Len(nodes) /\ Node.kind = "fan_in"
  /\ Pass(Tested(1 .. Len(Node.cases)) \union Taken(cs),
          {CaseNode(at - 1, j - 1) : j \in cs})

(* Mutant: a batch has no result for an input that failed.                 *)
CollectValues(o) ==
  /\ results' = IF o.is = "value" THEN Append(results, o) ELSE results
  /\ left' = left - 1

(* The loop of try_run_each: the result of one input, and on to the next.  *)
Collect(o) == results' = Append(results, o) /\ left' = left - 1

(* One run of the engine ends.  In a batch it is one result.               *)
EndRun(o) ==
  /\ at' = 0
  /\ engineSaid' = o
  /\ saidOf' = [saidOf EXCEPT ![Len(saidOf) - left + 1] = o]
  /\ IF Frame.op = "each" /\ o.is # "thrown"
     THEN Collect(o) /\ UNCHANGED outcome
     ELSE outcome' = o /\ UNCHANGED <<results, left>>
  /\ UNCHANGED <<builderVars, engineVars, frames, exits, track, sink, told>>

Finish ==
  /\ Running /\ at = Len(nodes) + 1
  /\ EndRun(Value)

(* A node's error: one that it returns has the category it likes, except   *)
(* that no raw stage returns one.  try_run, and run if some stage returns  *)
(* a result, turn an exception into an error.                              *)
Fail(category) ==
  /\ Running /\ at <= Len(nodes)
  /\ Branches(Node) \/ ~raw \/ category = "exception"
  /\ EndRun(IF raw /\ Frame.op = "run" THEN Thrown("stage") ELSE Error(category))

(* A handler's callback throws, or the copy of an input of a batch.        *)
Escape ==
  /\ Running /\ at <= Len(nodes)
  /\ EndRun(Thrown("observer"))

BatchDone ==
  /\ AtEngine /\ at = 0 /\ Frame.op = "each" /\ left = 0
  /\ outcome' = Results
  /\ UNCHANGED <<builderVars, engineVars, frames, left, results, at, exits, track, sink, told, engineSaid, saidOf>>

(* What the run of a wrapper makes of the result it got from try_run.      *)
Throws(o) == IF o.is = "error" THEN Thrown(o.category) ELSE o
Terminates(o) == IF o.is = "error" THEN Terminated ELSE o
Ignores(o) == IF o.is = "error" THEN Fallback ELSE o
Propagates(o) == IF o = Error("exception") THEN Thrown(o.category) ELSE o

Made(layer, op, o) ==
  IF op # "run" THEN o
  ELSE CASE layer = "verbose" -> o
         [] layer = "throwing" -> Throws(o)
         [] layer = "terminating" -> Terminates(o)
         [] layer = "ignoring" -> Ignores(o)
         [] layer = "propagating" -> Propagates(o)

Returning == frames # <<>> /\ outcome # NoOutcome /\ outcome # Terminated

Return ==
  LET caller == frames[Len(frames) - 1]
  IN
  /\ Returning /\ Len(frames) > 1
  /\ frames' = Front(frames)
  /\ outcome' = Made(layers[caller.level], caller.op, outcome)
  /\ UNCHANGED <<builderVars, engineVars, left, results, at, exits, track, sink, told, engineSaid, saidOf>>

(* The outermost function returns to the user.                             *)
Answer ==
  /\ Returning /\ Len(frames) = 1
  /\ frames' = <<>> /\ left' = 0 /\ results' = <<>> /\ at' = 0
  /\ exits' = {} /\ track' = {} /\ sink' = None
  /\ told' = [before |-> None, during |-> {}]
  /\ outcome' = NoOutcome /\ engineSaid' = NoOutcome /\ saidOf' = <<>>
  /\ UNCHANGED <<builderVars, engineVars>>

Run ==
  \/ Descend
  \/ BeginRun
  \/ RunStage
  \/ \E j \in 1 .. MaxCases : Running /\ at <= Len(nodes) /\ j <= CaseCount(Node) /\ RunBranch(j)
  \/ \E cs \in SUBSET (1 .. MaxCases) :
       Running /\ at <= Len(nodes) /\ (\A j \in cs : j <= CaseCount(Node)) /\ RunFanIn(cs)
  \/ Finish
  \/ \E c \in Categories : Fail(c)
  \/ Escape
  \/ BatchDone
  \/ Return
  \/ Answer

Next ==
  \/ Build
  \/ \E b \in {"sequential", "thread_pool"}, r \in BOOLEAN : Compile(b, r)
  \/ \E w \in Wrappers : Wrap(w)
  \/ \E o \in Observers \union {None} : SetObserver(o)
  \/ \E op \in {"run", "try_run"} : Call(op, 1)
  \/ \E n \in 0 .. MaxBatch : Call("each", n)
  \/ Run

Spec == Init /\ [][Next]_vars

-----------------------------------------------------------------------------
(***************************************************************************)
(* How the engine calls what the builder accepted (invoke_stage,           *)
(* invoke_type_list_join_stage, run_selected_branch, run_fan_in_case_stage)*)
(***************************************************************************)
Arrives(i) == IF i = 1 THEN input ELSE nodes[i - 1].out

Callable(n, t) ==
  CASE n.kind = "branch" -> \A k \in DOMAIN n.cases :
         n.cases[k].asks = t /\ n.cases[k].in = t /\ (n.cases[k].peeks \/ t.copies)
    [] n.kind = "fan_in" -> \A k \in DOMAIN n.cases :
         /\ n.cases[k].asks = t /\ n.cases[k].in = t
         /\ n.cases[k].peeks /\ (n.cases[k].borrows \/ t.copies)
    [] n.kind = "stage" /\ n.in.is = "type_list" /\ t.is = "variant" -> Range(t.of) \subseteq n.takes
    [] OTHER -> t \in n.takes

(* A type-list join after a branch whose cases all return one and the same *)
(* std::variant: the builder asks whether the stage takes the variant, the *)
(* engine visits it.                                                       *)
UniformVariantJoin(i) ==
  /\ i > 1 /\ nodes[i].in.is = "type_list"
  /\ nodes[i - 1].kind = "branch" /\ nodes[i - 1].out.is = "variant"
  /\ Range(CaseOutputs(nodes[i - 1].cases)) = {nodes[i - 1].out}

(* A pipeline that the builder accepts, with branches of different         *)
(* outputs, type-list joins, fan-in aggregates and move-only inputs, is    *)
(* one whose engine compiles: every stage is called with what it takes.    *)
AcceptedPipelinesCompile ==
  Building => \A i \in DOMAIN nodes :
    Callable(nodes[i], Arrives(i)) \/ UniformVariantJoin(i)

(* "At most one marker per axis ... instead of silently letting the first  *)
(* marker win" (pipeline_state::with): in whatever order and with whatever *)
(* calls the markers came, the wrappers are the same.                      *)
MarkersCommute ==
  Building => \A p \in [DOMAIN policies -> DOMAIN policies] :
    Cardinality(Range(p)) = Len(policies) =>
      CompiledLayers([i \in DOMAIN policies |-> policies[p[i]]]) = CompiledLayers(policies)

(* The four exporters draw one graph: the DOT graph, its branches taken    *)
(* as one node each, has the edges that JSON, text and the plain DOT       *)
(* export list, and each branch has its own cases everywhere.              *)
ExportsAgree ==
  Building =>
    /\ StageEdges(Graph) = ListedEdges(Graph)
    /\ ListedEdges(Graph) = PlainDotEdges(nodes)
    /\ HasBranch(Graph) <=> Graph.topology # "linear"
    /\ \A i \in DOMAIN nodes :
         /\ ListedCases(Graph, i - 1) = {j - 1 : j \in DOMAIN nodes[i].cases}
         /\ HasBranch(Graph) => DotCases(Graph, i - 1) = ListedCases(Graph, i - 1)

(* What a run does can be followed in the exported graph: from the input   *)
(* through the predicates it tests and the cases it takes to the output.   *)
TrackFollowsGraph ==
  at # 0 =>
    LET walked == track \union (IF at = Len(nodes) + 1 THEN exits \X {ToOutput} ELSE {})
    IN  {e \in walked : HasBranch(Graph) \/ Inner(e)} \subseteq DotEdges(Graph)

(* The outermost error policy, if there is one.                            *)
Outermost ==
  LET i == SelectLastInSeq(layers, LAMBDA l : l # "verbose")
  IN  IF i = 0 THEN "none" ELSE layers[i]

(* Whatever is stacked on whatever, run does what the outermost error      *)
(* policy says and inner ones nothing, an exception of a stage reaches no  *)
(* caller as it is once there is a policy, and try_run and batches give    *)
(* the engine's own results.                                               *)
OutermostPolicyDecides ==
  LET op == frames[1].op
      said == engineSaid
  IN
  frames # <<>> /\ outcome # NoOutcome /\ (Len(frames) = 1 \/ outcome = Terminated) =>
    /\ op = "run" /\ said.is = "error" =>
         outcome = CASE Outermost = "throwing" -> Thrown(said.category)
                     [] Outermost = "terminating" -> Terminated
                     [] Outermost = "ignoring" -> Fallback
                     [] Outermost = "propagating" /\ said.category = "exception" -> Thrown("exception")
                     [] OTHER -> said
    /\ op = "run" /\ said.is # "error" => outcome = said
    /\ op = "try_run" => outcome = said
    /\ op = "each" => \/ outcome = Results /\ left = 0
                      \/ outcome = said /\ said = Thrown("observer")
    /\ op # "run" \/ Outermost # "none" => said # Thrown("stage")
    /\ \A i \in DOMAIN results : results[i].is \in {"value", "error"}

(* A batch has one result for each of its inputs, in their order, each     *)
(* what the engine made of that input and no wrapper has changed, also     *)
(* when others failed; or an exception ends it, of the first input that    *)
(* throws, and the inputs behind that one are not run (try_run_each).      *)
BatchAnswersEachInput ==
  frames # <<>> /\ frames[1].op = "each" /\ outcome # NoOutcome =>
    LET done == Len(results)
    IN  /\ \A i \in 1 .. done : results[i] = saidOf[i]
        /\ IF outcome = Results
           THEN done = Len(saidOf)
           ELSE /\ done < Len(saidOf) /\ saidOf[done + 1] = outcome
                /\ \A i \in done + 2 .. Len(saidOf) : saidOf[i] = NoOutcome

(* What a caller gets, of run, try_run and the batches, through any stack  *)
(* of wrappers.                                                            *)
CallersAreAnswered == OutermostPolicyDecides /\ BatchAnswersEachInput

(* A run tells one observer of all it does, the one attached when it       *)
(* began, even if stages attach others; with a verbose wrapper it is the   *)
(* wrapper's, unless someone went through underlying().                    *)
OneObserverPerRun ==
  at # 0 =>
    /\ told.during \subseteq {told.before}
    /\ "verbose" \in Range(layers) /\ ~under => told.before = Verbose
=============================================================================
