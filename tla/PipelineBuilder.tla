--------------------------- MODULE PipelineBuilder ---------------------------
(***************************************************************************)
(* The typed builder of include/pb/core/pipeline_state.hpp:                *)
(*                                                                         *)
(*   pb::from<Input>::with<...>::then<...>::branch<...>::join<...>::to<..> *)
(*                                                                         *)
(* A template instantiation is a step.  A static_assert or a concept that  *)
(* refuses it is a guard: there is no program beyond.                      *)
(***************************************************************************)
EXTENDS Naturals, Sequences, FiniteSets, Functions, SequencesExt

CONSTANTS
  Sources,    \* the types a pipeline may start from
  Outputs,    \* the types stages and cases return
  MaxNodes,   \* bound: nodes of a pipeline
  MaxCases,   \* bound: cases of a branch
  Markers     \* the policy markers given to with<...>

(* pb::meta::type_list is how a join declares what it takes; it is no type *)
(* of a value.                                                             *)
ASSUME TypesAssumption == \A t \in Sources \union Outputs : t.is # "type_list"

(***************************************************************************)
(* Types: plain ones, and those the library builds.  copies is             *)
(* std::copy_constructible.                                                *)
(***************************************************************************)
AllCopy(ts) == \A i \in DOMAIN ts : ts[i].copies

Plain(name, copies) == [is |-> name, of |-> <<>>, copies |-> copies]
Variant(ts) == [is |-> "variant", of |-> ts, copies |-> AllCopy(ts)]
TypeList(ts) == [is |-> "type_list", of |-> ts, copies |-> TRUE]
FanInResults(ts) == [is |-> "fan_in_results", of |-> ts, copies |-> AllCopy(ts)]

(* std::variant if the outputs differ (branch_output_type_or_variant).     *)
Unified(ts) == IF Cardinality(Range(ts)) = 1 THEN Head(ts) ELSE Variant(ts)

(***************************************************************************)
(* What users hand to the builder.  takes are the types a stage's call     *)
(* operator accepts; a case's predicate takes asks, by const reference if  *)
(* peeks, and its stage takes in, by const reference if borrows.           *)
(***************************************************************************)
Stage(in, out, takes) ==
  [kind |-> "stage", in |-> in, out |-> out, takes |-> takes, cases |-> <<>>]

Case(asks, in, out, peeks, borrows) ==
  [asks |-> asks, in |-> in, out |-> out, peeks |-> peeks, borrows |-> borrows]

(* branch_case: the predicate and the stage have one input type.           *)
ValidCase(c) == c.asks = c.in

CaseOutputs(cs) == [i \in DOMAIN cs |-> cs[i].out]

(* The nodes a branch becomes: selected_branch_node, fan_in_branch_node.   *)
SelectedBranch(cs) ==
  [kind |-> "branch", in |-> cs[1].in, out |-> Unified(CaseOutputs(cs)),
   takes |-> {cs[1].in}, cases |-> cs]

FanInBranch(cs) ==
  [kind |-> "fan_in", in |-> cs[1].in, out |-> FanInResults(CaseOutputs(cs)),
   takes |-> {cs[1].in}, cases |-> cs]

Axes == {"errors", "diagnostics", "copying"}

VARIABLES
  input,      \* Input
  current,    \* Current
  nodes,      \* Stages...
  policies,   \* Policies
  finished    \* has ::to made a pipeline of it?

builderVars == <<input, current, nodes, policies, finished>>

BuilderInit ==
  /\ input \in Sources
  /\ current = input
  /\ nodes = <<>>
  /\ policies = <<>>
  /\ finished = FALSE

Building == ~finished
Room == Len(nodes) < MaxNodes

(* append_stage: the stage's input is exactly the current type.  then_all, *)
(* pipe and through append their stages one by one.                        *)
Then(s) ==
  /\ Building /\ Room
  /\ s.in = current
  /\ nodes' = Append(nodes, s)
  /\ current' = s.out
  /\ UNCHANGED <<input, policies, finished>>

(* Mutant: predicates may take a move-only input by value.                 *)
BranchConsumes(cs) ==
  /\ Building /\ Room
  /\ \A i \in DOMAIN cs : ValidCase(cs[i]) /\ cs[i].in = cs[1].in
  /\ cs[1].in = current
  /\ nodes' = Append(nodes, SelectedBranch(cs))
  /\ current' = SelectedBranch(cs).out
  /\ UNCHANGED <<input, policies, finished>>

(* append_branch, branch_outputs, selected_branch_node.                    *)
Branch(cs) ==
  /\ Building /\ Room
  /\ cs # <<>>
  /\ \A i \in DOMAIN cs : ValidCase(cs[i]) /\ cs[i].in = cs[1].in
  /\ cs[1].in = current
  /\ current.copies \/ \A i \in DOMAIN cs : cs[i].peeks
  /\ nodes' = Append(nodes, SelectedBranch(cs))
  /\ current' = SelectedBranch(cs).out
  /\ UNCHANGED <<input, policies, finished>>

AfterBranch == nodes # <<>> /\ Last(nodes).kind = "branch"

(* join_stage_accepts_outputs: the unified output, or the list of the raw  *)
(* ones if the stage can be called with each of them.                      *)
AcceptsOutputs(s, cs) ==
  LET raw == CaseOutputs(cs)
  IN  \/ s.in = Unified(raw)
      \/ s.in = TypeList(raw) /\ Range(raw) \subseteq s.takes

Join(s) ==
  /\ Building /\ Room
  /\ AfterBranch
  /\ AcceptsOutputs(s, Last(nodes).cases)
  /\ nodes' = Append(nodes, s)
  /\ current' = s.out
  /\ UNCHANGED <<input, policies, finished>>

(* append_fan_in: the branch before it becomes a fan-in branch.  join_all  *)
(* is the same.                                                            *)
FanIn(s) ==
  LET cs == Last(nodes).cases
  IN
  /\ Building /\ Room
  /\ AfterBranch
  /\ cs[1].in.copies \/ \A i \in DOMAIN cs : cs[i].borrows
  /\ \A i \in DOMAIN cs : cs[i].peeks
  /\ s.in = FanInBranch(cs).out
  /\ nodes' = Append(ReplaceAt(nodes, Len(nodes), FanInBranch(cs)), s)
  /\ current' = s.out
  /\ UNCHANGED <<input, policies, finished>>

(* Mutant: as many markers of an axis as one likes.                        *)
WithAny(ms) ==
  /\ Building /\ Len(policies) < 2
  /\ policies' = policies \o ms
  /\ UNCHANGED <<input, current, nodes, finished>>

(* append_policies: at most one marker per axis, over all calls of with.   *)
With(ms) ==
  /\ Building
  /\ policies' = policies \o ms
  /\ \A axis \in Axes :
       Cardinality({i \in DOMAIN policies' : policies'[i].axis = axis}) <= 1
  /\ UNCHANGED <<input, current, nodes, finished>>

(* finalize_pipeline: to, as and returns name the current type, done takes *)
(* it as it is.                                                            *)
To(output) ==
  /\ Building
  /\ output = current
  /\ finished' = TRUE
  /\ UNCHANGED <<input, current, nodes, policies>>

(***************************************************************************)
(* Stages and cases worth offering in the present state: every signature,  *)
(* the right and the wrong ones.  A stage's call operator takes its        *)
(* input_type; one that declares a type list takes any types.              *)
(***************************************************************************)
InputsTried ==
  {current} \union Sources \union
  (IF AfterBranch THEN LET raw == CaseOutputs(Last(nodes).cases)
                       IN {TypeList(raw), FanInResults(raw), Variant(raw)}
                  ELSE {})

StagesTried ==
  UNION {{Stage(in, out, takes) : out \in Outputs,
            takes \in IF in.is = "type_list" THEN SUBSET Range(in.of) ELSE {{in}}}
         : in \in InputsTried}

CasesTried ==
  {c \in {Case(asks, in, out, peeks, borrows) :
            asks \in Sources, in \in {current} \union Sources, out \in Outputs,
            peeks \in BOOLEAN, borrows \in BOOLEAN} :
     c.in.copies => c.borrows}

BuilderNext ==
  \/ \E s \in StagesTried : Then(s) \/ Join(s) \/ FanIn(s)
  \/ \E n \in 1 .. MaxCases : \E cs \in [1 .. n -> CasesTried] : Branch(cs)
  \/ \E m \in Markers : With(<<m>>)
  \/ \E output \in Sources \union Outputs \union {current} : To(output)
=============================================================================
