--------------------------- MODULE PipelineExports ---------------------------
(***************************************************************************)
(* What include/pb/core/describe.hpp and include/pb/runtime/descriptor.hpp *)
(* record of a pipeline, and the graphs that the four exporters draw from  *)
(* it: core/export_dot.hpp, core/export_json.hpp, core/export_text.hpp and *)
(* export/dot.hpp.                                                         *)
(*                                                                         *)
(* A pipeline is a sequence of nodes with a kind and cases.  Stages and    *)
(* cases are counted from 0, as in the records.  Keys, names, labels and   *)
(* the names of types are left out: a node of a graph is its identifier,   *)
(* a tuple, rather than its text.                                          *)
(***************************************************************************)
EXTENDS Naturals, Sequences, FiniteSets, SequencesExt

Branches(n) == n.kind \in {"branch", "fan_in"}

(* stage_topology; branch_case_count_or_zero.                              *)
Topology(n) == IF Branches(n) THEN n.kind ELSE "linear"
CaseCount(n) == IF Branches(n) THEN Len(n.cases) ELSE 0

StageRecords(ns) ==
  [i \in DOMAIN ns |-> [index |-> i - 1, topology |-> Topology(ns[i])]]

EdgeCount(ns) == IF Len(ns) > 0 THEN Len(ns) - 1 ELSE 0

EdgeRecords(ns) ==
  [i \in 1 .. EdgeCount(ns) |-> [index |-> i - 1, from |-> i - 1, to |-> i]]

(* Mutant: every branch begins to write where the first one did.           *)
CaseRecordsOverwritten(ns) ==
  LET filled[i \in 0 .. Len(ns)] ==
        IF i = 0 THEN <<>>
        ELSE [k \in 1 .. IF CaseCount(ns[i]) > Len(filled[i - 1])
                         THEN CaseCount(ns[i]) ELSE Len(filled[i - 1]) |->
                IF k <= CaseCount(ns[i]) THEN [branch |-> i - 1, case |-> k - 1]
                                         ELSE filled[i - 1][k]]
  IN  filled[Len(ns)]

(* fill_branch_case_records: the cases of all branches one after another,  *)
(* case_offset being where the next branch begins.                         *)
CaseRecords(ns) ==
  LET filled[i \in 0 .. Len(ns)] ==
        IF i = 0 THEN <<>>
        ELSE filled[i - 1] \o [j \in 1 .. CaseCount(ns[i]) |->
                                 [branch |-> i - 1, case |-> j - 1]]
  IN  filled[Len(ns)]

(* build_branch_descriptor.                                                *)
OverallTopology(ns) ==
  LET kinds == {Topology(ns[i]) : i \in DOMAIN ns}
  IN  IF "fan_in" \in kinds THEN "fan_in"
      ELSE IF "branch" \in kinds THEN "branch" ELSE "linear"

Descriptor(ns) ==
  [topology |-> OverallTopology(ns), stages |-> StageRecords(ns),
   edges |-> EdgeRecords(ns), cases |-> CaseRecords(ns)]

(* The loops over branch_case_records() that skip other branches' records. *)
CasesOf(d, index) == {c \in ToSet(d.cases) : c.branch = index}

-----------------------------------------------------------------------------
(***************************************************************************)
(* pb::to_dot.  Input and output are nodes only if there is a branch.      *)
(***************************************************************************)
FromInput == <<"from_input">>
ToOutput == <<"to_output">>
StageNode(i) == <<"stage", i>>
BranchNode(i) == <<"branch", i>>
PredNode(i, j) == <<"pred", i, j>>
CaseNode(i, j) == <<"case", i, j>>

HasBranch(d) == \E i \in DOMAIN d.stages : d.stages[i].topology # "linear"

IsBranchStage(d, i) == d.stages[i + 1].topology \in {"branch", "fan_in"}
NodeOf(d, i) == IF IsBranchStage(d, i) THEN BranchNode(i) ELSE StageNode(i)

(* append_branch_case_subgraph.                                            *)
CaseEdges(d, i) ==
  UNION {{<<BranchNode(i), PredNode(i, c.case)>>,
          <<PredNode(i, c.case), CaseNode(i, c.case)>>} : c \in CasesOf(d, i)}

(* Mutant: a branch is left by its diamond.                                *)
ExitsByDiamond(d, i) == {NodeOf(d, i)}

(* Where the edges that leave stage i begin: at a branch's case stages.    *)
Exits(d, i) ==
  IF IsBranchStage(d, i)
  THEN {CaseNode(i, c.case) : c \in CasesOf(d, i)} ELSE {StageNode(i)}

LinearEdges(d) ==
  {<<StageNode(e.from), StageNode(e.to)>> : e \in ToSet(d.edges)}

BranchEdges(d) ==
  LET n == Len(d.stages) IN
  {<<FromInput, IF n = 0 THEN ToOutput ELSE NodeOf(d, 0)>>}
    \union (UNION {CaseEdges(d, i) : i \in {k \in 0 .. n - 1 : IsBranchStage(d, k)}})
    \union (UNION {Exits(d, i) \X {NodeOf(d, i + 1)} : i \in {k \in 0 .. n - 1 : k + 1 < n}})
    \union (IF n > 0 THEN Exits(d, n - 1) \X {ToOutput} ELSE {})

DotEdges(d) == IF HasBranch(d) THEN BranchEdges(d) ELSE LinearEdges(d)

(***************************************************************************)
(* The stage a node of that graph is part of, and the graph with the parts *)
(* of each stage taken together.                                           *)
(***************************************************************************)
StageOf(node) == node[2]
Inner(edge) == edge[1] # FromInput /\ edge[2] # ToOutput

StageEdges(d) ==
  {<<StageOf(e[1]), StageOf(e[2])>> : e \in {x \in DotEdges(d) :
     Inner(x) /\ StageOf(x[1]) # StageOf(x[2])}}

DotCases(d, i) ==
  {e[2][3] : e \in {x \in DotEdges(d) : Inner(x) /\ x[2][1] = "case" /\ x[2][2] = i}}

(***************************************************************************)
(* to_json and to_text list stages, the cases of each branch under it, and *)
(* the edges between stages; export/dot.hpp has no cases.                  *)
(***************************************************************************)
ListedEdges(d) == {<<d.edges[i].from, d.edges[i].to>> : i \in DOMAIN d.edges}

ListedCases(d, i) ==
  IF IsBranchStage(d, i) THEN {c.case : c \in CasesOf(d, i)} ELSE {}

PlainDotEdges(ns) ==
  {<<EdgeRecords(ns)[i].from, EdgeRecords(ns)[i].to>> : i \in 1 .. EdgeCount(ns)}
=============================================================================
