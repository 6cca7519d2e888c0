------------------------- MODULE MCCompiledPipeline -------------------------
(* Instances of CompiledPipeline for TLC. *)
EXTENDS CompiledPipeline

A == Plain("A", TRUE)
Unique == Plain("Unique", FALSE)
Both == Variant(<<A, Plain("B", TRUE)>>)

Inputs == {A, Unique}
Returned == {A, Both}

Marker(axis, name) == [axis |-> axis, name |-> name]

ErrorsAndDiagnostics ==
  {Marker("errors", name) : name \in ErrorMarkers}
    \union {Marker("diagnostics", name) : name \in {"verbose", "quiet"}}
=============================================================================
