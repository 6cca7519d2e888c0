------------------------ MODULE MCSequentialPipeline ------------------------
(* Instances of SequentialPipeline for TLC. *)
EXTENDS SequentialPipeline

SimpleChain == {Plain}
=============================================================================
