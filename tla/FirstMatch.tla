----------------------------- MODULE FirstMatch -----------------------------
(***************************************************************************)
(* What a selected-output branch promises: the predicates are asked in     *)
(* declaration order until one says yes, the stage of that case and no     *)
(* other one is given the input, once, and no predicate is asked about an  *)
(* input that has been given away.  The branch has a value only from that  *)
(* stage, and says that nothing matched only if every predicate said no.   *)
(***************************************************************************)
EXTENDS Naturals

CONSTANT Cases

VARIABLES
  said,   \* what each case's predicate said: "no", "yes", or nothing yet
  given,  \* the case whose stage was given the input, or 0
  worked, \* did that stage produce a value?
  answer  \* "none" yet, "value", "unmatched", "error" or "exception"

vars == <<said, given, worked, answer>>

Init ==
  /\ said = [k \in Cases |-> "nothing"]
  /\ given = 0
  /\ worked = FALSE
  /\ answer = "none"

Ask(k) ==
  /\ answer = "none" /\ said[k] = "nothing" /\ given = 0
  /\ \A j \in Cases : j < k => said[j] = "no"
  /\ \E word \in {"no", "yes"} : said' = [said EXCEPT ![k] = word]
  /\ UNCHANGED <<given, worked, answer>>

Give(k) ==
  /\ answer = "none" /\ given = 0 /\ said[k] = "yes"
  /\ given' = k
  /\ worked' \in BOOLEAN
  /\ UNCHANGED <<said, answer>>

Answer ==
  /\ answer = "none"
  /\ \/ worked /\ answer' = "value"
     \/ (\A k \in Cases : said[k] = "no") /\ answer' = "unmatched"
     \/ answer' \in {"error", "exception"}
  /\ UNCHANGED <<said, given, worked>>

Next == Answer \/ \E k \in Cases : Ask(k) \/ Give(k)

Spec == Init /\ [][Next]_vars
=============================================================================
