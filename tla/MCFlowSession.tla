----------------------------- MODULE MCFlowSession -----------------------------
(***************************************************************************)
(* A flow for the sessions TLC walks through.                              *)
(***************************************************************************)
EXTENDS FlowSession

\* A branch, a loop back, and a step that needs a fact.
Branching ==
    {[from |-> "start", to |-> "a", loop |-> FALSE],
     [from |-> "a", to |-> "b", loop |-> FALSE],
     [from |-> "b", to |-> "a", loop |-> TRUE],
     [from |-> "a", to |-> "end", loop |-> FALSE]}
NeedsFact == [n \in Node |-> IF n = "b" THEN Fact ELSE {}]
=============================================================================
