-------------------------- MODULE MCSynapsePipeline --------------------------
(* Constants that a configuration file cannot write, for model checking    *)
(* SynapsePipeline.                                                        *)
EXTENDS SynapsePipeline, TLC

CONSTANTS p1, p2, n1, n2

Object(score) == [kind |-> "object", scoreType |-> "whole", score |-> score,
                  passedIsBoolean |-> TRUE, reasonIsText |-> TRUE]

(* A reply for each check of the parser, and the scores at its edges and   *)
(* at the floor.                                                           *)
EdgeReplies ==
    {Object(s) : s \in {-1, 0, 49, 50, 101}}
        \cup {[Object(80) EXCEPT !.kind = k] : k \in {"raised", "text"}}
        \cup {[Object(80) EXCEPT !.scoreType = t] : t \in {"boolean", "fraction"}}
        \cup {[Object(80) EXCEPT !.passedIsBoolean = FALSE],
              [Object(80) EXCEPT !.reasonIsText = FALSE]}

Symmetry == Permutations(Proposals) \cup Permutations(Names)
==============================================================================
