-------------------------- MODULE MCAutonomyLedger --------------------------
(* A verifiable seed, a candidate, and the calls that tell verdicts apart. *)
EXTENDS AutonomyLedger, TLC

CONSTANTS c1, c2, r1, w1, w2

Asked(c, risk, label, detail) ==
    [capability |-> c, risk |-> risk, label |-> label, detail |-> detail]

PlainCall == {Asked(c1, "LOW", "none", "none")}
MCCalls == PlainCall \cup
    {Asked(c2, "LOW", "none", "none"), Asked(c2, "HIGH", "none", "none"),
     Asked(c2, "HIGH", "none", "approval"), Asked(c1, "HIGH", "approval", "none"),
     Asked(c1, "LOW", "approval", "prohibited")}
Symmetry == Permutations({w1, w2})
=============================================================================
