----------------------- MODULE MCCapabilityLifecycle ------------------------
(* Constants that a configuration file cannot write, for model checking    *)
(* CapabilityLifecycle.                                                    *)
EXTENDS CapabilityLifecycle, TLC

CONSTANTS r1, r2, w1, w2, i1, i2, cap

(* Every request is a proposal for the one capability: rivals for a name   *)
(* are what the claim arbitrates; different names share no state.          *)
OneCapability == [r \in Requests |-> cap]

OneInstance  == [w \in Workers |-> i1]
TwoInstances == [w \in Workers |-> IF w = w1 THEN i1 ELSE i2]

RequestSymmetry == Permutations(Requests)
=============================================================================
