------------------------- MODULE MCMissionLifecycle -------------------------
(* Constants that a configuration file cannot write, for model checking    *)
(* MissionLifecycle.                                                       *)
EXTENDS MissionLifecycle, TLC

CONSTANTS m1, m2, w1, w2, t1, t2, i1, i2, r1, r2

(* Two steps are the fewest for which a resume can start at a later step   *)
(* than an older snapshot says.                                            *)
LengthOf == [m \in Missions |-> IF m \in Direct THEN 1 ELSE 2]

AllNamed  == [m \in Missions |-> 1..Length[m]]
FirstNull ==                           \* a planned step with "tool: null"
    [m \in Missions |-> IF m \in Direct THEN {1} ELSE 2..Length[m]]

(* A mission of one call shares its tool with the first step of a plan.    *)
ToolInOrder == [x \in Steps |-> IF x[2] = 1 THEN t1 ELSE t2]

AnyVerdict == [x \in Steps |-> {"ALLOW", "APPROVAL_REQUIRED", "REFUSE"}]
NoRefusal  == [x \in Steps |-> {"ALLOW", "APPROVAL_REQUIRED"}]
AnyRecheck == [x \in Steps |-> {"ALLOW", "REFUSE"}]

OneInstance  == [w \in Workers |-> i1]
TwoInstances == [w \in Workers |-> IF w = w1 THEN i1 ELSE i2]

RequestSymmetry == Permutations(Requests)
RequestWorkerSymmetry == Permutations(Requests) \cup Permutations(Workers)
=============================================================================
