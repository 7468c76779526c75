---------------------------- MODULE MissionTurns ----------------------------
(***************************************************************************)
(* What MissionService and MissionEngine promise of a mission, whatever    *)
(* handlers, resumes and failures there are: it is worked on in turns, one *)
(* at a time; tools are called only in a turn, a step's after those of the *)
(* steps before it; a mission is done when all were called, and one that   *)
(* is done or given up is never taken up again.                            *)
(***************************************************************************)
EXTENDS Naturals

CONSTANTS
    Missions,
    Length          \* number of steps of each mission's plan

VARIABLES
    turn,           \* NEW, HELD by a handler, OPEN to be resumed, DONE, GIVEN_UP
    called          \* the steps whose tool has been called

vars == <<turn, called>>

Init ==
    /\ turn = [m \in Missions |-> "NEW"]
    /\ called = [m \in Missions |-> {}]

(* A handler starts the mission, or claims it to resume it. *)
Take(m) ==
    /\ turn[m] \in {"NEW", "OPEN"}
    /\ turn' = [turn EXCEPT ![m] = "HELD"]
    /\ UNCHANGED called

(* The handler calls the tool of a step: the next one, or an earlier one   *)
(* again.                                                                  *)
Call(m, n) ==
    /\ turn[m] = "HELD"
    /\ 1..(n - 1) \subseteq called[m]
    /\ called' = [called EXCEPT ![m] = @ \cup {n}]
    /\ UNCHANGED turn

(* The handler saves the mission and ends. *)
Leave(m, outcome) ==
    /\ turn[m] = "HELD"
    /\ outcome = "DONE" => called[m] = 1..Length[m]
    /\ turn' = [turn EXCEPT ![m] = outcome]
    /\ UNCHANGED called

(* A mission whose planner has no plan is given up at once. *)
Refuse(m) ==
    /\ turn[m] = "NEW"
    /\ turn' = [turn EXCEPT ![m] = "GIVEN_UP"]
    /\ UNCHANGED called

(* What changes neither is no step of a turn. *)
Next ==
    /\ vars' # vars
    /\ \E m \in Missions :
          \/ Take(m)
          \/ \E n \in 1..Length[m] : Call(m, n)
          \/ \E outcome \in {"OPEN", "DONE", "GIVEN_UP"} : Leave(m, outcome)
          \/ Refuse(m)

Spec == Init /\ [][Next]_vars
=============================================================================
