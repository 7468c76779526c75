-------------------------- MODULE InstallAuthority --------------------------
(***************************************************************************)
(* What SYNAPSE promises about acquiring a capability, with the store, the *)
(* HTTP workers and the failures left out: a request is put to the owner,  *)
(* the owner decides it once, and an approved request is installed at most *)
(* once, being the only request ever installed for its capability.         *)
(*                                                                         *)
(* CapabilityLifecycle is shown to implement this module.                  *)
(***************************************************************************)
EXTENDS Naturals

CONSTANTS Requests,      \* approval request ids (one per proposal)
          CapabilityOf   \* the capability each request would install

VARIABLES decision,      \* what the owner has said of each request
          installs       \* how many times each request has been installed

Rivals(r) == {q \in Requests : CapabilityOf[q] = CapabilityOf[r]}

Init ==
    /\ decision = [r \in Requests |-> "ABSENT"]
    /\ installs = [r \in Requests |-> 0]

(* A proposal reaches the owner. *)
Ask(r) ==
    /\ decision[r] = "ABSENT"
    /\ decision' = [decision EXCEPT ![r] = "PENDING"]
    /\ UNCHANGED installs

(* The owner decides; there is no action that decides a second time. *)
Decide(r) ==
    /\ decision[r] = "PENDING"
    /\ \E verdict \in {"APPROVED", "REJECTED"} :
          decision' = [decision EXCEPT ![r] = verdict]
    /\ UNCHANGED installs

(* The acquisition is recorded for the first and only time. *)
Install(r) ==
    /\ decision[r] = "APPROVED"
    /\ \A q \in Rivals(r) : installs[q] = 0
    /\ installs' = [installs EXCEPT ![r] = 1]
    /\ UNCHANGED decision

Next == \E r \in Requests : Ask(r) \/ Decide(r) \/ Install(r)

Spec == Init /\ [][Next]_<<decision, installs>>
=============================================================================
