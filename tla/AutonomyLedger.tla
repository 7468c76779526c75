--------------------------- MODULE AutonomyLedger ---------------------------
(***************************************************************************)
(* Earned autonomy: AutonomyLedger.record_outcome as the workers of the    *)
(* service run it at the same time, fed by verify_outcome, by the owner's  *)
(* answers to G-07 requests and by installs, and read by Guardian.evaluate *)
(* when ExecutionGate asks whether a call may be made.                     *)
(*                                                                         *)
(* Autonomy moves by whole points from a whole start, so the rounding to   *)
(* one decimal changes nothing and the two rates are not stored.  Texts    *)
(* are abstracted to the kind of policy that matches them.                 *)
(***************************************************************************)
EXTENDS Integers, FiniteSets

CONSTANTS
    Capabilities,
    Seeds,            \* those the service is shipped with
    Candidates,       \* those SYNAPSE may propose; no check keeps it off a seed
    Verifiable,       \* those whose results the evidence engine can check
    Calls,            \* the calls a mission or a monitor may ask for
    Requests,         \* approval request ids; each is created once
    Workers,
    NoCall, NoRequest, NoCapability,
    MaxOutcomes,      \* bound: a capability with so many outcomes is left alone
    MaxFaults         \* bound: store calls that raise

Risks    == {"LOW", "MEDIUM", "HIGH"}
Policies == {"none", "approval", "prohibited"}

(* A call's label is the action text, its detail the other texts matched.  *)
Call == [capability : Capabilities, risk : Risks, label : Policies, detail : Policies]

ASSUME ConstantsAssumption ==
    /\ Seeds \cup Candidates \cup Verifiable \subseteq Capabilities
    /\ Calls \subseteq Call
    /\ NoCall \notin Calls
    /\ NoRequest \notin Requests
    /\ NoCapability \notin Capabilities
    /\ MaxOutcomes \in Nat
    /\ MaxFaults \in Nat

VARIABLES
    tracked,          \* capabilities with a document
    records,          \* capabilities collection: the ledger's fields
    installed,        \* capabilities that were installed
    requests,         \* approval_requests collection
    killSwitch,
    worker,           \* per worker: the handler in progress
    balance,          \* the same ledger, had each outcome been recorded at once
    overlapped,       \* capabilities two workers recorded an outcome of at once
    faults

vars == <<tracked, records, installed, requests, killSwitch, worker, balance,
          overlapped, faults>>
environment == <<installed, requests, killSwitch>>
ledger == <<tracked, records, balance, overlapped>>
-----------------------------------------------------------------------------
(* The ledger's arithmetic *)

StartingAutonomy     == 32
PromotionDelta       == 15
DemotionDelta        == 18
MaxAutonomy          == 95
SupervisionThreshold == 40

Numbers == [autonomy : 0..MaxAutonomy, total : Nat, successes : Nat,
            contradictions : Nat, interventions : Nat]

Fresh == [autonomy |-> StartingAutonomy, total |-> 0, successes |-> 0,
          contradictions |-> 0, interventions |-> 0]

AtMost(n, bound) == IF n > bound THEN bound ELSE n
NoFloor(n, bound) == n                \* mutant: autonomy can go negative
AtLeast(n, bound) == IF n < bound THEN bound ELSE n
One(condition) == IF condition THEN 1 ELSE 0

Outcome(n, verified, intervened) ==
    [autonomy |-> IF verified THEN AtMost(n.autonomy + PromotionDelta, MaxAutonomy)
                              ELSE AtLeast(n.autonomy - DemotionDelta, 0),
     total          |-> n.total + 1,
     successes      |-> n.successes + One(verified),
     contradictions |-> n.contradictions + One(~verified),
     interventions  |-> n.interventions + One(intervened)]

-----------------------------------------------------------------------------
(* The evidence engine *)

(* What a recorded fact that applies and is not stale says of the findings. *)
Facts == {"none", "agrees", "disagrees"}
Result == [readable : BOOLEAN, timed : BOOLEAN, grounded : BOOLEAN, fact : Facts]

ConfidenceFloor == 60

(* Readable findings also count as hashed, timed and as what was expected. *)
Confidence(result) ==
    10 + 30 * One(result.readable) + 10 * One(result.timed \/ result.readable)
       + 50 * One(result.grounded)

Verified(result) ==
    /\ result.fact # "disagrees"
    /\ result.grounded
    /\ Confidence(result) >= ConfidenceFloor

-----------------------------------------------------------------------------
(* Guardian *)

Supervised(c) == c \in tracked /\ records[c].autonomy < SupervisionThreshold

ApprovalFirst(texts) ==               \* mutant: the catalog in another order
    IF "approval" \in texts THEN "approval"
    ELSE IF "prohibited" \in texts THEN "prohibited" ELSE "none"

(* find_policy: prohibitions come first in the catalog. *)
FindPolicy(texts) ==
    IF "prohibited" \in texts THEN "prohibited"
    ELSE IF "approval" \in texts THEN "approval" ELSE "none"

Evaluate(texts, risk, supervised) ==
    LET policy == FindPolicy(texts) IN
    CASE policy = "prohibited" -> "REFUSE"
      [] policy = "approval"   -> "APPROVAL_REQUIRED"
      [] policy = "none" /\ supervised -> "APPROVAL_REQUIRED"
      [] OTHER -> CASE risk = "HIGH"   -> "REFUSE"
                    [] risk = "MEDIUM" -> "APPROVAL_REQUIRED"
                    [] risk = "LOW"    -> "ALLOW"

Texts(call) == {call.label, call.detail}
Verdict(call) == Evaluate(Texts(call), call.risk, Supervised(call.capability))

(* execute_approved asks again with the action text alone. *)
Recheck(call) == Evaluate({call.label}, call.risk, FALSE)

-----------------------------------------------------------------------------
(* State *)

(* "g07" is the policy the request cites: whether it was autonomy alone    *)
(* that held the call.  "claimed" says that its mission was resumed.       *)
Request == [status : {"ABSENT", "PENDING", "APPROVED", "REJECTED"},
            call : Calls \cup {NoCall}, g07 : BOOLEAN, claimed : BOOLEAN]
NoneYet == [status |-> "ABSENT", call |-> NoCall, g07 |-> FALSE, claimed |-> FALSE]

(* A worker is about to call a tool, or in record_outcome about to read    *)
(* the record, to create it, or to save what it makes of what it has seen. *)
Worker == [at : {"idle", "call", "read", "create", "save"}, call : Calls \cup {NoCall},
           request : Requests \cup {NoRequest}, capability : Capabilities \cup {NoCapability},
           verified : BOOLEAN, intervened : BOOLEAN, seen : Numbers]

Idle == [at |-> "idle", call |-> NoCall, request |-> NoRequest, capability |-> NoCapability,
         verified |-> FALSE, intervened |-> FALSE, seen |-> Fresh]

TypeOK ==
    /\ tracked \in SUBSET Capabilities
    /\ records \in [Capabilities -> Numbers]
    /\ installed \in SUBSET Capabilities
    /\ requests \in [Requests -> Request]
    /\ killSwitch \in BOOLEAN
    /\ worker \in [Workers -> Worker]
    /\ balance \in [Capabilities -> Numbers]
    /\ overlapped \in SUBSET Capabilities
    /\ faults \in Nat

Init ==
    /\ tracked = {}
    /\ records = [c \in Capabilities |-> Fresh]
    /\ installed = {}
    /\ requests = [r \in Requests |-> NoneYet]
    /\ killSwitch = FALSE
    /\ worker = [w \in Workers |-> Idle]
    /\ balance = [c \in Capabilities |-> Fresh]
    /\ overlapped = {}
    /\ faults = 0

At(w, point) == worker[w].at = point
Finish(w) == worker' = [worker EXCEPT ![w] = Idle]

Proceed(w, call, r) ==
    worker' = [worker EXCEPT ![w] = [Idle EXCEPT !.at = "call", !.call = call, !.request = r]]

BeginOutcome(w, c, verified, intervened) ==
    worker' = [worker EXCEPT ![w] = [Idle EXCEPT !.at = "read", !.capability = c,
                                        !.verified = verified, !.intervened = intervened]]

-----------------------------------------------------------------------------
(* The gate, the owner and the tools *)

(* ExecutionGate.execute: a refused call changes nothing, and no call      *)
(* reaches the gate before its capability is in the registry.              *)
Execute(w, call) ==
    /\ At(w, "idle")
    /\ ~killSwitch
    /\ call.capability \in Seeds \cup installed
    /\ balance[call.capability].total < MaxOutcomes
    /\ \/ /\ Verdict(call) = "ALLOW"
          /\ Proceed(w, call, NoRequest)
          /\ UNCHANGED requests
       \/ /\ Verdict(call) = "APPROVAL_REQUIRED"
          /\ \E r \in Requests :
                /\ requests[r].status = "ABSENT"
                /\ requests' = [requests EXCEPT ![r] =
                      [status |-> "PENDING", call |-> call, claimed |-> FALSE,
                       g07 |-> FindPolicy(Texts(call)) = "none" /\ Supervised(call.capability)]]
          /\ UNCHANGED worker
    /\ UNCHANGED <<installed, killSwitch, ledger, faults>>

DecidedAgain(r) == requests[r].status # "ABSENT"   \* mutant: answers what was answered
Undecided(r) == requests[r].status = "PENDING"

(* ApprovalManager.decide: the answer to a G-07 request is an outcome.     *)
Decide(w, r, approved) ==
    /\ At(w, "idle")
    /\ ~killSwitch
    /\ Undecided(r)
    /\ requests' = [requests EXCEPT ![r].status = IF approved THEN "APPROVED" ELSE "REJECTED"]
    /\ IF requests[r].g07 THEN BeginOutcome(w, requests[r].call.capability, approved, TRUE)
                          ELSE UNCHANGED worker
    /\ UNCHANGED <<installed, killSwitch, ledger, faults>>

SkipRecheck(call) == TRUE             \* mutant: approval settles it
Rechecked(call) == Recheck(call) # "REFUSE"

(* AxonOrchestrator.approve_and_resume and ExecutionGate.execute_approved, *)
(* once the mission's resume is claimed: blocked or refused, it is over.   *)
ExecuteApproved(w, r) ==
    LET call == requests[r].call IN
    /\ At(w, "idle")
    /\ requests[r].status = "APPROVED" /\ ~requests[r].claimed
    /\ balance[call.capability].total < MaxOutcomes
    /\ requests' = [requests EXCEPT ![r].claimed = TRUE]
    /\ IF ~killSwitch /\ Rechecked(call) THEN Proceed(w, call, r) ELSE UNCHANGED worker
    /\ UNCHANGED <<installed, killSwitch, ledger, faults>>

(* The tool runs; verify_outcome scores the result of a verifiable one     *)
(* that did not raise.                                                     *)
RunTool(w) ==
    LET c == worker[w].call.capability IN
    /\ At(w, "call")
    /\ \/ Finish(w)
       \/ c \in Verifiable /\ \E result \in Result : BeginOutcome(w, c, Verified(result), FALSE)
    /\ UNCHANGED <<environment, ledger, faults>>

(* SYNAPSE saves the document of a capability it proposes, and installs it *)
(* once, which is recorded as verified (CapabilityLifecycle has the rest). *)
Propose(c) ==
    /\ c \in Candidates \ tracked
    /\ tracked' = tracked \cup {c}
    /\ UNCHANGED <<records, environment, worker, balance, overlapped, faults>>

Install(w, c) ==
    /\ At(w, "idle")
    /\ c \in (Candidates \cap tracked) \ installed
    /\ installed' = installed \cup {c}
    /\ BeginOutcome(w, c, TRUE, FALSE)
    /\ UNCHANGED <<requests, killSwitch, ledger, faults>>

-----------------------------------------------------------------------------
(* AutonomyLedger.record_outcome: get, which creates a missing record, and *)
(* the write of what was read and moved, with no transaction around them.  *)

Recording(v, c) == worker[v].at \in {"create", "save"} /\ worker[v].capability = c

ReadRecord(w) ==
    LET c == worker[w].capability IN
    /\ At(w, "read")
    /\ worker' = [worker EXCEPT ![w] =
          IF c \in tracked THEN [@ EXCEPT !.at = "save", !.seen = records[c]]
                           ELSE [@ EXCEPT !.at = "create", !.seen = Fresh]]
    /\ overlapped' = IF \E v \in Workers \ {w} : Recording(v, c)
                     THEN overlapped \cup {c} ELSE overlapped
    /\ UNCHANGED <<tracked, records, environment, balance, faults>>

(* The record created names no interventions, so the merge leaves them.    *)
CreateRecord(w) ==
    LET c == worker[w].capability IN
    /\ At(w, "create")
    /\ tracked' = tracked \cup {c}
    /\ records' = [records EXCEPT ![c] = [Fresh EXCEPT !.interventions = records[c].interventions]]
    /\ worker' = [worker EXCEPT ![w].at = "save"]
    /\ UNCHANGED <<environment, balance, overlapped, faults>>

SaidToSucceed(n, verified, intervened) ==   \* mutant: scores the agent's claim
    Outcome(n, TRUE, intervened)
MovedTwice(n, verified, intervened) ==      \* mutant: scored in two places
    Outcome(Outcome(n, verified, intervened), verified, intervened)
Moved(n, verified, intervened) == Outcome(n, verified, intervened)

SaveRecord(w) ==
    LET h == worker[w] IN
    /\ At(w, "save")
    /\ records' = [records EXCEPT ![h.capability] = Moved(h.seen, h.verified, h.intervened)]
    /\ balance' = [balance EXCEPT ![h.capability] = Outcome(@, h.verified, h.intervened)]
    /\ Finish(w)
    /\ UNCHANGED <<tracked, environment, overlapped, faults>>

WorkerRaises(w) ==
    /\ faults < MaxFaults /\ faults' = faults + 1
    /\ ~At(w, "idle")
    /\ Finish(w)
    /\ UNCHANGED <<environment, ledger>>

SetKillSwitch ==
    /\ killSwitch' = ~killSwitch
    /\ UNCHANGED <<installed, requests, worker, ledger, faults>>

-----------------------------------------------------------------------------
(* Specification *)

Record(w) == ReadRecord(w) \/ CreateRecord(w) \/ SaveRecord(w)

Next ==
    \/ \E w \in Workers :
          \/ Record(w) \/ RunTool(w) \/ WorkerRaises(w)
          \/ \E call \in Calls : Execute(w, call)
          \/ \E r \in Requests : ExecuteApproved(w, r) \/ \E b \in BOOLEAN : Decide(w, r, b)
          \/ \E c \in Capabilities : Install(w, c)
    \/ \E c \in Capabilities : Propose(c)
    \/ SetKillSwitch

Spec == Init /\ [][Next]_vars
-----------------------------------------------------------------------------
(* Properties *)

(* "a" holds nothing that did not happen in "b", and its autonomy is what  *)
(* its own successes and contradictions can have made of it.               *)
Earned(a, b) ==
    /\ a.total = a.successes + a.contradictions
    /\ a.successes <= b.successes
    /\ a.contradictions <= b.contradictions
    /\ a.interventions <= b.interventions
    /\ a.autonomy <= StartingAutonomy + PromotionDelta * a.successes
    /\ a.autonomy >= StartingAutonomy - DemotionDelta * a.contradictions

(* Autonomy moves only by outcomes that happened: however records race,    *)
(* none invents evidence, so no capability is trusted above the threshold  *)
(* without a success that was verified.                                    *)
TrustIsEarned == \A c \in Capabilities : Earned(records[c], balance[c])

(* Of a capability no two outcomes of which were recorded at once, every   *)
(* outcome is in the record, creation of the record and failures included. *)
SerialOutcomesCount ==
    \A c \in Capabilities \ overlapped : records[c] = balance[c]

(* What the gate lets through, at once or after an approval: nothing that  *)
(* a prohibition matches, no high risk that no policy on its label covers, *)
(* and nothing above low risk or under a policy without the owner.  Nor    *)
(* any call of a capability that was not shipped with the service, before  *)
(* one of its outcomes was verified, without the owner.                    *)
CallsArePermitted ==
    \A w \in Workers : At(w, "call") =>
        LET call == worker[w].call
            approved == worker[w].request # NoRequest
        IN  /\ "prohibited" \notin Texts(call)
            /\ call.risk = "HIGH" => call.label = "approval"
            /\ call.risk # "LOW" \/ "approval" \in Texts(call) => approved
            /\ call.capability \notin Seeds =>
                  approved \/ balance[call.capability].successes > 0
            /\ approved => /\ requests[worker[w].request].status = "APPROVED"
                           /\ requests[worker[w].request].call = call

Answered(c) == {r \in Requests : /\ requests[r].g07 /\ requests[r].call.capability = c
                                 /\ requests[r].status \in {"APPROVED", "REJECTED"}}
Recorders(c) == {w \in Workers : /\ worker[w].at \in {"read", "create", "save"}
                                 /\ worker[w].intervened /\ worker[w].capability = c}

(* No answer of the owner about a capability is counted twice, and each is *)
(* in the record or with the worker that records it, unless outcomes of    *)
(* the capability were recorded at once or a worker raised.                *)
AnswersAreCounted ==
    \A c \in Capabilities :
        LET counted == records[c].interventions + Cardinality(Recorders(c)) IN
        /\ counted <= Cardinality(Answered(c))
        /\ c \notin overlapped /\ faults = 0 => counted = Cardinality(Answered(c))

(* The same of the balance, which no overlap disturbs, for the proof. *)
AnswersBalance ==
    \A c \in Capabilities :
        LET counted == balance[c].interventions + Cardinality(Recorders(c)) IN
        /\ IsFiniteSet(Recorders(c)) /\ IsFiniteSet(Answered(c))
        /\ counted <= Cardinality(Answered(c))
        /\ faults = 0 => counted = Cardinality(Answered(c))

(* What a worker has seen. *)
SnapshotsAreEarned ==
    \A w \in Workers : worker[w].at \in {"create", "save"} =>
        Earned(worker[w].seen, balance[worker[w].capability])

SerialSnapshots ==
    \A c \in Capabilities \ overlapped :
        /\ \A w \in Workers : Recording(w, c) =>
              /\ worker[w].seen = records[c]
              /\ At(w, "create") => records[c] = Fresh
        /\ \A v, w \in Workers : Recording(v, c) /\ Recording(w, c) => v = w

Untracked == \A c \in Capabilities \ tracked : records[c] = Fresh

(* A request that was asked names a call the Guardian held. *)
HeldCalls ==
    \A r \in Requests : requests[r].status # "ABSENT" =>
        /\ requests[r].call \in Calls
        /\ "prohibited" \notin Texts(requests[r].call)

Positions ==
    \A w \in Workers :
        /\ At(w, "call") => worker[w].call \in Calls
        /\ worker[w].at \in {"read", "create", "save"} => worker[w].capability \in Capabilities
        /\ At(w, "save") => worker[w].capability \in tracked

(* What is installed was proposed, so the Guardian finds its record. *)
InstalledAreTracked == installed \subseteq tracked

(* Nothing a worker has seen or a record holds is more than what happened, *)
(* and without an overlap it is exactly what happened.                     *)
LedgerInv ==
    /\ TypeOK
    /\ Positions
    /\ HeldCalls
    /\ CallsArePermitted
    /\ TrustIsEarned
    /\ SnapshotsAreEarned
    /\ Untracked
    /\ SerialSnapshots
    /\ SerialOutcomesCount
    /\ InstalledAreTracked
    /\ AnswersBalance

-----------------------------------------------------------------------------
(* What the repository says and the code does not do *)

(* README.md: the agent "earns autonomy from evidence, and loses it when   *)
(* reality disagrees", so a contradiction, once recorded, is not undone by *)
(* another worker's outcome.                                               *)
ContradictionsCount ==
    \A c \in Capabilities : records[c].contradictions = balance[c].contradictions
=============================================================================
