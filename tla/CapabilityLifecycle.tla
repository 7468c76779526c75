------------------------ MODULE CapabilityLifecycle -------------------------
(***************************************************************************)
(* The life of an acquired capability: SynapseEngine.propose / install /   *)
(* rollback, ApprovalManager.decide, the rehydration at start-up and the   *)
(* kill switch, running concurrently in the HTTP workers of several        *)
(* instances against one document store.                                   *)
(*                                                                         *)
(* Every store call is one atomic step, and an operation is the sequence   *)
(* of its store calls, so whatever another worker does may fall between    *)
(* any two of them.  The candidate code a proposal generates is named by   *)
(* the approval request created for it: "code r" is the candidate of the   *)
(* proposal that asked for request r.  The autonomy fields of a capability *)
(* document are written by merge and are disjoint from the fields here.    *)
(***************************************************************************)
EXTENDS Naturals

CONSTANTS
    Capabilities,   \* capability names
    Requests,       \* approval request ids; each is used by one proposal
    CapabilityOf,   \* the capability each request's proposal is about
    Instances,      \* service instances: each has its own registry
    Workers,        \* HTTP workers, each able to run one request at a time
    Home,           \* the instance each worker belongs to
    NoRequest,      \* "no request" in a field that may hold one
    NoCapability,   \* "no capability": an idle worker
    LostReplies,    \* may a store write commit and still raise?
    MaxFaults,      \* bound: store calls that raise
    MaxRestarts,    \* bound: instance restarts
    MaxRollbacks    \* bound: rollbacks of one capability

ASSUME ConstantsAssumption ==
    /\ NoRequest \notin Requests
    /\ NoCapability \notin Capabilities
    /\ CapabilityOf \in [Requests -> Capabilities]
    /\ Home \in [Workers -> Instances]
    /\ LostReplies \in BOOLEAN
    /\ MaxFaults \in Nat
    /\ MaxRestarts \in Nat
    /\ MaxRollbacks \in Nat

VARIABLES
    approvals,      \* approval_requests collection: status of each request
    documents,      \* capabilities collection
    claims,         \* install_claims collection: the request holding it
    acquired,       \* evolution events "Acquired capability", per request
    rolledBack,     \* evolution events "Rolled back", per capability
    killSwitch,     \* system/control document
    registry,       \* per instance: the code callable under each name
    worker,         \* per worker: the operation in progress
    faults,         \* store calls that have raised
    restarts        \* restarts so far

store == <<approvals, documents, claims, acquired, rolledBack>>
vars  == <<approvals, documents, claims, acquired, rolledBack, killSwitch,
           registry, worker, faults, restarts>>

-----------------------------------------------------------------------------
(* State *)

MaybeRequest == Requests \cup {NoRequest}

Document ==
    [state         : {"ABSENT", "VALIDATING", "READY", "REJECTED", "DISABLED"},
     implemented   : BOOLEAN,
     version       : Nat,
     passport      : MaybeRequest,
     installedCode : MaybeRequest]

(* The points at which an operation is about to make its next store call.  *)
(* propose: pipeline, saveProposal.  decide: decide, markRejected.         *)
(* install: readDocument ... refresh.  rollback: disable, recordRollback.  *)
Critical == {"register", "save", "event", "undo", "release"}
Points   == Critical \cup
    {"idle", "pipeline", "saveProposal", "decide", "markRejected",
     "readDocument", "readApproval", "claim", "refresh", "disable",
     "recordRollback"}

Worker ==
    [at         : Points,
     capability : Capabilities \cup {NoCapability},
     request    : MaybeRequest,
     version    : Nat]

Doing(p, c, r, n) == [at |-> p, capability |-> c, request |-> r, version |-> n]
Idle == Doing("idle", NoCapability, NoRequest, 0)

NoDocument == [state |-> "ABSENT", implemented |-> FALSE, version |-> 0,
               passport |-> NoRequest, installedCode |-> NoRequest]

TypeOK ==
    /\ approvals \in [Requests -> {"ABSENT", "PENDING", "APPROVED", "REJECTED"}]
    /\ documents \in [Capabilities -> Document]
    /\ claims \in [Capabilities -> MaybeRequest]
    /\ acquired \in [Requests -> Nat]
    /\ rolledBack \in [Capabilities -> Nat]
    /\ killSwitch \in BOOLEAN
    /\ registry \in [Instances -> [Capabilities -> MaybeRequest]]
    /\ worker \in [Workers -> Worker]
    /\ faults \in Nat
    /\ restarts \in Nat

Init ==
    /\ approvals = [r \in Requests |-> "ABSENT"]
    /\ documents = [c \in Capabilities |-> NoDocument]
    /\ claims = [c \in Capabilities |-> NoRequest]
    /\ acquired = [r \in Requests |-> 0]
    /\ rolledBack = [c \in Capabilities |-> 0]
    /\ killSwitch = FALSE
    /\ registry = [i \in Instances |-> [c \in Capabilities |-> NoRequest]]
    /\ worker = [w \in Workers |-> Idle]
    /\ faults = 0
    /\ restarts = 0

-----------------------------------------------------------------------------
(* Workers *)

At(w, point) == worker[w].at = point
Goto(w, point) == worker' = [worker EXCEPT ![w].at = point]
Finish(w) == worker' = [worker EXCEPT ![w] = Idle]

(* A request handler starts on an idle worker.  Operations that read the   *)
(* kill switch first answer BLOCKED while it is active.                    *)
Start(w, point, c) ==
    /\ At(w, "idle")
    /\ worker' = [worker EXCEPT ![w] = Doing(point, c, NoRequest, 0)]

(* save_capability merges: the four writes below leave the other fields.   *)
Proposed(d, r) ==
    [state |-> "VALIDATING", implemented |-> FALSE, version |-> 0,
     passport |-> r, installedCode |-> d.installedCode]
Installed(d, n, r) ==
    [state |-> "READY", implemented |-> TRUE, version |-> n,
     passport |-> d.passport, installedCode |-> r]
Rejected(d) == [d EXCEPT !.state = "REJECTED"]
Disabled(d) == [d EXCEPT !.state = "DISABLED", !.implemented = FALSE]

IgnoresSwitch == TRUE                    \* mutant: the check was forgotten
Allowed == ~killSwitch

-----------------------------------------------------------------------------
(* SynapseEngine.propose_stream: the kill switch is read once, at the      *)
(* start; the stages in between are local to the pipeline and may end it   *)
(* (rejected, refused, failed, or the stream abandoned); the last two      *)
(* steps are two separate writes.                                          *)

ProposeStart(w, c) ==
    /\ Allowed
    /\ Start(w, "pipeline", c)
    /\ UNCHANGED <<store, killSwitch, registry, faults, restarts>>

ProposeStop(w) ==
    /\ At(w, "pipeline")
    /\ Finish(w)
    /\ UNCHANGED <<store, killSwitch, registry, faults, restarts>>

ProposeCreate(w, r) ==
    /\ At(w, "pipeline")
    /\ CapabilityOf[r] = worker[w].capability
    /\ approvals[r] = "ABSENT"
    /\ approvals' = [approvals EXCEPT ![r] = "PENDING"]
    /\ worker' = [worker EXCEPT ![w] = Doing("saveProposal", CapabilityOf[r], r, 0)]
    /\ UNCHANGED <<documents, claims, acquired, rolledBack, killSwitch,
                   registry, faults, restarts>>

ProposeSave(w) ==
    /\ At(w, "saveProposal")
    /\ documents' = [documents EXCEPT ![worker[w].capability] =
                        Proposed(@, worker[w].request)]
    /\ Finish(w)
    /\ UNCHANGED <<approvals, claims, acquired, rolledBack, killSwitch,
                   registry, faults, restarts>>

-----------------------------------------------------------------------------
(* ApprovalManager.decide on an INSTALL request: the kill switch, then one *)
(* atomic check-and-set, then the document of a rejected capability.       *)

DecideStart(w, r) ==
    /\ Allowed
    /\ At(w, "idle")
    /\ worker' = [worker EXCEPT ![w] = Doing("decide", CapabilityOf[r], r, 0)]
    /\ UNCHANGED <<store, killSwitch, registry, faults, restarts>>

Known(r) == approvals[r] # "ABSENT"      \* mutant: decides whatever exists
Undecided(r) == approvals[r] = "PENDING"

DecideCommit(w) ==
    LET r == worker[w].request IN
    /\ At(w, "decide")
    /\ \/ /\ Undecided(r)
          /\ approvals' = [approvals EXCEPT ![r] = "APPROVED"]
          /\ Finish(w)
       \/ /\ Undecided(r)
          /\ approvals' = [approvals EXCEPT ![r] = "REJECTED"]
          /\ Goto(w, "markRejected")
       \/ /\ ~Undecided(r)          \* NOT_FOUND or ALREADY_DECIDED
          /\ UNCHANGED approvals
          /\ Finish(w)
    /\ UNCHANGED <<documents, claims, acquired, rolledBack, killSwitch,
                   registry, faults, restarts>>

DecideMarkRejected(w) ==
    /\ At(w, "markRejected")
    /\ documents' = [documents EXCEPT ![worker[w].capability] = Rejected(@)]
    /\ Finish(w)
    /\ UNCHANGED <<approvals, claims, acquired, rolledBack, killSwitch,
                   registry, faults, restarts>>

-----------------------------------------------------------------------------
(* SynapseEngine.install: read the document, read the approval it names,   *)
(* claim, register, save, record; on an exception after the claim, undo.   *)

InstallStart(w, c) ==
    /\ Allowed
    /\ Start(w, "readDocument", c)
    /\ UNCHANGED <<store, killSwitch, registry, faults, restarts>>

(* The passport read here is the snapshot everything below works from.     *)
InstallReadDocument(w) ==
    LET d == documents[worker[w].capability] IN
    /\ At(w, "readDocument")
    /\ IF d.passport = NoRequest    \* unknown capability, or no approval on record
       THEN Finish(w)
       ELSE worker' = [worker EXCEPT ![w] =
              Doing("readApproval", worker[w].capability, d.passport, d.version)]
    /\ UNCHANGED <<store, killSwitch, registry, faults, restarts>>

NotRejected(r) == approvals[r] # "REJECTED"   \* mutant: PENDING is let through
Approved(r) == approvals[r] = "APPROVED"

InstallReadApproval(w) ==
    /\ At(w, "readApproval")
    /\ IF Approved(worker[w].request) THEN Goto(w, "claim") ELSE Finish(w)
    /\ UNCHANGED <<store, killSwitch, registry, faults, restarts>>

(* claim_install: any existing claim on the name turns the caller away.    *)
UnclaimedByRequest(c, r) == claims[c] # r     \* mutant: the check before its fix
Unclaimed(c, r) == claims[c] = NoRequest

InstallClaim(w) ==
    LET c == worker[w].capability
        r == worker[w].request
    IN
    /\ At(w, "claim")
    /\ IF Unclaimed(c, r)
       THEN claims' = [claims EXCEPT ![c] = r] /\ Goto(w, "register")
       ELSE UNCHANGED claims /\ Goto(w, "refresh")
    /\ UNCHANGED <<approvals, documents, acquired, rolledBack, killSwitch,
                   registry, faults, restarts>>

(* The loser re-reads the document and answers ALREADY_INSTALLED.          *)
InstallRefresh(w) ==
    /\ At(w, "refresh")
    /\ Finish(w)
    /\ UNCHANGED <<store, killSwitch, registry, faults, restarts>>

(* The proxy is built from the passport read before the claim.             *)
CurrentCode(w) == documents[worker[w].capability].passport   \* mutant: re-read
CandidateCode(w) == worker[w].request

InstallRegister(w) ==
    /\ At(w, "register")
    /\ registry' = [registry EXCEPT ![Home[w]][worker[w].capability] =
                                        CandidateCode(w)]
    /\ Goto(w, "save")
    /\ UNCHANGED <<store, killSwitch, faults, restarts>>

SaveReady(w) ==
    documents' = [documents EXCEPT ![worker[w].capability] =
                    Installed(@, worker[w].version + 1, CandidateCode(w))]

RecordAcquisition(w) ==
    acquired' = [acquired EXCEPT ![worker[w].request] = @ + 1]

InstallSave(w) ==
    /\ At(w, "save")
    /\ SaveReady(w)
    /\ Goto(w, "event")
    /\ UNCHANGED <<approvals, claims, acquired, rolledBack, killSwitch,
                   registry, faults, restarts>>

InstallEvent(w) ==
    /\ At(w, "event")
    /\ RecordAcquisition(w)
    /\ Finish(w)
    /\ UNCHANGED <<approvals, documents, claims, rolledBack, killSwitch,
                   registry, faults, restarts>>

InstallUndo(w) ==
    /\ At(w, "undo")
    /\ registry' = [registry EXCEPT ![Home[w]][worker[w].capability] = NoRequest]
    /\ Goto(w, "release")
    /\ UNCHANGED <<store, killSwitch, faults, restarts>>

(* release_install_claim deletes only a claim this request still holds.    *)
InstallRelease(w) ==
    LET c == worker[w].capability IN
    /\ At(w, "release")
    /\ claims' = [claims EXCEPT ![c] =
                     IF @ = worker[w].request THEN NoRequest ELSE @]
    /\ Finish(w)
    /\ UNCHANGED <<approvals, documents, acquired, rolledBack, killSwitch,
                   registry, faults, restarts>>

-----------------------------------------------------------------------------
(* SynapseEngine.rollback: unregister here, disable the document, record.  *)
(* It reads no kill switch and keeps the install claim.                    *)

RollbackUnregister(w, c) ==
    /\ documents[c] # NoDocument
    /\ rolledBack[c] < MaxRollbacks
    /\ Start(w, "disable", c)
    /\ registry' = [registry EXCEPT ![Home[w]][c] = NoRequest]
    /\ UNCHANGED <<store, killSwitch, faults, restarts>>

RollbackDisable(w) ==
    /\ At(w, "disable")
    /\ documents' = [documents EXCEPT ![worker[w].capability] = Disabled(@)]
    /\ Goto(w, "recordRollback")
    /\ UNCHANGED <<approvals, claims, acquired, rolledBack, killSwitch,
                   registry, faults, restarts>>

RollbackEvent(w) ==
    /\ At(w, "recordRollback")
    /\ rolledBack' = [rolledBack EXCEPT ![worker[w].capability] = @ + 1]
    /\ Finish(w)
    /\ UNCHANGED <<approvals, documents, claims, acquired, killSwitch,
                   registry, faults, restarts>>

-----------------------------------------------------------------------------
(* Failures and the environment *)

Fault == faults < MaxFaults /\ faults' = faults + 1

(* A store write of install raises after the claim: the handler catches it *)
(* and undoes.  With LostReplies the write may have been committed.        *)
InstallWriteRaises(w) ==
    /\ Fault
    /\ At(w, "save") \/ At(w, "event")
    /\ \/ UNCHANGED <<documents, acquired>>
       \/ LostReplies /\ At(w, "save")  /\ SaveReady(w) /\ UNCHANGED acquired
       \/ LostReplies /\ At(w, "event") /\ RecordAcquisition(w) /\ UNCHANGED documents
    /\ Goto(w, "undo")
    /\ UNCHANGED <<approvals, claims, rolledBack, killSwitch, registry, restarts>>

(* Any other store call raises: nothing catches it and the handler ends    *)
(* there.  A contended claim or decision ends the handler the same way, as *)
(* does a contended release, which is given up with the claim still held.  *)
HandlerRaises(w) ==
    /\ Fault
    /\ worker[w].at \in Points \ {"idle", "pipeline", "register", "save", "event", "undo"}
    /\ Finish(w)
    /\ UNCHANGED <<store, killSwitch, registry, restarts>>

(* What rehydrate_capabilities puts in the registry: the candidate of the  *)
(* current passport of every READY document.                               *)
RehydratedFlag(c) == documents[c].implemented  \* mutant: the wrong field
Rehydrated(c) ==
    IF documents[c].state = "READY" /\ documents[c].implemented
    THEN documents[c].passport ELSE NoRequest

(* An instance stops, losing its registry and the operations its workers   *)
(* were running, and starts again with what rehydration finds: nothing if  *)
(* the capabilities could not be read, for rehydration never raises.       *)
Rehydrate(i) ==
    \/ /\ registry' = [registry EXCEPT ![i] = [c \in Capabilities |-> Rehydrated(c)]]
       /\ UNCHANGED faults
    \/ /\ registry' = [registry EXCEPT ![i] = [c \in Capabilities |-> NoRequest]]
       /\ Fault

Restart(i) ==
    /\ restarts < MaxRestarts
    /\ restarts' = restarts + 1
    /\ Rehydrate(i)
    /\ worker' = [w \in Workers |-> IF Home[w] = i THEN Idle ELSE worker[w]]
    /\ UNCHANGED <<store, killSwitch>>

SetKillSwitch ==
    /\ killSwitch' = ~killSwitch
    /\ UNCHANGED <<store, registry, worker, faults, restarts>>

-----------------------------------------------------------------------------
(* Specification *)

(* A new HTTP request arrives. *)
Arrive(w) ==
    \/ \E c \in Capabilities :
          ProposeStart(w, c) \/ InstallStart(w, c) \/ RollbackUnregister(w, c)
    \/ \E r \in Requests : DecideStart(w, r)

(* A handler that is running makes its next step. *)
Proceed(w) ==
    \/ ProposeStop(w)
    \/ \E r \in Requests : ProposeCreate(w, r)
    \/ ProposeSave(w)
    \/ DecideCommit(w) \/ DecideMarkRejected(w)
    \/ InstallReadDocument(w) \/ InstallReadApproval(w) \/ InstallClaim(w)
    \/ InstallRefresh(w) \/ InstallRegister(w) \/ InstallSave(w) \/ InstallEvent(w)
    \/ InstallUndo(w) \/ InstallRelease(w)
    \/ RollbackDisable(w) \/ RollbackEvent(w)

Raise(w) == InstallWriteRaises(w) \/ HandlerRaises(w)

Next ==
    \/ \E w \in Workers : Arrive(w) \/ Proceed(w) \/ Raise(w)
    \/ \E i \in Instances : Restart(i)
    \/ SetKillSwitch

Spec == Init /\ [][Next]_vars

(* A running handler is not abandoned: the thread pool keeps every request *)
(* it has accepted moving.  Nothing obliges a request to arrive.           *)
FairSpec == Spec /\ \A w \in Workers : WF_vars(Proceed(w))
-----------------------------------------------------------------------------
(* Properties *)

InCritical(w) == worker[w].at \in Critical

(* A claim on a name is only ever held for a request the owner approved,   *)
(* and for a request about that very name, whatever was re-proposed since. *)
ClaimsAreApproved ==
    \A c \in Capabilities : claims[c] # NoRequest =>
        approvals[claims[c]] = "APPROVED" /\ CapabilityOf[claims[c]] = c

(* Of all the workers of all the instances at most one is between claiming *)
(* a name and finishing or undoing its installation, and it holds the claim.*)
InstallIsExclusive ==
    \A v, w \in Workers :
        /\ InCritical(w) => claims[worker[w].capability] = worker[w].request
        /\ v # w /\ InCritical(v) /\ InCritical(w) =>
              worker[v].capability # worker[w].capability

(* A capability is acquired once: no retry, replay, race or re-proposal    *)
(* writes a second "Acquired" event for the name.  A second event takes a  *)
(* write that was committed and raised, and each of those pays for one.    *)
Unheard == IF LostReplies THEN faults ELSE 0   \* writes that may have committed unheard

AcquiredWithin(c, n) ==
    \A r, q \in {x \in Requests : CapabilityOf[x] = c} :
        /\ acquired[r] <= n
        /\ r # q => acquired[r] + acquired[q] <= n

AcquiredOnce == \A c \in Capabilities : AcquiredWithin(c, Unheard + 1)

(* What a document says was decided was decided: the code it calls         *)
(* installed is code the owner approved, even when install() wrote it into *)
(* a document re-proposed in the meantime, and a document marked rejected  *)
(* is of a name the owner rejected a proposal for, perhaps an older one.   *)
DocumentsTellDecisions ==
    \A c \in Capabilities :
        /\ documents[c].implemented => documents[c].installedCode # NoRequest
        /\ documents[c].installedCode # NoRequest =>
              approvals[documents[c].installedCode] = "APPROVED"
        /\ documents[c].state = "REJECTED" =>
              \E r \in Requests : CapabilityOf[r] = c /\ approvals[r] = "REJECTED"

(* Until an instance is restarted, the code any instance can call under a  *)
(* name is the code the claim on the name is held for.  A rollback or an   *)
(* undo on one instance leaves the others as they were, so they may differ *)
(* in whether they have the capability, but never in its code, which was   *)
(* approved.  (Rehydration breaks this: see RunningCodeApproved.)          *)
CallableCodeIsClaimed ==
    restarts = 0 =>
        \A i \in Instances, c \in Capabilities :
            registry[i][c] # NoRequest => registry[i][c] = claims[c]

(* The inductive strengthening: what a worker knows at each point of its   *)
(* operation, and that a name already acquired has its claim held for good. *)
KnowsRequest == Critical \cup
    {"saveProposal", "decide", "markRejected", "readApproval", "claim", "refresh"}
KnowsApproval == Critical \cup {"claim", "refresh"}

Knows(w) ==
    /\ worker[w].at # "idle" => worker[w].capability \in Capabilities
    /\ worker[w].at \in KnowsRequest =>
          /\ worker[w].request \in Requests
          /\ CapabilityOf[worker[w].request] = worker[w].capability
    /\ worker[w].at \in KnowsApproval =>
          approvals[worker[w].request] = "APPROVED"
    /\ At(w, "markRejected") => approvals[worker[w].request] = "REJECTED"
WorkersKnow == \A w \in Workers : Knows(w)

PassportsMatch ==
    \A c \in Capabilities : documents[c].passport # NoRequest =>
        CapabilityOf[documents[c].passport] = c

(* While a name is free, or its claim is in use, every event recorded for  *)
(* it was a write that raised.                                             *)
AcquisitionsHoldTheClaim ==
    \A c \in Capabilities :
        claims[c] = NoRequest \/ (\E w \in Workers : InCritical(w) /\ worker[w].capability = c)
            => AcquiredWithin(c, Unheard)

(* A worker that uses a claim has put code in its own registry at most, and *)
(* has taken it out again before it releases the claim.                    *)
OnlyItsOwnRegistry ==
    restarts = 0 =>
        \A w \in Workers, i \in Instances :
            InCritical(w) /\ registry[i][worker[w].capability] # NoRequest =>
                i = Home[w] /\ ~At(w, "release")

(* Every worker acts on what is still true of the store: the request it    *)
(* carries is about its capability and approved, its claim stands, and a   *)
(* name acquired keeps its claim, so that nothing is acquired again.       *)
LifecycleInv ==
    /\ TypeOK
    /\ WorkersKnow
    /\ PassportsMatch
    /\ ClaimsAreApproved
    /\ InstallIsExclusive
    /\ AcquiredOnce
    /\ AcquisitionsHoldTheClaim
    /\ DocumentsTellDecisions
    /\ CallableCodeIsClaimed
    /\ OnlyItsOwnRegistry

(* The lifecycle implements the abstract promise: every decision is made   *)
(* once, and the acquisitions recorded are the installs it allows.         *)
Authority == INSTANCE InstallAuthority WITH
                 decision <- approvals, installs <- acquired
RefinesInstallAuthority == Authority!Spec

(* Once the kill switch stays active, proposals, decisions and installs    *)
(* die out: what was already running finishes and nothing new starts.      *)
(* Only rollback, which reads no kill switch, may still be running.        *)
KillSwitchQuiesces ==
    <>[]killSwitch =>
        <>[](\A w \in Workers : worker[w].at \in {"idle", "disable", "recordRollback"})

(* What makes it so: every step of a handler leaves it fewer steps to go,  *)
(* whatever raises, and while the kill switch is active a worker that is   *)
(* done takes up nothing but a rollback.                                   *)
StepsLeft(point) ==
    CASE point = "idle" -> 0
      [] point \in {"saveProposal", "markRejected", "refresh", "release",
                    "recordRollback"} -> 1
      [] point \in {"pipeline", "decide", "undo", "disable"} -> 2
      [] point = "event" -> 3
      [] point = "save" -> 4
      [] point = "register" -> 5
      [] point = "claim" -> 6
      [] point = "readApproval" -> 7
      [] point = "readDocument" -> 8

HandlersRunDown ==
    [][\A w \in Workers : worker'[w].at # worker[w].at =>
          \/ StepsLeft(worker'[w].at) < StepsLeft(worker[w].at)
          \/ At(w, "idle") /\ (killSwitch => worker'[w].at = "disable")]_vars

-----------------------------------------------------------------------------
(* What the repository says and the code does not do: a run refutes it.    *)

(* engine.py: "Nothing installs without an explicit human yes."            *)
RunningCodeApproved ==
    \A i \in Instances, c \in Capabilities :
        registry[i][c] # NoRequest => approvals[registry[i][c]] = "APPROVED"
=============================================================================
