---------------------- MODULE CapabilityLifecycleProofs ----------------------
(***************************************************************************)
(* Proofs about CapabilityLifecycle, for any number of capabilities,       *)
(* requests, instances and workers and any value of the bounds.            *)
(*                                                                         *)
(* The inductive invariant is LifecycleInv.  TypeOK and WorkersKnow carry  *)
(* what a worker has learnt from its earlier store calls; they are kept    *)
(* first, and the other conjuncts follow from them action by action: the   *)
(* documents, then the claims with the acquisitions, then the registries.  *)
(***************************************************************************)
EXTENDS CapabilityLifecycle, TLAPS

-----------------------------------------------------------------------------
(* Lemmas on the operators *)

(* Each write to a capability document yields a document, and what it does *)
(* to the fields the invariant is about.                                   *)
LEMMA ProposedDocument ==
    ASSUME NEW d \in Document, NEW r \in MaybeRequest
    PROVE  /\ Proposed(d, r) \in Document
           /\ Proposed(d, r).passport = r
           /\ Proposed(d, r).implemented = FALSE
           /\ Proposed(d, r).state # "REJECTED"
           /\ Proposed(d, r).installedCode = d.installedCode
BY DEF Document, Proposed

(* install()'s write keeps the passport and names the code it was given.   *)
LEMMA InstalledDocument ==
    ASSUME NEW d \in Document, NEW n \in Nat, NEW r \in MaybeRequest
    PROVE  /\ Installed(d, n, r) \in Document
           /\ Installed(d, n, r).passport = d.passport
           /\ Installed(d, n, r).installedCode = r
           /\ Installed(d, n, r).state # "REJECTED"
BY DEF Document, Installed

(* A rejection touches nothing but the state. *)
LEMMA RejectedDocument ==
    ASSUME NEW d \in Document
    PROVE  /\ Rejected(d) \in Document
           /\ Rejected(d).passport = d.passport
           /\ Rejected(d).implemented = d.implemented
           /\ Rejected(d).installedCode = d.installedCode
BY DEF Document, Rejected

(* A rollback leaves a document that is not implemented, code unchanged.   *)
LEMMA DisabledDocument ==
    ASSUME NEW d \in Document
    PROVE  /\ Disabled(d) \in Document
           /\ Disabled(d).passport = d.passport
           /\ Disabled(d).implemented = FALSE
           /\ Disabled(d).state # "REJECTED"
           /\ Disabled(d).installedCode = d.installedCode
BY DEF Document, Disabled

(* A worker moved to another point, or finished, is still a worker. *)
LEMMA WorkerMoves ==
    ASSUME TypeOK, NEW w \in Workers, NEW p \in Points, Goto(w, p) \/ Finish(w)
    PROVE  worker' \in [Workers -> Worker]
BY DEF TypeOK, Goto, Finish, Idle, Doing, Worker, Points, MaybeRequest

(* A worker given a new operation, with its capability and request, is     *)
(* still a worker.                                                         *)
LEMMA WorkerTakesUp ==
    ASSUME TypeOK, NEW w \in Workers, NEW p \in Points, NEW c \in Capabilities,
           NEW r \in MaybeRequest, NEW n \in Nat,
           worker' = [worker EXCEPT ![w] = Doing(p, c, r, n)]
    PROVE  worker' \in [Workers -> Worker]
BY DEF TypeOK, Doing, Worker

-----------------------------------------------------------------------------
(* Type correctness *)

(* Every step of the system keeps every variable in its type. *)
LEMMA TypeStep ==
    ASSUME TypeOK, WorkersKnow, [Next]_vars PROVE TypeOK'
<1> USE ConstantsAssumption
<1>1. CASE UNCHANGED vars
  BY <1>1 DEF TypeOK, vars
<1>2. ASSUME NEW w \in Workers, Arrive(w) PROVE TypeOK'
  <2>1. ASSUME NEW c \in Capabilities, ProposeStart(w, c) \/ InstallStart(w, c)
        PROVE  TypeOK'
    <3>1. worker' \in [Workers -> Worker]
      BY <2>1, WorkerTakesUp DEF ProposeStart, InstallStart, Start, Points, MaybeRequest
    <3>2. QED
      BY <2>1, <3>1 DEF ProposeStart, InstallStart, TypeOK, store
  <2>2. ASSUME NEW c \in Capabilities, RollbackUnregister(w, c) PROVE TypeOK'
    <3>1. worker' \in [Workers -> Worker]
      BY <2>2, WorkerTakesUp DEF RollbackUnregister, Start, Points, MaybeRequest
    <3>2. QED
      BY <2>2, <3>1 DEF RollbackUnregister, TypeOK, MaybeRequest, store
  <2>3. ASSUME NEW r \in Requests, DecideStart(w, r) PROVE TypeOK'
    <3>1. worker' \in [Workers -> Worker]
      BY <2>3, WorkerTakesUp DEF DecideStart, Points, MaybeRequest
    <3>2. QED
      BY <2>3, <3>1 DEF DecideStart, TypeOK, store
  <2>4. QED
    BY <1>2, <2>1, <2>2, <2>3 DEF Arrive
<1>3. ASSUME NEW w \in Workers, Proceed(w) PROVE TypeOK'
  <2> DEFINE c == worker[w].capability
  <2>1. /\ worker[w] \in Worker
        /\ worker[w].version \in Nat
        /\ worker[w].version + 1 \in Nat
        /\ worker[w].request \in MaybeRequest
    BY DEF TypeOK, Worker
  <2>2. worker[w].at # "idle" => c \in Capabilities /\ documents[c] \in Document
    BY DEF TypeOK, WorkersKnow, Knows
  <2>3. CASE ProposeStop(w) \/ InstallRefresh(w) \/ InstallReadApproval(w)
    BY <2>3, WorkerMoves
       DEF ProposeStop, InstallRefresh, InstallReadApproval, TypeOK, store, Points
  <2>4. ASSUME NEW r \in Requests, ProposeCreate(w, r) PROVE TypeOK'
    <3>1. worker' \in [Workers -> Worker]
      BY <2>4, WorkerTakesUp DEF ProposeCreate, Points, MaybeRequest
    <3>2. QED
      BY <2>4, <3>1 DEF ProposeCreate, TypeOK
  <2>5. CASE ProposeSave(w)
    <3>1. documents' \in [Capabilities -> Document]
      BY <2>1, <2>2, <2>5, ProposedDocument DEF ProposeSave, At, TypeOK
    <3>2. QED
      BY <2>5, <3>1, WorkerMoves DEF ProposeSave, TypeOK, Points
  <2>6. CASE DecideCommit(w)
    <3>1. worker' \in [Workers -> Worker]
      BY <2>6, WorkerMoves DEF DecideCommit, Points
    <3>2. QED
      BY <2>6, <3>1 DEF DecideCommit, TypeOK
  <2>7. CASE DecideMarkRejected(w)
    <3>1. documents' \in [Capabilities -> Document]
      BY <2>1, <2>2, <2>7, RejectedDocument DEF DecideMarkRejected, At, TypeOK
    <3>2. QED
      BY <2>7, <3>1, WorkerMoves DEF DecideMarkRejected, TypeOK, Points
  <2>8. CASE InstallReadDocument(w)
    <3>1. documents[c].passport \in MaybeRequest /\ documents[c].version \in Nat
      BY <2>2, <2>8 DEF InstallReadDocument, At, Document
    <3>2. worker' \in [Workers -> Worker]
      BY <2>2, <2>8, <3>1, WorkerMoves, WorkerTakesUp
         DEF InstallReadDocument, At, Points
    <3>3. QED
      BY <2>8, <3>2 DEF InstallReadDocument, TypeOK, store
  <2>9. CASE InstallClaim(w)
    <3>1. worker' \in [Workers -> Worker]
      BY <2>9, WorkerMoves DEF InstallClaim, Points, Critical
    <3>2. claims' \in [Capabilities -> MaybeRequest]
      BY <2>1, <2>9 DEF InstallClaim, TypeOK
    <3>3. QED
      BY <2>9, <3>1, <3>2 DEF InstallClaim, TypeOK
  <2>10. CASE InstallRegister(w) \/ InstallUndo(w)
    <3>1. worker' \in [Workers -> Worker]
      BY <2>10, WorkerMoves DEF InstallRegister, InstallUndo, Points, Critical
    <3>2. registry' \in [Instances -> [Capabilities -> MaybeRequest]]
      BY <2>1, <2>10
         DEF InstallRegister, InstallUndo, CandidateCode, TypeOK, MaybeRequest
    <3>3. QED
      BY <2>10, <3>1, <3>2 DEF InstallRegister, InstallUndo, TypeOK, store
  <2>11. CASE InstallSave(w)
    <3>1. documents' \in [Capabilities -> Document]
      BY <2>1, <2>2, <2>11, InstalledDocument
         DEF InstallSave, SaveReady, CandidateCode, At, TypeOK
    <3>2. QED
      BY <2>11, <3>1, WorkerMoves DEF InstallSave, TypeOK, Points, Critical
  <2>12. CASE InstallEvent(w)
    <3>1. acquired' \in [Requests -> Nat]
      BY <2>12 DEF InstallEvent, RecordAcquisition, At, TypeOK, WorkersKnow, Knows,
                   KnowsRequest, Critical
    <3>2. QED
      BY <2>12, <3>1, WorkerMoves DEF InstallEvent, TypeOK, Points
  <2>13. CASE InstallRelease(w)
    <3>1. claims' \in [Capabilities -> MaybeRequest]
      BY <2>2, <2>13 DEF InstallRelease, At, TypeOK, MaybeRequest
    <3>2. QED
      BY <2>13, <3>1, WorkerMoves DEF InstallRelease, TypeOK, Points
  <2>14. CASE RollbackDisable(w)
    <3>1. documents' \in [Capabilities -> Document]
      BY <2>2, <2>14, DisabledDocument DEF RollbackDisable, At, TypeOK
    <3>2. QED
      BY <2>14, <3>1, WorkerMoves DEF RollbackDisable, TypeOK, Points
  <2>15. CASE RollbackEvent(w)
    <3>1. rolledBack' \in [Capabilities -> Nat]
      BY <2>2, <2>15 DEF RollbackEvent, At, TypeOK
    <3>2. QED
      BY <2>15, <3>1, WorkerMoves DEF RollbackEvent, TypeOK, Points
  <2>16. QED
    BY <1>3, <2>3, <2>4, <2>5, <2>6, <2>7, <2>8, <2>9, <2>10, <2>11, <2>12, <2>13,
       <2>14, <2>15 DEF Proceed
<1>4. ASSUME NEW w \in Workers, Raise(w) PROVE TypeOK'
  <2>1. worker' \in [Workers -> Worker]
    BY <1>4, WorkerMoves DEF Raise, InstallWriteRaises, HandlerRaises, Points, Critical
  <2>2. CASE HandlerRaises(w)
    BY <2>1, <2>2 DEF HandlerRaises, Fault, TypeOK, store
  <2>3. CASE InstallWriteRaises(w)
    <3>1. worker[w].at \in {"save", "event"}
      BY <2>3 DEF InstallWriteRaises, At
    <3>2. worker[w].capability \in Capabilities /\ worker[w].request \in Requests
      BY <3>1 DEF WorkersKnow, Knows, KnowsRequest, Critical
    <3>3. documents' \in [Capabilities -> Document]
      <4>1. CASE UNCHANGED documents
        BY <4>1 DEF TypeOK
      <4>2. CASE SaveReady(w)
        <5>1. worker[w].version + 1 \in Nat /\ worker[w].request \in MaybeRequest
          BY DEF TypeOK, Worker
        <5>2. documents[worker[w].capability] \in Document
          BY <3>2 DEF TypeOK
        <5>3. QED
          BY <3>2, <4>2, <5>1, <5>2, InstalledDocument DEF SaveReady, CandidateCode, TypeOK
      <4>3. QED
        BY <2>3, <4>1, <4>2 DEF InstallWriteRaises
    <3>4. acquired' \in [Requests -> Nat]
      BY <2>3, <3>2 DEF InstallWriteRaises, RecordAcquisition, TypeOK
    <3>5. faults' \in Nat
      BY <2>3 DEF InstallWriteRaises, Fault, TypeOK
    <3>6. QED
      BY <2>1, <2>3, <3>3, <3>4, <3>5 DEF InstallWriteRaises, TypeOK
  <2>4. QED
    BY <1>4, <2>2, <2>3 DEF Raise
<1>5. ASSUME NEW i \in Instances, Restart(i) PROVE TypeOK'
  <2>1. \A c \in Capabilities : Rehydrated(c) \in MaybeRequest
    BY DEF Rehydrated, TypeOK, Document, MaybeRequest
  <2>2. registry' \in [Instances -> [Capabilities -> MaybeRequest]]
    BY <1>5, <2>1 DEF Restart, Rehydrate, TypeOK, MaybeRequest
  <2>3. Idle \in Worker
    BY DEF Idle, Doing, Worker, Points, MaybeRequest
  <2>4. worker' \in [Workers -> Worker]
    BY <1>5, <2>3 DEF Restart, TypeOK
  <2>5. faults' \in Nat
    BY <1>5 DEF Restart, Rehydrate, Fault, TypeOK
  <2>6. QED
    BY <1>5, <2>2, <2>4, <2>5 DEF Restart, TypeOK, store
<1>6. CASE SetKillSwitch
  BY <1>6 DEF SetKillSwitch, TypeOK, store
<1>7. QED
  BY <1>1, <1>2, <1>3, <1>4, <1>5, <1>6 DEF Next
-----------------------------------------------------------------------------
(* What workers know *)

(* A decision, once recorded, is never changed by any step. *)
LEMMA DecisionsStand ==
    ASSUME TypeOK, [Next]_vars
    PROVE  \A r \in Requests : approvals[r] \in {"APPROVED", "REJECTED"} =>
                                   approvals'[r] = approvals[r]
<1> SUFFICES ASSUME NEW q \in Requests, approvals[q] \in {"APPROVED", "REJECTED"}
             PROVE  approvals'[q] = approvals[q]
  OBVIOUS
<1>1. ASSUME NEW w \in Workers, NEW r \in Requests, ProposeCreate(w, r)
      PROVE  approvals'[q] = approvals[q]
  BY <1>1 DEF ProposeCreate, TypeOK
<1>2. ASSUME NEW w \in Workers, DecideCommit(w)
      PROVE  approvals'[q] = approvals[q]
  BY <1>2 DEF DecideCommit, Undecided, TypeOK
<1>3. ASSUME NEW w \in Workers, Arrive(w)
      PROVE  approvals'[q] = approvals[q]
  BY <1>3 DEF Arrive, ProposeStart, InstallStart, RollbackUnregister, DecideStart, store
<1>4. ASSUME NEW w \in Workers, Proceed(w)
      PROVE  approvals'[q] = approvals[q]
  BY <1>1, <1>2, <1>4
     DEF Proceed, ProposeStop, ProposeSave, DecideMarkRejected, InstallReadDocument,
         InstallReadApproval, InstallClaim, InstallRefresh, InstallRegister,
         InstallSave, InstallEvent, InstallUndo, InstallRelease, RollbackDisable,
         RollbackEvent, store
<1>5. ASSUME NEW w \in Workers, Raise(w)
      PROVE  approvals'[q] = approvals[q]
  BY <1>5 DEF Raise, InstallWriteRaises, HandlerRaises, store
<1>6. ASSUME NEW i \in Instances, Restart(i)
      PROVE  approvals'[q] = approvals[q]
  BY <1>6 DEF Restart, store
<1>7. QED
  BY <1>3, <1>4, <1>5, <1>6 DEF Next, SetKillSwitch, store, vars

(* What the other workers know survives a step of one worker. *)
LEMMA OthersKnow ==
    ASSUME TypeOK, WorkersKnow, [Next]_vars,
           NEW w \in Workers, NEW x, worker' = [worker EXCEPT ![w] = x], Knows(w)'
    PROVE  WorkersKnow'
<1> SUFFICES ASSUME NEW v \in Workers, v # w PROVE Knows(v)'
  BY DEF WorkersKnow
<1>1. worker'[v] = worker[v]
  BY DEF TypeOK
<1>2. QED
  BY <1>1, DecisionsStand DEF WorkersKnow, Knows, At, KnowsApproval, KnowsRequest

(* Every step leaves each worker knowing what its point requires: a        *)
(* request about its capability, and from the claim on an approved one.    *)
LEMMA KnowStep ==
    ASSUME TypeOK, WorkersKnow, PassportsMatch, [Next]_vars PROVE WorkersKnow'
<1> USE ConstantsAssumption
<1>a. ASSUME NEW w \in Workers, Finish(w) PROVE WorkersKnow'
  <2>1. Knows(w)'
    BY <1>a DEF Finish, Idle, Doing, TypeOK, Knows, At, KnowsRequest, KnowsApproval, Critical
  <2>2. QED
    BY <1>a, <2>1, OthersKnow DEF Finish
<1>b. ASSUME NEW w \in Workers, NEW p, Goto(w, p), worker[w].at # "idle",
             p \in KnowsRequest => worker[w].at \in KnowsRequest,
             p \in KnowsApproval =>
                /\ worker[w].at \in KnowsRequest
                /\ approvals[worker[w].request] = "APPROVED",
             p = "markRejected" =>
                /\ worker[w].at \in KnowsRequest
                /\ approvals'[worker[w].request] = "REJECTED"
      PROVE  WorkersKnow'
  <2>1. worker'[w] = [worker[w] EXCEPT !.at = p]
    BY <1>b DEF Goto, TypeOK
  <2>2. /\ worker'[w].at = p
        /\ worker'[w].capability = worker[w].capability
        /\ worker'[w].request = worker[w].request
    BY <2>1 DEF TypeOK, Worker
  <2>3. worker' = [worker EXCEPT ![w] = worker'[w]]
    BY <1>b, <2>1 DEF Goto
  <2>4. Knows(w)'
    BY <1>b, <2>2, DecisionsStand DEF WorkersKnow, Knows, At
  <2>5. QED
    BY <2>3, <2>4, OthersKnow
<1>1. CASE UNCHANGED vars
  BY <1>1 DEF WorkersKnow, Knows, At, vars
<1>2. ASSUME NEW w \in Workers, Arrive(w) PROVE WorkersKnow'
  <2>1. PICK p \in {"pipeline", "readDocument", "disable", "decide"},
             c \in Capabilities, r \in MaybeRequest :
          /\ worker' = [worker EXCEPT ![w] = Doing(p, c, r, 0)]
          /\ p = "decide" => r \in Requests /\ CapabilityOf[r] = c
    BY <1>2 DEF Arrive, ProposeStart, InstallStart, RollbackUnregister, DecideStart,
                Start, MaybeRequest
  <2>2. Knows(w)'
    BY <2>1 DEF Doing, TypeOK, Knows, At, KnowsRequest, KnowsApproval, Critical
  <2>3. QED
    BY <2>1, <2>2, OthersKnow
<1>3. ASSUME NEW w \in Workers, Proceed(w) PROVE WorkersKnow'
  <2>1. ASSUME NEW r \in Requests, ProposeCreate(w, r) PROVE WorkersKnow'
    <3>1. Knows(w)'
      BY <2>1 DEF ProposeCreate, Doing, TypeOK, Knows, At, KnowsRequest, KnowsApproval,
                  Critical
    <3>2. QED
      BY <2>1, <3>1, OthersKnow DEF ProposeCreate
  <2>2. CASE DecideCommit(w)
    <3>1. CASE Finish(w)
      BY <3>1, <1>a
    <3>2. CASE ~Finish(w)
      <4>1. /\ Goto(w, "markRejected") /\ worker[w].request \in Requests
            /\ worker[w].at = "decide"
            /\ approvals' = [approvals EXCEPT ![worker[w].request] = "REJECTED"]
        BY <2>2, <3>2 DEF DecideCommit, At, WorkersKnow, Knows, KnowsRequest
      <4>2. approvals'[worker[w].request] = "REJECTED"
        BY <4>1 DEF TypeOK
      <4>3. QED
        BY <4>1, <4>2, <1>b DEF KnowsRequest, KnowsApproval, Critical
    <3>3. QED
      BY <3>1, <3>2
  <2>3. CASE InstallReadDocument(w)
    <3>1. CASE Finish(w)
      BY <3>1, <1>a
    <3>2. CASE ~Finish(w)
      <4> DEFINE c == worker[w].capability
                 d == documents[c]
      <4>1. worker' = [worker EXCEPT ![w] = Doing("readApproval", c, d.passport, d.version)]
            /\ d.passport # NoRequest /\ c \in Capabilities
        BY <2>3, <3>2 DEF InstallReadDocument, At, WorkersKnow, Knows
      <4>2. d.passport \in Requests /\ CapabilityOf[d.passport] = c
        BY <4>1 DEF TypeOK, Document, MaybeRequest, PassportsMatch
      <4>3. Knows(w)'
        BY <4>1, <4>2 DEF Doing, TypeOK, Knows, At, KnowsRequest, KnowsApproval, Critical
      <4>4. QED
        BY <4>1, <4>3, OthersKnow
    <3>3. QED
      BY <3>1, <3>2
  <2>4. CASE InstallReadApproval(w)
    BY <2>4, <1>a, <1>b
       DEF InstallReadApproval, Approved, At, KnowsRequest, KnowsApproval, Critical
  <2>5. CASE InstallClaim(w) \/ InstallRegister(w) \/ InstallSave(w) \/ InstallUndo(w)
    <3>1. worker[w].at \in KnowsApproval /\ worker[w].at \in KnowsRequest
          /\ worker[w].at # "idle"
      BY <2>5 DEF InstallClaim, InstallRegister, InstallSave, InstallUndo, At,
                  KnowsApproval, KnowsRequest, Critical
    <3>2. approvals[worker[w].request] = "APPROVED"
      BY <3>1 DEF WorkersKnow, Knows
    <3>3. \E p : p # "markRejected" /\ Goto(w, p)
      BY <2>5 DEF InstallClaim, InstallRegister, InstallSave, InstallUndo
    <3>4. QED
      BY <3>1, <3>2, <3>3, <1>b
  <2>6. CASE RollbackDisable(w)
    BY <2>6, <1>b DEF RollbackDisable, At, KnowsRequest, KnowsApproval, Critical
  <2>7. QED
    BY <1>3, <1>a, <2>1, <2>2, <2>3, <2>4, <2>5, <2>6
       DEF Proceed, ProposeStop, ProposeSave, DecideMarkRejected, InstallRefresh,
           InstallEvent, InstallRelease, RollbackEvent
<1>4. ASSUME NEW w \in Workers, Raise(w) PROVE WorkersKnow'
  <2>1. CASE HandlerRaises(w)
    BY <2>1, <1>a DEF HandlerRaises
  <2>2. CASE InstallWriteRaises(w)
    <3>1. worker[w].at \in {"save", "event"} /\ Goto(w, "undo")
      BY <2>2 DEF InstallWriteRaises, At
    <3>2. worker[w].at \in KnowsApproval /\ worker[w].at \in KnowsRequest
      BY <3>1 DEF KnowsApproval, KnowsRequest, Critical
    <3>3. QED
      BY <3>1, <3>2, <1>b DEF WorkersKnow, Knows
  <2>3. QED
    BY <1>4, <2>1, <2>2 DEF Raise
<1>5. ASSUME NEW i \in Instances, Restart(i) PROVE WorkersKnow'
  <2>1. Idle.at = "idle"
    BY DEF Idle, Doing
  <2>2. \A w \in Workers : worker'[w] = Idle \/ worker'[w] = worker[w]
    BY <1>5 DEF Restart
  <2>3. approvals' = approvals
    BY <1>5 DEF Restart, store
  <2>4. QED
    BY <2>1, <2>2, <2>3 DEF WorkersKnow, Knows, At, KnowsRequest, KnowsApproval, Critical
<1>6. CASE SetKillSwitch
  BY <1>6 DEF SetKillSwitch, WorkersKnow, Knows, At, store
<1>7. QED
  BY <1>1, <1>2, <1>3, <1>4, <1>5, <1>6 DEF Next
-----------------------------------------------------------------------------
(* The documents *)

(* Writes to documents keep each passport on its own capability, and give  *)
(* a document only approved code as its installed code.                    *)
LEMMA DocumentStep ==
    ASSUME LifecycleInv, [Next]_vars
    PROVE  PassportsMatch' /\ DocumentsTellDecisions'
<1> USE ConstantsAssumption
<1> DEFINE Refused(b) == \E r \in Requests : CapabilityOf[r] = b /\ approvals[r] = "REJECTED"
<1>1. /\ TypeOK /\ WorkersKnow /\ PassportsMatch /\ DocumentsTellDecisions
      /\ \A r \in Requests : approvals[r] = "APPROVED" => approvals'[r] = "APPROVED"
      /\ \A b \in Capabilities : Refused(b) => Refused(b)'
  BY DecisionsStand DEF LifecycleInv
<1>2. ASSUME UNCHANGED documents PROVE PassportsMatch' /\ DocumentsTellDecisions'
  BY <1>1, <1>2 DEF PassportsMatch, DocumentsTellDecisions, TypeOK, Document, MaybeRequest
<1>3. ASSUME NEW c \in Capabilities, NEW d \in Document,
             documents' = [documents EXCEPT ![c] = d],
             d.passport # NoRequest => CapabilityOf[d.passport] = c,
             d.implemented => d.installedCode # NoRequest,
             d.installedCode # NoRequest => approvals'[d.installedCode] = "APPROVED",
             d.state = "REJECTED" => Refused(c)
      PROVE  PassportsMatch' /\ DocumentsTellDecisions'
  <2>1. documents'[c] = d /\ \A b \in Capabilities \ {c} : documents'[b] = documents[b]
    BY <1>1, <1>3 DEF TypeOK
  <2>2. \A b \in Capabilities \ {c} : documents[b].installedCode \in MaybeRequest
    BY <1>1 DEF TypeOK, Document
  <2>3. QED
    BY <1>1, <1>3, <2>1, <2>2 DEF PassportsMatch, DocumentsTellDecisions, MaybeRequest
<1>4. ASSUME NEW w \in Workers, worker[w].at # "idle"
      PROVE  /\ worker[w].capability \in Capabilities
             /\ documents[worker[w].capability] \in Document
             /\ worker[w].version + 1 \in Nat
             /\ worker[w].at \in KnowsRequest =>
                   /\ worker[w].request \in Requests
                   /\ worker[w].request # NoRequest
                   /\ CapabilityOf[worker[w].request] = worker[w].capability
             /\ worker[w].at \in KnowsApproval =>
                   approvals'[worker[w].request] = "APPROVED"
  BY <1>1, <1>4 DEF TypeOK, Worker, WorkersKnow, Knows, KnowsApproval, KnowsRequest
<1>5. ASSUME NEW c \in Capabilities
      PROVE  LET d == documents[c] IN
             /\ d \in Document
             /\ d.passport # NoRequest => CapabilityOf[d.passport] = c
             /\ d.implemented => d.installedCode # NoRequest
             /\ d.installedCode # NoRequest => approvals'[d.installedCode] = "APPROVED"
             /\ d.state = "REJECTED" => Refused(c)
  BY <1>1 DEF TypeOK, Document, MaybeRequest, PassportsMatch, DocumentsTellDecisions
<1> HIDE DEF Refused
<1>6. ASSUME NEW w \in Workers, SaveReady(w), worker[w].at \in {"save", "event"}
      PROVE  PassportsMatch' /\ DocumentsTellDecisions'
  <2> DEFINE c == worker[w].capability
             e == Installed(documents[c], worker[w].version + 1, worker[w].request)
  <2>1. /\ c \in Capabilities /\ documents[c] \in Document
        /\ worker[w].version + 1 \in Nat
        /\ worker[w].request \in Requests /\ worker[w].request # NoRequest
        /\ approvals'[worker[w].request] = "APPROVED"
    BY <1>4, <1>6 DEF KnowsRequest, KnowsApproval, Critical
  <2>2. worker[w].request \in MaybeRequest
    BY <2>1 DEF MaybeRequest
  <2>3. /\ e \in Document /\ e.passport = documents[c].passport
        /\ e.installedCode = worker[w].request /\ e.state # "REJECTED"
    BY <2>1, <2>2, InstalledDocument
  <2>4. documents' = [documents EXCEPT ![c] = e]
    BY <1>6 DEF SaveReady, CandidateCode
  <2> HIDE DEF e
  <2>5. QED
    BY <1>3, <1>5, <2>1, <2>3, <2>4
<1>7. ASSUME NEW w \in Workers, ProposeSave(w)
      PROVE  PassportsMatch' /\ DocumentsTellDecisions'
  <2> DEFINE c == worker[w].capability
             e == Proposed(documents[c], worker[w].request)
  <2>1. /\ c \in Capabilities /\ documents[c] \in Document
        /\ worker[w].request \in Requests /\ CapabilityOf[worker[w].request] = c
    BY <1>4, <1>7 DEF ProposeSave, At, KnowsRequest
  <2>2. worker[w].request \in MaybeRequest
    BY <2>1 DEF MaybeRequest
  <2>3. /\ e \in Document /\ e.passport = worker[w].request /\ e.implemented = FALSE
        /\ e.installedCode = documents[c].installedCode /\ e.state # "REJECTED"
    BY <2>1, <2>2, ProposedDocument
  <2>4. documents' = [documents EXCEPT ![c] = e]
    BY <1>7 DEF ProposeSave
  <2> HIDE DEF e
  <2>5. QED
    BY <1>3, <1>5, <2>1, <2>3, <2>4
<1>8. ASSUME NEW w \in Workers, DecideMarkRejected(w) \/ RollbackDisable(w)
      PROVE  PassportsMatch' /\ DocumentsTellDecisions'
  <2> DEFINE c == worker[w].capability
             d == documents[c]
  <2>1. c \in Capabilities /\ d \in Document
    BY <1>4, <1>8 DEF DecideMarkRejected, RollbackDisable, At
  <2>2. PICK e :
           /\ documents' = [documents EXCEPT ![c] = e]
           /\ (e = Rejected(d) /\ DecideMarkRejected(w)) \/ e = Disabled(d)
    BY <1>8 DEF DecideMarkRejected, RollbackDisable
  <2>3. /\ e \in Document /\ e.passport = d.passport
        /\ e.implemented => d.implemented
        /\ e.installedCode = d.installedCode
        /\ e.state = "REJECTED" => DecideMarkRejected(w)
    <3>1. CASE e = Rejected(d) /\ DecideMarkRejected(w)
      BY <2>1, <3>1, RejectedDocument
    <3>2. CASE e = Disabled(d)
      BY <2>1, <3>2, DisabledDocument
    <3>3. QED
      BY <2>2, <3>1, <3>2
  <2>4. DecideMarkRejected(w) => Refused(c)
    BY <1>1, <1>4 DEF DecideMarkRejected, At, WorkersKnow, Knows, KnowsRequest, Refused
  <2>5. QED
    BY <1>3, <1>5, <2>1, <2>2, <2>3, <2>4
<1>9. CASE UNCHANGED vars
  BY <1>2, <1>9 DEF vars
<1>10. ASSUME NEW w \in Workers, Arrive(w)
       PROVE  PassportsMatch' /\ DocumentsTellDecisions'
  BY <1>2, <1>10 DEF Arrive, ProposeStart, InstallStart, RollbackUnregister,
                     DecideStart, store
<1>11. ASSUME NEW w \in Workers, Proceed(w)
       PROVE  PassportsMatch' /\ DocumentsTellDecisions'
  <2>1. CASE InstallSave(w)
    BY <1>6, <2>1 DEF InstallSave, At
  <2>2. CASE ProposeSave(w) \/ DecideMarkRejected(w) \/ RollbackDisable(w)
    BY <1>7, <1>8, <2>2
  <2>3. CASE ~(InstallSave(w) \/ ProposeSave(w) \/ DecideMarkRejected(w)
               \/ RollbackDisable(w))
    BY <1>2, <1>11, <2>3
       DEF Proceed, ProposeStop, ProposeCreate, DecideCommit, InstallReadDocument,
           InstallReadApproval, InstallClaim, InstallRefresh, InstallRegister,
           InstallEvent, InstallUndo, InstallRelease, RollbackEvent, store
  <2>4. QED
    BY <2>1, <2>2, <2>3
<1>12. ASSUME NEW w \in Workers, Raise(w)
       PROVE  PassportsMatch' /\ DocumentsTellDecisions'
  <2>1. \/ UNCHANGED documents
        \/ SaveReady(w) /\ worker[w].at \in {"save", "event"}
    BY <1>12 DEF Raise, InstallWriteRaises, HandlerRaises, At, store
  <2>2. QED
    BY <1>2, <1>6, <2>1
<1>13. QED
  BY <1>2, <1>9, <1>10, <1>11, <1>12 DEF Next, Restart, SetKillSwitch, store
-----------------------------------------------------------------------------
(* Claims, exclusion and acquisitions *)

ClaimInv ==
    /\ ClaimsAreApproved
    /\ InstallIsExclusive
    /\ AcquiredOnce
    /\ AcquisitionsHoldTheClaim

(* The claim on a name is free, or in use by a worker that may yet record. *)
Open(c) ==
    claims[c] = NoRequest \/ \E w \in Workers : InCritical(w) /\ worker[w].capability = c

(* A step pays for what it records: it keeps every bound on the            *)
(* acquisitions of a name that grows with the writes that raised.          *)
Paid ==
    \A c \in Capabilities, n \in {0, 1} :
        AcquiredWithin(c, Unheard + n) => AcquiredWithin(c, Unheard + n)'

(* Faults are only counted up. *)
LEMMA FaultsGrow ==
    ASSUME TypeOK, [Next]_vars PROVE faults' \in Nat /\ faults' >= faults
<1>1. faults \in Nat
  BY DEF TypeOK
<1>2. ASSUME NEW w \in Workers, Arrive(w) PROVE faults' = faults
  BY <1>2 DEF Arrive, ProposeStart, InstallStart, RollbackUnregister, DecideStart
<1>3. ASSUME NEW w \in Workers, Proceed(w) PROVE faults' = faults
  BY <1>3
     DEF Proceed, ProposeStop, ProposeCreate, ProposeSave, DecideCommit,
         DecideMarkRejected, InstallReadDocument, InstallReadApproval, InstallClaim,
         InstallRefresh, InstallRegister, InstallSave, InstallEvent, InstallUndo,
         InstallRelease, RollbackDisable, RollbackEvent
<1>4. ASSUME NEW w \in Workers, Raise(w) PROVE faults' = faults + 1
  BY <1>4 DEF Raise, InstallWriteRaises, HandlerRaises, Fault
<1>5. ASSUME NEW i \in Instances, Restart(i) PROVE faults' \in {faults, faults + 1}
  BY <1>5 DEF Restart, Rehydrate, Fault
<1>6. CASE SetKillSwitch \/ UNCHANGED vars
  BY <1>1, <1>6 DEF SetKillSwitch, vars
<1>7. QED
  BY <1>1, <1>2, <1>3, <1>4, <1>5, <1>6 DEF Next

(* A step that records nothing pays for it. *)
LEMMA NothingToPay ==
    ASSUME TypeOK, [Next]_vars, UNCHANGED acquired PROVE Paid
<1>1. Unheard \in Nat /\ Unheard' \in Nat /\ Unheard' >= Unheard
  BY FaultsGrow DEF Unheard, TypeOK
<1>2. \A r, q \in Requests : acquired[r] \in Nat /\ acquired[r] + acquired[q] \in Nat
  BY DEF TypeOK
<1>3. QED
  BY <1>1, <1>2 DEF Paid, AcquiredWithin

(* A write that raises pays for the event it may have recorded. *)
LEMMA RaisePays ==
    ASSUME TypeOK, WorkersKnow, [Next]_vars, NEW w \in Workers, InstallWriteRaises(w)
    PROVE  Paid
<1>1. CASE UNCHANGED acquired
  BY <1>1, NothingToPay
<1>2. CASE ~UNCHANGED acquired
  <2> DEFINE r == worker[w].request
  <2>1. /\ LostReplies /\ faults' = faults + 1 /\ r \in Requests
        /\ acquired' = [acquired EXCEPT ![r] = @ + 1]
    BY <1>2 DEF InstallWriteRaises, RecordAcquisition, Fault, At, WorkersKnow, Knows,
                KnowsRequest, Critical
  <2>2. Unheard \in Nat /\ Unheard' = Unheard + 1
    BY <2>1 DEF Unheard, TypeOK
  <2>3. \A x \in Requests : /\ acquired[x] \in Nat
                            /\ acquired'[x] = IF x = r THEN acquired[x] + 1 ELSE acquired[x]
    BY <2>1 DEF TypeOK
  <2>4. ASSUME NEW c \in Capabilities, NEW n \in {0, 1},
               AcquiredWithin(c, Unheard + n), NEW x \in Requests, NEW y \in Requests,
               CapabilityOf[x] = c, CapabilityOf[y] = c
        PROVE  /\ acquired'[x] <= Unheard' + n
               /\ x # y => acquired'[x] + acquired'[y] <= Unheard' + n
    <3>1. acquired[x] <= Unheard + n /\ (x # y => acquired[x] + acquired[y] <= Unheard + n)
      BY <2>4 DEF AcquiredWithin
    <3>2. QED
      BY <2>2, <2>3, <3>1
  <2>5. QED
    BY <2>4 DEF Paid, AcquiredWithin
<1>3. QED
  BY <1>1, <1>2

(* The facts of the invariant the claim argument works from. *)
LEMMA Held ==
    ASSUME LifecycleInv, [Next]_vars
    PROVE  /\ TypeOK /\ ClaimInv
           /\ \A r \in Requests : approvals[r] = "APPROVED" => approvals'[r] = "APPROVED"
           /\ \A w \in Workers : worker[w].at \in KnowsApproval =>
                 /\ worker[w].capability \in Capabilities
                 /\ worker[w].request \in Requests
                 /\ worker[w].request # NoRequest
                 /\ CapabilityOf[worker[w].request] = worker[w].capability
                 /\ approvals[worker[w].request] = "APPROVED"
BY DecisionsStand, ConstantsAssumption
   DEF LifecycleInv, ClaimInv, WorkersKnow, Knows, KnowsApproval, KnowsRequest, Critical

(* A step that touches no claim, takes no worker into the critical section *)
(* and pays for what it records keeps them all.                            *)
Quiet ==
    /\ UNCHANGED claims
    /\ Paid
    /\ \A w \in Workers : InCritical(w)' =>
          /\ InCritical(w)
          /\ worker'[w].capability = worker[w].capability
          /\ worker'[w].request = worker[w].request

(* A step that leaves claims alone, pays for its acquisitions and puts     *)
(* nobody in the critical section keeps the claim invariant.               *)
LEMMA QuietStep ==
    ASSUME LifecycleInv, [Next]_vars, Quiet PROVE ClaimInv'
<1>1. ClaimsAreApproved'
  BY Held DEF ClaimInv, ClaimsAreApproved, Quiet, TypeOK, MaybeRequest
<1>2. InstallIsExclusive'
  BY Held DEF ClaimInv, InstallIsExclusive, Quiet
<1>3. AcquiredOnce'
  BY Held DEF ClaimInv, AcquiredOnce, Quiet, Paid
<1>4. AcquisitionsHoldTheClaim'
  <2>1. \A c \in Capabilities : Open(c)' => Open(c)
    BY DEF Open, Quiet
  <2>2. \A c \in Capabilities : AcquiredWithin(c, Unheard) => AcquiredWithin(c, Unheard)'
    <3>1. Unheard + 0 = Unheard /\ Unheard' + 0 = Unheard'
      BY Held, FaultsGrow DEF Unheard, TypeOK
    <3>2. QED
      BY <3>1 DEF Quiet, Paid, AcquiredWithin
  <2>3. QED
    BY <2>1, <2>2, Held DEF ClaimInv, AcquisitionsHoldTheClaim, Open
<1>5. QED
  BY <1>1, <1>2, <1>3, <1>4 DEF ClaimInv

(* A worker that finishes, or moves without entering the critical section, *)
(* leaves every other worker where it was.                                 *)
LEMMA QuietMove ==
    ASSUME TypeOK, UNCHANGED claims, Paid,
           NEW w \in Workers, NEW x, worker' = [worker EXCEPT ![w] = x],
           x.at \in Critical =>
              /\ InCritical(w)
              /\ x.capability = worker[w].capability
              /\ x.request = worker[w].request
    PROVE  Quiet
BY DEF Quiet, InCritical, TypeOK

(* Moving on outside the critical section, or on inside it, is quiet. *)
LEMMA QuietGoto ==
    ASSUME TypeOK, UNCHANGED claims, Paid,
           NEW w \in Workers, NEW p, Goto(w, p), p \in Critical => InCritical(w)
    PROVE  Quiet
<1> DEFINE x == [worker[w] EXCEPT !.at = p]
<1>1. worker' = [worker EXCEPT ![w] = x]
  BY DEF Goto
<1>2. x.at = p /\ x.capability = worker[w].capability /\ x.request = worker[w].request
  BY DEF TypeOK, Worker
<1> HIDE DEF x
<1>3. QED
  BY <1>1, <1>2, QuietMove

(* Finishing is quiet. *)
LEMMA QuietFinish ==
    ASSUME TypeOK, UNCHANGED claims, Paid,
           NEW w \in Workers, Finish(w)
    PROVE  Quiet
<1>1. Idle.at \notin Critical
  BY DEF Idle, Doing, Critical
<1>2. QED
  BY <1>1, QuietMove DEF Finish

(* While nothing is recorded, both bounds on the acquisitions are kept.    *)
LEMMA BoundsKept ==
    ASSUME LifecycleInv, [Next]_vars, UNCHANGED acquired
    PROVE  \A c \in Capabilities :
              /\ AcquiredWithin(c, Unheard) => AcquiredWithin(c, Unheard)'
              /\ AcquiredWithin(c, Unheard + 1) => AcquiredWithin(c, Unheard + 1)'
<1>1. Unheard + 0 = Unheard /\ Unheard' + 0 = Unheard'
  BY Held, FaultsGrow DEF Unheard, TypeOK
<1>2. QED
  BY <1>1, Held, NothingToPay DEF Paid, AcquiredWithin

(* The claim is taken: the name was free, so nobody was in the critical    *)
(* section for it and nothing had been acquired under it.                  *)
LEMMA ClaimTaken ==
    ASSUME LifecycleInv, [Next]_vars, NEW w \in Workers, At(w, "claim"),
           Unclaimed(worker[w].capability, worker[w].request),
           claims' = [claims EXCEPT ![worker[w].capability] = worker[w].request],
           Goto(w, "register"), UNCHANGED acquired
    PROVE  ClaimInv'
<1> DEFINE c == worker[w].capability
           r == worker[w].request
<1>1. /\ c \in Capabilities /\ r \in Requests /\ CapabilityOf[r] = c
      /\ approvals'[r] = "APPROVED" /\ claims[c] = NoRequest
  BY Held DEF At, KnowsApproval, Unclaimed
<1>2. /\ worker'[w].at = "register" /\ worker'[w].capability = c /\ worker'[w].request = r
      /\ \A v \in Workers \ {w} : worker'[v] = worker[v]
  <2>1. worker[w] \in Worker
    BY Held DEF TypeOK
  <2>2. worker'[w] = [worker[w] EXCEPT !.at = "register"]
    BY Held DEF Goto, TypeOK
  <2>3. QED
    BY <2>1, <2>2, Held DEF Goto, TypeOK, Worker
<1>3. claims'[c] = r /\ \A b \in Capabilities \ {c} : claims'[b] = claims[b]
  BY <1>1, Held DEF TypeOK
<1>4. \A v \in Workers : InCritical(v) => worker[v].capability # c
  BY <1>1, Held DEF ClaimInv, InstallIsExclusive, InCritical, KnowsApproval
<1>5. InCritical(w)' /\ \A v \in Workers \ {w} : InCritical(v)' <=> InCritical(v)
  BY <1>2 DEF InCritical, Critical
<1>6. ClaimsAreApproved'
  BY <1>1, <1>3, Held DEF ClaimInv, ClaimsAreApproved, TypeOK, MaybeRequest
<1>7. InstallIsExclusive'
  <2>1. \A v \in Workers : InCritical(v)' => claims'[worker'[v].capability] = worker'[v].request
    BY <1>1, <1>2, <1>3, <1>4, <1>5, Held
       DEF ClaimInv, InstallIsExclusive, InCritical, KnowsApproval
  <2>2. \A v, u \in Workers : v # u /\ InCritical(v)' /\ InCritical(u)' =>
              worker'[v].capability # worker'[u].capability
    BY <1>2, <1>4, <1>5, Held DEF ClaimInv, InstallIsExclusive
  <2>3. QED
    BY <2>1, <2>2 DEF InstallIsExclusive
<1>8. AcquiredOnce' /\ AcquisitionsHoldTheClaim'
  <2>1. \A b \in Capabilities : Open(b)' => Open(b)
    BY <1>1, <1>2, <1>3, <1>5 DEF Open
  <2>2. QED
    BY <2>1, Held, BoundsKept DEF ClaimInv, AcquiredOnce, AcquisitionsHoldTheClaim, Open
<1>9. QED
  BY <1>6, <1>7, <1>8 DEF ClaimInv

(* The claim is released by the worker that holds it, the only one in the  *)
(* critical section for the name, and nothing was acquired under it.       *)
LEMMA ClaimReleased ==
    ASSUME LifecycleInv, [Next]_vars, NEW w \in Workers, InstallRelease(w)
    PROVE  ClaimInv'
<1> DEFINE c == worker[w].capability
<1>1. InCritical(w) /\ At(w, "release") /\ c \in Capabilities
      /\ claims[c] = worker[w].request
  BY Held DEF InstallRelease, At, InCritical, KnowsApproval, Critical, ClaimInv,
              InstallIsExclusive
<1>2. claims'[c] = NoRequest /\ \A b \in Capabilities \ {c} : claims'[b] = claims[b]
  BY <1>1, Held DEF InstallRelease, TypeOK
<1>3. /\ \A v \in Workers \ {w} : worker'[v] = worker[v]
      /\ \A v \in Workers \ {w} : InCritical(v)' <=> InCritical(v)
      /\ ~InCritical(w)'
  BY Held DEF InstallRelease, Finish, Idle, Doing, InCritical, Critical, TypeOK
<1>4. \A v \in Workers \ {w} : InCritical(v) =>
          worker[v].capability \in Capabilities \ {c}
  BY <1>1, Held DEF ClaimInv, InstallIsExclusive, InCritical, KnowsApproval
<1>5. acquired' = acquired
  BY DEF InstallRelease
<1>6. ClaimsAreApproved'
  BY <1>2, Held DEF ClaimInv, ClaimsAreApproved, TypeOK, MaybeRequest
<1>7. InstallIsExclusive'
  BY <1>2, <1>3, <1>4, Held DEF ClaimInv, InstallIsExclusive
<1>8. AcquiredOnce' /\ AcquisitionsHoldTheClaim'
  <2>1. \A b \in Capabilities : Open(b)' => Open(b)
    BY <1>1, <1>2, <1>3 DEF Open
  <2>2. QED
    BY <1>5, <2>1, Held, BoundsKept DEF ClaimInv, AcquiredOnce, AcquisitionsHoldTheClaim, Open
<1>9. QED
  BY <1>6, <1>7, <1>8 DEF ClaimInv

(* The acquisition is recorded by the only worker that may, while it holds *)
(* the claim it will keep.                                                 *)
LEMMA AcquisitionRecorded ==
    ASSUME LifecycleInv, [Next]_vars, NEW w \in Workers, InstallEvent(w)
    PROVE  ClaimInv'
<1> DEFINE r == worker[w].request
<1>c. PICK c : c = worker[w].capability
  OBVIOUS
<1>1. InCritical(w) /\ c \in Capabilities /\ r \in Requests /\ CapabilityOf[r] = c
      /\ claims[c] = r
  BY <1>c, Held DEF InstallEvent, At, InCritical, KnowsApproval, Critical, ClaimInv,
              InstallIsExclusive
<1>2. /\ acquired'[r] = acquired[r] + 1
      /\ \A q \in Requests \ {r} : acquired'[q] = acquired[q]
  BY <1>c, <1>1, Held DEF InstallEvent, RecordAcquisition, TypeOK
<1>3. /\ \A v \in Workers \ {w} : worker'[v] = worker[v]
      /\ \A v \in Workers \ {w} : InCritical(v)' <=> InCritical(v)
      /\ ~InCritical(w)' /\ claims' = claims
  BY Held DEF InstallEvent, Finish, Idle, Doing, InCritical, Critical, TypeOK
<1>4. \A v \in Workers \ {w} : InCritical(v) => worker[v].capability # c
  BY <1>c, <1>1, Held DEF ClaimInv, InstallIsExclusive
<1>5. ClaimsAreApproved'
  BY <1>3, Held DEF ClaimInv, ClaimsAreApproved, TypeOK, MaybeRequest
<1>6. InstallIsExclusive'
  BY <1>3, Held DEF ClaimInv, InstallIsExclusive
<1>7. AcquiredOnce' /\ AcquisitionsHoldTheClaim'
  <2>1. Unheard \in Nat /\ Unheard' = Unheard
    BY Held DEF InstallEvent, Unheard, TypeOK
  <2>2. \A q \in Requests :
            /\ acquired[q] \in Nat
            /\ acquired'[q] = IF q = r THEN acquired[q] + 1 ELSE acquired[q]
    BY <1>c, <1>1, <1>2, Held DEF TypeOK
  <2>3. AcquiredWithin(c, Unheard)
    BY <1>c, <1>1, Held DEF ClaimInv, AcquisitionsHoldTheClaim
  <2>4. AcquiredWithin(c, Unheard + 1)'
    <3>1. ASSUME NEW x \in Requests, NEW y \in Requests,
                 CapabilityOf[x] = c, CapabilityOf[y] = c
          PROVE  /\ acquired'[x] <= Unheard' + 1
                 /\ x # y => acquired'[x] + acquired'[y] <= Unheard' + 1
      <4>1. acquired[x] <= Unheard /\ (x # y => acquired[x] + acquired[y] <= Unheard)
        BY <2>3, <3>1 DEF AcquiredWithin
      <4>2. QED
        BY <2>1, <2>2, <4>1
    <3>2. QED
      BY <3>1 DEF AcquiredWithin
  <2>5. \A b \in Capabilities \ {c}, n \in Nat : AcquiredWithin(b, n)' <=> AcquiredWithin(b, n)
    BY <1>c, <1>1, <2>2 DEF AcquiredWithin
  <2>6. AcquiredOnce'
    BY <2>1, <2>4, <2>5, Held DEF ClaimInv, AcquiredOnce
  <2>7. ~Open(c)' /\ \A b \in Capabilities : Open(b)' => Open(b)
    BY <1>c, <1>1, <1>3, <1>4, ConstantsAssumption DEF Open
  <2>8. AcquisitionsHoldTheClaim'
    BY <2>1, <2>5, <2>7, Held DEF ClaimInv, AcquisitionsHoldTheClaim, Open
  <2>9. QED
    BY <2>6, <2>8
<1>8. QED
  BY <1>5, <1>6, <1>7 DEF ClaimInv

(* Every step keeps the claims approved, exclusive and matched by at most  *)
(* one acquisition.                                                        *)
LEMMA ClaimStep ==
    ASSUME LifecycleInv, [Next]_vars PROVE ClaimInv'
<1>1. CASE UNCHANGED vars
  BY <1>1, Held, NothingToPay, QuietStep DEF Quiet, InCritical, vars
<1>2. ASSUME NEW w \in Workers, Arrive(w) PROVE ClaimInv'
  <2>1. /\ UNCHANGED <<claims, acquired>>
        /\ \E p \in {"pipeline", "readDocument", "disable", "decide"} : \E c, r :
              worker' = [worker EXCEPT ![w] = Doing(p, c, r, 0)]
    BY <1>2 DEF Arrive, ProposeStart, InstallStart, RollbackUnregister, DecideStart,
                Start, store
  <2>2. \A p \in {"pipeline", "readDocument", "disable", "decide"} : \A c, r :
            Doing(p, c, r, 0).at \notin Critical
    BY DEF Doing, Critical
  <2>3. QED
    BY <2>1, <2>2, Held, NothingToPay, QuietMove, QuietStep
<1>3. ASSUME NEW w \in Workers, Proceed(w) PROVE ClaimInv'
  <2>1. ASSUME NEW r \in Requests, ProposeCreate(w, r) PROVE ClaimInv'
    <3>1. Doing("saveProposal", CapabilityOf[r], r, 0).at \notin Critical
      BY DEF Doing, Critical
    <3>2. QED
      BY <2>1, <3>1, Held, NothingToPay, QuietMove, QuietStep DEF ProposeCreate
  <2>2. CASE InstallReadDocument(w)
    <3>1. \A c, r, n : Doing("readApproval", c, r, n).at \notin Critical
      BY DEF Doing, Critical
    <3>2. CASE Finish(w)
      BY <2>2, <3>2, Held, NothingToPay, QuietFinish, QuietStep DEF InstallReadDocument, store
    <3>3. CASE ~Finish(w)
      <4>1. \E c, r, n : worker' = [worker EXCEPT ![w] = Doing("readApproval", c, r, n)]
        BY <2>2, <3>3 DEF InstallReadDocument
      <4>2. QED
        BY <2>2, <3>1, <4>1, Held, NothingToPay, QuietMove, QuietStep DEF InstallReadDocument, store
    <3>4. QED
      BY <3>2, <3>3
  <2>3. CASE InstallClaim(w)
    <3>1. CASE Unclaimed(worker[w].capability, worker[w].request)
      BY <2>3, <3>1, ClaimTaken DEF InstallClaim
    <3>2. CASE ~Unclaimed(worker[w].capability, worker[w].request)
      BY <2>3, <3>2, Held, NothingToPay, QuietGoto, QuietStep DEF InstallClaim, Critical
    <3>3. QED
      BY <3>1, <3>2
  <2>4. CASE InstallEvent(w) \/ InstallRelease(w)
    BY <2>4, AcquisitionRecorded, ClaimReleased
  <2>5. CASE DecideCommit(w) \/ InstallReadApproval(w) \/ RollbackDisable(w)
    <3>1. /\ UNCHANGED <<claims, acquired>>
          /\ \/ Finish(w) \/ Goto(w, "markRejected") \/ Goto(w, "claim")
             \/ Goto(w, "recordRollback")
      BY <2>5 DEF DecideCommit, InstallReadApproval, RollbackDisable, store
    <3>2. QED
      BY <3>1, Held, NothingToPay, QuietGoto, QuietFinish, QuietStep DEF Critical
  <2>6. CASE InstallRegister(w) \/ InstallSave(w) \/ InstallUndo(w)
    <3>1. /\ UNCHANGED <<claims, acquired>>
          /\ InCritical(w)
          /\ (Goto(w, "save") \/ Goto(w, "event") \/ Goto(w, "release"))
      BY <2>6 DEF InstallRegister, InstallSave, InstallUndo, store, At, InCritical,
                  Critical
    <3>2. QED
      BY <3>1, Held, NothingToPay, QuietGoto, QuietStep
  <2>7. CASE \/ ProposeStop(w) \/ ProposeSave(w) \/ DecideMarkRejected(w)
             \/ InstallRefresh(w) \/ RollbackEvent(w)
    <3>1. UNCHANGED <<claims, acquired>> /\ Finish(w)
      BY <2>7 DEF ProposeStop, ProposeSave, DecideMarkRejected, InstallRefresh,
                  RollbackEvent, store
    <3>2. QED
      BY <3>1, Held, NothingToPay, QuietFinish, QuietStep
  <2>8. QED
    BY <1>3, <2>1, <2>2, <2>3, <2>4, <2>5, <2>6, <2>7 DEF Proceed
<1>4. ASSUME NEW w \in Workers, Raise(w) PROVE ClaimInv'
  <2>1. CASE HandlerRaises(w)
    BY <2>1, Held, NothingToPay, QuietFinish, QuietStep DEF HandlerRaises, store
  <2>2. CASE InstallWriteRaises(w)
    <3>1. /\ UNCHANGED claims /\ InCritical(w) /\ Goto(w, "undo")
      BY <2>2 DEF InstallWriteRaises, At, InCritical, Critical
    <3>2. Paid
      BY <2>2, Held, RaisePays DEF LifecycleInv
    <3>3. QED
      BY <3>1, <3>2, Held, QuietGoto, QuietStep
  <2>3. QED
    BY <1>4, <2>1, <2>2 DEF Raise
<1>5. ASSUME NEW i \in Instances, Restart(i) PROVE ClaimInv'
  <2>1. Idle.at \notin Critical
    BY DEF Idle, Doing, Critical
  <2>2. \A w \in Workers : worker'[w] = Idle \/ worker'[w] = worker[w]
    BY <1>5 DEF Restart
  <2>3. Quiet
    BY <1>5, <2>1, <2>2, Held, NothingToPay DEF Restart, Quiet, InCritical, store
  <2>4. QED
    BY <2>3, QuietStep
<1>6. CASE SetKillSwitch
  BY <1>6, Held, NothingToPay, QuietStep DEF SetKillSwitch, Quiet, InCritical, store
<1>7. QED
  BY <1>1, <1>2, <1>3, <1>4, <1>5, <1>6 DEF Next

-----------------------------------------------------------------------------
(* Registries *)

RegistryInv == CallableCodeIsClaimed /\ OnlyItsOwnRegistry

(* A step that changes no registry and no claim, and neither lets a worker *)
(* into the critical section nor to the release, keeps both.               *)
LEMMA RegistriesKept ==
    ASSUME LifecycleInv, [Next]_vars, UNCHANGED <<registry, claims>>, restarts = 0,
           \A w \in Workers : InCritical(w)' =>
              /\ InCritical(w)
              /\ worker'[w].capability = worker[w].capability
              /\ worker'[w].at = "release" => worker[w].at = "release"
    PROVE  RegistryInv'
BY DEF LifecycleInv, RegistryInv, CallableCodeIsClaimed, OnlyItsOwnRegistry, At

(* The same for a step of one worker. *)
LEMMA RegistriesKeptBy ==
    ASSUME LifecycleInv, [Next]_vars, UNCHANGED <<registry, claims>>, restarts = 0,
           NEW w \in Workers,
           Finish(w) \/ \E p : p # "release" /\ Goto(w, p) /\ (p \in Critical => InCritical(w))
    PROVE  RegistryInv'
<1>1. \A v \in Workers \ {w} : worker'[v] = worker[v]
  BY Held DEF Finish, Goto, TypeOK
<1>2. CASE Finish(w)
  <2>1. ~InCritical(w)'
    BY <1>2, Held DEF Finish, Idle, Doing, InCritical, Critical, TypeOK
  <2>2. QED
    BY <1>1, <2>1, RegistriesKept DEF InCritical
<1>3. ASSUME NEW p, p # "release", Goto(w, p), p \in Critical => InCritical(w)
      PROVE  RegistryInv'
  <2>1. worker'[w].at = p /\ worker'[w].capability = worker[w].capability
    BY <1>3, Held DEF Goto, TypeOK, Worker
  <2>2. QED
    BY <1>1, <1>3, <2>1, RegistriesKept DEF InCritical
<1>4. QED
  BY <1>2, <1>3

(* Until a restart only install() puts code in a registry, its own, and it *)
(* does so under the claim; undo takes the code out before the release.    *)
LEMMA RegistryStep ==
    ASSUME LifecycleInv, [Next]_vars PROVE RegistryInv'
<1> SUFFICES ASSUME restarts' = 0 PROVE RegistryInv'
  BY DEF RegistryInv, CallableCodeIsClaimed, OnlyItsOwnRegistry
<1>1. /\ TypeOK /\ RegistryInv /\ InstallIsExclusive
      /\ \A w \in Workers : Home[w] \in Instances
  BY Held, ConstantsAssumption DEF LifecycleInv, RegistryInv
<1>2. ASSUME restarts = 0, NEW w \in Workers, InstallRegister(w) PROVE RegistryInv'
  <2> DEFINE c == worker[w].capability
             i == Home[w]
  <2>1. /\ c \in Capabilities /\ i \in Instances /\ InCritical(w)
        /\ claims[c] = worker[w].request /\ UNCHANGED claims
    BY <1>1, <1>2, Held DEF InstallRegister, At, KnowsApproval, Critical, InCritical,
                            InstallIsExclusive, store
  <2>2. /\ registry'[i][c] = worker[w].request
        /\ \A j \in Instances, b \in Capabilities :
              j # i \/ b # c => registry'[j][b] = registry[j][b]
    BY <1>1, <1>2, <2>1 DEF InstallRegister, CandidateCode, TypeOK
  <2>3. /\ worker'[w].at = "save" /\ worker'[w].capability = c
        /\ \A v \in Workers \ {w} : worker'[v] = worker[v]
    BY <1>1, <1>2 DEF InstallRegister, Goto, TypeOK, Worker
  <2>4. CallableCodeIsClaimed'
    BY <1>1, <1>2, <2>1, <2>2 DEF RegistryInv, CallableCodeIsClaimed
  <2>5. \A v \in Workers \ {w} : InCritical(v) =>
            worker[v].capability \in Capabilities \ {c}
    BY <1>1, <2>1, Held DEF InstallIsExclusive, KnowsApproval, InCritical
  <2>6. OnlyItsOwnRegistry'
    <3>1. ASSUME NEW v \in Workers, NEW j \in Instances, InCritical(v)',
                 registry'[j][worker'[v].capability] # NoRequest
          PROVE  j = Home[v] /\ worker'[v].at # "release"
      <4>1. CASE v = w
        BY <1>1, <1>2, <2>1, <2>2, <2>3, <3>1, <4>1 DEF RegistryInv, OnlyItsOwnRegistry
      <4>2. CASE v # w
        BY <1>1, <1>2, <2>2, <2>3, <2>5, <3>1, <4>2
           DEF RegistryInv, OnlyItsOwnRegistry, InCritical, At
      <4>3. QED
        BY <4>1, <4>2
    <3>2. QED
      BY <3>1 DEF OnlyItsOwnRegistry, At
  <2>7. QED
    BY <2>4, <2>6 DEF RegistryInv
<1>3. ASSUME restarts = 0, NEW w \in Workers, InstallUndo(w) PROVE RegistryInv'
  <2> DEFINE c == worker[w].capability
             i == Home[w]
  <2>1. /\ c \in Capabilities /\ i \in Instances /\ InCritical(w) /\ UNCHANGED claims
    BY <1>1, <1>3, Held DEF InstallUndo, At, KnowsApproval, Critical, InCritical, store
  <2>2. \A j \in Instances, b \in Capabilities :
            registry'[j][b] = IF j = i /\ b = c THEN NoRequest ELSE registry[j][b]
    BY <1>1, <1>3, <2>1 DEF InstallUndo, TypeOK
  <2>3. /\ worker'[w].at = "release" /\ worker'[w].capability = c
        /\ \A v \in Workers \ {w} : worker'[v] = worker[v]
    BY <1>1, <1>3 DEF InstallUndo, Goto, TypeOK, Worker
  <2>4. CallableCodeIsClaimed'
    BY <1>1, <1>3, <2>1, <2>2 DEF RegistryInv, CallableCodeIsClaimed
  <2>5. \A j \in Instances : registry'[j][c] = NoRequest
    BY <1>1, <1>3, <2>1, <2>2 DEF RegistryInv, OnlyItsOwnRegistry
  <2>6. OnlyItsOwnRegistry'
    <3>1. ASSUME NEW v \in Workers, NEW j \in Instances, InCritical(v)',
                 registry'[j][worker'[v].capability] # NoRequest
          PROVE  j = Home[v] /\ worker'[v].at # "release"
      <4>1. v # w /\ InCritical(v) /\ worker[v].capability \in Capabilities
        BY <2>3, <2>5, <3>1, Held DEF InCritical, KnowsApproval
      <4>2. QED
        BY <1>1, <1>3, <2>2, <2>3, <3>1, <4>1 DEF RegistryInv, OnlyItsOwnRegistry, At
    <3>2. QED
      BY <3>1 DEF OnlyItsOwnRegistry, At
  <2>7. QED
    BY <2>4, <2>6 DEF RegistryInv
<1>4. ASSUME restarts = 0, NEW w \in Workers, NEW c \in Capabilities,
             RollbackUnregister(w, c)
      PROVE  RegistryInv'
  <2>1. \A j \in Instances, b \in Capabilities :
            registry'[j][b] \in {NoRequest, registry[j][b]}
    BY <1>1, <1>4 DEF RollbackUnregister, TypeOK
  <2>2. /\ ~InCritical(w)' /\ UNCHANGED claims
        /\ \A v \in Workers \ {w} : worker'[v] = worker[v]
    BY <1>1, <1>4 DEF RollbackUnregister, Start, Doing, InCritical, Critical, TypeOK, store
  <2>3. CallableCodeIsClaimed'
    BY <1>1, <1>4, <2>1, <2>2 DEF RegistryInv, CallableCodeIsClaimed
  <2>4. OnlyItsOwnRegistry'
    BY <1>1, <1>4, <2>1, <2>2, Held
       DEF RegistryInv, OnlyItsOwnRegistry, InCritical, At, KnowsApproval
  <2>5. QED
    BY <2>3, <2>4 DEF RegistryInv
<1>5. ASSUME restarts = 0, NEW w \in Workers, InstallClaim(w) PROVE RegistryInv'
  <2> DEFINE c == worker[w].capability
  <2>1. CASE Unclaimed(c, worker[w].request)
    <3>1. /\ c \in Capabilities /\ claims[c] = NoRequest /\ UNCHANGED registry
          /\ \A b \in Capabilities \ {c} : claims'[b] = claims[b]
      BY <1>1, <1>5, <2>1, Held DEF InstallClaim, Unclaimed, At, KnowsApproval, TypeOK
    <3>2. \A j \in Instances : registry[j][c] = NoRequest
      BY <1>1, <1>5, <3>1 DEF RegistryInv, CallableCodeIsClaimed
    <3>3. /\ worker'[w].capability = c
          /\ \A v \in Workers \ {w} : worker'[v] = worker[v]
      BY <1>1, <1>5, <2>1 DEF InstallClaim, Goto, TypeOK, Worker
    <3>4. CallableCodeIsClaimed'
      BY <1>1, <1>5, <3>1, <3>2 DEF RegistryInv, CallableCodeIsClaimed
    <3>5. OnlyItsOwnRegistry'
      BY <1>1, <1>5, <3>1, <3>2, <3>3 DEF RegistryInv, OnlyItsOwnRegistry, InCritical, At
    <3>6. QED
      BY <3>4, <3>5 DEF RegistryInv
  <2>2. CASE ~Unclaimed(c, worker[w].request)
    <3>1. UNCHANGED <<registry, claims>> /\ Goto(w, "refresh")
      BY <1>5, <2>2 DEF InstallClaim
    <3>2. QED
      BY <1>5, <3>1, RegistriesKeptBy DEF Critical
  <2>3. QED
    BY <2>1, <2>2
<1>6. ASSUME restarts = 0, NEW w \in Workers, InstallRelease(w) PROVE RegistryInv'
  <2> DEFINE c == worker[w].capability
  <2>1. /\ c \in Capabilities /\ InCritical(w) /\ UNCHANGED registry
        /\ At(w, "release")
        /\ \A b \in Capabilities \ {c} : claims'[b] = claims[b]
    BY <1>1, <1>6, Held DEF InstallRelease, At, KnowsApproval, Critical, InCritical, TypeOK
  <2>2. \A j \in Instances : registry[j][c] = NoRequest
    BY <1>1, <1>6, <2>1 DEF RegistryInv, OnlyItsOwnRegistry
  <2>3. ~InCritical(w)' /\ \A v \in Workers \ {w} : worker'[v] = worker[v]
    BY <1>1, <1>6 DEF InstallRelease, Finish, Idle, Doing, InCritical, Critical, TypeOK
  <2>4. CallableCodeIsClaimed'
    BY <1>1, <1>6, <2>1, <2>2 DEF RegistryInv, CallableCodeIsClaimed
  <2>5. OnlyItsOwnRegistry'
    BY <1>1, <1>6, <2>1, <2>3 DEF RegistryInv, OnlyItsOwnRegistry, InCritical, At
  <2>6. QED
    BY <2>4, <2>5 DEF RegistryInv
<1>7. ASSUME NEW i \in Instances, Restart(i) PROVE FALSE
  BY <1>1, <1>7 DEF Restart, TypeOK
<1>8. ASSUME NEW w \in Workers, Arrive(w) PROVE RegistryInv'
  <2>1. CASE \E c \in Capabilities : RollbackUnregister(w, c)
    BY <1>4, <2>1 DEF RollbackUnregister
  <2>2. CASE ~\E c \in Capabilities : RollbackUnregister(w, c)
    <3>1. /\ UNCHANGED <<registry, claims, restarts>>
          /\ \E p \in {"pipeline", "readDocument", "decide"} : \E c, r :
                worker' = [worker EXCEPT ![w] = Doing(p, c, r, 0)]
      BY <1>8, <2>2 DEF Arrive, ProposeStart, InstallStart, DecideStart, Start, store
    <3>2. ~InCritical(w)' /\ \A v \in Workers \ {w} : worker'[v] = worker[v]
      BY <1>1, <3>1 DEF Doing, InCritical, Critical, TypeOK
    <3>3. QED
      BY <3>1, <3>2, RegistriesKept DEF InCritical
  <2>3. QED
    BY <2>1, <2>2
<1>9. ASSUME NEW w \in Workers, Proceed(w) PROVE RegistryInv'
  <2>1. restarts = 0
    BY <1>9 DEF Proceed, ProposeStop, ProposeCreate, ProposeSave, DecideCommit,
         DecideMarkRejected, InstallReadDocument, InstallReadApproval, InstallClaim,
         InstallRefresh, InstallRegister, InstallSave, InstallEvent, InstallUndo,
         InstallRelease, RollbackDisable, RollbackEvent
  <2>2. CASE InstallRegister(w) \/ InstallUndo(w) \/ InstallClaim(w) \/ InstallRelease(w)
    BY <1>2, <1>3, <1>5, <1>6, <2>1, <2>2
  <2>3. CASE (\E r \in Requests : ProposeCreate(w, r)) \/ InstallReadDocument(w)
    <3>1. UNCHANGED <<registry, claims>>
      BY <2>3 DEF ProposeCreate, InstallReadDocument, store
    <3>2. CASE Finish(w)
      BY <2>1, <3>1, <3>2, RegistriesKeptBy
    <3>3. CASE ~Finish(w)
      <4>1. \E p \in {"saveProposal", "readApproval"} : \E c, r, n :
               worker' = [worker EXCEPT ![w] = Doing(p, c, r, n)]
        BY <2>3, <3>3 DEF ProposeCreate, InstallReadDocument
      <4>2. ~InCritical(w)' /\ \A v \in Workers \ {w} : worker'[v] = worker[v]
        BY <1>1, <4>1 DEF Doing, InCritical, Critical, TypeOK
      <4>3. QED
        BY <2>1, <3>1, <4>2, RegistriesKept DEF InCritical
    <3>4. QED
      BY <3>2, <3>3
  <2>4. CASE InstallSave(w)
    <3>1. UNCHANGED <<registry, claims>> /\ Goto(w, "event") /\ InCritical(w)
      BY <2>4 DEF InstallSave, At, InCritical, Critical
    <3>2. QED
      BY <2>1, <3>1, RegistriesKeptBy
  <2>5. CASE DecideCommit(w) \/ InstallReadApproval(w) \/ RollbackDisable(w)
    <3>1. /\ UNCHANGED <<registry, claims>>
          /\ \/ Finish(w) \/ Goto(w, "markRejected") \/ Goto(w, "claim")
             \/ Goto(w, "recordRollback")
      BY <2>5 DEF DecideCommit, InstallReadApproval, RollbackDisable, store
    <3>2. QED
      BY <2>1, <3>1, RegistriesKeptBy DEF Critical
  <2>6. CASE \/ ProposeStop(w) \/ ProposeSave(w) \/ DecideMarkRejected(w)
             \/ InstallRefresh(w) \/ InstallEvent(w) \/ RollbackEvent(w)
    <3>1. UNCHANGED <<registry, claims>> /\ Finish(w)
      BY <2>6 DEF ProposeStop, ProposeSave, DecideMarkRejected, InstallRefresh,
                  InstallEvent, RollbackEvent, store
    <3>2. QED
      BY <2>1, <3>1, RegistriesKeptBy
  <2>7. QED
    BY <1>9, <2>2, <2>3, <2>4, <2>5, <2>6 DEF Proceed
<1>10. ASSUME NEW w \in Workers, Raise(w) PROVE RegistryInv'
  <2>1. /\ UNCHANGED <<registry, claims, restarts>>
        /\ Finish(w) \/ (Goto(w, "undo") /\ InCritical(w))
    BY <1>10 DEF Raise, InstallWriteRaises, HandlerRaises, At, InCritical, Critical, store
  <2>2. QED
    BY <2>1, RegistriesKeptBy
<1>11. CASE SetKillSwitch \/ UNCHANGED vars
  <2>1. UNCHANGED <<registry, claims, worker, restarts>>
    BY <1>11 DEF SetKillSwitch, store, vars
  <2>2. QED
    BY <2>1, RegistriesKept DEF InCritical
<1>12. QED
  BY <1>7, <1>8, <1>9, <1>10, <1>11 DEF Next

-----------------------------------------------------------------------------
(* The theorems *)

(* Nothing is proposed, claimed, acquired or running at first. *)
LEMMA InitialInvariant == Init => LifecycleInv
<1> SUFFICES ASSUME Init PROVE LifecycleInv
  OBVIOUS
<1> USE ConstantsAssumption
<1>1. /\ NoDocument \in Document /\ NoDocument.passport = NoRequest
      /\ NoDocument.installedCode = NoRequest /\ NoDocument.implemented = FALSE
      /\ NoDocument.state = "ABSENT"
  BY DEF NoDocument, Document, MaybeRequest
<1>2. Idle \in Worker /\ Idle.at = "idle"
  BY DEF Idle, Doing, Worker, Points, MaybeRequest
<1>3. TypeOK
  BY <1>1, <1>2 DEF Init, TypeOK, MaybeRequest
<1>4. WorkersKnow
  BY <1>2 DEF Init, WorkersKnow, Knows, At, KnowsRequest, KnowsApproval, Critical
<1>5. PassportsMatch /\ DocumentsTellDecisions
  BY <1>1 DEF Init, PassportsMatch, DocumentsTellDecisions
<1>6. ClaimsAreApproved /\ CallableCodeIsClaimed
  BY DEF Init, ClaimsAreApproved, CallableCodeIsClaimed
<1>7. InstallIsExclusive /\ OnlyItsOwnRegistry
  BY <1>2 DEF Init, InstallIsExclusive, OnlyItsOwnRegistry, InCritical, Critical
<1>8. AcquiredOnce /\ AcquisitionsHoldTheClaim
  <2>1. Unheard = 0
    BY DEF Init, Unheard
  <2>2. \A r \in Requests : acquired[r] = 0
    BY DEF Init
  <2>3. \A c : AcquiredWithin(c, 0) /\ AcquiredWithin(c, 0 + 1)
    BY <2>2 DEF AcquiredWithin
  <2>4. QED
    BY <2>1, <2>3 DEF AcquiredOnce, AcquisitionsHoldTheClaim
<1>9. QED
  BY <1>3, <1>4, <1>5, <1>6, <1>7, <1>8 DEF LifecycleInv

(* The invariant is inductive. *)
LEMMA InvariantStep == LifecycleInv /\ [Next]_vars => LifecycleInv'
<1> SUFFICES ASSUME LifecycleInv, [Next]_vars PROVE LifecycleInv'
  OBVIOUS
<1>1. TypeOK' /\ WorkersKnow'
  BY TypeStep, KnowStep DEF LifecycleInv
<1>2. PassportsMatch' /\ DocumentsTellDecisions'
  BY DocumentStep
<1>3. ClaimsAreApproved' /\ InstallIsExclusive' /\ AcquiredOnce' /\ AcquisitionsHoldTheClaim'
  BY ClaimStep DEF ClaimInv
<1>4. CallableCodeIsClaimed' /\ OnlyItsOwnRegistry'
  BY RegistryStep DEF RegistryInv
<1>5. QED
  BY <1>1, <1>2, <1>3, <1>4 DEF LifecycleInv

(* The inductive invariant: every worker's knowledge of the approval it    *)
(* holds stays true, and claims, documents, events and registries stay     *)
(* consistent with the owner's decisions, in install() and around it.      *)
THEOREM Invariance == Spec => []LifecycleInv
BY InitialInvariant, InvariantStep, PTL DEF Spec

(* Every variable keeps its type: rehydration, undo and the merge writes   *)
(* never leave a document or a registry entry of the wrong shape.          *)
THEOREM TypeCorrect == Spec => []TypeOK
<1>1. LifecycleInv => TypeOK
  BY DEF LifecycleInv
<1>2. QED
  BY <1>1, Invariance, PTL

(* claim_install never holds a name for a request the owner did not        *)
(* approve or for a request about another capability.                      *)
THEOREM ApprovedClaims == Spec => []ClaimsAreApproved
<1>1. LifecycleInv => ClaimsAreApproved
  BY DEF LifecycleInv
<1>2. QED
  BY <1>1, Invariance, PTL

(* Of any number of workers on any number of instances, one at a time runs *)
(* the part of install() between the claim and its end.                    *)
THEOREM ExclusiveInstall == Spec => []InstallIsExclusive
<1>1. LifecycleInv => InstallIsExclusive
  BY DEF LifecycleInv
<1>2. QED
  BY <1>1, Invariance, PTL

(* install() records one acquisition for a capability, whatever the number *)
(* of retries, rivals and restarts, and one more only for a write that was *)
(* committed and raised.                                                   *)
THEOREM SingleAcquisition == Spec => []AcquiredOnce
<1>1. LifecycleInv => AcquiredOnce
  BY DEF LifecycleInv
<1>2. QED
  BY <1>1, Invariance, PTL

(* A document never names unapproved code as installed, even when          *)
(* install() saves over a re-proposal, and is never marked rejected when   *)
(* no proposal for the name was.                                           *)
THEOREM TruthfulDocuments == Spec => []DocumentsTellDecisions
<1>1. LifecycleInv => DocumentsTellDecisions
  BY DEF LifecycleInv
<1>2. QED
  BY <1>1, Invariance, PTL

(* Before the first restart all the instances that can call a name call    *)
(* the same code, the one its claim is held for, whatever was re-proposed, *)
(* undone or rolled back on one of them.                                   *)
THEOREM OneCodePerName == Spec => []CallableCodeIsClaimed
<1>1. LifecycleInv => CallableCodeIsClaimed
  BY DEF LifecycleInv
<1>2. QED
  BY <1>1, Invariance, PTL

(* Code the owner did not approve can become callable in no way but        *)
(* rehydration: without a restart it never does.                           *)
THEOREM ApprovedUntilRestart ==
    Spec => [](restarts = 0 => RunningCodeApproved)
<1>1. LifecycleInv => (restarts = 0 => RunningCodeApproved)
  BY DEF LifecycleInv, CallableCodeIsClaimed, ClaimsAreApproved, RunningCodeApproved
<1>2. QED
  BY <1>1, Invariance, PTL
-----------------------------------------------------------------------------
(* Handlers run down *)

(* What a step does to one worker. *)
Down(v) ==
    worker'[v].at # worker[v].at =>
        \/ StepsLeft(worker'[v].at) < StepsLeft(worker[v].at)
        \/ At(v, "idle") /\ (killSwitch => worker'[v].at = "disable")

(* A worker that moves to a point with fewer steps left, or finishes,      *)
(* runs down, and the others do not move.                                  *)
LEMMA MovesDown ==
    ASSUME TypeOK, NEW w \in Workers, NEW x, worker' = [worker EXCEPT ![w] = x],
           StepsLeft(x.at) < StepsLeft(worker[w].at)
    PROVE  \A v \in Workers : Down(v)
BY DEF TypeOK, Down

(* Every step of the system lets every worker run down. *)
LEMMA RunDownStep ==
    ASSUME TypeOK, [Next]_vars PROVE \A v \in Workers : Down(v)
<1>a. ASSUME NEW w \in Workers, NEW p, Goto(w, p), StepsLeft(p) < StepsLeft(worker[w].at)
      PROVE  \A v \in Workers : Down(v)
  <2> DEFINE x == [worker[w] EXCEPT !.at = p]
  <2>1. worker' = [worker EXCEPT ![w] = x] /\ x.at = p
    BY <1>a DEF Goto, TypeOK, Worker
  <2> HIDE DEF x
  <2>2. QED
    BY <1>a, <2>1, MovesDown
<1>b. ASSUME NEW w \in Workers, Finish(w), ~At(w, "idle")
      PROVE  \A v \in Workers : Down(v)
  <2>1. worker[w].at \in Points \ {"idle"}
    BY <1>b DEF TypeOK, Worker, At
  <2>2. StepsLeft(worker[w].at) > 0
    BY <2>1 DEF StepsLeft, Points, Critical
  <2>3. Idle.at = "idle" /\ StepsLeft("idle") = 0
    BY DEF Idle, Doing, StepsLeft
  <2>4. QED
    BY <1>b, <2>2, <2>3, MovesDown DEF Finish
<1>1. CASE UNCHANGED vars
  BY <1>1 DEF Down, vars
<1>2. ASSUME NEW w \in Workers, Arrive(w) PROVE \A v \in Workers : Down(v)
  <2>1. /\ At(w, "idle")
        /\ \A v \in Workers \ {w} : worker'[v] = worker[v]
    BY <1>2 DEF Arrive, ProposeStart, InstallStart, RollbackUnregister, DecideStart,
                Start, TypeOK
  <2>2. killSwitch => worker'[w].at = "disable"
    <3>1. killSwitch => \E c \in Capabilities : RollbackUnregister(w, c)
      BY <1>2 DEF Arrive, ProposeStart, InstallStart, DecideStart, Allowed
    <3>2. \A c : RollbackUnregister(w, c) => worker'[w] = Doing("disable", c, NoRequest, 0)
      BY DEF RollbackUnregister, Start, TypeOK
    <3>3. \A c : Doing("disable", c, NoRequest, 0).at = "disable"
      BY DEF Doing
    <3>4. QED
      BY <3>1, <3>2, <3>3
  <2>3. QED
    BY <2>1, <2>2 DEF Down
<1>3. ASSUME NEW w \in Workers, Proceed(w) PROVE \A v \in Workers : Down(v)
  <2>1. ~At(w, "idle")
    BY <1>3
       DEF Proceed, ProposeStop, ProposeCreate, ProposeSave, DecideCommit,
           DecideMarkRejected, InstallReadDocument, InstallReadApproval, InstallClaim,
           InstallRefresh, InstallRegister, InstallSave, InstallEvent, InstallUndo,
           InstallRelease, RollbackDisable, RollbackEvent, At
  <2>2. CASE Finish(w)
    BY <1>b, <2>1, <2>2
  <2>3. ASSUME NEW p, NEW q, At(w, p), Goto(w, q),
               <<p, q>> \in {<<"decide", "markRejected">>, <<"readApproval", "claim">>,
                             <<"claim", "register">>, <<"claim", "refresh">>,
                             <<"register", "save">>, <<"save", "event">>,
                             <<"undo", "release">>, <<"disable", "recordRollback">>}
        PROVE  \A v \in Workers : Down(v)
    <3>1. StepsLeft(q) < StepsLeft(p)
      BY <2>3 DEF StepsLeft
    <3>2. QED
      BY <1>a, <2>3, <3>1 DEF At
  <2>4. CASE ~Finish(w) /\ (DecideCommit(w) \/ InstallReadApproval(w) \/ InstallClaim(w)
                            \/ RollbackDisable(w))
    BY <2>3, <2>4 DEF DecideCommit, InstallReadApproval, InstallClaim, RollbackDisable
  <2>5. CASE InstallRegister(w) \/ InstallSave(w) \/ InstallUndo(w)
    BY <2>3, <2>5 DEF InstallRegister, InstallSave, InstallUndo
  <2>6. CASE ~Finish(w) /\ (InstallReadDocument(w) \/ \E r \in Requests : ProposeCreate(w, r))
    <3>1. PICK p, c, r, n :
             /\ p \in {"readApproval", "saveProposal"}
             /\ worker' = [worker EXCEPT ![w] = Doing(p, c, r, n)]
             /\ StepsLeft(p) < StepsLeft(worker[w].at)
      <4>1. /\ StepsLeft("saveProposal") < StepsLeft("pipeline")
            /\ StepsLeft("readApproval") < StepsLeft("readDocument")
        BY DEF StepsLeft
      <4>2. QED
        BY <2>6, <4>1 DEF InstallReadDocument, ProposeCreate, At
    <3>2. Doing(p, c, r, n).at = p
      BY DEF Doing
    <3>3. QED
      BY <3>1, <3>2, MovesDown
  <2>7. QED
    BY <1>3, <2>2, <2>4, <2>5, <2>6
       DEF Proceed, ProposeStop, ProposeSave, DecideMarkRejected, InstallRefresh,
           InstallEvent, InstallRelease, RollbackEvent
<1>4. ASSUME NEW w \in Workers, Raise(w) PROVE \A v \in Workers : Down(v)
  <2>1. CASE HandlerRaises(w)
    BY <1>b, <2>1 DEF HandlerRaises, At
  <2>2. CASE InstallWriteRaises(w)
    <3>1. Goto(w, "undo") /\ worker[w].at \in {"save", "event"}
      BY <2>2 DEF InstallWriteRaises, At
    <3>2. StepsLeft("undo") < StepsLeft(worker[w].at)
      BY <3>1 DEF StepsLeft
    <3>3. QED
      BY <1>a, <3>1, <3>2
  <2>3. QED
    BY <1>4, <2>1, <2>2 DEF Raise
<1>5. ASSUME NEW i \in Instances, Restart(i) PROVE \A v \in Workers : Down(v)
  <2>1. \A v \in Workers : worker'[v] = Idle \/ worker'[v] = worker[v]
    BY <1>5 DEF Restart
  <2>2. \A v \in Workers : At(v, "idle") \/ StepsLeft(worker[v].at) > 0
    BY DEF TypeOK, Worker, Points, Critical, At, StepsLeft
  <2>3. Idle.at = "idle" /\ StepsLeft("idle") = 0
    BY DEF Idle, Doing, StepsLeft
  <2>4. QED
    BY <2>1, <2>2, <2>3 DEF Down, At
<1>6. CASE SetKillSwitch
  BY <1>6 DEF SetKillSwitch, Down
<1>7. QED
  BY <1>1, <1>2, <1>3, <1>4, <1>5, <1>6 DEF Next

(* Every operation ends after at most eight steps of its own, whatever     *)
(* raises, and an active kill switch lets nothing but a rollback start:    *)
(* with the fairness of the thread pool, this is why it quiesces.          *)
THEOREM BoundedHandlers == Spec => HandlersRunDown
<1>1. LifecycleInv /\ [Next]_vars =>
        [\A w \in Workers : worker'[w].at # worker[w].at =>
            \/ StepsLeft(worker'[w].at) < StepsLeft(worker[w].at)
            \/ At(w, "idle") /\ (killSwitch => worker'[w].at = "disable")]_vars
  BY RunDownStep DEF LifecycleInv, Down
<1>2. QED
  BY <1>1, Invariance, PTL DEF Spec, HandlersRunDown

-----------------------------------------------------------------------------
(* Refinement *)

(* The initial state maps to the authority's. *)
LEMMA AuthorityInit == Init => Authority!Init
BY DEF Init, Authority!Init

(* A step that decides or acquires nothing is a stutter of the authority.  *)
LEMMA AuthorityStep ==
    ASSUME ~LostReplies, LifecycleInv, [Next]_vars
    PROVE  [Authority!Next]_<<approvals, acquired>>
<1> DEFINE Maps == [Authority!Next]_<<approvals, acquired>>
<1>1. ASSUME UNCHANGED <<approvals, acquired>> PROVE Maps
  BY <1>1
<1>2. ASSUME NEW w \in Workers, NEW r \in Requests, ProposeCreate(w, r) PROVE Maps
  <2>1. Authority!Ask(r)
    BY <1>2 DEF ProposeCreate, Authority!Ask
  <2>2. QED
    BY <2>1 DEF Authority!Next
<1>3. ASSUME NEW w \in Workers, DecideCommit(w) PROVE Maps
  <2> DEFINE r == worker[w].request
  <2>1. r \in Requests
    BY <1>3 DEF DecideCommit, At, LifecycleInv, WorkersKnow, Knows, KnowsRequest
  <2>2. Authority!Decide(r) \/ UNCHANGED <<approvals, acquired>>
    BY <1>3 DEF DecideCommit, Undecided, Authority!Decide
  <2>3. QED
    BY <2>1, <2>2 DEF Authority!Next
<1>4. ASSUME NEW w \in Workers, InstallEvent(w) PROVE Maps
  <2> DEFINE r == worker[w].request
  <2>1. /\ r \in Requests /\ approvals[r] = "APPROVED" /\ InCritical(w)
        /\ CapabilityOf[r] = worker[w].capability
    BY <1>4, Held DEF InstallEvent, At, KnowsApproval, Critical, InCritical
  <2>2. \A q \in Requests : CapabilityOf[q] = CapabilityOf[r] => acquired[q] = 0
    <3>1. AcquiredWithin(CapabilityOf[r], 0)
      BY <2>1, Held, ConstantsAssumption DEF ClaimInv, AcquisitionsHoldTheClaim, Unheard
    <3>2. QED
      BY <3>1, Held DEF AcquiredWithin, TypeOK
  <2>3. acquired' = [acquired EXCEPT ![r] = 1]
    <3>1. acquired[r] + 1 = 1 /\ acquired' = [acquired EXCEPT ![r] = acquired[r] + 1]
      BY <1>4, <2>1, <2>2 DEF InstallEvent, RecordAcquisition
    <3>2. QED
      BY <3>1
  <2>4. Authority!Install(r)
    BY <1>4, <2>1, <2>2, <2>3 DEF InstallEvent, Authority!Install, Authority!Rivals
  <2>5. QED
    BY <2>1, <2>4 DEF Authority!Next
<1>5. ASSUME NEW w \in Workers, Arrive(w) PROVE Maps
  BY <1>1, <1>5 DEF Arrive, ProposeStart, InstallStart, RollbackUnregister, DecideStart,
                    store
<1>6. ASSUME NEW w \in Workers, Proceed(w) PROVE Maps
  <2>1. CASE ~(DecideCommit(w) \/ InstallEvent(w) \/ \E r \in Requests : ProposeCreate(w, r))
    <3>1. UNCHANGED <<approvals, acquired>>
      BY <1>6, <2>1
         DEF Proceed, ProposeStop, ProposeSave, DecideMarkRejected, InstallReadDocument,
             InstallReadApproval, InstallClaim, InstallRefresh, InstallRegister,
             InstallSave, InstallUndo, InstallRelease, RollbackDisable, RollbackEvent,
             store
    <3>2. QED
      BY <1>1, <3>1
  <2>2. QED
    BY <1>2, <1>3, <1>4, <2>1
<1>7. ASSUME NEW w \in Workers, Raise(w) PROVE Maps
  <2>1. UNCHANGED <<approvals, acquired>>
    BY <1>7 DEF Raise, InstallWriteRaises, HandlerRaises, store
  <2>2. QED
    BY <1>1, <2>1
<1>8. ASSUME NEW i \in Instances, Restart(i) PROVE Maps
  BY <1>1, <1>8 DEF Restart, store
<1>9. QED
  BY <1>1, <1>5, <1>6, <1>7, <1>8 DEF Next, SetKillSwitch, store, vars

(* Proposals, decisions and installs, interleaved in any way and with any  *)
(* crash, do no more than ask, decide once and install once what was       *)
(* approved; a write that raises must have left nothing behind.            *)
THEOREM Refinement ==
    ASSUME ~LostReplies PROVE Spec => RefinesInstallAuthority
<1>1. LifecycleInv /\ [Next]_vars => [Authority!Next]_<<approvals, acquired>>
  BY AuthorityStep
<1>2. QED
  BY <1>1, AuthorityInit, Invariance, PTL
     DEF Spec, RefinesInstallAuthority, Authority!Spec
=============================================================================
