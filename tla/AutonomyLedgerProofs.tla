------------------------ MODULE AutonomyLedgerProofs ------------------------
(***************************************************************************)
(* LedgerInv is an inductive invariant of AutonomyLedger, and with it each *)
(* of its safety properties, for any number of capabilities, workers,      *)
(* requests, outcomes and failures.                                        *)
(***************************************************************************)
EXTENDS AutonomyLedger, FiniteSetTheorems, TLAPS

USE ConstantsAssumption

-----------------------------------------------------------------------------
(* The ledger's arithmetic *)

(* An outcome is counted once, and autonomy stays within its bounds. *)
LEMMA OutcomeType ==
    ASSUME NEW n \in Numbers, NEW verified \in BOOLEAN, NEW intervened \in BOOLEAN
    PROVE  Outcome(n, verified, intervened) \in Numbers
<1>1. One(verified) \in Nat /\ One(~verified) \in Nat /\ One(intervened) \in Nat
  BY DEF One
<1>2. /\ AtMost(n.autonomy + PromotionDelta, MaxAutonomy) \in 0..MaxAutonomy
      /\ AtLeast(n.autonomy - DemotionDelta, 0) \in 0..MaxAutonomy
  BY DEF Numbers, AtMost, AtLeast, PromotionDelta, DemotionDelta, MaxAutonomy
<1>3. QED
  BY <1>1, <1>2 DEF Outcome, Numbers

(* A record nobody has moved holds nothing. *)
LEMMA FreshType == Fresh \in Numbers
BY DEF Fresh, Numbers, StartingAutonomy, MaxAutonomy

(* Moving two records by one outcome keeps the one earned of the other. *)
LEMMA OutcomeIsEarned ==
    ASSUME NEW a \in Numbers, NEW b \in Numbers, Earned(a, b),
           NEW verified \in BOOLEAN, NEW intervened \in BOOLEAN
    PROVE  Earned(Outcome(a, verified, intervened), Outcome(b, verified, intervened))
<1>1. CASE verified
  BY <1>1 DEF Earned, Outcome, Numbers, AtMost, One, StartingAutonomy, PromotionDelta,
              DemotionDelta, MaxAutonomy
<1>2. CASE ~verified
  BY <1>2 DEF Earned, Outcome, Numbers, AtLeast, One, StartingAutonomy, PromotionDelta,
              DemotionDelta, MaxAutonomy
<1>3. QED
  BY <1>1, <1>2

(* What was earned stays earned while more happens. *)
LEMMA EarnedStands ==
    ASSUME NEW a \in Numbers, NEW b \in Numbers, Earned(a, b),
           NEW verified \in BOOLEAN, NEW intervened \in BOOLEAN
    PROVE  Earned(a, Outcome(b, verified, intervened))
BY DEF Earned, Outcome, Numbers, One

(* A fresh record is earned by anything, whatever interventions it keeps.  *)
LEMMA FreshIsEarned ==
    ASSUME NEW b \in Numbers, NEW i \in Nat, i <= b.interventions
    PROVE  /\ [Fresh EXCEPT !.interventions = i] \in Numbers
           /\ Earned([Fresh EXCEPT !.interventions = i], b)
BY DEF Fresh, Earned, Numbers, StartingAutonomy, PromotionDelta, DemotionDelta, MaxAutonomy

-----------------------------------------------------------------------------
(* How a worker moves *)

(* A worker at rest is a worker. *)
LEMMA IdleType == Idle \in Worker
BY FreshType DEF Idle, Worker

(* What a worker holds when it is let through to a call. *)
LEMMA AfterProceed ==
    ASSUME TypeOK, NEW w \in Workers, NEW call \in Calls, NEW r \in Requests \cup {NoRequest},
           Proceed(w, call, r)
    PROVE  /\ worker' \in [Workers -> Worker]
           /\ worker'[w].at = "call" /\ worker'[w].call = call /\ worker'[w].request = r
           /\ \A v \in Workers : v # w => worker'[v] = worker[v]
<1>1. [Idle EXCEPT !.at = "call", !.call = call, !.request = r] \in Worker
  BY IdleType DEF Worker
<1>2. QED
  BY <1>1 DEF Proceed, TypeOK, Idle

(* What a worker holds when it has an outcome to record. *)
LEMMA AfterBegin ==
    ASSUME TypeOK, NEW w \in Workers, NEW c \in Capabilities, NEW verified \in BOOLEAN,
           NEW intervened \in BOOLEAN, BeginOutcome(w, c, verified, intervened)
    PROVE  /\ worker' \in [Workers -> Worker]
           /\ worker'[w].at = "read" /\ worker'[w].capability = c
           /\ worker'[w].intervened = intervened
           /\ \A v \in Workers : v # w => worker'[v] = worker[v]
<1>1. [Idle EXCEPT !.at = "read", !.capability = c, !.verified = verified,
                   !.intervened = intervened] \in Worker
  BY IdleType DEF Worker
<1>2. QED
  BY <1>1 DEF BeginOutcome, TypeOK, Idle

(* A worker that is done is at rest. *)
LEMMA AfterFinish ==
    ASSUME TypeOK, NEW w \in Workers, Finish(w)
    PROVE  /\ worker' \in [Workers -> Worker]
           /\ worker'[w].at = "idle"
           /\ \A v \in Workers : v # w => worker'[v] = worker[v]
BY IdleType DEF Finish, TypeOK, Idle

(* A worker that has seen something is still a worker. *)
LEMMA SeenType ==
    ASSUME NEW x \in Worker, NEW p \in {"save", "create"}, NEW n \in Numbers
    PROVE  [x EXCEPT !.at = p, !.seen = n] \in Worker
BY DEF Worker

(* What a worker holds when it has read the record. *)
LEMMA AfterRead ==
    ASSUME TypeOK, Positions, NEW w \in Workers, ReadRecord(w)
    PROVE  /\ worker' \in [Workers -> Worker]
           /\ worker'[w].capability = worker[w].capability
           /\ worker'[w].intervened = worker[w].intervened
           /\ IF worker[w].capability \in tracked
              THEN worker'[w].at = "save" /\ worker'[w].seen = records[worker[w].capability]
              ELSE worker'[w].at = "create" /\ worker'[w].seen = Fresh
           /\ \A v \in Workers : v # w => worker'[v] = worker[v]
<1>1. worker[w].capability \in Capabilities
  BY DEF ReadRecord, At, Positions
<1>2. worker[w].capability \in tracked => records[worker[w].capability] \in Numbers
  BY <1>1 DEF TypeOK
<1>3. worker' \in [Workers -> Worker]
  <2>1. ASSUME NEW p \in {"save", "create"}, NEW n \in Numbers
        PROVE  [worker[w] EXCEPT !.at = p, !.seen = n] \in Worker
    <3>1. worker[w] \in Worker
      BY DEF TypeOK
    <3>2. QED
      BY <3>1, SeenType
  <2>2. CASE worker[w].capability \in tracked
    BY <1>2, <2>1, <2>2 DEF ReadRecord, TypeOK
  <2>3. CASE worker[w].capability \notin tracked
    BY <2>1, <2>3, FreshType DEF ReadRecord, TypeOK
  <2>4. QED
    BY <2>2, <2>3
<1>4. \A v \in Workers : v # w => worker'[v] = worker[v]
  BY DEF ReadRecord, TypeOK
<1>5. CASE worker[w].capability \in tracked
  BY <1>3, <1>4, <1>5 DEF ReadRecord, TypeOK, Worker
<1>6. CASE worker[w].capability \notin tracked
  BY <1>3, <1>4, <1>6 DEF ReadRecord, TypeOK, Worker
<1>7. QED
  BY <1>5, <1>6

(* What a worker holds when it has created the record. *)
LEMMA AfterCreate ==
    ASSUME TypeOK, NEW w \in Workers, CreateRecord(w)
    PROVE  /\ worker' \in [Workers -> Worker]
           /\ worker'[w].capability = worker[w].capability
           /\ worker'[w].intervened = worker[w].intervened
           /\ worker'[w].at = "save" /\ worker'[w].seen = worker[w].seen
           /\ \A v \in Workers : v # w => worker'[v] = worker[v]
BY DEF CreateRecord, TypeOK, Worker

(* A worker that holds a request holds its call: what Execute asks for is  *)
(* held under the verdict it was given.                                    *)
LEMMA DecideMoves ==
    ASSUME TypeOK, HeldCalls, NEW w \in Workers, NEW r \in Requests, NEW b \in BOOLEAN,
           Decide(w, r, b)
    PROVE  /\ worker' \in [Workers -> Worker]
           /\ \A v \in Workers : v # w => worker'[v] = worker[v]
           /\ worker'[w].at \in {"idle", "read"}
           /\ worker'[w].at = "read" => worker'[w].capability \in Capabilities
           /\ IF requests[r].g07
              THEN /\ worker'[w].at = "read" /\ worker'[w].intervened
                   /\ worker'[w].capability = requests[r].call.capability
              ELSE worker'[w].at = "idle"
<1>1. requests[r].call \in Calls /\ requests[r].call.capability \in Capabilities
  BY DEF Decide, Undecided, HeldCalls, Call
<1>2. CASE ~requests[r].g07
  BY <1>2 DEF Decide, TypeOK, At
<1>3. CASE requests[r].g07
  <2> DEFINE c == requests[r].call.capability
  <2>1. c = requests[r].call.capability
    OBVIOUS
  <2>2. c \in Capabilities /\ b \in BOOLEAN /\ TRUE \in BOOLEAN /\ BeginOutcome(w, c, b, TRUE)
    BY <1>1, <1>3 DEF Decide
  <2> HIDE DEF c
  <2>3. /\ worker' \in [Workers -> Worker]
        /\ worker'[w].at = "read" /\ worker'[w].capability = c
        /\ worker'[w].intervened = TRUE
        /\ \A v \in Workers : v # w => worker'[v] = worker[v]
    BY <2>2, AfterBegin, ZenonT(60)
  <2>4. worker'[w].capability \in Capabilities
    BY <2>2, <2>3, Zenon
  <2>5. worker'[w].intervened /\ worker'[w].capability = requests[r].call.capability
    BY <2>1, <2>3, Zenon
  <2>6. QED
    BY <1>3, <2>3, <2>4, <2>5, Zenon
<1>4. QED
  BY <1>2, <1>3

(* A tool that has run leaves its worker at rest or with an outcome. *)
LEMMA RunToolMoves ==
    ASSUME TypeOK, NEW w \in Workers, RunTool(w)
    PROVE  /\ worker' \in [Workers -> Worker]
           /\ \A v \in Workers : v # w => worker'[v] = worker[v]
           /\ worker'[w].at \in {"idle", "read"}
           /\ worker'[w].at = "read" =>
                 worker'[w].capability \in Capabilities /\ ~worker'[w].intervened
<1>1. CASE Finish(w)
  BY <1>1, AfterFinish
<1>2. ASSUME worker[w].call.capability \in Verifiable, NEW b \in BOOLEAN,
             BeginOutcome(w, worker[w].call.capability, b, FALSE)
      PROVE  /\ worker' \in [Workers -> Worker]
             /\ \A v \in Workers : v # w => worker'[v] = worker[v]
             /\ worker'[w].at = "read" /\ worker'[w].capability \in Capabilities
             /\ ~worker'[w].intervened
  <2> DEFINE c == worker[w].call.capability
  <2>1. c \in Capabilities /\ FALSE \in BOOLEAN /\ BeginOutcome(w, c, b, FALSE)
    BY <1>2
  <2> HIDE DEF c
  <2>2. /\ worker' \in [Workers -> Worker]
        /\ worker'[w].at = "read" /\ worker'[w].capability = c
        /\ worker'[w].intervened = FALSE
        /\ \A v \in Workers : v # w => worker'[v] = worker[v]
    BY <2>1, AfterBegin, ZenonT(60)
  <2>3. worker'[w].capability \in Capabilities /\ ~worker'[w].intervened
    BY <2>1, <2>2, Zenon
  <2>4. QED
    BY <2>2, <2>3, Zenon
<1>3. \A result \in Result : Verified(result) \in BOOLEAN
  BY DEF Verified
<1>4. QED
  BY <1>1, <1>2, <1>3 DEF RunTool

(* What SYNAPSE installs, its worker has an outcome to record of. *)
LEMMA InstallMoves ==
    ASSUME TypeOK, NEW w \in Workers, NEW c \in Capabilities, Install(w, c)
    PROVE  /\ worker' \in [Workers -> Worker]
           /\ worker'[w].at = "read" /\ worker'[w].capability = c
           /\ ~worker'[w].intervened
           /\ \A v \in Workers : v # w => worker'[v] = worker[v]
<1>1. TRUE \in BOOLEAN /\ FALSE \in BOOLEAN /\ BeginOutcome(w, c, TRUE, FALSE)
  BY DEF Install
<1>2. QED
  BY <1>1, AfterBegin, ZenonT(60)

-----------------------------------------------------------------------------
(* What the Guardian lets through *)

(* A call allowed at once is one of low risk that no policy matches, of a  *)
(* capability that is not supervised.                                      *)
LEMMA AllowedCall ==
    ASSUME NEW call \in Calls, Verdict(call) = "ALLOW"
    PROVE  /\ "prohibited" \notin Texts(call) /\ "approval" \notin Texts(call) /\ call.risk = "LOW"
           /\ ~Supervised(call.capability)
<1>1. call.risk \in Risks /\ call.label \in Policies /\ call.detail \in Policies
  BY DEF Call
<1>2. QED
  BY <1>1 DEF Verdict, Evaluate, FindPolicy, Risks, Policies

(* A call held for approval matches no prohibition. *)
LEMMA HeldCall ==
    ASSUME NEW call \in Calls, Verdict(call) = "APPROVAL_REQUIRED"
    PROVE  "prohibited" \notin Texts(call)
BY DEF Verdict, Evaluate, FindPolicy

(* The recheck leaves a high risk only to a policy on the label. *)
LEMMA RecheckedCall ==
    ASSUME NEW call \in Calls, Rechecked(call), "prohibited" \notin Texts(call)
    PROVE  call.risk = "HIGH" => call.label = "approval"
<1>1. call.label \in Policies
  BY DEF Call
<1>2. QED
  BY <1>1 DEF Rechecked, Recheck, Evaluate, FindPolicy, Texts, Policies

-----------------------------------------------------------------------------
(* Steps that leave the records alone *)

(* Such a step moves no record, and only workers that are not recording.   *)
Quiet ==
    /\ UNCHANGED <<records, balance, overlapped>>
    /\ tracked \subseteq tracked' /\ tracked' \subseteq Capabilities
    /\ worker' \in [Workers -> Worker]
    /\ \A v \in Workers : worker'[v] = worker[v] \/ worker'[v].at \in {"idle", "call", "read"}
    /\ Positions'

(* Every step but the three of record_outcome is one. *)
LEMMA QuietStep ==
    ASSUME TypeOK, Positions, HeldCalls, [Next]_vars, \A w \in Workers : ~Record(w)
    PROVE  Quiet
<1> USE DEF Positions, At
<1>1. ASSUME NEW w \in Workers, NEW call \in Calls, Execute(w, call)
      PROVE  Quiet
  <2>1. UNCHANGED <<records, balance, overlapped, tracked>> /\ tracked \subseteq Capabilities
    BY <1>1 DEF Execute, ledger, TypeOK
  <2>2. CASE Proceed(w, call, NoRequest)
    <3>1. /\ worker' \in [Workers -> Worker]
          /\ worker'[w].at = "call" /\ worker'[w].call = call
          /\ \A v \in Workers : v # w => worker'[v] = worker[v]
      BY <2>2, AfterProceed, Zenon
    <3>2. QED
      BY <2>1, <3>1 DEF Quiet
  <2>3. CASE UNCHANGED worker
    BY <2>1, <2>3 DEF Quiet, TypeOK
  <2>4. QED
    BY <1>1, <2>2, <2>3 DEF Execute
<1>2. ASSUME NEW w \in Workers, NEW r \in Requests, ExecuteApproved(w, r)
      PROVE  Quiet
  <2>1. UNCHANGED <<records, balance, overlapped, tracked>> /\ tracked \subseteq Capabilities
    BY <1>2 DEF ExecuteApproved, ledger, TypeOK
  <2>2. requests[r].call \in Calls
    BY <1>2 DEF ExecuteApproved, HeldCalls
  <2>3. CASE Proceed(w, requests[r].call, r)
    <3>1. /\ worker' \in [Workers -> Worker]
          /\ worker'[w].at = "call" /\ worker'[w].call = requests[r].call
          /\ \A v \in Workers : v # w => worker'[v] = worker[v]
      BY <2>2, <2>3, AfterProceed, Zenon
    <3>2. QED
      BY <2>1, <2>2, <3>1 DEF Quiet
  <2>4. CASE UNCHANGED worker
    BY <2>1, <2>4 DEF Quiet, TypeOK
  <2>5. QED
    BY <1>2, <2>3, <2>4 DEF ExecuteApproved
<1>3. ASSUME NEW w \in Workers, NEW r \in Requests, NEW b \in BOOLEAN, Decide(w, r, b)
      PROVE  Quiet
  <2>1. UNCHANGED <<records, balance, overlapped, tracked>> /\ tracked \subseteq Capabilities
    BY <1>3 DEF Decide, ledger, TypeOK
  <2>2. /\ worker' \in [Workers -> Worker]
        /\ \A v \in Workers : v # w => worker'[v] = worker[v]
        /\ worker'[w].at \in {"idle", "read"}
        /\ worker'[w].at = "read" => worker'[w].capability \in Capabilities
    BY <1>3, DecideMoves
  <2>3. QED
    BY <2>1, <2>2 DEF Quiet
<1>4. ASSUME NEW w \in Workers, RunTool(w)
      PROVE  Quiet
  <2>1. UNCHANGED <<records, balance, overlapped, tracked>> /\ tracked \subseteq Capabilities
    BY <1>4 DEF RunTool, ledger, TypeOK
  <2>2. QED
    BY <1>4, <2>1, RunToolMoves DEF Quiet
<1>5. ASSUME NEW w \in Workers, NEW c \in Capabilities, Install(w, c)
      PROVE  Quiet
  <2>1. UNCHANGED <<records, balance, overlapped, tracked>> /\ tracked \subseteq Capabilities
    BY <1>5 DEF Install, ledger, TypeOK
  <2>2. QED
    BY <1>5, <2>1, InstallMoves DEF Quiet
<1>6. ASSUME NEW w \in Workers, WorkerRaises(w)
      PROVE  Quiet
  <2>1. UNCHANGED <<records, balance, overlapped, tracked>> /\ tracked \subseteq Capabilities
    BY <1>6 DEF WorkerRaises, ledger, TypeOK
  <2>2. Finish(w)
    BY <1>6 DEF WorkerRaises
  <2>3. QED
    BY <2>1, <2>2, AfterFinish DEF Quiet
<1>7. CASE \E c \in Capabilities : Propose(c)
  BY <1>7 DEF Propose, Quiet, TypeOK
<1>8. CASE SetKillSwitch \/ UNCHANGED vars
  BY <1>8 DEF SetKillSwitch, vars, ledger, Quiet, TypeOK
<1>9. QED
  BY <1>1, <1>2, <1>3, <1>4, <1>5, <1>6, <1>7, <1>8 DEF Next

(* What a step of the specification is: quiet, or a step of record_outcome. *)
LEMMA StepKinds ==
    ASSUME TypeOK, Positions, HeldCalls, [Next]_vars
    PROVE  \/ Quiet
           \/ \E w \in Workers : ReadRecord(w) \/ CreateRecord(w) \/ SaveRecord(w)
BY QuietStep DEF Record

-----------------------------------------------------------------------------
(* LedgerInv is preserved, part by part *)

(* Approvals, installs, the switch and the failures keep their types. *)
LEMMA EnvironmentType ==
    ASSUME TypeOK, [Next]_vars
    PROVE  /\ installed' \in SUBSET Capabilities
           /\ requests' \in [Requests -> Request]
           /\ killSwitch' \in BOOLEAN
           /\ faults' \in Nat
<1>1. ASSUME NEW w \in Workers, NEW call \in Calls, Execute(w, call)
      PROVE  requests' \in [Requests -> Request]
  <2>1. CASE UNCHANGED requests
    BY <2>1 DEF TypeOK
  <2> DEFINE g == FindPolicy(Texts(call)) = "none" /\ Supervised(call.capability)
  <2>2. g \in BOOLEAN
    OBVIOUS
  <2>3. ASSUME NEW r \in Requests,
               requests' = [requests EXCEPT ![r] = [status |-> "PENDING", call |-> call,
                                                    claimed |-> FALSE, g07 |-> g]]
        PROVE  requests' \in [Requests -> Request]
    <3> HIDE DEF g
    <3>1. [status |-> "PENDING", call |-> call, claimed |-> FALSE, g07 |-> g] \in Request
      BY <2>2 DEF Request
    <3>2. QED
      BY <2>3, <3>1 DEF TypeOK
  <2>4. QED
    BY <1>1, <2>1, <2>3 DEF Execute
<1>2. ASSUME NEW w \in Workers, NEW r \in Requests, ExecuteApproved(w, r)
      PROVE  requests' \in [Requests -> Request]
  <2>1. requests[r] \in Request
    BY DEF TypeOK
  <2>2. [requests[r] EXCEPT !.claimed = TRUE] \in Request
    BY <2>1 DEF Request
  <2>3. \/ UNCHANGED requests
        \/ requests' = [requests EXCEPT ![r] = [requests[r] EXCEPT !.claimed = TRUE]]
    BY <1>2 DEF ExecuteApproved
  <2>4. QED
    BY <2>2, <2>3 DEF TypeOK
<1>3. ASSUME NEW w \in Workers, NEW r \in Requests, NEW b \in BOOLEAN, Decide(w, r, b)
      PROVE  requests' \in [Requests -> Request]
  BY <1>3 DEF Decide, TypeOK, Request
<1>4. requests' \in [Requests -> Request]
  <2>1. UNCHANGED requests => requests' \in [Requests -> Request]
    BY DEF TypeOK
  <2>2. QED
    BY <1>1, <1>2, <1>3, <2>1
    DEF Next, Record, ReadRecord, CreateRecord, SaveRecord, RunTool, WorkerRaises, Install,
        Propose, SetKillSwitch, environment, vars
<1>5. installed' \in SUBSET Capabilities /\ faults' \in Nat
  <2>1. \/ UNCHANGED <<installed, faults>>
        \/ \E w \in Workers : WorkerRaises(w)
        \/ \E w \in Workers, c \in Capabilities : Install(w, c)
    BY DEF Next, Record, ReadRecord, CreateRecord, SaveRecord, RunTool, Propose, SetKillSwitch,
           Execute, ExecuteApproved, Decide, environment, vars
  <2>2. CASE UNCHANGED <<installed, faults>>
    BY <2>2 DEF TypeOK
  <2>3. CASE \E w \in Workers : WorkerRaises(w)
    BY <2>3 DEF TypeOK, WorkerRaises, environment
  <2>4. CASE \E w \in Workers, c \in Capabilities : Install(w, c)
    BY <2>4 DEF TypeOK, Install
  <2>5. QED
    BY <2>1, <2>2, <2>3, <2>4
<1>6. killSwitch' \in BOOLEAN
  <2>1. CASE SetKillSwitch
    BY <2>1, Zenon DEF SetKillSwitch
  <2>2. CASE UNCHANGED killSwitch
    BY <2>2 DEF TypeOK
  <2>3. SetKillSwitch \/ UNCHANGED killSwitch
    BY DEF Next, Record, ReadRecord, CreateRecord, SaveRecord, RunTool, WorkerRaises,
           Install, Propose, Execute, ExecuteApproved, Decide, environment, vars
  <2>4. QED
    BY <2>1, <2>2, <2>3
<1>7. QED
  BY <1>4, <1>5, <1>6

(* What a worker saves is a record, and so is what it adds to the balance. *)
LEMMA AfterSave ==
    ASSUME TypeOK, Positions, NEW w \in Workers, SaveRecord(w)
    PROVE  LET h == worker[w] IN
           /\ h.capability \in Capabilities /\ h.seen \in Numbers
           /\ h.verified \in BOOLEAN /\ h.intervened \in BOOLEAN
           /\ records' = [records EXCEPT ![h.capability] =
                              Outcome(h.seen, h.verified, h.intervened)]
           /\ balance' = [balance EXCEPT ![h.capability] =
                              Outcome(balance[h.capability], h.verified, h.intervened)]
           /\ records' \in [Capabilities -> Numbers]
           /\ balance' \in [Capabilities -> Numbers]
<1>1. worker[w] \in Worker /\ worker[w].capability \in Capabilities
  BY DEF TypeOK, SaveRecord, Positions, At
<1>2. /\ worker[w].seen \in Numbers /\ worker[w].verified \in BOOLEAN
      /\ worker[w].intervened \in BOOLEAN
  BY <1>1 DEF Worker
<1>3. /\ Outcome(worker[w].seen, worker[w].verified, worker[w].intervened) \in Numbers
      /\ Outcome(balance[worker[w].capability], worker[w].verified, worker[w].intervened)
            \in Numbers
  <2>1. balance[worker[w].capability] \in Numbers
    BY <1>1 DEF TypeOK
  <2>2. QED
    BY <1>2, <2>1, OutcomeType, Zenon
<1>4. /\ records' = [records EXCEPT ![worker[w].capability] =
                         Outcome(worker[w].seen, worker[w].verified, worker[w].intervened)]
      /\ balance' = [balance EXCEPT ![worker[w].capability] =
             Outcome(balance[worker[w].capability], worker[w].verified, worker[w].intervened)]
  BY DEF SaveRecord, Moved
<1>5. records' \in [Capabilities -> Numbers] /\ balance' \in [Capabilities -> Numbers]
  BY <1>3, <1>4 DEF TypeOK
<1>6. QED
  BY <1>1, <1>2, <1>4, <1>5

(* Every variable keeps its type. *)
LEMMA TypeStep ==
    ASSUME TypeOK, Positions, HeldCalls, [Next]_vars
    PROVE  TypeOK'
<1>1. ASSUME Quiet
      PROVE  TypeOK'
  BY <1>1, EnvironmentType DEF TypeOK, Quiet
<1>2. ASSUME NEW w \in Workers, ReadRecord(w)
      PROVE  TypeOK'
  <2>1. worker' \in [Workers -> Worker]
    BY <1>2, AfterRead
  <2>2. overlapped' \in SUBSET Capabilities
    BY <1>2 DEF ReadRecord, TypeOK, Positions, At
  <2>3. QED
    BY <1>2, <2>1, <2>2, EnvironmentType DEF TypeOK, ReadRecord
<1>3. ASSUME NEW w \in Workers, CreateRecord(w)
      PROVE  TypeOK'
  <2>1. worker[w].capability \in Capabilities
    BY <1>3 DEF CreateRecord, Positions, At
  <2>2. records' \in [Capabilities -> Numbers]
    <3>1. [Fresh EXCEPT !.interventions = records[worker[w].capability].interventions] \in Numbers
      BY <2>1, FreshType DEF TypeOK, Numbers
    <3>2. QED
      BY <1>3, <3>1 DEF CreateRecord, TypeOK
  <2>3. worker' \in [Workers -> Worker]
    BY <1>3, AfterCreate
  <2>4. QED
    BY <1>3, <2>1, <2>2, <2>3, EnvironmentType DEF TypeOK, CreateRecord
<1>4. ASSUME NEW w \in Workers, SaveRecord(w)
      PROVE  TypeOK'
  <2>1. worker' \in [Workers -> Worker]
    BY <1>4, AfterFinish DEF SaveRecord
  <2>2. QED
    BY <1>4, <2>1, AfterSave, EnvironmentType DEF TypeOK, SaveRecord
<1>5. QED
  BY <1>1, <1>2, <1>3, <1>4, StepKinds

(* A worker knows what it calls, or whose outcome it records. *)
LEMMA PositionsStep ==
    ASSUME TypeOK, Positions, HeldCalls, [Next]_vars
    PROVE  Positions'
<1> USE DEF Positions, At
<1>1. ASSUME Quiet
      PROVE  Positions'
  BY <1>1 DEF Quiet
<1>2. ASSUME NEW w \in Workers, ReadRecord(w)
      PROVE  Positions'
  <2>1. /\ worker' \in [Workers -> Worker] /\ tracked' = tracked
        /\ worker'[w].at \in {"save", "create"} /\ worker'[w].capability = worker[w].capability
        /\ worker'[w].at = "save" => worker[w].capability \in tracked
        /\ \A v \in Workers : v # w => worker'[v] = worker[v]
    BY <1>2, AfterRead DEF ReadRecord
  <2>2. worker[w].capability \in Capabilities
    BY <1>2 DEF ReadRecord
  <2>3. QED
    BY <2>1, <2>2
<1>3. ASSUME NEW w \in Workers, CreateRecord(w)
      PROVE  Positions'
  <2>1. /\ tracked' = tracked \cup {worker[w].capability} /\ worker[w].at = "create"
        /\ worker'[w].at = "save" /\ worker'[w].capability = worker[w].capability
        /\ \A v \in Workers : v # w => worker'[v] = worker[v]
    BY <1>3, AfterCreate DEF CreateRecord
  <2>2. QED
    BY <2>1
<1>4. ASSUME NEW w \in Workers, SaveRecord(w)
      PROVE  Positions'
  BY <1>4, AfterFinish DEF SaveRecord
<1>5. QED
  BY <1>1, <1>2, <1>3, <1>4, StepKinds

(* Records hold no more than what happened. *)
LEMMA TrustStep ==
    ASSUME TypeOK, Positions, HeldCalls, TrustIsEarned, SnapshotsAreEarned, [Next]_vars
    PROVE  TrustIsEarned'
<1>1. ASSUME Quiet
      PROVE  TrustIsEarned'
  BY <1>1 DEF Quiet, TrustIsEarned
<1>2. ASSUME NEW w \in Workers, ReadRecord(w)
      PROVE  TrustIsEarned'
  BY <1>2 DEF ReadRecord, TrustIsEarned
<1>3. ASSUME NEW w \in Workers, CreateRecord(w)
      PROVE  TrustIsEarned'
  <2> DEFINE c == worker[w].capability
  <2>1. c \in Capabilities /\ records[c] \in Numbers /\ balance[c] \in Numbers
    BY <1>3 DEF CreateRecord, Positions, At, TypeOK
  <2>2. records[c].interventions \in Nat /\ records[c].interventions <= balance[c].interventions
    BY <2>1 DEF TrustIsEarned, Earned, Numbers
  <2>3. Earned([Fresh EXCEPT !.interventions = records[c].interventions], balance[c])
    BY <2>1, <2>2, FreshIsEarned, Zenon
  <2>4. QED
    BY <1>3, <2>1, <2>3 DEF CreateRecord, TrustIsEarned, TypeOK
<1>4. ASSUME NEW w \in Workers, SaveRecord(w)
      PROVE  TrustIsEarned'
  <2> DEFINE h == worker[w]
  <2>1. /\ h.capability \in Capabilities /\ h.seen \in Numbers /\ balance[h.capability] \in Numbers
        /\ h.verified \in BOOLEAN /\ h.intervened \in BOOLEAN
        /\ Earned(h.seen, balance[h.capability])
    BY <1>4, AfterSave DEF TypeOK, SnapshotsAreEarned, SaveRecord, At
  <2>2. Earned(Outcome(h.seen, h.verified, h.intervened),
               Outcome(balance[h.capability], h.verified, h.intervened))
    BY <2>1, OutcomeIsEarned, Zenon
  <2>3. QED
    BY <1>4, <2>1, <2>2, AfterSave DEF TrustIsEarned, TypeOK
<1>5. QED
  BY <1>1, <1>2, <1>3, <1>4, StepKinds

(* What a worker has seen is no more than what happened. *)
LEMMA SnapshotsStep ==
    ASSUME TypeOK, Positions, HeldCalls, TrustIsEarned, SnapshotsAreEarned, [Next]_vars
    PROVE  SnapshotsAreEarned'
<1> DEFINE Good(v) == worker[v].at \in {"create", "save"} =>
                          Earned(worker[v].seen, balance[worker[v].capability])
<1>1. ASSUME Quiet
      PROVE  SnapshotsAreEarned'
  BY <1>1 DEF Quiet, SnapshotsAreEarned
<1>2. ASSUME NEW w \in Workers, ReadRecord(w)
      PROVE  SnapshotsAreEarned'
  <2> DEFINE c == worker[w].capability
  <2>1. c \in Capabilities /\ balance[c] \in Numbers /\ Earned(records[c], balance[c])
    BY <1>2 DEF ReadRecord, Positions, At, TypeOK, TrustIsEarned
  <2>2. Earned(Fresh, balance[c])
    <3>1. 0 \in Nat /\ 0 <= balance[c].interventions /\ Fresh = [Fresh EXCEPT !.interventions = 0]
      BY <2>1 DEF Numbers, Fresh
    <3>2. Earned([Fresh EXCEPT !.interventions = 0], balance[c])
      BY <2>1, <3>1, FreshIsEarned
    <3>3. QED
      BY <3>1, <3>2
  <2>3. Good(w)'
    BY <1>2, <2>1, <2>2, AfterRead DEF ReadRecord
  <2>4. \A v \in Workers : v # w => Good(v)'
    BY <1>2, AfterRead DEF ReadRecord, SnapshotsAreEarned
  <2>5. QED
    BY <2>3, <2>4 DEF SnapshotsAreEarned
<1>3. ASSUME NEW w \in Workers, CreateRecord(w)
      PROVE  SnapshotsAreEarned'
  BY <1>3, AfterCreate DEF CreateRecord, SnapshotsAreEarned, At
<1>4. ASSUME NEW w \in Workers, SaveRecord(w)
      PROVE  SnapshotsAreEarned'
  <2> DEFINE h == worker[w]
  <2>1. worker'[w].at = "idle" /\ \A v \in Workers : v # w => worker'[v] = worker[v]
    BY <1>4, AfterFinish DEF SaveRecord
  <2>2. ASSUME NEW v \in Workers, v # w, worker[v].at \in {"create", "save"}
        PROVE  Earned(worker[v].seen, balance'[worker[v].capability])
    <3>1. /\ worker[v].seen \in Numbers /\ worker[v].capability \in Capabilities
          /\ Earned(worker[v].seen, balance[worker[v].capability])
          /\ balance[worker[v].capability] \in Numbers
      BY <2>2 DEF TypeOK, Worker, Positions, SnapshotsAreEarned
    <3>2. h.verified \in BOOLEAN /\ h.intervened \in BOOLEAN
      BY <1>4, AfterSave
    <3>3. Earned(worker[v].seen,
                 Outcome(balance[worker[v].capability], h.verified, h.intervened))
      BY <3>1, <3>2, EarnedStands, Zenon
    <3>4. CASE worker[v].capability = h.capability
      BY <1>4, <3>1, <3>3, <3>4, AfterSave DEF TypeOK
    <3>5. CASE worker[v].capability # h.capability
      BY <1>4, <3>1, <3>5, AfterSave DEF TypeOK
    <3>6. QED
      BY <3>4, <3>5
  <2>3. QED
    BY <2>1, <2>2 DEF SnapshotsAreEarned
<1>5. QED
  BY <1>1, <1>2, <1>3, <1>4, StepKinds

(* Nothing is recorded of a capability without a document. *)
LEMMA UntrackedStep ==
    ASSUME TypeOK, Positions, HeldCalls, Untracked, [Next]_vars
    PROVE  Untracked'
<1>1. ASSUME Quiet
      PROVE  Untracked'
  BY <1>1 DEF Quiet, Untracked
<1>2. ASSUME NEW w \in Workers, ReadRecord(w)
      PROVE  Untracked'
  BY <1>2 DEF ReadRecord, Untracked
<1>3. ASSUME NEW w \in Workers, CreateRecord(w)
      PROVE  Untracked'
  BY <1>3 DEF CreateRecord, Untracked, TypeOK
<1>4. ASSUME NEW w \in Workers, SaveRecord(w)
      PROVE  Untracked'
  BY <1>4 DEF SaveRecord, Untracked, TypeOK, Positions
<1>5. QED
  BY <1>1, <1>2, <1>3, <1>4, StepKinds

(* Of a capability recorded by one worker at a time, that worker has seen  *)
(* the record as it is.                                                    *)
LEMMA SerialSnapshotsStep ==
    ASSUME TypeOK, Positions, HeldCalls, Untracked, SerialSnapshots, [Next]_vars
    PROVE  SerialSnapshots'
<1>1. ASSUME Quiet
      PROVE  SerialSnapshots'
  BY <1>1 DEF Quiet, SerialSnapshots, Recording, At
<1>2. ASSUME NEW w \in Workers, ReadRecord(w), NEW c \in Capabilities \ overlapped'
      PROVE  /\ \A v \in Workers : Recording(v, c)' =>
                   worker'[v].seen = records'[c] /\ (At(v, "create")' => records'[c] = Fresh)
             /\ \A u, v \in Workers : Recording(u, c)' /\ Recording(v, c)' => u = v
  <2>1. /\ worker'[w].capability = worker[w].capability
        /\ \A v \in Workers : v # w => worker'[v] = worker[v]
        /\ IF worker[w].capability \in tracked
           THEN worker'[w].at = "save" /\ worker'[w].seen = records[worker[w].capability]
           ELSE worker'[w].at = "create" /\ worker'[w].seen = Fresh
    BY <1>2, AfterRead
  <2>2. records' = records /\ c \notin overlapped
    BY <1>2 DEF ReadRecord
  <2>3. CASE worker[w].capability = c
    <3>1. \A v \in Workers : v # w => ~Recording(v, c)
      BY <1>2, <2>3 DEF ReadRecord
    <3>2. \A v \in Workers : v # w => ~Recording(v, c)'
      BY <2>1, <3>1 DEF Recording
    <3>3. c \notin tracked => records[c] = Fresh
      BY <1>2 DEF Untracked
    <3>4. QED
      BY <2>1, <2>2, <2>3, <3>2, <3>3 DEF At
  <2>4. CASE worker[w].capability # c
    <3>1. ~Recording(w, c)'
      BY <2>1, <2>4 DEF Recording
    <3>2. \A v \in Workers : v # w => (Recording(v, c)' <=> Recording(v, c))
      BY <2>1 DEF Recording
    <3>3. QED
      BY <1>2, <2>1, <2>2, <3>1, <3>2 DEF SerialSnapshots, At
  <2>5. QED
    BY <2>3, <2>4
<1>3. ASSUME NEW w \in Workers, CreateRecord(w), NEW c \in Capabilities \ overlapped
      PROVE  /\ \A v \in Workers : Recording(v, c)' =>
                   worker'[v].seen = records'[c] /\ (At(v, "create")' => records'[c] = Fresh)
             /\ \A u, v \in Workers : Recording(u, c)' /\ Recording(v, c)' => u = v
  <2>1. /\ worker'[w].capability = worker[w].capability
        /\ worker'[w].at = "save" /\ worker'[w].seen = worker[w].seen
        /\ \A v \in Workers : v # w => worker'[v] = worker[v]
    BY <1>3, AfterCreate
  <2>2. worker[w].at = "create" /\ worker[w].capability \in Capabilities
    BY <1>3 DEF CreateRecord, At, Positions
  <2>3. \A v \in Workers : Recording(v, c)' <=> Recording(v, c)
    BY <2>1, <2>2 DEF Recording
  <2>4. records'[c] = records[c]
    <3>1. CASE worker[w].capability = c
      <4>1. records[c] = Fresh
        BY <1>3, <2>2, <3>1 DEF SerialSnapshots, Recording, At
      <4>2. records'[c] = [Fresh EXCEPT !.interventions = records[c].interventions]
        BY <1>3, <3>1 DEF CreateRecord, TypeOK
      <4>3. [Fresh EXCEPT !.interventions = Fresh.interventions] = Fresh
        BY DEF Fresh
      <4>4. QED
        BY <4>1, <4>2, <4>3
    <3>2. CASE worker[w].capability # c
      BY <1>3, <3>2 DEF CreateRecord, TypeOK
    <3>3. QED
      BY <3>1, <3>2
  <2>5. \A v \in Workers : worker'[v].seen = worker[v].seen /\ (At(v, "create")' => At(v, "create"))
    BY <2>1 DEF At
  <2>6. QED
    BY <1>3, <2>3, <2>4, <2>5 DEF SerialSnapshots
<1>4. ASSUME NEW w \in Workers, SaveRecord(w), NEW c \in Capabilities \ overlapped
      PROVE  /\ \A v \in Workers : Recording(v, c)' =>
                   worker'[v].seen = records'[c] /\ (At(v, "create")' => records'[c] = Fresh)
             /\ \A u, v \in Workers : Recording(u, c)' /\ Recording(v, c)' => u = v
  <2>1. worker'[w].at = "idle" /\ \A v \in Workers : v # w => worker'[v] = worker[v]
    BY <1>4, AfterFinish DEF SaveRecord
  <2>2. \A v \in Workers : Recording(v, c)' => v # w /\ Recording(v, c)
    BY <2>1 DEF Recording
  <2>3. CASE worker[w].capability = c
    <3>1. Recording(w, c)
      BY <1>4, <2>3 DEF Recording, SaveRecord, At
    <3>2. \A v \in Workers : ~Recording(v, c)'
      BY <1>4, <2>2, <3>1 DEF SerialSnapshots
    <3>3. QED
      BY <3>2
  <2>4. CASE worker[w].capability # c
    <3>1. records'[c] = records[c]
      BY <1>4, <2>4 DEF SaveRecord, TypeOK
    <3>2. QED
      BY <1>4, <2>1, <2>2, <3>1 DEF SerialSnapshots, At
  <2>5. QED
    BY <2>3, <2>4
<1>5. ASSUME NEW w \in Workers, CreateRecord(w) \/ SaveRecord(w)
      PROVE  overlapped' = overlapped
  BY <1>5 DEF CreateRecord, SaveRecord
<1>6. QED
  BY <1>1, <1>2, <1>3, <1>4, <1>5, StepKinds DEF SerialSnapshots

(* Of such a capability the record is what happened. *)
LEMMA SerialOutcomesStep ==
    ASSUME TypeOK, Positions, HeldCalls, SerialSnapshots, SerialOutcomesCount, [Next]_vars
    PROVE  SerialOutcomesCount'
<1>1. ASSUME Quiet
      PROVE  SerialOutcomesCount'
  BY <1>1 DEF Quiet, SerialOutcomesCount
<1>2. ASSUME NEW w \in Workers, ReadRecord(w)
      PROVE  SerialOutcomesCount'
  BY <1>2 DEF ReadRecord, SerialOutcomesCount
<1>3. ASSUME NEW w \in Workers, CreateRecord(w), NEW c \in Capabilities \ overlapped
      PROVE  records'[c] = balance'[c]
  <2>1. balance' = balance /\ worker[w].at = "create"
    BY <1>3 DEF CreateRecord, At
  <2>2. CASE worker[w].capability = c
    <3>1. records[c] = Fresh
      BY <1>3, <2>1, <2>2 DEF SerialSnapshots, Recording, At
    <3>2. records'[c] = [Fresh EXCEPT !.interventions = records[c].interventions]
      BY <1>3, <2>2 DEF CreateRecord, TypeOK
    <3>3. [Fresh EXCEPT !.interventions = Fresh.interventions] = Fresh
      BY DEF Fresh
    <3>4. QED
      BY <2>1, <3>1, <3>2, <3>3 DEF SerialOutcomesCount
  <2>3. CASE worker[w].capability # c
    BY <1>3, <2>1, <2>3 DEF CreateRecord, TypeOK, SerialOutcomesCount
  <2>4. QED
    BY <2>2, <2>3
<1>4. ASSUME NEW w \in Workers, SaveRecord(w), NEW c \in Capabilities \ overlapped
      PROVE  records'[c] = balance'[c]
  <2>1. CASE worker[w].capability = c
    <3>1. worker[w].seen = records[c] /\ records[c] = balance[c]
      BY <1>4, <2>1 DEF SaveRecord, At, SerialSnapshots, Recording, SerialOutcomesCount
    <3>2. QED
      BY <1>4, <2>1, <3>1, AfterSave DEF TypeOK
  <2>2. CASE worker[w].capability # c
    BY <1>4, <2>2 DEF SaveRecord, TypeOK, SerialOutcomesCount
  <2>3. QED
    BY <2>1, <2>2
<1>5. ASSUME NEW w \in Workers, CreateRecord(w) \/ SaveRecord(w)
      PROVE  overlapped' = overlapped
  BY <1>5 DEF CreateRecord, SaveRecord
<1>6. QED
  BY <1>1, <1>2, <1>3, <1>4, <1>5, StepKinds DEF SerialOutcomesCount

(* A request keeps its call, and an approval stands. *)
LEMMA RequestsStand ==
    ASSUME TypeOK, [Next]_vars, NEW r \in Requests, requests[r].status # "ABSENT"
    PROVE  /\ requests'[r].status # "ABSENT"
           /\ requests'[r].call = requests[r].call
           /\ requests[r].status = "APPROVED" => requests'[r].status = "APPROVED"
<1>1. ASSUME NEW w \in Workers, NEW call \in Calls, Execute(w, call)
      PROVE  requests'[r] = requests[r]
  BY <1>1 DEF Execute, TypeOK
<1>2. ASSUME NEW w \in Workers, NEW q \in Requests, ExecuteApproved(w, q)
      PROVE  requests'[r].status = requests[r].status /\ requests'[r].call = requests[r].call
  BY <1>2 DEF ExecuteApproved, TypeOK, Request
<1>3. ASSUME NEW w \in Workers, NEW q \in Requests, NEW b \in BOOLEAN, Decide(w, q, b)
      PROVE  /\ requests'[r].status # "ABSENT"
             /\ requests'[r].call = requests[r].call
             /\ requests[r].status = "APPROVED" => requests'[r].status = "APPROVED"
  BY <1>3 DEF Decide, Undecided, TypeOK, Request
<1>4. \/ UNCHANGED requests
      \/ \E w \in Workers, call \in Calls : Execute(w, call)
      \/ \E w \in Workers, q \in Requests : ExecuteApproved(w, q)
      \/ \E w \in Workers, q \in Requests, b \in BOOLEAN : Decide(w, q, b)
  BY DEF Next, Record, ReadRecord, CreateRecord, SaveRecord, RunTool, WorkerRaises, Install,
         Propose, SetKillSwitch, environment, vars
<1>5. QED
  BY <1>1, <1>2, <1>3, <1>4

(* A request that was asked names a call that matches no prohibition. *)
LEMMA HeldStep ==
    ASSUME TypeOK, HeldCalls, [Next]_vars
    PROVE  HeldCalls'
<1>1. ASSUME NEW r \in Requests, requests[r].status # "ABSENT"
      PROVE  requests'[r].call \in Calls /\ "prohibited" \notin Texts(requests'[r].call)
  BY <1>1, RequestsStand DEF HeldCalls
<1>2. ASSUME NEW r \in Requests, requests[r].status = "ABSENT", requests'[r].status # "ABSENT"
      PROVE  requests'[r].call \in Calls /\ "prohibited" \notin Texts(requests'[r].call)
  <2>1. PICK w \in Workers, call \in Calls : Execute(w, call)
    <3>1. ASSUME NEW w \in Workers, NEW q \in Requests, ExecuteApproved(w, q)
          PROVE  FALSE
      BY <1>2, <3>1 DEF ExecuteApproved, TypeOK, Request
    <3>2. ASSUME NEW w \in Workers, NEW q \in Requests, NEW b \in BOOLEAN, Decide(w, q, b)
          PROVE  FALSE
      BY <1>2, <3>2 DEF Decide, Undecided, TypeOK, Request
    <3>3. QED
      BY <1>2, <3>1, <3>2
      DEF Next, Record, ReadRecord, CreateRecord, SaveRecord, RunTool, WorkerRaises, Install,
          Propose, SetKillSwitch, environment, vars
  <2>2. Verdict(call) = "APPROVAL_REQUIRED" /\ requests'[r].call = call
    BY <1>2, <2>1 DEF Execute, TypeOK
  <2>3. QED
    BY <2>2, HeldCall
<1>3. QED
  BY <1>1, <1>2 DEF HeldCalls

(* What was verified of a capability stays verified. *)
LEMMA VerifiedStands ==
    ASSUME TypeOK, Positions, HeldCalls, [Next]_vars, NEW c \in Capabilities,
           balance[c].successes > 0
    PROVE  balance'[c].successes > 0
<1>1. ASSUME balance' = balance
      PROVE  balance'[c].successes > 0
  BY <1>1
<1>2. ASSUME NEW w \in Workers, SaveRecord(w)
      PROVE  balance'[c].successes > 0
  <2> DEFINE h == worker[w]
  <2>1. balance[c] \in Numbers
    BY DEF TypeOK
  <2>2. balance'[c] = IF c = h.capability
                      THEN Outcome(balance[c], h.verified, h.intervened) ELSE balance[c]
    BY <1>2, AfterSave DEF TypeOK
  <2>3. Outcome(balance[c], h.verified, h.intervened).successes > 0
    BY <2>1 DEF Outcome, One, Numbers
  <2>4. QED
    BY <2>2, <2>3
<1>3. QED
  BY <1>1, <1>2, StepKinds DEF Quiet, ReadRecord, CreateRecord

(* Starting below the threshold, autonomy reaches it only with a verified  *)
(* outcome, so the Guardian supervises a tracked capability until then.    *)
LEMMA TrustedWasVerified ==
    ASSUME TypeOK, TrustIsEarned, NEW c \in Capabilities,
           records[c].autonomy >= SupervisionThreshold
    PROVE  balance[c].successes > 0
<1>1. records[c] \in Numbers /\ balance[c] \in Numbers /\ Earned(records[c], balance[c])
  BY DEF TypeOK, TrustIsEarned
<1>2. QED
  BY <1>1 DEF Earned, Numbers, StartingAutonomy, PromotionDelta, SupervisionThreshold

(* What is installed was proposed. *)
LEMMA InstalledStep ==
    ASSUME TypeOK, Positions, HeldCalls, InstalledAreTracked, [Next]_vars
    PROVE  InstalledAreTracked'
<1>1. tracked \subseteq tracked'
  BY StepKinds DEF Quiet, ReadRecord, CreateRecord, SaveRecord
<1>2. \/ installed' = installed
      \/ \E c \in tracked : installed' = installed \cup {c}
  BY DEF Next, Record, ReadRecord, CreateRecord, SaveRecord, RunTool, WorkerRaises, Install,
         Propose, SetKillSwitch, Execute, ExecuteApproved, Decide, environment, vars
<1>3. QED
  BY <1>1, <1>2 DEF InstalledAreTracked

(* Where a call about to be made comes from. *)
LEMMA Callers ==
    ASSUME TypeOK, Positions, HeldCalls, [Next]_vars, NEW v \in Workers, worker'[v].at = "call"
    PROVE  \/ worker'[v] = worker[v]
           \/ \E call \in Calls : /\ Verdict(call) = "ALLOW"
                                  /\ call.capability \in Seeds \cup installed
                                  /\ worker'[v].call = call /\ worker'[v].request = NoRequest
           \/ \E r \in Requests : /\ requests[r].status = "APPROVED" /\ Rechecked(requests[r].call)
                                  /\ worker'[v].call = requests[r].call
                                  /\ worker'[v].request = r
<1> DEFINE Goal ==
       \/ worker'[v] = worker[v]
       \/ \E call \in Calls : /\ Verdict(call) = "ALLOW"
                              /\ call.capability \in Seeds \cup installed
                              /\ worker'[v].call = call /\ worker'[v].request = NoRequest
       \/ \E r \in Requests : /\ requests[r].status = "APPROVED" /\ Rechecked(requests[r].call)
                              /\ worker'[v].call = requests[r].call
                              /\ worker'[v].request = r
<1>1. ASSUME NEW w \in Workers, NEW call \in Calls, Execute(w, call)
      PROVE  Goal
  <2>1. CASE UNCHANGED worker
    BY <2>1
  <2>2. CASE Verdict(call) = "ALLOW" /\ Proceed(w, call, NoRequest)
    <3>1. /\ worker'[w].call = call /\ worker'[w].request = NoRequest
          /\ \A u \in Workers : u # w => worker'[u] = worker[u]
      BY <2>2, AfterProceed, Zenon
    <3>2. QED
      BY <1>1, <2>2, <3>1 DEF Execute
  <2>3. QED
    BY <1>1, <2>1, <2>2 DEF Execute
<1>2. ASSUME NEW w \in Workers, NEW r \in Requests, ExecuteApproved(w, r)
      PROVE  Goal
  <2>1. CASE UNCHANGED worker
    BY <2>1
  <2>2. CASE Rechecked(requests[r].call) /\ Proceed(w, requests[r].call, r)
    <3>1. requests[r].status = "APPROVED" /\ requests[r].call \in Calls
      BY <1>2 DEF ExecuteApproved, HeldCalls
    <3>2. /\ worker'[w].call = requests[r].call /\ worker'[w].request = r
          /\ \A u \in Workers : u # w => worker'[u] = worker[u]
      BY <2>2, <3>1, AfterProceed, Zenon
    <3>3. QED
      BY <2>2, <3>1, <3>2
  <2>3. QED
    BY <1>2, <2>1, <2>2 DEF ExecuteApproved
<1>3. ASSUME NEW w \in Workers, NEW r \in Requests, NEW b \in BOOLEAN, Decide(w, r, b)
      PROVE  Goal
  BY <1>3, DecideMoves
<1>4. ASSUME NEW w \in Workers, RunTool(w)
      PROVE  Goal
  BY <1>4, RunToolMoves
<1>5. ASSUME NEW w \in Workers, NEW c \in Capabilities, Install(w, c)
      PROVE  Goal
  BY <1>5, InstallMoves
<1>6. ASSUME NEW w \in Workers, WorkerRaises(w) \/ SaveRecord(w)
      PROVE  Goal
  BY <1>6, AfterFinish DEF WorkerRaises, SaveRecord
<1>7. ASSUME NEW w \in Workers, ReadRecord(w)
      PROVE  Goal
  BY <1>7, AfterRead
<1>8. ASSUME NEW w \in Workers, CreateRecord(w)
      PROVE  Goal
  BY <1>8, AfterCreate
<1>9. CASE UNCHANGED worker
  BY <1>9
<1>10. QED
  BY <1>1, <1>2, <1>3, <1>4, <1>5, <1>6, <1>7, <1>8, <1>9
  DEF Next, Record, Propose, SetKillSwitch, vars

(* What a call about to be made may be, and what it takes to make it. *)
Permitted(call, r, asked, happened) ==
    /\ "prohibited" \notin Texts(call)
    /\ call.risk = "HIGH" => call.label = "approval"
    /\ call.risk # "LOW" \/ "approval" \in Texts(call) => r # NoRequest
    /\ call.capability \notin Seeds => r # NoRequest \/ happened[call.capability].successes > 0
    /\ r # NoRequest => asked[r].status = "APPROVED" /\ asked[r].call = call

(* Every call about to be made is allowed as it stands, or was approved. *)
LEMMA CallsStep ==
    ASSUME TypeOK, Positions, HeldCalls, CallsArePermitted, TrustIsEarned, InstalledAreTracked,
           [Next]_vars
    PROVE  CallsArePermitted'
<1>1. \A w \in Workers : worker[w].at = "call" =>
          Permitted(worker[w].call, worker[w].request, requests, balance)
  BY DEF CallsArePermitted, At, Permitted
<1>2. ASSUME NEW v \in Workers, worker'[v].at = "call"
      PROVE  Permitted(worker'[v].call, worker'[v].request, requests', balance')
  <2>1. CASE worker'[v] = worker[v]
    <3>1. /\ Permitted(worker[v].call, worker[v].request, requests, balance)
          /\ worker[v].request \in Requests \cup {NoRequest} /\ worker[v].call \in Calls
      BY <1>1, <1>2, <2>1 DEF TypeOK, Worker, Positions, At
    <3>2. worker[v].request # NoRequest =>
              /\ requests'[worker[v].request].status = "APPROVED"
              /\ requests'[worker[v].request].call = worker[v].call
      BY <3>1, RequestsStand DEF Permitted
    <3>3. balance[worker[v].call.capability].successes > 0 =>
              balance'[worker[v].call.capability].successes > 0
      BY <3>1, VerifiedStands DEF Call
    <3>4. QED
      BY <2>1, <3>1, <3>2, <3>3 DEF Permitted, Texts
  <2>2. CASE \E call \in Calls : /\ Verdict(call) = "ALLOW"
                                 /\ call.capability \in Seeds \cup installed
                                 /\ worker'[v].call = call /\ worker'[v].request = NoRequest
    <3>1. PICK call \in Calls : /\ Verdict(call) = "ALLOW"
                                /\ call.capability \in Seeds \cup installed
                                /\ worker'[v].call = call /\ worker'[v].request = NoRequest
      BY <2>2
    <3>2. call.capability \notin Seeds => balance'[call.capability].successes > 0
      <4> SUFFICES ASSUME call.capability \notin Seeds
                   PROVE  balance'[call.capability].successes > 0
        OBVIOUS
      <4>1. call.capability \in Capabilities /\ call.capability \in tracked
        BY <3>1 DEF Call, InstalledAreTracked
      <4>2. ~Supervised(call.capability)
        BY <3>1, AllowedCall
      <4>3. records[call.capability].autonomy >= SupervisionThreshold
        <5>1. records[call.capability] \in Numbers
          BY <4>1 DEF TypeOK
        <5>2. records[call.capability].autonomy \in Nat
          BY <5>1 DEF Numbers, MaxAutonomy
        <5>3. QED
          BY <4>1, <4>2, <5>2 DEF Supervised, SupervisionThreshold
      <4>4. QED
        BY <4>1, <4>3, TrustedWasVerified, VerifiedStands
    <3>3. QED
      BY <3>1, <3>2, AllowedCall DEF Permitted, Texts
  <2>3. CASE \E r \in Requests : /\ requests[r].status = "APPROVED" /\ Rechecked(requests[r].call)
                                 /\ worker'[v].call = requests[r].call
                                 /\ worker'[v].request = r
    <3>1. PICK r \in Requests : /\ requests[r].status = "APPROVED" /\ Rechecked(requests[r].call)
                                /\ worker'[v].call = requests[r].call
                                /\ worker'[v].request = r
      BY <2>3
    <3>2. requests[r].call \in Calls /\ "prohibited" \notin Texts(requests[r].call)
      BY <3>1 DEF HeldCalls
    <3>3. requests[r].call.risk = "HIGH" => requests[r].call.label = "approval"
      BY <3>1, <3>2, RecheckedCall
    <3>4. requests'[r].status = "APPROVED" /\ requests'[r].call = requests[r].call
      BY <3>1, RequestsStand
    <3>5. QED
      BY <3>1, <3>2, <3>3, <3>4 DEF Permitted, Texts
  <2>4. QED
    BY <1>2, <2>1, <2>2, <2>3, Callers
<1>3. QED
  BY <1>2 DEF CallsArePermitted, At, Permitted, Texts

-----------------------------------------------------------------------------
(* The owner's answers *)

(* A worker that is not to record an answer, and was not, moves nobody     *)
(* else to or from the recorders.                                          *)
LEMMA SameRecorders ==
    ASSUME NEW w \in Workers, \A v \in Workers : v # w => worker'[v] = worker[v],
           NEW c \in Capabilities, w \in Recorders(c)' <=> w \in Recorders(c)
    PROVE  Recorders(c)' = Recorders(c)
BY DEF Recorders

(* Only the owner's answer to a request makes it an answered one. *)
LEMMA AnsweredStands ==
    ASSUME TypeOK, [Next]_vars, NEW c \in Capabilities,
           \A w \in Workers, r \in Requests, b \in BOOLEAN : ~Decide(w, r, b)
    PROVE  Answered(c)' = Answered(c)
<1>1. ASSUME NEW w \in Workers, NEW call \in Calls, Execute(w, call)
      PROVE  Answered(c)' = Answered(c)
  BY <1>1 DEF Execute, Answered, TypeOK
<1>2. ASSUME NEW w \in Workers, NEW q \in Requests, ExecuteApproved(w, q)
      PROVE  Answered(c)' = Answered(c)
  BY <1>2 DEF ExecuteApproved, Answered, TypeOK, Request
<1>3. CASE UNCHANGED requests
  BY <1>3 DEF Answered
<1>4. QED
  BY <1>1, <1>2, <1>3
  DEF Next, Record, ReadRecord, CreateRecord, SaveRecord, RunTool, WorkerRaises, Install,
      Propose, SetKillSwitch, environment, vars

(* The owner's answer adds one to the answered requests, and one worker to *)
(* those that record an answer about that capability.                      *)
LEMMA DecideAnswers ==
    ASSUME TypeOK, HeldCalls, AnswersBalance, NEW w \in Workers, NEW r \in Requests,
           NEW b \in BOOLEAN, Decide(w, r, b)
    PROVE  AnswersBalance'
<1>1. /\ worker' \in [Workers -> Worker]
      /\ \A v \in Workers : v # w => worker'[v] = worker[v]
      /\ worker'[w].at \in {"idle", "read"}
      /\ IF requests[r].g07
         THEN /\ worker'[w].at = "read" /\ worker'[w].intervened
              /\ worker'[w].capability = requests[r].call.capability
         ELSE worker'[w].at = "idle"
  BY DecideMoves
<1>2. worker[w].at = "idle" /\ balance' = balance /\ faults' = faults /\ faults \in Nat
  BY DEF Decide, At, ledger, TypeOK
<1>3. /\ requests[r].status = "PENDING" /\ requests'[r].status \in {"APPROVED", "REJECTED"}
      /\ requests'[r].g07 = requests[r].g07 /\ requests'[r].call = requests[r].call
      /\ \A q \in Requests : q # r => requests'[q] = requests[q]
  BY DEF Decide, Undecided, TypeOK, Request
<1>4. ASSUME NEW c \in Capabilities, ~(requests[r].g07 /\ requests[r].call.capability = c)
      PROVE  Recorders(c)' = Recorders(c) /\ Answered(c)' = Answered(c)
  <2>1. Recorders(c)' = Recorders(c)
    BY <1>1, <1>2, <1>4 DEF Recorders
  <2>2. Answered(c)' = Answered(c)
    BY <1>3, <1>4 DEF Answered
  <2>3. QED
    BY <2>1, <2>2
<1>5. ASSUME NEW c \in Capabilities, requests[r].g07, requests[r].call.capability = c
      PROVE  /\ Recorders(c)' = Recorders(c) \cup {w} /\ w \notin Recorders(c)
             /\ Answered(c)' = Answered(c) \cup {r} /\ r \notin Answered(c)
  <2>1. Recorders(c)' = Recorders(c) \cup {w} /\ w \notin Recorders(c)
    BY <1>1, <1>2, <1>5 DEF Recorders
  <2>2. Answered(c)' = Answered(c) \cup {r} /\ r \notin Answered(c)
    BY <1>3, <1>5 DEF Answered
  <2>3. QED
    BY <2>1, <2>2
<1>6. ASSUME NEW c \in Capabilities
      PROVE  /\ IsFiniteSet(Recorders(c)') /\ IsFiniteSet(Answered(c)')
             /\ \/ /\ Cardinality(Recorders(c)') = Cardinality(Recorders(c))
                   /\ Cardinality(Answered(c)') = Cardinality(Answered(c))
                \/ /\ Cardinality(Recorders(c)') = Cardinality(Recorders(c)) + 1
                   /\ Cardinality(Answered(c)') = Cardinality(Answered(c)) + 1
  <2>1. IsFiniteSet(Recorders(c)) /\ IsFiniteSet(Answered(c))
    BY DEF AnswersBalance
  <2>2. CASE requests[r].g07 /\ requests[r].call.capability = c
    BY <1>5, <2>1, <2>2, FS_AddElement
  <2>3. CASE ~(requests[r].g07 /\ requests[r].call.capability = c)
    BY <1>4, <2>1, <2>3
  <2>4. QED
    BY <2>2, <2>3
<1>7. ASSUME NEW c \in Capabilities
      PROVE  /\ Cardinality(Recorders(c)) \in Nat /\ Cardinality(Answered(c)) \in Nat
             /\ balance[c].interventions \in Nat
  BY FS_CardinalityType DEF AnswersBalance, TypeOK, Numbers
<1>8. QED
  BY <1>2, <1>6, <1>7 DEF AnswersBalance

(* An outcome adds one intervention if it is an answer. *)
LEMMA OutcomeAnswers ==
    ASSUME NEW n \in Numbers, NEW verified \in BOOLEAN, NEW intervened \in BOOLEAN
    PROVE  Outcome(n, verified, intervened).interventions =
               IF intervened THEN n.interventions + 1 ELSE n.interventions
BY DEF Outcome, One, Numbers

(* A worker that saves an answer is one recorder less and one intervention *)
(* more.                                                                   *)
LEMMA SaveAnswers ==
    ASSUME TypeOK, Positions, AnswersBalance, NEW w \in Workers, SaveRecord(w),
           \A c \in Capabilities : Answered(c)' = Answered(c)
    PROVE  AnswersBalance'
<1> DEFINE h == worker[w]
<1>1. worker'[w].at = "idle" /\ \A v \in Workers : v # w => worker'[v] = worker[v]
  BY AfterFinish DEF SaveRecord
<1>2. /\ h.at = "save" /\ h.capability \in Capabilities /\ h.intervened \in BOOLEAN
      /\ faults' = faults /\ faults \in Nat
  BY AfterSave DEF SaveRecord, At, TypeOK
<1>3. \A c \in Capabilities :
          /\ balance[c] \in Numbers
          /\ balance'[c] = IF c = h.capability
                           THEN Outcome(balance[c], h.verified, h.intervened) ELSE balance[c]
  BY AfterSave DEF TypeOK
<1>4. \A c \in Capabilities :
          balance'[c].interventions = IF h.intervened /\ h.capability = c
                                      THEN balance[c].interventions + 1
                                      ELSE balance[c].interventions
  <2>1. h.verified \in BOOLEAN
    BY AfterSave
  <2>2. QED
    BY <1>2, <1>3, <2>1, OutcomeAnswers
<1>5. ASSUME NEW c \in Capabilities, h.intervened, h.capability = c
      PROVE  /\ Recorders(c)' = Recorders(c) \ {w} /\ w \in Recorders(c)
             /\ balance'[c].interventions = balance[c].interventions + 1
  <2>1. Recorders(c)' = Recorders(c) \ {w} /\ w \in Recorders(c)
    BY <1>1, <1>2, <1>5 DEF Recorders
  <2>2. balance'[c].interventions = balance[c].interventions + 1
    BY <1>5, <1>4
  <2>3. QED
    BY <2>1, <2>2
<1>6. ASSUME NEW c \in Capabilities, ~(h.intervened /\ h.capability = c)
      PROVE  /\ Recorders(c)' = Recorders(c)
             /\ balance'[c].interventions = balance[c].interventions
  <2>1. Recorders(c)' = Recorders(c)
    BY <1>1, <1>2, <1>6 DEF Recorders
  <2>2. balance'[c].interventions = balance[c].interventions
    BY <1>6, <1>4
  <2>3. QED
    BY <2>1, <2>2
<1>7. ASSUME NEW c \in Capabilities
      PROVE  /\ IsFiniteSet(Recorders(c)') /\ IsFiniteSet(Answered(c)')
             /\ balance'[c].interventions + Cardinality(Recorders(c)') =
                    balance[c].interventions + Cardinality(Recorders(c))
  <2>1. /\ IsFiniteSet(Recorders(c)) /\ IsFiniteSet(Answered(c))
        /\ Cardinality(Recorders(c)) \in Nat /\ balance[c].interventions \in Nat
    BY <1>3, FS_CardinalityType DEF AnswersBalance, Numbers
  <2>2. CASE h.intervened /\ h.capability = c
    <3>1. /\ IsFiniteSet(Recorders(c) \ {w})
          /\ Cardinality(Recorders(c) \ {w}) = Cardinality(Recorders(c)) - 1
      BY <1>5, <2>1, <2>2, FS_RemoveElement
    <3>2. /\ Recorders(c)' = Recorders(c) \ {w} /\ Answered(c)' = Answered(c)
          /\ balance'[c].interventions = balance[c].interventions + 1
      BY <1>5, <2>2
    <3>3. QED
      BY <2>1, <3>1, <3>2
  <2>3. CASE ~(h.intervened /\ h.capability = c)
    BY <1>6, <2>1, <2>3
  <2>4. QED
    BY <2>2, <2>3
<1>8. QED
  BY <1>2, <1>7 DEF AnswersBalance

(* A worker that raises may lose an answer, and never adds one. *)
LEMMA RaiseAnswers ==
    ASSUME TypeOK, AnswersBalance, NEW w \in Workers, WorkerRaises(w),
           \A c \in Capabilities : Answered(c)' = Answered(c)
    PROVE  AnswersBalance'
<1>1. worker'[w].at = "idle" /\ \A v \in Workers : v # w => worker'[v] = worker[v]
  BY AfterFinish DEF WorkerRaises
<1>2. balance' = balance /\ faults' # 0
  BY DEF WorkerRaises, ledger, TypeOK
<1>3. ASSUME NEW c \in Capabilities
      PROVE  /\ IsFiniteSet(Recorders(c)')
             /\ Cardinality(Recorders(c)') <= Cardinality(Recorders(c))
  <2>1. Recorders(c)' \subseteq Recorders(c)
    BY <1>1 DEF Recorders
  <2>2. QED
    BY <2>1, FS_Subset DEF AnswersBalance
<1>4. ASSUME NEW c \in Capabilities
      PROVE  /\ Cardinality(Recorders(c)) \in Nat /\ Cardinality(Answered(c)) \in Nat
             /\ Cardinality(Recorders(c)') \in Nat /\ balance[c].interventions \in Nat
  BY <1>3, FS_CardinalityType DEF AnswersBalance, TypeOK, Numbers
<1>5. QED
  BY <1>2, <1>3, <1>4 DEF AnswersBalance

(* Every answer is with a worker or counted, unless a worker raised. *)
LEMMA AnswersStep ==
    ASSUME TypeOK, Positions, HeldCalls, AnswersBalance, [Next]_vars
    PROVE  AnswersBalance'
<1> DEFINE Same(c) == Recorders(c)' = Recorders(c)
<1>1. CASE \E w \in Workers, r \in Requests, b \in BOOLEAN : Decide(w, r, b)
  BY <1>1, DecideAnswers
<1>2. CASE \A w \in Workers, r \in Requests, b \in BOOLEAN : ~Decide(w, r, b)
  <2>1. \A c \in Capabilities : Answered(c)' = Answered(c)
    BY <1>2, AnsweredStands
  <2>2. CASE \E w \in Workers : SaveRecord(w)
    BY <2>1, <2>2, SaveAnswers
  <2>3. CASE \E w \in Workers : WorkerRaises(w)
    BY <2>1, <2>3, RaiseAnswers
  <2>4. ASSUME \A c \in Capabilities : Same(c), balance' = balance, faults' = faults
        PROVE  AnswersBalance'
    BY <2>1, <2>4 DEF AnswersBalance
  <2>5. ASSUME NEW w \in Workers, ReadRecord(w) \/ CreateRecord(w), NEW c \in Capabilities
        PROVE  Same(c)
    <3>1. /\ worker[w].at \in {"read", "create"} /\ worker'[w].at \in {"create", "save"}
          /\ worker'[w].capability = worker[w].capability
          /\ worker'[w].intervened = worker[w].intervened
          /\ \A v \in Workers : v # w => worker'[v] = worker[v]
      BY <2>5, AfterRead, AfterCreate DEF ReadRecord, CreateRecord, At
    <3>2. QED
      BY <3>1 DEF Recorders
  <2>6. ASSUME NEW w \in Workers, NEW c \in Capabilities,
               \/ RunTool(w) \/ \E d \in Capabilities : Install(w, d)
        PROVE  Same(c)
    <3>1. /\ worker[w].at \in {"idle", "call"}
          /\ worker'[w].at \in {"idle", "read"}
          /\ worker'[w].at = "read" => ~worker'[w].intervened
          /\ \A v \in Workers : v # w => worker'[v] = worker[v]
      BY <2>6, RunToolMoves, InstallMoves DEF RunTool, Install, At
    <3>2. QED
      BY <3>1 DEF Recorders
  <2>7. ASSUME NEW w \in Workers, NEW c \in Capabilities,
               \/ \E call \in Calls : Execute(w, call)
               \/ \E r \in Requests : ExecuteApproved(w, r)
        PROVE  Same(c)
    <3>1. CASE UNCHANGED worker
      BY <3>1 DEF Recorders
    <3>2. ASSUME NEW call \in Calls, NEW r \in Requests \cup {NoRequest}, Proceed(w, call, r)
          PROVE  worker'[w].at = "call" /\ \A v \in Workers : v # w => worker'[v] = worker[v]
      BY <3>2, AfterProceed, Zenon
    <3>3. worker[w].at = "idle"
      BY <2>7 DEF Execute, ExecuteApproved, At
    <3>4. \A r \in Requests : ExecuteApproved(w, r) => requests[r].call \in Calls
      BY DEF ExecuteApproved, HeldCalls
    <3>5. \/ UNCHANGED worker
          \/ \E call \in Calls, r \in Requests \cup {NoRequest} : Proceed(w, call, r)
      BY <2>7, <3>4 DEF Execute, ExecuteApproved
    <3>6. QED
      BY <3>1, <3>2, <3>3, <3>5 DEF Recorders
  <2>8. CASE UNCHANGED <<worker, balance, faults>>
    BY <2>4, <2>8 DEF Recorders
  <2>9. QED
    BY <1>2, <2>2, <2>3, <2>4, <2>5, <2>6, <2>7, <2>8
    DEF Next, Record, ReadRecord, CreateRecord, Execute, ExecuteApproved, RunTool, Install,
        Propose, SetKillSwitch, ledger, vars
<1>3. QED
  BY <1>1, <1>2

(* The records follow the balance. *)
LEMMA RecordedAnswers == LedgerInv => AnswersAreCounted
<1> SUFFICES ASSUME LedgerInv, NEW c \in Capabilities
             PROVE  LET counted == records[c].interventions + Cardinality(Recorders(c)) IN
                    /\ counted <= Cardinality(Answered(c))
                    /\ c \notin overlapped /\ faults = 0 => counted = Cardinality(Answered(c))
  BY DEF AnswersAreCounted
<1>1. /\ records[c].interventions \in Nat /\ balance[c].interventions \in Nat
      /\ records[c].interventions <= balance[c].interventions
      /\ c \notin overlapped => records[c] = balance[c]
  BY DEF LedgerInv, TypeOK, Numbers, TrustIsEarned, Earned, SerialOutcomesCount
<1>2. Cardinality(Recorders(c)) \in Nat /\ Cardinality(Answered(c)) \in Nat
  BY FS_CardinalityType DEF LedgerInv, AnswersBalance
<1>3. QED
  BY <1>1, <1>2 DEF LedgerInv, AnswersBalance

-----------------------------------------------------------------------------
(* The theorems *)

(* Before anything happened there is nothing in the ledger to be wrong. *)
LEMMA InitInv == Init => LedgerInv
<1> SUFFICES ASSUME Init
             PROVE  LedgerInv
  OBVIOUS
<1>1. TypeOK
  BY FreshType, IdleType DEF Init, TypeOK, Request, NoneYet
<1>2. Positions /\ HeldCalls /\ CallsArePermitted
  BY DEF Init, Positions, HeldCalls, CallsArePermitted, At, Idle, NoneYet
<1>3. Earned(Fresh, Fresh)
  BY DEF Fresh, Earned, StartingAutonomy, PromotionDelta, DemotionDelta
<1>4. TrustIsEarned /\ SnapshotsAreEarned
  BY <1>3 DEF Init, TrustIsEarned, SnapshotsAreEarned, Idle
<1>5. Untracked /\ SerialSnapshots /\ SerialOutcomesCount
  BY DEF Init, Untracked, SerialSnapshots, SerialOutcomesCount, Recording, At, Idle
<1>6. InstalledAreTracked
  BY DEF Init, InstalledAreTracked
<1>7. ASSUME NEW c \in Capabilities
      PROVE  Recorders(c) = {} /\ Answered(c) = {} /\ balance[c].interventions = 0
  BY DEF Init, Recorders, Answered, Idle, NoneYet, Fresh
<1>8. AnswersBalance
  <2>1. IsFiniteSet({}) /\ Cardinality({}) = 0
    BY FS_EmptySet
  <2>2. ASSUME NEW c \in Capabilities
        PROVE  /\ IsFiniteSet(Recorders(c)) /\ IsFiniteSet(Answered(c))
               /\ balance[c].interventions + Cardinality(Recorders(c)) = Cardinality(Answered(c))
               /\ Cardinality(Answered(c)) = 0
    <3>1. balance[c].interventions = 0
      BY <1>7
    <3>2. IsFiniteSet(Recorders(c)) /\ Cardinality(Recorders(c)) = 0
      BY <1>7, <2>1, Zenon
    <3>3. IsFiniteSet(Answered(c)) /\ Cardinality(Answered(c)) = 0
      BY <1>7, <2>1, Zenon
    <3>4. QED
      BY <3>1, <3>2, <3>3
  <2>3. QED
    BY <2>2 DEF AnswersBalance
<1>9. QED
  BY <1>1, <1>2, <1>4, <1>5, <1>6, <1>8 DEF LedgerInv

(* Reading, creating, saving, calling, answering, installing or failing,   *)
(* in any interleaving of any number of workers, keeps the ledger sound.   *)
LEMMA StepInv == LedgerInv /\ [Next]_vars => LedgerInv'
BY TypeStep, PositionsStep, HeldStep, CallsStep, TrustStep, SnapshotsStep, UntrackedStep,
   SerialSnapshotsStep, SerialOutcomesStep, InstalledStep, AnswersStep DEF LedgerInv

(* What a worker has seen is earned, and is the record itself as long as   *)
(* no other worker is recording: the inductive invariant of record_outcome *)
(* and of the calls that ExecutionGate makes.                              *)
THEOREM Invariance == Spec => []LedgerInv
BY InitInv, StepInv, PTL DEF Spec

(* Every handler leaves well-formed records, requests and workers; in      *)
(* particular autonomy stays between 0 and the ceiling of 95.              *)
THEOREM TypeCorrect == Spec => []TypeOK
<1>1. LedgerInv => TypeOK
  BY DEF LedgerInv
<1>2. QED
  BY <1>1, Invariance, PTL

(* record_outcome, run by any number of workers at once and failing        *)
(* anywhere, never gives a capability autonomy that its own verified       *)
(* outcomes did not earn.                                                  *)
THEOREM EarnedTrust == Spec => []TrustIsEarned
<1>1. LedgerInv => TrustIsEarned
  BY DEF LedgerInv
<1>2. QED
  BY <1>1, Invariance, PTL

(* The Guardian stops supervising a capability, however its outcomes race, *)
(* only after one of them was verified.                                    *)
THEOREM SupervisedUntilVerified ==
    Spec => [](\A c \in Capabilities :
                  records[c].autonomy >= SupervisionThreshold => balance[c].successes > 0)
<1>1. LedgerInv =>
          \A c \in Capabilities :
              records[c].autonomy >= SupervisionThreshold => balance[c].successes > 0
  BY TrustedWasVerified DEF LedgerInv
<1>2. QED
  BY <1>1, Invariance, PTL

(* record_outcome loses no outcome of a capability whose outcomes were     *)
(* never recorded by two workers at once.                                  *)
THEOREM SerialOutcomes == Spec => []SerialOutcomesCount
<1>1. LedgerInv => SerialOutcomesCount
  BY DEF LedgerInv
<1>2. QED
  BY <1>1, Invariance, PTL

(* ExecutionGate makes no call that a prohibition matches, none of high    *)
(* risk that its label does not hold, and none that needs the owner        *)
(* without an approved request for that very call; and a capability that   *)
(* SYNAPSE generated is called without the owner only once an outcome of   *)
(* it was verified.                                                        *)
THEOREM PermittedCalls == Spec => []CallsArePermitted
<1>1. LedgerInv => CallsArePermitted
  BY DEF LedgerInv
<1>2. QED
  BY <1>1, Invariance, PTL

(* The owner's answers to G-07 requests reach the record, each at most     *)
(* once and, where nothing raised or overlapped, each exactly once.        *)
THEOREM CountedAnswers == Spec => []AnswersAreCounted
BY RecordedAnswers, Invariance, PTL
=============================================================================
