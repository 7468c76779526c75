----------------------- MODULE MissionLifecycleProofs -----------------------
(***************************************************************************)
(* MissionInv is an inductive invariant of MissionLifecycle, and with it   *)
(* each of the safety properties, for any number of missions, steps,       *)
(* requests, workers and instances and any number of failures.             *)
(***************************************************************************)
EXTENDS MissionLifecycle, TLAPS

USE ConstantsAssumption

-----------------------------------------------------------------------------
(* Lemmas on the operators *)

(* A step of a plan is a pair of its mission and a number in its range. *)
LEMMA StepIsPair ==
    ASSUME NEW m \in Missions, NEW n
    PROVE  /\ <<m, n>> \in Steps <=> n \in StepsOf(m)
           /\ <<m, n>> # NoStep
<1>1. <<m, n>> \in Steps => n \in StepsOf(m)
  BY DEF Steps
<1>2. n \in StepsOf(m) => <<m, n>> \in {m} \X StepsOf(m)
  OBVIOUS
<1>3. n \in StepsOf(m) => <<m, n>> \in Steps
  BY <1>2 DEF Steps
<1>4. QED
  BY <1>1, <1>3 DEF NoStep

(* Each way a handler moves yields a handler. *)
LEMMA TakeKeepsType ==
    ASSUME TypeOK, NEW w \in Workers, NEW p \in Points, NEW m \in Missions,
           NEW n \in Nat, NEW r \in MaybeRequest, NEW k \in SUBSET Nat,
           Take(w, p, m, n, r, k)
    PROVE  worker' \in [Workers -> Worker]
<1>1. Handler(p, m, n, r, k, "ABSENT") \in Worker
  BY DEF Handler, Worker, Status, Stops
<1>2. QED
  BY <1>1 DEF TypeOK, Take

(* A handler that stops with an outcome to save. *)
LEMMA StopKeepsType ==
    ASSUME TypeOK, NEW w \in Workers, NEW outcome \in Status,
           NEW r \in MaybeRequest, Stop(w, outcome, r)
    PROVE  worker' \in [Workers -> Worker]
<1>1. Handler("persist", MissionOf(w), worker[w].next, r, worker[w].named, outcome)
         \in Worker
  BY DEF Handler, Worker, MissionOf, TypeOK, Points, Run
<1>2. QED
  BY <1>1 DEF TypeOK, Stop

(* A handler that moves on, or is done. *)
LEMMA MoveKeepsType ==
    ASSUME TypeOK, NEW w \in Workers, NEW p \in Points, Goto(w, p) \/ Finish(w)
    PROVE  worker' \in [Workers -> Worker]
<1>1. Idle \in Worker
  BY DEF Idle, Handler, Worker, Points, MaybeRequest, Status, Stops
<1>2. CASE Finish(w)
  BY <1>1, <1>2 DEF TypeOK, Finish
<1>3. CASE Goto(w, p)
  <2> DEFINE h == worker[w]
  <2>a. h \in Worker
    BY DEF TypeOK
  <2> HIDE DEF h
  <2>1. [h EXCEPT !.at = p] \in Worker
    BY <2>a DEF Worker
  <2>2. QED
    BY <1>3, <2>1 DEF TypeOK, Goto, h
<1>4. QED
  BY <1>2, <1>3

(* The counters saturate at two. *)
LEMMA CappedIsSmall == ASSUME NEW n \in 0..2 PROVE Capped(n + 1) \in 1..2
BY DEF Capped

(* What a tool call does to the counters, wherever it is made. *)
LEMMA CallCounts ==
    ASSUME TypeOK, NEW w \in Workers, StepOf(w) \in Steps,
           CallTool(w)
    PROVE  /\ runs' \in [Steps -> 0..2]
           /\ \A x \in Steps : runs[x] > 0 => runs'[x] > 0
           /\ runs'[StepOf(w)] > 0
           /\ \A x \in Steps : x # StepOf(w) => runs'[x] = runs[x]
           /\ overlapped' \in SUBSET Missions
           /\ late' \in [Workers -> 0..2]
<1>1. Capped(runs[StepOf(w)] + 1) \in 1..2
  BY CappedIsSmall DEF TypeOK
<1>2. Capped(late[w] + 1) \in 1..2
  BY CappedIsSmall DEF TypeOK
<1>3. late' \in [Workers -> 0..2]
  BY <1>2 DEF CallTool, TypeOK
<1>4. overlapped' \in SUBSET Missions
  BY DEF CallTool, TypeOK
<1>5. QED
  BY <1>1, <1>3, <1>4 DEF CallTool, TypeOK

(* The fields of a handler, and the mission it is about. *)
LEMMA HandlerFields ==
    ASSUME TypeOK, PositionsMatch, NEW w \in Workers, ~At(w, "idle")
    PROVE  /\ worker[w].mission \in Missions
           /\ worker[w].next \in Nat
           /\ worker[w].next + 1 \in Nat
           /\ worker[w].request \in MaybeRequest
           /\ worker[w].named \in SUBSET Nat
           /\ worker[w].outcome \in Status
BY DEF TypeOK, PositionsMatch, At, MissionOf, Worker

(* The members of the sets of points and statuses, for the provers. *)
LEMMA Vocabulary ==
    /\ {"step", "persist", "approval", "approvedGate", "approvedCall", "gate", "call"}
          \subseteq Points
    /\ Claiming \subseteq Points
    /\ {"ABSENT", "UNSAVED", "RESUMING", "COMPLETED", "FAILED", "REFUSED", "BLOCKED",
        "AWAITING_APPROVAL", "APPROVAL_REQUIRED"} \subseteq Status
    /\ NoRequest \in MaybeRequest
    /\ Requests \subseteq MaybeRequest
BY DEF Points, Run, Claiming, Status, Stops, Final, MaybeRequest

-----------------------------------------------------------------------------
(* Type correctness *)

(* A handler advancing, or stopping with an outcome, is still a handler. *)
LEMMA AdvanceKeepsType ==
    ASSUME TypeOK, PositionsMatch, NEW w \in Workers, ~At(w, "idle"), Advance(w)
    PROVE  worker' \in [Workers -> Worker]
<1>1. Take(w, "step", worker[w].mission, worker[w].next + 1, NoRequest, worker[w].named)
  BY DEF Advance, MissionOf
<1>2. QED
  BY <1>1, HandlerFields, Vocabulary, TakeKeepsType

(* Changing the status of a mission, or saving it, keeps its type. *)
LEMMA StatusKeepsType ==
    ASSUME TypeOK, NEW m \in Missions, NEW s \in Status,
           missions' = [missions EXCEPT ![m].status = s]
    PROVE  missions' \in [Missions -> MissionRecord]
<1> DEFINE d == missions[m]
<1>2. d \in MissionRecord
  BY DEF TypeOK
<1> HIDE DEF d
<1>3. [d EXCEPT !.status = s] \in MissionRecord
  BY <1>2 DEF MissionRecord
<1>4. QED
  BY <1>3 DEF TypeOK, d

(* A claim keeps every type, won or lost. *)
LEMMA ClaimKeepsType ==
    ASSUME TypeOK, PositionsMatch, NEW w \in Workers,
           ResumeBlockedClaim(w) \/ ResumePlannedClaim(w) \/ ResumeDirectClaim(w)
    PROVE  TypeOK'
<1>1. ~At(w, "idle")
  BY DEF ResumeBlockedClaim, ResumePlannedClaim, ResumeDirectClaim, At
<1>2. MissionOf(w) \in Missions
  BY <1>1, HandlerFields DEF MissionOf
<1>3. missions' \in [Missions -> MissionRecord]
  <2>1. missions' = missions \/ missions' = [missions EXCEPT ![MissionOf(w)].status = "RESUMING"]
    BY DEF ResumeBlockedClaim, ResumePlannedClaim, ResumeDirectClaim, NotClaimed, Claim
  <2>2. QED
    BY <1>2, <2>1, Vocabulary, StatusKeepsType DEF TypeOK
<1>4. worker' \in [Workers -> Worker]
  <2>1. CASE Finish(w)
    BY <2>1, Vocabulary, MoveKeepsType
  <2>2. CASE Goto(w, "approval")
    BY <2>2, Vocabulary, MoveKeepsType
  <2>3. CASE ResumeBlockedClaim(w) /\ ~Finish(w)
    <3>1. PICK named \in {worker[w].named, worker[w].named \cup {worker[w].next}} :
             Take(w, "step", worker[w].mission, worker[w].next, NoRequest, named)
      BY <2>3 DEF ResumeBlockedClaim, NotClaimed, ResumeFrom
    <3>2. named \in SUBSET Nat
      BY <1>1, HandlerFields
    <3>3. QED
      BY <1>1, <3>1, <3>2, HandlerFields, Vocabulary, TakeKeepsType
  <2>4. QED
    BY <2>1, <2>2, <2>3 DEF ResumePlannedClaim, ResumeDirectClaim, NotClaimed
<1>5. QED
  BY <1>3, <1>4 DEF ResumeBlockedClaim, ResumePlannedClaim, ResumeDirectClaim,
                    effects, bounds, TypeOK

(* Asking for approval keeps the types of the requests. *)
LEMMA GateKeepsType ==
    ASSUME TypeOK, PositionsMatch, NEW w \in Workers, Gate(w)
    PROVE  TypeOK'
<1>1. ~At(w, "idle") /\ worker[w].at \in Stepping
  BY DEF Gate, At, Stepping
<1>2. StepOf(w) \in Steps
  BY <1>1 DEF PositionsMatch
<1>3. worker' \in [Workers -> Worker]
  <2>1. CASE Goto(w, "call")
    BY <2>1, Vocabulary, MoveKeepsType
  <2>2. CASE Stop(w, "BLOCKED", NoRequest) \/ Stop(w, "REFUSED", NoRequest)
    BY <2>2, Vocabulary, StopKeepsType
  <2>3. CASE \E r \in Requests : Stop(w, "AWAITING_APPROVAL", r)
    BY <2>3, Vocabulary, StopKeepsType
  <2>4. QED
    BY <2>1, <2>2, <2>3 DEF Gate
<1>4. /\ approvals' \in [Requests -> {"ABSENT", "PENDING", "APPROVED", "REJECTED"}]
      /\ askedFor' \in [Requests -> Steps \cup {NoStep}]
  BY <1>2 DEF Gate, TypeOK
<1>5. QED
  BY <1>3, <1>4 DEF Gate, TypeOK, effects, bounds

(* Calling a tool keeps every type. *)
LEMMA CallKeepsType ==
    ASSUME TypeOK, PositionsMatch, NEW w \in Workers, Call(w) \/ ApprovedCall(w)
    PROVE  TypeOK'
<1>1. ~At(w, "idle") /\ worker[w].at \in Stepping
  BY DEF Call, ApprovedCall, At, Stepping
<1>2. StepOf(w) \in Steps
  BY <1>1 DEF PositionsMatch
<1>3. CallTool(w)
  BY DEF Call, ApprovedCall
<1>4. worker' \in [Workers -> Worker]
  <2>1. CASE Advance(w)
    BY <1>1, <2>1, AdvanceKeepsType
  <2>2. CASE Stop(w, "FAILED", NoRequest) \/ Stop(w, "FAILED", worker[w].request)
    BY <1>1, <2>2, HandlerFields, Vocabulary, StopKeepsType
  <2>3. QED
    BY <2>1, <2>2 DEF Call, ApprovedCall
<1>5. QED
  BY <1>2, <1>3, <1>4, CallCounts DEF Call, ApprovedCall, TypeOK, store, bounds

(* Every step of the system keeps every variable in its type. *)
LEMMA TypeStep ==
    ASSUME TypeOK, PositionsMatch, [Next]_vars
    PROVE  TypeOK'
<1>1. ASSUME NEW w \in Workers, NEW m \in Missions, Start(w, m) PROVE TypeOK'
  <2>1. Named[m] \in SUBSET Nat
    OBVIOUS
  <2>2. worker' \in [Workers -> Worker]
    BY <1>1, <2>1, Vocabulary, TakeKeepsType DEF Start
  <2>3. missions' \in [Missions -> MissionRecord]
    BY <1>1, Vocabulary, StatusKeepsType DEF Start
  <2>4. QED
    BY <1>1, <2>2, <2>3 DEF Start, TypeOK, effects, bounds
<1>2. ASSUME NEW w \in Workers, NEW m \in Missions, PlanFails(w, m) PROVE TypeOK'
  <2>1. missions' \in [Missions -> MissionRecord]
    BY <1>2, Vocabulary, StatusKeepsType DEF PlanFails
  <2>2. QED
    BY <1>2, <2>1 DEF PlanFails, TypeOK, effects, bounds
<1>3. ASSUME NEW w \in Workers, NEW m \in Missions, NEW route \in Claiming, Read(w, m, route)
      PROVE  TypeOK'
  <2>1. /\ missions[m].next \in Nat
        /\ missions[m].request \in MaybeRequest
        /\ missions[m].named \in SUBSET Nat
    BY DEF TypeOK, MissionRecord
  <2>2. worker' \in [Workers -> Worker]
    BY <1>3, <2>1, Vocabulary, TakeKeepsType DEF Read
  <2>3. QED
    BY <1>3, <2>2 DEF Read, TypeOK, store, effects, bounds
<1>4. ASSUME NEW w \in Workers, NextStep(w) PROVE TypeOK'
  <2>1. CASE Goto(w, "gate")
    BY <1>4, <2>1, Vocabulary, MoveKeepsType DEF NextStep, TypeOK, store, effects, bounds
  <2>2. CASE Stop(w, "COMPLETED", NoRequest) \/ Stop(w, "BLOCKED", NoRequest)
    <3>1. worker' \in [Workers -> Worker]
      BY <2>2, Vocabulary, StopKeepsType
    <3>2. QED
      BY <1>4, <3>1 DEF NextStep, TypeOK, store, effects, bounds
  <2>3. QED
    BY <1>4, <2>1, <2>2 DEF NextStep, Gap
<1>5. ASSUME NEW w \in Workers, ApprovalCheck(w) \/ ApprovedGate(w) PROVE TypeOK'
  <2>1. ~At(w, "idle")
    BY <1>5 DEF ApprovalCheck, ApprovedGate, At
  <2>2. worker' \in [Workers -> Worker]
    <3>1. CASE \E s \in {"FAILED", "AWAITING_APPROVAL", "APPROVAL_REQUIRED",
                         "BLOCKED", "REFUSED"} : Stop(w, s, worker[w].request)
      BY <2>1, <3>1, HandlerFields, Vocabulary, StopKeepsType
    <3>2. CASE Goto(w, "approvedGate") \/ Goto(w, "approvedCall") \/ Finish(w)
      BY <3>2, Vocabulary, MoveKeepsType
    <3>3. QED
      BY <1>5, <3>1, <3>2 DEF ApprovalCheck, ApprovedGate
  <2>3. QED
    BY <1>5, <2>2 DEF ApprovalCheck, ApprovedGate, TypeOK, store, effects, bounds
<1>6. ASSUME NEW w \in Workers, Persist(w) PROVE TypeOK'
  <2>1. ~At(w, "idle")
    BY <1>6 DEF Persist, At
  <2>2. Mission(worker[w].outcome, worker[w].next, worker[w].request, worker[w].named)
           \in MissionRecord
    BY <2>1, HandlerFields DEF Mission, MissionRecord
  <2>3. missions' \in [Missions -> MissionRecord]
    BY <1>6, <2>2 DEF Persist, TypeOK
  <2>4. worker' \in [Workers -> Worker]
    BY <1>6, Vocabulary, MoveKeepsType DEF Persist
  <2>5. QED
    BY <1>6, <2>3, <2>4 DEF Persist, TypeOK, effects, bounds
<1>7. ASSUME NEW w \in Workers, HandlerRaises(w) PROVE TypeOK'
  <2>1. worker' \in [Workers -> Worker]
    BY <1>7, Vocabulary, MoveKeepsType DEF HandlerRaises
  <2>2. CASE UNCHANGED effects
    BY <1>7, <2>1, <2>2 DEF HandlerRaises, TypeOK, store, effects
  <2>3. CASE worker[w].at \in {"call", "approvedCall"} /\ CallTool(w)
    <3>1. StepOf(w) \in Steps
      BY <2>3 DEF PositionsMatch, Stepping
    <3>2. QED
      BY <1>7, <2>1, <2>3, <3>1, CallCounts DEF HandlerRaises, TypeOK, store
  <2>4. QED
    BY <1>7, <2>2, <2>3 DEF HandlerRaises
<1>8. ASSUME NEW r \in Requests, Decide(r) PROVE TypeOK'
  BY <1>8 DEF Decide, TypeOK, effects, bounds
<1>9. ASSUME NEW i \in Instances, ChangeRegistry(i) PROVE TypeOK'
  <2>1. tools' \in [Instances -> SUBSET Tools]
    BY <1>9 DEF ChangeRegistry, TypeOK
  <2>2. QED
    BY <1>9, <2>1 DEF ChangeRegistry, TypeOK, store, effects
<1>10. ASSUME NEW i \in Instances, Restart(i) PROVE TypeOK'
  <2>1. Idle \in Worker
    BY DEF Idle, Handler, Worker, Points, MaybeRequest, Status, Stops
  <2>2. worker' \in [Workers -> Worker]
    BY <1>10, <2>1 DEF Restart, TypeOK
  <2>3. tools' \in [Instances -> SUBSET Tools]
    BY <1>10 DEF Restart, TypeOK
  <2>4. QED
    BY <1>10, <2>2, <2>3 DEF Restart, TypeOK, store, effects
<1>11. CASE SetKillSwitch
  BY <1>11 DEF SetKillSwitch, TypeOK, store
<1>12. CASE UNCHANGED vars
  BY <1>12 DEF vars, TypeOK
<1>13. QED
  BY <1>1, <1>2, <1>3, <1>4, <1>5, <1>6, <1>7, <1>8, <1>9, <1>10, <1>11, <1>12,
     ClaimKeepsType, GateKeepsType, CallKeepsType DEF Next, Arrive, Proceed

-----------------------------------------------------------------------------
(* Handlers *)

Moves(w) == Arrive(w) \/ Proceed(w) \/ HandlerRaises(w)

(* A handler's step leaves the other handlers where they are. *)
LEMMA OthersStay ==
    ASSUME TypeOK, NEW w \in Workers, Moves(w), NEW v \in Workers, v # w
    PROVE  worker'[v] = worker[v]
<1>1. (\E x : worker' = [worker EXCEPT ![w] = x]) \/ UNCHANGED worker
  BY DEF Moves, Arrive, Proceed, HandlerRaises, Start, PlanFails, Read, ResumeBlockedClaim,
         ResumePlannedClaim, ResumeDirectClaim, NotClaimed, NextStep, Gate, Call, ApprovalCheck,
         ApprovedGate, ApprovedCall, Persist, Gap, Advance, Take, Stop, Goto, Finish
<1>2. QED
  BY <1>1 DEF TypeOK

(* A handler in progress stays on its mission until it is done, and on its *)
(* step and request until it advances or stops.                            *)
LEMMA SameMission ==
    ASSUME TypeOK, NEW w \in Workers, Proceed(w) \/ HandlerRaises(w)
    PROVE  /\ ~At(w, "idle")
           /\ worker'[w].at # "idle" => worker'[w].mission = worker[w].mission
<1>1. ~At(w, "idle")
  BY DEF Proceed, HandlerRaises, ResumeBlockedClaim, ResumePlannedClaim, ResumeDirectClaim,
         NextStep, Gate, Call, ApprovalCheck, ApprovedGate, ApprovedCall, Persist, At
<1>2. Finish(w) => worker'[w].at = "idle"
  BY DEF Finish, Idle, Handler, TypeOK
<1>3. ASSUME NEW p, Goto(w, p) PROVE worker'[w].mission = worker[w].mission
  BY <1>3 DEF Goto, TypeOK, Worker
<1>4. ASSUME NEW o, NEW r, Stop(w, o, r) PROVE worker'[w].mission = worker[w].mission
  BY <1>4 DEF Stop, TypeOK, Handler, MissionOf
<1>5. Advance(w) => worker'[w].mission = worker[w].mission
  BY DEF Advance, Take, TypeOK, Handler, MissionOf
<1>6. ResumeBlockedClaim(w) => Finish(w) \/ worker'[w].mission = worker[w].mission
  BY DEF ResumeBlockedClaim, NotClaimed, Take, TypeOK, Handler
<1>7. QED
  BY <1>1, <1>2, <1>3, <1>4, <1>5, <1>6
     DEF Proceed, HandlerRaises, ResumePlannedClaim, ResumeDirectClaim, NotClaimed, NextStep,
         Gap, Gate, Call, ApprovalCheck, ApprovedGate, ApprovedCall, Persist

(* Only going on to a gate or a call brings a handler there. *)
LEMMA Landing ==
    ASSUME TypeOK, NEW w \in Workers
    PROVE  /\ Finish(w) => worker'[w].at \notin Stepping
           /\ \A o, r : Stop(w, o, r) => worker'[w].at \notin Stepping
           /\ \A p : p \notin Stepping /\ Goto(w, p) => worker'[w].at \notin Stepping
           /\ \A p, m, n, r, k : p \notin Stepping /\ Take(w, p, m, n, r, k) =>
                 worker'[w].at \notin Stepping
           /\ UNCHANGED worker /\ At(w, "idle") => worker'[w].at \notin Stepping
           /\ {"step", "approval"} \cap Stepping = {} /\ Claiming \cap Stepping = {}
<1>1. Finish(w) => worker'[w].at \notin Stepping
  BY DEF Finish, Idle, Handler, Stepping, TypeOK
<1>2. \A o, r : Stop(w, o, r) => worker'[w].at \notin Stepping
  BY DEF Stop, Handler, Stepping, TypeOK
<1>3. \A p : p \notin Stepping /\ Goto(w, p) => worker'[w].at \notin Stepping
  BY DEF Goto, TypeOK, Worker
<1>4. \A p, m, n, r, k : p \notin Stepping /\ Take(w, p, m, n, r, k) =>
          worker'[w].at \notin Stepping
  BY DEF Take, Handler, TypeOK
<1>5. UNCHANGED worker /\ At(w, "idle") => worker'[w].at \notin Stepping
  BY DEF At, Stepping
<1>6. {"step", "approval"} \cap Stepping = {} /\ Claiming \cap Stepping = {}
  BY DEF Stepping, Claiming
<1>7. QED
  BY <1>1, <1>2, <1>3, <1>4, <1>5, <1>6

(* A handler is at a step of its plan whenever it is at a gate or a call:  *)
(* the engine has just looked, or an approval was asked for the step.       *)
LEMMA PositionStep ==
    ASSUME TypeOK, PositionsMatch, SnapshotsMatch, [Next]_vars
    PROVE  PositionsMatch'
<1>1. ASSUME NEW w \in Workers, Moves(w) PROVE PositionsMatch'
  <2>1. ASSUME NEW v \in Workers, v # w
        PROVE  /\ ~At(v, "idle")' => MissionOf(v)' \in Missions
               /\ worker'[v].at \in Stepping => StepOf(v)' \in Steps
    BY <1>1, <2>1, OthersStay DEF PositionsMatch, At, MissionOf, StepOf
  <2>2. ~At(w, "idle")' => MissionOf(w)' \in Missions
    <3>1. CASE Arrive(w)
      BY <3>1 DEF Arrive, Start, PlanFails, Read, Take, Handler, TypeOK, At, MissionOf
    <3>2. CASE Proceed(w) \/ HandlerRaises(w)
      BY <3>2, SameMission DEF PositionsMatch, At, MissionOf
    <3>3. QED
      BY <1>1, <3>1, <3>2 DEF Moves
  <2>3. worker'[w].at \in Stepping => StepOf(w)' \in Steps
    <3>1. ASSUME NEW p \in Stepping, Goto(w, p), StepOf(w) \in Steps
          PROVE  StepOf(w)' \in Steps
      BY <3>1 DEF Goto, StepOf, TypeOK, Worker
    <3>2. CASE NextStep(w) /\ Goto(w, "gate")
      <4>1. StepOf(w) \in Steps
        <5>1. worker'[w].at = "gate"
          BY <3>2 DEF Goto, TypeOK, Worker
        <5>2. worker[w].next \in StepsOf(MissionOf(w))
          BY <3>2, <5>1 DEF NextStep, Stop, Handler, Gap, TypeOK
        <5>3. worker[w].mission \in Missions
          BY <3>2, HandlerFields DEF NextStep, At
        <5>4. QED
          BY <5>2, <5>3, StepIsPair DEF StepOf, MissionOf
      <4>2. QED
        BY <3>1, <3>2, <4>1 DEF Stepping
    <3>3. CASE (Gate(w) /\ Goto(w, "call")) \/ (ApprovedGate(w) /\ Goto(w, "approvedCall"))
      BY <3>1, <3>3 DEF Gate, ApprovedGate, At, PositionsMatch, Stepping
    <3>4. CASE ApprovalCheck(w) /\ Goto(w, "approvedGate")
      <4>1. StepOf(w) \in Steps
        <5>1. worker'[w].at = "approvedGate"
          BY <3>4 DEF Goto, TypeOK, Worker
        <5>2. worker[w].request # NoRequest
          BY <3>4, <5>1 DEF ApprovalCheck, Stop, Handler, Finish, Idle, TypeOK
        <5>3. worker[w].request \in Requests /\ worker[w].mission \in Missions
          BY <3>4, <5>2, HandlerFields DEF ApprovalCheck, At, MaybeRequest
        <5>4. askedFor[worker[w].request] = StepOf(w)
          BY <3>4, <5>2 DEF SnapshotsMatch, RequestMatches, ApprovalCheck, At
        <5>5. StepOf(w) # NoStep
          BY <5>3, ConstantsAssumption DEF StepOf, NoStep
        <5>6. QED
          BY <5>3, <5>4, <5>5 DEF TypeOK
      <4>2. QED
        BY <3>1, <3>4, <4>1 DEF Stepping
    <3>5. CASE worker'[w].at \notin Stepping
      BY <3>5
    <3>6. \/ worker'[w].at \notin Stepping
          \/ NextStep(w) /\ Goto(w, "gate")
          \/ Gate(w) /\ Goto(w, "call")
          \/ ApprovedGate(w) /\ Goto(w, "approvedCall")
          \/ ApprovalCheck(w) /\ Goto(w, "approvedGate")
      BY <1>1, Landing
         DEF Moves, Arrive, Proceed, HandlerRaises, Start, PlanFails, Read, ResumeBlockedClaim,
             ResumePlannedClaim, ResumeDirectClaim, NotClaimed, NextStep, Gate, Call,
             ApprovalCheck, ApprovedGate, ApprovedCall, Persist, Gap, Advance, At
    <3>7. QED
      BY <3>2, <3>3, <3>4, <3>5, <3>6
  <2>4. QED
    BY <2>1, <2>2, <2>3 DEF PositionsMatch, At, MissionOf, StepOf
<1>2. ASSUME NEW i \in Instances, Restart(i) PROVE PositionsMatch'
  BY <1>2 DEF Restart, PositionsMatch, At, MissionOf, StepOf, Idle, Handler, Stepping
<1>3. CASE UNCHANGED worker
  BY <1>3 DEF PositionsMatch, At, MissionOf, StepOf
<1>4. QED
  BY <1>1, <1>2, <1>3 DEF Next, Moves, vars, Decide, ChangeRegistry, SetKillSwitch

(* What a handler holds after each of the four ways to move. *)
LEMMA AfterTake ==
    ASSUME TypeOK, NEW w \in Workers, NEW p, NEW m, NEW n, NEW r, NEW k, Take(w, p, m, n, r, k)
    PROVE  /\ worker'[w].at = p /\ worker'[w].mission = m /\ worker'[w].next = n
           /\ worker'[w].request = r
BY DEF Take, Handler, TypeOK

(* A handler that stops has its outcome to save. *)
LEMMA AfterStop ==
    ASSUME TypeOK, NEW w \in Workers, NEW o, NEW r, Stop(w, o, r)
    PROVE  /\ worker'[w].at = "persist" /\ worker'[w].mission = worker[w].mission
           /\ worker'[w].next = worker[w].next /\ worker'[w].request = r
           /\ worker'[w].outcome = o
BY DEF Stop, Handler, MissionOf, TypeOK

(* A handler that goes on keeps what it holds. *)
LEMMA AfterGoto ==
    ASSUME TypeOK, NEW w \in Workers, NEW p, Goto(w, p)
    PROVE  /\ worker'[w].at = p /\ worker'[w].mission = worker[w].mission
           /\ worker'[w].next = worker[w].next /\ worker'[w].request = worker[w].request
BY DEF Goto, TypeOK, Worker

(* A handler that is done is idle. *)
LEMMA AfterFinish ==
    ASSUME TypeOK, NEW w \in Workers, Finish(w)
    PROVE  worker'[w].at = "idle"
BY DEF Finish, Idle, Handler, TypeOK

(* A step not made by a handler moves none, unless it ends it. *)
LEMMA EnvironmentMoves ==
    ASSUME TypeOK, [Next]_vars, ~\E w \in Workers : Moves(w)
    PROVE  /\ \A v \in Workers : worker'[v] = worker[v] \/ worker'[v].at = "idle"
           /\ UNCHANGED <<missions, askedFor, runs>>
           /\ \A r \in Requests : approvals[r] \in {"ABSENT", "APPROVED"} => approvals'[r] = approvals[r]
           /\ \A r \in Requests : approvals'[r] = "ABSENT" => approvals[r] = "ABSENT"
<1>1. ASSUME NEW r \in Requests, Decide(r)
      PROVE  /\ \A q \in Requests : approvals[q] \in {"ABSENT", "APPROVED"} => approvals'[q] = approvals[q]
             /\ \A q \in Requests : approvals'[q] = "ABSENT" => approvals[q] = "ABSENT"
  BY <1>1 DEF Decide, TypeOK
<1>2. ASSUME NEW i \in Instances, Restart(i), NEW v \in Workers
      PROVE  worker'[v] = worker[v] \/ worker'[v].at = "idle"
  BY <1>2 DEF Restart, Idle, Handler
<1>3. QED
  BY <1>1, <1>2 DEF Next, Moves, Decide, ChangeRegistry, Restart, SetKillSwitch, store, effects, vars

-----------------------------------------------------------------------------
(* Requests and calls are never taken back *)

(* A request stays asked for the step it was created for, an approval      *)
(* stands, and a request that does not exist has not been asked.           *)
LEMMA RequestsStand ==
    ASSUME TypeOK, FreshRequests, [Next]_vars
    PROVE  /\ \A r \in Requests : askedFor[r] # NoStep => askedFor'[r] = askedFor[r]
           /\ \A r \in Requests : approvals[r] = "APPROVED" => approvals'[r] = "APPROVED"
           /\ FreshRequests'
<1>1. ASSUME NEW w \in Workers, Gate(w), NEW r \in Requests, approvals[r] = "ABSENT",
             approvals' = [approvals EXCEPT ![r] = "PENDING"],
             askedFor' = [askedFor EXCEPT ![r] = StepOf(w)]
      PROVE  /\ \A q \in Requests : askedFor[q] # NoStep => askedFor'[q] = askedFor[q]
             /\ \A q \in Requests : approvals[q] = "APPROVED" => approvals'[q] = "APPROVED"
             /\ FreshRequests'
  BY <1>1 DEF FreshRequests, TypeOK
<1>2. CASE UNCHANGED <<approvals, askedFor>>
  BY <1>2 DEF FreshRequests
<1>3. ASSUME NEW w \in Workers, Gate(w)
      PROVE  \/ UNCHANGED <<approvals, askedFor>>
             \/ \E r \in Requests :
                   /\ approvals[r] = "ABSENT"
                   /\ approvals' = [approvals EXCEPT ![r] = "PENDING"]
                   /\ askedFor' = [askedFor EXCEPT ![r] = StepOf(w)]
  BY <1>3 DEF Gate
<1>4. CASE ~\E w \in Workers : Moves(w)
  BY <1>4, EnvironmentMoves DEF FreshRequests
<1>5. ASSUME NEW w \in Workers, Moves(w), ~Gate(w) PROVE UNCHANGED <<approvals, askedFor>>
  BY <1>5 DEF Moves, Arrive, Proceed, HandlerRaises, Start, PlanFails, Read, ResumeBlockedClaim,
              ResumePlannedClaim, ResumeDirectClaim, NextStep, Call, ApprovalCheck,
              ApprovedGate, ApprovedCall, Persist, store
<1>6. QED
  BY <1>1, <1>2, <1>3, <1>4, <1>5

(* A call made is not unmade: it is only ever counted up. *)
LEMMA RunsStand ==
    ASSUME TypeOK, PositionsMatch, [Next]_vars
    PROVE  \A x \in Steps : runs[x] > 0 => runs'[x] > 0
<1>1. ASSUME NEW w \in Workers, CallTool(w),
             worker[w].at \in {"call", "approvedCall"}
      PROVE  \A x \in Steps : runs[x] > 0 => runs'[x] > 0
  <2>1. StepOf(w) \in Steps
    BY <1>1 DEF PositionsMatch, Stepping
  <2>2. QED
    BY <1>1, <2>1, CallCounts
<1>2. ASSUME NEW w \in Workers, Moves(w)
      PROVE  \/ UNCHANGED runs
             \/ /\ worker[w].at \in {"call", "approvedCall"}
                /\ CallTool(w)
  BY <1>2 DEF Moves, Arrive, Proceed, HandlerRaises, Start, PlanFails, Read, ResumeBlockedClaim,
              ResumePlannedClaim, ResumeDirectClaim, NextStep, Gate, Call, ApprovalCheck,
              ApprovedGate, ApprovedCall, Persist, effects, At
<1>3. QED
  BY <1>1, <1>2, EnvironmentMoves

-----------------------------------------------------------------------------
(* One handler runs a mission *)

Busy(m)      == missions[m].status \in {"UNSAVED", "RESUMING"}
BusyAfter(m) == missions'[m].status \in {"UNSAVED", "RESUMING"}

(* Whoever runs was running, and the missions they run stay claimed. *)
LEMMA RunnersKept ==
    ASSUME TypeOK, OneRunner,
           \A v \in Workers : Running(v)' => Running(v) /\ worker'[v].mission = worker[v].mission,
           \A v \in Workers : Running(v)' => BusyAfter(worker[v].mission)
    PROVE  OneRunner'
BY DEF OneRunner, Running, Busy, BusyAfter, MissionOf

(* A handler enters a mission that nobody had claimed, and claims it. *)
LEMMA RunnerEnters ==
    ASSUME TypeOK, OneRunner, NEW w \in Workers, NEW m \in Missions, ~Busy(m), BusyAfter(m),
           \A n \in Missions : n # m => missions'[n] = missions[n],
           \A v \in Workers : v # w => worker'[v] = worker[v],
           Running(w)' => worker'[w].mission = m,
           PositionsMatch
    PROVE  OneRunner'
<1>1. ASSUME NEW v \in Workers, v # w, Running(v)'
      PROVE  /\ Running(v) /\ worker'[v].mission = worker[v].mission
             /\ worker[v].mission # m /\ BusyAfter(worker[v].mission)
  <2>1. Running(v) /\ worker'[v] = worker[v]
    BY <1>1 DEF Running
  <2>2. Busy(worker[v].mission) /\ worker[v].mission # m
    BY <2>1 DEF OneRunner, Busy, BusyAfter, MissionOf
  <2>3. worker[v].mission \in Missions
    BY <2>1 DEF PositionsMatch, Running, Run, At, MissionOf
  <2>4. QED
    BY <2>1, <2>2, <2>3 DEF Busy, BusyAfter
<1>2. ASSUME NEW v \in Workers, Running(v)' PROVE BusyAfter(worker'[v].mission)
  BY <1>1, <1>2 DEF Busy, BusyAfter
<1>3. ASSUME NEW u \in Workers, NEW v \in Workers, u # v, Running(u)', Running(v)'
      PROVE  worker'[u].mission # worker'[v].mission
  <2>1. CASE u = w \/ v = w
    BY <1>1, <1>3, <2>1
  <2>2. CASE u # w /\ v # w
    BY <1>1, <1>3, <2>2 DEF OneRunner, MissionOf
  <2>3. QED
    BY <2>1, <2>2
<1>4. QED
  BY <1>2, <1>3 DEF OneRunner, Busy, BusyAfter, MissionOf

(* The statuses a route claims from are not those of a mission being run. *)
LEMMA ClaimsTheFree ==
    ASSUME NEW m \in Missions, Claimable(m, "BLOCKED") \/ Claimable(m, "AWAITING_APPROVAL")
    PROVE  ~Busy(m)
BY DEF Claimable, Busy, BusyAfter

(* A claim is won of a mission nobody runs, or changes nothing. *)
LEMMA ClaimRunner ==
    ASSUME TypeOK, PositionsMatch, OneRunner, NEW w \in Workers,
           ResumeBlockedClaim(w) \/ ResumePlannedClaim(w) \/ ResumeDirectClaim(w)
    PROVE  OneRunner'
<1>1. Moves(w) /\ Proceed(w)
  BY DEF Moves, Proceed
<1>2. \A v \in Workers : v # w => worker'[v] = worker[v]
  BY <1>1, OthersStay
<1>3. worker[w].mission \in Missions
  BY <1>1, SameMission, HandlerFields
<1>4. CASE UNCHANGED missions /\ Finish(w)
  <2>1. ~Running(w)'
    BY <1>4, AfterFinish DEF Running, Run
  <2>2. QED
    BY <1>2, <1>4, <2>1, RunnersKept DEF OneRunner, Running, Busy, BusyAfter, MissionOf
<1>5. CASE /\ Claim(w)
           /\ Claimable(MissionOf(w), "BLOCKED") \/ Claimable(MissionOf(w), "AWAITING_APPROVAL")
  <2>1. ~Busy(worker[w].mission)
    BY <1>3, <1>5, ClaimsTheFree DEF MissionOf
  <2>2. /\ BusyAfter(worker[w].mission)
        /\ \A n \in Missions : n # worker[w].mission => missions'[n] = missions[n]
    BY <1>3, <1>5 DEF Claim, MissionOf, Busy, BusyAfter, TypeOK, MissionRecord
  <2>3. Running(w)' => worker'[w].mission = worker[w].mission
    BY <1>1, SameMission DEF Running, Run
  <2>4. QED
    BY <1>2, <1>3, <2>1, <2>2, <2>3, RunnerEnters
<1>6. QED
  BY <1>4, <1>5 DEF ResumeBlockedClaim, ResumePlannedClaim, ResumeDirectClaim, NotClaimed,
                    MissionOf

(* However missions are started, claimed, run, saved or abandoned, one     *)
(* handler at a time runs each.                                            *)
LEMMA RunnerStep ==
    ASSUME TypeOK, PositionsMatch, OneRunner, [Next]_vars
    PROVE  OneRunner'
<1>1. ASSUME NEW w \in Workers, NEW m \in Missions, Start(w, m) PROVE OneRunner'
  <2>1. \A v \in Workers : v # w => worker'[v] = worker[v]
    BY <1>1, OthersStay DEF Moves, Arrive
  <2>2. ~Busy(m) /\ BusyAfter(m) /\ \A n \in Missions : n # m => missions'[n] = missions[n]
    BY <1>1 DEF Start, Busy, BusyAfter, TypeOK, MissionRecord
  <2>3. worker'[w].mission = m
    BY <1>1, AfterTake DEF Start
  <2>4. QED
    BY <2>1, <2>2, <2>3, RunnerEnters
<1>2. ASSUME NEW w \in Workers, NEW m \in Missions, PlanFails(w, m) PROVE OneRunner'
  <2>1. ~Busy(m) /\ \A n \in Missions : n # m => missions'[n] = missions[n]
    BY <1>2 DEF PlanFails, Busy, BusyAfter, TypeOK
  <2>2. ASSUME NEW v \in Workers, Running(v)
        PROVE  BusyAfter(worker[v].mission) /\ worker[v].mission \in Missions
    <3>1. worker[v].mission \in Missions /\ Busy(worker[v].mission)
      BY <2>2 DEF PositionsMatch, OneRunner, Running, Run, At, MissionOf, Busy, BusyAfter
    <3>2. QED
      BY <2>1, <3>1 DEF Busy, BusyAfter
  <2>3. QED
    BY <1>2, <2>2, RunnersKept DEF PlanFails, Running
<1>3. ASSUME NEW w \in Workers, Persist(w) PROVE OneRunner'
  <2>1. \A v \in Workers : v # w => worker'[v] = worker[v]
    BY <1>3, OthersStay DEF Moves, Proceed
  <2>2. Running(w) /\ ~Running(w)'
    BY <1>3, AfterFinish DEF Persist, Running, Run, At
  <2>3. ASSUME NEW v \in Workers, v # w, Running(v) PROVE BusyAfter(worker[v].mission)
    <3>1. worker[v].mission # worker[w].mission /\ Busy(worker[v].mission)
      BY <2>2, <2>3 DEF OneRunner, MissionOf, Busy, BusyAfter
    <3>2. worker[v].mission \in Missions
      BY <2>3 DEF PositionsMatch, Running, Run, At, MissionOf
    <3>3. QED
      BY <1>3, <3>1, <3>2 DEF Persist, Busy, BusyAfter, TypeOK
  <2>4. \A v \in Workers : Running(v)' =>
             v # w /\ Running(v) /\ worker'[v].mission = worker[v].mission
    BY <2>1, <2>2 DEF Running
  <2>5. QED
    BY <2>3, <2>4, RunnersKept
<1>4. ASSUME NEW w \in Workers, Moves(w), UNCHANGED missions,
             Running(w)' => Running(w) /\ worker'[w].mission = worker[w].mission
      PROVE  OneRunner'
  <2>1. \A v \in Workers : v # w => worker'[v] = worker[v]
    BY <1>4, OthersStay
  <2>2. \A v \in Workers : Running(v)' => Running(v) /\ worker'[v].mission = worker[v].mission
    BY <1>4, <2>1 DEF Running
  <2>3. QED
    BY <1>4, <2>2, RunnersKept DEF OneRunner, Busy, BusyAfter, MissionOf
<1>5. ASSUME NEW w \in Workers, NEW m \in Missions, NEW route \in Claiming, Read(w, m, route)
      PROVE  OneRunner'
  <2>1. ~Running(w)'
    BY <1>5, AfterTake DEF Read, Running, Run, Claiming
  <2>2. QED
    BY <1>4, <1>5, <2>1 DEF Read, Moves, Arrive, store
<1>6. ASSUME NEW w \in Workers, \/ NextStep(w) \/ Gate(w) \/ Call(w) \/ ApprovalCheck(w)
                                \/ ApprovedGate(w) \/ ApprovedCall(w) \/ HandlerRaises(w)
      PROVE  OneRunner'
  <2>1. Proceed(w) \/ HandlerRaises(w)
    BY <1>6 DEF Proceed
  <2>2. Running(w) \/ HandlerRaises(w)
    BY <1>6 DEF NextStep, Gate, Call, ApprovalCheck, ApprovedGate, ApprovedCall, At,
                Running, Run
  <2>3. HandlerRaises(w) => ~Running(w)'
    BY AfterFinish DEF HandlerRaises, Running, Run
  <2>4. Running(w)' => worker'[w].mission = worker[w].mission
    BY <2>1, SameMission DEF Running, Run
  <2>5. UNCHANGED missions
    BY <1>6 DEF NextStep, Gate, Call, ApprovalCheck, ApprovedGate, ApprovedCall,
                HandlerRaises, store
  <2>6. QED
    BY <1>4, <2>1, <2>2, <2>3, <2>4, <2>5 DEF Moves
<1>7. CASE ~\E w \in Workers : Moves(w)
  <2>1. \A v \in Workers : Running(v)' => Running(v) /\ worker'[v].mission = worker[v].mission
    BY <1>7, EnvironmentMoves DEF Running, Run
  <2>2. QED
    BY <1>7, <2>1, EnvironmentMoves, RunnersKept DEF OneRunner, Busy, BusyAfter, MissionOf
<1>8. QED
  BY <1>1, <1>2, <1>3, <1>5, <1>6, <1>7, ClaimRunner DEF Moves, Arrive, Proceed

-----------------------------------------------------------------------------
(* Snapshots, approvals and the order of steps *)

(* What is remembered of a step stays true while requests and calls stand. *)
LEMMA MemoryStands ==
    ASSUME TypeOK, PositionsMatch, FreshRequests, [Next]_vars,
           NEW m \in Missions, NEW n \in Nat, NEW r \in MaybeRequest
    PROVE  /\ RequestMatches(r, <<m, n>>) => (r # NoRequest => askedFor'[r] = <<m, n>>)
           /\ RanBefore(m, n) =>
                 \A k \in 1..(n - 1) : k \in StepsOf(m) => runs'[<<m, k>>] > 0
<1>1. ASSUME RequestMatches(r, <<m, n>>), r # NoRequest PROVE askedFor'[r] = <<m, n>>
  <2>1. r \in Requests /\ askedFor[r] = <<m, n>>
    BY <1>1 DEF RequestMatches, MaybeRequest
  <2>2. askedFor[r] # NoStep
    BY <2>1, StepIsPair
  <2>3. QED
    BY <2>1, <2>2, RequestsStand
<1>2. ASSUME RanBefore(m, n), NEW k \in 1..(n - 1), k \in StepsOf(m)
      PROVE  runs'[<<m, k>>] > 0
  <2>1. <<m, k>> \in Steps /\ runs[<<m, k>>] > 0
    BY <1>2, StepIsPair DEF RanBefore
  <2>2. QED
    BY <2>1, RunsStand
<1>3. QED
  BY <1>1, <1>2

(* A handler that keeps its mission and step, and its request or none,     *)
(* still remembers right.                                                  *)
Remembers(m, n, r) ==
    /\ r # NoRequest => askedFor'[r] = <<m, n>>
    /\ \A k \in 1..(n - 1) : k \in StepsOf(m) => runs'[<<m, k>>] > 0

(* In particular a handler or a mission that the step leaves alone. *)
LEMMA StillRemembers ==
    ASSUME TypeOK, PositionsMatch, FreshRequests, SnapshotsMatch, [Next]_vars,
           NEW w \in Workers, ~At(w, "idle")
    PROVE  /\ Remembers(worker[w].mission, worker[w].next, worker[w].request)
           /\ Remembers(worker[w].mission, worker[w].next, NoRequest)
<1>1. RequestMatches(worker[w].request, <<worker[w].mission, worker[w].next>>)
  BY DEF SnapshotsMatch, StepOf
<1>2. RanBefore(worker[w].mission, worker[w].next)
  BY DEF SnapshotsMatch, MissionOf
<1>3. QED
  BY <1>1, <1>2, HandlerFields, MemoryStands DEF Remembers

(* A handler that advances has just called the tool of the step it leaves. *)
LEMMA AdvanceRemembers ==
    ASSUME TypeOK, PositionsMatch, FreshRequests, SnapshotsMatch, [Next]_vars,
           NEW w \in Workers, worker[w].at \in {"call", "approvedCall"},
           CallTool(w)
    PROVE  Remembers(worker[w].mission, worker[w].next + 1, NoRequest)
<1>1. ~At(w, "idle")
  BY DEF At
<1>2. StepOf(w) \in Steps
  BY DEF PositionsMatch, Stepping
<1>3. runs'[<<worker[w].mission, worker[w].next>>] > 0
  BY <1>2, CallCounts DEF StepOf
<1>4. Remembers(worker[w].mission, worker[w].next, NoRequest)
  BY <1>1, StillRemembers
<1>5. worker[w].next \in Nat
  BY <1>1, HandlerFields
<1>6. QED
  BY <1>3, <1>4, <1>5 DEF Remembers, StepsOf

(* However a handler moves, what it holds after matches what was asked and *)
(* what ran.                                                               *)
LEMMA HandlerRemembers ==
    ASSUME TypeOK, PositionsMatch, FreshRequests, SnapshotsMatch, [Next]_vars,
           NEW w \in Workers, Moves(w), ~At(w, "idle")'
    PROVE  Remembers(worker'[w].mission, worker'[w].next, worker'[w].request)
<1>1. ASSUME NEW m \in Missions, Start(w, m)
      PROVE  Remembers(worker'[w].mission, worker'[w].next, worker'[w].request)
  BY <1>1, AfterTake DEF Start, Remembers
<1>2. ASSUME NEW m \in Missions, NEW route \in Claiming, Read(w, m, route)
      PROVE  Remembers(worker'[w].mission, worker'[w].next, worker'[w].request)
  <2>1. /\ missions[m].next \in Nat /\ missions[m].request \in MaybeRequest
        /\ RequestMatches(missions[m].request, <<m, missions[m].next>>)
        /\ RanBefore(m, missions[m].next)
    BY DEF TypeOK, MissionRecord, SnapshotsMatch
  <2>2. Remembers(m, missions[m].next, missions[m].request)
    BY <2>1, MemoryStands DEF Remembers
  <2>3. QED
    BY <1>2, <2>2, AfterTake DEF Read
<1>3. ASSUME NEW m \in Missions, PlanFails(w, m) PROVE FALSE
  BY <1>3 DEF PlanFails, At
<1>4. ASSUME ~At(w, "idle"),
             \/ \E p : Goto(w, p)
             \/ \E o : Stop(w, o, NoRequest) \/ Stop(w, o, worker[w].request)
             \/ \E p, k : Take(w, p, worker[w].mission, worker[w].next, NoRequest, k)
      PROVE  Remembers(worker'[w].mission, worker'[w].next, worker'[w].request)
  BY <1>4, StillRemembers, AfterGoto, AfterStop, AfterTake
<1>5. ASSUME Gate(w), NEW r \in Requests, askedFor' = [askedFor EXCEPT ![r] = StepOf(w)],
             Stop(w, "AWAITING_APPROVAL", r)
      PROVE  Remembers(worker'[w].mission, worker'[w].next, worker'[w].request)
  <2>1. Remembers(worker[w].mission, worker[w].next, NoRequest)
    BY <1>5, StillRemembers DEF Gate, At
  <2>2. askedFor'[r] = <<worker[w].mission, worker[w].next>>
    BY <1>5 DEF TypeOK, StepOf
  <2>3. QED
    BY <1>5, <2>1, <2>2, AfterStop DEF Remembers
<1>6. ASSUME worker[w].at \in {"call", "approvedCall"}, CallTool(w),
             Advance(w)
      PROVE  Remembers(worker'[w].mission, worker'[w].next, worker'[w].request)
  BY <1>6, AdvanceRemembers, AfterTake DEF Advance, MissionOf
<1>7. ~Finish(w)
  BY AfterFinish DEF At
<1>8. CASE ResumeBlockedClaim(w) \/ ResumePlannedClaim(w) \/ ResumeDirectClaim(w)
  BY <1>4, <1>7, <1>8 DEF ResumeBlockedClaim, ResumePlannedClaim, ResumeDirectClaim, NotClaimed,
                          ResumeFrom, At
<1>9. CASE NextStep(w) \/ ApprovalCheck(w) \/ ApprovedGate(w)
  BY <1>4, <1>7, <1>9 DEF NextStep, Gap, ApprovalCheck, ApprovedGate, At
<1>10. CASE Gate(w)
  BY <1>4, <1>5, <1>10 DEF Gate, At
<1>11. CASE Call(w) \/ ApprovedCall(w)
  BY <1>4, <1>6, <1>11 DEF Call, ApprovedCall, At
<1>12. CASE Persist(w) \/ HandlerRaises(w)
  BY <1>7, <1>12 DEF Persist, HandlerRaises
<1>13. QED
  BY <1>1, <1>2, <1>3, <1>8, <1>9, <1>10, <1>11, <1>12 DEF Moves, Arrive, Proceed

(* Saved missions remember right as well: what is saved is what a handler  *)
(* held.                                                                   *)
LEMMA MissionRemembers ==
    ASSUME TypeOK, PositionsMatch, FreshRequests, SnapshotsMatch, [Next]_vars,
           NEW m \in Missions
    PROVE  Remembers(m, missions'[m].next, missions'[m].request)
<1>1. Remembers(m, missions[m].next, missions[m].request)
  <2>1. /\ missions[m].next \in Nat /\ missions[m].request \in MaybeRequest
        /\ RequestMatches(missions[m].request, <<m, missions[m].next>>)
        /\ RanBefore(m, missions[m].next)
    BY DEF TypeOK, MissionRecord, SnapshotsMatch
  <2>2. QED
    BY <2>1, MemoryStands DEF Remembers
<1>2. ASSUME NEW w \in Workers, Persist(w)
      PROVE  Remembers(m, missions'[m].next, missions'[m].request)
  <2>1. CASE m = worker[w].mission
    <3>1. missions'[m].next = worker[w].next /\ missions'[m].request = worker[w].request
      BY <1>2, <2>1 DEF Persist, Mission, TypeOK
    <3>2. QED
      BY <1>2, <2>1, <3>1, StillRemembers DEF Persist, At
  <2>2. CASE m # worker[w].mission
    BY <1>1, <1>2, <2>2 DEF Persist, TypeOK
  <2>3. QED
    BY <2>1, <2>2
<1>3. ASSUME NEW n \in Missions, NEW s, missions' = [missions EXCEPT ![n].status = s]
      PROVE  missions'[m].next = missions[m].next /\ missions'[m].request = missions[m].request
  BY <1>3 DEF TypeOK, MissionRecord
<1>4. ASSUME NEW w \in Workers, Moves(w), ~Persist(w), ~UNCHANGED missions
      PROVE  \E n \in Missions, s \in Status : missions' = [missions EXCEPT ![n].status = s]
  <2>1. CASE \E n \in Missions : Start(w, n) \/ PlanFails(w, n)
    BY <2>1, Vocabulary DEF Start, PlanFails
  <2>2. CASE ResumeBlockedClaim(w) \/ ResumePlannedClaim(w) \/ ResumeDirectClaim(w)
    <3>1. worker[w].mission \in Missions
      BY <2>2, HandlerFields DEF ResumeBlockedClaim, ResumePlannedClaim, ResumeDirectClaim, At
    <3>2. Claim(w)
      BY <1>4, <2>2 DEF ResumeBlockedClaim, ResumePlannedClaim, ResumeDirectClaim, NotClaimed
    <3>3. QED
      BY <3>1, <3>2, Vocabulary DEF Claim, MissionOf
  <2>3. QED
    BY <1>4, <2>1, <2>2
       DEF Moves, Arrive, Proceed, HandlerRaises, Read, NextStep, Gate, Call, ApprovalCheck,
           ApprovedGate, ApprovedCall, store
<1>5. QED
  BY <1>1, <1>2, <1>3, <1>4, EnvironmentMoves

(* The step a mission is saved at, or a handler holds, goes with its       *)
(* request, and the steps before it have run.                              *)
LEMMA SnapshotStep ==
    ASSUME TypeOK, PositionsMatch, FreshRequests, SnapshotsMatch, [Next]_vars
    PROVE  SnapshotsMatch'
<1>1. ASSUME NEW v \in Workers, ~At(v, "idle")'
      PROVE  Remembers(worker'[v].mission, worker'[v].next, worker'[v].request)
  <2>1. CASE Moves(v)
    BY <1>1, <2>1, HandlerRemembers
  <2>2. CASE ~Moves(v)
    <3>1. worker'[v] = worker[v]
      BY <1>1, <2>2, OthersStay, EnvironmentMoves DEF At
    <3>2. QED
      BY <1>1, <3>1, StillRemembers DEF At
  <2>3. QED
    BY <2>1, <2>2
<1>2. QED
  BY <1>1, MissionRemembers DEF SnapshotsMatch, Remembers, RequestMatches, RanBefore, At,
                                StepOf, MissionOf, StepsOf

(* The approval a handler holds at the approved gate is of its own step.   *)
LEMMA ApprovalStep ==
    ASSUME TypeOK, PositionsMatch, FreshRequests, SnapshotsMatch, ApprovalIsForThisStep,
           [Next]_vars
    PROVE  ApprovalIsForThisStep'
<1> DEFINE Approval(v) == /\ worker'[v].request \in Requests
                          /\ approvals'[worker'[v].request] = "APPROVED"
                          /\ askedFor'[worker'[v].request] = StepOf(v)'
<1>1. ASSUME NEW v \in Workers, worker[v].at \in {"approvedGate", "approvedCall"},
             worker'[v].request = worker[v].request, StepOf(v)' = StepOf(v)
      PROVE  Approval(v)
  <2>1. StepOf(v) \in Steps /\ StepOf(v) # NoStep
    BY <1>1, HandlerFields, StepIsPair DEF PositionsMatch, Stepping, StepOf, At
  <2>2. /\ worker[v].request \in Requests /\ approvals[worker[v].request] = "APPROVED"
        /\ askedFor[worker[v].request] = StepOf(v)
    BY <1>1 DEF ApprovalIsForThisStep
  <2>3. QED
    BY <1>1, <2>1, <2>2, RequestsStand
<1>2. ASSUME NEW v \in Workers, ApprovalCheck(v), Goto(v, "approvedGate") PROVE Approval(v)
  <2>1. worker'[v].at = "approvedGate" /\ worker'[v].request = worker[v].request
        /\ StepOf(v)' = StepOf(v)
    BY <1>2, AfterGoto DEF StepOf
  <2>2. worker[v].request # NoRequest /\ approvals[worker[v].request] = "APPROVED"
    BY <1>2, <2>1, AfterStop, AfterFinish DEF ApprovalCheck, Approved
  <2>3. worker[v].request \in Requests /\ askedFor[worker[v].request] = StepOf(v)
    BY <1>2, <2>2, HandlerFields
       DEF ApprovalCheck, At, SnapshotsMatch, RequestMatches, MaybeRequest
  <2>4. UNCHANGED <<approvals, askedFor>>
    BY <1>2 DEF ApprovalCheck, store
  <2>5. QED
    BY <2>1, <2>2, <2>3, <2>4
<1>3. ASSUME NEW v \in Workers, ApprovedGate(v), Goto(v, "approvedCall") PROVE Approval(v)
  BY <1>1, <1>3, AfterGoto DEF ApprovedGate, At, StepOf
<1>4. ASSUME NEW v \in Workers, Moves(v), worker'[v].at \in {"approvedGate", "approvedCall"}
      PROVE  \/ ApprovalCheck(v) /\ Goto(v, "approvedGate")
             \/ ApprovedGate(v) /\ Goto(v, "approvedCall")
  <2>1. ~Finish(v) /\ \A o, r : ~Stop(v, o, r)
    BY <1>4, AfterFinish, AfterStop
  <2>2. \A p, m, n, r, k : Take(v, p, m, n, r, k) => p \in {"approvedGate", "approvedCall"}
    BY <1>4, AfterTake
  <2>3. \A p : Goto(v, p) => p \in {"approvedGate", "approvedCall"}
    BY <1>4, AfterGoto
  <2>4. ~(UNCHANGED worker /\ At(v, "idle"))
    BY <1>4 DEF At
  <2>5. QED
    BY <1>4, <2>1, <2>2, <2>3, <2>4
       DEF Moves, Arrive, Proceed, HandlerRaises, Start, PlanFails, Read, ResumeBlockedClaim,
           ResumePlannedClaim, ResumeDirectClaim, NotClaimed, NextStep, Gate, Call,
           ApprovalCheck, ApprovedGate, ApprovedCall, Persist, Gap, Advance, Claiming
<1>5. ASSUME NEW v \in Workers, worker'[v].at \in {"approvedGate", "approvedCall"}
      PROVE  Approval(v)
  <2>1. CASE Moves(v)
    BY <1>2, <1>3, <1>4, <1>5, <2>1
  <2>2. CASE ~Moves(v)
    <3>1. worker'[v] = worker[v]
      BY <1>5, <2>2, OthersStay, EnvironmentMoves
    <3>2. QED
      BY <1>1, <1>5, <3>1 DEF StepOf
  <2>3. QED
    BY <2>1, <2>2
<1>6. QED
  BY <1>5 DEF ApprovalIsForThisStep

(* A handler that raises or goes on has called no tool, or the tool of the *)
(* step it was let through to.                                             *)
LEMMA CallsAreLetThrough ==
    ASSUME TypeOK, [Next]_vars
    PROVE  \/ UNCHANGED runs
           \/ \E w \in Workers : /\ Moves(w)
                                 /\ worker[w].at \in {"call", "approvedCall"}
                                 /\ CallTool(w)
<1>1. ASSUME NEW w \in Workers, Moves(w)
      PROVE  \/ UNCHANGED runs
             \/ /\ worker[w].at \in {"call", "approvedCall"}
                /\ CallTool(w)
  BY <1>1 DEF Moves, Arrive, Proceed, HandlerRaises, Start, PlanFails, Read, ResumeBlockedClaim,
              ResumePlannedClaim, ResumeDirectClaim, NextStep, Gate, Call, ApprovalCheck,
              ApprovedGate, ApprovedCall, Persist, effects, At
<1>2. QED
  BY <1>1, EnvironmentMoves

(* The steps before the one being called have run, so order is kept. *)
LEMMA OrderStep ==
    ASSUME TypeOK, PositionsMatch, SnapshotsMatch, NoStepIsSkipped, [Next]_vars
    PROVE  \A x \in Steps : runs'[x] > 0 => \A n \in 1..(x[2] - 1) : runs'[<<x[1], n>>] > 0
<1>1. ASSUME NEW w \in Workers, worker[w].at \in {"call", "approvedCall"},
             CallTool(w),
             NEW x \in Steps, runs'[x] > 0, NEW n \in 1..(x[2] - 1)
      PROVE  runs'[<<x[1], n>>] > 0
  <2>1. StepOf(w) \in Steps /\ ~At(w, "idle")
    BY <1>1 DEF PositionsMatch, Stepping, At
  <2>a. PICK m \in Missions : x \in {m} \X StepsOf(m)
    BY DEF Steps
  <2>2. PICK k \in StepsOf(m) : x = <<m, k>>
    BY <2>a
  <2>3. n \in StepsOf(m) /\ <<m, n>> \in Steps
    BY <1>1, <2>2, StepIsPair DEF StepsOf
  <2>4. runs[<<m, n>>] > 0
    <3>1. CASE x = StepOf(w)
      BY <1>1, <2>1, <2>2, <2>3, <3>1 DEF SnapshotsMatch, RanBefore, StepOf, MissionOf
    <3>2. CASE x # StepOf(w)
      BY <1>1, <2>1, <2>2, <3>2, CallCounts DEF NoStepIsSkipped
    <3>3. QED
      BY <3>1, <3>2
  <2>5. QED
    BY <2>2, <2>3, <2>4, RunsStand
<1>2. CASE UNCHANGED runs
  BY <1>2 DEF NoStepIsSkipped
<1>3. QED
  BY <1>1, <1>2, CallsAreLetThrough

-----------------------------------------------------------------------------
(* Saved missions *)

(* A mission in progress is saved or claimed by nobody but its runner, and *)
(* by that one only at the end.                                            *)
LEMMA RunnerHolds ==
    ASSUME TypeOK, PositionsMatch, OneRunner, [Next]_vars,
           NEW v \in Workers, Running(v), ~Persist(v)
    PROVE  missions'[worker[v].mission] = missions[worker[v].mission]
<1> PICK m : m = worker[v].mission
  OBVIOUS
<1>1. /\ m \in Missions /\ missions[m].status \in {"UNSAVED", "RESUMING"}
      /\ ~Claimable(m, "BLOCKED") /\ ~Claimable(m, "AWAITING_APPROVAL")
  <2>1. m \in Missions
    BY HandlerFields DEF Running, Run, At
  <2>2. missions[m].status \in {"UNSAVED", "RESUMING"}
    BY DEF OneRunner, MissionOf
  <2>3. QED
    BY <2>1, <2>2 DEF Claimable
<1>2. CASE ~\E w \in Workers : Moves(w)
  BY <1>2, EnvironmentMoves
<1>3. ASSUME NEW w \in Workers, Moves(w) PROVE missions'[m] = missions[m]
  <2>1. CASE \E n \in Missions : Start(w, n) \/ PlanFails(w, n)
    BY <1>1, <2>1 DEF Start, PlanFails, TypeOK
  <2>2. CASE ResumeBlockedClaim(w) \/ ResumePlannedClaim(w) \/ ResumeDirectClaim(w)
    <3>1. \/ UNCHANGED missions
          \/ /\ Claim(w)
             /\ Claimable(worker[w].mission, "BLOCKED")
                \/ Claimable(worker[w].mission, "AWAITING_APPROVAL")
      BY <2>2 DEF ResumeBlockedClaim, ResumePlannedClaim, ResumeDirectClaim, NotClaimed,
                  MissionOf
    <3>2. CASE Claim(w) /\ worker[w].mission # m
      BY <1>1, <3>2 DEF Claim, MissionOf, TypeOK
    <3>3. QED
      BY <1>1, <3>1, <3>2
  <2>3. CASE Persist(w)
    <3>1. Running(w) /\ w # v
      BY <2>3 DEF Persist, At, Running, Run
    <3>2. worker[w].mission # m
      BY <3>1 DEF OneRunner, MissionOf
    <3>3. QED
      BY <1>1, <2>3, <3>2 DEF Persist, TypeOK
  <2>4. QED
    BY <1>3, <2>1, <2>2, <2>3
       DEF Moves, Arrive, Proceed, HandlerRaises, Read, NextStep, Gate, Call, ApprovalCheck,
           ApprovedGate, ApprovedCall, store
<1>4. QED
  BY <1>2, <1>3

(* What one step can do to a saved mission. *)
LEMMA MissionMoves ==
    ASSUME TypeOK, PositionsMatch, [Next]_vars, NEW m \in Missions
    PROVE  \/ missions'[m] = missions[m]
           \/ /\ missions'[m].next = missions[m].next
              /\ missions'[m].request = missions[m].request
              /\ \/ missions'[m].status = "UNSAVED" /\ \E w \in Workers : Start(w, m)
                 \/ missions'[m].status = "FAILED" /\ \E w \in Workers : PlanFails(w, m)
                 \/ /\ missions'[m].status = "RESUMING"
                    /\ \E w \in Workers :
                          /\ worker[w].mission = m /\ Claim(w)
                          /\ \/ ResumeBlockedClaim(w) \/ ResumePlannedClaim(w)
                             \/ ResumeDirectClaim(w)
           \/ \E w \in Workers :
                 /\ Persist(w) /\ worker[w].mission = m
                 /\ missions'[m].status = worker[w].outcome
                 /\ missions'[m].next = worker[w].next
                 /\ missions'[m].request = worker[w].request
<1>1. ASSUME NEW n \in Missions, NEW s, missions' = [missions EXCEPT ![n].status = s]
      PROVE  \/ missions'[m] = missions[m]
             \/ /\ n = m /\ missions'[m].next = missions[m].next
                /\ missions'[m].request = missions[m].request /\ missions'[m].status = s
  BY <1>1 DEF TypeOK, MissionRecord
<1>2. CASE ~\E w \in Workers : Moves(w)
  BY <1>2, EnvironmentMoves
<1>3. ASSUME NEW w \in Workers, NEW n \in Missions, Start(w, n)
      PROVE  \/ missions'[m] = missions[m]
             \/ /\ n = m /\ missions'[m].next = missions[m].next
                /\ missions'[m].request = missions[m].request
                /\ missions'[m].status = "UNSAVED"
  BY <1>1, <1>3 DEF Start
<1>4. ASSUME NEW w \in Workers, NEW n \in Missions, PlanFails(w, n)
      PROVE  \/ missions'[m] = missions[m]
             \/ /\ n = m /\ missions'[m].next = missions[m].next
                /\ missions'[m].request = missions[m].request
                /\ missions'[m].status = "FAILED"
  BY <1>1, <1>4 DEF PlanFails
<1>5. ASSUME NEW w \in Workers,
             ResumeBlockedClaim(w) \/ ResumePlannedClaim(w) \/ ResumeDirectClaim(w)
      PROVE  \/ missions'[m] = missions[m]
             \/ /\ worker[w].mission = m /\ Claim(w)
                /\ missions'[m].next = missions[m].next
                /\ missions'[m].request = missions[m].request
                /\ missions'[m].status = "RESUMING"
  <2>1. worker[w].mission \in Missions
    BY <1>5, HandlerFields DEF ResumeBlockedClaim, ResumePlannedClaim, ResumeDirectClaim, At
  <2>2. UNCHANGED missions \/ Claim(w)
    BY <1>5 DEF ResumeBlockedClaim, ResumePlannedClaim, ResumeDirectClaim, NotClaimed
  <2>3. CASE Claim(w)
    BY <1>1, <2>1, <2>3 DEF Claim, MissionOf
  <2>4. QED
    BY <2>2, <2>3
<1>6. ASSUME NEW w \in Workers, Persist(w)
      PROVE  \/ missions'[m] = missions[m]
             \/ /\ worker[w].mission = m
                /\ missions'[m].status = worker[w].outcome
                /\ missions'[m].next = worker[w].next
                /\ missions'[m].request = worker[w].request
  BY <1>6 DEF Persist, Mission, TypeOK
<1>7. ASSUME NEW w \in Workers, NextStep(w) \/ Gate(w) \/ Call(w) \/ ApprovalCheck(w)
                                \/ ApprovedGate(w) \/ ApprovedCall(w) \/ HandlerRaises(w)
                                \/ (\E n \in Missions, route \in Claiming : Read(w, n, route))
      PROVE  missions'[m] = missions[m]
  BY <1>7 DEF NextStep, Gate, Call, ApprovalCheck, ApprovedGate, ApprovedCall, HandlerRaises,
              Read, store
<1>8. QED
  BY <1>2, <1>3, <1>4, <1>5, <1>6, <1>7 DEF Moves, Arrive, Proceed

(* What one step can do to the place in its plan a handler is at. *)
LEMMA HandlerMoves ==
    ASSUME TypeOK, PositionsMatch, NEW w \in Workers, Moves(w), ~At(w, "idle")'
    PROVE  \/ \E m \in Missions : Start(w, m) /\ worker'[w].mission = m /\ worker'[w].next = 1
           \/ \E m \in Missions : /\ worker'[w].mission = m
                                  /\ worker'[w].next = missions[m].next
           \/ /\ ~At(w, "idle") /\ worker'[w].mission = worker[w].mission
              /\ worker'[w].next = worker[w].next
           \/ /\ worker[w].at \in {"call", "approvedCall"}
              /\ worker'[w].mission = worker[w].mission
              /\ worker'[w].next = worker[w].next + 1
<1>1. ~Finish(w) /\ ~(UNCHANGED worker /\ At(w, "idle"))
  BY AfterFinish DEF At
<1>2. CASE Arrive(w)
  BY <1>1, <1>2, AfterTake DEF Arrive, Start, PlanFails, Read
<1>3. ASSUME ~At(w, "idle"),
             \/ \E p : Goto(w, p)
             \/ \E o, r : Stop(w, o, r)
             \/ \E p, r, k : Take(w, p, worker[w].mission, worker[w].next, r, k)
      PROVE  worker'[w].mission = worker[w].mission /\ worker'[w].next = worker[w].next
  BY <1>3, AfterGoto, AfterStop, AfterTake
<1>4. CASE ResumeBlockedClaim(w) \/ ResumePlannedClaim(w) \/ ResumeDirectClaim(w)
  BY <1>1, <1>3, <1>4 DEF ResumeBlockedClaim, ResumePlannedClaim, ResumeDirectClaim, NotClaimed,
                          ResumeFrom, At
<1>5. CASE NextStep(w) \/ Gate(w) \/ ApprovalCheck(w) \/ ApprovedGate(w)
  BY <1>1, <1>3, <1>5 DEF NextStep, Gap, Gate, ApprovalCheck, ApprovedGate, At
<1>6. CASE Call(w) \/ ApprovedCall(w)
  <2>1. Advance(w) \/ \E o, r : Stop(w, o, r)
    BY <1>6 DEF Call, ApprovedCall
  <2>2. ~At(w, "idle") /\ worker[w].at \in {"call", "approvedCall"}
    BY <1>6 DEF Call, ApprovedCall, At
  <2>3. CASE Advance(w)
    BY <2>2, <2>3, AfterTake DEF Advance, MissionOf
  <2>4. QED
    BY <1>3, <2>1, <2>2, <2>3
<1>7. CASE Persist(w) \/ HandlerRaises(w)
  BY <1>1, <1>7 DEF Persist, HandlerRaises
<1>8. QED
  BY <1>2, <1>4, <1>5, <1>6, <1>7 DEF Moves, Proceed

(* No handler and no saved mission is past the end of its plan by more     *)
(* than the one step that tells it is done.                                *)
LEMMA PlanStep ==
    ASSUME TypeOK, PositionsMatch, NextInPlan, [Next]_vars
    PROVE  NextInPlan'
<1>1. ASSUME NEW m \in Missions PROVE InPlan(m, missions'[m].next)
  <2>1. InPlan(m, missions[m].next)
    BY DEF NextInPlan
  <2>2. ASSUME NEW w \in Workers, Persist(w) PROVE InPlan(worker[w].mission, worker[w].next)
    BY <2>2 DEF NextInPlan, Persist, At, MissionOf
  <2>3. QED
    BY <2>1, <2>2, MissionMoves
<1>2. ASSUME NEW v \in Workers, ~At(v, "idle")'
      PROVE  InPlan(worker'[v].mission, worker'[v].next)
  <2>1. ~At(v, "idle") => InPlan(worker[v].mission, worker[v].next)
    BY DEF NextInPlan, MissionOf
  <2>2. CASE ~Moves(v)
    <3>1. worker'[v] = worker[v]
      BY <1>2, <2>2, OthersStay, EnvironmentMoves DEF At
    <3>2. QED
      BY <1>2, <2>1, <3>1 DEF At
  <2>3. CASE Moves(v)
    <3>1. \A m \in Missions : InPlan(m, 1) /\ InPlan(m, missions[m].next)
      BY DEF NextInPlan, InPlan
    <3>2. CASE worker[v].at \in {"call", "approvedCall"}
      <4>1. StepOf(v) \in Steps /\ worker[v].mission \in Missions
        BY <3>2, HandlerFields DEF PositionsMatch, Stepping, At
      <4>2. worker[v].next \in 1..Length[worker[v].mission]
        BY <4>1, StepIsPair DEF StepOf, StepsOf
      <4>3. Length[worker[v].mission] \in Nat
        BY <4>1
      <4>4. InPlan(worker[v].mission, worker[v].next + 1)
        BY <4>2, <4>3 DEF InPlan
      <4>5. QED
        BY <1>2, <2>1, <2>3, <3>1, <4>4, HandlerMoves
    <3>3. QED
      BY <1>2, <2>1, <2>3, <3>1, <3>2, HandlerMoves
  <2>4. QED
    BY <2>2, <2>3
<1>3. QED
  BY <1>1, <1>2 DEF NextInPlan, MissionOf, InPlan

(* A handler comes to an approval by claiming a mission that waits for one, *)
(* and to an outcome by stopping.                                          *)
LEMMA ApprovalLanding ==
    ASSUME TypeOK, PositionsMatch, NEW w \in Workers, Moves(w), worker'[w].at \in Approving
    PROVE  \/ worker[w].at \in Approving /\ worker'[w].mission = worker[w].mission
           \/ /\ ResumePlannedClaim(w) \/ ResumeDirectClaim(w)
              /\ Claim(w) /\ Claimable(worker[w].mission, "AWAITING_APPROVAL")
              /\ worker'[w].mission = worker[w].mission
<1>1. ~Finish(w) /\ \A o, r : ~Stop(w, o, r)
  BY AfterFinish, AfterStop DEF Approving
<1>2. ~(UNCHANGED worker /\ At(w, "idle"))
  BY DEF At, Approving
<1>3. \A p, m, n, r, k : Take(w, p, m, n, r, k) => p \in Approving
  BY AfterTake
<1>4. \A p : Goto(w, p) => p \in Approving /\ worker'[w].mission = worker[w].mission
  BY AfterGoto
<1>5. {"step", "gate", "call"} \cap Approving = {} /\ Claiming \cap Approving = {}
  BY DEF Approving, Claiming
<1>6. CASE Arrive(w)
  BY <1>2, <1>3, <1>5, <1>6 DEF Arrive, Start, PlanFails, Read
<1>7. CASE ResumeBlockedClaim(w)
  BY <1>1, <1>3, <1>5, <1>7 DEF ResumeBlockedClaim, NotClaimed
<1>8. CASE ResumePlannedClaim(w) \/ ResumeDirectClaim(w)
  BY <1>1, <1>4, <1>8 DEF ResumePlannedClaim, ResumeDirectClaim, NotClaimed, MissionOf
<1>9. CASE NextStep(w) \/ Gate(w) \/ Call(w)
  BY <1>1, <1>3, <1>4, <1>5, <1>9 DEF NextStep, Gap, Gate, Call, Advance
<1>10. CASE ApprovedCall(w) \/ Persist(w) \/ HandlerRaises(w)
  BY <1>1, <1>3, <1>5, <1>10 DEF ApprovedCall, Advance, Persist, HandlerRaises
<1>11. CASE ApprovalCheck(w) \/ ApprovedGate(w)
  <2>1. worker[w].at \in Approving
    BY <1>11 DEF ApprovalCheck, ApprovedGate, At, Approving
  <2>2. \E p : Goto(w, p)
    BY <1>1, <1>11 DEF ApprovalCheck, ApprovedGate
  <2>3. QED
    BY <1>4, <2>1, <2>2
<1>12. QED
  BY <1>6, <1>7, <1>8, <1>9, <1>10, <1>11 DEF Moves, Proceed

(* What a handler has to save is one of the stops, and goes with its place *)
(* in the plan and its request.                                            *)
LEMMA OutcomeLanding ==
    ASSUME TypeOK, PositionsMatch, NextInPlan, NEW w \in Workers, Moves(w), At(w, "persist")'
    PROVE  /\ worker'[w].outcome \in Stops
           /\ worker'[w].outcome = "AWAITING_APPROVAL" => worker'[w].request \in Requests
           /\ worker'[w].outcome = "COMPLETED" => worker'[w].next > Length[worker'[w].mission]
<1>1. ~Finish(w) /\ ~(UNCHANGED worker /\ At(w, "idle"))
  BY AfterFinish DEF At
<1>2. \A p, m, n, r, k : Take(w, p, m, n, r, k) => p = "persist"
  BY AfterTake DEF At
<1>3. \A p : Goto(w, p) => p = "persist"
  BY AfterGoto DEF At
<1>4. \A o, r : Stop(w, o, r) => /\ worker'[w].outcome = o /\ worker'[w].request = r
                                 /\ worker'[w].next = worker[w].next
                                 /\ worker'[w].mission = worker[w].mission
  BY AfterStop
<1>5. {"BLOCKED", "FAILED", "REFUSED", "APPROVAL_REQUIRED", "AWAITING_APPROVAL", "COMPLETED"}
         = Stops
  BY DEF Stops, Final
<1>6. CASE Arrive(w)
  BY <1>1, <1>2, <1>6 DEF Arrive, Start, PlanFails, Read, Claiming
<1>7. CASE ResumeBlockedClaim(w) \/ ResumePlannedClaim(w) \/ ResumeDirectClaim(w)
  BY <1>1, <1>2, <1>3, <1>7 DEF ResumeBlockedClaim, ResumePlannedClaim, ResumeDirectClaim,
                                NotClaimed
<1>8. CASE NextStep(w)
  <2>1. ASSUME Stop(w, "COMPLETED", NoRequest), worker[w].next \notin StepsOf(worker[w].mission)
        PROVE  worker[w].next > Length[worker[w].mission]
    <3>1. worker[w].mission \in Missions
      BY <1>8, HandlerFields DEF NextStep, At
    <3>2. worker[w].next \in 1..(Length[worker[w].mission] + 1)
      BY <1>8 DEF NextStep, At, NextInPlan, InPlan, MissionOf
    <3>3. Length[worker[w].mission] \in Nat
      BY <3>1
    <3>4. QED
      BY <2>1, <3>2, <3>3 DEF StepsOf
  <2>2. \/ /\ Stop(w, "COMPLETED", NoRequest)
           /\ worker[w].next \notin StepsOf(worker[w].mission)
        \/ Stop(w, "BLOCKED", NoRequest)
    BY <1>1, <1>3, <1>8 DEF NextStep, Gap, MissionOf
  <2>3. QED
    BY <1>4, <1>5, <2>1, <2>2
<1>9. CASE Gate(w)
  <2>1. \/ Stop(w, "BLOCKED", NoRequest) \/ Stop(w, "REFUSED", NoRequest)
        \/ \E r \in Requests : Stop(w, "AWAITING_APPROVAL", r)
    BY <1>3, <1>9 DEF Gate
  <2>2. QED
    BY <1>4, <1>5, <2>1
<1>10. CASE Call(w) \/ ApprovedCall(w)
  <2>1. \E r : Stop(w, "FAILED", r)
    BY <1>2, <1>10 DEF Call, ApprovedCall, Advance
  <2>2. QED
    BY <1>4, <1>5, <2>1
<1>11. CASE ApprovalCheck(w) \/ ApprovedGate(w)
  <2>1. worker[w].request \in MaybeRequest
    BY <1>11, HandlerFields DEF ApprovalCheck, ApprovedGate, At
  <2>2. \E o \in {"FAILED", "AWAITING_APPROVAL", "APPROVAL_REQUIRED", "BLOCKED", "REFUSED"} :
           /\ Stop(w, o, worker[w].request)
           /\ o = "AWAITING_APPROVAL" => worker[w].request # NoRequest
    BY <1>1, <1>3, <1>11 DEF ApprovalCheck, ApprovedGate
  <2>3. QED
    BY <1>4, <1>5, <2>1, <2>2 DEF MaybeRequest
<1>12. CASE Persist(w) \/ HandlerRaises(w)
  BY <1>1, <1>12 DEF Persist, HandlerRaises
<1>13. QED
  BY <1>6, <1>7, <1>8, <1>9, <1>10, <1>11, <1>12 DEF Moves, Proceed

(* A mission waits for its approval with the request saved.                *)
LEMMA RequestStep ==
    ASSUME TypeOK, PositionsMatch, OneRunner, NextInPlan, RequestsAreSaved, [Next]_vars
    PROVE  RequestsAreSaved'
<1>1. ASSUME NEW m \in Missions, missions'[m].status = "AWAITING_APPROVAL"
      PROVE  missions'[m].request \in Requests
  <2>1. ASSUME NEW w \in Workers, Persist(w), worker[w].outcome = "AWAITING_APPROVAL"
        PROVE  worker[w].request \in Requests
    BY <2>1 DEF Persist, RequestsAreSaved
  <2>2. QED
    BY <1>1, <2>1, MissionMoves DEF RequestsAreSaved
<1>2. ASSUME NEW v \in Workers, worker'[v].at \in Approving
      PROVE  /\ missions'[worker'[v].mission].status = "RESUMING"
             /\ missions'[worker'[v].mission].request \in Requests
  <2>1. ASSUME worker[v].at \in Approving, worker'[v].mission = worker[v].mission
        PROVE  /\ missions'[worker'[v].mission].status = "RESUMING"
               /\ missions'[worker'[v].mission].request \in Requests
    <3>1. Running(v) /\ ~Persist(v)
      BY <2>1 DEF Running, Run, Approving, Persist, At
    <3>2. QED
      BY <2>1, <3>1, RunnerHolds DEF RequestsAreSaved, MissionOf
  <2>2. ASSUME Claim(v), Claimable(worker[v].mission, "AWAITING_APPROVAL"),
               worker'[v].mission = worker[v].mission, worker[v].mission \in Missions
        PROVE  /\ missions'[worker'[v].mission].status = "RESUMING"
               /\ missions'[worker'[v].mission].request \in Requests
    BY <2>2 DEF Claim, Claimable, MissionOf, RequestsAreSaved, TypeOK, MissionRecord
  <2>3. CASE Moves(v)
    <3>1. ResumePlannedClaim(v) \/ ResumeDirectClaim(v) => worker[v].mission \in Missions
      BY HandlerFields DEF ResumePlannedClaim, ResumeDirectClaim, At
    <3>2. QED
      BY <1>2, <2>1, <2>2, <2>3, <3>1, ApprovalLanding
  <2>4. CASE ~Moves(v)
    <3>1. worker'[v] = worker[v]
      BY <1>2, <2>4, OthersStay, EnvironmentMoves DEF Approving
    <3>2. QED
      BY <1>2, <2>1, <3>1
  <2>5. QED
    BY <2>3, <2>4
<1>3. ASSUME NEW v \in Workers, At(v, "persist")'
      PROVE  /\ worker'[v].outcome \in Stops
             /\ worker'[v].outcome = "AWAITING_APPROVAL" => worker'[v].request \in Requests
             /\ worker'[v].outcome = "COMPLETED" => worker'[v].next > Length[worker'[v].mission]
  <2>1. CASE Moves(v)
    BY <1>3, <2>1, OutcomeLanding
  <2>2. CASE ~Moves(v)
    <3>1. worker'[v] = worker[v]
      BY <1>3, <2>2, OthersStay, EnvironmentMoves DEF At
    <3>2. QED
      BY <1>3, <3>1 DEF RequestsAreSaved, At, MissionOf
  <2>3. QED
    BY <2>1, <2>2
<1>4. QED
  BY <1>1, <1>2, <1>3 DEF RequestsAreSaved, MissionOf

(* A mission is saved as completed by a handler past the end of its plan,  *)
(* and the steps before it have run.                                       *)
LEMMA CompletionStep ==
    ASSUME TypeOK, PositionsMatch, SnapshotsMatch, RequestsAreSaved, NoStepIsSkipped,
           [Next]_vars, NEW m \in Missions, missions'[m].status = "COMPLETED",
           NEW n \in StepsOf(m)
    PROVE  runs'[<<m, n>>] > 0
<1>1. <<m, n>> \in Steps
  BY StepIsPair
<1>2. CASE missions[m].status = "COMPLETED"
  <2>1. runs[<<m, n>>] > 0
    BY <1>2 DEF NoStepIsSkipped
  <2>2. QED
    BY <1>1, <2>1, RunsStand
<1>3. CASE missions[m].status # "COMPLETED"
  <2>1. PICK w \in Workers : /\ Persist(w) /\ worker[w].mission = m
                             /\ worker[w].outcome = "COMPLETED"
    BY <1>3, MissionMoves
  <2>2. At(w, "persist") /\ ~At(w, "idle")
    BY <2>1 DEF Persist, At
  <2>3. worker[w].next > Length[m] /\ RanBefore(m, worker[w].next)
    BY <2>1, <2>2 DEF RequestsAreSaved, SnapshotsMatch, MissionOf
  <2>4. n \in 1..(worker[w].next - 1)
    <3>1. worker[w].next \in Nat /\ Length[m] \in Nat
      BY <2>2, HandlerFields
    <3>2. QED
      BY <2>3, <3>1 DEF StepsOf
  <2>5. runs[<<m, n>>] > 0
    BY <2>3, <2>4 DEF RanBefore
  <2>6. QED
    BY <1>1, <2>5, RunsStand
<1>4. QED
  BY <1>2, <1>3

(* No step is skipped, and none is missing at the end. *)
LEMMA SkipStep ==
    ASSUME TypeOK, PositionsMatch, SnapshotsMatch, RequestsAreSaved, NoStepIsSkipped, [Next]_vars
    PROVE  NoStepIsSkipped'
BY OrderStep, CompletionStep DEF NoStepIsSkipped, StepsOf

(* A handler that gives up its mission without a failing store call or a   *)
(* restart has saved it, or was at its approval.                           *)
LEMMA RunnerLeaves ==
    ASSUME TypeOK, PositionsMatch, [Next]_vars, faults' = 0, restarts' = 0,
           NEW v \in Workers, Running(v), ~(Running(v)' /\ worker'[v].mission = worker[v].mission)
    PROVE  Persist(v) \/ ApprovalCheck(v)
<1>1. faults \in Nat /\ restarts \in Nat
  BY DEF TypeOK
<1>2. \A w \in Workers : ~HandlerRaises(w)
  BY <1>1 DEF HandlerRaises
<1>3. \A i \in Instances : ~Restart(i)
  BY <1>1 DEF Restart
<1>4. Moves(v)
  <2>1. CASE \E w \in Workers : Moves(w)
    BY <2>1, OthersStay DEF Running
  <2>2. CASE ~\E w \in Workers : Moves(w)
    BY <1>3, <2>2 DEF Next, Moves, Decide, ChangeRegistry, SetKillSwitch, vars, Running
  <2>3. QED
    BY <2>1, <2>2
<1>5. ~Arrive(v) /\ ~ResumeBlockedClaim(v) /\ ~ResumePlannedClaim(v) /\ ~ResumeDirectClaim(v)
  BY DEF Arrive, Start, PlanFails, Read, ResumeBlockedClaim, ResumePlannedClaim,
         ResumeDirectClaim, At, Running, Run
<1>6. \A p \in Run : ~Goto(v, p)
  BY AfterGoto DEF Running
<1>7. \A o, r : ~Stop(v, o, r)
  BY AfterStop DEF Running, Run
<1>8. ~Advance(v)
  BY AfterTake DEF Advance, Running, Run, MissionOf
<1>9. ~NextStep(v) /\ ~Gate(v) /\ ~ApprovedGate(v)
  BY <1>6, <1>7 DEF NextStep, Gap, Gate, ApprovedGate, Run
<1>10. ~Call(v) /\ ~ApprovedCall(v)
  BY <1>7, <1>8 DEF Call, ApprovedCall
<1>11. QED
  BY <1>2, <1>4, <1>5, <1>9, <1>10 DEF Moves, Proceed

(* Only an approval strands a mission: at its claim, or at its check.      *)
LEMMA StrandStep ==
    ASSUME TypeOK, PositionsMatch, OneRunner, RequestsAreSaved, OnlyApprovalsStrand, [Next]_vars
    PROVE  OnlyApprovalsStrand'
<1> SUFFICES ASSUME faults' = 0, restarts' = 0, NEW m \in Missions, Stranded(m)'
             PROVE  missions'[m].status = "RESUMING" /\ missions'[m].request \in Requests
  BY DEF OnlyApprovalsStrand
<1>1. faults = 0 /\ restarts = 0
  <2>1. \/ UNCHANGED <<faults, restarts>> \/ faults' = faults + 1 \/ restarts' = restarts + 1
    <3>1. \/ \E w \in Workers : Arrive(w) \/ Proceed(w)
          \/ (\E w \in Workers : HandlerRaises(w)) \/ (\E i \in Instances : Restart(i))
          \/ UNCHANGED <<faults, restarts>>
      BY DEF Next, Decide, ChangeRegistry, SetKillSwitch, bounds, vars
    <3>2. ASSUME NEW w \in Workers, Arrive(w) PROVE UNCHANGED <<faults, restarts>>
      BY <3>2 DEF Arrive, Start, PlanFails, Read, ResumeBlockedClaim, ResumePlannedClaim,
                  ResumeDirectClaim, bounds
    <3>3. ASSUME NEW w \in Workers, Proceed(w) PROVE UNCHANGED <<faults, restarts>>
      BY <3>3 DEF Proceed, ResumeBlockedClaim, ResumePlannedClaim, ResumeDirectClaim, NextStep,
                  Gate, Call, ApprovalCheck, ApprovedGate, ApprovedCall, Persist, bounds
    <3>4. QED
      BY <3>1, <3>2, <3>3 DEF HandlerRaises, Restart
  <2>2. QED
    BY <2>1 DEF TypeOK
<1>2. /\ missions'[m].status \in {"UNSAVED", "RESUMING"}
      /\ \A w \in Workers : Running(w)' => worker'[w].mission # m
  BY DEF Stranded, MissionOf
<1>3. CASE missions'[m] = missions[m]
  <2>1. CASE Stranded(m)
    BY <1>1, <1>3, <2>1 DEF OnlyApprovalsStrand
  <2>2. CASE ~Stranded(m)
    <3>1. PICK v \in Workers : Running(v) /\ worker[v].mission = m
      BY <1>2, <1>3, <2>2 DEF Stranded, MissionOf
    <3>2. Persist(v) \/ ApprovalCheck(v)
      BY <1>2, <3>1, RunnerLeaves
    <3>3. ~Persist(v)
      <4>1. ASSUME Persist(v) PROVE FALSE
        <5>1. missions'[m].status = worker[v].outcome
          BY <3>1, <4>1 DEF Persist, Mission, TypeOK
        <5>2. worker[v].outcome \in Stops
          BY <4>1 DEF Persist, RequestsAreSaved
        <5>3. QED
          BY <1>2, <5>1, <5>2 DEF Stops, Final
      <4>2. QED
        BY <4>1
    <3>4. worker[v].at \in Approving
      BY <3>2, <3>3 DEF ApprovalCheck, At, Approving
    <3>5. QED
      BY <1>3, <3>1, <3>4 DEF RequestsAreSaved, MissionOf
  <2>3. QED
    BY <2>1, <2>2
<1>4. ASSUME NEW w \in Workers, Start(w, m) PROVE FALSE
  <2>1. worker'[w].at = "step" /\ worker'[w].mission = m
    BY <1>4, AfterTake DEF Start
  <2>2. QED
    BY <1>2, <2>1 DEF Running, Run
<1>5. ASSUME NEW w \in Workers, worker[w].mission = m, Claim(w),
             ResumeBlockedClaim(w) \/ ResumePlannedClaim(w) \/ ResumeDirectClaim(w),
             missions'[m].request = missions[m].request, missions'[m].status = "RESUMING"
      PROVE  missions'[m].status = "RESUMING" /\ missions'[m].request \in Requests
  <2>1. missions[m].status # "RESUMING" \/ missions'[m] = missions[m]
    BY <1>5 DEF Claim, MissionOf, TypeOK, MissionRecord
  <2>2. CASE Claimable(m, "AWAITING_APPROVAL")
    BY <1>5, <2>2 DEF Claimable, RequestsAreSaved
  <2>3. CASE ResumeBlockedClaim(w) /\ Claimable(m, "BLOCKED")
    <3>1. \E k : Take(w, "step", m, worker[w].next, NoRequest, k)
      BY <1>5, <2>3 DEF ResumeBlockedClaim, NotClaimed, ResumeFrom, MissionOf
    <3>2. worker'[w].at = "step" /\ worker'[w].mission = m
      BY <3>1, AfterTake
    <3>3. QED
      BY <1>2, <3>2 DEF Running, Run
  <2>4. CASE UNCHANGED missions
    BY <1>3, <2>4
  <2>5. QED
    BY <1>5, <2>2, <2>3, <2>4
       DEF ResumeBlockedClaim, ResumePlannedClaim, ResumeDirectClaim, NotClaimed, MissionOf
<1>6. ASSUME NEW w \in Workers, Persist(w), missions'[m].status = worker[w].outcome PROVE FALSE
  <2>1. worker[w].outcome \in Stops
    BY <1>6 DEF Persist, RequestsAreSaved
  <2>2. QED
    BY <1>2, <1>6, <2>1 DEF Stops, Final
<1>7. missions'[m].status # "FAILED"
  BY <1>2
<1>8. QED
  BY <1>3, <1>4, <1>5, <1>6, <1>7, MissionMoves

-----------------------------------------------------------------------------
(* Late calls, and missions of one call *)

(* A handler is let through to a call only with the switch off, so the     *)
(* call it makes after the switch was set is its last.                     *)
LEMMA SwitchStep ==
    ASSUME TypeOK, PositionsMatch, LateCallsCounted, SwitchStopsAfterOneCall, [Next]_vars
    PROVE  LateCallsCounted' /\ SwitchStopsAfterOneCall'
<1>1. CASE SetKillSwitch
  BY <1>1 DEF SetKillSwitch, LateCallsCounted, SwitchStopsAfterOneCall
<1>2. CASE ~SetKillSwitch /\ ~\E w \in Workers : Moves(w)
  <2>1. UNCHANGED <<killSwitch, late>>
    BY <1>2 DEF Next, Moves, Decide, ChangeRegistry, Restart, effects, vars
  <2>2. QED
    BY <1>2, <2>1, EnvironmentMoves DEF LateCallsCounted, SwitchStopsAfterOneCall
<1>3. ASSUME NEW w \in Workers, Moves(w)
      PROVE  LateCallsCounted' /\ SwitchStopsAfterOneCall'
  <2>1. UNCHANGED killSwitch /\ \A v \in Workers : v # w => worker'[v] = worker[v]
    BY <1>3, OthersStay
       DEF Moves, Arrive, Proceed, HandlerRaises, Start, PlanFails, Read, ResumeBlockedClaim,
           ResumePlannedClaim, ResumeDirectClaim, NextStep, Gate, Call, ApprovalCheck,
           ApprovedGate, ApprovedCall, Persist
  <2>2. ASSUME UNCHANGED late, worker'[w].at \in {"call", "approvedCall"} => ~killSwitch
        PROVE  LateCallsCounted' /\ SwitchStopsAfterOneCall'
    BY <2>1, <2>2 DEF LateCallsCounted, SwitchStopsAfterOneCall
  <2>3. ASSUME worker[w].at \in {"call", "approvedCall"}, CallTool(w),
               worker'[w].at \notin {"call", "approvedCall"}
        PROVE  LateCallsCounted' /\ SwitchStopsAfterOneCall'
    <3>1. killSwitch => late[w] = 0
      BY <2>3 DEF LateCallsCounted
    <3>2. \A v \in Workers : v # w => late'[v] = late[v]
      BY <2>3 DEF CallTool, TypeOK
    <3>3. late'[w] <= 1
      BY <2>3, <3>1 DEF CallTool, Capped, TypeOK, SwitchStopsAfterOneCall
    <3>4. QED
      BY <2>1, <2>3, <3>2, <3>3 DEF LateCallsCounted, SwitchStopsAfterOneCall
  <2>4. CASE Gate(w) \/ ApprovedGate(w)
    <3>1. worker'[w].at \in {"call", "approvedCall"} => ~killSwitch
      BY <2>4, AfterStop DEF Gate, ApprovedGate, SwitchOff
    <3>2. QED
      BY <2>2, <2>4, <3>1 DEF Gate, ApprovedGate, effects
  <2>5. CASE Call(w) \/ ApprovedCall(w)
    <3>1. worker'[w].at \notin {"call", "approvedCall"}
      BY <2>5, AfterStop, AfterTake DEF Call, ApprovedCall, Advance
    <3>2. QED
      BY <2>3, <2>5, <3>1 DEF Call, ApprovedCall, At
  <2>6. CASE HandlerRaises(w)
    <3>1. worker'[w].at \notin {"call", "approvedCall"}
      BY <2>6, AfterFinish DEF HandlerRaises
    <3>2. QED
      BY <2>2, <2>3, <2>6, <3>1 DEF HandlerRaises, effects
  <2>7. CASE Arrive(w)
    <3>1. worker'[w].at \notin {"call", "approvedCall"}
      BY <2>7, AfterTake DEF Arrive, Start, PlanFails, Read, Claiming, At
    <3>2. QED
      BY <2>2, <2>7, <3>1 DEF Arrive, Start, PlanFails, Read, effects
  <2>8. CASE \/ ResumeBlockedClaim(w) \/ ResumePlannedClaim(w) \/ ResumeDirectClaim(w)
             \/ NextStep(w) \/ ApprovalCheck(w) \/ Persist(w)
    <3>1. worker'[w].at \notin {"call", "approvedCall"}
      BY <2>8, AfterTake, AfterStop, AfterGoto, AfterFinish
         DEF ResumeBlockedClaim, ResumePlannedClaim, ResumeDirectClaim, NotClaimed, NextStep,
             Gap, ApprovalCheck, Persist
    <3>2. QED
      BY <2>2, <2>8, <3>1
         DEF ResumeBlockedClaim, ResumePlannedClaim, ResumeDirectClaim, NextStep,
             ApprovalCheck, Persist, effects
  <2>9. QED
    BY <1>3, <2>4, <2>5, <2>6, <2>7, <2>8 DEF Moves, Proceed
<1>4. QED
  BY <1>1, <1>2, <1>3

Done(m) == missions[m].status \in Final \cup {"UNSAVED", "RESUMING"}

(* The one call of a direct mission is made before any other and is        *)
(* followed by the end of the mission.                                     *)
LEMMA DirectCall ==
    ASSUME TypeOK, PositionsMatch, OneRunner, DirectCallsAreLast, DirectRunsOnce, [Next]_vars,
           NEW m \in Direct, NEW w \in Workers, Moves(w), worker[w].mission = m,
           worker[w].at \in {"call", "approvedCall"}, CallTool(w)
    PROVE  /\ runs'[<<m, 1>>] <= 1
           /\ Done(m)'
           /\ \A v \in Workers : (Running(v) /\ MissionOf(v) = m)' => PastTheCall(v)'
<1>1. StepOf(w) = <<m, 1>> /\ StepOf(w) \in Steps /\ worker[w].next = 1
  <2>1. StepOf(w) \in Steps
    BY DEF PositionsMatch, Stepping
  <2>2. worker[w].next \in StepsOf(m)
    BY <2>1, StepIsPair DEF StepOf
  <2>3. QED
    BY <2>1, <2>2 DEF StepOf, StepsOf
<1>2. Running(w) /\ MissionOf(w) = m
  BY DEF Running, Run, MissionOf
<1>3. runs[<<m, 1>>] = 0
  <2>1. ~PastTheCall(w)
    BY DEF PastTheCall, At
  <2>2. ~(runs[<<m, 1>>] > 0)
    BY <1>2, <2>1 DEF DirectCallsAreLast
  <2>3. QED
    BY <1>1, <2>2 DEF TypeOK
<1>4. runs'[<<m, 1>>] <= 1
  BY <1>1, <1>3 DEF CallTool, Capped, TypeOK
<1>5. UNCHANGED missions /\ (Call(w) \/ ApprovedCall(w) \/ HandlerRaises(w))
  BY DEF Moves, Arrive, Proceed, Start, PlanFails, Read, ResumeBlockedClaim, ResumePlannedClaim,
         ResumeDirectClaim, NextStep, Gate, Call, ApprovalCheck, ApprovedGate, ApprovedCall,
         Persist, HandlerRaises, At, store
<1>6. Done(m)'
  BY <1>2, <1>5 DEF OneRunner, Done, MissionOf
<1>7. ASSUME NEW v \in Workers, Running(v)', MissionOf(v)' = m PROVE PastTheCall(v)'
  <2>1. CASE v # w
    <3>1. worker'[v] = worker[v]
      BY <2>1, OthersStay
    <3>2. QED
      BY <1>2, <1>7, <2>1, <3>1 DEF OneRunner, Running, MissionOf
  <2>2. CASE v = w
    <3>1. ~Finish(w)
      BY <1>7, <2>2, AfterFinish DEF Running, Run
    <3>2. Advance(w) \/ (\E r : Stop(w, "FAILED", r))
      BY <1>5, <3>1 DEF Call, ApprovedCall, HandlerRaises
    <3>3. CASE Advance(w)
      BY <1>1, <2>2, <3>3, AfterTake DEF Advance, PastTheCall, At
    <3>4. CASE \E r : Stop(w, "FAILED", r)
      BY <2>2, <3>4, AfterStop DEF PastTheCall, At, Final
    <3>5. QED
      BY <3>2, <3>3, <3>4
  <2>3. QED
    BY <2>1, <2>2
<1>8. QED
  BY <1>4, <1>6, <1>7

(* A mission that has made its one call changes only by ending. *)
LEMMA DirectEnd ==
    ASSUME TypeOK, PositionsMatch, OneRunner, DirectCallsAreLast, [Next]_vars,
           NEW m \in Direct, runs[<<m, 1>>] > 0
    PROVE  /\ Done(m)'
           /\ \A v \in Workers : (Running(v) /\ MissionOf(v) = m)' => PastTheCall(v)'
<1>1. /\ m \in Missions /\ Done(m)
      /\ \A v \in Workers : Running(v) /\ MissionOf(v) = m => PastTheCall(v)
  BY DEF DirectCallsAreLast, Done
<1>2. ~Claimable(m, "BLOCKED") /\ ~Claimable(m, "AWAITING_APPROVAL")
      /\ missions[m].status # "ABSENT"
  BY <1>1 DEF Done, Final, Claimable
<1>3. ASSUME NEW w \in Workers, Persist(w) PROVE Done(m)'
  <2>1. CASE worker[w].mission = m
    <3>1. worker[w].outcome \in Final
      BY <1>1, <1>3, <2>1 DEF Persist, At, Running, Run, MissionOf, PastTheCall
    <3>2. missions'[m].status = worker[w].outcome
      BY <1>1, <1>3, <2>1 DEF Persist, Mission, TypeOK
    <3>3. QED
      BY <3>1, <3>2 DEF Done
  <2>2. CASE worker[w].mission # m
    BY <1>1, <1>3, <2>2 DEF Persist, Done, TypeOK
  <2>3. QED
    BY <2>1, <2>2
<1>4. ASSUME NEW w \in Workers, Moves(w), ~Persist(w) PROVE missions'[m] = missions[m]
  <2>1. CASE \E n \in Missions : Start(w, n) \/ PlanFails(w, n)
    BY <1>1, <1>2, <2>1 DEF Start, PlanFails, TypeOK
  <2>2. CASE ResumeBlockedClaim(w) \/ ResumePlannedClaim(w) \/ ResumeDirectClaim(w)
    BY <1>1, <1>2, <2>2 DEF ResumeBlockedClaim, ResumePlannedClaim, ResumeDirectClaim,
                            NotClaimed, Claim, MissionOf, TypeOK
  <2>3. QED
    BY <1>4, <2>1, <2>2
       DEF Moves, Arrive, Proceed, HandlerRaises, Read, NextStep, Gate, Call, ApprovalCheck,
           ApprovedGate, ApprovedCall, store
<1>5. Done(m)'
  <2>1. CASE \E w \in Workers : Moves(w)
    BY <1>1, <1>3, <1>4, <2>1 DEF Done
  <2>2. QED
    BY <1>1, <2>1, EnvironmentMoves DEF Done
<1>6. ASSUME NEW v \in Workers, Running(v)', MissionOf(v)' = m PROVE PastTheCall(v)'
  <2>1. CASE ~Moves(v)
    <3>1. worker'[v] = worker[v]
      BY <1>6, <2>1, OthersStay, EnvironmentMoves DEF Running, Run
    <3>2. QED
      BY <1>1, <1>6, <3>1 DEF Running, MissionOf, PastTheCall, At
  <2>2. CASE Arrive(v)
    <3>1. ASSUME NEW n \in Missions, Start(v, n) PROVE FALSE
      BY <1>2, <1>6, <3>1, AfterTake DEF Start, MissionOf
    <3>2. ASSUME NEW n \in Missions, PlanFails(v, n) PROVE FALSE
      BY <1>6, <3>2 DEF PlanFails, At, Running, Run
    <3>3. ASSUME NEW n \in Missions, NEW route \in Claiming, Read(v, n, route) PROVE FALSE
      BY <1>6, <3>3, AfterTake DEF Read, Running, Run, Claiming
    <3>4. QED
      BY <2>2, <3>1, <3>2, <3>3 DEF Arrive
  <2>3. CASE Proceed(v) \/ HandlerRaises(v)
    <3>1. MissionOf(v) = m /\ ~Finish(v)
      BY <1>6, <2>3, SameMission, AfterFinish DEF MissionOf, Running, Run
    <3>2. ~(ResumeBlockedClaim(v) \/ ResumePlannedClaim(v) \/ ResumeDirectClaim(v))
      BY <1>2, <3>1 DEF ResumeBlockedClaim, ResumePlannedClaim, ResumeDirectClaim, NotClaimed,
                        MissionOf
    <3>3. Running(v)
      BY <2>3, <3>1, <3>2 DEF Proceed, HandlerRaises, NextStep, Gate, Call, ApprovalCheck,
                              ApprovedGate, ApprovedCall, Persist, At, Running, Run
    <3>4. PastTheCall(v) /\ worker[v].next \in Nat
      BY <1>1, <3>1, <3>3, HandlerFields DEF Running, Run, At
    <3>5. NextStep(v) /\ worker[v].next > 1
      BY <2>3, <3>1, <3>2, <3>4
         DEF PastTheCall, Proceed, HandlerRaises, NextStep, Gate, Call, ApprovalCheck,
             ApprovedGate, ApprovedCall, Persist, At
    <3>6. worker[v].next \notin StepsOf(m)
      BY <1>1, <3>4, <3>5 DEF StepsOf
    <3>7. Stop(v, "COMPLETED", NoRequest)
      BY <3>1, <3>5, <3>6 DEF NextStep
    <3>8. QED
      BY <3>7, AfterStop DEF PastTheCall, At, Final
  <2>4. QED
    BY <2>1, <2>2, <2>3 DEF Moves
<1>7. QED
  BY <1>5, <1>6

(* The tool of a direct mission is called once, and nothing of the mission *)
(* can be claimed afterwards.                                              *)
LEMMA DirectStep ==
    ASSUME TypeOK, PositionsMatch, OneRunner, DirectCallsAreLast, DirectRunsOnce, [Next]_vars
    PROVE  DirectCallsAreLast' /\ DirectRunsOnce'
<1>1. ASSUME NEW m \in Direct
      PROVE  /\ runs'[<<m, 1>>] <= 1
             /\ runs'[<<m, 1>>] > 0 =>
                   /\ Done(m)'
                   /\ \A v \in Workers : (Running(v) /\ MissionOf(v) = m)' => PastTheCall(v)'
  <2>1. <<m, 1>> \in Steps
    BY StepIsPair DEF StepsOf
  <2>2. CASE runs'[<<m, 1>>] = runs[<<m, 1>>]
    BY <2>2, DirectEnd DEF DirectRunsOnce
  <2>3. CASE runs'[<<m, 1>>] # runs[<<m, 1>>]
    <3>1. PICK w \in Workers : /\ Moves(w)
                               /\ worker[w].at \in {"call", "approvedCall"}
                               /\ CallTool(w)
      BY <2>3, CallsAreLetThrough
    <3>2. StepOf(w) \in Steps
      BY <3>1 DEF PositionsMatch, Stepping
    <3>3. StepOf(w) = <<m, 1>>
      BY <2>1, <2>3, <3>1, <3>2, CallCounts
    <3>4. worker[w].mission = m
      BY <3>3 DEF StepOf
    <3>5. QED
      BY <3>1, <3>4, DirectCall
  <2>4. QED
    BY <2>2, <2>3
<1>2. QED
  BY <1>1 DEF DirectCallsAreLast, DirectRunsOnce, Done

-----------------------------------------------------------------------------
(* The theorems *)

(* Nothing has been started, asked or called at the outset. *)
LEMMA InitialInvariant == Init => MissionInv
<1> SUFFICES ASSUME Init PROVE MissionInv
  OBVIOUS
<1>1. \A w \in Workers : worker[w] = Idle /\ worker[w].at = "idle" /\ late[w] = 0
  BY DEF Init, Idle, Handler
<1>2. TypeOK
  <2>1. \A m \in Missions : Mission("ABSENT", 1, NoRequest, Named[m]) \in MissionRecord
    BY Vocabulary DEF Mission, MissionRecord, MaybeRequest, Status
  <2>2. Idle \in Worker
    BY DEF Idle, Handler, Worker, Points, MaybeRequest, Status
  <2>3. QED
    <3>1. missions \in [Missions -> MissionRecord] /\ worker \in [Workers -> Worker]
      BY <2>1, <2>2 DEF Init
    <3>2. askedFor \in [Requests -> Steps \cup {NoStep}] /\ runs \in [Steps -> 0..2]
      BY DEF Init
    <3>3. approvals \in [Requests -> {"ABSENT", "PENDING", "APPROVED", "REJECTED"}]
      BY DEF Init
    <3>4. late \in [Workers -> 0..2] /\ tools \in [Instances -> SUBSET Tools]
      BY DEF Init
    <3>5. /\ killSwitch \in BOOLEAN /\ overlapped \in SUBSET Missions
          /\ faults \in Nat /\ restarts \in Nat /\ changes \in Nat
      BY DEF Init
    <3>6. QED
      BY <3>1, <3>2, <3>3, <3>4, <3>5 DEF TypeOK
<1>3. PositionsMatch
  BY <1>1 DEF PositionsMatch, At, Stepping
<1>4. FreshRequests
  BY DEF Init, FreshRequests
<1>5. SnapshotsMatch
  BY <1>1 DEF Init, SnapshotsMatch, Mission, RequestMatches, RanBefore, At
<1>6. OneRunner /\ ApprovalIsForThisStep
  BY <1>1 DEF OneRunner, ApprovalIsForThisStep, Running, Run
<1>7. NoStepIsSkipped /\ DirectCallsAreLast /\ DirectRunsOnce
  <2>1. ASSUME NEW m \in Direct PROVE runs[<<m, 1>>] = 0
    <3>1. m \in Missions /\ 1 \in StepsOf(m)
      BY DEF StepsOf
    <3>2. <<m, 1>> \in Steps
      BY <3>1, StepIsPair
    <3>3. QED
      BY <3>2 DEF Init
  <2>2. \A x \in Steps : runs[x] = 0
    BY DEF Init
  <2>3. QED
    BY <2>1, <2>2 DEF NoStepIsSkipped, DirectCallsAreLast, DirectRunsOnce, Init, Mission
<1>8. LateCallsCounted /\ SwitchStopsAfterOneCall
  BY <1>1 DEF LateCallsCounted, SwitchStopsAfterOneCall
<1>9. \A m \in Missions : missions[m] = Mission("ABSENT", 1, NoRequest, Named[m])
  BY DEF Init
<1>10. ASSUME NEW m \in Missions
       PROVE  missions[m].status = "ABSENT" /\ missions[m].next = 1
  <2>1. missions[m] = Mission("ABSENT", 1, NoRequest, Named[m])
    BY <1>9
  <2>2. QED
    BY <2>1 DEF Mission
<1>11. NextInPlan
  BY <1>1, <1>10 DEF NextInPlan, InPlan, At
<1>12. RequestsAreSaved
  BY <1>1, <1>10 DEF RequestsAreSaved, At, Approving
<1>13. OnlyApprovalsStrand
  BY <1>10 DEF OnlyApprovalsStrand, Stranded
<1>14. QED
  BY <1>2, <1>3, <1>4, <1>5, <1>6, <1>7, <1>8, <1>11, <1>12, <1>13 DEF MissionInv

(* Every step of the system preserves the invariant, conjunct by conjunct. *)
LEMMA InvariantStep == MissionInv /\ [Next]_vars => MissionInv'
<1> SUFFICES ASSUME MissionInv, [Next]_vars PROVE MissionInv'
  OBVIOUS
<1>1. /\ TypeOK /\ PositionsMatch /\ FreshRequests /\ SnapshotsMatch /\ OneRunner
      /\ NextInPlan /\ RequestsAreSaved /\ OnlyApprovalsStrand
      /\ ApprovalIsForThisStep /\ NoStepIsSkipped /\ LateCallsCounted
      /\ SwitchStopsAfterOneCall /\ DirectCallsAreLast /\ DirectRunsOnce
  BY DEF MissionInv
<1>2. TypeOK' /\ PositionsMatch' /\ FreshRequests' /\ SnapshotsMatch'
  BY <1>1, TypeStep, PositionStep, RequestsStand, SnapshotStep
<1>3. OneRunner' /\ ApprovalIsForThisStep' /\ NoStepIsSkipped'
  BY <1>1, RunnerStep, ApprovalStep, SkipStep
<1>4. /\ LateCallsCounted' /\ SwitchStopsAfterOneCall'
      /\ DirectCallsAreLast' /\ DirectRunsOnce'
  BY <1>1, SwitchStep, DirectStep
<1>5. NextInPlan' /\ RequestsAreSaved' /\ OnlyApprovalsStrand'
  BY <1>1, PlanStep, RequestStep, StrandStep
<1>6. QED
  BY <1>2, <1>3, <1>4, <1>5 DEF MissionInv

(* Whatever handlers, owners, failures and restarts do, the snapshots and  *)
(* saved missions agree with what was asked and what ran.                  *)
THEOREM Invariance == Spec => []MissionInv
BY InitialInvariant, InvariantStep, PTL DEF Spec

(* Every variable keeps its type: no handler saves or holds a mission of   *)
(* the wrong shape.                                                        *)
THEOREM TypeCorrect == Spec => []TypeOK
<1>1. MissionInv => TypeOK
  BY DEF MissionInv
<1>2. QED
  BY <1>1, Invariance, PTL

(* The claims of resume_blocked, resume_planned and resume leave at most   *)
(* one handler running a mission, on any number of instances.              *)
THEOREM SingleRunner == Spec => []OneRunner
<1>1. MissionInv => OneRunner
  BY DEF MissionInv
<1>2. QED
  BY <1>1, Invariance, PTL

(* A step that may write a finished mission would be made by its runner or *)
(* by a claim, and a finished mission has no runner and cannot be claimed. *)
LEMMA FinalStep ==
    ASSUME TypeOK, PositionsMatch, OneRunner, [Next]_vars,
           NEW m \in Missions, missions[m].status \in Final
    PROVE  missions'[m].status = missions[m].status
<1>1. /\ ~Claimable(m, "BLOCKED") /\ ~Claimable(m, "AWAITING_APPROVAL")
      /\ missions[m].status \notin {"ABSENT", "UNSAVED", "RESUMING"}
  BY DEF Final, Claimable
<1>2. ASSUME NEW w \in Workers, Arrive(w) PROVE missions'[m].status = missions[m].status
  BY <1>1, <1>2 DEF Arrive, Start, PlanFails, Read, store, TypeOK
<1>3. ASSUME NEW w \in Workers, Persist(w) PROVE missions'[m].status = missions[m].status
  <2>1. Running(w)
    BY <1>3 DEF Persist, At, Running, Run
  <2>2. worker[w].mission # m
    BY <1>1, <2>1 DEF OneRunner, MissionOf
  <2>3. QED
    BY <1>3, <2>2 DEF Persist, TypeOK
<1>4. ASSUME NEW w \in Workers,
             ResumeBlockedClaim(w) \/ ResumePlannedClaim(w) \/ ResumeDirectClaim(w)
      PROVE  missions'[m].status = missions[m].status
  <2>1. \/ UNCHANGED missions
        \/ /\ Claim(w)
           /\ Claimable(worker[w].mission, "BLOCKED")
              \/ Claimable(worker[w].mission, "AWAITING_APPROVAL")
    BY <1>4 DEF ResumeBlockedClaim, ResumePlannedClaim, ResumeDirectClaim, NotClaimed, MissionOf
  <2>2. CASE Claim(w) /\ worker[w].mission # m
    BY <2>2 DEF Claim, MissionOf, TypeOK
  <2>3. QED
    BY <1>1, <2>1, <2>2
<1>5. ASSUME NEW w \in Workers, \/ NextStep(w) \/ Gate(w) \/ Call(w) \/ ApprovalCheck(w)
                                \/ ApprovedGate(w) \/ ApprovedCall(w) \/ HandlerRaises(w)
      PROVE  missions'[m].status = missions[m].status
  BY <1>5 DEF NextStep, Gate, Call, ApprovalCheck, ApprovedGate, ApprovedCall, HandlerRaises,
              store
<1>6. CASE ~\E w \in Workers : Moves(w)
  BY <1>6, EnvironmentMoves
<1>7. QED
  BY <1>2, <1>3, <1>4, <1>5, <1>6 DEF Moves, Proceed

(* _persist never writes over a finished mission, whatever snapshot its    *)
(* handler worked from.                                                    *)
THEOREM FinalStands == Spec => FinalStatusStands
<1>1. MissionInv /\ [Next]_vars =>
         [\A m \in Missions : missions[m].status \in Final =>
              missions'[m].status = missions[m].status]_vars
  BY FinalStep DEF MissionInv
<1>2. QED
  BY <1>1, Invariance, PTL DEF Spec, FinalStatusStands

(* approve_and_resume runs a step only under the owner's approval of that  *)
(* step, even from a snapshot older than the claim.                        *)
THEOREM ApprovedSteps == Spec => []ApprovalIsForThisStep
<1>1. MissionInv => ApprovalIsForThisStep
  BY DEF MissionInv
<1>2. QED
  BY <1>1, Invariance, PTL

(* MissionEngine.run calls no tool before those of the earlier steps, and  *)
(* completes no mission before all were called, however the mission was    *)
(* suspended and resumed in between.                                       *)
THEOREM OrderedSteps == Spec => []NoStepIsSkipped
<1>1. MissionInv => NoStepIsSkipped
  BY DEF MissionInv
<1>2. QED
  BY <1>1, Invariance, PTL

(* The gate asks for the kill switch before each call, so a handler makes  *)
(* at most one once the switch is set, for plans of any length.            *)
THEOREM SwitchHolds == Spec => []SwitchStopsAfterOneCall
<1>1. MissionInv => SwitchStopsAfterOneCall
  BY DEF MissionInv
<1>2. QED
  BY <1>1, Invariance, PTL

(* start() and resume() call the tool of a direct mission once between     *)
(* them, however many handlers resume it.                                  *)
THEOREM DirectCalledOnce == Spec => []DirectRunsOnce
<1>1. MissionInv => DirectRunsOnce
  BY DEF MissionInv
<1>2. QED
  BY <1>1, Invariance, PTL
(* A handler that ends leaves its mission saved, unless a store call       *)
(* raised, an instance was restarted or it was at an approval.             *)
THEOREM StrandedByApproval == Spec => []OnlyApprovalsStrand
<1>1. MissionInv => OnlyApprovalsStrand
  BY DEF MissionInv
<1>2. QED
  BY <1>1, Invariance, PTL

-----------------------------------------------------------------------------
(* Handlers run down *)

(* What is left of a handler: the most the steps of its plan can take from *)
(* where it stands, and a little for the point it is at.                   *)
LEMMA RemainingIs ==
    ASSUME NEW h \in Worker, NEW k \in Nat, k = 8 * (Length[h.mission] + 2 - h.next)
    PROVE  /\ h.at = "idle" => Remaining(h) = 0
           /\ h.at = "persist" => Remaining(h) = 1
           /\ h.at = "call" => Remaining(h) = k
           /\ h.at = "gate" => Remaining(h) = k + 1
           /\ h.at = "step" => Remaining(h) = k + 2
           /\ h.at = "approvedCall" => Remaining(h) = k + 3
           /\ h.at = "approvedGate" => Remaining(h) = k + 4
           /\ h.at = "approval" => Remaining(h) = k + 5
           /\ h.at \in Claiming => Remaining(h) = k + 6
BY DEF Remaining, Claiming

(* A step in its plan leaves a handler at least one round to go. *)
LEMMA RoundsLeft ==
    ASSUME TypeOK, PositionsMatch, NextInPlan, NEW w \in Workers, ~At(w, "idle")
    PROVE  \E k \in Nat : /\ k = 8 * (Length[worker[w].mission] + 2 - worker[w].next)
                          /\ k >= 8
                          /\ k - 8 = 8 * (Length[worker[w].mission] + 2 - (worker[w].next + 1))
<1>1. worker[w].mission \in Missions
  BY HandlerFields
<1>2. PICK l \in Nat : l = Length[worker[w].mission]
  BY <1>1
<1>3. PICK n \in 1..(l + 1) : n = worker[w].next
  BY <1>2 DEF NextInPlan, InPlan, MissionOf
<1>4. 8 * (l + 2 - n) \in Nat /\ 8 * (l + 2 - n) >= 8
      /\ 8 * (l + 2 - n) - 8 = 8 * (l + 2 - (n + 1))
  BY <1>2, <1>3
<1>5. QED
  BY <1>2, <1>3, <1>4

(* Every step of a handler in progress takes it nearer its end. *)
LEMMA RunDownStep ==
    ASSUME TypeOK, PositionsMatch, NextInPlan, TypeOK', [Next]_vars,
           NEW w \in Workers, worker'[w].at # worker[w].at, ~At(w, "idle")
    PROVE  Remaining(worker'[w]) < Remaining(worker[w])
<1>1. PICK k \in Nat : /\ k = 8 * (Length[worker[w].mission] + 2 - worker[w].next)
                       /\ k >= 8
                       /\ k - 8 = 8 * (Length[worker[w].mission] + 2 - (worker[w].next + 1))
  BY RoundsLeft
<1>2. PICK h \in Worker : h = worker[w]
  BY DEF TypeOK
<1>3. PICK g \in Worker : g = worker'[w]
  BY DEF TypeOK
<1>4. h.at # "idle" /\ g.at # h.at
  BY <1>2, <1>3 DEF At
<1>5. h.at \in Claiming \cup Run
  BY <1>2, <1>4 DEF Worker, Points
<1>6. Remaining(h) >= 1 /\ (h.at # "persist" => Remaining(h) >= 8) /\ Remaining(h) \in Nat
  BY <1>1, <1>2, <1>5, RemainingIs DEF Run
<1>7. CASE g.at = "idle"
  <2>1. Remaining(g) = 0
    BY <1>7 DEF Remaining, Claiming
  <2>2. QED
    BY <1>2, <1>3, <1>6, <2>1
<1>8. CASE g.at = "persist"
  <2>1. Remaining(g) = 1
    BY <1>8 DEF Remaining, Claiming
  <2>2. h.at # "persist"
    BY <1>4, <1>8
  <2>3. QED
    BY <1>2, <1>3, <1>6, <2>1, <2>2
<1>9. ASSUME g.mission = h.mission, g.next = h.next,
             \/ h.at \in Claiming /\ g.at \in {"step", "approval"}
             \/ h.at = "step" /\ g.at = "gate"
             \/ h.at = "gate" /\ g.at = "call"
             \/ h.at = "approval" /\ g.at = "approvedGate"
             \/ h.at = "approvedGate" /\ g.at = "approvedCall"
      PROVE  Remaining(g) < Remaining(h)
  <2>1. k = 8 * (Length[g.mission] + 2 - g.next) /\ k = 8 * (Length[h.mission] + 2 - h.next)
    BY <1>1, <1>2, <1>9
  <2>2. QED
    BY <1>1, <1>9, <2>1, RemainingIs
<1>10. ASSUME g.mission = h.mission, g.next = h.next + 1, g.at = "step",
              h.at \in {"call", "approvedCall"}
       PROVE  Remaining(g) < Remaining(h)
  <2>1. k = 8 * (Length[h.mission] + 2 - h.next)
    BY <1>1, <1>2
  <2>2. k - 8 = 8 * (Length[g.mission] + 2 - g.next) /\ k - 8 \in Nat
    BY <1>1, <1>2, <1>10
  <2>3. Remaining(g) = k - 8 + 2
    BY <1>10, <2>2, RemainingIs
  <2>4. Remaining(h) >= k
    BY <1>10, <2>1, RemainingIs
  <2>5. QED
    BY <1>1, <1>6, <2>3, <2>4
<1>11. CASE ~Moves(w)
  BY <1>3, <1>4, <1>2, <1>7, <1>11, OthersStay, EnvironmentMoves
<1>12. CASE Moves(w)
  <2>1. Proceed(w) \/ HandlerRaises(w)
    BY <1>12 DEF Moves, Arrive, Start, PlanFails, Read
  <2>2. CASE Finish(w) \/ \E o, r : Stop(w, o, r)
    BY <1>2, <1>3, <1>7, <1>8, <2>2, AfterFinish, AfterStop
  <2>3. CASE Advance(w) /\ (Call(w) \/ ApprovedCall(w))
    <3>1. h.at \in {"call", "approvedCall"}
      BY <1>2, <2>3 DEF Call, ApprovedCall, At
    <3>2. g.mission = h.mission /\ g.next = h.next + 1 /\ g.at = "step"
      BY <1>2, <1>3, <2>3, AfterTake DEF Advance, MissionOf
    <3>3. QED
      BY <1>2, <1>3, <1>10, <3>1, <3>2
  <2>4. CASE ResumeBlockedClaim(w) /\ ~Finish(w)
    <3>1. h.at \in Claiming
      BY <1>2, <2>4 DEF ResumeBlockedClaim, At, Claiming
    <3>2. \E p : Take(w, "step", worker[w].mission, worker[w].next, NoRequest, p)
      BY <2>4 DEF ResumeBlockedClaim, NotClaimed, ResumeFrom
    <3>3. g.mission = h.mission /\ g.next = h.next /\ g.at = "step"
      BY <1>2, <1>3, <3>2, AfterTake
    <3>4. QED
      BY <1>2, <1>3, <1>9, <3>1, <3>3
  <2>5. ASSUME NEW p, Goto(w, p),
               \/ h.at \in Claiming /\ p = "approval"
               \/ h.at = "step" /\ p = "gate"
               \/ h.at = "gate" /\ p = "call"
               \/ h.at = "approval" /\ p = "approvedGate"
               \/ h.at = "approvedGate" /\ p = "approvedCall"
        PROVE  Remaining(g) < Remaining(h)
    BY <1>2, <1>3, <1>9, <2>5, AfterGoto
  <2>6. \/ Finish(w) \/ \E o, r : Stop(w, o, r)
        \/ Advance(w) /\ (Call(w) \/ ApprovedCall(w))
        \/ ResumeBlockedClaim(w) /\ ~Finish(w)
        \/ h.at \in Claiming /\ Goto(w, "approval")
        \/ h.at = "step" /\ Goto(w, "gate")
        \/ h.at = "gate" /\ Goto(w, "call")
        \/ h.at = "approval" /\ Goto(w, "approvedGate")
        \/ h.at = "approvedGate" /\ Goto(w, "approvedCall")
    BY <1>2, <2>1
       DEF Proceed, HandlerRaises, ResumeBlockedClaim, ResumePlannedClaim, ResumeDirectClaim,
           NotClaimed, NextStep, Gap, Gate, Call, ApprovalCheck, ApprovedGate, ApprovedCall,
           Persist, At, Claiming
  <2>7. QED
    BY <1>2, <1>3, <2>2, <2>3, <2>4, <2>5, <2>6
<1>13. QED
  BY <1>11, <1>12

(* The loop of MissionEngine.run ends: whatever happens to the mission, to *)
(* its approvals and to the registry meanwhile, a handler takes at most    *)
(* Remaining steps, so only an idle one or one that is not scheduled stays *)
(* where it is.                                                            *)
THEOREM BoundedHandlers == Spec => HandlersRunDown
<1>1. MissionInv /\ MissionInv' /\ [Next]_vars =>
         [\A w \in Workers : worker'[w].at # worker[w].at =>
              At(w, "idle") \/ Remaining(worker'[w]) < Remaining(worker[w])]_vars
  BY RunDownStep DEF MissionInv
<1>2. QED
  BY <1>1, Invariance, PTL DEF Spec, HandlersRunDown

-----------------------------------------------------------------------------
(* Missions are worked on in turns *)

(* The turn of a mission, by its status. *)
LEMMA TurnsOfStatus ==
    /\ TurnOf("ABSENT") = "NEW"
    /\ TurnOf("UNSAVED") = "HELD" /\ TurnOf("RESUMING") = "HELD"
    /\ TurnOf("BLOCKED") = "OPEN" /\ TurnOf("AWAITING_APPROVAL") = "OPEN"
    /\ TurnOf("FAILED") = "GIVEN_UP"
    /\ \A s \in Stops : /\ TurnOf(s) \in {"OPEN", "DONE", "GIVEN_UP"}
                        /\ TurnOf(s) = "DONE" => s = "COMPLETED"
<1>1. \A s \in Stops : s \in {"COMPLETED", "FAILED", "REFUSED", "BLOCKED", "AWAITING_APPROVAL",
                              "APPROVAL_REQUIRED"}
  BY DEF Stops, Final
<1>2. QED
  BY <1>1 DEF TurnOf

(* Saving or claiming one mission is a change of its turn alone. *)
LEMMA OneTurn ==
    ASSUME TypeOK, NEW m \in Missions, UNCHANGED runs,
           \A n \in Missions : n # m => missions'[n] = missions[n]
    PROVE  /\ TurnNow' = [TurnNow EXCEPT ![m] = TurnOf(missions'[m].status)]
           /\ UNCHANGED CalledNow
<1>1. UNCHANGED CalledNow
  BY DEF CalledNow
<1>2. PICK t : t = TurnOf(missions'[m].status)
  OBVIOUS
<1>3. TurnNow' = [TurnNow EXCEPT ![m] = t]
  BY <1>2 DEF TurnNow
<1>4. QED
  BY <1>1, <1>2, <1>3

(* Any step that is one of a turn, or none, is one of MissionTurns.        *)
LEMMA TurnStep ==
    ASSUME \/ UNCHANGED <<TurnNow, CalledNow>>
           \/ \E m \in Missions :
                 \/ Turns!Take(m)
                 \/ \E n \in 1..Length[m] : Turns!Call(m, n)
                 \/ \E outcome \in {"OPEN", "DONE", "GIVEN_UP"} : Turns!Leave(m, outcome)
                 \/ Turns!Refuse(m)
    PROVE  [Turns!Next]_(Turns!vars)
<1>1. CASE UNCHANGED <<TurnNow, CalledNow>>
  BY <1>1 DEF Turns!vars
<1>2. CASE ~UNCHANGED <<TurnNow, CalledNow>>
  <2>1. Turns!vars' # Turns!vars
    BY <1>2 DEF Turns!vars
  <2>2. QED
    BY <1>2, <2>1 DEF Turns!Next
<1>3. QED
  BY <1>1, <1>2

(* At the outset no mission has been taken up and no tool called. *)
LEMMA InitialTurns == Init => Turns!Init
<1> SUFFICES ASSUME Init PROVE Turns!Init
  OBVIOUS
<1>1. ASSUME NEW m \in Missions PROVE missions[m].status = "ABSENT"
  BY DEF Init, Mission
<1>2. TurnNow = [m \in Missions |-> "NEW"]
  BY <1>1, TurnsOfStatus DEF TurnNow
<1>3. ASSUME NEW m \in Missions, NEW n \in StepsOf(m) PROVE ~(runs[<<m, n>>] > 0)
  BY StepIsPair DEF Init
<1>4. CalledNow = [m \in Missions |-> {}]
  BY <1>3 DEF CalledNow
<1>5. QED
  BY <1>2, <1>4 DEF Turns!Init

(* A tool is called in the turn of its mission, after those of the earlier *)
(* steps, whichever way the handler came to the call.                      *)
LEMMA CallIsInTurn ==
    ASSUME TypeOK, PositionsMatch, SnapshotsMatch, OneRunner, NEW w \in Workers,
           worker[w].at \in {"call", "approvedCall"}, CallTool(w), UNCHANGED missions
    PROVE  \E m \in Missions : \E n \in 1..Length[m] : Turns!Call(m, n)
<1>1. PICK m \in Missions : m = worker[w].mission
  BY HandlerFields DEF At
<1>2. StepOf(w) \in Steps
  BY DEF PositionsMatch, Stepping
<1>3. PICK n \in StepsOf(m) : n = worker[w].next
  BY <1>1, <1>2, StepIsPair DEF StepOf
<1>4. StepOf(w) = <<m, n>>
  BY <1>1, <1>3 DEF StepOf
<1>5. Length[m] \in Nat
  BY <1>1
<1>6. TurnNow[m] = "HELD"
  <2>1. missions[m].status \in {"UNSAVED", "RESUMING"}
    BY <1>1 DEF OneRunner, Running, Run, MissionOf
  <2>2. QED
    BY <2>1, TurnsOfStatus DEF TurnNow
<1>7. 1..(n - 1) \subseteq CalledNow[m]
  <2>1. ASSUME NEW k \in 1..(n - 1) PROVE k \in StepsOf(m) /\ runs[<<m, k>>] > 0
    <3>1. k \in StepsOf(m)
      BY <1>3, <1>5 DEF StepsOf
    <3>2. RanBefore(m, n)
      BY <1>1, <1>3 DEF SnapshotsMatch, MissionOf, At
    <3>3. QED
      BY <3>1, <3>2 DEF RanBefore
  <2>2. QED
    BY <2>1 DEF CalledNow
<1>8. CalledNow' = [CalledNow EXCEPT ![m] = @ \cup {n}]
  <2>1. ASSUME NEW j \in Missions, j # m
        PROVE  \A k \in StepsOf(j) : runs'[<<j, k>>] = runs[<<j, k>>]
    <3>1. \A k \in StepsOf(j) : <<j, k>> \in Steps /\ <<j, k>> # StepOf(w)
      BY <1>4, <2>1, StepIsPair
    <3>2. QED
      BY <1>2, <3>1, CallCounts
  <2>2. \A k \in StepsOf(m) : k # n => runs'[<<m, k>>] = runs[<<m, k>>]
    <3>1. \A k \in StepsOf(m) : k # n => <<m, k>> \in Steps /\ <<m, k>> # StepOf(w)
      BY <1>4, StepIsPair
    <3>2. QED
      BY <1>2, <3>1, CallCounts
  <2>3. runs'[<<m, n>>] > 0
    BY <1>2, <1>4, CallCounts
  <2>4. ASSUME NEW j \in Missions, j # m
        PROVE  {k \in StepsOf(j) : runs'[<<j, k>>] > 0} = {k \in StepsOf(j) : runs[<<j, k>>] > 0}
    BY <2>1, <2>4
  <2>5. {k \in StepsOf(m) : runs'[<<m, k>>] > 0}
           = {k \in StepsOf(m) : runs[<<m, k>>] > 0} \cup {n}
    BY <2>2, <2>3
  <2>6. QED
    BY <2>4, <2>5 DEF CalledNow, StepsOf
<1>9. UNCHANGED TurnNow
  BY DEF TurnNow
<1>10. Turns!Call(m, n)
  BY <1>6, <1>7, <1>8, <1>9 DEF Turns!Call
<1>11. QED
  BY <1>10 DEF StepsOf

(* A claim takes up a mission that was left open. *)
LEMMA ClaimIsTurn ==
    ASSUME TypeOK, PositionsMatch, NEW w \in Workers,
           ResumeBlockedClaim(w) \/ ResumePlannedClaim(w) \/ ResumeDirectClaim(w)
    PROVE  UNCHANGED <<missions, runs>> \/ \E m \in Missions : Turns!Take(m)
<1>1. UNCHANGED runs
  BY DEF ResumeBlockedClaim, ResumePlannedClaim, ResumeDirectClaim, effects
<1>2. PICK m \in Missions : m = worker[w].mission
  BY HandlerFields DEF ResumeBlockedClaim, ResumePlannedClaim, ResumeDirectClaim, At
<1>3. \/ UNCHANGED missions
      \/ Claim(w) /\ (Claimable(m, "BLOCKED") \/ Claimable(m, "AWAITING_APPROVAL"))
  BY <1>2 DEF ResumeBlockedClaim, ResumePlannedClaim, ResumeDirectClaim, NotClaimed, MissionOf
<1>4. CASE Claim(w) /\ (Claimable(m, "BLOCKED") \/ Claimable(m, "AWAITING_APPROVAL"))
  <2>1. TurnNow[m] = "OPEN"
    BY <1>4, TurnsOfStatus DEF TurnNow, Claimable
  <2>2. /\ missions'[m].status = "RESUMING"
        /\ \A n \in Missions : n # m => missions'[n] = missions[n]
    BY <1>2, <1>4 DEF Claim, MissionOf, TypeOK, MissionRecord
  <2>3. TurnNow' = [TurnNow EXCEPT ![m] = "HELD"] /\ UNCHANGED CalledNow
    BY <1>1, <2>2, OneTurn, TurnsOfStatus
  <2>4. Turns!Take(m)
    BY <2>1, <2>3 DEF Turns!Take
  <2>5. QED
    BY <2>4
<1>5. QED
  BY <1>1, <1>3, <1>4

(* A handler that saves its mission ends its turn, and as done only when   *)
(* all its tools were called.                                              *)
LEMMA PersistIsLeave ==
    ASSUME TypeOK, PositionsMatch, SnapshotsMatch, OneRunner, RequestsAreSaved,
           NoStepIsSkipped, [Next]_vars, NEW w \in Workers, Persist(w)
    PROVE  \E m \in Missions :
              \E outcome \in {"OPEN", "DONE", "GIVEN_UP"} : Turns!Leave(m, outcome)
<1>1. At(w, "persist") /\ Running(w) /\ ~At(w, "idle")
  BY DEF Persist, At, Running, Run
<1>2. PICK m \in Missions : m = worker[w].mission
  BY <1>1, HandlerFields
<1>3. PICK o \in Stops : o = worker[w].outcome
  BY <1>1 DEF RequestsAreSaved
<1>4. TurnNow[m] = "HELD"
  <2>1. missions[m].status \in {"UNSAVED", "RESUMING"}
    BY <1>1, <1>2 DEF OneRunner, MissionOf
  <2>2. QED
    BY <2>1, TurnsOfStatus DEF TurnNow
<1>5. /\ missions'[m].status = o
      /\ \A n \in Missions : n # m => missions'[n] = missions[n]
  BY <1>2, <1>3 DEF Persist, Mission, TypeOK
<1>6. UNCHANGED runs
  BY DEF Persist, effects
<1>7. TurnNow' = [TurnNow EXCEPT ![m] = TurnOf(o)] /\ UNCHANGED CalledNow
  BY <1>5, <1>6, OneTurn
<1>8. TurnOf(o) = "DONE" => CalledNow[m] = 1..Length[m]
  <2>1. ASSUME o = "COMPLETED", NEW n \in StepsOf(m) PROVE runs[<<m, n>>] > 0
    BY <1>5, <1>6, <2>1, CompletionStep
  <2>2. QED
    BY <2>1, TurnsOfStatus DEF CalledNow, StepsOf
<1>9. Turns!Leave(m, TurnOf(o))
  BY <1>4, <1>7, <1>8 DEF Turns!Leave
<1>10. QED
  BY <1>9, TurnsOfStatus

(* Starting a mission takes it up; one without a plan is refused. *)
LEMMA StartIsTurn ==
    ASSUME TypeOK, NEW w \in Workers, NEW m \in Missions, Start(w, m) \/ PlanFails(w, m)
    PROVE  Turns!Take(m) \/ Turns!Refuse(m)
<1>1. TurnNow[m] = "NEW" /\ UNCHANGED runs
  BY TurnsOfStatus DEF Start, PlanFails, TurnNow, effects
<1>2. \A n \in Missions : n # m => missions'[n] = missions[n]
  BY DEF Start, PlanFails, TypeOK
<1>3. CASE Start(w, m)
  <2>1. missions'[m].status = "UNSAVED"
    BY <1>3 DEF Start, TypeOK, MissionRecord
  <2>2. TurnNow' = [TurnNow EXCEPT ![m] = "HELD"] /\ UNCHANGED CalledNow
    BY <1>1, <1>2, <2>1, OneTurn, TurnsOfStatus
  <2>3. QED
    BY <1>1, <2>2 DEF Turns!Take
<1>4. CASE PlanFails(w, m)
  <2>1. missions'[m].status = "FAILED"
    BY <1>4 DEF PlanFails, TypeOK, MissionRecord
  <2>2. TurnNow' = [TurnNow EXCEPT ![m] = "GIVEN_UP"] /\ UNCHANGED CalledNow
    BY <1>1, <1>2, <2>1, OneTurn, TurnsOfStatus
  <2>3. QED
    BY <1>1, <2>2 DEF Turns!Refuse
<1>5. QED
  BY <1>3, <1>4

(* Every step of the missions is one of their turns, or changes no turn.   *)
LEMMA StepIsTurn ==
    ASSUME MissionInv, [Next]_vars
    PROVE  [Turns!Next]_(Turns!vars)
<1>1. /\ TypeOK /\ PositionsMatch /\ SnapshotsMatch /\ OneRunner /\ RequestsAreSaved
      /\ NoStepIsSkipped
  BY DEF MissionInv
<1>2. CASE UNCHANGED <<missions, runs>>
  <2>1. UNCHANGED <<TurnNow, CalledNow>>
    BY <1>2 DEF TurnNow, CalledNow
  <2>2. QED
    BY <2>1, TurnStep
<1>3. ASSUME NEW w \in Workers, Moves(w) PROVE [Turns!Next]_(Turns!vars)
  <2>1. CASE \E m \in Missions : Start(w, m) \/ PlanFails(w, m)
    BY <1>1, <2>1, StartIsTurn, TurnStep
  <2>2. CASE ResumeBlockedClaim(w) \/ ResumePlannedClaim(w) \/ ResumeDirectClaim(w)
    BY <1>1, <1>2, <2>2, ClaimIsTurn, TurnStep
  <2>3. CASE Persist(w)
    BY <1>1, <2>3, PersistIsLeave, TurnStep
  <2>4. CASE /\ worker[w].at \in {"call", "approvedCall"} /\ CallTool(w)
             /\ UNCHANGED missions
    BY <1>1, <2>4, CallIsInTurn, TurnStep
  <2>5. \/ \E m \in Missions : Start(w, m) \/ PlanFails(w, m)
        \/ ResumeBlockedClaim(w) \/ ResumePlannedClaim(w) \/ ResumeDirectClaim(w)
        \/ Persist(w)
        \/ /\ worker[w].at \in {"call", "approvedCall"} /\ CallTool(w)
           /\ UNCHANGED missions
        \/ UNCHANGED <<missions, runs>>
    BY <1>3 DEF Moves, Arrive, Proceed, HandlerRaises, Read, NextStep, Gate, Call, ApprovalCheck,
                ApprovedGate, ApprovedCall, store, effects, At
  <2>6. QED
    BY <1>2, <2>1, <2>2, <2>3, <2>4, <2>5
<1>4. CASE ~\E w \in Workers : Moves(w)
  BY <1>1, <1>2, <1>4, EnvironmentMoves
<1>5. QED
  BY <1>3, <1>4

(* MissionService and MissionEngine implement turns: however handlers,     *)
(* claims from old snapshots, approvals, failures and restarts interleave, *)
(* a mission is worked on in turns, its tools called in order, and never   *)
(* taken up again once done or given up.                                   *)
THEOREM Refinement == Spec => RefinesMissionTurns
<1>1. MissionInv /\ [Next]_vars => [Turns!Next]_(Turns!vars)
  BY StepIsTurn
<1>2. QED
  BY <1>1, InitialTurns, Invariance, PTL DEF Spec, RefinesMissionTurns, Turns!Spec

-----------------------------------------------------------------------------
(* Handlers that come one after another *)

(* A mission that was never read while another handler was at it has one   *)
(* handler; what a handler is about to run, or a mission it can resume, no *)
(* one has run yet.                                                        *)
On(w, m) == ~At(w, "idle") /\ MissionOf(w) = m
Untried(m, n) == \A k \in StepsOf(m) : k >= n => runs[<<m, k>>] = 0
Resumable == {"BLOCKED", "AWAITING_APPROVAL"}

Sole(m) == \A v, w \in Workers : On(v, m) /\ On(w, m) => v = w
RunOnce(m) == \A k \in StepsOf(m) : runs[<<m, k>>] <= 1
SavedAhead(m) ==
    /\ missions[m].status = "ABSENT" => Untried(m, 1)
    /\ missions[m].status \in Resumable => Untried(m, missions[m].next)
HeldAhead(w, m) ==
    /\ missions[m].status # "ABSENT"
    /\ worker[w].at \in Claiming => worker[w].next = missions[m].next
    /\ worker[w].at \in Run \ {"persist"} => Untried(m, worker[w].next)
    /\ At(w, "persist") => /\ worker[w].outcome # "ABSENT"
                           /\ worker[w].outcome \in Final \/ Untried(m, worker[w].next)

SerialAt(m) ==
    /\ Sole(m) /\ RunOnce(m) /\ SavedAhead(m)
    /\ \A w \in Workers : On(w, m) => HeldAhead(w, m)
SerialInv == \A m \in Missions \ overlapped : SerialAt(m)

(* A handler's step elsewhere changes nothing of a mission. *)
LEMMA Elsewhere ==
    ASSUME TypeOK, PositionsMatch, NEW w \in Workers, Moves(w), NEW m \in Missions,
           ~On(w, m), ~On(w, m)', ~PlanFails(w, m)
    PROVE  /\ missions'[m] = missions[m]
           /\ \A k \in StepsOf(m) : runs'[<<m, k>>] = runs[<<m, k>>]
<1>1. missions'[m] = missions[m]
  <2>1. CASE Arrive(w)
    <3>1. ASSUME NEW n \in Missions, Start(w, n) PROVE n # m
      BY <3>1, AfterTake DEF Start, On, At, MissionOf
    <3>2. QED
      BY <2>1, <3>1 DEF Arrive, Start, PlanFails, Read, store, TypeOK
  <2>2. CASE Proceed(w) \/ HandlerRaises(w)
    <3>1. MissionOf(w) # m
      BY <2>2, SameMission DEF On
    <3>2. QED
      BY <2>2, <3>1
         DEF Proceed, HandlerRaises, ResumeBlockedClaim, ResumePlannedClaim, ResumeDirectClaim,
             NotClaimed, Claim, NextStep, Gate, Call, ApprovalCheck, ApprovedGate, ApprovedCall,
             Persist, MissionOf, store, TypeOK
  <2>3. QED
    BY <2>1, <2>2 DEF Moves
<1>2. ASSUME NEW k \in StepsOf(m) PROVE runs'[<<m, k>>] = runs[<<m, k>>]
  <2>1. <<m, k>> \in Steps
    BY StepIsPair
  <2>2. CASE CallTool(w) /\ worker[w].at \in {"call", "approvedCall"}
    <3>1. StepOf(w) \in Steps
      BY <2>2 DEF PositionsMatch, Stepping
    <3>2. StepOf(w) # <<m, k>>
      BY <2>2 DEF On, At, StepOf, MissionOf
    <3>3. QED
      BY <2>1, <2>2, <3>1, <3>2, CallCounts
  <2>3. CASE UNCHANGED runs
    BY <2>3
  <2>4. QED
    BY <2>2, <2>3
       DEF Moves, Arrive, Proceed, Start, PlanFails, Read, ResumeBlockedClaim,
           ResumePlannedClaim, ResumeDirectClaim, NextStep, Gate, Call, ApprovalCheck,
           ApprovedGate, ApprovedCall, Persist, HandlerRaises, effects, At
<1>3. QED
  BY <1>1, <1>2

(* What is told of a mission stands while the mission, the calls of its    *)
(* steps and its handlers stand, or leave.                                 *)
LEMMA SerialStands ==
    ASSUME NEW m \in Missions, SerialAt(m), missions'[m] = missions[m],
           \A k \in StepsOf(m) : runs'[<<m, k>>] = runs[<<m, k>>],
           \A v \in Workers : worker'[v] = worker[v] \/ ~On(v, m)'
    PROVE  SerialAt(m)'
<1>1. \A n : Untried(m, n) => Untried(m, n)'
  BY DEF Untried
<1>2. RunOnce(m)' /\ SavedAhead(m)'
  BY <1>1 DEF SerialAt, RunOnce, SavedAhead
<1>3. ASSUME NEW v \in Workers, On(v, m)' PROVE On(v, m) /\ worker'[v] = worker[v]
  BY <1>3 DEF On, At, MissionOf
<1>4. Sole(m)'
  BY <1>3 DEF SerialAt, Sole
<1>5. ASSUME NEW v \in Workers, On(v, m)' PROVE HeldAhead(v, m)'
  BY <1>1, <1>3, <1>5 DEF SerialAt, HeldAhead, At
<1>6. QED
  BY <1>2, <1>4, <1>5 DEF SerialAt

(* The same when one handler moves, given what it has done. *)
LEMMA SerialMoves ==
    ASSUME TypeOK, NEW m \in Missions, NEW w \in Workers, Moves(w),
           \A v \in Workers : v # w => ~On(v, m),
           RunOnce(m)', SavedAhead(m)', On(w, m)' => HeldAhead(w, m)'
    PROVE  SerialAt(m)'
<1>1. ASSUME NEW v \in Workers, On(v, m)' PROVE v = w
  BY <1>1, OthersStay DEF On, At, MissionOf
<1>2. QED
  BY <1>1 DEF SerialAt, Sole

(* A mission is started by one handler, from the first step. *)
LEMMA SerialArrival ==
    ASSUME TypeOK, NEW m \in Missions \ overlapped', SerialAt(m), m \notin overlapped,
           NEW w \in Workers, Arrive(w), On(w, m)' \/ PlanFails(w, m)
    PROVE  SerialAt(m)'
<1>1. CASE PlanFails(w, m)
  <2>1. /\ missions'[m].status = "FAILED" /\ UNCHANGED worker /\ UNCHANGED runs
        /\ missions[m].status = "ABSENT"
    BY <1>1 DEF PlanFails, effects, TypeOK
  <2>2. \A v \in Workers : ~On(v, m)
    BY <2>1 DEF SerialAt, HeldAhead
  <2>3. RunOnce(m)' /\ SavedAhead(m)' /\ ~On(w, m)'
    BY <2>1, <2>2 DEF SerialAt, RunOnce, SavedAhead, Resumable, On, At, MissionOf
  <2>4. QED
    BY <2>2, <2>3, SerialMoves DEF Moves
<1>2. CASE Start(w, m)
  <2>1. /\ missions'[m].status = "UNSAVED" /\ UNCHANGED runs
        /\ missions[m].status = "ABSENT"
    BY <1>2 DEF Start, effects, TypeOK, MissionRecord
  <2>2. \A v \in Workers : ~On(v, m)
    BY <2>1 DEF SerialAt, HeldAhead
  <2>3. Untried(m, 1)'
    BY <2>1 DEF SerialAt, SavedAhead, Untried
  <2>4. worker'[w].at = "step" /\ worker'[w].next = 1
    BY <1>2, AfterTake DEF Start
  <2>5. RunOnce(m)' /\ SavedAhead(m)' /\ HeldAhead(w, m)'
    BY <2>1, <2>3, <2>4
       DEF SerialAt, RunOnce, SavedAhead, HeldAhead, Resumable, At, Claiming
  <2>6. QED
    BY <2>2, <2>5, SerialMoves DEF Moves
<1>3. CASE \E route \in Claiming : Read(w, m, route)
  <2>1. PICK route \in Claiming : Read(w, m, route)
    BY <1>3
  <2>2. /\ missions[m].status # "ABSENT" /\ UNCHANGED <<missions, runs>>
        /\ overlapped' = overlapped \cup {n \in {m} : \E v \in Workers : MissionOf(v) = n}
        /\ Take(w, route, m, missions[m].next, missions[m].request, missions[m].named)
    BY <2>1 DEF Read, store
  <2>3. \A v \in Workers : ~On(v, m)
    BY <2>2 DEF On
  <2>4. worker'[w].at = route /\ worker'[w].next = missions[m].next
    BY <2>2, AfterTake
  <2>5. RunOnce(m)' /\ SavedAhead(m)'
    BY <2>2 DEF SerialAt, RunOnce, SavedAhead, Untried
  <2>6. HeldAhead(w, m)'
    BY <2>1, <2>2, <2>4 DEF HeldAhead, At, Claiming, Run
  <2>7. QED
    BY <2>3, <2>5, <2>6, SerialMoves DEF Moves
<1>4. \A n \in Missions : Start(w, n) => MissionOf(w)' = n
  BY AfterTake DEF Start, MissionOf
<1>5. \A n \in Missions, route \in Claiming : Read(w, n, route) => MissionOf(w)' = n
  BY AfterTake DEF Read, MissionOf
<1>6. \A n \in Missions : PlanFails(w, n) => ~On(w, m)'
  BY DEF PlanFails, On, At
<1>7. QED
  BY <1>1, <1>2, <1>3, <1>4, <1>5, <1>6 DEF Arrive, On

(* The handler of the mission calls the tool of a step nobody has run.     *)
LEMMA SerialCall ==
    ASSUME TypeOK, PositionsMatch, OneRunner, NEW m \in Missions, SerialAt(m),
           NEW w \in Workers, On(w, m), worker[w].at \in {"call", "approvedCall"}, CallTool(w),
           UNCHANGED missions, NEW n \in Nat, n = worker[w].next
    PROVE  /\ RunOnce(m)' /\ SavedAhead(m)' /\ missions'[m].status # "ABSENT"
           /\ Untried(m, n + 1)'
<1>1. n \in StepsOf(m) /\ StepOf(w) = <<m, n>> /\ StepOf(w) \in Steps
  <2>1. StepOf(w) \in Steps
    BY DEF PositionsMatch, Stepping
  <2>2. QED
    BY <2>1, StepIsPair DEF StepOf, On, MissionOf
<1>2. Untried(m, n)
  BY DEF SerialAt, HeldAhead, Run
<1>4. runs[StepOf(w)] = 0
  BY <1>1, <1>2 DEF Untried
<1>5. runs'[StepOf(w)] = 1
  BY <1>1, <1>4 DEF CallTool, Capped, TypeOK
<1>6. ASSUME NEW k \in StepsOf(m), k # n
      PROVE  runs'[<<m, k>>] = runs[<<m, k>>]
  <2>1. <<m, k>> \in Steps /\ <<m, k>> # StepOf(w)
    BY <1>1, <1>6, StepIsPair
  <2>2. QED
    BY <1>1, <2>1, CallCounts
<1>7. RunOnce(m)'
  BY <1>1, <1>5, <1>6 DEF SerialAt, RunOnce
<1>8. missions[m].status \in {"UNSAVED", "RESUMING"}
  BY DEF OneRunner, Running, Run, On
<1>9. SavedAhead(m)' /\ missions'[m].status # "ABSENT"
  BY <1>8 DEF SavedAhead, Resumable
<1>10. Untried(m, n + 1)'
  <2>1. ASSUME NEW k \in StepsOf(m), k >= n + 1
        PROVE  k # n /\ k >= n
    BY <2>1 DEF StepsOf
  <2>2. QED
    BY <1>2, <1>6, <2>1 DEF Untried
<1>11. QED
  BY <1>7, <1>9, <1>10

(* A claim takes over what the mission has saved; an outcome that can be   *)
(* resumed is saved with a step nobody has run.                            *)
LEMMA SerialProgress ==
    ASSUME TypeOK, PositionsMatch, OneRunner, NEW m \in Missions, SerialAt(m),
           NEW w \in Workers, On(w, m), Proceed(w) \/ HandlerRaises(w)
    PROVE  SerialAt(m)'
<1> DEFINE Settled == RunOnce(m)' /\ SavedAhead(m)' /\ (On(w, m)' => HeldAhead(w, m)')
<1> PICK n \in Nat : n = worker[w].next
  BY HandlerFields DEF On
<1>1. HeldAhead(w, m) /\ MissionOf(w) = m /\ worker[w].mission = m
  BY DEF SerialAt, On, MissionOf
<1>2. \A v \in Workers : v # w => ~On(v, m)
  BY DEF SerialAt, Sole
<1>3. Finish(w) => ~On(w, m)'
  BY AfterFinish DEF On, At
<1>4. UNCHANGED runs => RunOnce(m)' /\ (Untried(m, n) => Untried(m, n)')
  BY DEF SerialAt, RunOnce, Untried
<1>5. UNCHANGED <<missions, runs>> => RunOnce(m)' /\ SavedAhead(m)' /\ missions'[m].status # "ABSENT"
  BY <1>1, <1>4 DEF SerialAt, SavedAhead, HeldAhead, Untried
<1> SUFFICES Settled
  BY <1>2, SerialMoves DEF Moves
<1>6. CASE ResumeBlockedClaim(w) \/ ResumePlannedClaim(w) \/ ResumeDirectClaim(w)
  <2>1. worker[w].next = missions[m].next /\ UNCHANGED runs
    BY <1>1, <1>6 DEF ResumeBlockedClaim, ResumePlannedClaim, ResumeDirectClaim, HeldAhead, At,
                      Claiming, effects
  <2>2. CASE UNCHANGED missions /\ Finish(w)
    BY <1>3, <1>5, <2>1, <2>2
  <2>3. CASE Claim(w) /\ missions[m].status \in Resumable
    <3>1. missions'[m].status = "RESUMING"
      BY <1>1, <2>3 DEF Claim, TypeOK, MissionRecord
    <3>2. Untried(m, n)'
      BY <1>4, <2>1, <2>3 DEF SerialAt, SavedAhead
    <3>3. \/ Finish(w)
          \/ worker'[w].at \in {"step", "approval"} /\ worker'[w].next = n
      BY <1>6, AfterTake, AfterGoto
         DEF ResumeBlockedClaim, ResumePlannedClaim, ResumeDirectClaim, NotClaimed, ResumeFrom
    <3>4. worker'[w].at \in {"step", "approval"} /\ worker'[w].next = n
             => HeldAhead(w, m)'
      BY <3>1, <3>2 DEF HeldAhead, Claiming, At
    <3>5. SavedAhead(m)'
      BY <3>1 DEF SavedAhead, Resumable
    <3>6. QED
      BY <1>3, <1>4, <2>1, <3>3, <3>4, <3>5
  <2>4. QED
    BY <1>1, <1>6, <2>2, <2>3
       DEF ResumeBlockedClaim, ResumePlannedClaim, ResumeDirectClaim, NotClaimed, Claimable,
           Resumable
<1>7. CASE NextStep(w) \/ Gate(w) \/ ApprovalCheck(w) \/ ApprovedGate(w)
  <2>1. UNCHANGED <<missions, runs>> /\ worker[w].at \in Run \ {"persist"}
    BY <1>7 DEF NextStep, Gate, ApprovalCheck, ApprovedGate, store, effects, Run, At
  <2>2. Untried(m, n)'
    BY <1>1, <1>4, <2>1 DEF HeldAhead
  <2>3. ASSUME NEW p \in Run \ {"persist"}, Goto(w, p) PROVE HeldAhead(w, m)'
    <3>1. worker'[w].at = p /\ worker'[w].next = n
      BY <2>3, AfterGoto
    <3>2. QED
      BY <1>5, <2>1, <2>2, <3>1 DEF HeldAhead, At, Claiming, Run
  <2>4. ASSUME NEW o \in Stops, NEW r, Stop(w, o, r) PROVE HeldAhead(w, m)'
    <3>1. /\ worker'[w].at = "persist" /\ worker'[w].next = n
          /\ worker'[w].outcome = o
      BY <2>4, AfterStop
    <3>2. o # "ABSENT"
      BY DEF Stops, Final
    <3>3. QED
      BY <1>5, <2>1, <2>2, <3>1, <3>2 DEF HeldAhead, At, Claiming
  <2>5. \/ \E p \in Run \ {"persist"} : Goto(w, p)
        \/ \E o \in Stops : \E r : Stop(w, o, r)
        \/ Finish(w)
    BY <1>7 DEF NextStep, Gap, Gate, ApprovalCheck, ApprovedGate, Stops, Final, Run
  <2>6. QED
    BY <1>3, <1>5, <2>1, <2>3, <2>4, <2>5
<1>8. CASE Call(w) \/ ApprovedCall(w)
  <2>1. CallTool(w) /\ UNCHANGED missions /\ worker[w].at \in {"call", "approvedCall"}
    BY <1>8 DEF Call, ApprovedCall, store, At
  <2>2. /\ RunOnce(m)' /\ SavedAhead(m)' /\ missions'[m].status # "ABSENT"
        /\ Untried(m, n + 1)'
    BY <2>1, SerialCall
  <2>3. CASE Advance(w)
    <3>1. worker'[w].at = "step" /\ worker'[w].next = n + 1
      BY <2>3, AfterTake DEF Advance
    <3>2. QED
      BY <2>2, <3>1 DEF HeldAhead, At, Claiming
  <2>4. ASSUME NEW r, Stop(w, "FAILED", r) PROVE HeldAhead(w, m)'
    <3>1. worker'[w].at = "persist" /\ worker'[w].outcome = "FAILED"
      BY <2>4, AfterStop
    <3>2. QED
      BY <2>2, <3>1 DEF HeldAhead, At, Claiming, Final
  <2>5. QED
    BY <1>8, <2>2, <2>3, <2>4 DEF Call, ApprovedCall
<1>9. CASE HandlerRaises(w)
  <2>1. Finish(w) /\ UNCHANGED missions
    BY <1>9 DEF HandlerRaises, store
  <2>2. CASE UNCHANGED effects
    BY <1>3, <1>5, <2>1, <2>2 DEF effects
  <2>3. CASE worker[w].at \in {"call", "approvedCall"} /\ CallTool(w)
    BY <1>3, <2>1, <2>3, SerialCall
  <2>4. QED
    BY <1>9, <2>2, <2>3 DEF HandlerRaises
<1>10. CASE Persist(w)
  <2>1. /\ At(w, "persist") /\ Finish(w) /\ UNCHANGED runs
        /\ missions'[m].status = worker[w].outcome /\ missions'[m].next = n
    BY <1>1, <1>10 DEF Persist, Mission, TypeOK, effects
  <2>2. worker[w].outcome # "ABSENT"
    BY <1>1, <2>1 DEF HeldAhead
  <2>3. worker[w].outcome \in Resumable => Untried(m, n)'
    BY <1>1, <1>4, <2>1 DEF HeldAhead, Resumable, Final
  <2>4. SavedAhead(m)'
    BY <2>1, <2>2, <2>3 DEF SavedAhead
  <2>5. QED
    BY <1>3, <1>4, <2>1, <2>4
<1>11. QED
  BY <1>6, <1>7, <1>8, <1>9, <1>10 DEF Proceed

(* Every step keeps a mission serial that it does not make overlap. *)
LEMMA SerialStep ==
    ASSUME TypeOK, PositionsMatch, OneRunner, SerialInv, [Next]_vars
    PROVE  SerialInv'
<1> SUFFICES ASSUME NEW m \in Missions \ overlapped' PROVE SerialAt(m)'
  BY DEF SerialInv
<1>1. m \notin overlapped /\ SerialAt(m)
  <2>1. overlapped \subseteq overlapped'
    <3>1. \A w \in Workers : Arrive(w) => overlapped \subseteq overlapped'
      BY DEF Arrive, Start, PlanFails, Read, effects
    <3>2. \A w \in Workers : Proceed(w) \/ HandlerRaises(w) => UNCHANGED overlapped
      BY DEF Proceed, ResumeBlockedClaim, ResumePlannedClaim, ResumeDirectClaim, NextStep, Gate,
             Call, ApprovalCheck, ApprovedGate, ApprovedCall, Persist, HandlerRaises, CallTool,
             effects
    <3>3. (~\E w \in Workers : Moves(w)) => UNCHANGED overlapped
      BY DEF Next, Moves, Decide, ChangeRegistry, Restart, SetKillSwitch, effects, vars
    <3>4. QED
      BY <3>1, <3>2, <3>3 DEF Moves
  <2>2. QED
    BY <2>1 DEF SerialInv
<1>2. ASSUME NEW w \in Workers, Moves(w) PROVE SerialAt(m)'
  <2>1. CASE ~On(w, m) /\ ~On(w, m)' /\ ~PlanFails(w, m)
    <3>1. \A v \in Workers : worker'[v] = worker[v] \/ ~On(v, m)'
      BY <1>2, <2>1, OthersStay
    <3>2. QED
      BY <1>1, <1>2, <2>1, <3>1, Elsewhere, SerialStands
  <2>2. CASE Arrive(w) /\ (On(w, m)' \/ PlanFails(w, m))
    BY <1>1, <2>2, SerialArrival
  <2>3. CASE On(w, m) /\ (Proceed(w) \/ HandlerRaises(w))
    BY <1>1, <2>3, SerialProgress
  <2>4. Arrive(w) => ~On(w, m)
    BY DEF Arrive, Start, PlanFails, Read, On
  <2>5. (Proceed(w) \/ HandlerRaises(w)) /\ On(w, m)' => On(w, m)
    BY SameMission DEF On, At, MissionOf
  <2>6. PlanFails(w, m) => Arrive(w)
    BY DEF Arrive
  <2>7. QED
    BY <1>2, <2>1, <2>2, <2>3, <2>4, <2>5, <2>6 DEF Moves
<1>3. CASE ~\E w \in Workers : Moves(w)
  <2>1. \A v \in Workers : worker'[v] = worker[v] \/ ~On(v, m)'
    BY <1>3, EnvironmentMoves DEF On, At
  <2>2. QED
    BY <1>1, <1>3, <2>1, EnvironmentMoves, SerialStands
<1>4. QED
  BY <1>2, <1>3

(* At the outset nothing has run and every handler is idle. *)
LEMMA InitiallySerial == Init => SerialInv
<1> SUFFICES ASSUME Init, NEW m \in Missions PROVE SerialAt(m)
  BY DEF SerialInv
<1>1. \A w \in Workers : ~On(w, m)
  BY DEF Init, On, At, Idle, Handler
<1>2. ASSUME NEW k \in StepsOf(m) PROVE runs[<<m, k>>] = 0
  BY StepIsPair DEF Init
<1>3. QED
  BY <1>1, <1>2 DEF SerialAt, Sole, RunOnce, SavedAhead, Untried

(* A step of a plan is run again only if the mission was read while        *)
(* another handler was at it: failures and restarts alone repeat no call,  *)
(* for plans of any length and any number of resumes.                      *)
THEOREM SerialStepsOnce == Spec => []SerialStepsRunOnce
<1>1. MissionInv /\ SerialInv => SerialStepsRunOnce
  <2> SUFFICES ASSUME TypeOK, SerialInv, NEW x \in Steps, runs[x] > 1, x[1] \notin overlapped
               PROVE  FALSE
    BY DEF SerialStepsRunOnce, MissionInv
  <2>1. PICK m \in Missions : x \in {m} \X StepsOf(m)
    BY DEF Steps
  <2>2. x = <<m, x[2]>> /\ x[1] = m /\ x[2] \in StepsOf(m)
    BY <2>1
  <2>3. runs[<<m, x[2]>>] <= 1
    BY <2>2 DEF SerialInv, SerialAt, RunOnce
  <2>4. runs[x] <= 1
    BY <2>2, <2>3
  <2>5. QED
    BY <2>4 DEF TypeOK
<1>2. MissionInv => TypeOK /\ PositionsMatch /\ OneRunner
  BY DEF MissionInv
<1>3. MissionInv /\ SerialInv /\ [Next]_vars => SerialInv'
  BY <1>2, SerialStep
<1>4. QED
  BY <1>1, <1>3, InitiallySerial, Invariance, PTL DEF Spec
=============================================================================
