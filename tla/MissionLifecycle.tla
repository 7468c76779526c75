-------------------------- MODULE MissionLifecycle --------------------------
(***************************************************************************)
(* Missions: MissionService.start / start_from_plan / resume_blocked /     *)
(* resume_planned / resume, MissionEngine.run, AxonOrchestrator and the    *)
(* ExecutionGate, run concurrently by the HTTP workers of several          *)
(* instances against one document store.                                   *)
(*                                                                         *)
(* Steps of a plan are numbered from 1 and "next" is the step a mission    *)
(* stopped at.  The engine records a step as EXECUTED exactly when it      *)
(* moves past it, so step_results is the steps before next and is left     *)
(* out.  What Guardian says depends on policies and on a ledger outside    *)
(* this module: it is any answer the step's constant allows.               *)
(***************************************************************************)
EXTENDS Naturals, FiniteSets

CONSTANTS
    Missions,           \* mission ids; each is drawn once
    Length,             \* number of steps of each mission's plan
    Direct,             \* missions of one tool call, with no plan document
    Named,              \* per mission: the steps whose tool the planner named
    Tools, ToolOf,      \* the tools, and the one of each step
    Verdicts,           \* per step: what Guardian may decide
    Rechecks,           \* per step: what Guardian may decide once approved
    Requests,           \* approval request ids; each is created once
    Instances, Workers, Home,
    NoMission, NoRequest,
    MaxMissions,        \* bound: missions started
    MaxFaults,          \* bound: store calls that raise
    MaxRegistryChanges  \* bound: restarts, and what installs change, of registries

StepsOf(m) == 1..Length[m]
Steps == UNION {{m} \X StepsOf(m) : m \in Missions}

ASSUME ConstantsAssumption ==
    /\ NoMission \notin Missions
    /\ NoRequest \notin Requests
    /\ Length \in [Missions -> Nat \ {0}]
    /\ Direct \subseteq Missions
    /\ \A m \in Direct : Length[m] = 1
    /\ Named \in [Missions -> SUBSET Nat]
    /\ ToolOf \in [Steps -> Tools]
    /\ Verdicts \in [Steps -> SUBSET {"ALLOW", "APPROVAL_REQUIRED", "REFUSE"}]
    /\ Rechecks \in [Steps -> SUBSET {"ALLOW", "REFUSE"}]
    /\ Home \in [Workers -> Instances]
    /\ MaxMissions \in Nat
    /\ MaxFaults \in Nat
    /\ MaxRegistryChanges \in Nat

VARIABLES
    missions,           \* missions collection
    approvals,          \* approval_requests collection: status of each request
    askedFor,           \* the step each approval request was created for
    tools,              \* per instance: the tools with code behind them
    killSwitch,
    worker,             \* per worker: the handler in progress
    runs,               \* per step: times its tool was called (2 stands for more)
    overlapped,         \* the missions read while another handler was at them
    late,               \* per worker: tool calls since the kill switch was set
    faults, restarts, changes

store   == <<missions, approvals, askedFor>>
effects == <<runs, overlapped, late>>
bounds  == <<faults, restarts, changes>>
vars    == <<missions, approvals, askedFor, tools, killSwitch, worker, runs,
             overlapped, late, faults, restarts, changes>>

-----------------------------------------------------------------------------
(* State *)

MaybeRequest == Requests \cup {NoRequest}
NoStep == <<NoMission, 0>>

(* ABSENT: the id is not drawn yet.  UNSAVED: drawn by a handler that has  *)
(* not saved the mission yet, so nobody can read it.                       *)
Final  == {"COMPLETED", "FAILED", "REFUSED"}
Stops  == Final \cup {"BLOCKED", "AWAITING_APPROVAL", "APPROVAL_REQUIRED"}
Status == Stops \cup {"ABSENT", "UNSAVED", "RESUMING"}

Mission(s, n, r, k) == [status |-> s, next |-> n, request |-> r, named |-> k]
MissionRecord == [status : Status, next : Nat, request : MaybeRequest,
                  named : SUBSET Nat]

(* The points at which a handler is about to make its next step.  In Run   *)
(* it is executing the mission; before, it holds a snapshot of it.         *)
Claiming == {"claimBlocked", "claimPlanned", "claimDirect"}
Run      == {"step", "gate", "call", "approval", "approvedGate", "approvedCall", "persist"}
Points   == Claiming \cup Run \cup {"idle"}

Worker == [at : Points, mission : Missions \cup {NoMission}, next : Nat,
           request : MaybeRequest, named : SUBSET Nat, outcome : Status]

Handler(p, m, n, r, k, s) ==
    [at |-> p, mission |-> m, next |-> n, request |-> r, named |-> k, outcome |-> s]
Idle == Handler("idle", NoMission, 0, NoRequest, {}, "ABSENT")

TypeOK ==
    /\ missions \in [Missions -> MissionRecord]
    /\ approvals \in [Requests -> {"ABSENT", "PENDING", "APPROVED", "REJECTED"}]
    /\ askedFor \in [Requests -> Steps \cup {NoStep}]
    /\ tools \in [Instances -> SUBSET Tools]
    /\ killSwitch \in BOOLEAN
    /\ worker \in [Workers -> Worker]
    /\ runs \in [Steps -> 0..2]
    /\ overlapped \in SUBSET Missions
    /\ late \in [Workers -> 0..2]
    /\ faults \in Nat /\ restarts \in Nat /\ changes \in Nat

Init ==
    /\ missions = [m \in Missions |-> Mission("ABSENT", 1, NoRequest, Named[m])]
    /\ approvals = [r \in Requests |-> "ABSENT"]
    /\ askedFor = [r \in Requests |-> NoStep]
    /\ tools \in [Instances -> SUBSET Tools]
    /\ killSwitch = FALSE
    /\ worker = [w \in Workers |-> Idle]
    /\ runs = [x \in Steps |-> 0]
    /\ overlapped = {}
    /\ late = [w \in Workers |-> 0]
    /\ faults = 0 /\ restarts = 0 /\ changes = 0

-----------------------------------------------------------------------------
(* Workers *)

At(w, point) == worker[w].at = point
MissionOf(w) == worker[w].mission
StepOf(w) == <<worker[w].mission, worker[w].next>>
Finish(w) == worker' = [worker EXCEPT ![w] = Idle]
Goto(w, point) == worker' = [worker EXCEPT ![w].at = point]

(* Move with a new step, request and plan; stop with an outcome to save.   *)
Take(w, p, m, n, r, k) ==
    worker' = [worker EXCEPT ![w] = Handler(p, m, n, r, k, "ABSENT")]
Stop(w, outcome, r) ==
    worker' = [worker EXCEPT ![w] = Handler("persist", MissionOf(w), worker[w].next, r,
                                            worker[w].named, outcome)]

(* The tool of the step is named in the plan and has code on this instance. *)
Callable(w) == worker[w].next \in worker[w].named /\ ToolOf[StepOf(w)] \in tools[Home[w]]

-----------------------------------------------------------------------------
(* Starting: start_from_plan and start run before the mission is saved.    *)

MayStart == Cardinality({m \in Missions : missions[m].status # "ABSENT"}) < MaxMissions

Start(w, m) ==
    /\ At(w, "idle")
    /\ MayStart
    /\ missions[m].status = "ABSENT"
    /\ missions' = [missions EXCEPT ![m].status = "UNSAVED"]
    /\ Take(w, "step", m, 1, NoRequest, Named[m])
    /\ UNCHANGED <<approvals, askedFor, tools, killSwitch, effects, bounds>>

(* start_planned saves a mission that has no plan as failed. *)
PlanFails(w, m) ==
    /\ At(w, "idle")
    /\ MayStart
    /\ m \notin Direct
    /\ missions[m].status = "ABSENT"
    /\ missions' = [missions EXCEPT ![m].status = "FAILED"]
    /\ UNCHANGED <<approvals, askedFor, tools, killSwitch, worker, effects, bounds>>

-----------------------------------------------------------------------------
(* Resuming: the mission is read, then claimed if its status still is the  *)
(* one the route requires; the run works from what was read before.  Only  *)
(* resume() does not ask for the mission's mode.                           *)

Read(w, m, route) ==
    /\ At(w, "idle")
    /\ missions[m].status \notin {"ABSENT", "UNSAVED"}
    /\ m \in Direct => route = "claimDirect"
    /\ Take(w, route, m, missions[m].next, missions[m].request, missions[m].named)
    /\ overlapped' = overlapped \cup {n \in {m} : \E v \in Workers : MissionOf(v) = n}
    /\ UNCHANGED <<store, tools, killSwitch, runs, late, bounds>>

ClaimableTwice(m, required) ==        \* mutant: a claimed mission can be claimed
    missions[m].status \in {"RESUMING", required}
Claimable(m, required) == missions[m].status = required

ClaimAsRunning(w) ==                  \* mutant: a status outside the vocabulary
    missions' = [missions EXCEPT ![MissionOf(w)].status = "EXECUTING"]
Claim(w) == missions' = [missions EXCEPT ![MissionOf(w)].status = "RESUMING"]

NotClaimed(w, required) ==
    /\ ~Claimable(MissionOf(w), required)
    /\ Finish(w)
    /\ UNCHANGED missions

FromTheStart(h) == 1                  \* mutant: start_at left at its default
ResumeFrom(h) == h.next

(* A capability given by the caller fills in a tool the plan left null.    *)
ResumeBlockedClaim(w) ==
    LET h == worker[w] IN
    /\ At(w, "claimBlocked")
    /\ \/ NotClaimed(w, "BLOCKED")
       \/ /\ Claimable(h.mission, "BLOCKED")
          /\ Claim(w)
          /\ \E named \in {h.named, h.named \cup {h.next}} :
                Take(w, "step", h.mission, ResumeFrom(h), NoRequest, named)
    /\ UNCHANGED <<approvals, askedFor, tools, killSwitch, effects, bounds>>

ResumePlannedClaim(w) ==
    /\ At(w, "claimPlanned")
    /\ \/ NotClaimed(w, "AWAITING_APPROVAL")
       \/ /\ Claimable(MissionOf(w), "AWAITING_APPROVAL")
          /\ Claim(w)
          /\ Goto(w, "approval")
    /\ UNCHANGED <<approvals, askedFor, tools, killSwitch, effects, bounds>>

(* resume() of a planned mission raises after the claim: a planned mission *)
(* has no "tool" field.                                                    *)
ResumeDirectClaim(w) ==
    /\ At(w, "claimDirect")
    /\ \/ NotClaimed(w, "AWAITING_APPROVAL")
       \/ /\ Claimable(MissionOf(w), "AWAITING_APPROVAL")
          /\ Claim(w)
          /\ IF MissionOf(w) \in Direct THEN Goto(w, "approval") ELSE Finish(w)
    /\ UNCHANGED <<approvals, askedFor, tools, killSwitch, effects, bounds>>

-----------------------------------------------------------------------------
(* MissionEngine.run: one step after the other, each through the gate.     *)

Advance(w) ==
    Take(w, "step", MissionOf(w), worker[w].next + 1, NoRequest, worker[w].named)

SkipGap(w) == Advance(w)              \* mutant: the step is skipped
DropGap(w) == Finish(w)               \* mutant: returns without saving
Gap(w) == Stop(w, "BLOCKED", NoRequest)

NextStep(w) ==
    /\ At(w, "step")
    /\ \/ worker[w].next \notin StepsOf(MissionOf(w)) /\ Stop(w, "COMPLETED", NoRequest)
       \/ /\ worker[w].next \in StepsOf(MissionOf(w))
          /\ IF Callable(w) THEN Goto(w, "gate") ELSE Gap(w)
    /\ UNCHANGED <<store, tools, killSwitch, effects, bounds>>

SwitchUnread == TRUE                  \* mutant: the gate forgot the switch
SwitchOff == ~killSwitch

(* ExecutionGate.execute up to the call: kill switch, then Guardian.       *)
Gate(w) ==
    /\ At(w, "gate")
    /\ \/ ~SwitchOff /\ Stop(w, "BLOCKED", NoRequest)
          /\ UNCHANGED <<approvals, askedFor>>
       \/ /\ SwitchOff
          /\ "REFUSE" \in Verdicts[StepOf(w)]
          /\ Stop(w, "REFUSED", NoRequest)
          /\ UNCHANGED <<approvals, askedFor>>
       \/ /\ SwitchOff
          /\ "ALLOW" \in Verdicts[StepOf(w)]
          /\ Goto(w, "call")
          /\ UNCHANGED <<approvals, askedFor>>
       \/ /\ SwitchOff
          /\ "APPROVAL_REQUIRED" \in Verdicts[StepOf(w)]
          /\ \E r \in Requests :
                /\ approvals[r] = "ABSENT"
                /\ approvals' = [approvals EXCEPT ![r] = "PENDING"]
                /\ askedFor' = [askedFor EXCEPT ![r] = StepOf(w)]
                /\ Stop(w, "AWAITING_APPROVAL", r)
    /\ UNCHANGED <<missions, tools, killSwitch, effects, bounds>>

Capped(n) == IF n > 2 THEN 2 ELSE n

CallTool(w) ==
    /\ runs' = [runs EXCEPT ![StepOf(w)] = Capped(@ + 1)]
    /\ late' = IF killSwitch THEN [late EXCEPT ![w] = Capped(@ + 1)] ELSE late
    /\ UNCHANGED overlapped

(* The tool does its job, reports an ERROR of its own, or raises.  The     *)
(* engine reads the tool's own error and fails the mission; start(), which *)
(* is a single call with no engine around it, does not.                    *)
Call(w) ==
    /\ At(w, "call")
    /\ CallTool(w)
    /\ \E outcome \in {"ok", "error", "raised"} :
          IF outcome = "ok" \/ (outcome = "error" /\ MissionOf(w) \in Direct)
          THEN Advance(w)
          ELSE Stop(w, "FAILED", NoRequest)
    /\ UNCHANGED <<store, tools, killSwitch, bounds>>

-----------------------------------------------------------------------------
(* AxonOrchestrator.approve_and_resume and ExecutionGate.execute_approved. *)

NotRefused(r) == approvals[r] # "REJECTED"   \* mutant: PENDING is let through
Approved(r) == approvals[r] = "APPROVED"

ApprovalCheck(w) ==
    LET r == worker[w].request IN
    /\ At(w, "approval")
    /\ \/ r = NoRequest /\ Stop(w, "FAILED", r)
       \/ /\ r # NoRequest /\ ~Approved(r)
          /\ Stop(w, IF MissionOf(w) \in Direct THEN "AWAITING_APPROVAL"
                                                ELSE "APPROVAL_REQUIRED", r)
       \/ /\ r # NoRequest /\ Approved(r)
          /\ IF ToolOf[StepOf(w)] \in tools[Home[w]]
             THEN Goto(w, "approvedGate")
             ELSE Finish(w)                \* registry.get raises KeyError
    /\ UNCHANGED <<store, tools, killSwitch, effects, bounds>>

ApprovedGate(w) ==
    LET r == worker[w].request IN
    /\ At(w, "approvedGate")
    /\ \/ ~SwitchOff /\ Stop(w, "BLOCKED", r)
       \/ SwitchOff /\ "REFUSE" \in Rechecks[StepOf(w)] /\ Stop(w, "REFUSED", r)
       \/ SwitchOff /\ "ALLOW" \in Rechecks[StepOf(w)] /\ Goto(w, "approvedCall")
    /\ UNCHANGED <<store, tools, killSwitch, effects, bounds>>

(* Here nothing reads the tool's own error. *)
ApprovedCall(w) ==
    /\ At(w, "approvedCall")
    /\ CallTool(w)
    /\ \E outcome \in {"ok", "error", "raised"} :
          IF outcome = "raised" THEN Stop(w, "FAILED", worker[w].request)
                                ELSE Advance(w)
    /\ UNCHANGED <<store, tools, killSwitch, bounds>>

(* _persist_planned and _persist: the whole outcome in one merge.          *)
Persist(w) ==
    LET h == worker[w] IN
    /\ At(w, "persist")
    /\ missions' = [missions EXCEPT ![h.mission] =
                       Mission(h.outcome, h.next, h.request, h.named)]
    /\ Finish(w)
    /\ UNCHANGED <<approvals, askedFor, tools, killSwitch, effects, bounds>>

-----------------------------------------------------------------------------
(* The environment and failures *)

(* The decision is committed after its own reading of the kill switch, so  *)
(* it may fall anywhere.                                                   *)
Decide(r) ==
    /\ approvals[r] = "PENDING"
    /\ \E verdict \in {"APPROVED", "REJECTED"} :
          approvals' = [approvals EXCEPT ![r] = verdict]
    /\ UNCHANGED <<missions, askedFor, tools, killSwitch, worker, effects, bounds>>

(* An install or a rollback changes what an instance can call. *)
ChangeRegistry(i) ==
    /\ changes + restarts < MaxRegistryChanges
    /\ changes' = changes + 1
    /\ \E x \in Tools : \/ tools' = [tools EXCEPT ![i] = @ \cup {x}]
                        \/ tools' = [tools EXCEPT ![i] = @ \ {x}]
    /\ UNCHANGED <<store, killSwitch, worker, effects, faults, restarts>>

SetKillSwitch ==
    /\ killSwitch' = ~killSwitch
    /\ late' = [w \in Workers |-> 0]
    /\ UNCHANGED <<store, tools, worker, runs, overlapped, faults, restarts, changes>>

(* A store call raises and the handler ends there: before its effect, or   *)
(* in the audit write that follows a tool call.  A claim lost to           *)
(* contention, with the mission still claimable, ends it the same way.     *)
HandlerRaises(w) ==
    /\ faults < MaxFaults /\ faults' = faults + 1
    /\ ~At(w, "idle")
    /\ \/ UNCHANGED effects
       \/ worker[w].at \in {"call", "approvedCall"} /\ CallTool(w)
    /\ Finish(w)
    /\ UNCHANGED <<store, tools, killSwitch, restarts, changes>>

(* Restarting loses the handlers; what rehydration restores is up to the   *)
(* capabilities collection.                                                *)
Restart(i) ==
    /\ changes + restarts < MaxRegistryChanges
    /\ restarts' = restarts + 1
    /\ worker' = [w \in Workers |-> IF Home[w] = i THEN Idle ELSE worker[w]]
    /\ \E T \in SUBSET Tools : tools' = [tools EXCEPT ![i] = T]
    /\ UNCHANGED <<store, killSwitch, effects, faults, changes>>

-----------------------------------------------------------------------------
(* Specification *)

Arrive(w) == \E m \in Missions :
                \/ Start(w, m) \/ PlanFails(w, m)
                \/ \E route \in Claiming : Read(w, m, route)

Proceed(w) ==
    \/ ResumeBlockedClaim(w) \/ ResumePlannedClaim(w) \/ ResumeDirectClaim(w)
    \/ NextStep(w) \/ Gate(w) \/ Call(w)
    \/ ApprovalCheck(w) \/ ApprovedGate(w) \/ ApprovedCall(w)
    \/ Persist(w)

Next ==
    \/ \E w \in Workers : Arrive(w) \/ Proceed(w) \/ HandlerRaises(w)
    \/ \E r \in Requests : Decide(r)
    \/ \E i \in Instances : ChangeRegistry(i) \/ Restart(i)
    \/ SetKillSwitch

Spec == Init /\ [][Next]_vars
-----------------------------------------------------------------------------
(* Properties *)

Running(w) == worker[w].at \in Run

(* A mission is executed by one handler at a time, on any instance, and    *)
(* while it is nobody else can claim it: it is unsaved or RESUMING.        *)
OneRunner ==
    \A v, w \in Workers :
        /\ Running(w) => missions[MissionOf(w)].status \in {"UNSAVED", "RESUMING"}
        /\ v # w /\ Running(v) /\ Running(w) => MissionOf(v) # MissionOf(w)

(* A finished mission stays as it finished: no late answer, retry or       *)
(* resume from an older snapshot writes over it.                           *)
FinalStatusStands ==
    [][\A m \in Missions : missions[m].status \in Final =>
           missions'[m].status = missions[m].status]_vars

(* Past the approval check, a handler holds the owner's approval of the    *)
(* very step it is about to run, even if its snapshot of the mission is    *)
(* older than its claim.                                                   *)
ApprovalIsForThisStep ==
    \A w \in Workers : worker[w].at \in {"approvedGate", "approvedCall"} =>
        /\ worker[w].request \in Requests
        /\ approvals[worker[w].request] = "APPROVED"
        /\ askedFor[worker[w].request] = StepOf(w)

(* No tool runs before the tools of all earlier steps of its plan have     *)
(* run, and a mission is COMPLETED only when all of them have, in whatever *)
(* turns: it tells that the tools were called, not that none reported a    *)
(* failure of its own.                                                     *)
NoStepIsSkipped ==
    /\ \A x \in Steps : runs[x] > 0 => \A n \in 1..(x[2] - 1) : runs[<<x[1], n>>] > 0
    /\ \A m \in Missions : missions[m].status = "COMPLETED" =>
          \A n \in StepsOf(m) : runs[<<m, n>>] > 0

(* A mission that is claimed or unsaved with no handler left to run it is  *)
(* out of reach of every route.  Without a failing store call or a restart *)
(* only a resume of an approval strands one: the tool is gone from the     *)
(* registry, or a planned mission went through resume().                   *)
Stranded(m) ==
    /\ missions[m].status \in {"UNSAVED", "RESUMING"}
    /\ \A w \in Workers : Running(w) => MissionOf(w) # m
OnlyApprovalsStrand ==
    faults = 0 /\ restarts = 0 =>
        \A m \in Missions : Stranded(m) =>
            missions[m].status = "RESUMING" /\ missions[m].request \in Requests

(* After the kill switch is set a handler makes at most the one tool call  *)
(* it had already been let through to: every step asks again.              *)
SwitchStopsAfterOneCall == \A w \in Workers : late[w] <= 1

(* engine.py: a resumed mission does not replay completed steps, because   *)
(* replaying an EXTERNAL_EFFECT step would perform it twice.  True of      *)
(* handlers that come one after another, through any failure and restart:  *)
(* a step runs twice only if the mission was read while another was at it. *)
SerialStepsRunOnce == \A x \in Steps : runs[x] > 1 => x[1] \in overlapped

(* A mission of one tool call makes it once, however many handlers resume  *)
(* it: start() and resume() share one claim, and it is not given back.     *)
DirectRunsOnce == \A m \in Direct : runs[<<m, 1>>] <= 1

(* Once its tool was called, a mission of one call is past every call: its *)
(* runner is about to finish it and nobody can claim it again.             *)
PastTheCall(w) ==
    \/ At(w, "step") /\ worker[w].next > 1
    \/ At(w, "persist") /\ worker[w].outcome \in Final
DirectCallsAreLast ==
    \A m \in Direct : runs[<<m, 1>>] > 0 =>
        /\ missions[m].status \in Final \cup {"UNSAVED", "RESUMING"}
        /\ \A w \in Workers : Running(w) /\ MissionOf(w) = m => PastTheCall(w)

(* What each handler and each saved mission remembers of the steps, for    *)
(* the proof: the request goes with the step, and the steps before it ran. *)
RequestMatches(r, x) == r # NoRequest => askedFor[r] = x
RanBefore(m, n) == \A k \in 1..(n - 1) : k \in StepsOf(m) => runs[<<m, k>>] > 0

SnapshotsMatch ==
    /\ \A m \in Missions :
          /\ RequestMatches(missions[m].request, <<m, missions[m].next>>)
          /\ RanBefore(m, missions[m].next)
    /\ \A w \in Workers : ~At(w, "idle") =>
          /\ RequestMatches(worker[w].request, StepOf(w))
          /\ RanBefore(MissionOf(w), worker[w].next)

FreshRequests == \A r \in Requests : approvals[r] = "ABSENT" => askedFor[r] = NoStep

Stepping == {"gate", "call", "approvedGate", "approvedCall"}
PositionsMatch ==
    \A w \in Workers :
        /\ ~At(w, "idle") => MissionOf(w) \in Missions
        /\ worker[w].at \in Stepping => StepOf(w) \in Steps

(* A step is a step of the plan, or the end of it. *)
InPlan(m, n) == n \in 1..(Length[m] + 1)
NextInPlan ==
    /\ \A m \in Missions : InPlan(m, missions[m].next)
    /\ \A w \in Workers : ~At(w, "idle") => InPlan(MissionOf(w), worker[w].next)

(* A mission waits for an approval with its request saved, and keeps it    *)
(* while a handler goes through the approval.                              *)
Approving == {"approval", "approvedGate", "approvedCall"}
RequestsAreSaved ==
    /\ \A m \in Missions : missions[m].status = "AWAITING_APPROVAL" =>
          missions[m].request \in Requests
    /\ \A w \in Workers : worker[w].at \in Approving =>
          /\ missions[MissionOf(w)].status = "RESUMING"
          /\ missions[MissionOf(w)].request \in Requests
    /\ \A w \in Workers : At(w, "persist") =>
          /\ worker[w].outcome \in Stops
          /\ worker[w].outcome = "AWAITING_APPROVAL" => worker[w].request \in Requests
          /\ worker[w].outcome = "COMPLETED" => worker[w].next > Length[MissionOf(w)]

(* A call still to be made while the switch is on was let through before.  *)
LateCallsCounted ==
    \A w \in Workers :
        killSwitch /\ worker[w].at \in {"call", "approvedCall"} => late[w] = 0

(* Snapshots and saved missions agree with what was asked and what ran, so *)
(* that a run from a snapshot older than its claim is still in order and   *)
(* still covered by the approval it carries.                               *)
MissionInv ==
    /\ TypeOK
    /\ PositionsMatch
    /\ FreshRequests
    /\ NextInPlan
    /\ SnapshotsMatch
    /\ OneRunner
    /\ RequestsAreSaved
    /\ OnlyApprovalsStrand
    /\ ApprovalIsForThisStep
    /\ NoStepIsSkipped
    /\ LateCallsCounted
    /\ SwitchStopsAfterOneCall
    /\ DirectCallsAreLast
    /\ DirectRunsOnce

(* Missions are worked on in the turns of MissionTurns: handlers, claims,  *)
(* snapshots, approvals and failures are nothing but a way to take them.   *)
TurnOf(status) ==
    CASE status = "ABSENT" -> "NEW"
      [] status \in {"UNSAVED", "RESUMING"} -> "HELD"
      [] status = "COMPLETED" -> "DONE"
      [] status \in {"FAILED", "REFUSED"} -> "GIVEN_UP"
      [] OTHER -> "OPEN"
TurnNow == [m \in Missions |-> TurnOf(missions[m].status)]
CalledNow == [m \in Missions |-> {n \in StepsOf(m) : runs[<<m, n>>] > 0}]

Turns == INSTANCE MissionTurns WITH turn <- TurnNow, called <- CalledNow
RefinesMissionTurns == Turns!Spec

(* The engine's loop ends: every step of a handler leaves it less to do,   *)
(* until it is idle, for no step of a plan is gone back to.                *)
Remaining(h) ==
    CASE h.at = "idle" -> 0
      [] h.at = "persist" -> 1
      [] h.at = "call" -> 8 * (Length[h.mission] + 2 - h.next)
      [] h.at = "gate" -> 8 * (Length[h.mission] + 2 - h.next) + 1
      [] h.at = "step" -> 8 * (Length[h.mission] + 2 - h.next) + 2
      [] h.at = "approvedCall" -> 8 * (Length[h.mission] + 2 - h.next) + 3
      [] h.at = "approvedGate" -> 8 * (Length[h.mission] + 2 - h.next) + 4
      [] h.at = "approval" -> 8 * (Length[h.mission] + 2 - h.next) + 5
      [] h.at \in Claiming -> 8 * (Length[h.mission] + 2 - h.next) + 6

HandlersRunDown ==
    [][\A w \in Workers : worker'[w].at # worker[w].at =>
          At(w, "idle") \/ Remaining(worker'[w]) < Remaining(worker[w])]_vars

-----------------------------------------------------------------------------
(* What the repository says and the code does not do, refuted by a run.    *)

(* engine.py: a resumed mission does not replay completed steps, because   *)
(* replaying an EXTERNAL_EFFECT step would perform it twice.               *)
StepsRunOnce == \A x \in Steps : runs[x] <= 1
=============================================================================
