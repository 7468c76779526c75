# AION AXON: TLA+ specifications, model checking and proofs

AION AXON is a governed agent service. It plans missions, runs their steps
through an execution gate, and when a mission lacks a capability its SYNAPSE
pipeline generates one, has it tested in a sandbox, asks the owner, and installs
it. This directory models the parts of the service whose correctness depends on
what happens *between* two store calls: several HTTP workers on several
instances (Cloud Run) share one Firestore database and nothing else.

## 1. Inventory

### Components, their state and their operations

| Component | State it keeps | Operations | Source (`src/app/`) |
|---|---|---|---|
| SYNAPSE engine | none of its own: everything is in the store and the registry | `propose_stream`, `install`, `rollback` | `synapse/engine.py` |
| Approvals | `approval_requests` | `create`, `get`, `decide` | `governance/approval.py` |
| Document store | all collections; transactions on `decide_approval`, `claim_install`, `release_install_claim`, `claim_mission_transition`; plain merges elsewhere | one method per read or write | `memory/firestore_store.py` |
| Registry, rehydration | per process: name -> callable | `register`, `unregister`, `get`, `rehydrate_capabilities` at start-up | `capabilities/registry.py`, `rehydrate.py`, `bootstrap.py` |
| Kill switch | `system/control` | `activate`, `deactivate`, `is_active` | `governance/kill_switch.py` |
| Mission service | `missions` | `start`, `start_planned`, `start_from_plan`, `resume_blocked`, `resume_planned`, `resume` | `missions/service.py` |
| Mission engine | the run in progress | `run` | `missions/engine.py` |
| Orchestrator, gate | the workflow in progress | `execute_tool`, `approve_and_resume`; `execute`, `execute_approved` | `workflows/orchestrator.py`, `governance/execution_gate.py` |
| Guardian, policies | none | `evaluate`, `find_policy` | `governance/guardian.py`, `policies.py` |
| Autonomy ledger | autonomy fields of `capabilities` | `record_outcome`, `requires_supervision` | `governance/autonomy_ledger.py` |
| Evidence, verification, ground truth | evidence records | scoring of one result | `governance/verification.py`, `evidence_engine.py`, `ground_truth.py` |
| SYNAPSE stages | none | research, plan, generate, screen, sandbox, evaluate | `synapse/*.py` |
| Monitors | `monitors` | `create`, `disable`, `due`, `run_due`, `run_one` | `monitors/service.py` |
| Rate limits | per process: call times per key | `check` | `governance/rate_limit.py` |
| Ledger chain | the last seal | `seal`, `verify` | `beastmode/ledger_chain.py` |
| Acquisition state machine, quarantine, memory, planner | none | `transition`, `from_acquisition_record`; `compute_quarantine`; `recommend`; `plan`: views of audit events and documents | `beastmode/state_machine.py`, `quarantine.py`, `memory.py`, `synapse/planner.py` |
| Lineage and the other reports | none | pure views | `beastmode/*.py` |
| HTTP API | none | routes; `lifespan` rehydrates | `api.py` |
| Tools, agents, telemetry, web, sandbox service, scripts | none the rest depends on | | |

### Interactions and what is hard about them

* FastAPI runs each synchronous route in a thread pool. Two requests for the
  same mission or capability really do run at once, in one process or in two,
  and every store call is a point where the other may step in.
* `install` reads the capability document, then the approval, then claims the
  name, then registers, saves and records, and undoes part of that if a write
  raises. `propose_stream` may rewrite the document at any point of it.
* A proposal passes a dozen stages, may be retried once with the same record,
  may be abandoned by the client of its stream, and writes its result to three
  collections one after the other. Quarantine, the memory and the planner read
  the audit log it leaves.
* The registry is per process: installs and rollbacks change one process, and
  `rehydrate_capabilities` rebuilds it from the documents at start-up.
* A resume reads a mission *before* it claims it and runs from what it read.
  The result is saved by one merge long after the claim.
* The kill switch is read afresh at each check, and checks precede effects.
* A store call may raise: before its effect, or (a lost reply) after it.
* `record_outcome` reads the autonomy record and saves numbers computed from it,
  with nothing to keep another outcome of the same capability out.
* `run_due` lists the due monitors once; each run starts from its listed document
  and is merged into a document that may have changed.
* The ledger's seal and verification list the events, in the store's order, and
  use the list after other events have been written.
* The rate limiter reads the clock before it takes its lock.

### What makes each modelled component correct

* Acquisition: nothing is installed that the owner has not approved; of rival
  installs of a name one wins; an acquisition is recorded once; a kill switch
  that stays on lets everything drain.
* The pipeline: what the owner is offered was itself screened, tested and scored;
  the audit log and the canonical state tell what ended a proposal, once;
  an installed capability that was turned down later is not recommended.
* Approvals: a request is decided once, and the decision stands.
* Missions: one handler runs a mission at a time; no step is passed over; an
  approval is used for the step it was given for; a finished mission is not
  overwritten; a call already made is not made again; nothing but a resumed
  approval leaves a mission claimed for ever.
* Autonomy: it moves by outcomes that happened, no outcome is lost or counted twice
  unless two are recorded at once, an answer of the owner is counted once, and the
  gate lets through what the policies and the owner allow.
* Monitors: one that is disabled stays so, and was for a cause; failures are
  counted exactly unless runs overlap; runs keep their interval.
* Rate limits: no window holds more than the limit, and nobody is refused without
  cause, both up to how long a thread can be held up at the lock.
* Ledger chain: the same hash means the same events, a different one means a change.

The hazards, each at its line and with the properties that watch it, are in
`PROJECT.json`.

## 2. Modules

| Module | What it is |
|---|---|
| `InstallAuthority` | abstract: a request is asked, decided once, installed once, at most one per capability |
| `CapabilityLifecycle` | propose, decide, install, rollback, rehydration, kill switch, store call by store call |
| `SynapsePipeline` | `propose_stream` stage by stage, and what review, quarantine, memory, planner and state machine read from it |
| `MissionTurns` | abstract: a mission is worked on in turns, one handler at a time, its tools called in order, and what is done stays done |
| `MissionLifecycle` | missions from start to final status: service, engine, orchestrator, gate |
| `AutonomyLedger` | the autonomy record, the evidence verdict, Guardian's decision and the gate |
| `MonitorService` | scheduled monitors, their due list and failure count |
| `LedgerChain` | the hash chain over the evolution events, seal and verify |
| `RateLimiter` | the sliding window of one key of one process |
| `<Module>Proofs` | the theorems of each but the two abstract ones |
| `MC<Module>` | its constants for TLC |

### CapabilityLifecycle

A *worker* is one HTTP worker; `worker[w].at` names the store call it makes
next and the other fields are the local variables of the handler (`capability_name`,
`request_id`, the document's version). An action is the code from one store call
to the next, so interleaving is at the granularity of the store. `documents`,
`approvals`, `claims` are collections; `registry[i]` is the process-wide registry
of instance `i`; `acquired` and `rolledBack` count evolution events.

The code a proposal generates is identified with the approval request made for
it. That is how "a document's passport" and "the code behind a registered name"
can be compared, and it is exactly what the source confuses at rehydration.

Abstractions. The stages of `propose_stream` between the kill switch check and
the approval request change nothing a decision or an installation reads, so here
they are one point (`pipeline`) from which a proposal may end or go on;
`SynapsePipeline` takes them apart. The autonomy fields of a capability document are
written by merge and are disjoint from the fields here. The post-install autonomy
record and `resume_blocked` come after the last effect of an install: the first is
in `AutonomyLedger`, the second a resume in `MissionLifecycle`, which allows it at any
time. Documents of seed tools, which only carry autonomy fields, are left out. The
transactional calls are those of the Firestore store (the in-memory store has the
same outcomes under a lock). `LostReplies` lets the plain writes of `install`
(`save_capability`, `write_evolution_event`) be committed and still raise.

### SynapsePipeline

`at[p]` is the stage proposal `p` runs next and `record[p]` its `AcquisitionRecord`.
A candidate is told from others by its proposal and its attempt, so the fields for
screening, tests and evaluation say which attempt they are *of*: in the code the same
fields of one record are written again by a retry, and what could go wrong is that
an old value is taken for the new candidate's. `GoesOn` is a stage that yields and
continues, `Ends` one that audits, yields and returns; the audit event carries the
stage the record had *before*, because `_audit` comes before `snap()`. The sandbox and
the evaluator answer anything they can (`Runs`, `Replies`), and `ExecuteInSandbox` and
`Evaluated` are the code's reading of the answer. `Abandoned` and `StageRaises` may cut a
proposal off anywhere, between the three writes of the last stage included.

`Review`, `Quarantined`, `Recommend`, `RetryRecovered`, `Plan` and `Canonical` are
the code that reads records, documents and the audit log later. Installed names are
those at the start (any set), less those a proposal has taken the document of: installing is
in `CapabilityLifecycle`, so `ReuseIsSound` is about capabilities installed before the
events that can be seen, not about an approval that follows one of them. What a candidate's code
does, and which code the safety screen accepts, are left open.

### MissionLifecycle

A mission document holds its status, the step it stopped at (`next`), the
approval request it waits for and the steps whose tool the planner named.
`step_results` holds an EXECUTED record for exactly the steps before `next`, so it
is not stored. Guardian's verdict is any member of a set that is a constant per
step; the planner's plan is a constant; the tool does its job, reports an error
of its own, or raises. `runs` counts the calls of each step's tool (2 stands for
two or more), `overlapped` the missions two handlers have been on at once, and
`late` the calls a handler has made since the kill switch was last set.

`Read` is the read at the start of a resume route and the `Resume*Claim` actions the
claim that follows: what lies between them is the window in which another
handler may run the whole mission. A direct mission (`start`, a single tool call)
has no `plan`, which is why only `resume` serves it.

`RefinesMissionTurns` maps it to `MissionTurns`: UNSAVED and RESUMING are a turn that is
`HELD`, the final statuses are `DONE` and `GIVEN_UP`, every other status waits to be
resumed (`OPEN`), and `called` are the steps with `runs` above 0. Snapshots, approvals,
verdicts, the registry, the kill switch and failures have no counterpart there: they
are ways to take, use or leave a turn. `Call` lets an earlier step be called again, because
overlapping handlers do.

### AutonomyLedger

`tracked` and `records` are the ledger's fields of the `capabilities` documents,
`requests` the approvals the gate creates. A call is a capability, a risk and
the kind of policy its texts match: the *label* is the action text, the only one
the recheck of an approved call sees; the *detail* stands for the description and
the capability's name. `Execute`, `Decide` and `ExecuteApproved` are single steps,
because each is decided by a single read of shared state; `record_outcome`, where
races matter, is `ReadRecord`, `CreateRecord` (get() on a missing record) and
`SaveRecord`. `balance` is what the record would be had each outcome been
recorded in one step, and `overlapped` the capabilities for which two workers
have been between read and save at the same time.

Autonomy starts at a whole number and moves by whole numbers, so its rounding to
one decimal changes nothing; the two rates are functions of the counters. `Verified`
and `Confidence` are the evidence engine's verdict on what can be seen of a result.
An approved request belongs to one mission, whose claim is in `MissionLifecycle`;
here it can be carried out once (`claimed`). `Undecided` is the transaction of
`decide_approval`: a request is answered once, so `AnswersAreCounted` can compare the
interventions in the record, and those a worker is still recording, with the answers.

### MonitorService

A worker is one call of `run_due`: `due` and `seen` are its list, `monitor` the one it
is running. The gate asks for the kill switch in `StartRun`; the tool may take any time
before `EndCall`; `RecordRun` merges the update. `history` is what happened, counted
when it is recorded, and `overlapped` the monitors two lists have held at once.
Run counts and the fields that only describe the last run are left out, and with
them everything a stopped run writes. The list is worked through in any order,
as the store returns it.

### LedgerChain

`write_evolution_event` takes an event's timestamp and id in `Stamp` and stores it in
`Commit`, so events are stored in another order than they were stamped. A route reads
the list (`Read`, in any order the store may give it) and seals or compares it later.
A link's hash commits to its event and to the link before it and the function is taken
as injective, so `BuildChain` maps each event to the set of those before it in the
canonical order: two chains are equal exactly when the final hashes are. `changes`
numbers the states of the ledger and every reading keeps its number (`at`), which is
how the properties can say "in between". `Alter` and `Remove` are what the chain is there
to reveal: changes to the stored events that do not come from the program.

### RateLimiter

`ReadClock` is `time.monotonic()`, outside the lock; `Check` is everything under it. The
deque holds the times that were read, so it need not be sorted, and the loop that drops
old ones stops at the first that is not old. `admitted` and `refused` keep the true times.
`MaxStall` bounds the time between the two: without a bound neither property can hold.

## 3. Runs

All runs are exhaustive. Two workers are enough for every race here: each
property is about pairs of handlers, and a third can do to either nothing the
second cannot. One capability, because names share no state; two requests,
because a re-proposal needs a rival. Bounds: `MaxFaults`, `MaxRestarts`,
`MaxRollbacks`, `MaxRegistryChanges` cap how often the environment acts; the handlers
themselves are not bounded except by the number of request ids.

| Run | Question | Result |
|---|---|---|
| `LifecycleSafety` | Two instances, two rival proposals, one fault, one restart, one rollback: are installations approved, exclusive, recorded once, do documents tell what was decided, does a name call one code on every instance until a restart, and is `InstallAuthority` implemented? | holds |
| `LifecycleLiveness` | Does a kill switch that stays on drain the service, lost replies included? | holds |
| `LifecycleUnapprovedCode` | "Nothing installs without an explicit human yes" | refuted |
| `PipelineSafety` | Two concurrent proposals and two names, every answer of every stage, retries, cut-offs: is what is offered vetted, is every end audited once and told by its cause, does a verdict stop reuse, do stages follow the declared table? | holds |
| `PipelineRetryPlan` | A retry is planned on "real evidence, not a guess" | refuted |
| `MissionSafety` | A two-step mission and a single-call one, two handlers, every verdict, one fault, a restart or a registry change, the kill switch: one runner, no step passed over, approvals for their step, each step once unless handlers overlap, nothing stranded but by an approval, and is `MissionTurns` implemented? | holds |
| `MissionOverlap` | "replaying an EXTERNAL_EFFECT step would perform it twice" | refuted with two handlers |
| `AutonomySafety` | A verifiable seed and a SYNAPSE candidate, two workers, the owner, a fault: is trust earned, is every outcome and every answer counted, is every call permitted? | holds |
| `AutonomyLostDemotion` | "loses it when reality disagrees" | refuted with two missions |
| `MonitorSafety` | Two overlapping scheduler calls, two monitors, the owner, the kill switch, a fault | holds |
| `LedgerChainSafety` | Two events, two calls of seal or verify, changes past the program: does a verified chain prove the events intact, and a mismatch a change? | holds |
| `RateLimiterSafety` | Two threads, a limit of two calls in three units of time, one unit of stall: does the limit hold wherever the window is laid, and has a refusal its cause? | holds |

Why the bounds are enough. `MaxOutcomes` keeps a capability from being called once it
has five outcomes, which is enough to reach both ends of the autonomy scale (the
ceiling of 95 takes five successes, the floor two contradictions). `MaxTime` is the
clock's end: three monitor runs fit before it; the limiter's 9 units are three windows,
so that the deque fills, empties and fills again; two time values give the ledger
events with equal and with different timestamps. Mission plans have two steps because
an older snapshot must be able to name an earlier one, and the planner names no
tool for one step of `MissionSafety`, so that the capability given by the caller of
`resume_blocked` matters; `MaxMissions` 1 lets TLC choose which of the two missions is
started, as missions share nothing but the registries. Two proposals can rewrite each other's document and
one of them can be retried; the evaluator's replies are the scores at and around the
floor and the ends of the scale, and one of each malformed kind. `LifecycleSafety` and
`MissionOverlap` use symmetry in the requests, `MissionSafety` in requests and workers (both
are on its one instance), the pipeline runs in proposals and
names, the autonomy runs and `MonitorSafety` in the workers, the last two in
requests and callers: no property distinguishes them, and none of these
runs checks liveness. `LifecycleLiveness` uses none. No run disables the deadlock check.

`LifecycleInv`, `MissionInv`, `LedgerInv` and the other inductive invariants of §4 are
not among the runs' properties: they were model-checked on the instances above
before they were proved, and the proofs cover every instance.

**Fairness.** `FairSpec` asks weak fairness of each running handler: the thread
pool keeps an accepted request moving, and every point of a handler has an
enabled step whatever the others do. Nothing is asked of arrivals, of the owner, of
failures or of the kill switch.

### What the refuted statements show

* *Unapproved code.* Proposal A is approved and its install has read A's
  passport. Proposal B saves its passport in the same document. The install
  writes READY. After a restart, rehydration registers the candidate in the
  document: B's, which nobody approved. `ApprovedUntilRestart` (§4) shows that a restart is
  the only way: until one, the callable code is that of the claim
  (`CallableCodeIsClaimed`), which is approved.
* *Overlap.* A resume that read the mission BLOCKED at step 1 claims it after
  another resume ran step 1 and was stopped (BLOCKED) at step 2; it starts at
  step 1. `SerialStepsRunOnce` shows that it takes two handlers on the mission at
  once; `ApprovalIsForThisStep` and `NoStepIsSkipped` hold even so.
* *Lost demotion.* Two missions use the same capability. Both have read its record
  when one saves a contradiction; the other saves its promotion over it. The
  record shows no contradiction, and autonomy stands above the supervision
  threshold where it should have fallen to 29. `SerialOutcomesCount` shows that this
  takes an overlap, and `TrustIsEarned` that an overlap can lose outcomes and never
  invent one.
* *Retry plan.* A candidate passes its sandbox test and the evaluator turns it down. The
  outcome is audited (`engine.py:337`) before `snap("EVALUATE")`, so the log has REJECTED
  at SANDBOX_TEST. When a later candidate of the name is accepted, the planner
  takes the pair for a failed test that a retry repaired (`planner.py:70-73`) and
  plans retries for a name no candidate of which ever failed its test. The other
  way round, a real recovery inside one proposal leaves no event of its failed first
  attempt, so the planner cannot see it. `RecoveryEvidence` (§4) says what the planner's
  "recovery" does always rest on: a candidate that passed its test and scored under the
  floor, or a retry whose generator gave up, and never a proposal rejected for
  its failed test.

### Further disagreements

These can be seen in the models and have no run of their own.

* `CapabilityLifecycle`. A process that stops between claim and document leaves a
  claim that answers ALREADY_INSTALLED for ever (`InstallRefresh` with nothing
  acquired). An install whose last write, the evolution event, fails leaves a READY
  document and an empty registry (`InstallUndo`). Rejecting an older request marks a
  newer proposal's document REJECTED (`DecideMarkRejected` writes without comparing
  passports; `DocumentsTellDecisions` has what stays true, that some proposal of the name was
  rejected). A rollback leaves the code callable on the other instances
  (`RollbackUnregister` changes one registry), though never another code
  (`CallableCodeIsClaimed`). A decision that read the kill switch
  before it was set is committed after (`DecideStart`, `SetKillSwitch`,
  `DecideCommit`). `rollback` keeps the install claim, and a claim turns every other
  request away (`firestore_store.py:589`), so a capability rolled back is never acquired
  again, although `tests/test_lineage.py:49-51` has it acquired again.
* `SynapsePipeline`. The review of a request shows the candidate of the latest proposal of
  its name, which need not be the one the request is for (`ReviewsWentThrough` says what
  is always true of it). `recommend` treats FAILED as a negative outcome
  (`memory.py:142`), quarantine does not (`quarantine.py:23`). The state machine says
  that an unlisted move is unreachable (`api.py:1236-1243`); `Undeclared` lists the moves
  the pipeline makes past the table, Guardian's refusal of an evaluated candidate
  among them. EVALUATION_UNSCORED is among the failure states and has an onward
  transition. `from_install_result`, which the model leaves out, has no case for BLOCKED and
  ALREADY_INSTALLED.
* `MissionLifecycle`. A tool that reports its own error in an approved step is recorded
  EXECUTED and the mission goes on to COMPLETED (`ApprovedCall`; `service.py:381`), where
  `missions/engine.py:104` fails the mission for the same result; COMPLETED says that
  every tool was called (`NoStepIsSkipped`), not that each did its job.
  `resume` of a planned mission claims it and raises on its missing `tool` field
  (`service.py:463`), as `approve_and_resume` does when the tool is not registered
  (`orchestrator.py:198`), and a resume before the owner decides saves APPROVAL_REQUIRED
  (`service.py:364`): no route continues such missions. Those stuck RESUMING come,
  failures and restarts apart, from resumed approvals alone (`OnlyApprovalsStrand`). `firestore_store.py:462-465`
  accepts a mission left RESUMING as "stuck-but-honest".
* `AutonomyLedger`. A policy that asks for approval, and G-07, come before the refusal
  of a high risk, so they turn a refusal into a question, which `guardian.py` says a
  policy cannot do ("raise the bar but never lower it").
* `MonitorService`. Of two overlapping runs one failure is lost, so three failures in a
  row need not disable; and a call held for approval counts as a failure, so three
  of them disable a monitor whose tool never ran.
* `LedgerChain`. `ledger_chain.py` says that a different hash proves that something was
  altered or reordered: an event appended in the ordinary way gives a MISMATCH too. An
  event added and removed between seal and verification leaves no trace. The in-memory
  store numbers events by how many it has (`firestore_store.py:225`), so two writers at once may
  share a number; the model has Firestore's ids, which are drawn.
* `RateLimiter`. The docstring of `check` says that a call is recorded "either way"
  (`rate_limit.py:53`): a refused one is not. The comparison with the window is strict, so a
  client that waits exactly `retry_after_seconds` may be refused again.

## 4. Theorems

`tlapm` checks every proof for all values of the constants that satisfy each module's
`ConstantsAssumption`: any number of capabilities, missions, requests, proposals,
workers, instances, failures and restarts, any limit, window and clock.

**CapabilityLifecycleProofs.** `ClaimsAreApproved`, `InstallIsExclusive`,
`AcquiredOnce`, `DocumentsTellDecisions` and `CallableCodeIsClaimed` are not inductive:
they depend on what a worker remembers between two store calls. `LifecycleInv`
adds that (`WorkersKnow`): past the approval check the request a worker carries
is approved and is about its capability; in the critical section its claim
stands; and before the first restart it has put code in its own instance's registry at
most, and taken it out again before it releases the claim (`OnlyItsOwnRegistry`), so that
no code outlives its claim. An acquired name keeps its claim
(`AcquisitionsHoldTheClaim`), because the only release comes from a worker whose event
has not been written, or was written by a call that raised. Each such lost reply allows
one acquisition more, which is the bound of `AcquiredOnce`: `Unheard + 1`, hence one
where replies are not lost. The proof has one lemma per action.
`ApprovedUntilRestart` is the part of the refuted `RunningCodeApproved` that is true.
`BoundedHandlers` (`HandlersRunDown`) is the safety half of `KillSwitchQuiesces`: every step
of a handler, a failing one too, leaves it fewer store calls to make (`StepsLeft`), and
while the switch is on an idle worker takes up nothing but a rollback.
`Refinement` follows from the invariant: a step that records an acquisition maps to
`Install`, a decision to `Decide`, the rest stutter. It assumes `~LostReplies`: if
the event's write can be committed and still raise, the install is undone and may be
made again, which `InstallAuthority` does not allow.

**SynapsePipelineProofs.** `OfferedWentThrough` is about what a document offers long after
the stages ran, and nothing in it says what the stages on the way have established.
`PipelineInv` adds, for every point, what the record says of the current attempt there
(`Ready`): nothing but failed tests behind it while the generator may be asked
(`Trying`), then one more result of this very candidate after each stage (`Chosen`,
`Safe`, `Tested`, `Scored`). A record that a document or a request names no longer
moves (`RequestsHaveOffers`), so an offer, once vetted, stays vetted.
The other theorems start from the ways a proposal can end. `Cause` lists the nine, each
with the stage, the status and the last thing said of the last candidate; that every
ending is one of them (`Endings`) follows from `PipelineInv`, and stays so
(`EndsHaveCauses`), which gives `CauseIsTold` and, together with the moves between stages,
`StagesAreDeclared`. `LogSteps` says what
a step writes to the audit log: a start, nothing, an ending as it is in the record, or an
error. A record names the stage before the one it is in (`StagesLag`), so
the event that ends it does too. From both `LogInv` is inductive (no event before a
proposal begins, none that closes it before it ends, exactly one then, with the status, the
name and that stage, and nothing but an error for a proposal cut off), which gives
`OutcomesAreAudited`. A REJECTED event at SANDBOX_TEST therefore belongs to a proposal the
evaluator ended, a FAILED one there to a retry whose generator gave up
(`RecoveryEvidence`). Inductive in the same way is
`ReuseInv`: a name whose event says AWAITING_APPROVAL is not installed, because the document
of that proposal took its place before the event was written. A name that memory would
reuse has therefore no such event, a negative one would be its latest verdict,
and every ended proposal has its event (`ReuseIsSound`).

**MissionLifecycleProofs.** A resumed handler works from a snapshot it took before its
claim, so `ApprovalIsForThisStep` and `NoStepIsSkipped` are not inductive: nothing in
them says that an old snapshot is still right. `MissionInv` adds what is. In every
snapshot and every saved mission the request goes with the step and the steps
before it have run (`SnapshotsMatch`); requests are not reused (`FreshRequests`), so
what was asked stays asked; a mission that waits for an approval has its request
saved, and keeps it while a handler goes through the approval (`RequestsAreSaved`), so that
a handler that raises there leaves what `OnlyApprovalsStrand` says; a handler at a
gate or a call is at a step of its plan (`PositionsMatch`); a call still to be made while
the switch is on is a handler's first (`LateCallsCounted`); and once a mission of
one call has made it, its runner can only end it (`DirectCallsAreLast`). Approvals
and calls are never taken back (`RequestsStand`, `RunsStand`), so an older snapshot only
lags behind; that is why overlapping resumes keep order and approvals and lose only
`StepsRunOnce`. The proof has a lemma per conjunct; those about handlers split a step
into the one handler that moves (`OthersStay`, `SameMission`, `Landing`) and the
environment (`EnvironmentMoves`).
`Refinement` (`RefinesMissionTurns`) takes the steps that write missions or call tools
one by one: starts and claims are `Take`, a call is `Call` because `NoStepIsSkipped` and
`SnapshotsMatch` have the steps before it called, a save is `Leave`, which may
say DONE because the loop has left the plan behind it; all other steps leave turns and
calls as they are. `BoundedHandlers` says that each step of a handler brings it nearer to its
end (`Remaining`, for plans of any length): no handler runs for ever, whatever others do.
`FinalStands` is an action property and follows from
`OneRunner`: a write to a mission comes from its runner or from a claim, and a
finished mission has neither. `SerialStepsRunOnce` needs a second invariant,
`SerialInv`, about the missions no handler has read while another was at them: one
handler is at such a mission (`Sole`), what it has read is what is stored, and neither
the steps it is about to run (`HeldAhead`) nor those a stored mission can be
resumed at (`SavedAhead`) have been run by anyone (`Untried`).

**AutonomyLedgerProofs.** `TrustIsEarned` says nothing of what a worker between read and
save is about to write, and `SerialOutcomesCount` nothing of whether what it has read
is still the record. `LedgerInv` adds both: what a worker has seen is earned
(`SnapshotsAreEarned`), and of a capability with no overlap it is the record itself,
and at most one worker is recording it (`SerialSnapshots`); a capability without a
document has a fresh record (`Untracked`), so `CreateRecord` writes over nothing.
The owner's answers are counted against the balance, which no overlap disturbs
(`AnswersBalance`); where outcomes did not overlap the record is the balance, so
`CountedAnswers` follows, and one direction of it, that none is counted twice, whatever
overlaps. `SupervisedUntilVerified` is a consequence of earned trust: nothing reaches the
level at which the owner is no longer asked without a success that was verified.
For calls the invariant adds that a capability installed has its record
(`InstalledAreTracked`) and that every request names a call the Guardian held (`HeldCalls`),
so the recheck, which sees the label alone, need not find a prohibition again.
The arithmetic is in lemmas of its own (`OutcomeIsEarned`, `EarnedStands`). Steps that
touch no record are one case (`QuietStep`), so each conjunct has four: quiet,
`ReadRecord`, `CreateRecord`, `SaveRecord`. Requests keep their call and an approval
stands (`RequestsStand`), and a call about to be made comes from a verdict or
from an approval (`Callers`), which gives `CallsArePermitted`.

**MonitorServiceProofs.** A scheduler works from documents that may be old, so
`MonitorInv` says what is still true of them: the failures in a listed document
did happen (`SeenFailuresHappened`), which is all `StoppedForCause` needs; and of a monitor
no two lists have held, one list has it (`OneList`), with the failure count that is
stored, short of three, at a time when it is due (`ListIsFresh`), which gives
`SerialStreakCounts`. `RunsMoveTheSchedule` ties the next run to the last one for
`RunsAreSpaced`; a monitor not created yet is on no list (`AbsentIsUntouched`).
`DisabledStays` needs no invariant but the types: the merge of a run never names another
state.

**LedgerChainProofs.** A report compares two readings that were taken at different times, so
`ChainInv` speaks of every reading that is kept, by the seal, by a request or in a report
(`Kept`): it is the canonical chain of its own events (`Faithful`), whatever order the
store listed them in; events that were gone before are not in it; and two readings of the
same change are equal (`KeptAgree`). What is gone does not come back (`GoneIsGone`),
because ids are drawn once and an alteration is for good. From equal chains
`VerifiedProvesIntact` follows, and from equal changes an equal chain, which is
`MismatchProvesChange` read backwards.

**RateLimiterProofs.** `LimiterInv` says that the deque is the end of the history of
admissions (`DequeIsTheEnd`), that what has left it is older than the window (`LostAreOld`),
that the times read are late by at most the stall (`StallsAreShort`), and that
no window, those that begin in the future included, holds more than the limit
(`LimitInEveryWindow`). The
call `MaxCalls` before an admitted one has therefore left the deque
(`WindowHolds`), and the one `MaxCalls` before a refusal is still in it
(`RefusalHasCause`).

**Only model-checked:** liveness (`KillSwitchQuiesces`), which is out of the provers' reach
as is anything about ENABLED (`BoundedHandlers` proves what its variant needs; that an
enabled step is taken is the fairness), and the four refuted statements, of which
`ApprovedUntilRestart`, `SerialStepsRunOnce`, `SerialOutcomesCount` and `RecoveryEvidence` are the
true remainders. Every other property of the runs is a theorem.

## 5. Plan

Done: the abstract install authority and the turns of a mission, and what implements
them; the lifecycle, the pipeline, missions, autonomy, monitors, the ledger chain and the
limiter, each with its runs and its proofs. Left:

1. A composition of a mission blocked at a gap with the acquisition that unblocks it
   (`install` calling `resume_blocked`). Today `MissionLifecycle` covers it from the
   mission's side: `ResumeBlockedClaim` may come from anyone at any time and
   `ChangeRegistry` is the install.
2. `lineage` and `from_install_result` over the events of `CapabilityLifecycle`.
3. The recorded facts that `verify_research` compares findings with.

## 6. Not modelled

Pure text processing and model calls (agents, generator, evaluator, web
research), the rules of the safety screen, the sandbox's child process, owner
authentication (one comparison), the seed tables, Taskmaster's workflow record (local to
one handler), lineage and the other read-only reports, telemetry, the web interface and
scripts. Audit events are modelled where something reads them back, in
`SynapsePipeline`; the bound on the events such a reader lists
(`list_audit_events(limit=1000)`) is not, so a verdict older than the last
thousand events, which the code forgets, is remembered there.
