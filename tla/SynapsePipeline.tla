--------------------------- MODULE SynapsePipeline ---------------------------
(***************************************************************************)
(* SynapseEngine.propose_stream stage by stage, with what each stage may   *)
(* answer, the retry, the audit events, a client that goes away and a      *)
(* stage that raises; and what is later read from it: the owner's review   *)
(* of a request, the quarantine, the canonical state of a record and the   *)
(* planner's view of a capability's history.  Proposals run concurrently   *)
(* and share the kill switch, the audit log and the documents.             *)
(*                                                                         *)
(* A candidate is told from others by its proposal and attempt, and has    *)
(* the name its generator gave it.  Requests are named by the proposal     *)
(* that creates them.  Research, reasons and texts are left out.           *)
(***************************************************************************)
EXTENDS Integers, Sequences, FiniteSets

CONSTANTS
    Proposals,      \* calls of propose or propose_stream
    Names,          \* names a generator gives its candidates
    NoName, NoProposal,
    Replies         \* what the evaluator model may reply

ASSUME ConstantsAssumption ==
    /\ NoName \notin Names
    /\ NoProposal \notin Proposals

VARIABLES
    at,             \* per proposal: the stage it runs next
    record,         \* per proposal: the AcquisitionRecord
    killSwitch,
    requests,       \* approval_requests: the proposals that have created one
    passports,      \* capabilities collection: the proposal whose record is the passport
    installed,      \* capabilities collection: the names READY and implemented
    audit           \* audit_events, oldest first

vars == <<at, record, killSwitch, requests, passports, installed, audit>>

-----------------------------------------------------------------------------
(* The answers of the stages *)

MinEvaluatorScore == 50
MaxAttempts(retry) == IF retry THEN 2 ELSE 1

(* execute_in_sandbox over the sandbox's execute.  Code too long to run,   *)
(* code killed by its time limit or that does not start, and a test that   *)
(* leaves another status than 0 are answers, and failures; a call that     *)
(* fails, or is turned away for want of a token, gives none.               *)
Runs == {"call failed", "turned away",
         "too long", "timed out", "not started", "exit not 0", "exit 0"}
TestResults == {"UNREACHABLE", "FAILED", "PASSED"}
ExecuteInSandbox(run) ==
    IF run \in {"call failed", "turned away"} THEN "UNREACHABLE"
    ELSE IF run = "exit 0" THEN "PASSED" ELSE "FAILED"

(* evaluate and _parse: a reply counts if it is a JSON object whose score  *)
(* is a whole number from 0 to 100 and no boolean, whose passed is a       *)
(* boolean and whose reason, if there is one, is a text.                   *)
Unscored == [status |-> "UNSCORED", score |-> 0]
Evaluated(reply) ==
    IF /\ reply.kind = "object"
       /\ reply.scoreType = "whole"
       /\ reply.score \in 0..100
       /\ reply.passedIsBoolean /\ reply.reasonIsText
    THEN [status |-> "SCORED", score |-> reply.score]
    ELSE Unscored

BelowFloor(e) == e.status = "SCORED" /\ e.score < MinEvaluatorScore

-----------------------------------------------------------------------------
(* State *)

Attempts == 0..2                       \* 0: none yet
Outcomes == {"SAFETY_REJECTED", "SANDBOX_UNREACHABLE", "SANDBOX_PASSED", "SANDBOX_FAILED"}
Attempt == [name : Names, outcome : Outcomes]

Stages == {"KILL_SWITCH", "GUARDIAN_PRESCREEN", "RESEARCH", "GENERATE", "SAFETY_SCREEN",
           "SANDBOX_TEST", "EVALUATE", "GUARDIAN_SCREEN", "AWAITING_APPROVAL"}
Status == {"IN_PROGRESS", "BLOCKED", "REFUSED", "FAILED", "REJECTED", "AWAITING_APPROVAL"}

(* What safety, tests and evaluation are of is the attempt they were made  *)
(* in: 0 while the field is empty.                                         *)
Record ==
    [stage      : Stages \cup {"STARTED"},
     status     : Status,
     retry      : BOOLEAN,
     name       : Names \cup {NoName},
     candidate  : Attempts,
     safety     : [of : Attempts, safe : BOOLEAN],
     tests      : [of : Attempts, result : TestResults],
     evaluation : [of : Attempts, status : {"SCORED", "UNSCORED"}, score : 0..100],
     refused    : BOOLEAN,             \* record.guardian: its decision was REFUSE
     attempts   : Seq(Attempt)]

(* ended: the pipeline returned.  gone: its client left or a stage raised. *)
Points == (Stages \ {"KILL_SWITCH"}) \cup {"idle", "create", "save", "ended", "gone"}

Events == [proposal : Proposals, stage : Stages \cup {"STARTED"},
           status : Status \cup {"ERROR"}, name : Names \cup {NoName}]

TypeOK ==
    /\ at \in [Proposals -> Points]
    /\ record \in [Proposals -> Record]
    /\ killSwitch \in BOOLEAN
    /\ requests \in SUBSET Proposals
    /\ passports \in [Names -> Proposals \cup {NoProposal}]
    /\ installed \in SUBSET Names
    /\ audit \in Seq(Events)

NewRecord ==
    [stage |-> "STARTED", status |-> "IN_PROGRESS", retry |-> FALSE,
     name |-> NoName, candidate |-> 0,
     safety |-> [of |-> 0, safe |-> FALSE],
     tests |-> [of |-> 0, result |-> "UNREACHABLE"],
     evaluation |-> [of |-> 0, status |-> "UNSCORED", score |-> 0],
     refused |-> FALSE, attempts |-> <<>>]

(* Names may be installed from before the audit events that can be seen.   *)
Init ==
    /\ at = [p \in Proposals |-> "idle"]
    /\ record = [p \in Proposals |-> NewRecord]
    /\ killSwitch = FALSE
    /\ requests = {}
    /\ passports = [n \in Names |-> NoProposal]
    /\ installed \in SUBSET Names
    /\ audit = <<>>

-----------------------------------------------------------------------------
(* The pipeline's two ways on: yield snap(stage) and go on, or audit, then *)
(* yield snap(stage) and return.  _audit comes before snap, so the event   *)
(* carries the stage the record had before.                                *)

EarlyEvent(p, r) ==                    \* mutant: audited before the status is set
    [proposal |-> p, stage |-> r.stage, status |-> record[p].status, name |-> r.name]
Event(p, r) == [proposal |-> p, stage |-> r.stage, status |-> r.status, name |-> r.name]

Store == <<requests, passports, installed>>

GoesOn(p, r, stage, next) ==
    /\ record' = [record EXCEPT ![p] = [r EXCEPT !.stage = stage]]
    /\ at' = [at EXCEPT ![p] = next]
    /\ UNCHANGED audit

Ends(p, r, status, stage) ==
    LET closed == [r EXCEPT !.status = status] IN
    /\ audit' = Append(audit, Event(p, closed))
    /\ record' = [record EXCEPT ![p] = [closed EXCEPT !.stage = stage]]
    /\ at' = [at EXCEPT ![p] = "ended"]

(* The attempt being made, and the record with its outcome appended.       *)
Current(p) == record[p].candidate
WithOutcome(r, outcome) ==
    [r EXCEPT !.attempts = Append(@, [name |-> r.name, outcome |-> outcome])]

(* The kill switch, then Guardian's screen of the need, before anything is *)
(* spent; a proposal let through is audited as started.                    *)
Begin(p, retry) ==
    LET r == [NewRecord EXCEPT !.retry = retry] IN
    /\ at[p] = "idle"
    /\ \/ killSwitch /\ Ends(p, r, "BLOCKED", "KILL_SWITCH")
       \/ ~killSwitch /\ Ends(p, [r EXCEPT !.refused = TRUE], "REFUSED", "GUARDIAN_PRESCREEN")
       \/ /\ ~killSwitch
          /\ record' = [record EXCEPT ![p] = [r EXCEPT !.stage = "GUARDIAN_PRESCREEN"]]
          /\ at' = [at EXCEPT ![p] = "RESEARCH"]
          /\ audit' = Append(audit, Event(p, r))
    /\ UNCHANGED <<killSwitch, Store>>

Research(p) ==
    /\ at[p] = "RESEARCH"
    /\ GoesOn(p, record[p], "RESEARCH", "GENERATE")
    /\ UNCHANGED <<killSwitch, Store>>

(* No candidate: the model failed, or its answer was empty or unusable.    *)
Generate(p) ==
    LET r == record[p] IN
    /\ at[p] = "GENERATE"
    /\ \/ Ends(p, r, "FAILED", "GENERATE")
       \/ \E n \in Names :
             GoesOn(p, [r EXCEPT !.name = n, !.candidate = Len(r.attempts) + 1],
                    "GENERATE", "SAFETY_SCREEN")
    /\ UNCHANGED <<killSwitch, Store>>

KeptFromBefore(r, safe) ==             \* mutant: a retry keeps the first screening
    IF r.safety.of > 0 THEN r ELSE [r EXCEPT !.safety = [of |-> r.candidate, safe |-> safe]]
Screened(r, safe) == [r EXCEPT !.safety = [of |-> r.candidate, safe |-> safe]]

SafetyScreen(p) ==
    /\ at[p] = "SAFETY_SCREEN"
    /\ \E safe \in BOOLEAN :
          LET r == Screened(record[p], safe) IN
          IF r.safety.safe
          THEN GoesOn(p, r, "SAFETY_SCREEN", "SANDBOX_TEST")
          ELSE Ends(p, WithOutcome(r, "SAFETY_REJECTED"), "REJECTED", "SAFETY_SCREEN")
    /\ UNCHANGED <<killSwitch, Store>>

OneTooMany(r) == Len(r.attempts) <= MaxAttempts(r.retry)   \* mutant: off by one
HasAttemptLeft(r) == Len(r.attempts) < MaxAttempts(r.retry)

StraightToGuardian == "GUARDIAN_SCREEN"     \* mutant: a pass is taken for a score
AfterPassing == "EVALUATE"

SandboxTest(p) ==
    /\ at[p] = "SANDBOX_TEST"
    /\ \E run \in Runs :
          LET result == ExecuteInSandbox(run)
              r == [record[p] EXCEPT !.tests = [of |-> Current(p), result |-> result]]
              failed == WithOutcome(r, "SANDBOX_FAILED")
          IN
          \/ /\ result = "UNREACHABLE"
             /\ Ends(p, WithOutcome(r, "SANDBOX_UNREACHABLE"), "BLOCKED", "SANDBOX_TEST")
          \/ /\ result = "PASSED"
             /\ GoesOn(p, WithOutcome(r, "SANDBOX_PASSED"), "SANDBOX_TEST", AfterPassing)
          \/ /\ result = "FAILED"
             /\ IF HasAttemptLeft(failed)
                THEN GoesOn(p, failed, "SANDBOX_TEST", "GENERATE")
                ELSE Ends(p, failed, "REJECTED", "SANDBOX_TEST")
    /\ UNCHANGED <<killSwitch, Store>>

(* An unscored candidate goes on to the owner, marked as such.             *)
Evaluate(p) ==
    /\ at[p] = "EVALUATE"
    /\ \E reply \in Replies :
          LET e == Evaluated(reply)
              r == [record[p] EXCEPT !.evaluation =
                       [of |-> Current(p), status |-> e.status, score |-> e.score]]
          IN
          IF BelowFloor(e) THEN Ends(p, r, "REJECTED", "EVALUATE")
                           ELSE GoesOn(p, r, "EVALUATE", "GUARDIAN_SCREEN")
    /\ UNCHANGED <<killSwitch, Store>>

GuardianScreen(p) ==
    /\ at[p] = "GUARDIAN_SCREEN"
    /\ \/ Ends(p, [record[p] EXCEPT !.refused = TRUE], "REFUSED", "GUARDIAN_SCREEN")
       \/ GoesOn(p, record[p], "GUARDIAN_SCREEN", "create")
    /\ UNCHANGED <<killSwitch, Store>>

(* The last stage is three writes: the request, the document with its      *)
(* passport, and the audit event.                                          *)
CreateRequest(p) ==
    /\ at[p] = "create"
    /\ requests' = requests \cup {p}
    /\ record' = [record EXCEPT ![p].status = "AWAITING_APPROVAL"]
    /\ at' = [at EXCEPT ![p] = "save"]
    /\ UNCHANGED <<killSwitch, passports, installed, audit>>

SaveCapability(p) ==
    /\ at[p] = "save"
    /\ passports' = [passports EXCEPT ![record[p].name] = p]
    /\ installed' = installed \ {record[p].name}
    /\ at' = [at EXCEPT ![p] = "AWAITING_APPROVAL"]
    /\ UNCHANGED <<killSwitch, record, requests, audit>>

AwaitApproval(p) ==
    /\ at[p] = "AWAITING_APPROVAL"
    /\ Ends(p, record[p], "AWAITING_APPROVAL", "AWAITING_APPROVAL")
    /\ UNCHANGED <<killSwitch, Store>>

-----------------------------------------------------------------------------
(* What ends a proposal from outside, and the kill switch *)

Underway(p) == at[p] \notin {"idle", "ended", "gone"}

(* The record of a proposal that is cut off is lost but for its copy in    *)
(* the documents; it is kept here from the request on.                     *)
Lost(p) == IF p \in requests THEN record ELSE [record EXCEPT ![p] = NewRecord]

(* The client of a stream leaves, or the process stops: nobody asks for    *)
(* the next stage.                                                         *)
Abandoned(p) ==
    /\ Underway(p)
    /\ at' = [at EXCEPT ![p] = "gone"]
    /\ record' = Lost(p)
    /\ UNCHANGED <<killSwitch, Store, audit>>

(* A stage or a store call raises.  The stream routes audit it, with no    *)
(* capability and no status; propose leaves the exception to its caller,   *)
(* which is Abandoned.                                                     *)
StageRaises(p) ==
    /\ Underway(p)
    /\ at' = [at EXCEPT ![p] = "gone"]
    /\ audit' = Append(audit, [proposal |-> p, stage |-> "STARTED",
                               status |-> "ERROR", name |-> NoName])
    /\ record' = Lost(p)
    /\ UNCHANGED <<killSwitch, Store>>

SetKillSwitch ==
    /\ killSwitch' = ~killSwitch
    /\ UNCHANGED <<at, record, Store, audit>>

-----------------------------------------------------------------------------
(* Specification *)

Step(p) ==
    \/ \E retry \in BOOLEAN : Begin(p, retry)
    \/ Research(p) \/ Generate(p) \/ SafetyScreen(p) \/ SandboxTest(p)
    \/ Evaluate(p) \/ GuardianScreen(p)
    \/ CreateRequest(p) \/ SaveCapability(p) \/ AwaitApproval(p)
    \/ Abandoned(p) \/ StageRaises(p)

Next == (\E p \in Proposals : Step(p)) \/ SetKillSwitch

Spec == Init /\ [][Next]_vars
-----------------------------------------------------------------------------
(* What is read from it *)

(* review_package: the document of the capability the request names, if    *)
(* there is one, whichever request its passport is of.                     *)
Review(p) == passports[record[p].name]

(* compute_quarantine: the latest event about a name that is a verdict.    *)
Unblocked == {"REJECTED", "REFUSED"}   \* mutant: an outage does not count
Negative == {"REJECTED", "REFUSED", "BLOCKED"}
Cleared == {"AWAITING_APPROVAL"}

Verdicts(n) == {i \in DOMAIN audit :
                   audit[i].name = n /\ audit[i].status \in Negative \cup Cleared}
Quarantined(n) ==
    \E i \in Verdicts(n) :
        audit[i].status \in Negative /\ \A j \in Verdicts(n) : j <= i

(* memory.recommend for a need whose best match is the name top: strong if *)
(* the match is, with a rival name if the second best comes close.         *)
Recommend(top, strong, rival) ==
    IF rival # NoName /\ (rival \in installed) # (top \in installed)
    THEN "ESCALATE"
    ELSE IF Quarantined(top) THEN "DO_NOT_REUSE"
    ELSE IF top \in installed /\ strong THEN "REUSE_EXISTING_CAPABILITY"
    ELSE "ACQUIRE_NEW"

(* planner._detect_retry_recovery over the history of a name, and plan.    *)
RetryRecovered(n) ==
    \E i, j \in DOMAIN audit :
        /\ i < j
        /\ audit[i].name = n /\ audit[j].name = n
        /\ audit[i].status \in {"REJECTED", "FAILED", "BLOCKED"}
        /\ audit[i].stage = "SANDBOX_TEST"
        /\ audit[j].status = "AWAITING_APPROVAL"

Plan(top, strong, rival) ==
    LET advice == Recommend(top, strong, rival) IN
    IF advice = "REUSE_EXISTING_CAPABILITY" THEN advice
    ELSE IF advice # "ACQUIRE_NEW" THEN "ESCALATE"
    ELSE IF RetryRecovered(top) THEN "GENERATE_WITH_RETRY"
    ELSE "GENERATE_SINGLE_ATTEMPT"

(* state_machine.from_acquisition_record: NONE where it raises.            *)
Collapsed(r) ==                        \* mutant: an outage reported as a failure
    IF r.stage = "SANDBOX_TEST" THEN "SANDBOX_FAILED" ELSE "NONE"
Canonical(r) ==
    LET is(stage, status) == r.stage = stage /\ r.status = status IN
    CASE is("GUARDIAN_PRESCREEN", "REFUSED") -> "POLICY_REFUSED"
      [] is("SAFETY_SCREEN", "REJECTED")     -> "SAFETY_REJECTED"
      [] is("SANDBOX_TEST", "REJECTED")      -> "SANDBOX_FAILED"
      [] is("SANDBOX_TEST", "BLOCKED")       -> "SANDBOX_UNREACHABLE"
      [] is("EVALUATE", "REJECTED")          -> "EVALUATION_FAILED"
      [] is("GUARDIAN_SCREEN", "REFUSED")    -> "POLICY_REFUSED"
      [] is("AWAITING_APPROVAL", "AWAITING_APPROVAL") ->
             IF r.evaluation.status = "UNSCORED" THEN "EVALUATION_UNSCORED"
                                                 ELSE "AWAITING_APPROVAL"
      [] r.status = "FAILED"                 -> "GENERATION_FAILED"
      [] OTHER                               -> "NONE"

(* state_machine._TRANSITIONS *)
Transitions ==
    {<<"REQUESTED", "MEMORY_CHECKED">>, <<"REQUESTED", "POLICY_REFUSED">>,
     <<"MEMORY_CHECKED", "PLANNED">>,
     <<"PLANNED", "GENERATING">>, <<"PLANNED", "QUARANTINED">>,
     <<"GENERATING", "SCREENING">>, <<"GENERATING", "GENERATION_FAILED">>,
     <<"SCREENING", "SANDBOX_TESTING">>, <<"SCREENING", "SAFETY_REJECTED">>,
     <<"SANDBOX_TESTING", "EVALUATING">>, <<"SANDBOX_TESTING", "SANDBOX_FAILED">>,
     <<"SANDBOX_TESTING", "SANDBOX_UNREACHABLE">>,
     <<"EVALUATING", "AWAITING_APPROVAL">>, <<"EVALUATING", "EVALUATION_FAILED">>,
     <<"EVALUATING", "EVALUATION_UNSCORED">>,
     <<"EVALUATION_UNSCORED", "AWAITING_APPROVAL">>,
     <<"AWAITING_APPROVAL", "APPROVED">>, <<"AWAITING_APPROVAL", "APPROVAL_REJECTED">>,
     <<"APPROVED", "INSTALLING">>, <<"APPROVED", "POLICY_REFUSED">>,
     <<"INSTALLING", "INSTALLED">>, <<"INSTALLING", "INSTALL_FAILED">>,
     <<"INSTALLED", "EXECUTING">>, <<"INSTALLED", "ROLLED_BACK">>,
     <<"EXECUTING", "COMPLETED">>, <<"EXECUTING", "EXECUTION_FAILED">>,
     <<"COMPLETED", "ROLLED_BACK">>}

-----------------------------------------------------------------------------
(* Properties *)

(* Whatever a document offers is one candidate that was itself screened,   *)
(* passed its test in the sandbox, was not scored under the floor and not  *)
(* refused: a retry carries nothing of the candidate before it but its     *)
(* failure.                                                                *)
WentThrough(r) ==
    LET k == r.candidate IN
    /\ k \in 1..MaxAttempts(r.retry)
    /\ r.safety = [of |-> k, safe |-> TRUE]
    /\ r.tests = [of |-> k, result |-> "PASSED"]
    /\ r.evaluation.of = k /\ ~BelowFloor(r.evaluation)
    /\ ~r.refused
    /\ Len(r.attempts) = k
    /\ \A i \in 1..k : r.attempts[i].outcome =
           (IF i = k THEN "SANDBOX_PASSED" ELSE "SANDBOX_FAILED")

OfferedWentThrough ==
    \A n \in Names : passports[n] # NoProposal =>
        /\ passports[n] \in requests
        /\ record[passports[n]].name = n
        /\ WentThrough(record[passports[n]])

(* The owner who reviews a request is shown such a candidate of the name   *)
(* the request asks for: never nothing, even when a later proposal of the  *)
(* name was refused, cut off or is still under way.  It need not be the    *)
(* candidate of this request.                                              *)
ReviewsWentThrough ==
    \A p \in requests : at[p] = "ended" =>
        /\ Review(p) \in requests
        /\ record[Review(p)].name = record[p].name
        /\ WentThrough(record[Review(p)])

(* Nothing is spent on a need before the audit log says that it started,   *)
(* and a proposal that ends is closed in the log once, as it ended and for *)
(* the candidate it ended with; one that was cut off may stay open.  The   *)
(* event names the stage before the one that ended it.                     *)
EventsOf(p) == {i \in DOMAIN audit : audit[i].proposal = p}
Closing(p) == {i \in EventsOf(p) : audit[i].status # "IN_PROGRESS"}

StageBefore(stage, attempts) ==
    CASE stage \in {"KILL_SWITCH", "GUARDIAN_PRESCREEN"} -> "STARTED"
      [] stage = "RESEARCH"          -> "GUARDIAN_PRESCREEN"
      [] stage = "GENERATE"          -> IF attempts = <<>> THEN "RESEARCH" ELSE "SANDBOX_TEST"
      [] stage = "SAFETY_SCREEN"     -> "GENERATE"
      [] stage = "SANDBOX_TEST"      -> "SAFETY_SCREEN"
      [] stage = "EVALUATE"          -> "SANDBOX_TEST"
      [] stage = "GUARDIAN_SCREEN"   -> "EVALUATE"
      [] stage = "AWAITING_APPROVAL" -> "GUARDIAN_SCREEN"

OutcomesAreAudited ==
    \A p \in Proposals :
        /\ Underway(p) \/ record[p].candidate > 0 => EventsOf(p) # {}
        /\ Underway(p) => Closing(p) = {}
        /\ at[p] = "ended" =>
              \E i \in Closing(p) :
                  /\ Closing(p) = {i}
                  /\ audit[i].status = record[p].status
                  /\ audit[i].name = record[p].name
                  /\ audit[i].stage = StageBefore(record[p].stage, record[p].attempts)

(* The canonical state of a record tells what really ended it: an outage   *)
(* is never a failed candidate, nor a low score a failed test.  Only a     *)
(* proposal the kill switch stopped has none.                              *)
LastOutcome(r) == IF r.attempts = <<>> THEN "NONE" ELSE r.attempts[Len(r.attempts)].outcome

CauseIsTold ==
    \A p \in Proposals : at[p] = "ended" =>
        LET r == record[p]
            state == Canonical(r)
            last == LastOutcome(r)
        IN
        /\ state = "NONE" <=> r.stage = "KILL_SWITCH"
        /\ state = "SAFETY_REJECTED" <=> last = "SAFETY_REJECTED"
        /\ state = "SANDBOX_UNREACHABLE" <=> last = "SANDBOX_UNREACHABLE"
        /\ state = "SANDBOX_FAILED" <=> last = "SANDBOX_FAILED" /\ r.status # "FAILED"
        /\ state = "EVALUATION_FAILED" <=> last = "SANDBOX_PASSED" /\ BelowFloor(r.evaluation)
        /\ state \in {"AWAITING_APPROVAL", "EVALUATION_UNSCORED"} => WentThrough(r)

(* Memory recommends to reuse an installed capability only if no proposal  *)
(* of that name has been turned down since: neither rejected nor refused   *)
(* nor blocked, on whichever instance.                                     *)
ReuseIsSound ==
    \A top \in Names, rival \in Names \cup {NoName}, strong \in BOOLEAN :
        Plan(top, strong, rival) = "REUSE_EXISTING_CAPABILITY" =>
            \A p \in Proposals : at[p] = "ended" /\ record[p].name = top =>
                record[p].status = "FAILED"

(* A proposal moves as the declared table says, but for the moves the      *)
(* table leaves out: memory and plan are routes of their own, a retry goes *)
(* back to the generator, Guardian may refuse what was evaluated, and the  *)
(* kill switch has no state.                                               *)
Phase(p) ==
    CASE at[p] \in {"idle", "gone"} -> "REQUESTED"
      [] at[p] = "RESEARCH"         -> "PLANNED"
      [] at[p] = "GENERATE"         -> "GENERATING"
      [] at[p] = "SAFETY_SCREEN"    -> "SCREENING"
      [] at[p] = "SANDBOX_TEST"     -> "SANDBOX_TESTING"
      [] at[p] = "EVALUATE"         -> "EVALUATING"
      [] at[p] = "ended"            -> Canonical(record[p])
      [] OTHER -> IF record[p].evaluation.status = "UNSCORED" THEN "EVALUATION_UNSCORED"
                                                              ELSE "EVALUATING"

Undeclared ==
    {<<"REQUESTED", "PLANNED">>, <<"SANDBOX_TESTING", "GENERATING">>,
     <<"EVALUATING", "POLICY_REFUSED">>, <<"EVALUATION_UNSCORED", "POLICY_REFUSED">>,
     <<"REQUESTED", "NONE">>}

StagesAreDeclared ==
    [][\A p \in Proposals : at'[p] # "gone" /\ Phase(p)' # Phase(p) =>
           <<Phase(p), Phase(p)'>> \in Transitions \cup Undeclared]_vars

(* What a recovery the planner takes for direct proof does rest on: a      *)
(* candidate that passed its test and was scored under the floor, or a     *)
(* retry whose generator gave up.  A proposal rejected for its failed test *)
(* is never the evidence: its event names another stage.                   *)
RecoveriesAreExplained ==
    \A n \in Names : RetryRecovered(n) =>
        \E p \in Proposals :
            /\ at[p] = "ended" /\ record[p].name = n
            /\ \/ /\ record[p].status = "REJECTED"
                  /\ LastOutcome(record[p]) = "SANDBOX_PASSED"
                  /\ BelowFloor(record[p].evaluation)
               \/ record[p].status = "FAILED" /\ LastOutcome(record[p]) = "SANDBOX_FAILED"

-----------------------------------------------------------------------------
(* What the repository says and the code does not do, refuted by a run.    *)

(* planner.py: retry-with-feedback is planned again on "real evidence, not *)
(* a guess" that this capability failed a sandbox test.                    *)
RetryPlansAreEarned ==
    \A n \in Names : RetryRecovered(n) =>
        \E p \in Proposals : \E k \in DOMAIN record[p].attempts :
            record[p].attempts[k] = [name |-> n, outcome |-> "SANDBOX_FAILED"]
=============================================================================
