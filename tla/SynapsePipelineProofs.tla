------------------------ MODULE SynapsePipelineProofs ------------------------
(***************************************************************************)
(* Proofs about SynapsePipeline, for every number of proposals and names   *)
(* and every reply: what a stage finds in the record when it starts, and   *)
(* so what a document that offers a capability was put through; how a      *)
(* proposal ends; and what the audit log then holds and memory makes of it.*)
(***************************************************************************)
EXTENDS SynapsePipeline, TLAPS

(* What each stage finds in the record: nothing but failures while the     *)
(* generator may be asked, then one more thing about the candidate after   *)
(* each stage.                                                             *)
Trying(r) ==
    /\ Len(r.attempts) < MaxAttempts(r.retry)
    /\ \A i \in DOMAIN r.attempts : r.attempts[i].outcome = "SANDBOX_FAILED"

Chosen(r) == r.candidate = Len(r.attempts) + 1 /\ r.name \in Names
Safe(r) == r.safety = [of |-> r.candidate, safe |-> TRUE]

Tested(r) ==
    /\ Safe(r) /\ r.name \in Names
    /\ r.tests = [of |-> r.candidate, result |-> "PASSED"]
    /\ r.candidate \in 1..MaxAttempts(r.retry)
    /\ Len(r.attempts) = r.candidate
    /\ \A i \in 1..r.candidate : r.attempts[i].outcome =
           (IF i = r.candidate THEN "SANDBOX_PASSED" ELSE "SANDBOX_FAILED")

Scored(r) == r.evaluation.of = r.candidate /\ ~BelowFloor(r.evaluation)

Asked == {"save", "AWAITING_APPROVAL"}
Left == {"AWAITING_APPROVAL", "ended", "gone"}

Ready(r, point) ==
    /\ point \in {"RESEARCH", "GENERATE"} => Trying(r)
    /\ point \in {"SAFETY_SCREEN", "SANDBOX_TEST"} => Trying(r) /\ Chosen(r)
    /\ point = "SANDBOX_TEST" => Safe(r)
    /\ point \in {"EVALUATE", "GUARDIAN_SCREEN", "create"} \cup Asked => Tested(r)
    /\ point \in {"GUARDIAN_SCREEN", "create"} \cup Asked => Scored(r)
    /\ point \notin {"idle", "ended", "gone"} => ~r.refused

(* A request is there once it was asked for, and a document is there once  *)
(* the last stage has saved it.                                            *)
Saved == {"AWAITING_APPROVAL", "ended"}
RequestsHaveOffers ==
    \A p \in requests :
        /\ at[p] \in Asked \cup {"ended", "gone"}
        /\ at[p] \in Saved => record[p].name \in Names /\ Review(p) # NoProposal

PipelineInv ==
    /\ TypeOK
    /\ \A p \in Proposals : Ready(record[p], at[p])
    /\ \A p \in Proposals : at[p] \in Asked => p \in requests
    /\ \A n \in Names : passports[n] # NoProposal => at[passports[n]] \in Left
    /\ OfferedWentThrough
    /\ RequestsHaveOffers

-----------------------------------------------------------------------------
(* Types *)

LEMMA RecordFields ==
    ASSUME NEW r \in Record
    PROVE  /\ r.stage \in Stages \cup {"STARTED"} /\ r.status \in Status
           /\ r.retry \in BOOLEAN /\ r.refused \in BOOLEAN
           /\ r.name \in Names \cup {NoName}
           /\ r.candidate \in Attempts /\ r.attempts \in Seq(Attempt)
BY DEF Record

LEMMA RecordUpdates ==
    ASSUME NEW r \in Record
    PROVE  /\ \A s \in Stages : [r EXCEPT !.stage = s] \in Record
           /\ \A s \in Status : [r EXCEPT !.status = s] \in Record
           /\ [r EXCEPT !.refused = TRUE] \in Record
           /\ \A n \in Names, k \in Attempts :
                 [r EXCEPT !.name = n, !.candidate = k] \in Record
           /\ \A k \in Attempts, b \in BOOLEAN :
                 [r EXCEPT !.safety = [of |-> k, safe |-> b]] \in Record
           /\ \A k \in Attempts, t \in TestResults :
                 [r EXCEPT !.tests = [of |-> k, result |-> t]] \in Record
           /\ \A s \in Seq(Attempt) : [r EXCEPT !.attempts = s] \in Record
           /\ \A k \in Attempts, s \in {"SCORED", "UNSCORED"}, n \in 0..100 :
                 [r EXCEPT !.evaluation = [of |-> k, status |-> s, score |-> n]] \in Record
<1>1. /\ \A s \in Stages : [r EXCEPT !.stage = s] \in Record
      /\ \A s \in Status : [r EXCEPT !.status = s] \in Record
  BY DEF Record
<1>2. [r EXCEPT !.refused = TRUE] \in Record
  BY DEF Record
<1>3. \A n \in Names, k \in Attempts : [r EXCEPT !.name = n, !.candidate = k] \in Record
  BY DEF Record
<1>4. \A k \in Attempts, b \in BOOLEAN :
         [r EXCEPT !.safety = [of |-> k, safe |-> b]] \in Record
  BY DEF Record
<1>5. \A k \in Attempts, t \in TestResults :
         [r EXCEPT !.tests = [of |-> k, result |-> t]] \in Record
  BY DEF Record
<1>6. \A s \in Seq(Attempt) : [r EXCEPT !.attempts = s] \in Record
  BY DEF Record
<1>7. \A k \in Attempts, s \in {"SCORED", "UNSCORED"}, n \in 0..100 :
         [r EXCEPT !.evaluation = [of |-> k, status |-> s, score |-> n]] \in Record
  BY DEF Record
<1>8. QED
  BY <1>1, <1>2, <1>3, <1>4, <1>5, <1>6, <1>7

LEMMA NewRecordTyped ==
    /\ NewRecord \in Record
    /\ \A b \in BOOLEAN : [NewRecord EXCEPT !.retry = b] \in Record
<1>1. /\ "STARTED" \in Stages \cup {"STARTED"} /\ "IN_PROGRESS" \in Status
      /\ 0 \in Attempts /\ 0 \in 0..100 /\ "UNREACHABLE" \in TestResults
      /\ <<>> \in Seq(Attempt)
  BY DEF Status, Attempts, TestResults
<1>2. NewRecord \in Record
  BY <1>1 DEF NewRecord, Record
<1>3. \A b \in BOOLEAN : [NewRecord EXCEPT !.retry = b] \in Record
  BY <1>2 DEF Record
<1>4. QED
  BY <1>2, <1>3

LEMMA EventTyped ==
    ASSUME NEW p \in Proposals, NEW r \in Record
    PROVE  Event(p, r) \in Events
BY RecordFields DEF Event, Events

(* The stages are points of the pipeline, but for the kill switch. *)
LEMMA Vocabulary ==
    /\ {"RESEARCH", "GENERATE", "SAFETY_SCREEN", "SANDBOX_TEST", "EVALUATE",
        "GUARDIAN_SCREEN", "AWAITING_APPROVAL"} \subseteq Stages \cap Points
    /\ {"KILL_SWITCH", "GUARDIAN_PRESCREEN"} \subseteq Stages
    /\ {"idle", "create", "save", "ended", "gone"} \subseteq Points
    /\ {"BLOCKED", "REFUSED", "FAILED", "REJECTED", "AWAITING_APPROVAL"} \subseteq Status
BY DEF Stages, Points, Status

LEMMA AppendFacts ==
    ASSUME NEW S, NEW s \in Seq(S), NEW e \in S
    PROVE  /\ Append(s, e) \in Seq(S)
           /\ Len(Append(s, e)) = Len(s) + 1
           /\ Append(s, e)[Len(s) + 1] = e
           /\ \A i \in 1..Len(s) : Append(s, e)[i] = s[i]
OBVIOUS

LEMMA AttemptAppended ==
    ASSUME NEW r \in Record, r.name \in Names, NEW outcome \in Outcomes
    PROVE  LET w == WithOutcome(r, outcome) IN
           /\ w \in Record
           /\ w = [r EXCEPT !.attempts = w.attempts]
           /\ Len(w.attempts) = Len(r.attempts) + 1
           /\ w.attempts[Len(r.attempts) + 1].outcome = outcome
           /\ \A i \in 1..Len(r.attempts) : w.attempts[i] = r.attempts[i]
<1> DEFINE new == [name |-> r.name, outcome |-> outcome]
           longer == Append(r.attempts, new)
<1>1. new \in Attempt /\ new.outcome = outcome /\ r.attempts \in Seq(Attempt)
  BY RecordFields DEF Attempt
<1>2. WithOutcome(r, outcome) = [r EXCEPT !.attempts = longer]
  BY DEF WithOutcome
<1> HIDE DEF new
<1>3. /\ longer \in Seq(Attempt) /\ Len(longer) = Len(r.attempts) + 1
      /\ longer[Len(r.attempts) + 1] = new
      /\ \A i \in 1..Len(r.attempts) : longer[i] = r.attempts[i]
  BY <1>1, AppendFacts
<1> HIDE DEF longer
<1>4. [r EXCEPT !.attempts = longer].attempts = longer
  BY DEF Record
<1>5. [r EXCEPT !.attempts = longer] \in Record
  BY <1>3, RecordUpdates
<1>6. QED
  BY <1>1, <1>2, <1>3, <1>4, <1>5
-----------------------------------------------------------------------------
(* One proposal moves.  Its record may change under a document that names  *)
(* it only as AwaitApproval does, which changes nothing of what it offers. *)
LEMMA Moved ==
    ASSUME PipelineInv, NEW p \in Proposals, NEW r \in Record, NEW a \in Points,
           record' = [record EXCEPT ![p] = r], at' = [at EXCEPT ![p] = a],
           at[p] \notin {"ended", "gone"}, Ready(r, a), a \notin Asked,
           p \in requests => a \in {"ended", "gone"},
           at[p] = "save" => a = "gone",
           at[p] = "AWAITING_APPROVAL" =>
              /\ a \in {"ended", "gone"} /\ r.name = record[p].name
              /\ WentThrough(record[p]) => WentThrough(r),
           audit' \in Seq(Events), UNCHANGED <<killSwitch, Store>>
    PROVE  PipelineInv'
<1>1. /\ record \in [Proposals -> Record] /\ at \in [Proposals -> Points]
      /\ passports \in [Names -> Proposals \cup {NoProposal}]
      /\ killSwitch \in BOOLEAN /\ requests \in SUBSET Proposals
      /\ installed \in SUBSET Names
  BY DEF PipelineInv, TypeOK
<1>2. /\ record' \in [Proposals -> Record] /\ at' \in [Proposals -> Points]
      /\ record'[p] = r /\ at'[p] = a
      /\ \A q \in Proposals \ {p} : record'[q] = record[q] /\ at'[q] = at[q]
  BY <1>1
<1>3. /\ killSwitch' = killSwitch /\ requests' = requests
      /\ passports' = passports /\ installed' = installed
  BY DEF Store
<1>4. TypeOK'
  BY <1>1, <1>2, <1>3 DEF TypeOK
<1>5. \A q \in Proposals : Ready(record[q], at[q])'
  <2> SUFFICES ASSUME NEW q \in Proposals PROVE Ready(record'[q], at'[q])
    OBVIOUS
  <2>1. CASE q = p
    BY <1>2, <2>1
  <2>2. CASE q # p
    <3>1. record'[q] = record[q] /\ at'[q] = at[q] /\ Ready(record[q], at[q])
      BY <1>2, <2>2 DEF PipelineInv
    <3>2. QED
      BY <3>1
  <2>3. QED
    BY <2>1, <2>2
<1>6. \A q \in Proposals : at'[q] \in Asked => q \in requests'
  BY <1>2, <1>3 DEF PipelineInv
<1>7. ASSUME NEW n \in Names, passports[n] = p
      PROVE  at[p] = "AWAITING_APPROVAL"
  BY <1>7, ConstantsAssumption DEF PipelineInv, Left
<1>8. \A n \in Names : passports'[n] # NoProposal => at'[passports'[n]] \in Left
  BY <1>1, <1>2, <1>3, <1>7 DEF PipelineInv, Left
<1>9. OfferedWentThrough'
  <2> SUFFICES ASSUME NEW n \in Names, passports[n] # NoProposal
               PROVE  /\ passports[n] \in requests
                      /\ record'[passports[n]].name = n
                      /\ WentThrough(record'[passports[n]])
    BY <1>3 DEF OfferedWentThrough
  <2>1. /\ passports[n] \in Proposals /\ passports[n] \in requests
        /\ record[passports[n]].name = n /\ WentThrough(record[passports[n]])
    BY <1>1 DEF PipelineInv, OfferedWentThrough
  <2>2. CASE passports[n] = p
    BY <1>2, <1>7, <2>1, <2>2
  <2>3. CASE passports[n] # p
    <3>1. record'[passports[n]] = record[passports[n]]
      BY <1>2, <2>1, <2>3
    <3>2. QED
      BY <2>1, <3>1
  <2>4. QED
    BY <2>2, <2>3
<1>10. RequestsHaveOffers'
  <2> SUFFICES ASSUME NEW q \in requests
               PROVE  /\ at'[q] \in Asked \cup {"ended", "gone"}
                      /\ at'[q] \in Saved =>
                            /\ record'[q].name \in Names
                            /\ passports[record'[q].name] # NoProposal
    BY <1>3 DEF RequestsHaveOffers, Review
  <2>1. /\ q \in Proposals /\ at[q] \in Asked \cup {"ended", "gone"}
        /\ at[q] \in Saved => /\ record[q].name \in Names
                               /\ passports[record[q].name] # NoProposal
    BY <1>1 DEF PipelineInv, RequestsHaveOffers, Review
  <2>2. CASE q # p
    <3>1. record'[q] = record[q] /\ at'[q] = at[q]
      BY <1>2, <2>1, <2>2
    <3>2. QED
      BY <2>1, <3>1
  <2>3. CASE q = p
    BY <1>2, <2>1, <2>3 DEF Asked, Saved
  <2>4. QED
    BY <2>2, <2>3
<1>11. QED
  BY <1>4, <1>5, <1>6, <1>8, <1>9, <1>10 DEF PipelineInv

(* The two ways on. *)
LEMMA WentOn ==
    ASSUME PipelineInv, NEW p \in Proposals, NEW r \in Record, NEW stage \in Stages,
           NEW next \in Points \ Asked, at[p] \notin Asked \cup {"ended", "gone"},
           GoesOn(p, r, stage, next), Ready(r, next), UNCHANGED <<killSwitch, Store>>
    PROVE  PipelineInv'
<1> DEFINE n == [r EXCEPT !.stage = stage]
<1>1. n \in Record
  BY RecordUpdates
<1>2. /\ n.name = r.name /\ n.candidate = r.candidate /\ n.retry = r.retry
      /\ n.safety = r.safety /\ n.tests = r.tests /\ n.evaluation = r.evaluation
      /\ n.refused = r.refused /\ n.attempts = r.attempts
  BY DEF Record
<1>3. record' = [record EXCEPT ![p] = n] /\ at' = [at EXCEPT ![p] = next]
  BY DEF GoesOn
<1>4. audit' \in Seq(Events)
  BY DEF GoesOn, PipelineInv, TypeOK
<1> HIDE DEF n
<1>5. Ready(n, next)
  <2>1. Trying(n) <=> Trying(r)
    BY <1>2, Zenon DEF Trying
  <2>2. Chosen(n) <=> Chosen(r)
    BY <1>2, Zenon DEF Chosen
  <2>3. /\ Safe(n) <=> Safe(r)
        /\ Tested(n) <=> Tested(r)
        /\ Scored(n) <=> Scored(r)
    BY <1>2, Zenon DEF Safe, Tested, Scored
  <2>4. QED
    BY <1>2, <2>1, <2>2, <2>3, Zenon DEF Ready
<1>6. p \notin requests /\ at[p] \notin {"save", "AWAITING_APPROVAL", "ended", "gone"}
  BY DEF PipelineInv, RequestsHaveOffers, Asked
<1>7. QED
  BY <1>1, <1>3, <1>4, <1>5, <1>6, Moved

LEMMA Ended ==
    ASSUME PipelineInv, NEW p \in Proposals, NEW r \in Record,
           NEW status \in Status, NEW stage \in Stages,
           at[p] \notin {"save", "ended", "gone"}, Ends(p, r, status, stage),
           at[p] = "AWAITING_APPROVAL" => r = record[p],
           UNCHANGED <<killSwitch, Store>>
    PROVE  PipelineInv'
<1> DEFINE closed == [r EXCEPT !.status = status]
           last == [closed EXCEPT !.stage = stage]
<1>1. closed \in Record
  BY RecordUpdates
<1>2. /\ last.name = r.name /\ last.candidate = r.candidate /\ last.retry = r.retry
      /\ last.safety = r.safety /\ last.tests = r.tests
      /\ last.evaluation = r.evaluation /\ last.refused = r.refused
      /\ last.attempts = r.attempts
  BY DEF Record
<1>3. audit' = Append(audit, Event(p, closed)) /\ audit \in Seq(Events)
  BY DEF Ends, PipelineInv, TypeOK
<1>4. record' = [record EXCEPT ![p] = last] /\ at' = [at EXCEPT ![p] = "ended"]
  BY DEF Ends
<1> HIDE DEF closed
<1>5. last \in Record
  BY <1>1, RecordUpdates
<1> HIDE DEF last
<1>6. audit' \in Seq(Events)
  BY <1>1, <1>3, EventTyped
<1>7. Ready(last, "ended")
  BY DEF Ready, Asked
<1>8. at[p] = "AWAITING_APPROVAL" =>
         /\ last.name = record[p].name
         /\ WentThrough(record[p]) => WentThrough(last)
  <2>1. ASSUME WentThrough(r) PROVE WentThrough(last)
    BY <1>2, <2>1, Zenon DEF WentThrough
  <2>2. QED
    BY <1>2, <2>1
<1>9. "ended" \in Points /\ "ended" \notin Asked
  BY DEF Points, Asked
<1>10. QED
  BY <1>4, <1>5, <1>6, <1>7, <1>8, <1>9, Moved

-----------------------------------------------------------------------------
(* One lemma per action. *)
LEMMA StateTyped ==
    ASSUME PipelineInv, NEW p \in Proposals
    PROVE  /\ record[p] \in Record /\ Ready(record[p], at[p])
           /\ at[p] = "AWAITING_APPROVAL" => p \in requests
BY DEF PipelineInv, TypeOK, Asked

LEMMA BeginKeeps ==
    ASSUME PipelineInv, NEW p \in Proposals, NEW retry \in BOOLEAN, Begin(p, retry)
    PROVE  PipelineInv'
<1> DEFINE r == [NewRecord EXCEPT !.retry = retry]
           n == [r EXCEPT !.stage = "GUARDIAN_PRESCREEN"]
           refusing == [r EXCEPT !.refused = TRUE]
<1>1. r \in Record /\ r.attempts = <<>> /\ ~r.refused
  BY NewRecordTyped DEF NewRecord
<1>2. at[p] = "idle" /\ UNCHANGED <<killSwitch, Store>>
  BY DEF Begin
<1>3. \/ Ends(p, r, "BLOCKED", "KILL_SWITCH")
      \/ Ends(p, refusing, "REFUSED", "GUARDIAN_PRESCREEN")
      \/ /\ record' = [record EXCEPT ![p] = n] /\ at' = [at EXCEPT ![p] = "RESEARCH"]
         /\ audit' = Append(audit, Event(p, r))
  BY DEF Begin
<1> HIDE DEF r
<1>4. refusing \in Record /\ n \in Record /\ n.attempts = <<>> /\ ~n.refused
  <2>1. refusing \in Record /\ n \in Record
    BY <1>1, RecordUpdates, Vocabulary
  <2>2. n.attempts = <<>> /\ ~n.refused
    BY <1>1 DEF Record
  <2>3. QED
    BY <2>1, <2>2
<1> HIDE DEF n, refusing
<1>5. CASE Ends(p, r, "BLOCKED", "KILL_SWITCH")
  BY <1>1, <1>2, <1>5, Vocabulary, Ended
<1>6. CASE Ends(p, refusing, "REFUSED", "GUARDIAN_PRESCREEN")
  BY <1>2, <1>4, <1>6, Vocabulary, Ended
<1>7. CASE /\ record' = [record EXCEPT ![p] = n] /\ at' = [at EXCEPT ![p] = "RESEARCH"]
           /\ audit' = Append(audit, Event(p, r))
  <2>1. audit' \in Seq(Events)
    BY <1>1, <1>7, EventTyped DEF PipelineInv, TypeOK
  <2>2. Trying(n)
    BY <1>4 DEF Trying, MaxAttempts
  <2>3. Ready(n, "RESEARCH") /\ "RESEARCH" \notin Asked
    BY <1>4, <2>2 DEF Ready, Asked
  <2>4. p \notin requests
    BY <1>2 DEF PipelineInv, RequestsHaveOffers, Asked
  <2>5. QED
    BY <1>2, <1>4, <1>7, <2>1, <2>3, <2>4, Vocabulary, Moved
<1>8. QED
  BY <1>3, <1>5, <1>6, <1>7

LEMMA ResearchKeeps ==
    ASSUME PipelineInv, NEW p \in Proposals, Research(p)
    PROVE  PipelineInv'
<1>1. Ready(record[p], "GENERATE") /\ "GENERATE" \in Points \ Asked
  BY StateTyped, Vocabulary DEF Research, Ready, Asked
<1>2. QED
  BY <1>1, StateTyped, Vocabulary, WentOn DEF Research, Asked

LEMMA GenerateKeeps ==
    ASSUME PipelineInv, NEW p \in Proposals, Generate(p)
    PROVE  PipelineInv'
<1> DEFINE r == record[p]
           named(n) == [r EXCEPT !.name = n, !.candidate = Len(r.attempts) + 1]
<1>1. r \in Record /\ Trying(r) /\ ~r.refused
  BY StateTyped DEF Generate, Ready, Asked
<1>2. at[p] = "GENERATE" /\ UNCHANGED <<killSwitch, Store>>
  BY DEF Generate
<1>3. CASE Ends(p, r, "FAILED", "GENERATE")
  BY <1>1, <1>2, <1>3, Vocabulary, Ended
<1>4. ASSUME NEW n \in Names, GoesOn(p, named(n), "GENERATE", "SAFETY_SCREEN")
      PROVE  PipelineInv'
  <2>1. Len(r.attempts) \in Nat /\ Len(r.attempts) + 1 \in Attempts
    BY <1>1, RecordFields DEF Trying, MaxAttempts, Attempts
  <2>2. named(n) \in Record
    BY <1>1, <2>1, RecordUpdates
  <2>3. /\ named(n).name = n /\ named(n).candidate = Len(r.attempts) + 1
        /\ named(n).attempts = r.attempts /\ named(n).retry = r.retry
        /\ named(n).refused = r.refused
    BY <1>1 DEF Record
  <2> HIDE DEF named, r
  <2>4. Trying(named(n)) /\ Chosen(named(n))
    BY <1>1, <2>3 DEF Trying, Chosen
  <2>5. Ready(named(n), "SAFETY_SCREEN") /\ "SAFETY_SCREEN" \in Points \ Asked
    BY <1>1, <2>3, <2>4, Vocabulary DEF Ready, Asked
  <2>6. QED
    BY <1>2, <1>4, <2>2, <2>5, Vocabulary, WentOn DEF Asked
<1>5. QED
  BY <1>3, <1>4 DEF Generate

LEMMA SafetyScreenKeeps ==
    ASSUME PipelineInv, NEW p \in Proposals, SafetyScreen(p)
    PROVE  PipelineInv'
<1>1. /\ record[p] \in Record /\ Trying(record[p]) /\ Chosen(record[p])
      /\ ~record[p].refused
  BY StateTyped DEF SafetyScreen, Ready, Asked
<1>2. at[p] = "SAFETY_SCREEN" /\ UNCHANGED <<killSwitch, Store>>
  BY DEF SafetyScreen
<1>3. PICK safe \in BOOLEAN :
         LET r == Screened(record[p], safe) IN
         IF r.safety.safe
         THEN GoesOn(p, r, "SAFETY_SCREEN", "SANDBOX_TEST")
         ELSE Ends(p, WithOutcome(r, "SAFETY_REJECTED"), "REJECTED", "SAFETY_SCREEN")
  BY DEF SafetyScreen
<1> DEFINE r == Screened(record[p], safe)
<1>4. /\ r \in Record /\ r.safety = [of |-> record[p].candidate, safe |-> safe]
      /\ r.candidate = record[p].candidate /\ r.name = record[p].name
      /\ r.attempts = record[p].attempts /\ r.retry = record[p].retry
      /\ r.refused = record[p].refused
  <2>1. record[p].candidate \in Attempts
    BY <1>1, RecordFields
  <2>2. r \in Record
    BY <1>1, <2>1, RecordUpdates DEF Screened
  <2>3. QED
    BY <1>1, <2>2 DEF Screened, Record
<1>5. \/ r.safety.safe /\ GoesOn(p, r, "SAFETY_SCREEN", "SANDBOX_TEST")
      \/ Ends(p, WithOutcome(r, "SAFETY_REJECTED"), "REJECTED", "SAFETY_SCREEN")
  BY <1>3
<1> HIDE DEF r
<1>6. CASE r.safety.safe /\ GoesOn(p, r, "SAFETY_SCREEN", "SANDBOX_TEST")
  <2>1. Safe(r)
    BY <1>4, <1>6 DEF Safe
  <2>2. Trying(r) /\ Chosen(r)
    BY <1>1, <1>4 DEF Trying, Chosen
  <2>3. Ready(r, "SANDBOX_TEST") /\ "SANDBOX_TEST" \in Points \ Asked
    BY <1>1, <1>4, <2>1, <2>2, Vocabulary DEF Ready, Asked
  <2>4. QED
    BY <1>2, <1>4, <1>6, <2>3, Vocabulary, WentOn DEF Asked
<1>7. CASE Ends(p, WithOutcome(r, "SAFETY_REJECTED"), "REJECTED", "SAFETY_SCREEN")
  <2>1. WithOutcome(r, "SAFETY_REJECTED") \in Record
    BY <1>1, <1>4, AttemptAppended DEF Chosen, Outcomes
  <2>2. QED
    BY <1>2, <1>7, <2>1, Vocabulary, Ended
<1>8. QED
  BY <1>5, <1>6, <1>7

LEMMA SandboxTestKeeps ==
    ASSUME PipelineInv, NEW p \in Proposals, SandboxTest(p)
    PROVE  PipelineInv'
<1>1. /\ record[p] \in Record /\ Trying(record[p]) /\ Chosen(record[p])
      /\ Safe(record[p]) /\ ~record[p].refused
  BY StateTyped DEF SandboxTest, Ready, Asked
<1>2. at[p] = "SANDBOX_TEST" /\ UNCHANGED <<killSwitch, Store>>
  BY DEF SandboxTest
<1> DEFINE tried(t) == [record[p] EXCEPT !.tests = [of |-> Current(p), result |-> t]]
<1>3. PICK result \in TestResults :
         \/ Ends(p, WithOutcome(tried(result), "SANDBOX_UNREACHABLE"), "BLOCKED", "SANDBOX_TEST")
         \/ /\ result = "PASSED"
            /\ GoesOn(p, WithOutcome(tried(result), "SANDBOX_PASSED"), "SANDBOX_TEST", "EVALUATE")
         \/ /\ HasAttemptLeft(WithOutcome(tried(result), "SANDBOX_FAILED"))
            /\ GoesOn(p, WithOutcome(tried(result), "SANDBOX_FAILED"), "SANDBOX_TEST", "GENERATE")
         \/ Ends(p, WithOutcome(tried(result), "SANDBOX_FAILED"), "REJECTED", "SANDBOX_TEST")
  BY DEF SandboxTest, TestResults, ExecuteInSandbox, AfterPassing
<1> DEFINE r == tried(result)
           w(outcome) == WithOutcome(r, outcome)
<1>4. /\ r \in Record /\ r.tests = [of |-> r.candidate, result |-> result]
      /\ r.candidate = record[p].candidate /\ r.name = record[p].name
      /\ r.attempts = record[p].attempts /\ r.retry = record[p].retry
      /\ r.refused = record[p].refused /\ r.safety = record[p].safety
  <2>1. record[p].candidate \in Attempts
    BY <1>1, RecordFields
  <2>2. r \in Record
    BY <1>1, <2>1, RecordUpdates DEF Current
  <2>3. QED
    BY <1>1, <2>2 DEF Current, Record
<1> HIDE DEF tried, r
<1>5. /\ r.name \in Names /\ r.candidate = Len(r.attempts) + 1
      /\ Len(r.attempts) < MaxAttempts(r.retry) /\ Len(r.attempts) \in Nat
      /\ \A i \in 1..Len(r.attempts) : r.attempts[i].outcome = "SANDBOX_FAILED"
      /\ r.safety = [of |-> r.candidate, safe |-> TRUE] /\ ~r.refused
  BY <1>1, <1>4, RecordFields DEF Trying, Chosen, Safe
<1>6. ASSUME NEW outcome \in Outcomes
      PROVE  /\ w(outcome) \in Record
             /\ Len(w(outcome).attempts) = r.candidate
             /\ w(outcome).attempts[r.candidate].outcome = outcome
             /\ \A i \in 1..(r.candidate - 1) :
                   w(outcome).attempts[i].outcome = "SANDBOX_FAILED"
             /\ w(outcome).tests = r.tests /\ w(outcome).candidate = r.candidate
             /\ w(outcome).name = r.name /\ w(outcome).retry = r.retry
             /\ w(outcome).refused = r.refused /\ w(outcome).safety = r.safety
  <2>1. /\ w(outcome) \in Record
        /\ w(outcome) = [r EXCEPT !.attempts = w(outcome).attempts]
        /\ Len(w(outcome).attempts) = Len(r.attempts) + 1
        /\ w(outcome).attempts[Len(r.attempts) + 1].outcome = outcome
        /\ \A i \in 1..Len(r.attempts) : w(outcome).attempts[i] = r.attempts[i]
    BY <1>4, <1>5, AttemptAppended
  <2> HIDE DEF w
  <2>2. /\ w(outcome).tests = r.tests /\ w(outcome).candidate = r.candidate
        /\ w(outcome).name = r.name /\ w(outcome).retry = r.retry
        /\ w(outcome).refused = r.refused /\ w(outcome).safety = r.safety
    BY <1>4, <2>1 DEF Record
  <2>3. Len(w(outcome).attempts) = r.candidate /\ r.candidate - 1 = Len(r.attempts)
    BY <1>5, <2>1
  <2>4. QED
    BY <1>5, <2>1, <2>2, <2>3
<1> HIDE DEF w
<1>7. CASE Ends(p, w("SANDBOX_UNREACHABLE"), "BLOCKED", "SANDBOX_TEST")
  BY <1>2, <1>6, <1>7, Vocabulary, Ended DEF Outcomes
<1>8. CASE Ends(p, w("SANDBOX_FAILED"), "REJECTED", "SANDBOX_TEST")
  BY <1>2, <1>6, <1>8, Vocabulary, Ended DEF Outcomes
<1>9. CASE /\ HasAttemptLeft(w("SANDBOX_FAILED"))
           /\ GoesOn(p, w("SANDBOX_FAILED"), "SANDBOX_TEST", "GENERATE")
  <2>1. w("SANDBOX_FAILED") \in Record
    BY <1>6 DEF Outcomes
  <2>2. \A i \in 1..r.candidate : w("SANDBOX_FAILED").attempts[i].outcome = "SANDBOX_FAILED"
    <3>1. \A i \in 1..r.candidate : i = r.candidate \/ i \in 1..(r.candidate - 1)
      BY <1>5
    <3>2. QED
      BY <1>6, <3>1 DEF Outcomes
  <2>3. DOMAIN w("SANDBOX_FAILED").attempts = 1..r.candidate
    <3>1. w("SANDBOX_FAILED").attempts \in Seq(Attempt)
      BY <2>1, RecordFields
    <3>2. QED
      BY <1>6, <3>1 DEF Outcomes
  <2>4. Trying(w("SANDBOX_FAILED"))
    BY <1>9, <2>2, <2>3 DEF Trying, HasAttemptLeft
  <2>5. ~w("SANDBOX_FAILED").refused
    BY <1>5, <1>6 DEF Outcomes
  <2>6. Ready(w("SANDBOX_FAILED"), "GENERATE") /\ "GENERATE" \in Points \ Asked
    BY <2>4, <2>5, Vocabulary DEF Ready, Asked
  <2>7. QED
    BY <1>2, <1>9, <2>1, <2>6, Vocabulary, WentOn DEF Asked
<1>10. CASE /\ result = "PASSED"
            /\ GoesOn(p, w("SANDBOX_PASSED"), "SANDBOX_TEST", "EVALUATE")
  <2>1. /\ w("SANDBOX_PASSED") \in Record
        /\ Len(w("SANDBOX_PASSED").attempts) = r.candidate
        /\ w("SANDBOX_PASSED").attempts[r.candidate].outcome = "SANDBOX_PASSED"
        /\ \A i \in 1..(r.candidate - 1) :
              w("SANDBOX_PASSED").attempts[i].outcome = "SANDBOX_FAILED"
        /\ w("SANDBOX_PASSED").tests = [of |-> r.candidate, result |-> "PASSED"]
        /\ w("SANDBOX_PASSED").candidate = r.candidate
        /\ w("SANDBOX_PASSED").name = r.name /\ w("SANDBOX_PASSED").retry = r.retry
        /\ w("SANDBOX_PASSED").refused = r.refused
        /\ w("SANDBOX_PASSED").safety = r.safety
    BY <1>4, <1>6, <1>10 DEF Outcomes
  <2>2. r.candidate \in 1..MaxAttempts(r.retry)
    BY <1>5 DEF MaxAttempts
  <2>3. \A i \in 1..r.candidate : w("SANDBOX_PASSED").attempts[i].outcome =
           (IF i = r.candidate THEN "SANDBOX_PASSED" ELSE "SANDBOX_FAILED")
    <3>1. \A i \in 1..r.candidate : i = r.candidate \/ i \in 1..(r.candidate - 1)
      BY <1>5
    <3>2. QED
      BY <2>1, <3>1
  <2>4. Tested(w("SANDBOX_PASSED"))
    BY <1>5, <2>1, <2>2, <2>3 DEF Tested, Safe
  <2>5. Ready(w("SANDBOX_PASSED"), "EVALUATE") /\ "EVALUATE" \in Points \ Asked
    BY <1>5, <2>1, <2>4, Vocabulary DEF Ready, Asked
  <2>6. QED
    BY <1>2, <1>10, <2>1, <2>5, Vocabulary, WentOn DEF Asked
<1>11. QED
  BY <1>3, <1>7, <1>8, <1>9, <1>10 DEF w, r

(* The parser lets no score out of range, and no score at all of a reply   *)
(* it does not understand.                                                 *)
LEMMA EvaluatedTyped ==
    ASSUME NEW reply
    PROVE  /\ Evaluated(reply).status \in {"SCORED", "UNSCORED"}
           /\ Evaluated(reply).score \in 0..100
BY DEF Evaluated, Unscored

LEMMA EvaluateKeeps ==
    ASSUME PipelineInv, NEW p \in Proposals, Evaluate(p)
    PROVE  PipelineInv'
<1>1. record[p] \in Record /\ Tested(record[p]) /\ ~record[p].refused
  BY StateTyped DEF Evaluate, Ready, Asked
<1>2. at[p] = "EVALUATE" /\ UNCHANGED <<killSwitch, Store>>
  BY DEF Evaluate
<1> DEFINE scored(e) == [record[p] EXCEPT !.evaluation =
                           [of |-> Current(p), status |-> e.status, score |-> e.score]]
<1>3. PICK reply \in Replies :
         IF BelowFloor(Evaluated(reply))
         THEN Ends(p, scored(Evaluated(reply)), "REJECTED", "EVALUATE")
         ELSE GoesOn(p, scored(Evaluated(reply)), "EVALUATE", "GUARDIAN_SCREEN")
  BY DEF Evaluate
<1> DEFINE e == Evaluated(reply)
           r == scored(e)
<1>4. e.status \in {"SCORED", "UNSCORED"} /\ e.score \in 0..100
  BY EvaluatedTyped
<1> HIDE DEF e
<1>5. /\ r \in Record /\ r.candidate = record[p].candidate /\ r.name = record[p].name
      /\ r.evaluation = [of |-> r.candidate, status |-> e.status, score |-> e.score]
      /\ r.attempts = record[p].attempts /\ r.retry = record[p].retry
      /\ r.refused = record[p].refused /\ r.safety = record[p].safety
      /\ r.tests = record[p].tests
  <2>1. record[p].candidate \in Attempts
    BY <1>1, RecordFields
  <2>2. r \in Record
    BY <1>1, <1>4, <2>1, RecordUpdates DEF Current
  <2>3. QED
    BY <1>1, <2>2 DEF Current, Record
<1>6. \/ Ends(p, r, "REJECTED", "EVALUATE")
      \/ ~BelowFloor(e) /\ GoesOn(p, r, "EVALUATE", "GUARDIAN_SCREEN")
  BY <1>3 DEF e
<1> HIDE DEF scored, r
<1>7. CASE Ends(p, r, "REJECTED", "EVALUATE")
  BY <1>2, <1>5, <1>7, Vocabulary, Ended
<1>8. CASE ~BelowFloor(e) /\ GoesOn(p, r, "EVALUATE", "GUARDIAN_SCREEN")
  <2>1. Scored(r)
    BY <1>5, <1>8 DEF Scored, BelowFloor
  <2>2. Tested(r)
    BY <1>1, <1>5, Zenon DEF Tested, Safe
  <2>3. Ready(r, "GUARDIAN_SCREEN") /\ "GUARDIAN_SCREEN" \in Points \ Asked
    BY <1>1, <1>5, <2>1, <2>2, Vocabulary DEF Ready, Asked
  <2>4. QED
    BY <1>2, <1>5, <1>8, <2>3, Vocabulary, WentOn DEF Asked
<1>9. QED
  BY <1>6, <1>7, <1>8

LEMMA GuardianScreenKeeps ==
    ASSUME PipelineInv, NEW p \in Proposals, GuardianScreen(p)
    PROVE  PipelineInv'
<1> DEFINE r == record[p]
           refusing == [r EXCEPT !.refused = TRUE]
<1>1. r \in Record /\ refusing \in Record
  BY StateTyped, RecordUpdates
<1>2. at[p] = "GUARDIAN_SCREEN" /\ UNCHANGED <<killSwitch, Store>>
  BY DEF GuardianScreen
<1>3. Ready(r, "create") /\ "create" \in Points \ Asked
  BY <1>2, StateTyped, Vocabulary DEF Ready, Asked
<1>4. \/ Ends(p, refusing, "REFUSED", "GUARDIAN_SCREEN")
      \/ GoesOn(p, r, "GUARDIAN_SCREEN", "create")
  BY DEF GuardianScreen
<1> HIDE DEF r, refusing
<1>5. CASE Ends(p, refusing, "REFUSED", "GUARDIAN_SCREEN")
  BY <1>1, <1>2, <1>5, Vocabulary, Ended
<1>6. CASE GoesOn(p, r, "GUARDIAN_SCREEN", "create")
  BY <1>1, <1>2, <1>3, <1>6, Vocabulary, WentOn DEF Asked
<1>7. QED
  BY <1>4, <1>5, <1>6

(* What the three writes start from is what a document may offer. *)
LEMMA ReadyWentThrough ==
    ASSUME NEW r \in Record, Tested(r), Scored(r), ~r.refused
    PROVE  WentThrough(r)
<1>1. WentThrough(r) <=>
         /\ r.candidate \in 1..MaxAttempts(r.retry)
         /\ r.safety = [of |-> r.candidate, safe |-> TRUE]
         /\ r.tests = [of |-> r.candidate, result |-> "PASSED"]
         /\ r.evaluation.of = r.candidate /\ ~BelowFloor(r.evaluation)
         /\ ~r.refused
         /\ Len(r.attempts) = r.candidate
         /\ \A i \in 1..r.candidate : r.attempts[i].outcome =
                (IF i = r.candidate THEN "SANDBOX_PASSED" ELSE "SANDBOX_FAILED")
  BY Zenon DEF WentThrough
<1>2. QED
  BY <1>1 DEF Tested, Scored, Safe

LEMMA CreateRequestKeeps ==
    ASSUME PipelineInv, NEW p \in Proposals, CreateRequest(p)
    PROVE  PipelineInv'
<1> DEFINE r == [record[p] EXCEPT !.status = "AWAITING_APPROVAL"]
<1>1. /\ at[p] = "create" /\ requests' = requests \cup {p}
      /\ record' = [record EXCEPT ![p] = r] /\ at' = [at EXCEPT ![p] = "save"]
      /\ UNCHANGED <<killSwitch, passports, installed, audit>>
  BY DEF CreateRequest
<1>2. record[p] \in Record /\ Tested(record[p]) /\ Scored(record[p]) /\ ~record[p].refused
  BY <1>1, StateTyped DEF Ready, Asked
<1>3. /\ r \in Record
      /\ r.candidate = record[p].candidate /\ r.name = record[p].name
      /\ r.attempts = record[p].attempts /\ r.retry = record[p].retry
      /\ r.refused = record[p].refused /\ r.safety = record[p].safety
      /\ r.tests = record[p].tests /\ r.evaluation = record[p].evaluation
  <2>1. r \in Record
    BY <1>2, RecordUpdates, Vocabulary
  <2>2. QED
    BY <1>2, <2>1 DEF Record
<1> HIDE DEF r
<1>4. Tested(r) /\ Scored(r)
  BY <1>2, <1>3, Zenon DEF Tested, Safe, Scored
<1>5. Ready(r, "save") /\ "save" \in Points
  BY <1>2, <1>3, <1>4, Vocabulary DEF Ready, Asked
<1>6. /\ record \in [Proposals -> Record] /\ at \in [Proposals -> Points]
      /\ passports \in [Names -> Proposals \cup {NoProposal}]
  BY DEF PipelineInv, TypeOK
<1>7. /\ record' \in [Proposals -> Record] /\ at' \in [Proposals -> Points]
      /\ record'[p] = r /\ at'[p] = "save"
      /\ \A q \in Proposals \ {p} : record'[q] = record[q] /\ at'[q] = at[q]
  BY <1>1, <1>3, <1>5, <1>6
<1>8. TypeOK'
  BY <1>1, <1>7 DEF PipelineInv, TypeOK
<1>9. ASSUME NEW q \in Proposals PROVE Ready(record'[q], at'[q])
  <2>1. CASE q = p
    BY <1>5, <1>7, <2>1
  <2>2. CASE q # p
    <3>1. record'[q] = record[q] /\ at'[q] = at[q] /\ Ready(record[q], at[q])
      BY <1>7, <2>2 DEF PipelineInv
    <3>2. QED
      BY <3>1
  <2>3. QED
    BY <2>1, <2>2
<1>10. \A q \in Proposals : at'[q] \in Asked => q \in requests'
  BY <1>1, <1>7 DEF PipelineInv
<1>11. ASSUME NEW n \in Names, passports[n] # NoProposal
       PROVE  passports[n] \in Proposals \ {p}
  BY <1>1, <1>6, <1>11 DEF PipelineInv, Left
<1>12. \A n \in Names : passports'[n] # NoProposal => at'[passports'[n]] \in Left
  BY <1>1, <1>7, <1>11 DEF PipelineInv
<1>13. OfferedWentThrough'
  <2> SUFFICES ASSUME NEW n \in Names, passports[n] # NoProposal
               PROVE  /\ passports[n] \in requests'
                      /\ record'[passports[n]].name = n
                      /\ WentThrough(record'[passports[n]])
    BY <1>1 DEF OfferedWentThrough
  <2>1. record'[passports[n]] = record[passports[n]]
    BY <1>7, <1>11
  <2>2. QED
    BY <1>1, <2>1 DEF PipelineInv, OfferedWentThrough
<1>14. RequestsHaveOffers'
  <2> SUFFICES ASSUME NEW q \in requests \cup {p}
               PROVE  /\ at'[q] \in Asked \cup {"ended", "gone"}
                      /\ at'[q] \in Saved => /\ record'[q].name \in Names
                                              /\ passports[record'[q].name] # NoProposal
    BY <1>1 DEF RequestsHaveOffers, Review
  <2>1. CASE q = p
    BY <1>7, <2>1 DEF Asked, Saved
  <2>2. CASE q # p
    <3>1. q \in requests /\ q \in Proposals
      BY <2>2 DEF PipelineInv, TypeOK
    <3>2. record'[q] = record[q] /\ at'[q] = at[q]
      BY <1>7, <2>2, <3>1
    <3>3. QED
      BY <3>1, <3>2 DEF PipelineInv, RequestsHaveOffers, Review
  <2>3. QED
    BY <2>1, <2>2
<1>15. QED
  BY <1>8, <1>9, <1>10, <1>12, <1>13, <1>14 DEF PipelineInv

LEMMA SaveCapabilityKeeps ==
    ASSUME PipelineInv, NEW p \in Proposals, SaveCapability(p)
    PROVE  PipelineInv'
<1>1. /\ at[p] = "save" /\ passports' = [passports EXCEPT ![record[p].name] = p]
      /\ installed' = installed \ {record[p].name}
      /\ at' = [at EXCEPT ![p] = "AWAITING_APPROVAL"]
      /\ UNCHANGED <<killSwitch, record, requests, audit>>
  BY DEF SaveCapability
<1>2. /\ record[p] \in Record /\ Tested(record[p]) /\ Scored(record[p])
      /\ ~record[p].refused /\ record[p].name \in Names /\ p \in requests
  BY <1>1, StateTyped DEF Ready, Asked, Tested, PipelineInv
<1>3. WentThrough(record[p])
  BY <1>2, ReadyWentThrough
<1>4. /\ record \in [Proposals -> Record] /\ at \in [Proposals -> Points]
      /\ passports \in [Names -> Proposals \cup {NoProposal}]
  BY DEF PipelineInv, TypeOK
<1>5. /\ at' \in [Proposals -> Points] /\ at'[p] = "AWAITING_APPROVAL"
      /\ \A q \in Proposals \ {p} : at'[q] = at[q]
      /\ passports' \in [Names -> Proposals \cup {NoProposal}]
      /\ passports'[record[p].name] = p
      /\ \A n \in Names \ {record[p].name} : passports'[n] = passports[n]
  BY <1>1, <1>2, <1>4, Vocabulary
<1>6. TypeOK'
  BY <1>1, <1>5 DEF PipelineInv, TypeOK
<1>7. ASSUME NEW q \in Proposals PROVE Ready(record'[q], at'[q])
  <2>1. CASE q = p
    <3>1. Ready(record[p], "AWAITING_APPROVAL")
      BY <1>2 DEF Ready, Asked
    <3>2. QED
      BY <1>1, <1>5, <2>1, <3>1
  <2>2. CASE q # p
    <3>1. record'[q] = record[q] /\ at'[q] = at[q] /\ Ready(record[q], at[q])
      BY <1>1, <1>5, <2>2 DEF PipelineInv
    <3>2. QED
      BY <3>1
  <2>3. QED
    BY <2>1, <2>2
<1>8. \A q \in Proposals : at'[q] \in Asked => q \in requests'
  BY <1>1, <1>2, <1>5 DEF PipelineInv
<1>9. \A n \in Names : passports'[n] # NoProposal => at'[passports'[n]] \in Left
  BY <1>1, <1>4, <1>5 DEF PipelineInv, Left
<1>10. OfferedWentThrough'
  <2> SUFFICES ASSUME NEW n \in Names, passports'[n] # NoProposal
               PROVE  /\ passports'[n] \in requests
                      /\ record[passports'[n]].name = n
                      /\ WentThrough(record[passports'[n]])
    BY <1>1 DEF OfferedWentThrough
  <2>1. CASE n = record[p].name
    BY <1>2, <1>3, <1>5, <2>1
  <2>2. CASE n # record[p].name
    <3>1. passports'[n] = passports[n]
      BY <1>5, <2>2
    <3>2. QED
      BY <3>1 DEF PipelineInv, OfferedWentThrough
  <2>3. QED
    BY <2>1, <2>2
<1>11. RequestsHaveOffers'
  <2> SUFFICES ASSUME NEW q \in requests
               PROVE  /\ at'[q] \in Asked \cup {"ended", "gone"}
                      /\ at'[q] \in Saved => /\ record[q].name \in Names
                                              /\ passports'[record[q].name] # NoProposal
    BY <1>1 DEF RequestsHaveOffers, Review
  <2>1. q \in Proposals /\ p # NoProposal
    BY ConstantsAssumption DEF PipelineInv, TypeOK
  <2>2. CASE q = p
    BY <1>2, <1>5, <2>1, <2>2 DEF Asked
  <2>3. CASE q # p
    <3>1. /\ at'[q] = at[q] /\ at[q] \in Asked \cup {"ended", "gone"}
          /\ at[q] \in Saved => /\ record[q].name \in Names
                                 /\ passports[record[q].name] # NoProposal
      BY <1>5, <2>1, <2>3 DEF PipelineInv, RequestsHaveOffers, Review
    <3>2. QED
      BY <1>5, <2>1, <3>1
  <2>4. QED
    BY <2>2, <2>3
<1>12. QED
  BY <1>6, <1>7, <1>8, <1>9, <1>10, <1>11 DEF PipelineInv

LEMMA AwaitApprovalKeeps ==
    ASSUME PipelineInv, NEW p \in Proposals, AwaitApproval(p)
    PROVE  PipelineInv'
BY StateTyped, Vocabulary, Ended DEF AwaitApproval

(* A proposal that is cut off keeps its record once it has a request. *)
LEMMA CutOffKeeps ==
    ASSUME PipelineInv, NEW p \in Proposals, Underway(p),
           at' = [at EXCEPT ![p] = "gone"], record' = Lost(p),
           audit' \in Seq(Events), UNCHANGED <<killSwitch, Store>>
    PROVE  PipelineInv'
<1> DEFINE r == IF p \in requests THEN record[p] ELSE NewRecord
<1>1. record \in [Proposals -> Record] /\ r \in Record
  BY StateTyped, NewRecordTyped DEF PipelineInv, TypeOK
<1>2. record' = [record EXCEPT ![p] = r]
  BY <1>1 DEF Lost
<1>3. at[p] = "AWAITING_APPROVAL" => r = record[p]
  BY StateTyped
<1> HIDE DEF r
<1>4. Ready(r, "gone") /\ "gone" \in Points /\ "gone" \notin Asked
  BY Vocabulary DEF Ready, Asked
<1>5. at[p] \notin {"ended", "gone"}
  BY DEF Underway
<1>6. QED
  BY <1>1, <1>2, <1>3, <1>4, <1>5, Moved

LEMMA StageRaisesKeeps ==
    ASSUME PipelineInv, NEW p \in Proposals, StageRaises(p)
    PROVE  PipelineInv'
<1> DEFINE event == [proposal |-> p, stage |-> "STARTED", status |-> "ERROR", name |-> NoName]
<1>1. event \in Events /\ audit' = Append(audit, event) /\ audit \in Seq(Events)
  BY DEF StageRaises, Events, PipelineInv, TypeOK
<1> HIDE DEF event
<1>2. audit' \in Seq(Events)
  BY <1>1
<1>3. QED
  BY <1>2, CutOffKeeps DEF StageRaises

LEMMA SetKillSwitchKeeps ==
    ASSUME PipelineInv, SetKillSwitch
    PROVE  PipelineInv'
<1>1. /\ killSwitch' \in BOOLEAN
      /\ UNCHANGED <<at, record, requests, passports, installed, audit>>
  BY DEF SetKillSwitch, Store, PipelineInv, TypeOK
<1>2. TypeOK' /\ OfferedWentThrough' /\ RequestsHaveOffers'
  BY <1>1 DEF PipelineInv, TypeOK, OfferedWentThrough, RequestsHaveOffers, Review
<1>3. QED
  BY <1>1, <1>2 DEF PipelineInv

-----------------------------------------------------------------------------
(* Theorems *)

LEMMA InitialInvariant == Init => PipelineInv
<1> SUFFICES ASSUME Init PROVE PipelineInv
  OBVIOUS
<1>1. TypeOK
  <2>1. "idle" \in Points /\ NewRecord \in Record
    BY NewRecordTyped, Vocabulary
  <2>2. at \in [Proposals -> Points] /\ record \in [Proposals -> Record]
    BY <2>1 DEF Init
  <2>3. audit \in Seq(Events)
    BY DEF Init
  <2>4. QED
    BY <2>2, <2>3 DEF Init, TypeOK
<1>2. \A p \in Proposals : Ready(record[p], at[p])
  BY DEF Init, Ready, Asked
<1>3. /\ \A p \in Proposals : at[p] \in Asked => p \in requests
      /\ \A n \in Names : passports[n] # NoProposal => at[passports[n]] \in Left
      /\ OfferedWentThrough /\ RequestsHaveOffers
  BY DEF Init, Asked, OfferedWentThrough, RequestsHaveOffers
<1>4. QED
  BY <1>1, <1>2, <1>3 DEF PipelineInv

LEMMA StepKeepsInvariant == PipelineInv /\ [Next]_vars => PipelineInv'
<1> SUFFICES ASSUME PipelineInv, [Next]_vars PROVE PipelineInv'
  OBVIOUS
<1>1. ASSUME NEW p \in Proposals, Step(p) PROVE PipelineInv'
  <2>1. CASE \E retry \in BOOLEAN : Begin(p, retry)
    BY <2>1, BeginKeeps
  <2>2. CASE Research(p)
    BY <2>2, ResearchKeeps
  <2>3. CASE Generate(p)
    BY <2>3, GenerateKeeps
  <2>4. CASE SafetyScreen(p)
    BY <2>4, SafetyScreenKeeps
  <2>5. CASE SandboxTest(p)
    BY <2>5, SandboxTestKeeps
  <2>6. CASE Evaluate(p)
    BY <2>6, EvaluateKeeps
  <2>7. CASE GuardianScreen(p)
    BY <2>7, GuardianScreenKeeps
  <2>8. CASE CreateRequest(p)
    BY <2>8, CreateRequestKeeps
  <2>9. CASE SaveCapability(p)
    BY <2>9, SaveCapabilityKeeps
  <2>10. CASE AwaitApproval(p)
    BY <2>10, AwaitApprovalKeeps
  <2>11. CASE Abandoned(p)
    <3>1. audit' \in Seq(Events)
      BY <2>11 DEF Abandoned, PipelineInv, TypeOK
    <3>2. QED
      BY <2>11, <3>1, CutOffKeeps DEF Abandoned
  <2>12. CASE StageRaises(p)
    BY <2>12, StageRaisesKeeps
  <2>13. QED
    BY <1>1, <2>1, <2>2, <2>3, <2>4, <2>5, <2>6, <2>7, <2>8, <2>9, <2>10,
       <2>11, <2>12 DEF Step
<1>2. CASE SetKillSwitch
  BY <1>2, SetKillSwitchKeeps
<1>3. CASE UNCHANGED vars
  <2>1. TypeOK' /\ OfferedWentThrough' /\ RequestsHaveOffers'
    BY <1>3 DEF vars, PipelineInv, TypeOK, OfferedWentThrough, RequestsHaveOffers, Review
  <2>2. QED
    BY <1>3, <2>1 DEF vars, PipelineInv
<1>4. QED
  BY <1>1, <1>2, <1>3 DEF Next

(* Whatever the stages answer, in whatever order proposals move and        *)
(* wherever they are cut off, each stage finds in the record what the ones *)
(* before it put there about the same candidate.                           *)
THEOREM Invariance == Spec => []PipelineInv
<1>1. Init => PipelineInv
  BY InitialInvariant
<1>2. PipelineInv /\ [Next]_vars => PipelineInv'
  BY StepKeepsInvariant
<1>3. QED
  BY <1>1, <1>2, PTL DEF Spec

(* Every variable keeps its type; among others a score stays within its    *)
(* scale and no proposal makes a third attempt.                            *)
THEOREM TypeCorrect == Spec => []TypeOK
<1>1. PipelineInv => TypeOK
  BY DEF PipelineInv
<1>2. QED
  BY <1>1, Invariance, PTL

(* A document offers the owner one candidate that was itself screened,     *)
(* tested in the sandbox, not scored under the floor and not refused.      *)
THEOREM OfferIsVetted == Spec => []OfferedWentThrough
<1>1. PipelineInv => OfferedWentThrough
  BY DEF PipelineInv
<1>2. QED
  BY <1>1, Invariance, PTL

(* Whatever happened to later proposals of the name, the owner who reviews *)
(* a request is shown code of that name that was put through every stage.  *)
THEOREM ReviewIsVetted == Spec => []ReviewsWentThrough
<1>1. PipelineInv => ReviewsWentThrough
  <2> SUFFICES ASSUME PipelineInv, NEW p \in requests, at[p] = "ended"
               PROVE  /\ Review(p) \in requests
                      /\ record[Review(p)].name = record[p].name
                      /\ WentThrough(record[Review(p)])
    BY DEF ReviewsWentThrough
  <2>1. record[p].name \in Names /\ passports[record[p].name] # NoProposal
    BY DEF PipelineInv, RequestsHaveOffers, Saved, Review
  <2>2. QED
    BY <2>1 DEF PipelineInv, OfferedWentThrough, Review
<1>2. QED
  BY <1>1, Invariance, PTL
-----------------------------------------------------------------------------
(* How proposals end *)

(* What ended a proposal, and the last thing said of its last candidate.   *)
Cause(r, status, stage) ==
    \/ stage = "KILL_SWITCH" /\ status = "BLOCKED" /\ LastOutcome(r) = "NONE"
    \/ stage = "GUARDIAN_PRESCREEN" /\ status = "REFUSED" /\ LastOutcome(r) = "NONE"
    \/ stage = "GENERATE" /\ status = "FAILED" /\ LastOutcome(r) \in {"NONE", "SANDBOX_FAILED"}
    \/ stage = "SAFETY_SCREEN" /\ status = "REJECTED" /\ LastOutcome(r) = "SAFETY_REJECTED"
    \/ stage = "SANDBOX_TEST" /\ status = "REJECTED" /\ LastOutcome(r) = "SANDBOX_FAILED"
    \/ stage = "SANDBOX_TEST" /\ status = "BLOCKED" /\ LastOutcome(r) = "SANDBOX_UNREACHABLE"
    \/ stage = "EVALUATE" /\ status = "REJECTED" /\ LastOutcome(r) = "SANDBOX_PASSED"
                          /\ BelowFloor(r.evaluation)
    \/ stage = "GUARDIAN_SCREEN" /\ status = "REFUSED" /\ LastOutcome(r) = "SANDBOX_PASSED"
                                 /\ ~BelowFloor(r.evaluation)
    \/ stage = "AWAITING_APPROVAL" /\ status = "AWAITING_APPROVAL"
       /\ LastOutcome(r) = "SANDBOX_PASSED" /\ ~BelowFloor(r.evaluation) /\ WentThrough(r)

(* A proposal that ends does so for a cause, at the stage it had come to,  *)
(* and reaches the owner only from its last stage.                         *)
EndsFor(p, r, status, stage) ==
    /\ r \in Record /\ status \in Status \ {"IN_PROGRESS"} /\ stage \in Stages
    /\ Ends(p, r, status, stage) /\ Cause(r, status, stage)
    /\ at[p] = "idle" <=> stage \in {"KILL_SWITCH", "GUARDIAN_PRESCREEN"}
    /\ at[p] # "idle" => stage = at[p]
    /\ r.stage = (IF at[p] = "idle" THEN "STARTED" ELSE record[p].stage)
    /\ status \in {"FAILED", "AWAITING_APPROVAL"} => at[p] = stage /\ r = record[p]
EndsSomehow(p) == \E r, status, stage : EndsFor(p, r, status, stage)

LEMMA LastAppended ==
    ASSUME NEW r \in Record, r.name \in Names, NEW outcome \in Outcomes
    PROVE  LastOutcome(WithOutcome(r, outcome)) = outcome
<1> DEFINE w == WithOutcome(r, outcome)
<1>1. /\ w \in Record /\ Len(w.attempts) = Len(r.attempts) + 1
      /\ w.attempts[Len(r.attempts) + 1].outcome = outcome
  BY AttemptAppended
<1> HIDE DEF w
<1>2. r.attempts \in Seq(Attempt) /\ w.attempts \in Seq(Attempt)
  BY <1>1, RecordFields
<1>3. w.attempts # <<>> /\ w.attempts[Len(w.attempts)].outcome = outcome
  BY <1>1, <1>2
<1>4. QED
  BY <1>3 DEF LastOutcome, w

LEMMA StageAppended ==
    ASSUME NEW r \in Record, r.name \in Names, NEW outcome \in Outcomes
    PROVE  WithOutcome(r, outcome).stage = r.stage
BY AttemptAppended DEF Record

LEMMA LastTested ==
    ASSUME NEW r \in Record, Tested(r)
    PROVE  LastOutcome(r) = "SANDBOX_PASSED"
<1>1. r.attempts \in Seq(Attempt) /\ r.candidate \in 1..2 /\ Len(r.attempts) = r.candidate
  BY RecordFields DEF Tested, MaxAttempts
<1>2. r.attempts[r.candidate].outcome = "SANDBOX_PASSED"
  BY <1>1 DEF Tested
<1>3. r.attempts # <<>>
  BY <1>1
<1>4. QED
  BY <1>1, <1>2, <1>3 DEF LastOutcome

LEMMA LastTrying ==
    ASSUME NEW r \in Record, Trying(r)
    PROVE  LastOutcome(r) \in {"NONE", "SANDBOX_FAILED"}
<1>1. r.attempts \in Seq(Attempt)
  BY RecordFields
<1>2. r.attempts # <<>> => Len(r.attempts) \in DOMAIN r.attempts
  BY <1>1
<1>3. QED
  BY <1>2 DEF LastOutcome, Trying

LEMMA EndsAtBegin ==
    ASSUME PipelineInv, NEW p \in Proposals, NEW retry \in BOOLEAN, Begin(p, retry),
           at'[p] = "ended"
    PROVE  EndsSomehow(p)
<1> DEFINE r == [NewRecord EXCEPT !.retry = retry]
           refusing == [r EXCEPT !.refused = TRUE]
<1>1. r \in Record /\ r.attempts = <<>> /\ r.stage = "STARTED"
  BY NewRecordTyped DEF NewRecord
<1>2. at \in [Proposals -> Points]
  BY DEF PipelineInv, TypeOK
<1>3. Ends(p, r, "BLOCKED", "KILL_SWITCH") \/ Ends(p, refusing, "REFUSED", "GUARDIAN_PRESCREEN")
  BY <1>2 DEF Begin
<1> HIDE DEF r
<1>4. refusing \in Record /\ refusing.attempts = <<>> /\ refusing.stage = "STARTED"
  <2>1. refusing \in Record
    BY <1>1, RecordUpdates
  <2>2. QED
    BY <1>1, <2>1 DEF Record
<1> HIDE DEF refusing
<1>5. LastOutcome(r) = "NONE" /\ LastOutcome(refusing) = "NONE"
  BY <1>1, <1>4 DEF LastOutcome
<1>6. CASE Ends(p, r, "BLOCKED", "KILL_SWITCH")
  <2>1. EndsFor(p, r, "BLOCKED", "KILL_SWITCH")
    BY <1>1, <1>5, <1>6, Vocabulary DEF EndsFor, Cause, Begin
  <2>2. QED
    BY <2>1 DEF EndsSomehow
<1>7. CASE Ends(p, refusing, "REFUSED", "GUARDIAN_PRESCREEN")
  <2>1. EndsFor(p, refusing, "REFUSED", "GUARDIAN_PRESCREEN")
    BY <1>4, <1>5, <1>7, Vocabulary DEF EndsFor, Cause, Begin
  <2>2. QED
    BY <2>1 DEF EndsSomehow
<1>8. QED
  BY <1>3, <1>6, <1>7

LEMMA EndsAtScreen ==
    ASSUME PipelineInv, NEW p \in Proposals, SafetyScreen(p), at'[p] = "ended"
    PROVE  EndsSomehow(p)
<1>1. record[p] \in Record /\ record[p].name \in Names
  BY StateTyped DEF SafetyScreen, Ready, Chosen
<1>2. PICK safe \in BOOLEAN :
         Ends(p, WithOutcome(Screened(record[p], safe), "SAFETY_REJECTED"), "REJECTED",
              "SAFETY_SCREEN")
  BY DEF SafetyScreen, GoesOn, PipelineInv, TypeOK
<1> DEFINE r == Screened(record[p], safe)
<1>3. r \in Record /\ r.name = record[p].name /\ r.stage = record[p].stage
  <2>1. record[p].candidate \in Attempts
    BY <1>1, RecordFields
  <2>2. r \in Record
    BY <1>1, <2>1, RecordUpdates DEF Screened
  <2>3. QED
    BY <1>1, <2>2 DEF Screened, Record
<1> HIDE DEF r
<1>4. /\ WithOutcome(r, "SAFETY_REJECTED") \in Record
      /\ LastOutcome(WithOutcome(r, "SAFETY_REJECTED")) = "SAFETY_REJECTED"
      /\ WithOutcome(r, "SAFETY_REJECTED").stage = record[p].stage
  BY <1>1, <1>3, AttemptAppended, LastAppended, StageAppended DEF Outcomes
<1>5. EndsFor(p, WithOutcome(r, "SAFETY_REJECTED"), "REJECTED", "SAFETY_SCREEN")
  BY <1>2, <1>4, Vocabulary DEF EndsFor, Cause, SafetyScreen, r
<1>6. QED
  BY <1>5 DEF EndsSomehow

LEMMA EndsAtTest ==
    ASSUME PipelineInv, NEW p \in Proposals, SandboxTest(p), at'[p] = "ended"
    PROVE  EndsSomehow(p)
<1>1. record[p] \in Record /\ record[p].name \in Names
  BY StateTyped DEF SandboxTest, Ready, Chosen
<1> DEFINE tried(t) == [record[p] EXCEPT !.tests = [of |-> Current(p), result |-> t]]
<1>2. PICK t \in TestResults :
         \/ Ends(p, WithOutcome(tried(t), "SANDBOX_UNREACHABLE"), "BLOCKED", "SANDBOX_TEST")
         \/ Ends(p, WithOutcome(tried(t), "SANDBOX_FAILED"), "REJECTED", "SANDBOX_TEST")
  BY DEF SandboxTest, TestResults, ExecuteInSandbox, AfterPassing, GoesOn, PipelineInv, TypeOK
<1> DEFINE r == tried(t)
<1>3. r \in Record /\ r.name = record[p].name /\ r.stage = record[p].stage
  <2>1. record[p].candidate \in Attempts
    BY <1>1, RecordFields
  <2>2. r \in Record
    BY <1>1, <2>1, RecordUpdates DEF Current
  <2>3. QED
    BY <1>1, <2>2 DEF Current, Record
<1> HIDE DEF tried, r
<1>4. \A o \in Outcomes :
         /\ WithOutcome(r, o) \in Record /\ LastOutcome(WithOutcome(r, o)) = o
         /\ WithOutcome(r, o).stage = record[p].stage
  BY <1>1, <1>3, AttemptAppended, LastAppended, StageAppended
<1>5. /\ "SANDBOX_UNREACHABLE" \in Outcomes /\ "SANDBOX_FAILED" \in Outcomes
      /\ "BLOCKED" \in Status \ {"IN_PROGRESS"} /\ "REJECTED" \in Status \ {"IN_PROGRESS"}
      /\ "SANDBOX_TEST" \in Stages /\ at[p] = "SANDBOX_TEST"
  BY Vocabulary DEF Outcomes, SandboxTest
<1>6. CASE Ends(p, WithOutcome(r, "SANDBOX_UNREACHABLE"), "BLOCKED", "SANDBOX_TEST")
  <2>1. EndsFor(p, WithOutcome(r, "SANDBOX_UNREACHABLE"), "BLOCKED", "SANDBOX_TEST")
    BY <1>4, <1>5, <1>6 DEF EndsFor, Cause
  <2>2. QED
    BY <2>1 DEF EndsSomehow
<1>7. CASE Ends(p, WithOutcome(r, "SANDBOX_FAILED"), "REJECTED", "SANDBOX_TEST")
  <2>1. EndsFor(p, WithOutcome(r, "SANDBOX_FAILED"), "REJECTED", "SANDBOX_TEST")
    BY <1>4, <1>5, <1>7 DEF EndsFor, Cause
  <2>2. QED
    BY <2>1 DEF EndsSomehow
<1>8. QED
  BY <1>2, <1>6, <1>7 DEF r

LEMMA EndsAtEvaluation ==
    ASSUME PipelineInv, NEW p \in Proposals, Evaluate(p), at'[p] = "ended"
    PROVE  EndsSomehow(p)
<1>1. record[p] \in Record /\ Tested(record[p])
  BY StateTyped DEF Evaluate, Ready, Asked
<1> DEFINE scored(e) == [record[p] EXCEPT !.evaluation =
                           [of |-> Current(p), status |-> e.status, score |-> e.score]]
<1>2. PICK reply \in Replies : /\ BelowFloor(Evaluated(reply))
                               /\ Ends(p, scored(Evaluated(reply)), "REJECTED", "EVALUATE")
  BY DEF Evaluate, GoesOn, PipelineInv, TypeOK
<1> DEFINE e == Evaluated(reply)
           r == scored(e)
<1>3. e.status \in {"SCORED", "UNSCORED"} /\ e.score \in 0..100
  BY EvaluatedTyped
<1> HIDE DEF e
<1>4. /\ r \in Record /\ r.attempts = record[p].attempts /\ r.stage = record[p].stage
      /\ r.evaluation.status = e.status /\ r.evaluation.score = e.score
  <2>1. record[p].candidate \in Attempts
    BY <1>1, RecordFields
  <2>2. r \in Record
    BY <1>1, <1>3, <2>1, RecordUpdates DEF Current
  <2>3. QED
    BY <1>1, <2>2 DEF Current, Record
<1>5. Ends(p, r, "REJECTED", "EVALUATE") /\ BelowFloor(e)
  BY <1>2 DEF e
<1> HIDE DEF scored, r
<1>6. LastOutcome(r) = "SANDBOX_PASSED" /\ BelowFloor(r.evaluation)
  BY <1>1, <1>4, <1>5, LastTested DEF LastOutcome, BelowFloor
<1>7. EndsFor(p, r, "REJECTED", "EVALUATE")
  BY <1>4, <1>5, <1>6, Vocabulary DEF EndsFor, Cause, Evaluate
<1>8. QED
  BY <1>7 DEF EndsSomehow

LEMMA EndsAtGuardian ==
    ASSUME PipelineInv, NEW p \in Proposals, GuardianScreen(p), at'[p] = "ended"
    PROVE  EndsSomehow(p)
<1> DEFINE r == [record[p] EXCEPT !.refused = TRUE]
<1>1. record[p] \in Record /\ Tested(record[p]) /\ Scored(record[p])
  BY StateTyped DEF GuardianScreen, Ready, Asked
<1>2. Ends(p, r, "REFUSED", "GUARDIAN_SCREEN")
  BY DEF GuardianScreen, GoesOn, PipelineInv, TypeOK
<1>3. /\ r \in Record /\ r.attempts = record[p].attempts
      /\ r.evaluation = record[p].evaluation /\ r.stage = record[p].stage
  <2>1. r \in Record
    BY <1>1, RecordUpdates
  <2>2. QED
    BY <1>1, <2>1 DEF Record
<1> HIDE DEF r
<1>4. LastOutcome(r) = "SANDBOX_PASSED" /\ ~BelowFloor(r.evaluation)
  BY <1>1, <1>3, LastTested DEF LastOutcome, Scored
<1>5. EndsFor(p, r, "REFUSED", "GUARDIAN_SCREEN")
  BY <1>2, <1>3, <1>4, Vocabulary DEF EndsFor, Cause, GuardianScreen
<1>6. QED
  BY <1>5 DEF EndsSomehow

LEMMA Endings ==
    ASSUME PipelineInv, NEW p \in Proposals, Step(p), at'[p] = "ended"
    PROVE  EndsSomehow(p)
<1>1. CASE Generate(p)
  <2>1. record[p] \in Record /\ LastOutcome(record[p]) \in {"NONE", "SANDBOX_FAILED"}
    BY <1>1, StateTyped, LastTrying DEF Generate, Ready
  <2>2. Ends(p, record[p], "FAILED", "GENERATE")
    BY <1>1 DEF Generate, GoesOn, PipelineInv, TypeOK
  <2>3. EndsFor(p, record[p], "FAILED", "GENERATE")
    BY <1>1, <2>1, <2>2, Vocabulary DEF EndsFor, Cause, Generate
  <2>4. QED
    BY <2>3 DEF EndsSomehow
<1>2. CASE AwaitApproval(p)
  <2>1. /\ record[p] \in Record /\ Tested(record[p]) /\ Scored(record[p])
        /\ ~record[p].refused /\ at[p] = "AWAITING_APPROVAL"
    BY <1>2, StateTyped DEF AwaitApproval, Ready, Asked
  <2>2. WentThrough(record[p]) /\ LastOutcome(record[p]) = "SANDBOX_PASSED"
    BY <2>1, ReadyWentThrough, LastTested
  <2>3. EndsFor(p, record[p], "AWAITING_APPROVAL", "AWAITING_APPROVAL")
    BY <1>2, <2>1, <2>2, Vocabulary DEF EndsFor, Cause, AwaitApproval, Scored
  <2>4. QED
    BY <2>3 DEF EndsSomehow
<1>3. CASE Research(p) \/ CreateRequest(p) \/ SaveCapability(p) \/ Abandoned(p) \/ StageRaises(p)
  BY <1>3 DEF Research, CreateRequest, SaveCapability, Abandoned, StageRaises, GoesOn,
              PipelineInv, TypeOK
<1>4. QED
  BY <1>1, <1>2, <1>3, EndsAtBegin, EndsAtScreen, EndsAtTest, EndsAtEvaluation, EndsAtGuardian
     DEF Step

(* The record of a proposal that has ended. *)
LEMMA EndedRecord ==
    ASSUME PipelineInv, NEW p \in Proposals, NEW r, NEW status, NEW stage,
           EndsFor(p, r, status, stage)
    PROVE  /\ record'[p].stage = stage /\ record'[p].status = status
           /\ record'[p].name = r.name /\ record'[p].candidate = r.candidate
           /\ record'[p].retry = r.retry /\ record'[p].safety = r.safety
           /\ record'[p].tests = r.tests /\ record'[p].evaluation = r.evaluation
           /\ record'[p].refused = r.refused /\ record'[p].attempts = r.attempts
           /\ at'[p] = "ended"
<1> DEFINE closed == [r EXCEPT !.status = status]
           last == [closed EXCEPT !.stage = stage]
<1>1. /\ record' = [record EXCEPT ![p] = last] /\ at' = [at EXCEPT ![p] = "ended"]
      /\ r \in Record
  BY DEF EndsFor, Ends
<1>2. record'[p] = last /\ at'[p] = "ended"
  BY <1>1 DEF PipelineInv, TypeOK
<1>3. /\ last.stage = stage /\ last.status = status
      /\ last.name = r.name /\ last.candidate = r.candidate /\ last.retry = r.retry
      /\ last.safety = r.safety /\ last.tests = r.tests /\ last.evaluation = r.evaluation
      /\ last.refused = r.refused /\ last.attempts = r.attempts
  BY <1>1 DEF Record
<1>4. QED
  BY <1>2, <1>3

(* A proposal moves alone. *)
LEMMA OthersStand ==
    ASSUME PipelineInv, NEW p \in Proposals, Step(p), NEW q \in Proposals \ {p}
    PROVE  at'[q] = at[q] /\ record'[q] = record[q]
<1>1. /\ \E a : at' = [at EXCEPT ![p] = a]
      /\ (\E r : record' = [record EXCEPT ![p] = r]) \/ record' = record
  <2>1. ASSUME NEW r, NEW s, NEW n, GoesOn(p, r, s, n) \/ Ends(p, r, s, n)
        PROVE  /\ \E a : at' = [at EXCEPT ![p] = a]
               /\ \E x : record' = [record EXCEPT ![p] = x]
    BY <2>1 DEF GoesOn, Ends
  <2>2. ASSUME NEW b \in BOOLEAN, Begin(p, b)
        PROVE  /\ \E a : at' = [at EXCEPT ![p] = a]
               /\ \E x : record' = [record EXCEPT ![p] = x]
    BY <2>1, <2>2 DEF Begin
  <2>3. CASE Research(p) \/ Generate(p) \/ SafetyScreen(p) \/ SandboxTest(p) \/ Evaluate(p)
             \/ GuardianScreen(p) \/ AwaitApproval(p)
    BY <2>1, <2>3 DEF Research, Generate, SafetyScreen, SandboxTest, Evaluate, GuardianScreen,
                      AwaitApproval
  <2>4. CASE CreateRequest(p) \/ SaveCapability(p) \/ Abandoned(p) \/ StageRaises(p)
    BY <2>4 DEF CreateRequest, SaveCapability, Abandoned, StageRaises, Lost
  <2>5. QED
    BY <2>2, <2>3, <2>4 DEF Step
<1>2. at \in [Proposals -> Points] /\ record \in [Proposals -> Record]
  BY DEF PipelineInv, TypeOK
<1>3. QED
  BY <1>1, <1>2

-----------------------------------------------------------------------------
(* Causes *)

Told(r) ==
    /\ Canonical(r) = "NONE" <=> r.stage = "KILL_SWITCH"
    /\ Canonical(r) = "SAFETY_REJECTED" <=> LastOutcome(r) = "SAFETY_REJECTED"
    /\ Canonical(r) = "SANDBOX_UNREACHABLE" <=> LastOutcome(r) = "SANDBOX_UNREACHABLE"
    /\ Canonical(r) = "SANDBOX_FAILED" <=>
          LastOutcome(r) = "SANDBOX_FAILED" /\ r.status # "FAILED"
    /\ Canonical(r) = "EVALUATION_FAILED" <=>
          LastOutcome(r) = "SANDBOX_PASSED" /\ BelowFloor(r.evaluation)
    /\ Canonical(r) \in {"AWAITING_APPROVAL", "EVALUATION_UNSCORED"} => WentThrough(r)

(* The canonical state of each of the nine endings. *)
LEMMA CanonicalOf ==
    ASSUME NEW r, Cause(r, r.status, r.stage)
    PROVE  Told(r)
BY DEF Cause, Canonical, Told

(* Whatever has ended did so for a cause. *)
EndsHaveCauses ==
    \A p \in Proposals : at[p] = "ended" => Cause(record[p], record[p].status, record[p].stage)

LEMMA CauseStep ==
    ASSUME PipelineInv, EndsHaveCauses, [Next]_vars
    PROVE  EndsHaveCauses'
<1>1. ASSUME NEW p \in Proposals, Step(p), NEW q \in Proposals, at'[q] = "ended"
      PROVE  Cause(record'[q], record'[q].status, record'[q].stage)
  <2>1. CASE q # p
    BY <1>1, <2>1, OthersStand DEF EndsHaveCauses
  <2>2. CASE q = p
    <3>1. PICK r, status, stage : EndsFor(p, r, status, stage)
      BY <1>1, <2>2, Endings DEF EndsSomehow
    <3> DEFINE last == record'[p]
    <3>2. /\ last.stage = stage /\ last.status = status
          /\ last.candidate = r.candidate
          /\ last.retry = r.retry /\ last.safety = r.safety
          /\ last.tests = r.tests /\ last.evaluation = r.evaluation
          /\ last.refused = r.refused /\ last.attempts = r.attempts
      BY <3>1, EndedRecord
    <3>3. Cause(r, status, stage)
      BY <3>1 DEF EndsFor
    <3> HIDE DEF last
    <3>4. LastOutcome(last) = LastOutcome(r) /\ (WentThrough(r) => WentThrough(last))
      <4>1. LastOutcome(last) = LastOutcome(r)
        BY <3>2 DEF LastOutcome
      <4>2. ASSUME WentThrough(r) PROVE WentThrough(last)
        BY <3>2, <4>2, Zenon DEF WentThrough
      <4>3. QED
        BY <4>1, <4>2
    <3>5. Cause(last, last.status, last.stage)
      BY <3>2, <3>3, <3>4 DEF Cause
    <3>6. QED
      BY <2>2, <3>5 DEF last
  <2>3. QED
    BY <2>1, <2>2
<1>2. CASE SetKillSwitch \/ UNCHANGED vars
  BY <1>2 DEF SetKillSwitch, vars, EndsHaveCauses
<1>3. QED
  BY <1>1, <1>2 DEF Next, EndsHaveCauses

LEMMA CausesAreThere == Spec => []EndsHaveCauses
<1>1. Init => EndsHaveCauses
  BY DEF Init, EndsHaveCauses
<1>2. QED
  BY <1>1, CauseStep, Invariance, PTL DEF Spec

(* from_acquisition_record tells each ended proposal by what ended it, for *)
(* every reply of the evaluator and every answer of the sandbox.           *)
THEOREM CausesAreTold == Spec => []CauseIsTold
<1>1. EndsHaveCauses => CauseIsTold
  <2>1. CauseIsTold <=> \A q \in Proposals : at[q] = "ended" => Told(record[q])
    BY DEF CauseIsTold, Told
  <2>2. QED
    BY <2>1, CanonicalOf DEF EndsHaveCauses
<1>2. QED
  BY <1>1, CausesAreThere, PTL

-----------------------------------------------------------------------------
(* The stage a record is at *)

(* A proposal that runs a stage carries the stage before it in its record: *)
(* snap() comes after the stage's work.                                    *)
Running(p) == IF at[p] \in {"create", "save"} THEN "AWAITING_APPROVAL" ELSE at[p]
StagesLag ==
    \A p \in Proposals : Underway(p) =>
        /\ record[p].stage = StageBefore(Running(p), record[p].attempts)
        /\ at[p] = "RESEARCH" => record[p].attempts = <<>>

LEMMA StageSet ==
    ASSUME PipelineInv', NEW p \in Proposals, NEW r, NEW stage, NEW next,
           record' = [record EXCEPT ![p] = [r EXCEPT !.stage = stage]],
           at' = [at EXCEPT ![p] = next], PipelineInv
    PROVE  record'[p].stage = stage /\ record'[p].attempts = r.attempts /\ at'[p] = next
<1>1. /\ record'[p] = [r EXCEPT !.stage = stage] /\ at'[p] = next
  BY DEF PipelineInv, TypeOK
<1>2. record'[p] \in Record
  BY DEF PipelineInv, TypeOK
<1>3. {"stage", "attempts"} \subseteq DOMAIN record'[p]
  BY <1>2 DEF Record
<1>4. QED
  BY <1>1, <1>3

LEMMA StageStep ==
    ASSUME PipelineInv, StagesLag, NEW p \in Proposals, Step(p), Underway(p)'
    PROVE  /\ record'[p].stage = StageBefore(Running(p)', record'[p].attempts)
           /\ at'[p] = "RESEARCH" => record'[p].attempts = <<>>
<1>1. PipelineInv'
  BY StepKeepsInvariant DEF Next
<1>2. at'[p] \notin {"idle", "ended", "gone"} /\ at \in [Proposals -> Points]
      /\ record \in [Proposals -> Record]
  BY DEF Underway, PipelineInv, TypeOK
<1>3. ASSUME NEW r, NEW stage, NEW next, GoesOn(p, r, stage, next)
      PROVE  record'[p].stage = stage /\ record'[p].attempts = r.attempts /\ at'[p] = next
  BY <1>1, <1>3, StageSet DEF GoesOn
<1>4. ASSUME NEW r, NEW status, NEW stage, Ends(p, r, status, stage) PROVE FALSE
  BY <1>2, <1>4 DEF Ends
<1>5. ASSUME NEW retry \in BOOLEAN, Begin(p, retry)
      PROVE  /\ at'[p] = "RESEARCH" /\ record'[p].stage = "GUARDIAN_PRESCREEN"
             /\ record'[p].attempts = <<>>
  <2> DEFINE r == [NewRecord EXCEPT !.retry = retry]
  <2>1. /\ record' = [record EXCEPT ![p] = [r EXCEPT !.stage = "GUARDIAN_PRESCREEN"]]
        /\ at' = [at EXCEPT ![p] = "RESEARCH"]
    BY <1>4, <1>5 DEF Begin
  <2>2. r.attempts = <<>>
    BY DEF NewRecord
  <2> HIDE DEF r
  <2>3. /\ record'[p].stage = "GUARDIAN_PRESCREEN" /\ record'[p].attempts = r.attempts
        /\ at'[p] = "RESEARCH"
    BY <1>1, <2>1, StageSet, Zenon
  <2>4. QED
    BY <2>2, <2>3
<1>6. CASE Research(p)
  <2>1. /\ at'[p] = "GENERATE" /\ record'[p].stage = "RESEARCH"
        /\ record'[p].attempts = record[p].attempts /\ at[p] = "RESEARCH"
    BY <1>3, <1>6 DEF Research
  <2>2. record[p].attempts = <<>>
    BY <2>1 DEF StagesLag, Underway
  <2>3. QED
    BY <2>1, <2>2 DEF Running, StageBefore
<1>7. CASE Generate(p) \/ SafetyScreen(p) \/ Evaluate(p) \/ GuardianScreen(p)
  <2>1. \/ at'[p] = "SAFETY_SCREEN" /\ record'[p].stage = "GENERATE"
        \/ at'[p] = "SANDBOX_TEST" /\ record'[p].stage = "SAFETY_SCREEN"
        \/ at'[p] = "GUARDIAN_SCREEN" /\ record'[p].stage = "EVALUATE"
        \/ at'[p] = "create" /\ record'[p].stage = "GUARDIAN_SCREEN"
    BY <1>3, <1>4, <1>7 DEF Generate, SafetyScreen, Evaluate, GuardianScreen
  <2>2. QED
    BY <2>1 DEF Running, StageBefore
<1>8. CASE SandboxTest(p)
  <2> DEFINE tried(t) == [record[p] EXCEPT !.tests = [of |-> Current(p), result |-> t]]
  <2>1. PICK t \in TestResults, o \in Outcomes, next \in {"EVALUATE", "GENERATE"} :
           GoesOn(p, WithOutcome(tried(t), o), "SANDBOX_TEST", next)
    BY <1>4, <1>8 DEF SandboxTest, TestResults, Outcomes, ExecuteInSandbox, AfterPassing
  <2> DEFINE r == tried(t)
  <2>2. record[p] \in Record /\ record[p].name \in Names
    BY <1>8, StateTyped DEF SandboxTest, Ready, Chosen
  <2>3. r \in Record /\ r.name = record[p].name
    <3>1. record[p].candidate \in Attempts
      BY <2>2, RecordFields
    <3>2. r \in Record
      BY <2>2, <3>1, RecordUpdates DEF Current
    <3>3. QED
      BY <2>2, <3>2 DEF Current, Record
  <2>4. /\ record'[p].stage = "SANDBOX_TEST" /\ at'[p] = next
        /\ record'[p].attempts = WithOutcome(r, o).attempts
    BY <1>3, <2>1
  <2> HIDE DEF tried, r
  <2>5. WithOutcome(r, o).attempts # <<>>
    <3>1. WithOutcome(r, o) \in Record /\ Len(WithOutcome(r, o).attempts) = Len(r.attempts) + 1
      BY <2>2, <2>3, AttemptAppended
    <3>2. Len(r.attempts) \in Nat
      BY <2>3, RecordFields
    <3>3. QED
      BY <3>1, <3>2
  <2>6. QED
    BY <2>4, <2>5 DEF Running, StageBefore
<1>9. CASE CreateRequest(p) \/ SaveCapability(p)
  <2>1. /\ record'[p].stage = record[p].stage /\ record'[p].attempts = record[p].attempts
        /\ at[p] \in {"create", "save"} /\ at'[p] \in {"save", "AWAITING_APPROVAL"}
    BY <1>2, <1>9 DEF CreateRequest, SaveCapability, Record
  <2>2. record[p].stage = "GUARDIAN_SCREEN"
    BY <2>1 DEF StagesLag, Running, StageBefore, Underway
  <2>3. QED
    BY <2>1, <2>2 DEF Running, StageBefore
<1>10. CASE AwaitApproval(p) \/ Abandoned(p) \/ StageRaises(p)
  BY <1>2, <1>4, <1>10 DEF AwaitApproval, Abandoned, StageRaises
<1>11. QED
  <2>1. CASE \E retry \in BOOLEAN : Begin(p, retry)
    BY <1>5, <2>1 DEF Running, StageBefore
  <2>2. QED
    BY <1>6, <1>7, <1>8, <1>9, <1>10, <2>1 DEF Step

LEMMA StagesLagStep ==
    ASSUME PipelineInv, StagesLag, [Next]_vars
    PROVE  StagesLag'
<1>1. ASSUME NEW p \in Proposals, Step(p), NEW q \in Proposals, Underway(q)'
      PROVE  /\ record'[q].stage = StageBefore(Running(q)', record'[q].attempts)
             /\ at'[q] = "RESEARCH" => record'[q].attempts = <<>>
  <2>1. CASE q = p
    BY <1>1, <2>1, StageStep
  <2>2. CASE q # p
    <3>1. at'[q] = at[q] /\ record'[q] = record[q]
      BY <1>1, <2>2, OthersStand
    <3>2. QED
      BY <1>1, <3>1 DEF StagesLag, Underway, Running
  <2>3. QED
    BY <2>1, <2>2
<1>2. CASE SetKillSwitch \/ UNCHANGED vars
  BY <1>2 DEF SetKillSwitch, vars, StagesLag, Underway, Running
<1>3. QED
  BY <1>1, <1>2 DEF Next, StagesLag

LEMMA StagesAlwaysLag == Spec => []StagesLag
<1>1. Init => StagesLag
  BY DEF Init, StagesLag, Underway
<1>2. QED
  BY <1>1, StagesLagStep, Invariance, PTL DEF Spec

-----------------------------------------------------------------------------
(* What the audit log holds *)

(* Logged: an event of p is appended.                                      *)
Logged(p, e) == e \in Events /\ e.proposal = p /\ audit' = Append(audit, e)

LEMMA Appended ==
    ASSUME PipelineInv, NEW p \in Proposals, NEW e, Logged(p, e), NEW last,
           last = Len(audit) + 1
    PROVE  /\ DOMAIN audit' = DOMAIN audit \cup {last} /\ last \notin DOMAIN audit
           /\ audit'[last] = e /\ \A i \in DOMAIN audit : audit'[i] = audit[i]
           /\ \A q \in Proposals :
                 /\ EventsOf(q)' = (IF q = p THEN EventsOf(q) \cup {last} ELSE EventsOf(q))
                 /\ Closing(q)' = (IF q = p /\ e.status # "IN_PROGRESS"
                                   THEN Closing(q) \cup {last} ELSE Closing(q))
<1>1. audit \in Seq(Events) /\ e \in Events /\ e.proposal = p
  BY DEF PipelineInv, TypeOK, Logged
<1>2. /\ Append(audit, e)[last] = e /\ \A i \in DOMAIN audit : Append(audit, e)[i] = audit[i]
      /\ DOMAIN Append(audit, e) = DOMAIN audit \cup {last} /\ last \notin DOMAIN audit
  BY <1>1
<1>3. /\ audit'[last] = e /\ \A i \in DOMAIN audit : audit'[i] = audit[i]
      /\ DOMAIN audit' = DOMAIN audit \cup {last} /\ last \notin DOMAIN audit
  BY <1>2 DEF Logged
<1>4. \A q \in Proposals : EventsOf(q)' =
         (IF q = p THEN EventsOf(q) \cup {last} ELSE EventsOf(q))
  BY <1>1, <1>3, Zenon DEF EventsOf
<1>5. ASSUME NEW q \in Proposals
      PROVE  Closing(q)' = (IF q = p /\ e.status # "IN_PROGRESS"
                            THEN Closing(q) \cup {last} ELSE Closing(q))
  <2>1. EventsOf(q) \subseteq DOMAIN audit
    BY DEF EventsOf
  <2>2. \A i \in EventsOf(q) : audit'[i] = audit[i]
    BY <1>3, <2>1
  <2>3. EventsOf(q)' = (IF q = p THEN EventsOf(q) \cup {last} ELSE EventsOf(q))
    BY <1>4
  <2>4. QED
    BY <1>3, <2>2, <2>3 DEF Closing
<1>6. QED
  BY <1>3, <1>4, <1>5

(* What a step of a proposal writes to the log: that it started, nothing,  *)
(* that it ended and how, or that it raised.                               *)
LogStarts(p) ==
    /\ at[p] = "idle" /\ at'[p] = "RESEARCH"
    /\ \E e : Logged(p, e) /\ e.status = "IN_PROGRESS"
LogStands(p) ==
    /\ Underway(p) /\ at'[p] \notin {"idle", "ended"}
    /\ audit' = audit
LogEnds(p) ==
    /\ at[p] = "idle" \/ Underway(p)
    /\ at'[p] = "ended"
    /\ \E e : /\ Logged(p, e) /\ e.status # "IN_PROGRESS"
              /\ e.status = record'[p].status /\ e.name = record'[p].name
              /\ e.status = "AWAITING_APPROVAL" =>
                    at[p] = "AWAITING_APPROVAL" /\ e.name = record[p].name
              /\ StagesLag =>
                    e.stage = StageBefore(record'[p].stage, record'[p].attempts)
LogRaises(p) ==
    /\ Underway(p) /\ at'[p] = "gone"
    /\ \E e : Logged(p, e) /\ e.status = "ERROR"

LEMMA EndIsLogged ==
    ASSUME PipelineInv, NEW p \in Proposals, at[p] \notin {"ended", "gone"}, EndsSomehow(p)
    PROVE  LogEnds(p)
<1>1. PICK r, status, stage : EndsFor(p, r, status, stage)
  BY DEF EndsSomehow
<1> DEFINE closed == [r EXCEPT !.status = status]
           e == Event(p, closed)
<1>2. /\ closed \in Record /\ closed.status = status /\ closed.name = r.name
      /\ closed.stage = r.stage
  <2>1. r \in Record /\ status \in Status
    BY <1>1 DEF EndsFor
  <2>2. closed \in Record
    BY <2>1, RecordUpdates
  <2>3. QED
    BY <2>1, <2>2 DEF Record
<1>3. audit' = Append(audit, e)
  BY <1>1 DEF EndsFor, Ends
<1> HIDE DEF closed
<1>4. /\ e \in Events /\ e.proposal = p /\ e.status = status /\ e.name = r.name
      /\ e.stage = r.stage
  BY <1>2, EventTyped DEF Event
<1> HIDE DEF e
<1>5. status # "IN_PROGRESS"
      /\ (status = "AWAITING_APPROVAL" => at[p] = "AWAITING_APPROVAL" /\ r = record[p])
  BY <1>1 DEF EndsFor, Cause
<1>6. /\ record'[p].status = status /\ record'[p].name = r.name /\ at'[p] = "ended"
      /\ record'[p].stage = stage /\ record'[p].attempts = r.attempts
  BY <1>1, EndedRecord
<1>7. ASSUME StagesLag PROVE r.stage = StageBefore(stage, r.attempts)
  <2>1. CASE at[p] = "idle"
    BY <1>1, <2>1 DEF EndsFor, StageBefore
  <2>2. CASE at[p] # "idle"
    <3>1. /\ stage \in Stages /\ stage = at[p] /\ r.stage = record[p].stage
          /\ stage = "GENERATE" => r = record[p]
      BY <1>1, <2>2 DEF EndsFor, Cause
    <3>2. record[p].stage = StageBefore(stage, record[p].attempts)
      BY <1>7, <2>2, <3>1 DEF StagesLag, Underway, Running, Stages
    <3>3. stage # "GENERATE" => StageBefore(stage, record[p].attempts) = StageBefore(stage, r.attempts)
      BY DEF StageBefore
    <3>4. QED
      BY <3>1, <3>2, <3>3
  <2>3. QED
    BY <2>1, <2>2
<1>8. QED
  BY <1>3, <1>4, <1>5, <1>6, <1>7 DEF LogEnds, Logged, Underway

LEMMA LogSteps ==
    ASSUME PipelineInv, NEW p \in Proposals, Step(p)
    PROVE  LogStarts(p) \/ LogStands(p) \/ LogEnds(p) \/ LogRaises(p)
<1>1. at \in [Proposals -> Points] /\ record[p] \in Record
  BY DEF PipelineInv, TypeOK
<1>2. at[p] \notin {"ended", "gone"}
  BY DEF Step, Begin, Research, Generate, SafetyScreen, SandboxTest, Evaluate, GuardianScreen,
         CreateRequest, SaveCapability, AwaitApproval, Abandoned, StageRaises, Underway
<1>3. CASE at'[p] = "ended"
  BY <1>2, <1>3, Endings, EndIsLogged
<1>4. CASE at'[p] # "ended"
  <2>1. ASSUME NEW retry \in BOOLEAN, Begin(p, retry) PROVE LogStarts(p)
    <3> DEFINE r == [NewRecord EXCEPT !.retry = retry]
    <3>1. r \in Record /\ r.status = "IN_PROGRESS"
      BY NewRecordTyped DEF NewRecord
    <3>2. Event(p, r) \in Events /\ Event(p, r).proposal = p
          /\ Event(p, r).status = "IN_PROGRESS"
      BY <3>1, EventTyped DEF Event
    <3>3. at[p] = "idle" /\ at'[p] = "RESEARCH" /\ audit' = Append(audit, Event(p, r))
      BY <1>1, <1>4, <2>1 DEF Begin, Ends
    <3>4. QED
      BY <3>2, <3>3 DEF LogStarts, Logged
  <2>2. CASE StageRaises(p)
    <3> DEFINE e == [proposal |-> p, stage |-> "STARTED", status |-> "ERROR", name |-> NoName]
    <3>1. e \in Events /\ e.proposal = p /\ e.status = "ERROR"
      BY DEF Events
    <3>2. Logged(p, e) /\ Underway(p) /\ at'[p] = "gone"
      BY <1>1, <2>2, <3>1 DEF StageRaises, Logged
    <3>3. QED
      BY <3>1, <3>2 DEF LogRaises
  <2>3. ASSUME NEW r, NEW stage, NEW next, GoesOn(p, r, stage, next), at[p] # "idle",
               next \notin {"idle", "ended"}
        PROVE  LogStands(p)
    BY <1>1, <1>2, <2>3 DEF GoesOn, LogStands, Underway
  <2>4. ASSUME NEW r, NEW status, NEW stage, Ends(p, r, status, stage) PROVE FALSE
    BY <1>1, <1>4, <2>4 DEF Ends
  <2>5. CASE Research(p) \/ Generate(p) \/ SafetyScreen(p)
    <3>1. /\ at[p] # "idle"
          /\ \E r, stage : \/ \E next \in {"GENERATE", "SAFETY_SCREEN", "SANDBOX_TEST"} :
                                GoesOn(p, r, stage, next)
                          \/ \E status : Ends(p, r, status, stage)
      BY <2>5 DEF Research, Generate, SafetyScreen
    <3>2. QED
      BY <2>3, <2>4, <3>1
  <2>6. CASE SandboxTest(p) \/ Evaluate(p) \/ GuardianScreen(p) \/ AwaitApproval(p)
    <3>1. /\ at[p] # "idle"
          /\ \E r, stage : \/ \E next \in {"EVALUATE", "GENERATE", "GUARDIAN_SCREEN", "create"} :
                                GoesOn(p, r, stage, next)
                          \/ \E status : Ends(p, r, status, stage)
      BY <2>6 DEF SandboxTest, Evaluate, GuardianScreen, AwaitApproval, AfterPassing
    <3>2. QED
      BY <2>3, <2>4, <3>1
  <2>7. CASE CreateRequest(p) \/ SaveCapability(p) \/ Abandoned(p)
    BY <1>1, <2>7 DEF CreateRequest, SaveCapability, Abandoned, LogStands, Underway
  <2>8. QED
    BY <2>1, <2>2, <2>5, <2>6, <2>7 DEF Step
<1>5. QED
  BY <1>3, <1>4

(* A proposal has no event before it begins, has one from then on, and is  *)
(* closed when it has ended, not before; one that was cut off is at most   *)
(* told as an error.                                                       *)
ClosedBy(p, i) ==
    /\ Closing(p) = {i}
    /\ audit[i].status = record[p].status /\ audit[i].name = record[p].name
    /\ audit[i].stage = StageBefore(record[p].stage, record[p].attempts)
InLog(p) ==
    /\ at[p] = "idle" => EventsOf(p) = {} /\ record[p].candidate = 0
    /\ at[p] # "idle" => EventsOf(p) # {}
    /\ Underway(p) => Closing(p) = {}
    /\ at[p] = "ended" => \E i \in EventsOf(p) : ClosedBy(p, i)
    /\ at[p] = "gone" => \A i \in Closing(p) : audit[i].status = "ERROR"
LogInv == \A p \in Proposals : InLog(p)

LEMMA LogInvStep ==
    ASSUME PipelineInv, StagesLag, LogInv, [Next]_vars
    PROVE  LogInv'
<1> SUFFICES ASSUME NEW q \in Proposals PROVE InLog(q)'
  BY DEF LogInv
<1>1. InLog(q)
  BY DEF LogInv
<1>0. PICK last : last = Len(audit) + 1
  OBVIOUS
<1>2. EventsOf(q) \subseteq DOMAIN audit /\ Closing(q) \subseteq EventsOf(q)
  BY DEF EventsOf, Closing
<1>3. ASSUME NEW p \in Proposals, Step(p), p # q PROVE InLog(q)'
  <2>1. at'[q] = at[q] /\ record'[q] = record[q]
    BY <1>3, OthersStand
  <2>2. /\ EventsOf(q)' = EventsOf(q) /\ Closing(q)' = Closing(q)
        /\ \A i \in DOMAIN audit : audit'[i] = audit[i]
    <3>1. CASE audit' = audit
      BY <3>1 DEF EventsOf, Closing
    <3>2. CASE \E e : Logged(p, e)
      BY <1>3, <3>2, Appended
    <3>3. QED
      BY <1>3, <3>1, <3>2, LogSteps DEF LogStarts, LogStands, LogEnds, LogRaises
  <2>3. \A i \in EventsOf(q) : ClosedBy(q, i) => ClosedBy(q, i)'
    BY <1>2, <2>1, <2>2 DEF ClosedBy
  <2>4. \A i \in Closing(q) : audit'[i] = audit[i]
    BY <1>2, <2>2
  <2>5. QED
    BY <1>1, <2>1, <2>2, <2>3, <2>4 DEF InLog, Underway
<1>4. CASE Step(q)
  <2>1. CASE LogStarts(q)
    <3>1. PICK e : Logged(q, e) /\ e.status = "IN_PROGRESS"
      BY <2>1 DEF LogStarts
    <3>2. EventsOf(q)' = EventsOf(q) \cup {last} /\ Closing(q)' = Closing(q)
      BY <1>0, <3>1, Appended
    <3>3. QED
      BY <1>1, <1>2, <2>1, <3>2 DEF LogStarts, InLog, Underway
  <2>2. CASE LogStands(q)
    <3>1. EventsOf(q)' = EventsOf(q) /\ Closing(q)' = Closing(q)
      BY <2>2 DEF LogStands, EventsOf, Closing
    <3>2. QED
      BY <1>1, <2>2, <3>1 DEF LogStands, InLog, Underway
  <2>3. CASE LogEnds(q)
    <3>1. PICK e : /\ Logged(q, e) /\ e.status # "IN_PROGRESS"
                   /\ e.status = record'[q].status /\ e.name = record'[q].name
                   /\ e.stage = StageBefore(record'[q].stage, record'[q].attempts)
      BY <2>3 DEF LogEnds
    <3>2. Closing(q) = {} /\ at'[q] = "ended"
      BY <1>1, <1>2, <2>3 DEF LogEnds, InLog
    <3>3. last \in EventsOf(q)' /\ Closing(q)' = {last} /\ audit'[last] = e
      <4>1. Logged(q, e) /\ e.status # "IN_PROGRESS"
        BY <3>1
      <4>2. /\ EventsOf(q)' = EventsOf(q) \cup {last} /\ audit'[last] = e
            /\ Closing(q)' = Closing(q) \cup {last}
        BY <1>0, <4>1, Appended
      <4>3. QED
        BY <3>2, <4>2
    <3>4. ClosedBy(q, last)'
      BY <3>1, <3>3 DEF ClosedBy
    <3>5. /\ at'[q] \notin {"idle", "gone"} /\ ~Underway(q)'
          /\ \E i \in EventsOf(q)' : ClosedBy(q, i)'
      BY <3>2, <3>3, <3>4 DEF Underway
    <3>6. QED
      BY <3>5 DEF InLog
  <2>4. CASE LogRaises(q)
    <3>1. PICK e : Logged(q, e) /\ e.status = "ERROR"
      BY <2>4 DEF LogRaises
    <3>2. EventsOf(q)' # {} /\ Closing(q)' = Closing(q) \cup {last} /\ audit'[last] = e
      <4>1. Logged(q, e) /\ e.status # "IN_PROGRESS"
        BY <3>1
      <4>2. /\ EventsOf(q)' = EventsOf(q) \cup {last} /\ audit'[last] = e
            /\ Closing(q)' = Closing(q) \cup {last}
        BY <1>0, <4>1, Appended
      <4>3. QED
        BY <4>2
    <3>3. Closing(q) = {}
      BY <1>1, <2>4 DEF LogRaises, InLog
    <3>4. QED
      BY <2>4, <3>1, <3>2, <3>3 DEF LogRaises, InLog, Underway
  <2>5. QED
    BY <1>4, <2>1, <2>2, <2>3, <2>4, LogSteps
<1>5. CASE SetKillSwitch \/ UNCHANGED vars
  <2>1. at' = at /\ record' = record /\ audit' = audit
    BY <1>5 DEF SetKillSwitch, vars
  <2>2. QED
    BY <1>1, <2>1 DEF InLog, Underway, ClosedBy, EventsOf, Closing
<1>6. QED
  BY <1>3, <1>4, <1>5 DEF Next

LEMMA LogInvariant == Spec => []LogInv
<1>1. Init => LogInv
  BY DEF Init, LogInv, InLog, EventsOf, Closing, Underway, NewRecord
<1>2. QED
  BY <1>1, LogInvStep, StagesAlwaysLag, Invariance, PTL DEF Spec

(* The audit log has a proposal's start before anything is spent on it,    *)
(* and its end once, as it ended: however many proposals share the log.    *)
THEOREM AuditIsComplete == Spec => []OutcomesAreAudited
<1>1. LogInv => OutcomesAreAudited
  <2> SUFFICES ASSUME LogInv, NEW p \in Proposals
               PROVE  /\ Underway(p) \/ record[p].candidate > 0 => EventsOf(p) # {}
                      /\ Underway(p) => Closing(p) = {}
                      /\ at[p] = "ended" =>
                            \E i \in Closing(p) :
                                /\ Closing(p) = {i}
                                /\ audit[i].status = record[p].status
                                /\ audit[i].name = record[p].name
                                /\ audit[i].stage =
                                      StageBefore(record[p].stage, record[p].attempts)
    BY DEF OutcomesAreAudited
  <2>1. InLog(p)
    BY DEF LogInv
  <2>2. QED
    BY <2>1 DEF InLog, Underway, ClosedBy
<1>2. QED
  BY <1>1, LogInvariant, PTL

(* What the planner takes for a recovery rests on a candidate the          *)
(* evaluator turned down, or on a retry whose generator gave up, and never *)
(* on a proposal that was rejected for its failed test.                    *)
THEOREM RecoveryEvidence == Spec => []RecoveriesAreExplained
<1>1. PipelineInv /\ LogInv /\ EndsHaveCauses => RecoveriesAreExplained
  <2> SUFFICES ASSUME PipelineInv, LogInv, EndsHaveCauses,
                      NEW n \in Names, NEW i \in DOMAIN audit, audit[i].name = n,
                      audit[i].status \in {"REJECTED", "FAILED", "BLOCKED"},
                      audit[i].stage = "SANDBOX_TEST"
               PROVE  \E p \in Proposals :
                         /\ at[p] = "ended" /\ record[p].name = n
                         /\ \/ /\ record[p].status = "REJECTED"
                               /\ LastOutcome(record[p]) = "SANDBOX_PASSED"
                               /\ BelowFloor(record[p].evaluation)
                            \/ /\ record[p].status = "FAILED"
                               /\ LastOutcome(record[p]) = "SANDBOX_FAILED"
    BY DEF RecoveriesAreExplained, RetryRecovered
  <2> DEFINE p == audit[i].proposal
  <2>1. p \in Proposals /\ i \in Closing(p)
    <3>1. audit[i] \in Events
      BY DEF PipelineInv, TypeOK
    <3>2. QED
      BY <3>1 DEF Events, Closing, EventsOf
  <2> HIDE DEF p
  <2>2. at[p] = "ended"
    BY <2>1 DEF LogInv, InLog, Underway, Closing
  <2>3. PICK j \in EventsOf(p) : ClosedBy(p, j)
    BY <2>1, <2>2 DEF LogInv, InLog
  <2>4. /\ record[p].name = n /\ record[p].status = audit[i].status
        /\ StageBefore(record[p].stage, record[p].attempts) = "SANDBOX_TEST"
    BY <2>1, <2>3 DEF ClosedBy
  <2>5. Cause(record[p], record[p].status, record[p].stage)
    BY <2>1, <2>2 DEF EndsHaveCauses
  <2>6. \/ record[p].stage = "EVALUATE"
        \/ record[p].stage = "GENERATE" /\ record[p].attempts # <<>>
    BY <2>4, <2>5 DEF Cause, StageBefore
  <2>7. record[p].attempts # <<>> => LastOutcome(record[p]) # "NONE"
    <3>1. record[p] \in Record
      BY <2>1 DEF PipelineInv, TypeOK
    <3>2. record[p].attempts \in Seq(Attempt)
      BY <3>1, RecordFields
    <3>3. ASSUME record[p].attempts # <<>>
          PROVE  record[p].attempts[Len(record[p].attempts)] \in Attempt
      BY <3>2, <3>3
    <3>4. QED
      BY <3>3 DEF LastOutcome, Attempt, Outcomes
  <2>8. QED
    BY <2>1, <2>2, <2>4, <2>5, <2>6, <2>7 DEF Cause
<1>2. QED
  BY <1>1, LogInvariant, CausesAreThere, Invariance, PTL

-----------------------------------------------------------------------------
(* What memory may recommend *)

(* A name whose latest verdict lets it through is not installed: the       *)
(* document of that proposal took its place before the event was written.  *)
HasLatest(n) ==
    Verdicts(n) = {} \/ \E i \in Verdicts(n) : \A j \in Verdicts(n) : j <= i
ReuseInv ==
    /\ \A n \in Names : HasLatest(n)
    /\ \A i \in DOMAIN audit : audit[i].status = "AWAITING_APPROVAL" =>
           audit[i].name \notin installed
    /\ \A p \in Proposals : at[p] = "AWAITING_APPROVAL" => record[p].name \notin installed

LEMMA LatestKept ==
    ASSUME PipelineInv, ReuseInv, NEW p \in Proposals, NEW e, Logged(p, e), NEW n \in Names
    PROVE  HasLatest(n)'
<1>0. PICK last : last = Len(audit) + 1
  OBVIOUS
<1>1. /\ DOMAIN audit' = DOMAIN audit \cup {last} /\ last \notin DOMAIN audit
      /\ audit'[last] = e /\ \A i \in DOMAIN audit : audit'[i] = audit[i]
  BY <1>0, Appended
<1>2. last \in Int /\ \A i \in DOMAIN audit : i \in Int /\ i <= last
  BY <1>0 DEF PipelineInv, TypeOK
<1>3. Verdicts(n) \subseteq DOMAIN audit /\ HasLatest(n)
  BY DEF Verdicts, ReuseInv
<1>4. Verdicts(n)' = Verdicts(n) \/ Verdicts(n)' = Verdicts(n) \cup {last}
  <2>1. \A i \in DOMAIN audit : i \in Verdicts(n)' <=> i \in Verdicts(n)
    BY <1>1 DEF Verdicts
  <2>2. Verdicts(n)' \subseteq DOMAIN audit \cup {last}
    BY <1>1 DEF Verdicts
  <2>3. QED
    BY <1>3, <2>1, <2>2
<1>5. CASE Verdicts(n)' = Verdicts(n)
  BY <1>3, <1>5 DEF HasLatest
<1>6. CASE Verdicts(n)' = Verdicts(n) \cup {last}
  <2>1. \A j \in Verdicts(n) \cup {last} : j <= last
    BY <1>2, <1>3
  <2>2. QED
    BY <1>6, <2>1 DEF HasLatest
<1>7. QED
  BY <1>4, <1>5, <1>6

LEMMA ReuseInvStep ==
    ASSUME PipelineInv, ReuseInv, [Next]_vars
    PROVE  ReuseInv'
<1>1. ASSUME NEW p \in Proposals, Step(p) PROVE ReuseInv'
  <2>1. /\ at \in [Proposals -> Points] /\ record \in [Proposals -> Record]
        /\ installed \in SUBSET Names
    BY DEF PipelineInv, TypeOK
  <2>2. installed' \subseteq installed
    <3>1. ASSUME UNCHANGED Store PROVE installed' = installed
      BY <3>1 DEF Store
    <3>2. QED
      BY <1>1, <3>1 DEF Step, Begin, Research, Generate, SafetyScreen, SandboxTest, Evaluate,
            GuardianScreen, CreateRequest, SaveCapability, AwaitApproval, Abandoned, StageRaises
  <2>3. \A q \in Proposals : at'[q] = "AWAITING_APPROVAL" => record'[q].name \notin installed'
    <3> SUFFICES ASSUME NEW q \in Proposals, at'[q] = "AWAITING_APPROVAL"
                 PROVE  record'[q].name \notin installed'
      OBVIOUS
    <3>1. CASE q # p
      BY <1>1, <2>2, <3>1, OthersStand DEF ReuseInv
    <3>2. CASE q = p
      <4>1. ASSUME NEW r, NEW stage, NEW next, GoesOn(p, r, stage, next),
                   next # "AWAITING_APPROVAL"
            PROVE  FALSE
        BY <2>1, <3>2, <4>1 DEF GoesOn
      <4>2. ASSUME NEW r, NEW status, NEW stage, Ends(p, r, status, stage) PROVE FALSE
        BY <2>1, <3>2, <4>2 DEF Ends
      <4>3. CASE \E retry \in BOOLEAN : Begin(p, retry)
        BY <2>1, <3>2, <4>2, <4>3 DEF Begin
      <4>4. CASE Research(p) \/ Generate(p) \/ SafetyScreen(p)
        BY <4>1, <4>2, <4>4 DEF Research, Generate, SafetyScreen
      <4>5. CASE SandboxTest(p) \/ Evaluate(p) \/ GuardianScreen(p) \/ AwaitApproval(p)
        BY <4>1, <4>2, <4>5 DEF SandboxTest, Evaluate, GuardianScreen, AwaitApproval, AfterPassing
      <4>6. CASE CreateRequest(p) \/ Abandoned(p) \/ StageRaises(p)
        BY <2>1, <3>2, <4>6 DEF CreateRequest, Abandoned, StageRaises
      <4>7. CASE SaveCapability(p)
        BY <3>2, <4>7 DEF SaveCapability
      <4>8. QED
        BY <1>1, <4>3, <4>4, <4>5, <4>6, <4>7 DEF Step
    <3>3. QED
      BY <3>1, <3>2
  <2>4. CASE audit' = audit
    <3>1. \A n \in Names : HasLatest(n)'
      BY <2>4 DEF ReuseInv, HasLatest, Verdicts
    <3>2. QED
      BY <2>2, <2>3, <2>4, <3>1 DEF ReuseInv
  <2>5. ASSUME NEW e, Logged(p, e),
               e.status = "AWAITING_APPROVAL" => e.name \notin installed
        PROVE  ReuseInv'
    <3>1. \A n \in Names : HasLatest(n)'
      BY <2>5, LatestKept
    <3>2. PICK last : last = Len(audit) + 1
      OBVIOUS
    <3>3. /\ DOMAIN audit' = DOMAIN audit \cup {last} /\ audit'[last] = e
          /\ \A i \in DOMAIN audit : audit'[i] = audit[i]
      BY <2>5, <3>2, Appended
    <3>4. \A i \in DOMAIN audit' : audit'[i].status = "AWAITING_APPROVAL" =>
             audit'[i].name \notin installed'
      BY <2>2, <2>5, <3>3 DEF ReuseInv
    <3>5. QED
      BY <2>3, <3>1, <3>4 DEF ReuseInv
  <2>6. CASE LogStarts(p) \/ LogRaises(p)
    <3>1. PICK e : Logged(p, e) /\ e.status \in {"IN_PROGRESS", "ERROR"}
      BY <2>6 DEF LogStarts, LogRaises
    <3>2. QED
      BY <2>5, <3>1
  <2>7. CASE LogEnds(p)
    <3>1. PICK e : /\ Logged(p, e)
                   /\ e.status = "AWAITING_APPROVAL" =>
                         at[p] = "AWAITING_APPROVAL" /\ e.name = record[p].name
      BY <2>7 DEF LogEnds
    <3>2. QED
      BY <2>5, <3>1 DEF ReuseInv
  <2>8. CASE LogStands(p)
    BY <2>4, <2>8 DEF LogStands
  <2>9. QED
    BY <1>1, <2>6, <2>7, <2>8, LogSteps
<1>2. CASE SetKillSwitch \/ UNCHANGED vars
  <2>1. at' = at /\ record' = record /\ audit' = audit /\ installed' = installed
    BY <1>2 DEF SetKillSwitch, Store, vars
  <2>2. \A n \in Names : HasLatest(n)'
    BY <2>1 DEF ReuseInv, HasLatest, Verdicts
  <2>3. QED
    BY <2>1, <2>2 DEF ReuseInv
<1>3. QED
  BY <1>1, <1>2 DEF Next

(* Memory never recommends to reuse a name some proposal of which was      *)
(* turned down, on whichever instance it was and whatever the plan asks.   *)
THEOREM ReuseIsEarned == Spec => []ReuseIsSound
<1>1. Init => ReuseInv
  BY DEF Init, ReuseInv, HasLatest, Verdicts
<1>2. PipelineInv /\ LogInv /\ ReuseInv => ReuseIsSound
  <2> SUFFICES ASSUME PipelineInv, LogInv, ReuseInv,
                      NEW top \in Names, NEW rival \in Names \cup {NoName},
                      NEW strong \in BOOLEAN,
                      Plan(top, strong, rival) = "REUSE_EXISTING_CAPABILITY",
                      NEW p \in Proposals, at[p] = "ended", record[p].name = top,
                      record[p].status # "FAILED"
               PROVE  FALSE
    BY DEF ReuseIsSound
  <2>1. top \in installed /\ ~Quarantined(top)
    BY DEF Plan, Recommend
  <2>2. PICK i \in EventsOf(p) : ClosedBy(p, i)
    BY DEF LogInv, InLog
  <2>3. i \in DOMAIN audit /\ audit[i].name = top /\ audit[i].status = record[p].status
        /\ audit[i].status # "IN_PROGRESS"
    BY <2>2 DEF EventsOf, ClosedBy, Closing
  <2>4. record[p].status \in Status
    BY RecordFields DEF PipelineInv, TypeOK
  <2>5. i \in Verdicts(top)
    BY <2>3, <2>4 DEF Verdicts, Status, Negative, Cleared
  <2>6. PICK k \in Verdicts(top) : \A j \in Verdicts(top) : j <= k
    BY <2>5 DEF ReuseInv, HasLatest
  <2>7. k \in DOMAIN audit /\ audit[k].name = top /\ audit[k].status = "AWAITING_APPROVAL"
    BY <2>1, <2>6 DEF Quarantined, Verdicts, Cleared
  <2>8. QED
    BY <2>1, <2>7 DEF ReuseInv
<1>3. QED
  BY <1>1, <1>2, ReuseInvStep, LogInvariant, Invariance, PTL DEF Spec

-----------------------------------------------------------------------------
(* How proposals move *)

Declared(old, new) == old = new \/ <<old, new>> \in Transitions \cup Undeclared

LEMMA EndIsDeclared ==
    ASSUME PipelineInv, NEW p \in Proposals, at[p] \notin {"ended", "gone"}, EndsSomehow(p)
    PROVE  Declared(Phase(p), Phase(p)')
<1>1. PICK r, status, stage : EndsFor(p, r, status, stage)
  BY DEF EndsSomehow
<1>2. /\ record'[p].stage = stage /\ record'[p].status = status
      /\ record'[p].evaluation = r.evaluation /\ at'[p] = "ended"
  BY <1>1, EndedRecord
<1>3. Cause(r, status, stage)
      /\ (status = "AWAITING_APPROVAL" => at[p] = "AWAITING_APPROVAL" /\ r = record[p])
      /\ (at[p] = "idle" <=> stage \in {"KILL_SWITCH", "GUARDIAN_PRESCREEN"})
      /\ (at[p] # "idle" => stage = at[p])
  BY <1>1 DEF EndsFor, Cause
<1>4. Phase(p)' = Canonical(record'[p])
  BY <1>2 DEF Phase
<1>5. CASE at[p] = "idle"
  <2>1. Phase(p) = "REQUESTED" /\ Phase(p)' \in {"NONE", "POLICY_REFUSED"}
    BY <1>2, <1>3, <1>4, <1>5 DEF Phase, Canonical, Cause
  <2>2. QED
    BY <2>1 DEF Declared, Transitions, Undeclared
<1>6. CASE at[p] = "GENERATE"
  <2>1. Phase(p) = "GENERATING" /\ Phase(p)' = "GENERATION_FAILED"
    BY <1>2, <1>3, <1>4, <1>6 DEF Phase, Canonical, Cause
  <2>2. QED
    BY <2>1 DEF Declared, Transitions
<1>7. CASE at[p] = "SAFETY_SCREEN"
  <2>1. Phase(p) = "SCREENING" /\ Phase(p)' = "SAFETY_REJECTED"
    BY <1>2, <1>3, <1>4, <1>7 DEF Phase, Canonical, Cause
  <2>2. QED
    BY <2>1 DEF Declared, Transitions
<1>8. CASE at[p] = "SANDBOX_TEST"
  <2>1. Phase(p) = "SANDBOX_TESTING" /\ Phase(p)' \in {"SANDBOX_FAILED", "SANDBOX_UNREACHABLE"}
    BY <1>2, <1>3, <1>4, <1>8 DEF Phase, Canonical, Cause
  <2>2. QED
    BY <2>1 DEF Declared, Transitions
<1>9. CASE at[p] = "EVALUATE"
  <2>1. Phase(p) = "EVALUATING" /\ Phase(p)' = "EVALUATION_FAILED"
    BY <1>2, <1>3, <1>4, <1>9 DEF Phase, Canonical, Cause
  <2>2. QED
    BY <2>1 DEF Declared, Transitions
<1>10. CASE at[p] = "GUARDIAN_SCREEN"
  <2>1. Phase(p) \in {"EVALUATING", "EVALUATION_UNSCORED"} /\ Phase(p)' = "POLICY_REFUSED"
    BY <1>2, <1>3, <1>4, <1>10 DEF Phase, Canonical, Cause
  <2>2. QED
    BY <2>1 DEF Declared, Undeclared
<1>11. CASE at[p] = "AWAITING_APPROVAL"
  <2>1. \/ Phase(p) = "EVALUATION_UNSCORED" /\ Phase(p)' = "EVALUATION_UNSCORED"
        \/ Phase(p) = "EVALUATING" /\ Phase(p)' = "AWAITING_APPROVAL"
    BY <1>2, <1>3, <1>4, <1>11 DEF Phase, Canonical, Cause
  <2>2. QED
    BY <2>1 DEF Declared, Transitions
<1>12. QED
  BY <1>3, <1>5, <1>6, <1>7, <1>8, <1>9, <1>10, <1>11 DEF Cause

LEMMA MoveIsDeclared ==
    ASSUME PipelineInv, NEW p \in Proposals, Step(p), at'[p] \notin {"ended", "gone"}
    PROVE  Declared(Phase(p), Phase(p)')
<1>1. /\ at \in [Proposals -> Points] /\ record \in [Proposals -> Record]
      /\ record[p] \in Record
  BY DEF PipelineInv, TypeOK
<1>2. ASSUME NEW r, NEW status, NEW stage, Ends(p, r, status, stage) PROVE FALSE
  BY <1>1, <1>2 DEF Ends
<1>3. ASSUME NEW r, NEW stage, NEW next, GoesOn(p, r, stage, next)
      PROVE  at'[p] = next /\ record'[p] = [r EXCEPT !.stage = stage]
  BY <1>1, <1>3 DEF GoesOn
<1>4. ASSUME NEW retry \in BOOLEAN, Begin(p, retry) PROVE Declared(Phase(p), Phase(p)')
  <2>1. at[p] = "idle" /\ at'[p] = "RESEARCH"
    BY <1>1, <1>2, <1>4 DEF Begin
  <2>2. QED
    BY <2>1 DEF Phase, Declared, Undeclared
<1>5. CASE Research(p)
  <2>1. at[p] = "RESEARCH" /\ at'[p] = "GENERATE"
    BY <1>3, <1>5 DEF Research
  <2>2. QED
    BY <2>1 DEF Phase, Declared, Transitions
<1>6. CASE Generate(p)
  <2>1. at[p] = "GENERATE" /\ at'[p] = "SAFETY_SCREEN"
    BY <1>2, <1>3, <1>6 DEF Generate
  <2>2. QED
    BY <2>1 DEF Phase, Declared, Transitions
<1>7. CASE SafetyScreen(p)
  <2>1. at[p] = "SAFETY_SCREEN" /\ at'[p] = "SANDBOX_TEST"
    BY <1>2, <1>3, <1>7 DEF SafetyScreen
  <2>2. QED
    BY <2>1 DEF Phase, Declared, Transitions
<1>8. CASE SandboxTest(p)
  <2>1. at[p] = "SANDBOX_TEST" /\ at'[p] \in {"EVALUATE", "GENERATE"}
    BY <1>2, <1>3, <1>8 DEF SandboxTest, AfterPassing
  <2>2. QED
    BY <2>1 DEF Phase, Declared, Transitions, Undeclared
<1>9. CASE Evaluate(p)
  <2>1. at[p] = "EVALUATE" /\ at'[p] = "GUARDIAN_SCREEN"
    <3>1. at[p] = "EVALUATE" /\ \E r : \/ Ends(p, r, "REJECTED", "EVALUATE")
                                   \/ GoesOn(p, r, "EVALUATE", "GUARDIAN_SCREEN")
      BY <1>9, Zenon DEF Evaluate
    <3>2. QED
      BY <1>2, <1>3, <3>1
  <2>2. Phase(p) = "EVALUATING" /\ Phase(p)' \in {"EVALUATION_UNSCORED", "EVALUATING"}
    BY <2>1 DEF Phase
  <2>3. QED
    BY <2>2 DEF Declared, Transitions
<1>10. CASE GuardianScreen(p) \/ CreateRequest(p) \/ SaveCapability(p)
  <2>1. /\ at[p] \in {"GUARDIAN_SCREEN", "create", "save"}
        /\ at'[p] \in {"create", "save", "AWAITING_APPROVAL"}
    BY <1>1, <1>2, <1>3, <1>10 DEF GuardianScreen, CreateRequest, SaveCapability
  <2>2. record'[p].evaluation = record[p].evaluation
    <3>1. CASE GuardianScreen(p)
      <4>1. record'[p] = [record[p] EXCEPT !.stage = "GUARDIAN_SCREEN"]
        BY <1>2, <1>3, <3>1 DEF GuardianScreen
      <4>2. QED
        BY <1>1, <4>1 DEF Record
    <3>2. CASE CreateRequest(p)
      <4>1. record'[p] = [record[p] EXCEPT !.status = "AWAITING_APPROVAL"]
        BY <1>1, <3>2 DEF CreateRequest
      <4>2. QED
        BY <1>1, <4>1 DEF Record
    <3>3. CASE SaveCapability(p)
      BY <3>3 DEF SaveCapability
    <3>4. QED
      BY <1>10, <3>1, <3>2, <3>3
  <2>3. QED
    BY <2>1, <2>2 DEF Phase, Declared
<1>11. CASE AwaitApproval(p) \/ Abandoned(p) \/ StageRaises(p)
  BY <1>1, <1>2, <1>11 DEF AwaitApproval, Abandoned, StageRaises
<1>12. QED
  BY <1>4, <1>5, <1>6, <1>7, <1>8, <1>9, <1>10, <1>11 DEF Step

(* A proposal moves as the declared table of states says, but for the five *)
(* moves the table leaves out, whatever its stages answer.                 *)
THEOREM MovesAreDeclared == Spec => StagesAreDeclared
<1> DEFINE Move(p) == at'[p] # "gone" /\ Phase(p)' # Phase(p) =>
                         <<Phase(p), Phase(p)'>> \in Transitions \cup Undeclared
<1>1. ASSUME PipelineInv, [Next]_vars PROVE [\A p \in Proposals : Move(p)]_vars
  <2>1. ASSUME NEW q \in Proposals, Step(q), NEW p \in Proposals PROVE Move(p)
    <3>1. CASE p # q
      <4>1. at'[p] = at[p] /\ record'[p] = record[p]
        BY <1>1, <2>1, <3>1, OthersStand
      <4>2. QED
        BY <4>1 DEF Phase
    <3>2. CASE p = q /\ at'[p] = "ended"
      <4>1. at[p] \notin {"ended", "gone"}
        BY <1>1, <2>1, <3>2, LogSteps DEF LogStarts, LogStands, LogEnds, LogRaises, Underway
      <4>2. QED
        BY <1>1, <2>1, <3>2, <4>1, Endings, EndIsDeclared DEF Declared
    <3>3. CASE p = q /\ at'[p] # "ended"
      BY <1>1, <2>1, <3>3, MoveIsDeclared DEF Declared
    <3>4. QED
      BY <3>1, <3>2, <3>3
  <2>2. ASSUME SetKillSwitch, NEW p \in Proposals PROVE Move(p)
    BY <2>2 DEF SetKillSwitch, Phase
  <2>3. QED
    BY <1>1, <2>1, <2>2 DEF Next
<1>2. QED
  BY <1>1, Invariance, PTL DEF Spec, StagesAreDeclared
=============================================================================
