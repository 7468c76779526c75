------------------------- MODULE LedgerChainProofs -------------------------
(***************************************************************************)
(* Proofs about LedgerChain, for any number of events, requests and        *)
(* changes past the program.  Every reading that is still about, in the    *)
(* seal or in a request, is the canonical chain of the ledger as it was    *)
(* at one change; two readings at the same change agree.                   *)
(***************************************************************************)
EXTENDS LedgerChain, FiniteSetTheorems, TLAPS

(* The chain of a set of events: no trace of how the store listed them.    *)
ChainOf(S) == [e \in S |-> {f \in S : Precedes(f, e)}]

Chains == {<<>>} \cup UNION {[S -> SUBSET Event] : S \in SUBSET Event}
Reading == [count : Int, chain : Chains, at : Int]
Request == [step : {"idle", "sealing", "verifying"} \cup Reports,
            read : Reading, against : Reading]

(* The readings that are about. *)
Kept == {s \in {seal} \cup {request[q].read : q \in Requests}
                      \cup {request[q].against : q \in Requests} : s # NoSeal}

StoreTyped ==
    /\ clock \in 0..MaxTime
    /\ drawn \subseteq Ids
    /\ writing \subseteq Event /\ ledger \subseteq Event
    /\ {e.id : e \in writing \cup ledger} \subseteq drawn
    /\ changes \in Nat
    /\ gone \subseteq [event : Event, since : 1..changes]
    /\ seal \in Reading
    /\ request \in [Requests -> Request]

(* An event is about once, and one that is gone does not come back: what   *)
(* has its identifier is its altered form.                                 *)
EventsAreUnique ==
    /\ IsFiniteSet(ledger)
    /\ writing \cap ledger = {}
    /\ \A e, f \in writing \cup ledger : e.id = f.id => e = f

GoneIsGone ==
    \A g \in gone :
        /\ g.event.id \in drawn
        /\ \A e \in writing \cup ledger :
              e.id = g.event.id => e.altered # g.event.altered /\ g.event.altered = FALSE

(* A reading is of the ledger at one change: what it has was not gone then *)
Faithful(s) ==
    /\ s.at \in 0..changes
    /\ s.chain = ChainOf(DOMAIN s.chain)
    /\ s.count = Cardinality(DOMAIN s.chain)
    /\ s.at = changes => DOMAIN s.chain = ledger
    /\ \A g \in gone : g.event \in DOMAIN s.chain => g.since > s.at

KeptAreFaithful == \A s \in Kept : Faithful(s)
KeptAgree == \A s, t \in Kept : s.at = t.at => s.chain = t.chain

(* A report says how the two readings it was made of compare.              *)
ReportsAreRight ==
    \A q \in Requests :
        /\ request[q].step # "idle" => request[q].read # NoSeal
        /\ request[q].step \in {"VERIFIED", "MISMATCH"} => request[q].against # NoSeal
        /\ request[q].step = "VERIFIED" => request[q].against.chain = request[q].read.chain
        /\ request[q].step = "MISMATCH" => ~Intact(request[q].against, request[q].read)

ChainInv ==
    /\ StoreTyped
    /\ EventsAreUnique
    /\ GoneIsGone
    /\ KeptAreFaithful
    /\ KeptAgree
    /\ ReportsAreRight

-----------------------------------------------------------------------------
(* Readings *)

LEMMA NoSealIsReading == NoSeal \in Reading
BY DEF NoSeal, Reading, Chains

LEMMA InitialInvariant == Init => ChainInv
<1> SUFFICES ASSUME Init PROVE ChainInv
  OBVIOUS
<1>1. Idle \in Request
  BY NoSealIsReading DEF Idle, Request
<1>2. StoreTyped
  BY <1>1, NoSealIsReading, ConstantsAssumption DEF Init, StoreTyped
<1>3. EventsAreUnique /\ GoneIsGone
  BY FS_EmptySet DEF Init, EventsAreUnique, GoneIsGone
<1>4. Kept = {}
  BY DEF Init, Kept, Idle
<1>5. KeptAreFaithful /\ KeptAgree
  BY <1>4 DEF KeptAreFaithful, KeptAgree
<1>6. ReportsAreRight
  BY DEF Init, ReportsAreRight, Idle
<1>7. QED
  BY <1>2, <1>3, <1>5, <1>6 DEF ChainInv

(* Whatever the order of a listing, its summary is that of the ledger.     *)
LEMMA SummaryOfLedger ==
    ASSUME NEW S \in SUBSET Event, IsFiniteSet(S), NEW s \in Listings(S), NEW n \in Nat
    PROVE  /\ Summary(s, n) = [count |-> Cardinality(S), chain |-> ChainOf(S), at |-> n]
           /\ Summary(s, n) \in Reading /\ Summary(s, n) # NoSeal
<1>1. Cardinality(S) \in Nat
  BY FS_CardinalityType
<1>2. Listed(s) = S /\ DOMAIN s = 1..Cardinality(S)
  BY DEF Listings
<1>3. Cardinality(DOMAIN s) = Cardinality(S)
  BY <1>1, <1>2, FS_Interval
<1>4. BuildChain(s) = ChainOf(S)
  BY <1>2 DEF BuildChain, ChainOf
<1>5. Summary(s, n) = [count |-> Cardinality(S), chain |-> ChainOf(S), at |-> n]
  BY <1>3, <1>4 DEF Summary
<1>6. ChainOf(S) \in Chains
  <2>1. ChainOf(S) \in [S -> SUBSET Event]
    BY DEF ChainOf
  <2>2. QED
    BY <2>1 DEF Chains
<1>7. Summary(s, n) \in Reading
  BY <1>1, <1>5, <1>6 DEF Reading
<1>8. Summary(s, n).at # NoSeal.at
  BY <1>5 DEF NoSeal
<1>9. QED
  BY <1>5, <1>7, <1>8

-----------------------------------------------------------------------------
(* The events *)

(* A step that leaves the readings alone and changes the ledger, if it     *)
(* does, under a new number.                                               *)
LEMMA ReadingsStay ==
    ASSUME ChainInv, UNCHANGED <<seal, request>>,
           changes' \in Nat,
           \/ changes' = changes /\ UNCHANGED <<ledger, gone>>
           \/ /\ changes' = changes + 1
              /\ \A g \in gone' : g \in gone \/ g.since = changes + 1
    PROVE  KeptAreFaithful' /\ KeptAgree' /\ ReportsAreRight'
<1>1. Kept' = Kept
  BY DEF Kept
<1>2. KeptAgree' /\ ReportsAreRight'
  BY <1>1 DEF ChainInv, KeptAgree, ReportsAreRight
<1>3. ASSUME NEW s \in Kept PROVE Faithful(s)'
  <2>1. Faithful(s) /\ changes \in Nat
    BY DEF ChainInv, KeptAreFaithful, StoreTyped
  <2>2. s.at \in 0..changes' /\ (changes' = changes + 1 => s.at # changes')
    BY <2>1 DEF Faithful
  <2>3. ASSUME NEW g \in gone', g.event \in DOMAIN s.chain PROVE g.since > s.at
    BY <2>1, <2>3 DEF Faithful
  <2>4. QED
    BY <2>1, <2>2, <2>3 DEF Faithful
<1>4. QED
  BY <1>1, <1>2, <1>3 DEF KeptAreFaithful

LEMMA StampStep ==
    ASSUME ChainInv, NEW id \in Ids, Stamp(id)
    PROVE  ChainInv'
<1> DEFINE new == [id |-> id, time |-> clock, altered |-> FALSE]
<1>1. /\ id \notin drawn /\ drawn' = drawn \cup {id}
      /\ writing' = writing \cup {new}
      /\ UNCHANGED <<clock, ledger, changes, gone, seal, request>>
  BY DEF Stamp, Fresh
<1>2. new \in Event /\ new.id = id
  BY DEF ChainInv, StoreTyped, Event
<1> HIDE DEF new
<1>3. StoreTyped
  BY DEF ChainInv
<1>4. \A e \in writing \cup ledger : e.id # id
  BY <1>1, <1>3 DEF StoreTyped
<1>5. StoreTyped'
  BY <1>1, <1>2, <1>3 DEF StoreTyped
<1>6. EventsAreUnique'
  BY <1>1, <1>2, <1>4 DEF ChainInv, EventsAreUnique
<1>7. GoneIsGone'
  BY <1>1, <1>2 DEF ChainInv, GoneIsGone
<1>8. KeptAreFaithful' /\ KeptAgree' /\ ReportsAreRight'
  BY <1>1, <1>3, ReadingsStay DEF StoreTyped
<1>9. QED
  BY <1>5, <1>6, <1>7, <1>8 DEF ChainInv

LEMMA CommitStep ==
    ASSUME ChainInv, NEW e \in writing, Commit(e)
    PROVE  ChainInv'
<1>1. /\ writing' = writing \ {e} /\ ledger' = ledger \cup {e}
      /\ changes' = changes + 1
      /\ UNCHANGED <<clock, drawn, gone, seal, request>>
  BY DEF Commit
<1>2. StoreTyped /\ changes \in Nat
  BY DEF ChainInv, StoreTyped
<1>3. writing' \cup ledger' = writing \cup ledger
  BY <1>1
<1>4. StoreTyped'
  <2>1. [event : Event, since : 1..changes] \subseteq [event : Event, since : 1..changes']
    BY <1>1, <1>2
  <2>2. QED
    BY <1>1, <1>2, <1>3, <2>1 DEF StoreTyped
<1>5. EventsAreUnique'
  BY <1>1, <1>3, FS_AddElement DEF ChainInv, EventsAreUnique
<1>6. GoneIsGone'
  BY <1>1, <1>3 DEF ChainInv, GoneIsGone
<1>7. KeptAreFaithful' /\ KeptAgree' /\ ReportsAreRight'
  BY <1>1, <1>2, ReadingsStay
<1>8. QED
  BY <1>4, <1>5, <1>6, <1>7 DEF ChainInv

LEMMA RewrittenStep ==
    ASSUME ChainInv, NEW e \in ledger, NEW f \in Event, f.id = e.id, f.altered = TRUE,
           NEW others \in SUBSET {f}, others # {} => e.altered = FALSE,
           Rewritten(e, others)
    PROVE  ChainInv'
<1> DEFINE past == [event |-> e, since |-> changes + 1]
<1>1. /\ ledger' = (ledger \ {e}) \cup others
      /\ changes' = changes + 1
      /\ gone' = gone \cup {past}
      /\ UNCHANGED <<clock, drawn, writing, seal, request>>
  BY DEF Rewritten
<1>2. /\ StoreTyped /\ changes \in Nat /\ e \in Event
      /\ past.event = e /\ past.since = changes + 1
  BY DEF ChainInv, StoreTyped
<1>3. past \in [event : Event, since : 1..changes']
  BY <1>1, <1>2
<1> HIDE DEF past
<1>4. \A k \in writing' \cup ledger' : (k \in writing \cup ledger /\ k # e) \/ (k = f /\ others # {})
  BY <1>1 DEF ChainInv, EventsAreUnique
<1>5. \A k \in writing \cup ledger : k # e => k.id # e.id
  BY DEF ChainInv, EventsAreUnique
<1>6. StoreTyped'
  <2>1. [event : Event, since : 1..changes] \subseteq [event : Event, since : 1..changes']
    BY <1>1, <1>2
  <2>2. gone' \subseteq [event : Event, since : 1..changes']
    BY <1>1, <1>2, <1>3, <2>1 DEF StoreTyped
  <2>3. {k.id : k \in writing' \cup ledger'} \subseteq drawn
    BY <1>2, <1>4 DEF StoreTyped
  <2>4. QED
    BY <1>1, <1>2, <2>2, <2>3 DEF StoreTyped
<1>7. EventsAreUnique'
  <2>1. IsFiniteSet(ledger')
    <3>1. IsFiniteSet(ledger \ {e})
      BY FS_RemoveElement DEF ChainInv, EventsAreUnique
    <3>2. CASE others = {}
      BY <1>1, <3>1, <3>2
    <3>3. CASE others = {f}
      BY <1>1, <3>1, <3>3, FS_AddElement
    <3>4. QED
      BY <3>2, <3>3
  <2>2. writing' \cap ledger' = {}
    BY <1>1, <1>5 DEF ChainInv, EventsAreUnique
  <2>3. \A j, k \in writing' \cup ledger' : j.id = k.id => j = k
    BY <1>4, <1>5 DEF ChainInv, EventsAreUnique
  <2>4. QED
    BY <2>1, <2>2, <2>3 DEF EventsAreUnique
<1>8. GoneIsGone'
  <2>1. SUFFICES ASSUME NEW g \in gone'
                 PROVE  /\ g.event.id \in drawn
                        /\ \A k \in writing' \cup ledger' : k.id = g.event.id =>
                              k.altered # g.event.altered /\ g.event.altered = FALSE
    BY <1>1 DEF GoneIsGone
  <2>2. CASE g \in gone
    <3>1. /\ g.event.id \in drawn
          /\ \A k \in writing \cup ledger :
                k.id = g.event.id => k.altered # g.event.altered /\ g.event.altered = FALSE
      BY <2>2 DEF ChainInv, GoneIsGone
    <3>2. others # {} => g.event.id # e.id
      BY <3>1
    <3>3. QED
      BY <1>4, <3>1, <3>2
  <2>3. CASE g = past
    <3>1. g.event = e /\ e.id \in drawn
      BY <1>2, <2>3 DEF StoreTyped
    <3>2. QED
      BY <1>4, <1>5, <3>1
  <2>4. QED
    BY <1>1, <2>2, <2>3
<1>9. KeptAreFaithful' /\ KeptAgree' /\ ReportsAreRight'
  BY <1>1, <1>2, ReadingsStay
<1>10. QED
  BY <1>6, <1>7, <1>8, <1>9 DEF ChainInv

LEMMA ChangesPastTheProgram ==
    ASSUME ChainInv, NEW e \in ledger, Alter(e) \/ Remove(e)
    PROVE  ChainInv'
<1> DEFINE f == [e EXCEPT !.altered = TRUE]
<1>1. e \in Event
  BY DEF ChainInv, StoreTyped
<1>2. f \in Event /\ f.id = e.id /\ f.altered = TRUE
  BY <1>1 DEF Event
<1>3. CASE Alter(e)
  <2>1. e.altered = FALSE /\ Rewritten(e, {f})
    BY <1>1, <1>3 DEF Alter, Event
  <2> HIDE DEF f
  <2>2. QED
    BY <1>2, <2>1, RewrittenStep
<1>4. CASE Remove(e)
  <2>1. Rewritten(e, {})
    BY <1>4 DEF Remove
  <2> HIDE DEF f
  <2>2. QED
    BY <1>2, <2>1, RewrittenStep
<1>5. QED
  BY <1>3, <1>4

LEMMA TickStep ==
    ASSUME ChainInv, Tick
    PROVE  ChainInv'
<1>1. UNCHANGED <<drawn, writing, ledger, changes, gone, seal, request>>
      /\ clock' \in 0..MaxTime
  BY ConstantsAssumption DEF Tick, store, ChainInv, StoreTyped
<1>2. StoreTyped' /\ EventsAreUnique' /\ GoneIsGone'
  BY <1>1 DEF ChainInv, StoreTyped, EventsAreUnique, GoneIsGone
<1>3. KeptAreFaithful' /\ KeptAgree' /\ ReportsAreRight'
  BY <1>1, ReadingsStay DEF ChainInv, StoreTyped
<1>4. QED
  BY <1>2, <1>3 DEF ChainInv

-----------------------------------------------------------------------------
(* The routes *)

LEMMA ReadStep ==
    ASSUME ChainInv, NEW q \in Requests, NEW step \in {"sealing", "verifying"}, Read(q, step)
    PROVE  ChainInv'
<1>1. StoreTyped /\ changes \in Nat /\ request \in [Requests -> Request]
  BY DEF ChainInv, StoreTyped
<1>2. PICK s \in Listings(ledger) :
          request' = [request EXCEPT ![q] =
                         [step |-> step, read |-> Summary(s, changes), against |-> NoSeal]]
  BY DEF Read
<1>3. UNCHANGED <<clock, drawn, writing, ledger, changes, gone, seal>>
  BY DEF Read, store
<1> DEFINE new == Summary(s, changes)
<1>4. /\ new = [count |-> Cardinality(ledger), chain |-> ChainOf(ledger), at |-> changes]
      /\ new \in Reading /\ new # NoSeal
  BY <1>1, SummaryOfLedger DEF ChainInv, StoreTyped, EventsAreUnique
<1>5. /\ new.count = Cardinality(ledger) /\ new.chain = ChainOf(ledger) /\ new.at = changes
      /\ DOMAIN new.chain = ledger
  BY <1>4 DEF ChainOf
<1> DEFINE answer == [step |-> step, read |-> new, against |-> NoSeal]
<1>6. /\ answer \in Request /\ answer.step = step /\ answer.read = new
      /\ answer.against = NoSeal
  BY <1>4, NoSealIsReading DEF Request
<1>7. request'[q] = answer /\ \A r \in Requests : r # q => request'[r] = request[r]
  BY <1>1, <1>2
<1>8. StoreTyped'
  BY <1>1, <1>2, <1>3, <1>6 DEF StoreTyped
<1> HIDE DEF new, answer
<1>9. EventsAreUnique' /\ GoneIsGone'
  BY <1>3 DEF ChainInv, EventsAreUnique, GoneIsGone
<1>10. \A k \in Kept' : k \in Kept \/ k = new
  BY <1>3, <1>6, <1>7 DEF Kept
<1>11. Faithful(new)
  <2>1. ASSUME NEW g \in gone PROVE g.event \notin ledger
    BY <2>1 DEF ChainInv, GoneIsGone
  <2>2. QED
    BY <1>1, <1>5, <2>1 DEF Faithful
<1>12. KeptAreFaithful'
  BY <1>3, <1>10, <1>11 DEF ChainInv, KeptAreFaithful, Faithful
<1>13. KeptAgree'
  <2>1. \A k \in Kept : k.at = changes => k.chain = new.chain
    BY <1>5 DEF ChainInv, KeptAreFaithful, Faithful
  <2>2. QED
    BY <1>5, <1>10, <2>1 DEF ChainInv, KeptAgree
<1>14. ReportsAreRight'
  BY <1>4, <1>6, <1>7 DEF ChainInv, ReportsAreRight, Intact
<1>15. QED
  BY <1>8, <1>9, <1>12, <1>13, <1>14 DEF ChainInv

(* Sealing and comparing make no new reading.                              *)
LEMMA ReadingsHandedOn ==
    ASSUME ChainInv, UNCHANGED store, Kept' \subseteq Kept
    PROVE  /\ EventsAreUnique' /\ GoneIsGone'
           /\ KeptAreFaithful' /\ KeptAgree'
<1>1. UNCHANGED <<drawn, writing, ledger, changes, gone>>
  BY DEF store
<1>2. QED
  BY <1>1 DEF ChainInv, EventsAreUnique, GoneIsGone, KeptAreFaithful, KeptAgree, Faithful

LEMMA WriteSealStep ==
    ASSUME ChainInv, NEW q \in Requests, WriteSeal(q)
    PROVE  ChainInv'
<1>1. StoreTyped /\ request \in [Requests -> Request] /\ request[q].read \in Reading
  BY DEF ChainInv, StoreTyped, Request
<1>2. /\ seal' = request[q].read /\ request' = [request EXCEPT ![q] = Idle]
      /\ UNCHANGED clock /\ UNCHANGED store
  BY DEF WriteSeal
<1>3. /\ Idle \in Request /\ Idle.step = "idle" /\ Idle.read = NoSeal /\ Idle.against = NoSeal
  BY NoSealIsReading DEF Idle, Request
<1>4. request'[q] = Idle /\ \A r \in Requests : r # q => request'[r] = request[r]
  BY <1>1, <1>2
<1>5. Kept' \subseteq Kept
  BY <1>2, <1>3, <1>4 DEF Kept
<1>6. StoreTyped'
  BY <1>1, <1>2, <1>3 DEF StoreTyped, store
<1>7. ReportsAreRight'
  BY <1>3, <1>4 DEF ChainInv, ReportsAreRight, Intact
<1>8. QED
  BY <1>2, <1>5, <1>6, <1>7, ReadingsHandedOn DEF ChainInv

LEMMA CompareStep ==
    ASSUME ChainInv, NEW q \in Requests, Compare(q)
    PROVE  ChainInv'
<1> DEFINE step == IF seal = NoSeal THEN "NO_SEAL"
                   ELSE IF Intact(seal, request[q].read) THEN "VERIFIED" ELSE "MISMATCH"
           answer == [request[q] EXCEPT !.step = step, !.against = seal]
<1>1. /\ StoreTyped /\ request \in [Requests -> Request] /\ request[q] \in Request
      /\ seal \in Reading
  BY DEF ChainInv, StoreTyped
<1>2. request' = [request EXCEPT ![q] = answer] /\ UNCHANGED <<clock, seal>> /\ UNCHANGED store
  BY <1>1 DEF Compare
<1>3. /\ answer \in Request /\ answer.step = step /\ answer.read = request[q].read
      /\ answer.against = seal
  BY <1>1 DEF Request, Reports
<1> HIDE DEF answer
<1>4. request'[q] = answer /\ \A r \in Requests : r # q => request'[r] = request[r]
  BY <1>1, <1>2
<1>5. Kept' \subseteq Kept
  BY <1>2, <1>3, <1>4 DEF Kept
<1>6. StoreTyped'
  BY <1>1, <1>2, <1>3 DEF StoreTyped, store
<1>7. ReportsAreRight'
  <2>1. request[q].step = "verifying" /\ request[q].read # NoSeal
    BY DEF Compare, ChainInv, ReportsAreRight
  <2>2. /\ answer.step \in {"VERIFIED", "MISMATCH"} => answer.against # NoSeal
        /\ answer.step = "VERIFIED" => answer.against.chain = answer.read.chain
        /\ answer.step = "MISMATCH" => ~Intact(answer.against, answer.read)
        /\ answer.read # NoSeal
    BY <1>3, <2>1 DEF Intact
  <2>3. QED
    BY <1>4, <2>2 DEF ChainInv, ReportsAreRight, Intact
<1>8. QED
  BY <1>2, <1>5, <1>6, <1>7, ReadingsHandedOn DEF ChainInv

LEMMA NextStep == ChainInv /\ [Next]_vars => ChainInv'
<1> SUFFICES ASSUME ChainInv, [Next]_vars PROVE ChainInv'
  OBVIOUS
<1>1. CASE \E id \in Ids : Stamp(id)
  BY <1>1, StampStep
<1>2. CASE \E e \in writing : Commit(e)
  BY <1>2, CommitStep
<1>3. CASE \E e \in ledger : Alter(e) \/ Remove(e)
  BY <1>3, ChangesPastTheProgram
<1>4. CASE Tick
  BY <1>4, TickStep
<1>5. CASE \E q \in Requests :
              Read(q, "sealing") \/ Read(q, "verifying") \/ WriteSeal(q) \/ Compare(q)
  BY <1>5, ReadStep, WriteSealStep, CompareStep
<1>6. CASE UNCHANGED vars
  <2>1. UNCHANGED <<clock, drawn, writing, ledger, changes, gone, seal, request>>
    BY <1>6 DEF vars, store
  <2>2. StoreTyped' /\ EventsAreUnique' /\ GoneIsGone'
    BY <2>1 DEF ChainInv, StoreTyped, EventsAreUnique, GoneIsGone
  <2>3. KeptAreFaithful' /\ KeptAgree' /\ ReportsAreRight'
    BY <2>1, ReadingsStay DEF ChainInv, StoreTyped
  <2>4. QED
    BY <2>2, <2>3 DEF ChainInv
<1>7. QED
  BY <1>1, <1>2, <1>3, <1>4, <1>5, <1>6 DEF Next

-----------------------------------------------------------------------------
(* Theorems *)

(* What each reading says of the ledger it was made of is invariant.       *)
THEOREM Invariance == Spec => []ChainInv
<1>1. QED
  BY InitialInvariant, NextStep, PTL DEF Spec

(* A request that has read holds such a reading; so does what it compared. *)
LEMMA ReadingsOfRequests ==
    ASSUME ChainInv, NEW q \in Requests
    PROVE  /\ request[q].step # "idle" => request[q].read \in Kept
           /\ request[q].against = NoSeal \/ request[q].against \in Kept
BY DEF ChainInv, ReportsAreRight, Kept

(* Events, readings and reports keep their type.                           *)
THEOREM TypeCorrect == Spec => []TypeOK
<1>1. ASSUME ChainInv PROVE TypeOK
  <2>1. StoreTyped /\ changes \in Nat /\ request \in [Requests -> Request]
    BY <1>1 DEF ChainInv, StoreTyped
  <2>2. \A e, f \in writing \cup ledger : e.id = f.id => e = f
    BY <1>1 DEF ChainInv, EventsAreUnique
  <2>3. seal.count = -1 \/ seal.at \in 0..changes
    <3>1. CASE seal = NoSeal
      BY <3>1 DEF NoSeal
    <3>2. CASE seal # NoSeal
      BY <1>1, <3>2 DEF ChainInv, KeptAreFaithful, Kept, Faithful
    <3>3. QED
      BY <3>1, <3>2
  <2>4. ASSUME NEW q \in Requests
        PROVE  /\ request[q].step \in {"idle", "sealing", "verifying"} \cup Reports
               /\ request[q].step # "idle" =>
                     /\ request[q].read.at \in 0..changes
                     /\ request[q].read.count = Cardinality(DOMAIN request[q].read.chain)
               /\ request[q].against.at \in -1..changes
    <3>1. request[q].step \in {"idle", "sealing", "verifying"} \cup Reports
      BY <2>1 DEF Request
    <3>2. request[q].step # "idle" => Faithful(request[q].read)
      BY <1>1, ReadingsOfRequests DEF ChainInv, KeptAreFaithful
    <3>3. request[q].against = NoSeal \/ Faithful(request[q].against)
      BY <1>1, ReadingsOfRequests DEF ChainInv, KeptAreFaithful
    <3>4. request[q].against.at \in -1..changes
      BY <2>1, <3>3 DEF NoSeal, Faithful
    <3>5. QED
      BY <3>1, <3>2, <3>4 DEF Faithful
  <2>5. QED
    BY <2>1, <2>2, <2>3, <2>4 DEF TypeOK, StoreTyped
<1>2. QED
  BY <1>1, Invariance, PTL

(* A verified chain proves that what was sealed is intact, for any number  *)
(* of writers and of events with equal timestamps.                         *)
THEOREM VerificationIsSound == Spec => []VerifiedProvesIntact
<1>1. ASSUME ChainInv, NEW q \in Requests, request[q].step = "VERIFIED"
      PROVE  /\ DOMAIN request[q].read.chain = DOMAIN request[q].against.chain
             /\ \A g \in gone : g.event \in DOMAIN request[q].against.chain =>
                   g.since > request[q].read.at /\ g.since > request[q].against.at
  <2>1. /\ request[q].against.chain = request[q].read.chain
        /\ request[q].against # NoSeal /\ request[q].read # NoSeal
    BY <1>1 DEF ChainInv, ReportsAreRight
  <2>2. Faithful(request[q].read) /\ Faithful(request[q].against)
    BY <1>1, <2>1, ReadingsOfRequests DEF ChainInv, KeptAreFaithful
  <2>3. QED
    BY <2>1, <2>2 DEF Faithful
<1>2. ChainInv => VerifiedProvesIntact
  BY <1>1 DEF VerifiedProvesIntact
<1>3. QED
  BY <1>2, Invariance, PTL

(* A mismatch is never due to the order of a listing.                      *)
THEOREM MismatchIsReal == Spec => []MismatchProvesChange
<1>1. ASSUME ChainInv, NEW q \in Requests, request[q].step = "MISMATCH",
             request[q].read.at = request[q].against.at
      PROVE  FALSE
  <2>1. /\ ~Intact(request[q].against, request[q].read)
        /\ request[q].against # NoSeal /\ request[q].read # NoSeal
    BY <1>1 DEF ChainInv, ReportsAreRight
  <2>2. request[q].read \in Kept /\ request[q].against \in Kept
    BY <1>1, <2>1, ReadingsOfRequests
  <2>3. request[q].read.chain = request[q].against.chain
    BY <1>1, <2>2 DEF ChainInv, KeptAgree
  <2>4. request[q].read.count = request[q].against.count
    BY <1>1, <2>2, <2>3 DEF ChainInv, KeptAreFaithful, Faithful
  <2>5. QED
    BY <2>1, <2>3, <2>4 DEF Intact
<1>2. ChainInv => MismatchProvesChange
  BY <1>1 DEF MismatchProvesChange
<1>3. QED
  BY <1>2, Invariance, PTL
=============================================================================
