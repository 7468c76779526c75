---------------------------- MODULE LedgerChain ----------------------------
(***************************************************************************)
(* The chain over the evolution events: writers that take an event's       *)
(* timestamp before the store has it, the seal and verify routes, which    *)
(* list the events and then write or read the one seal, and changes made   *)
(* to the stored events past the program.                                  *)
(*                                                                         *)
(* The store lists the events in any order.  A link's hash commits to its  *)
(* event and to the link before it, so a chain is told from another by     *)
(* what lies before each event; the hash function is taken as injective.   *)
(***************************************************************************)
EXTENDS Integers, FiniteSets

CONSTANTS
    Ids,            \* event_id: the store draws them, in no order of time
    Requests,       \* calls of the seal and verify routes
    MaxTime         \* bound on the clock

ASSUME ConstantsAssumption ==
    /\ Ids \subseteq Nat /\ IsFiniteSet(Ids)
    /\ MaxTime \in Nat

VARIABLES
    clock,
    drawn,          \* identifiers given to events so far
    writing,        \* events whose timestamp is taken and that are not stored yet
    ledger,         \* evolution_events: the events stored
    changes,        \* how often the ledger has changed
    gone,           \* what is no longer stored as it was, and since which change
    seal,           \* system/ledger_seal, or NoSeal
    request         \* per request: what it does or has reported, on what it read

store == <<drawn, writing, ledger, changes, gone>>
vars == <<clock, store, seal, request>>

-----------------------------------------------------------------------------
(* build_chain, over the events in the order the store listed them         *)

Listed(s) == {s[i] : i \in DOMAIN s}
Listings(S) == {s \in [1..Cardinality(S) -> S] : Listed(s) = S}

(* _canonical_order: by timestamp, then by event_id.                       *)
Precedes(e, f) == e.time < f.time \/ (e.time = f.time /\ e.id < f.id)

AsListed(s) ==                         \* mutant: the order of the caller
    [e \in Listed(s) |-> {s[i] : i \in {k \in DOMAIN s :
                             \E j \in DOMAIN s : s[j] = e /\ k < j}}]
BuildChain(s) == [e \in Listed(s) |-> {f \in Listed(s) : Precedes(f, e)}]

(* What seal saves of the events and verify computes of them; at tells     *)
(* when they were read.                                                    *)
Summary(s, at) == [count |-> Cardinality(DOMAIN s), chain |-> BuildChain(s), at |-> at]
NoSeal == [count |-> -1, chain |-> <<>>, at |-> -1]

CountsAgree(a, b) == a.count = b.count            \* mutant: the chain is not compared
Intact(a, b) == a.chain = b.chain /\ a.count = b.count

-----------------------------------------------------------------------------
(* State *)

Event == [id : Ids, time : 0..MaxTime, altered : BOOLEAN]
Reports == {"NO_SEAL", "VERIFIED", "MISMATCH"}

TypeOK ==
    /\ clock \in 0..MaxTime
    /\ drawn \subseteq Ids
    /\ writing \subseteq Event /\ ledger \subseteq Event
    /\ \A e, f \in writing \cup ledger : e.id = f.id => e = f
    /\ {e.id : e \in writing \cup ledger} \subseteq drawn
    /\ changes \in Nat
    /\ gone \subseteq [event : Event, since : 1..changes]
    /\ seal.count = -1 \/ seal.at \in 0..changes
    /\ \A q \in Requests :
          /\ request[q].step \in {"idle", "sealing", "verifying"} \cup Reports
          /\ request[q].step # "idle" => /\ request[q].read.at \in 0..changes
                                         /\ request[q].read.count = Cardinality(DOMAIN request[q].read.chain)
          /\ request[q].against.at \in -1..changes

Idle == [step |-> "idle", read |-> NoSeal, against |-> NoSeal]

Init ==
    /\ clock = 0
    /\ drawn = {} /\ writing = {} /\ ledger = {}
    /\ changes = 0 /\ gone = {}
    /\ seal = NoSeal
    /\ request = [q \in Requests |-> Idle]

-----------------------------------------------------------------------------
(* The events *)

(* write_evolution_event takes an identifier and the time, then stores.    *)
Unstored == Ids \ {e.id : e \in ledger}   \* mutant: numbered by what is stored
Fresh == Ids \ drawn

Stamp(id) ==
    /\ id \in Fresh
    /\ drawn' = drawn \cup {id}
    /\ writing' = writing \cup {[id |-> id, time |-> clock, altered |-> FALSE]}
    /\ UNCHANGED <<clock, ledger, changes, gone, seal, request>>

Commit(e) ==
    /\ e \in writing
    /\ writing' = writing \ {e}
    /\ ledger' = ledger \cup {e}
    /\ changes' = changes + 1
    /\ UNCHANGED <<clock, drawn, gone, seal, request>>

Tick ==
    /\ clock < MaxTime
    /\ clock' = clock + 1
    /\ UNCHANGED <<store, seal, request>>

(* Past the program: an event is edited, for good, or removed.             *)
Rewritten(e, others) ==
    /\ e \in ledger
    /\ ledger' = (ledger \ {e}) \cup others
    /\ changes' = changes + 1
    /\ gone' = gone \cup {[event |-> e, since |-> changes + 1]}
    /\ UNCHANGED <<clock, drawn, writing, seal, request>>

Alter(e) == ~e.altered /\ Rewritten(e, {[e EXCEPT !.altered = TRUE]})
Remove(e) == Rewritten(e, {})

-----------------------------------------------------------------------------
(* The routes: list_evolution_events, then seal or verify.                 *)

Read(q, step) ==
    /\ request[q].step \notin {"sealing", "verifying"}
    /\ \E s \in Listings(ledger) :
          request' = [request EXCEPT ![q] =
                         [step |-> step, read |-> Summary(s, changes), against |-> NoSeal]]
    /\ UNCHANGED <<clock, store, seal>>

WriteSeal(q) ==
    /\ request[q].step = "sealing"
    /\ seal' = request[q].read
    /\ request' = [request EXCEPT ![q] = Idle]
    /\ UNCHANGED <<clock, store>>

Compare(q) ==
    /\ request[q].step = "verifying"
    /\ request' = [request EXCEPT
           ![q].step = IF seal = NoSeal THEN "NO_SEAL"
                       ELSE IF Intact(seal, request[q].read) THEN "VERIFIED" ELSE "MISMATCH",
           ![q].against = seal]
    /\ UNCHANGED <<clock, store, seal>>

Next ==
    \/ \E id \in Ids : Stamp(id)
    \/ \E e \in writing : Commit(e)
    \/ \E e \in ledger : Alter(e) \/ Remove(e)
    \/ Tick
    \/ \E q \in Requests :
          Read(q, "sealing") \/ Read(q, "verifying") \/ WriteSeal(q) \/ Compare(q)

Spec == Init /\ [][Next]_vars

-----------------------------------------------------------------------------
(* Properties *)

(* The same hash proves that no event was altered or removed between the   *)
(* reading that was sealed and the one that was verified, nor is there one *)
(* more at the end, however writers, seals and verifications fell between  *)
(* each other.  An event that came and went in between is not seen.        *)
VerifiedProvesIntact ==
    \A q \in Requests : request[q].step = "VERIFIED" =>
        LET read == request[q].read
            sealed == request[q].against
        IN
        /\ DOMAIN read.chain = DOMAIN sealed.chain
        /\ \A g \in gone : g.event \in DOMAIN sealed.chain =>
               g.since > read.at /\ g.since > sealed.at

(* A ledger that has not changed since it was sealed is verified, in       *)
(* whatever order the store lists it and whether or not timestamps are the *)
(* same: a mismatch means that the ledger was written to in between.       *)
MismatchProvesChange ==
    \A q \in Requests : request[q].step = "MISMATCH" =>
        request[q].read.at # request[q].against.at
=============================================================================
