--------------------------- MODULE MonitorService ---------------------------
(***************************************************************************)
(* Scheduled monitors: create, disable, and run_due as the scheduler's     *)
(* calls run it on the service's workers, beside each other.  run_due      *)
(* lists the due documents once and works through the list, so each run    *)
(* starts from a document that may be old, asks the gate for the tool      *)
(* call, and merges what it makes of the old document into the present     *)
(* one.                                                                    *)
(*                                                                         *)
(* Time is in minutes.  What the gate and the tool answer is abstracted to *)
(* whether the run succeeded, failed or was stopped by the kill switch; a  *)
(* call that is refused, held for approval or has no capability failed.    *)
(***************************************************************************)
EXTENDS Integers

CONSTANTS
    Monitors,
    Interval,         \* the interval_minutes each monitor is asked for
    Workers,
    NoMonitor,
    MaxTime,          \* bound: the clock stops there
    MaxFaults         \* bound: store calls that raise

ASSUME ConstantsAssumption ==
    /\ Interval \in [Monitors -> Nat]
    /\ NoMonitor \notin Monitors
    /\ MaxTime \in Nat
    /\ MaxFaults \in Nat

MinIntervalMinutes     == 1
MaxConsecutiveFailures == 3

VARIABLES
    monitors,         \* monitors collection
    now,
    killSwitch,
    worker,           \* per worker: the run_due in progress
    history,          \* what was recorded of the runs, had none been read late
    overlapped,       \* monitors two workers had on their lists at once
    faults

vars == <<monitors, now, killSwitch, worker, history, overlapped, faults>>
-----------------------------------------------------------------------------
(* State *)

Document == [state : {"ABSENT", "ACTIVE", "DISABLED"}, failures : Nat, nextRun : Nat]
Absent   == [state |-> "ABSENT", failures |-> 0, nextRun |-> 0]

(* "streak" and "failed" count the failed runs since the last success and  *)
(* in all; "lastRun" is when the last was recorded, if any "ran".             *)
History == [streak : Nat, failed : Nat, lastRun : Nat, ran : BOOLEAN, byOwner : BOOLEAN]
NoHistory == [streak |-> 0, failed |-> 0, lastRun |-> 0, ran |-> FALSE, byOwner |-> FALSE]

(* A worker is about to take the next document off its list, to hear what  *)
(* came of the call it made, or to record that.                            *)
Worker == [at : {"idle", "next", "call", "record"}, due : SUBSET Monitors,
           seen : [Monitors -> Document], monitor : Monitors \cup {NoMonitor},
           outcome : {"none", "succeeded", "failed", "stopped"}]

Idle == [at |-> "idle", due |-> {}, seen |-> [m \in Monitors |-> Absent],
         monitor |-> NoMonitor, outcome |-> "none"]

TypeOK ==
    /\ monitors \in [Monitors -> Document]
    /\ now \in 0..MaxTime
    /\ killSwitch \in BOOLEAN
    /\ worker \in [Workers -> Worker]
    /\ history \in [Monitors -> History]
    /\ overlapped \in SUBSET Monitors
    /\ faults \in 0..MaxFaults

Init ==
    /\ monitors = [m \in Monitors |-> Absent]
    /\ now = 0
    /\ killSwitch = FALSE
    /\ worker = [w \in Workers |-> Idle]
    /\ history = [m \in Monitors |-> NoHistory]
    /\ overlapped = {}
    /\ faults = 0

At(w, point) == worker[w].at = point
Active(m) == monitors[m].state = "ACTIVE"
-----------------------------------------------------------------------------
(* The owner and the clock *)

Create(m) ==
    /\ monitors[m].state = "ABSENT"
    /\ Interval[m] >= MinIntervalMinutes
    /\ monitors' = [monitors EXCEPT ![m] = [Absent EXCEPT !.state = "ACTIVE", !.nextRun = now]]
    /\ UNCHANGED <<now, killSwitch, worker, history, overlapped, faults>>

Disable(m) ==
    /\ monitors[m].state # "ABSENT"
    /\ monitors' = [monitors EXCEPT ![m].state = "DISABLED"]
    /\ history' = [history EXCEPT ![m].byOwner = TRUE]
    /\ UNCHANGED <<now, killSwitch, worker, overlapped, faults>>

SetKillSwitch ==
    /\ killSwitch' = ~killSwitch
    /\ UNCHANGED <<monitors, now, worker, history, overlapped, faults>>

Tick ==
    /\ now < MaxTime
    /\ now' = now + 1
    /\ UNCHANGED <<monitors, killSwitch, worker, history, overlapped, faults>>
-----------------------------------------------------------------------------
(* run_due *)

EveryTick(m) == Active(m)                  \* mutant: the schedule is not asked
IsDue(m) == Active(m) /\ monitors[m].nextRun <= now

(* On a worker's list, or being run by it. *)
Pending(w, m) == m \in worker[w].due \/ worker[w].monitor = m

RunDue(w) ==
    LET due == {m \in Monitors : IsDue(m)} IN
    /\ At(w, "idle")
    /\ due # {}
    /\ worker' = [worker EXCEPT ![w] = [Idle EXCEPT !.at = "next", !.due = due,
                      !.seen = [m \in Monitors |-> IF m \in due THEN monitors[m] ELSE Absent]]]
    /\ overlapped' = overlapped \cup {m \in due : \E v \in Workers : Pending(v, m)}
    /\ UNCHANGED <<monitors, now, killSwitch, history, faults>>

(* A capability that left the registry fails the run before the gate asks  *)
(* for the switch; past the gate the tool may take any time.               *)
StartRun(w, m) ==
    /\ At(w, "next")
    /\ m \in worker[w].due
    /\ \E outcome \in {"none", "stopped", "failed"} :
          /\ outcome = "none" => ~killSwitch
          /\ outcome = "stopped" => killSwitch
          /\ worker' = [worker EXCEPT ![w] =
                [@ EXCEPT !.due = worker[w].due \ {m}, !.monitor = m, !.outcome = outcome,
                          !.at = IF outcome = "none" THEN "call" ELSE "record"]]
    /\ UNCHANGED <<monitors, now, killSwitch, history, overlapped, faults>>

EndCall(w) ==
    /\ At(w, "call")
    /\ \E outcome \in {"succeeded", "failed"} :
          worker' = [worker EXCEPT ![w].at = "record", ![w].outcome = outcome]
    /\ UNCHANGED <<monitors, now, killSwitch, history, overlapped, faults>>

SecondChance(failures) == failures > MaxConsecutiveFailures   \* mutant: off by one
GivenUp(failures) == failures >= MaxConsecutiveFailures

Reactivated(doc, seen, outcome, m) ==      \* mutant: the old state is written back
    [state |-> IF outcome = "failed" /\ seen.failures + 1 >= MaxConsecutiveFailures
               THEN "DISABLED" ELSE seen.state,
     failures |-> IF outcome = "failed" THEN seen.failures + 1 ELSE 0,
     nextRun |-> now + Interval[m]]
CountsStops(doc, seen, outcome, m) ==      \* mutant: a stopped run is a failed one
    [state |-> IF outcome # "succeeded" /\ GivenUp(seen.failures + 1)
               THEN "DISABLED" ELSE doc.state,
     failures |-> IF outcome # "succeeded" THEN seen.failures + 1 ELSE 0,
     nextRun |-> now + Interval[m]]

Forgiven(doc, seen, outcome, m) ==         \* mutant: a success takes one off
    [state |-> IF outcome = "failed" /\ GivenUp(seen.failures + 1)
               THEN "DISABLED" ELSE doc.state,
     failures |-> IF outcome = "failed" THEN seen.failures + 1 ELSE seen.failures - 1,
     nextRun |-> now + Interval[m]]

(* What run_one leaves of a document: its update names the state only when *)
(* it disables, and a stopped run changes no field that is modelled.       *)
Merged(doc, seen, outcome, m) ==
    LET failures == IF outcome = "failed" THEN seen.failures + 1 ELSE 0 IN
    IF outcome = "stopped" THEN doc
    ELSE [state |-> IF GivenUp(failures) THEN "DISABLED" ELSE doc.state,
          failures |-> failures, nextRun |-> now + Interval[m]]

Remembered(h, outcome) ==
    CASE outcome = "stopped"   -> h
      [] outcome = "succeeded" -> [h EXCEPT !.streak = 0, !.lastRun = now, !.ran = TRUE]
      [] outcome = "failed"    -> [h EXCEPT !.streak = @ + 1, !.failed = @ + 1,
                                            !.lastRun = now, !.ran = TRUE]

RecordRun(w) ==
    LET m == worker[w].monitor IN
    /\ At(w, "record")
    /\ monitors' = [monitors EXCEPT ![m] = Merged(@, worker[w].seen[m], worker[w].outcome, m)]
    /\ history' = [history EXCEPT ![m] = Remembered(@, worker[w].outcome)]
    /\ worker' = [worker EXCEPT ![w] =
          IF @.due = {} THEN Idle
          ELSE [@ EXCEPT !.at = "next", !.monitor = NoMonitor, !.outcome = "none",
                         !.seen[m] = Absent]]
    /\ UNCHANGED <<now, killSwitch, overlapped, faults>>

(* A store call raises: the rest of the list is not run. *)
WorkerRaises(w) ==
    /\ faults < MaxFaults /\ faults' = faults + 1
    /\ ~At(w, "idle")
    /\ worker' = [worker EXCEPT ![w] = Idle]
    /\ UNCHANGED <<monitors, now, killSwitch, history, overlapped>>
-----------------------------------------------------------------------------
(* Specification *)

Continue(w) == EndCall(w) \/ RecordRun(w) \/ \E m \in Monitors : StartRun(w, m)

Next ==
    \/ \E m \in Monitors : Create(m) \/ Disable(m)
    \/ \E w \in Workers : RunDue(w) \/ Continue(w) \/ WorkerRaises(w)
    \/ SetKillSwitch
    \/ Tick

Spec == Init /\ [][Next]_vars
-----------------------------------------------------------------------------
(* Properties *)

(* A disabled monitor stays disabled: a run that started from a document   *)
(* that was still active does not bring it back.                           *)
DisabledStays ==
    [][\A m \in Monitors : monitors[m].state = "DISABLED" => monitors'[m].state = "DISABLED"]_vars

(* A monitor stops for the owner or for three failed runs, however late    *)
(* the documents are read: no failure is counted that did not happen, and  *)
(* none for a run the kill switch stopped.                                 *)
StoppedForCause ==
    \A m \in Monitors :
        /\ monitors[m].failures <= history[m].failed
        /\ monitors[m].state = "DISABLED" =>
              history[m].byOwner \/ history[m].failed >= MaxConsecutiveFailures

(* Of a monitor never on two lists at once, the failures counted are those *)
(* since its last success, and it runs on exactly until the third.         *)
SerialStreakCounts ==
    \A m \in Monitors \ overlapped : monitors[m].state # "ABSENT" =>
        /\ monitors[m].failures = history[m].streak
        /\ Active(m) <=> ~history[m].byOwner /\ history[m].streak < MaxConsecutiveFailures

(* Such a monitor is not called again before its interval is over.         *)
RunsAreSpaced ==
    \A m \in Monitors \ overlapped, w \in Workers :
        worker[w].monitor = m /\ worker[w].outcome # "stopped" /\ history[m].ran =>
            now >= history[m].lastRun + Interval[m]
=============================================================================
