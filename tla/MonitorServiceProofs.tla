------------------------ MODULE MonitorServiceProofs ------------------------
(***************************************************************************)
(* Proofs about MonitorService, for any number of monitors, intervals,     *)
(* calls of the scheduler and failing store calls.  A run records what it  *)
(* makes of a document it read earlier, so the properties need what is     *)
(* known of that document while the run is under way.                      *)
(***************************************************************************)
EXTENDS MonitorService, TLAPS

(* A worker at a call or at its record has a monitor, taken off its list.  *)
WorkersKeepTheirPlace ==
    \A w \in Workers :
        /\ At(w, "call") \/ At(w, "record") => worker[w].monitor \in Monitors
        /\ At(w, "record") => worker[w].outcome # "none"
        /\ worker[w].monitor \notin worker[w].due

(* However old a document on a list is, its failures did happen.           *)
SeenFailuresHappened ==
    \A m \in Monitors, w \in Workers : worker[w].seen[m].failures <= history[m].failed

AbsentIsUntouched ==
    \A m \in Monitors : monitors[m].state = "ABSENT" =>
        history[m] = NoHistory /\ \A w \in Workers : ~Pending(w, m)

(* The schedule is moved by the runs that are recorded.                    *)
RunsMoveTheSchedule ==
    \A m \in Monitors : history[m].ran =>
        monitors[m].nextRun = history[m].lastRun + Interval[m]

(* A monitor that was never on two lists at once is on one, with the count *)
(* it has now, short of the third failure, and its time has come.          *)
OneList ==
    \A m \in Monitors \ overlapped : \A v, w \in Workers :
        Pending(v, m) /\ Pending(w, m) => v = w

ListIsFresh ==
    \A m \in Monitors \ overlapped : \A w \in Workers : Pending(w, m) =>
        /\ worker[w].seen[m].failures = monitors[m].failures
        /\ monitors[m].failures < MaxConsecutiveFailures
        /\ history[m].ran => now >= history[m].lastRun + Interval[m]

MonitorInv ==
    /\ TypeOK
    /\ WorkersKeepTheirPlace
    /\ SeenFailuresHappened
    /\ AbsentIsUntouched
    /\ RunsMoveTheSchedule
    /\ OneList
    /\ ListIsFresh
    /\ StoppedForCause
    /\ SerialStreakCounts

-----------------------------------------------------------------------------
(* The shape of records *)

LEMMA MonitorShape ==
    ASSUME TypeOK, NEW m \in Monitors
    PROVE  /\ monitors[m].state \in {"ABSENT", "ACTIVE", "DISABLED"}
           /\ monitors[m].failures \in Nat /\ monitors[m].nextRun \in Nat
           /\ history[m].streak \in Nat /\ history[m].failed \in Nat
           /\ history[m].lastRun \in Nat
           /\ history[m].ran \in BOOLEAN /\ history[m].byOwner \in BOOLEAN
           /\ Interval[m] \in Nat /\ now \in Nat
BY ConstantsAssumption DEF TypeOK, Document, History

LEMMA WorkerShape ==
    ASSUME TypeOK, NEW w \in Workers
    PROVE  /\ worker[w].at \in {"idle", "next", "call", "record"}
           /\ worker[w].due \in SUBSET Monitors
           /\ worker[w].monitor \in Monitors \cup {NoMonitor}
           /\ worker[w].outcome \in {"none", "succeeded", "failed", "stopped"}
           /\ worker[w].seen \in [Monitors -> Document]
           /\ \A m \in Monitors : worker[w].seen[m].failures \in Nat
BY DEF TypeOK, Worker, Document

LEMMA IdleIsWorker == Idle \in Worker /\ Absent \in Document /\ NoHistory \in History
BY DEF Idle, Absent, NoHistory, Worker, Document, History

LEMMA InitialInvariant == Init => MonitorInv
<1> SUFFICES ASSUME Init PROVE MonitorInv
  OBVIOUS
<1>1. TypeOK
  <2>1. /\ monitors \in [Monitors -> Document] /\ history \in [Monitors -> History]
        /\ worker \in [Workers -> Worker]
    BY IdleIsWorker DEF Init
  <2>2. now \in 0..MaxTime /\ faults \in 0..MaxFaults
    BY ConstantsAssumption DEF Init
  <2>3. killSwitch \in BOOLEAN /\ overlapped \in SUBSET Monitors
    BY DEF Init
  <2>4. QED
    BY <2>1, <2>2, <2>3 DEF TypeOK
<1>2. \A w \in Workers, m \in Monitors : ~Pending(w, m)
  BY ConstantsAssumption DEF Init, Pending, Idle
<1>3. WorkersKeepTheirPlace /\ SeenFailuresHappened
  BY ConstantsAssumption
     DEF Init, WorkersKeepTheirPlace, SeenFailuresHappened, At, Idle, Absent, NoHistory
<1>4. AbsentIsUntouched /\ RunsMoveTheSchedule
  BY <1>2 DEF Init, AbsentIsUntouched, RunsMoveTheSchedule, NoHistory
<1>5. OneList /\ ListIsFresh
  BY <1>2 DEF OneList, ListIsFresh
<1>6. StoppedForCause /\ SerialStreakCounts
  BY DEF Init, StoppedForCause, SerialStreakCounts, Absent, NoHistory
<1>7. QED
  BY <1>1, <1>3, <1>4, <1>5, <1>6 DEF MonitorInv

-----------------------------------------------------------------------------
(* The owner and the clock *)

LEMMA CreateStep ==
    ASSUME MonitorInv, NEW m \in Monitors, Create(m)
    PROVE  MonitorInv'
<1> DEFINE new == [Absent EXCEPT !.state = "ACTIVE", !.nextRun = now]
<1>1. TypeOK
  BY DEF MonitorInv
<1>2. /\ monitors' = [monitors EXCEPT ![m] = new]
      /\ monitors[m].state = "ABSENT"
      /\ UNCHANGED <<now, killSwitch, worker, history, overlapped, faults>>
  BY DEF Create
<1>3. /\ new \in Document
      /\ new.state = "ACTIVE" /\ new.failures = 0 /\ new.nextRun = now
  BY <1>1, MonitorShape DEF Document, Absent
<1> HIDE DEF new
<1>4. monitors'[m] = new /\ \A k \in Monitors : k # m => monitors'[k] = monitors[k]
  BY <1>1, <1>2 DEF TypeOK
<1>5. history[m] = NoHistory /\ \A w \in Workers : ~Pending(w, m)
  BY <1>2 DEF MonitorInv, AbsentIsUntouched
<1>6. TypeOK'
  BY <1>1, <1>2, <1>3 DEF TypeOK
<1>7. WorkersKeepTheirPlace' /\ SeenFailuresHappened'
  BY <1>2 DEF MonitorInv, WorkersKeepTheirPlace, SeenFailuresHappened, At
<1>8. AbsentIsUntouched' /\ RunsMoveTheSchedule'
  BY <1>2, <1>3, <1>4, <1>5
     DEF MonitorInv, AbsentIsUntouched, RunsMoveTheSchedule, NoHistory, Pending
<1>9. OneList' /\ ListIsFresh'
  BY <1>2, <1>4, <1>5 DEF MonitorInv, OneList, ListIsFresh, Pending
<1>10. StoppedForCause' /\ SerialStreakCounts'
  BY <1>2, <1>3, <1>4, <1>5
     DEF MonitorInv, StoppedForCause, SerialStreakCounts, NoHistory, Active,
         MaxConsecutiveFailures
<1>11. QED
  BY <1>6, <1>7, <1>8, <1>9, <1>10 DEF MonitorInv

LEMMA DisableStep ==
    ASSUME MonitorInv, NEW m \in Monitors, Disable(m)
    PROVE  MonitorInv'
<1>1. TypeOK
  BY DEF MonitorInv
<1>2. /\ monitors' = [monitors EXCEPT ![m].state = "DISABLED"]
      /\ history' = [history EXCEPT ![m].byOwner = TRUE]
      /\ UNCHANGED <<now, killSwitch, worker, overlapped, faults>>
  BY DEF Disable
<1>3. /\ monitors'[m].state = "DISABLED"
      /\ monitors'[m].failures = monitors[m].failures
      /\ monitors'[m].nextRun = monitors[m].nextRun
      /\ history'[m].byOwner = TRUE
      /\ history'[m].streak = history[m].streak /\ history'[m].failed = history[m].failed
      /\ history'[m].lastRun = history[m].lastRun /\ history'[m].ran = history[m].ran
  BY <1>1, <1>2 DEF TypeOK, Document, History
<1>4. \A k \in Monitors : k # m => monitors'[k] = monitors[k] /\ history'[k] = history[k]
  BY <1>1, <1>2 DEF TypeOK
<1>5. TypeOK'
  BY <1>1, <1>2 DEF TypeOK, Document, History
<1>6. WorkersKeepTheirPlace' /\ SeenFailuresHappened'
  BY <1>2, <1>3, <1>4 DEF MonitorInv, WorkersKeepTheirPlace, SeenFailuresHappened, At
<1>7. AbsentIsUntouched' /\ RunsMoveTheSchedule'
  BY <1>2, <1>3, <1>4 DEF MonitorInv, AbsentIsUntouched, RunsMoveTheSchedule, Pending
<1>8. OneList' /\ ListIsFresh'
  BY <1>2, <1>3, <1>4 DEF MonitorInv, OneList, ListIsFresh, Pending
<1>9. StoppedForCause' /\ SerialStreakCounts'
  <2>1. monitors[m].state # "ABSENT"
    BY DEF Disable
  <2>2. QED
    BY <1>2, <1>3, <1>4, <2>1 DEF MonitorInv, StoppedForCause, SerialStreakCounts, Active
<1>10. QED
  BY <1>5, <1>6, <1>7, <1>8, <1>9 DEF MonitorInv

LEMMA TimeStep ==
    ASSUME MonitorInv, SetKillSwitch \/ Tick
    PROVE  MonitorInv'
<1>1. /\ UNCHANGED <<monitors, worker, history, overlapped, faults>>
      /\ now' \in 0..MaxTime /\ now' >= now /\ killSwitch' \in BOOLEAN
  <2>1. CASE SetKillSwitch
    BY <2>1, ConstantsAssumption DEF MonitorInv, TypeOK, SetKillSwitch
  <2>2. CASE Tick
    BY <2>2, ConstantsAssumption DEF MonitorInv, TypeOK, Tick
  <2>3. QED
    BY <2>1, <2>2
<1>2. TypeOK'
  BY <1>1 DEF MonitorInv, TypeOK
<1>3. WorkersKeepTheirPlace' /\ SeenFailuresHappened' /\ AbsentIsUntouched'
      /\ RunsMoveTheSchedule' /\ OneList'
  BY <1>1 DEF MonitorInv, WorkersKeepTheirPlace, SeenFailuresHappened, AbsentIsUntouched,
              RunsMoveTheSchedule, OneList, At, Pending
<1>4. ListIsFresh'
  <2>1. SUFFICES ASSUME NEW m \in Monitors \ overlapped, NEW w \in Workers, Pending(w, m),
                        history[m].ran, now >= history[m].lastRun + Interval[m]
                 PROVE  now' >= history[m].lastRun + Interval[m]
    BY <1>1 DEF MonitorInv, ListIsFresh, Pending
  <2>2. now \in Nat /\ now' \in Nat /\ history[m].lastRun \in Nat /\ Interval[m] \in Nat
    BY <1>1, MonitorShape, ConstantsAssumption DEF MonitorInv
  <2>3. QED
    BY <1>1, <2>1, <2>2
<1>5. StoppedForCause' /\ SerialStreakCounts'
  BY <1>1 DEF MonitorInv, StoppedForCause, SerialStreakCounts, Active
<1>6. QED
  BY <1>2, <1>3, <1>4, <1>5 DEF MonitorInv

-----------------------------------------------------------------------------
(* run_due *)

(* A list taken: of the documents as they are, all of them due.            *)
LEMMA RunDueStep ==
    ASSUME MonitorInv, NEW w \in Workers, RunDue(w)
    PROVE  MonitorInv'
<1> DEFINE due == {m \in Monitors : IsDue(m)}
           seen == [m \in Monitors |-> IF m \in due THEN monitors[m] ELSE Absent]
           started == [Idle EXCEPT !.at = "next", !.due = due, !.seen = seen]
           shared == {m \in due : \E v \in Workers : Pending(v, m)}
<1>1. TypeOK
  BY DEF MonitorInv
<1>2. /\ worker' = [worker EXCEPT ![w] = started]
      /\ overlapped' = overlapped \cup shared
      /\ UNCHANGED <<monitors, now, killSwitch, history, faults>>
  BY DEF RunDue
<1>3. seen \in [Monitors -> Document]
  BY <1>1, IdleIsWorker DEF TypeOK
<1>4. /\ started \in Worker
      /\ started.at = "next" /\ started.due = due /\ started.seen = seen
      /\ started.monitor = NoMonitor
  BY <1>3 DEF Worker, Idle
<1>5. \A m \in due : monitors[m].state = "ACTIVE" /\ monitors[m].nextRun <= now
  BY DEF IsDue, Active
<1>6. \A m \in Monitors : seen[m] = IF m \in due THEN monitors[m] ELSE Absent
  OBVIOUS
<1>7. due \in SUBSET Monitors /\ shared \in SUBSET Monitors
  OBVIOUS
<1>8. \A m \in Monitors \ overlapped', v \in Workers :
         m \in due => ~Pending(v, m)
  BY <1>2
<1> HIDE DEF due, seen, started, shared
<1>9. worker'[w] = started /\ \A v \in Workers : v # w => worker'[v] = worker[v]
  BY <1>1, <1>2 DEF TypeOK
<1>10. \A v \in Workers, m \in Monitors :
          Pending(v, m)' <=> IF v = w THEN m \in due ELSE Pending(v, m)
  BY <1>4, <1>9, ConstantsAssumption DEF Pending
<1>11. TypeOK'
  BY <1>1, <1>2, <1>4, <1>7 DEF TypeOK
<1>12. WorkersKeepTheirPlace'
  BY <1>4, <1>7, <1>9, ConstantsAssumption DEF MonitorInv, WorkersKeepTheirPlace, At
<1>13. SeenFailuresHappened'
  <2>1. ASSUME NEW m \in Monitors PROVE seen[m].failures <= history[m].failed
    <3>1. CASE m \in due
      BY <1>6, <3>1 DEF MonitorInv, StoppedForCause
    <3>2. CASE m \notin due
      <4>1. seen[m].failures = 0 /\ history[m].failed \in Nat
        BY <1>1, <1>6, <3>2, MonitorShape DEF Absent
      <4>2. QED
        BY <4>1
    <3>3. QED
      BY <3>1, <3>2
  <2>2. QED
    BY <1>2, <1>4, <1>9, <2>1 DEF MonitorInv, SeenFailuresHappened
<1>14. AbsentIsUntouched' /\ RunsMoveTheSchedule'
  BY <1>2, <1>5, <1>10 DEF MonitorInv, AbsentIsUntouched, RunsMoveTheSchedule
<1>15. OneList'
  BY <1>2, <1>8, <1>10 DEF MonitorInv, OneList
<1>16. ListIsFresh'
  <2>1. SUFFICES ASSUME NEW m \in Monitors \ overlapped', NEW v \in Workers, Pending(v, m)'
                 PROVE  /\ worker'[v].seen[m].failures = monitors[m].failures
                        /\ monitors[m].failures < MaxConsecutiveFailures
                        /\ history[m].ran => now >= history[m].lastRun + Interval[m]
    BY <1>2 DEF ListIsFresh
  <2>2. m \in Monitors \ overlapped
    BY <1>2
  <2>3. CASE v # w
    BY <1>9, <1>10, <2>1, <2>2, <2>3 DEF MonitorInv, ListIsFresh
  <2>4. CASE v = w
    <3>1. m \in due
      BY <1>10, <2>1, <2>4
    <3>2. worker'[v].seen[m].failures = monitors[m].failures
      BY <1>4, <1>6, <1>9, <2>4, <3>1
    <3>3. monitors[m].failures < MaxConsecutiveFailures
      BY <1>5, <2>2, <3>1 DEF MonitorInv, SerialStreakCounts, Active
    <3>4. history[m].ran => now >= history[m].lastRun + Interval[m]
      BY <1>1, <1>5, <2>2, <3>1, MonitorShape DEF MonitorInv, RunsMoveTheSchedule
    <3>5. QED
      BY <3>2, <3>3, <3>4
  <2>5. QED
    BY <2>3, <2>4
<1>17. StoppedForCause' /\ SerialStreakCounts'
  BY <1>2 DEF MonitorInv, StoppedForCause, SerialStreakCounts, Active
<1>18. QED
  BY <1>11, <1>12, <1>13, <1>14, <1>15, <1>16, <1>17 DEF MonitorInv

(* A worker that goes on with what it has: what is on its list or being    *)
(* run may only become less, and what it saw of that stays.                *)
LEMMA WorkerMoves ==
    ASSUME MonitorInv, NEW w \in Workers, NEW new \in Worker,
           worker' = [worker EXCEPT ![w] = new],
           UNCHANGED <<monitors, now, history, overlapped>>,
           killSwitch' \in BOOLEAN, faults' \in 0..MaxFaults,
           new.at \in {"call", "record"} => new.monitor \in Monitors,
           new.at = "record" => new.outcome # "none",
           new.monitor \notin new.due,
           \A m \in Monitors : new.seen[m].failures <= history[m].failed,
           \A m \in Monitors : m \in new.due \/ new.monitor = m =>
               Pending(w, m) /\ new.seen[m] = worker[w].seen[m]
    PROVE  MonitorInv'
<1>1. TypeOK
  BY DEF MonitorInv
<1>2. worker'[w] = new /\ \A v \in Workers : v # w => worker'[v] = worker[v]
  BY <1>1 DEF TypeOK
<1>3. \A v \in Workers, m \in Monitors : Pending(v, m)' =>
          Pending(v, m) /\ worker'[v].seen[m] = worker[v].seen[m]
  BY <1>2 DEF Pending
<1>4. TypeOK'
  BY <1>1 DEF TypeOK
<1>5. WorkersKeepTheirPlace' /\ SeenFailuresHappened'
  BY <1>2 DEF MonitorInv, WorkersKeepTheirPlace, SeenFailuresHappened, At
<1>6. AbsentIsUntouched' /\ RunsMoveTheSchedule'
  BY <1>3 DEF MonitorInv, AbsentIsUntouched, RunsMoveTheSchedule
<1>7. OneList' /\ ListIsFresh'
  BY <1>3 DEF MonitorInv, OneList, ListIsFresh
<1>8. StoppedForCause' /\ SerialStreakCounts'
  BY DEF MonitorInv, StoppedForCause, SerialStreakCounts, Active
<1>9. QED
  BY <1>4, <1>5, <1>6, <1>7, <1>8 DEF MonitorInv

LEMMA StartRunStep ==
    ASSUME MonitorInv, NEW w \in Workers, NEW m \in Monitors, StartRun(w, m)
    PROVE  MonitorInv'
<1> DEFINE With(outcome) == [worker[w] EXCEPT !.due = worker[w].due \ {m}, !.monitor = m,
                                !.outcome = outcome,
                                !.at = IF outcome = "none" THEN "call" ELSE "record"]
<1>1. PICK outcome \in {"none", "stopped", "failed"} :
         worker' = [worker EXCEPT ![w] = With(outcome)]
  BY DEF StartRun
<1> DEFINE new == With(outcome)
<1>2. TypeOK /\ worker[w] \in Worker /\ worker \in [Workers -> Worker]
  BY DEF MonitorInv, TypeOK
<1>3. /\ new \in Worker /\ new.due = worker[w].due \ {m} /\ new.monitor = m
      /\ new.outcome = outcome /\ new.seen = worker[w].seen
      /\ new.at = IF outcome = "none" THEN "call" ELSE "record"
  BY <1>2 DEF Worker
<1>4. worker' = [worker EXCEPT ![w] = new]
  BY <1>1
<1> HIDE DEF new
<1>5. /\ UNCHANGED <<monitors, now, killSwitch, history, overlapped, faults>>
      /\ m \in worker[w].due
  BY DEF StartRun
<1>6. killSwitch' \in BOOLEAN /\ faults' \in 0..MaxFaults
  BY <1>2, <1>5 DEF TypeOK
<1>7. \A k \in Monitors : new.seen[k].failures <= history[k].failed
  BY <1>3 DEF MonitorInv, SeenFailuresHappened
<1>8. \A k \in Monitors : k \in new.due \/ new.monitor = k =>
               Pending(w, k) /\ new.seen[k] = worker[w].seen[k]
  BY <1>3, <1>5 DEF Pending
<1>9. /\ new.at \in {"call", "record"} => new.monitor \in Monitors
      /\ new.at = "record" => new.outcome # "none"
      /\ new.monitor \notin new.due
  BY <1>3
<1>10. QED
  BY <1>3, <1>4, <1>5, <1>6, <1>7, <1>8, <1>9, WorkerMoves

LEMMA EndCallStep ==
    ASSUME MonitorInv, NEW w \in Workers, EndCall(w)
    PROVE  MonitorInv'
<1>1. PICK outcome \in {"succeeded", "failed"} :
         worker' = [worker EXCEPT ![w].at = "record", ![w].outcome = outcome]
  BY DEF EndCall
<1> DEFINE new == [worker[w] EXCEPT !.at = "record", !.outcome = outcome]
<1>2. TypeOK /\ worker[w] \in Worker /\ worker \in [Workers -> Worker]
  BY DEF MonitorInv, TypeOK
<1>3. /\ new \in Worker /\ new.due = worker[w].due /\ new.monitor = worker[w].monitor
      /\ new.outcome = outcome /\ new.seen = worker[w].seen /\ new.at = "record"
  BY <1>2 DEF Worker
<1>4. worker' = [worker EXCEPT ![w] = new]
  BY <1>1, <1>2
<1> HIDE DEF new
<1>5. /\ UNCHANGED <<monitors, now, killSwitch, history, overlapped, faults>>
      /\ At(w, "call")
  BY DEF EndCall
<1>6. killSwitch' \in BOOLEAN /\ faults' \in 0..MaxFaults
  BY <1>2, <1>5 DEF TypeOK
<1>7. \A k \in Monitors : new.seen[k].failures <= history[k].failed
  BY <1>3 DEF MonitorInv, SeenFailuresHappened
<1>8. \A k \in Monitors : k \in new.due \/ new.monitor = k =>
               Pending(w, k) /\ new.seen[k] = worker[w].seen[k]
  BY <1>3 DEF Pending
<1>9. /\ new.monitor \in Monitors /\ new.outcome # "none" /\ new.monitor \notin new.due
  BY <1>3, <1>5 DEF MonitorInv, WorkersKeepTheirPlace
<1>10. QED
  BY <1>3, <1>4, <1>5, <1>6, <1>7, <1>8, <1>9, WorkerMoves

LEMMA IdleFields ==
    /\ Idle.at = "idle" /\ Idle.due = {} /\ Idle.monitor = NoMonitor
    /\ \A m \in Monitors : Idle.seen[m].failures = 0
BY DEF Idle, Absent

LEMMA RaisesStep ==
    ASSUME MonitorInv, NEW w \in Workers, WorkerRaises(w)
    PROVE  MonitorInv'
<1>1. TypeOK
  BY DEF MonitorInv
<1>2. /\ worker' = [worker EXCEPT ![w] = Idle]
      /\ UNCHANGED <<monitors, now, killSwitch, history, overlapped>>
      /\ faults < MaxFaults /\ faults' = faults + 1
  BY DEF WorkerRaises
<1>3. killSwitch' \in BOOLEAN /\ faults' \in 0..MaxFaults
  BY <1>1, <1>2, ConstantsAssumption DEF TypeOK
<1>4. ASSUME NEW m \in Monitors PROVE Idle.seen[m].failures <= history[m].failed
  <2>1. Idle.seen[m].failures = 0 /\ history[m].failed \in Nat
    BY <1>1, IdleFields, MonitorShape
  <2>2. QED
    BY <2>1
<1>5. /\ Idle.at \in {"call", "record"} => Idle.monitor \in Monitors
      /\ Idle.at = "record" => Idle.outcome # "none"
      /\ Idle.monitor \notin Idle.due
  BY IdleFields
<1>6. \A m \in Monitors : m \in Idle.due \/ Idle.monitor = m =>
               Pending(w, m) /\ Idle.seen[m] = worker[w].seen[m]
  BY IdleFields, ConstantsAssumption
<1>7. Idle \in Worker
  BY IdleIsWorker
<1>8. QED
  BY <1>2, <1>3, <1>4, <1>5, <1>6, <1>7, WorkerMoves

-----------------------------------------------------------------------------
(* Recording a run *)

LEMMA HistoryFields ==
    ASSUME NEW h \in History, NEW n \in Nat
    PROVE  /\ [h EXCEPT !.streak = n] \in History /\ [h EXCEPT !.failed = n] \in History
           /\ [h EXCEPT !.lastRun = n] \in History /\ [h EXCEPT !.ran = TRUE] \in History
BY DEF History

(* What a run leaves of the present document and of what is known of it.   *)
Records(doc, seen, h, m, outcome, new, past) ==
    /\ new \in Document /\ past \in History
    /\ new.nextRun = now + Interval[m] /\ past.lastRun = now
    /\ past.byOwner = h.byOwner
    /\ outcome = "succeeded" =>
          /\ new.failures = 0 /\ new.state = doc.state
          /\ past.streak = 0 /\ past.failed = h.failed
    /\ outcome = "failed" =>
          /\ new.failures = seen.failures + 1
          /\ past.streak = h.streak + 1 /\ past.failed = h.failed + 1
          /\ new.state = IF new.failures >= MaxConsecutiveFailures
                         THEN "DISABLED" ELSE doc.state

LEMMA RunRecorded ==
    ASSUME NEW doc \in Document, NEW seen \in Document, NEW h \in History,
           NEW m \in Monitors, NEW outcome \in {"succeeded", "failed"}, now \in Nat,
           NEW new, new = Merged(doc, seen, outcome, m),
           NEW past, past = Remembered(h, outcome)
    PROVE  Records(doc, seen, h, m, outcome, new, past)
<1> USE DEF Records
<1>1. Interval[m] \in Nat /\ seen.failures \in Nat /\ h.streak \in Nat /\ h.failed \in Nat
  BY ConstantsAssumption DEF Document, History
<1>2. CASE outcome = "succeeded"
  <2>1. new = [state |-> doc.state, failures |-> 0, nextRun |-> now + Interval[m]]
    BY <1>2 DEF Merged, GivenUp, MaxConsecutiveFailures
  <2>2. past = [h EXCEPT !.streak = 0, !.lastRun = now, !.ran = TRUE]
    BY <1>2 DEF Remembered
  <2>3. new \in Document /\ new.failures = 0 /\ new.state = doc.state
        /\ new.nextRun = now + Interval[m]
    BY <1>1, <2>1 DEF Document
  <2>4. /\ past \in History /\ past.lastRun = now /\ past.byOwner = h.byOwner
        /\ past.streak = 0 /\ past.failed = h.failed
    <3>1. past.lastRun = now /\ past.streak = 0 /\ past.failed = h.failed
      BY <1>1, <2>2 DEF History
    <3>2. past.byOwner = h.byOwner
      BY <2>2 DEF History
    <3>3. past \in History
      BY <2>2, HistoryFields
    <3>4. QED
      BY <3>1, <3>2, <3>3
  <2>5. QED
    BY <1>2, <2>3, <2>4
<1>3. CASE outcome = "failed"
  <2>1. new = [state |-> IF seen.failures + 1 >= MaxConsecutiveFailures
                         THEN "DISABLED" ELSE doc.state,
               failures |-> seen.failures + 1, nextRun |-> now + Interval[m]]
    BY <1>3 DEF Merged, GivenUp
  <2>2. past = [h EXCEPT !.streak = @ + 1, !.failed = @ + 1, !.lastRun = now, !.ran = TRUE]
    BY <1>3 DEF Remembered
  <2>3. /\ new \in Document /\ new.failures = seen.failures + 1
        /\ new.state = IF new.failures >= MaxConsecutiveFailures
                       THEN "DISABLED" ELSE doc.state
        /\ new.nextRun = now + Interval[m]
    BY <1>1, <2>1 DEF Document
  <2>4. /\ past \in History /\ past.lastRun = now /\ past.byOwner = h.byOwner
        /\ past.streak = h.streak + 1 /\ past.failed = h.failed + 1
    <3>1. past.lastRun = now /\ past.streak = h.streak + 1 /\ past.failed = h.failed + 1
      BY <1>1, <2>2 DEF History
    <3>2. past.byOwner = h.byOwner
      BY <2>2 DEF History
    <3>3. past \in History
      <4>1. h.streak + 1 \in Nat /\ h.failed + 1 \in Nat
        BY <1>1
      <4>2. QED
        BY <2>2, <4>1, HistoryFields
    <3>4. QED
      BY <3>1, <3>2, <3>3
  <2>5. QED
    BY <1>3, <2>3, <2>4
<1>4. QED
  BY <1>2, <1>3

(* The worker's next state: the monitor is off its list for good.          *)
LEMMA NextOnTheList ==
    ASSUME MonitorInv, NEW w \in Workers, RecordRun(w)
    PROVE  /\ worker' \in [Workers -> Worker]
           /\ \A v \in Workers : v # w => worker'[v] = worker[v]
           /\ worker'[w].at \in {"idle", "next"}
           /\ worker'[w].due = worker[w].due /\ worker'[w].monitor = NoMonitor
           /\ \A k \in Monitors : k # worker[w].monitor /\ k \in worker[w].due =>
                 worker'[w].seen[k] = worker[w].seen[k]
           /\ \A k \in Monitors : worker'[w].seen[k].failures \in {0, worker[w].seen[k].failures}
<1> DEFINE m == worker[w].monitor
           gone == [worker[w] EXCEPT !.at = "next", !.monitor = NoMonitor, !.outcome = "none",
                         !.seen[m] = Absent]
           new == IF worker[w].due = {} THEN Idle ELSE gone
<1>1. TypeOK /\ worker \in [Workers -> Worker] /\ worker[w] \in Worker
  BY DEF MonitorInv, TypeOK
<1>2. worker' = [worker EXCEPT ![w] = new]
  BY <1>1 DEF RecordRun
<1>3. worker[w].seen \in [Monitors -> Document]
  BY <1>1, WorkerShape
<1>4. /\ gone.seen = [worker[w].seen EXCEPT ![m] = Absent]
      /\ gone.due = worker[w].due /\ gone.monitor = NoMonitor /\ gone.at = "next"
      /\ gone.outcome = "none"
  BY <1>1 DEF Worker
<1>5. gone \in Worker
  BY <1>1, <1>3, <1>4, IdleIsWorker DEF Worker
<1>6. \A k \in Monitors : gone.seen[k] = IF k = m THEN Absent ELSE worker[w].seen[k]
  BY <1>3, <1>4
<1> HIDE DEF gone
<1>7. /\ new \in Worker /\ new.at \in {"idle", "next"} /\ new.due = worker[w].due
      /\ new.monitor = NoMonitor
  BY <1>4, <1>5, IdleFields, IdleIsWorker
<1>8. \A k \in Monitors : k # m /\ k \in worker[w].due => new.seen[k] = worker[w].seen[k]
  BY <1>6
<1>9. \A k \in Monitors : new.seen[k].failures \in {0, worker[w].seen[k].failures}
  <2>1. Absent.failures = 0
    BY DEF Absent
  <2>2. QED
    BY <1>6, <2>1, IdleFields
<1> HIDE DEF new
<1>10. worker'[w] = new /\ \A v \in Workers : v # w => worker'[v] = worker[v]
  BY <1>1, <1>2
<1>11. worker' \in [Workers -> Worker]
  BY <1>1, <1>2, <1>7
<1>12. QED
  BY <1>7, <1>8, <1>9, <1>10, <1>11

LEMMA RecordRunStep ==
    ASSUME MonitorInv, NEW w \in Workers, RecordRun(w)
    PROVE  MonitorInv'
<1>0. PICK m \in Monitors : m = worker[w].monitor
  BY DEF MonitorInv, WorkersKeepTheirPlace, RecordRun
<1> DEFINE seen == worker[w].seen[m]
           outcome == worker[w].outcome
<1>1. /\ TypeOK /\ m \in Monitors /\ m = worker[w].monitor /\ m \notin worker[w].due
      /\ outcome \in {"succeeded", "failed", "stopped"}
  BY <1>0, WorkerShape DEF MonitorInv, WorkersKeepTheirPlace, RecordRun, At
<1>2. /\ monitors \in [Monitors -> Document] /\ history \in [Monitors -> History]
      /\ seen \in Document /\ now \in Nat
  BY <1>1, WorkerShape, MonitorShape DEF TypeOK
<1>3. /\ monitors' = [monitors EXCEPT ![m] = Merged(monitors[m], seen, outcome, m)]
      /\ history' = [history EXCEPT ![m] = Remembered(history[m], outcome)]
      /\ UNCHANGED <<now, killSwitch, overlapped, faults>>
  BY <1>1 DEF RecordRun
<1>4. \A k \in Monitors : k # m => monitors'[k] = monitors[k] /\ history'[k] = history[k]
  BY <1>2, <1>3
<1>5. /\ monitors'[m] = Merged(monitors[m], seen, outcome, m)
      /\ history'[m] = Remembered(history[m], outcome)
  BY <1>1, <1>2, <1>3
<1>6. /\ worker' \in [Workers -> Worker]
      /\ \A v \in Workers : v # w => worker'[v] = worker[v]
      /\ worker'[w].at \in {"idle", "next"}
      /\ worker'[w].due = worker[w].due /\ worker'[w].monitor = NoMonitor
      /\ \A k \in Monitors : k # m /\ k \in worker[w].due =>
            worker'[w].seen[k] = worker[w].seen[k]
      /\ \A k \in Monitors : worker'[w].seen[k].failures \in {0, worker[w].seen[k].failures}
  BY <1>1, NextOnTheList
<1>7. Pending(w, m) /\ monitors[m].state # "ABSENT"
  BY <1>1 DEF Pending, MonitorInv, AbsentIsUntouched
<1>8. \A v \in Workers, k \in Monitors : Pending(v, k)' =>
         Pending(v, k) /\ (v = w => k # m)
  BY <1>1, <1>6, ConstantsAssumption DEF Pending
<1>9. \A v \in Workers, k \in Monitors : Pending(v, k)' =>
         worker'[v].seen[k] = worker[v].seen[k]
  BY <1>1, <1>6, ConstantsAssumption DEF Pending
<1>10. WorkersKeepTheirPlace'
  BY <1>6, ConstantsAssumption, WorkerShape, <1>1 DEF MonitorInv, WorkersKeepTheirPlace, At
<1>11. OneList'
  BY <1>3, <1>8 DEF MonitorInv, OneList
<1>12. \A v \in Workers : m \notin overlapped => ~Pending(v, m)'
  BY <1>1, <1>7, <1>8 DEF MonitorInv, OneList
<1>13. StoppedForCause /\ SerialStreakCounts /\ ListIsFresh /\ SeenFailuresHappened
       /\ AbsentIsUntouched /\ RunsMoveTheSchedule
  BY DEF MonitorInv
<1>14. seen.failures \in Nat /\ seen.failures <= history[m].failed /\ history[m].failed \in Nat
       /\ history[m].streak \in Nat
  BY <1>1, <1>13, MonitorShape, WorkerShape DEF SeenFailuresHappened
<1>15. \A k \in Monitors, v \in Workers :
          worker'[v].seen[k].failures \in Nat /\ worker'[v].seen[k].failures <= history[k].failed
  <2>1. SUFFICES ASSUME NEW k \in Monitors, NEW v \in Workers
                 PROVE  /\ worker'[v].seen[k].failures \in Nat
                        /\ worker'[v].seen[k].failures <= history[k].failed
    OBVIOUS
  <2>2. /\ worker'[v].seen[k].failures \in {0, worker[v].seen[k].failures}
        /\ worker[v].seen[k].failures \in Nat
        /\ worker[v].seen[k].failures <= history[k].failed /\ history[k].failed \in Nat
    BY <1>1, <1>6, <1>13, MonitorShape, WorkerShape DEF SeenFailuresHappened
  <2>3. QED
    BY <2>2
<1>16. CASE outcome = "stopped"
  <2>1. monitors' = monitors /\ history' = history
    BY <1>2, <1>3, <1>16 DEF Merged, Remembered
  <2>2. TypeOK'
    BY <1>1, <1>3, <1>6, <2>1 DEF TypeOK
  <2>3. SeenFailuresHappened'
    BY <1>15, <2>1 DEF SeenFailuresHappened
  <2>4. AbsentIsUntouched' /\ RunsMoveTheSchedule' /\ ListIsFresh'
    BY <1>3, <1>8, <1>9, <1>13, <2>1
       DEF AbsentIsUntouched, RunsMoveTheSchedule, ListIsFresh
  <2>5. StoppedForCause' /\ SerialStreakCounts'
    BY <1>3, <1>13, <2>1 DEF StoppedForCause, SerialStreakCounts, Active
  <2>6. QED
    BY <1>10, <1>11, <2>2, <2>3, <2>4, <2>5 DEF MonitorInv
<1>17. CASE outcome \in {"succeeded", "failed"}
  <2> DEFINE new == monitors'[m]
             past == history'[m]
  <2> HIDE DEF new, past
  <2>1. /\ new \in Document /\ past \in History
        /\ new.nextRun = now + Interval[m] /\ past.lastRun = now
        /\ past.byOwner = history[m].byOwner
        /\ outcome = "succeeded" =>
              /\ new.failures = 0 /\ new.state = monitors[m].state
              /\ past.streak = 0 /\ past.failed = history[m].failed
        /\ outcome = "failed" =>
              /\ new.failures = seen.failures + 1
              /\ past.streak = history[m].streak + 1 /\ past.failed = history[m].failed + 1
              /\ new.state = IF new.failures >= MaxConsecutiveFailures
                             THEN "DISABLED" ELSE monitors[m].state
    <3>1. monitors[m] \in Document /\ history[m] \in History
      BY <1>1, <1>2
    <3>2. new = Merged(monitors[m], seen, outcome, m) /\ past = Remembered(history[m], outcome)
      BY <1>5 DEF new, past
    <3>3. QED
      <4>1. Records(monitors[m], seen, history[m], m, outcome, new, past)
        BY <1>2, <1>17, <3>1, <3>2, RunRecorded
      <4>2. QED
        BY <4>1 DEF Records
  <2>2. new.failures \in Nat /\ past.failed \in Nat /\ past.failed >= history[m].failed
    BY <1>14, <1>17, <2>1
  <2>3. TypeOK'
    <3>1. monitors' \in [Monitors -> Document] /\ history' \in [Monitors -> History]
      BY <1>2, <1>3, <1>4, <2>1 DEF new, past
    <3>2. QED
      BY <1>1, <1>3, <1>6, <3>1 DEF TypeOK
  <2>4. SeenFailuresHappened'
    <3>1. SUFFICES ASSUME NEW k \in Monitors, NEW v \in Workers
                   PROVE  worker'[v].seen[k].failures <= history'[k].failed
      BY DEF SeenFailuresHappened
    <3>2. CASE k # m
      BY <1>4, <1>15, <3>2
    <3>3. CASE k = m
      BY <1>14, <1>15, <2>2, <3>3 DEF past
    <3>4. QED
      BY <3>2, <3>3
  <2>5. new.state # "ABSENT"
    BY <1>7, <1>17, <2>1
  <2>6. AbsentIsUntouched' /\ RunsMoveTheSchedule'
    BY <1>3, <1>4, <1>8, <1>13, <2>1, <2>5
       DEF AbsentIsUntouched, RunsMoveTheSchedule, new, past
  <2>7. ListIsFresh'
    BY <1>3, <1>4, <1>8, <1>9, <1>12, <1>13 DEF ListIsFresh
  <2>8. StoppedForCause'
    <3>1. SUFFICES /\ new.failures <= past.failed
                   /\ new.state = "DISABLED" =>
                         past.byOwner \/ past.failed >= MaxConsecutiveFailures
      BY <1>4, <1>13 DEF StoppedForCause, new, past
    <3>2. new.failures <= past.failed
      BY <1>14, <1>17, <2>1
    <3>3. ASSUME new.state = "DISABLED"
          PROVE  past.byOwner \/ past.failed >= MaxConsecutiveFailures
      <4>1. CASE monitors[m].state = "DISABLED"
        <5>1. history[m].byOwner \/ history[m].failed >= MaxConsecutiveFailures
          BY <1>1, <1>13, <4>1 DEF StoppedForCause
        <5>2. QED
          BY <1>14, <2>1, <2>2, <5>1 DEF MaxConsecutiveFailures
      <4>2. CASE monitors[m].state # "DISABLED"
        BY <1>14, <1>17, <2>1, <2>2, <3>2, <3>3, <4>2 DEF MaxConsecutiveFailures
      <4>3. QED
        BY <4>1, <4>2
    <3>4. QED
      BY <3>2, <3>3
  <2>9. SerialStreakCounts'
    <3>1. SUFFICES ASSUME m \notin overlapped
                   PROVE  /\ new.failures = past.streak
                          /\ new.state = "ACTIVE" <=>
                                ~past.byOwner /\ past.streak < MaxConsecutiveFailures
      BY <1>3, <1>4, <1>13 DEF SerialStreakCounts, Active, new, past
    <3>2. /\ monitors[m].failures = history[m].streak
          /\ Active(m) <=> ~history[m].byOwner /\ history[m].streak < MaxConsecutiveFailures
      BY <1>1, <1>7, <1>13, <3>1 DEF SerialStreakCounts
    <3>3. seen.failures = monitors[m].failures /\ monitors[m].failures < MaxConsecutiveFailures
      BY <1>1, <1>7, <1>13, <3>1 DEF ListIsFresh
    <3>4. CASE outcome = "succeeded"
      BY <2>1, <3>2, <3>3, <3>4 DEF Active, MaxConsecutiveFailures
    <3>5. CASE outcome = "failed"
      <4>1. new.failures = past.streak
        BY <2>1, <3>2, <3>3, <3>5
      <4>2. CASE past.streak >= MaxConsecutiveFailures
        BY <1>14, <2>1, <3>5, <4>1, <4>2 DEF MaxConsecutiveFailures
      <4>3. CASE past.streak < MaxConsecutiveFailures
        <5>1. new.state = monitors[m].state
          BY <1>14, <2>1, <3>5, <4>1, <4>3 DEF MaxConsecutiveFailures
        <5>2. QED
          BY <2>1, <3>2, <3>3, <4>1, <4>3, <5>1 DEF Active
      <4>4. QED
        BY <1>14, <2>1, <3>5, <4>1, <4>2, <4>3 DEF MaxConsecutiveFailures
    <3>6. QED
      BY <1>17, <3>4, <3>5
  <2>10. QED
    BY <1>10, <1>11, <2>3, <2>4, <2>6, <2>7, <2>8, <2>9 DEF MonitorInv
<1>18. QED
  BY <1>1, <1>16, <1>17

LEMMA StutterStep == MonitorInv /\ UNCHANGED vars => MonitorInv'
<1> SUFFICES ASSUME MonitorInv, UNCHANGED vars PROVE MonitorInv'
  OBVIOUS
<1>1. TypeOK'
  BY DEF MonitorInv, TypeOK, vars
<1>2. WorkersKeepTheirPlace' /\ SeenFailuresHappened' /\ AbsentIsUntouched'
      /\ RunsMoveTheSchedule' /\ OneList' /\ ListIsFresh'
  BY DEF MonitorInv, WorkersKeepTheirPlace, SeenFailuresHappened, AbsentIsUntouched,
         RunsMoveTheSchedule, OneList, ListIsFresh, At, Pending, vars
<1>3. StoppedForCause' /\ SerialStreakCounts'
  BY DEF MonitorInv, StoppedForCause, SerialStreakCounts, Active, vars
<1>4. QED
  BY <1>1, <1>2, <1>3 DEF MonitorInv

LEMMA NextStep == MonitorInv /\ [Next]_vars => MonitorInv'
<1> SUFFICES ASSUME MonitorInv, [Next]_vars PROVE MonitorInv'
  OBVIOUS
<1>1. CASE \E m \in Monitors : Create(m) \/ Disable(m)
  BY <1>1, CreateStep, DisableStep
<1>2. CASE \E w \in Workers : RunDue(w) \/ Continue(w) \/ WorkerRaises(w)
  BY <1>2, RunDueStep, StartRunStep, EndCallStep, RecordRunStep, RaisesStep DEF Continue
<1>3. CASE SetKillSwitch \/ Tick
  BY <1>3, TimeStep
<1>4. CASE UNCHANGED vars
  BY <1>4, StutterStep
<1>5. QED
  BY <1>1, <1>2, <1>3, <1>4 DEF Next

-----------------------------------------------------------------------------
(* Theorems *)

(* What is known of the documents on the scheduler's lists is invariant.   *)
THEOREM Invariance == Spec => []MonitorInv
<1>1. QED
  BY InitialInvariant, NextStep, PTL DEF Spec

(* Documents, lists and counts keep their type.                            *)
THEOREM TypeCorrect == Spec => []TypeOK
<1>1. MonitorInv => TypeOK
  BY DEF MonitorInv
<1>2. QED
  BY <1>1, Invariance, PTL

(* However many calls of the scheduler run beside each other, a monitor    *)
(* stops for its owner or for three failures that happened.                *)
THEOREM StopsHaveACause == Spec => []StoppedForCause
<1>1. MonitorInv => StoppedForCause
  BY DEF MonitorInv
<1>2. QED
  BY <1>1, Invariance, PTL

(* The failure count of a monitor never on two lists at once is exact.     *)
THEOREM SerialCountsAreExact == Spec => []SerialStreakCounts
<1>1. MonitorInv => SerialStreakCounts
  BY DEF MonitorInv
<1>2. QED
  BY <1>1, Invariance, PTL

(* Such a monitor keeps its interval, however late its runs end.           *)
THEOREM IntervalsAreKept == Spec => []RunsAreSpaced
<1>1. MonitorInv => RunsAreSpaced
  BY DEF MonitorInv, ListIsFresh, RunsAreSpaced, Pending
<1>2. QED
  BY <1>1, Invariance, PTL

(* No step takes a disabled monitor out of that state, whatever document   *)
(* a run started from.                                                     *)
THEOREM DisablingIsFinal == Spec => DisabledStays
<1>1. ASSUME MonitorInv, [Next]_vars, NEW m \in Monitors, monitors[m].state = "DISABLED"
      PROVE  monitors'[m].state = "DISABLED"
  <2>1. monitors \in [Monitors -> Document]
    BY <1>1 DEF MonitorInv, TypeOK
  <2>2. CASE UNCHANGED monitors
    BY <1>1, <2>2
  <2>3. ASSUME NEW k \in Monitors, Create(k)
        PROVE  monitors'[m].state = "DISABLED"
    BY <1>1, <2>1, <2>3 DEF Create
  <2>4. ASSUME NEW k \in Monitors, Disable(k)
        PROVE  monitors'[m].state = "DISABLED"
    BY <1>1, <2>1, <2>4 DEF Disable, Document
  <2>5. ASSUME NEW w \in Workers, RecordRun(w)
        PROVE  monitors'[m].state = "DISABLED"
    <3>1. monitors' = [monitors EXCEPT ![worker[w].monitor] =
             Merged(monitors[worker[w].monitor], worker[w].seen[worker[w].monitor],
                    worker[w].outcome, worker[w].monitor)]
      BY <2>5 DEF RecordRun
    <3>2. CASE worker[w].monitor # m
      BY <1>1, <2>1, <3>1, <3>2
    <3>3. CASE worker[w].monitor = m
      BY <1>1, <2>1, <3>1, <3>3 DEF Merged
    <3>4. QED
      BY <3>2, <3>3
  <2>6. QED
    BY <1>1, <2>2, <2>3, <2>4, <2>5
       DEF Next, Continue, RunDue, StartRun, EndCall, WorkerRaises, SetKillSwitch, Tick, vars
<1>2. MonitorInv /\ [Next]_vars =>
         [\A m \in Monitors : monitors[m].state = "DISABLED" => monitors'[m].state = "DISABLED"]_vars
  BY <1>1
<1>3. QED
  BY <1>2, Invariance, PTL DEF Spec, DisabledStays
=============================================================================
