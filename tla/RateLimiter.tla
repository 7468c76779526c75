---------------------------- MODULE RateLimiter ----------------------------
(***************************************************************************)
(* SlidingWindowLimiter.check as the thread pool runs it: each caller      *)
(* reads the clock before it takes the lock, so the times in the deque     *)
(* are those of the readings and need not be in order.  One key of one     *)
(* process: keys share nothing but the lock, processes nothing at all.     *)
(***************************************************************************)
EXTENDS Integers, Sequences, FiniteSets

CONSTANTS
    Callers,        \* threads that call check
    MaxCalls,       \* max_calls
    Window,         \* window_seconds
    MaxStall,       \* longest a thread is held between its clock and the lock
    MaxTime         \* bound on the clock

ASSUME ConstantsAssumption ==
    /\ MaxCalls \in Nat \ {0}
    /\ Window \in Nat \ {0}
    /\ MaxStall \in Nat
    /\ MaxTime \in Nat

VARIABLES
    clock,          \* time.monotonic()
    waiting,        \* per caller: the time it read, or Idle
    calls,          \* the deque, oldest first: the times recorded
    admitted,       \* every call let through, in order: when, and the time it read
    refused         \* the last refusal: when, and how many had been admitted

vars == <<clock, waiting, calls, admitted, refused>>

Idle == -1
Never == [at |-> Idle, after |-> 0]
Admission == [at : Nat, read : Nat]

(* The times recorded are those of the last calls admitted.                *)
TypeOK ==
    /\ clock \in Nat
    /\ waiting \in [Callers -> Nat \cup {Idle}]
    /\ calls \in Seq(Nat)
    /\ admitted \in Seq(Admission)
    /\ refused \in [at : Nat \cup {Idle}, after : Nat]
    /\ Len(calls) <= MaxCalls /\ Len(calls) <= Len(admitted)

Init ==
    /\ clock = 0
    /\ waiting = [c \in Callers |-> Idle]
    /\ calls = <<>>
    /\ admitted = <<>>
    /\ refused = Never

-----------------------------------------------------------------------------
(* now = time.monotonic(), outside the lock.                               *)
ReadClock(c) ==
    /\ waiting[c] = Idle
    /\ waiting' = [waiting EXCEPT ![c] = clock]
    /\ UNCHANGED <<clock, calls, admitted, refused>>

TooOldAtTheEdge(now, time) == now - time >= Window   \* mutant: >= for >
TooOld(now, time) == now - time > Window

Drop(s, k) == SubSeq(s, k + 1, Len(s))

(* The loop pops from the left while the first one is too old: k of them.  *)
Pops(now, k) ==
    /\ \A i \in 1..k : TooOld(now, calls[i])
    /\ k < Len(calls) => ~TooOld(now, calls[k + 1])

FullAfterOneMore(s) == Len(s) > MaxCalls             \* mutant: off by one
Full(s) == Len(s) >= MaxCalls

CountedAnyway(s, now) == Append(Tail(s), now)        \* mutant: as the docstring says
NotCounted(s, now) == s

(* Under the lock.  A refused call is not recorded.                        *)
Check(c) ==
    LET now == waiting[c] IN
    /\ now # Idle
    /\ \E k \in 0..Len(calls) :
          LET kept == Drop(calls, k) IN
          /\ Pops(now, k)
          /\ \/ /\ Full(kept)
                /\ calls' = NotCounted(kept, now)
                /\ refused' = [at |-> clock, after |-> Len(admitted)]
                /\ UNCHANGED admitted
             \/ /\ ~Full(kept)
                /\ calls' = Append(kept, now)
                /\ admitted' = Append(admitted, [at |-> clock, read |-> now])
                /\ UNCHANGED refused
    /\ waiting' = [waiting EXCEPT ![c] = Idle]
    /\ UNCHANGED clock

Tick ==
    /\ clock < MaxTime
    /\ \A c \in Callers : waiting[c] # Idle => clock - waiting[c] < MaxStall
    /\ clock' = clock + 1
    /\ UNCHANGED <<waiting, calls, admitted, refused>>

Next == (\E c \in Callers : ReadClock(c) \/ Check(c)) \/ Tick

Spec == Init /\ [][Next]_vars

-----------------------------------------------------------------------------
(* Properties *)

AdmittedIn(from, to) ==
    {i \in DOMAIN admitted : from <= admitted[i].at /\ admitted[i].at <= to}

(* The limit: wherever the window is laid, no more than MaxCalls of the    *)
(* calls that a process lets through fall into it.  The times are the true *)
(* ones, not those recorded, so that what a stalled thread may spoil is    *)
(* told: the window is shorter by the longest stall.                       *)
WindowHolds ==
    \A t \in 0..clock : Cardinality(AdmittedIn(t, t + Window - MaxStall)) <= MaxCalls

(* Nobody is turned away without cause: MaxCalls were let through within   *)
(* the window, longer by the longest stall, before a refusal.  So refusals *)
(* feed no further refusals, and a caller that keeps trying gets through.  *)
RefusalHasCause ==
    refused # Never =>
        /\ refused.after >= MaxCalls
        /\ refused.at - admitted[refused.after - MaxCalls + 1].at <= Window + MaxStall
=============================================================================
