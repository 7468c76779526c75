------------------------- MODULE RateLimiterProofs -------------------------
(***************************************************************************)
(* Proofs about RateLimiter, for every number of callers, limit, window    *)
(* and stall.  The deque only loses calls at its old end, so it is the     *)
(* last part of what was admitted, and what it lost was too old.           *)
(***************************************************************************)
EXTENDS RateLimiter, FiniteSetTheorems, TLAPS

(* How many of the admitted calls are no longer in the deque.              *)
Lost == Len(admitted) - Len(calls)

(* The deque is the end of the history. *)
DequeIsTheEnd == \A i \in DOMAIN calls : calls[i] = admitted[Lost + i].read

(* A call is dropped only once it is older than the window. *)
LostAreOld == \A i \in 1..Lost : clock - admitted[i].read > Window

(* A caller is held for at most MaxStall, and was when it was admitted. *)
StallsAreShort ==
    /\ \A c \in Callers : waiting[c] # Idle =>
          waiting[c] <= clock /\ clock - waiting[c] <= MaxStall
    /\ \A i \in DOMAIN admitted :
          /\ admitted[i].read <= admitted[i].at /\ admitted[i].at <= clock
          /\ admitted[i].at - admitted[i].read <= MaxStall

RefusalIsPast ==
    /\ refused # Never => refused.at <= clock
    /\ refused.after <= Len(admitted)

(* The limit in every window, those that begin after the last call too. *)
LimitInEveryWindow ==
    \A t \in Nat :
        /\ IsFiniteSet(AdmittedIn(t, t + Window - MaxStall))
        /\ Cardinality(AdmittedIn(t, t + Window - MaxStall)) <= MaxCalls

LimiterInv ==
    /\ TypeOK
    /\ DequeIsTheEnd
    /\ LostAreOld
    /\ StallsAreShort
    /\ RefusalIsPast
    /\ LimitInEveryWindow
    /\ RefusalHasCause

-----------------------------------------------------------------------------
(* Dropping from the left and appending at the right. *)

LEMMA DropFacts ==
    ASSUME NEW S, NEW s \in Seq(S), NEW k \in 0..Len(s)
    PROVE  /\ Drop(s, k) \in Seq(S)
           /\ Len(Drop(s, k)) = Len(s) - k
           /\ \A i \in 1..(Len(s) - k) : Drop(s, k)[i] = s[k + i]
BY DEF Drop

LEMMA Ages ==
    ASSUME NEW now \in Nat, NEW at \in Nat, NEW read \in Nat,
           NEW window \in Nat, NEW stall \in Nat,
           now - read > window, at - read <= stall
    PROVE  now - at > window - stall
OBVIOUS

LEMMA Youth ==
    ASSUME NEW now \in Nat, NEW asked \in Nat, NEW at \in Nat, NEW read \in Nat,
           NEW window \in Nat, NEW stall \in Nat,
           asked - read <= window, now - asked <= stall, read <= at
    PROVE  now - at <= window + stall
OBVIOUS

LEMMA AppendFacts ==
    ASSUME NEW S, NEW s \in Seq(S), NEW e \in S
    PROVE  /\ Append(s, e) \in Seq(S)
           /\ Len(Append(s, e)) = Len(s) + 1
           /\ Append(s, e)[Len(s) + 1] = e
           /\ \A i \in DOMAIN s : Append(s, e)[i] = s[i]
OBVIOUS

LEMMA AdmissionFields ==
    ASSUME TypeOK
    PROVE  \A i \in DOMAIN admitted : admitted[i].at \in Nat /\ admitted[i].read \in Nat
<1>1. \A i \in DOMAIN admitted : admitted[i] \in Admission
  BY DEF TypeOK
<1>2. QED
  BY <1>1 DEF Admission

LEMMA InitialInvariant == Init => LimiterInv
<1> SUFFICES ASSUME Init PROVE LimiterInv
  OBVIOUS
<1>1. TypeOK
  BY ConstantsAssumption DEF Init, TypeOK, Idle, Never
<1>2. DequeIsTheEnd /\ LostAreOld
  BY DEF Init, DequeIsTheEnd, LostAreOld, Lost
<1>3. StallsAreShort /\ RefusalIsPast
  BY DEF Init, StallsAreShort, RefusalIsPast, Never, Idle
<1>4. LimitInEveryWindow /\ RefusalHasCause
  <2>1. \A t \in Nat : AdmittedIn(t, t + Window - MaxStall) = {}
    BY DEF Init, AdmittedIn
  <2>2. LimitInEveryWindow
    BY <2>1, FS_EmptySet, ConstantsAssumption DEF LimitInEveryWindow
  <2>3. QED
    BY <2>2 DEF Init, RefusalHasCause
<1>5. QED
  BY <1>1, <1>2, <1>3, <1>4 DEF LimiterInv

-----------------------------------------------------------------------------
(* What the loop leaves in the deque is still the end of the history, and  *)
(* everything before it is too old.                                        *)
LEMMA AfterPops ==
    ASSUME LimiterInv, NEW c \in Callers, waiting[c] # Idle,
           NEW k \in 0..Len(calls), Pops(waiting[c], k)
    PROVE  /\ Drop(calls, k) \in Seq(Nat)
           /\ Len(Drop(calls, k)) = Len(calls) - k
           /\ \A i \in 1..(Len(calls) - k) :
                 Drop(calls, k)[i] = admitted[Lost + k + i].read
           /\ \A i \in 1..(Lost + k) : clock - admitted[i].read > Window
<1>1. /\ calls \in Seq(Nat) /\ admitted \in Seq(Admission)
      /\ Len(calls) <= Len(admitted) /\ clock \in Nat /\ waiting[c] \in Nat
  BY DEF LimiterInv, TypeOK
<1>2. waiting[c] <= clock
  BY DEF LimiterInv, StallsAreShort
<1>3. /\ Drop(calls, k) \in Seq(Nat)
      /\ Len(Drop(calls, k)) = Len(calls) - k
      /\ \A i \in 1..(Len(calls) - k) : Drop(calls, k)[i] = calls[k + i]
  BY <1>1, DropFacts
<1>4. \A i \in 1..(Len(calls) - k) : calls[k + i] = admitted[Lost + k + i].read
  BY <1>1 DEF LimiterInv, DequeIsTheEnd, Lost
<1>5. ASSUME NEW i \in 1..(Lost + k) PROVE clock - admitted[i].read > Window
  <2>1. CASE i <= Lost
    BY <2>1, <1>1 DEF LimiterInv, LostAreOld, Lost
  <2>2. CASE i > Lost
    <3>1. i - Lost \in 1..k /\ i - Lost \in DOMAIN calls
      BY <1>1, <2>2 DEF Lost
    <3>2. waiting[c] - calls[i - Lost] > Window
      BY <3>1 DEF Pops, TooOld
    <3>3. calls[i - Lost] = admitted[i].read /\ calls[i - Lost] \in Nat
      BY <1>1, <3>1 DEF LimiterInv, DequeIsTheEnd, Lost
    <3>4. QED
      BY <1>1, <1>2, <3>2, <3>3, ConstantsAssumption
  <2>3. QED
    BY <1>1, <2>1, <2>2 DEF Lost
<1>6. QED
  BY <1>3, <1>4, <1>5

(* A call let through: what would be the MaxCalls-th before it was dropped *)
(* as too old, so it is outside the window.                                *)
LEMMA AdmissionStep ==
    ASSUME LimiterInv, NEW c \in Callers, waiting[c] # Idle,
           NEW k \in 0..Len(calls), Pops(waiting[c], k), ~Full(Drop(calls, k)),
           calls' = Append(Drop(calls, k), waiting[c]),
           admitted' = Append(admitted, [at |-> clock, read |-> waiting[c]]),
           waiting' = [waiting EXCEPT ![c] = Idle],
           UNCHANGED <<clock, refused>>
    PROVE  LimiterInv'
<1> DEFINE kept == Drop(calls, k)
           new == [at |-> clock, read |-> waiting[c]]
<1>1. /\ calls \in Seq(Nat) /\ admitted \in Seq(Admission)
      /\ Len(calls) <= Len(admitted) /\ clock \in Nat /\ waiting[c] \in Nat
      /\ waiting \in [Callers -> Nat \cup {Idle}]
  BY DEF LimiterInv, TypeOK
<1>2. /\ kept \in Seq(Nat) /\ Len(kept) = Len(calls) - k
      /\ \A i \in 1..(Len(calls) - k) : kept[i] = admitted[Lost + k + i].read
      /\ \A i \in 1..(Lost + k) : clock - admitted[i].read > Window
  BY AfterPops
<1>3. Len(kept) < MaxCalls
  BY <1>1, <1>2, ConstantsAssumption DEF Full
<1>4. new \in Admission
  BY <1>1 DEF Admission
<1>5. /\ admitted' \in Seq(Admission) /\ Len(admitted') = Len(admitted) + 1
      /\ admitted'[Len(admitted) + 1] = new
      /\ \A i \in DOMAIN admitted : admitted'[i] = admitted[i]
  BY <1>1, <1>4
<1>6. /\ calls' \in Seq(Nat) /\ Len(calls') = Len(kept) + 1
      /\ calls'[Len(kept) + 1] = waiting[c]
      /\ \A i \in DOMAIN kept : calls'[i] = kept[i]
  <2>1. kept \in Seq(Nat) /\ waiting[c] \in Nat /\ calls' = Append(kept, waiting[c])
    BY <1>1, <1>2
  <2> HIDE DEF kept
  <2>2. QED
    BY <2>1, AppendFacts
<1>7. Lost' = Lost + k
  BY <1>1, <1>2, <1>5, <1>6 DEF Lost
<1>8. TypeOK'
  <2>1. waiting' \in [Callers -> Nat \cup {Idle}]
    BY <1>1
  <2>2. Len(calls') <= MaxCalls /\ Len(calls') <= Len(admitted')
    BY <1>1, <1>2, <1>3, <1>5, <1>6, ConstantsAssumption
  <2>3. clock' \in Nat /\ refused' \in [at : Nat \cup {Idle}, after : Nat]
    BY DEF LimiterInv, TypeOK
  <2>4. QED
    BY <1>5, <1>6, <2>1, <2>2, <2>3 DEF TypeOK
<1>9. DequeIsTheEnd'
  <2>1. ASSUME NEW i \in DOMAIN calls' PROVE calls'[i] = admitted'[Lost' + i].read
    <3>1. CASE i = Len(kept) + 1
      <4>1. Lost' + i = Len(admitted) + 1
        BY <1>1, <1>2, <1>7, <3>1 DEF Lost
      <4>2. QED
        BY <1>5, <1>6, <3>1, <4>1
    <3>2. CASE i # Len(kept) + 1
      <4>1. i \in 1..(Len(calls) - k) /\ i \in DOMAIN kept
        BY <1>1, <1>2, <1>6, <3>2
      <4>2. Lost + k + i \in DOMAIN admitted
        BY <1>1, <4>1 DEF Lost
      <4>3. QED
        BY <1>2, <1>5, <1>6, <1>7, <4>1, <4>2
    <3>3. QED
      BY <3>1, <3>2
  <2>2. QED
    BY <2>1 DEF DequeIsTheEnd
<1>10. LostAreOld'
  <2>1. \A i \in 1..(Lost + k) : i \in DOMAIN admitted
    BY <1>1 DEF Lost
  <2>2. QED
    BY <1>2, <1>5, <1>7, <2>1 DEF LostAreOld
<1>11. StallsAreShort'
  BY <1>1, <1>5 DEF LimiterInv, StallsAreShort, Idle
<1>12. RefusalIsPast'
  BY <1>1, <1>5 DEF LimiterInv, TypeOK, RefusalIsPast
<1>13. LimitInEveryWindow'
  <2> DEFINE last == Len(admitted) + 1
  <2>1. SUFFICES ASSUME NEW t \in Nat
        PROVE  /\ IsFiniteSet(AdmittedIn(t, t + Window - MaxStall)')
               /\ Cardinality(AdmittedIn(t, t + Window - MaxStall)') <= MaxCalls
    BY DEF LimitInEveryWindow
  <2>2. CASE clock <= t + Window - MaxStall
    <3>1. AdmittedIn(t, t + Window - MaxStall)' \subseteq (last - MaxCalls + 1)..last
      <4>1. ASSUME NEW i \in DOMAIN admitted, i <= last - MaxCalls
            PROVE  t > admitted[i].at \/ admitted[i].at > t + Window - MaxStall
        <5>1. i \in 1..(Lost + k)
          BY <1>1, <1>2, <1>3, <4>1, ConstantsAssumption DEF Lost
        <5>2. clock - admitted[i].read > Window
          BY <1>2, <5>1
        <5>3. /\ admitted[i].at - admitted[i].read <= MaxStall
              /\ admitted[i].at \in Nat /\ admitted[i].read \in Nat
          BY AdmissionFields DEF LimiterInv, StallsAreShort
        <5>4. clock - admitted[i].at > Window - MaxStall
          BY <1>1, <5>2, <5>3, ConstantsAssumption, Ages
        <5>5. QED
          BY <1>1, <2>2, <5>3, <5>4, ConstantsAssumption
      <4>2. ASSUME NEW i \in DOMAIN admitted', i # last, i <= last - MaxCalls
            PROVE  i \notin AdmittedIn(t, t + Window - MaxStall)'
        <5>1. i \in DOMAIN admitted /\ admitted'[i] = admitted[i] /\ admitted[i].at \in Nat
          BY <1>1, <1>5, <4>2, AdmissionFields DEF LimiterInv
        <5>2. QED
          BY <4>1, <4>2, <5>1, ConstantsAssumption DEF AdmittedIn
      <4>3. DOMAIN admitted' = 1..last /\ last \in Nat
        BY <1>1, <1>5
      <4>4. AdmittedIn(t, t + Window - MaxStall)' \subseteq DOMAIN admitted'
        BY DEF AdmittedIn
      <4>5. ASSUME NEW i \in AdmittedIn(t, t + Window - MaxStall)'
            PROVE  i \in (last - MaxCalls + 1)..last
        <5>1. i \in 1..last /\ (i = last \/ i > last - MaxCalls)
          BY <4>2, <4>3, <4>4, ConstantsAssumption
        <5>2. QED
          BY <4>3, <5>1, ConstantsAssumption
      <4>6. QED
        BY <4>5
    <3>2. /\ IsFiniteSet((last - MaxCalls + 1)..last)
          /\ Cardinality((last - MaxCalls + 1)..last) = MaxCalls
      <4>1. /\ last - MaxCalls + 1 \in Int /\ last \in Int /\ last - MaxCalls + 1 <= last
            /\ last - (last - MaxCalls + 1) + 1 = MaxCalls
        BY <1>1, ConstantsAssumption
      <4> HIDE DEF last
      <4>2. QED
        BY <4>1, FS_Interval
    <3>3. /\ IsFiniteSet(AdmittedIn(t, t + Window - MaxStall)')
          /\ Cardinality(AdmittedIn(t, t + Window - MaxStall)') <=
                Cardinality((last - MaxCalls + 1)..last)
      BY <3>1, <3>2, FS_Subset
    <3>4. QED
      BY <3>2, <3>3
  <2>3. CASE clock > t + Window - MaxStall
    <3>1. AdmittedIn(t, t + Window - MaxStall)' = AdmittedIn(t, t + Window - MaxStall)
      <4>1. admitted'[last].at = clock /\ DOMAIN admitted' = DOMAIN admitted \cup {last}
        BY <1>1, <1>5
      <4>2. t + Window - MaxStall \in Int
        BY ConstantsAssumption
      <4>3. QED
        BY <1>1, <1>5, <2>3, <4>1, <4>2 DEF AdmittedIn
    <3>2. QED
      BY <3>1 DEF LimiterInv, LimitInEveryWindow
  <2>4. QED
    BY <1>1, <2>2, <2>3, ConstantsAssumption
<1>14. RefusalHasCause'
  <2>1. SUFFICES ASSUME refused # Never
        PROVE  /\ refused.after >= MaxCalls
               /\ refused.at - admitted'[refused.after - MaxCalls + 1].at <= Window + MaxStall
    BY DEF RefusalHasCause
  <2>2. /\ refused.after >= MaxCalls
        /\ refused.at - admitted[refused.after - MaxCalls + 1].at <= Window + MaxStall
    BY <2>1 DEF LimiterInv, RefusalHasCause
  <2>3. refused.after - MaxCalls + 1 \in DOMAIN admitted
    BY <1>1, <2>2, ConstantsAssumption DEF LimiterInv, TypeOK, RefusalIsPast
  <2>4. QED
    BY <1>5, <2>2, <2>3
<1>15. QED
  BY <1>8, <1>9, <1>10, <1>11, <1>12, <1>13, <1>14 DEF LimiterInv

(* A call refused: the deque is full, and its first is within the window.  *)
LEMMA RefusalStep ==
    ASSUME LimiterInv, NEW c \in Callers, waiting[c] # Idle,
           NEW k \in 0..Len(calls), Pops(waiting[c], k), Full(Drop(calls, k)),
           calls' = Drop(calls, k),
           refused' = [at |-> clock, after |-> Len(admitted)],
           waiting' = [waiting EXCEPT ![c] = Idle],
           UNCHANGED <<clock, admitted>>
    PROVE  LimiterInv'
<1> DEFINE kept == Drop(calls, k)
<1>1. /\ calls \in Seq(Nat) /\ admitted \in Seq(Admission)
      /\ Len(calls) <= Len(admitted) /\ clock \in Nat /\ waiting[c] \in Nat
      /\ waiting \in [Callers -> Nat \cup {Idle}] /\ Len(calls) <= MaxCalls
  BY DEF LimiterInv, TypeOK
<1>2. /\ kept \in Seq(Nat) /\ Len(kept) = Len(calls) - k
      /\ \A i \in 1..(Len(calls) - k) : kept[i] = admitted[Lost + k + i].read
      /\ \A i \in 1..(Lost + k) : clock - admitted[i].read > Window
  BY AfterPops
<1>3. Len(kept) = MaxCalls /\ k = 0
  BY <1>1, <1>2, ConstantsAssumption DEF Full
<1>4. Lost' = Lost + k
  BY <1>1, <1>2 DEF Lost
<1>5. TypeOK'
  <2>1. waiting' \in [Callers -> Nat \cup {Idle}]
    BY <1>1
  <2>2. refused' \in [at : Nat \cup {Idle}, after : Nat]
    BY <1>1
  <2>3. QED
    BY <1>1, <1>2, <1>3, <2>1, <2>2 DEF LimiterInv, TypeOK
<1>6. DequeIsTheEnd' /\ LostAreOld'
  <2>1. \A i \in DOMAIN kept : kept[i] = admitted[Lost + k + i].read
    BY <1>1, <1>2
  <2>2. \A i \in DOMAIN calls' : calls'[i] = admitted'[Lost' + i].read
    BY <1>4, <2>1
  <2>3. \A i \in 1..Lost' : clock' - admitted'[i].read > Window
    BY <1>2, <1>4
  <2>4. QED
    BY <2>2, <2>3 DEF DequeIsTheEnd, LostAreOld
<1>7. StallsAreShort'
  BY <1>1 DEF LimiterInv, StallsAreShort
<1>8. RefusalIsPast' /\ LimitInEveryWindow'
  <2>1. refused'.at <= clock' /\ refused'.after <= Len(admitted')
    BY <1>1
  <2>2. LimitInEveryWindow'
    BY Zenon DEF LimiterInv, LimitInEveryWindow, AdmittedIn
  <2>3. QED
    BY <2>1, <2>2 DEF RefusalIsPast
<1>9. RefusalHasCause'
  <2> DEFINE first == Len(admitted) - MaxCalls + 1
  <2>1. first \in DOMAIN admitted /\ first = Lost + 1 /\ Len(calls) >= 1
    <3>1. Len(calls) = MaxCalls /\ Len(calls) \in Nat /\ Len(admitted) \in Nat
      BY <1>1, <1>2, <1>3
    <3>2. QED
      BY <1>1, <3>1, ConstantsAssumption DEF Lost
  <2>2. calls[1] = admitted[first].read /\ calls[1] \in Nat
    <3>1. 1 \in DOMAIN calls
      BY <1>1, <2>1
    <3>2. calls[1] = admitted[Lost + 1].read
      BY <3>1 DEF LimiterInv, DequeIsTheEnd
    <3>3. QED
      BY <1>1, <2>1, <3>1, <3>2
  <2>3. waiting[c] - calls[1] <= Window
    BY <1>1, <1>3, <2>1, <2>2, ConstantsAssumption DEF Pops, TooOld
  <2>4. clock - waiting[c] <= MaxStall
    BY DEF LimiterInv, StallsAreShort
  <2>5. /\ admitted[first].read <= admitted[first].at
        /\ admitted[first].at \in Nat
    BY <2>1, AdmissionFields DEF LimiterInv, StallsAreShort
  <2> HIDE DEF first
  <2>6. clock - admitted[first].at <= Window + MaxStall
    <3>1. /\ clock \in Nat /\ waiting[c] \in Nat /\ admitted[first].read \in Nat
          /\ Window \in Nat /\ MaxStall \in Nat
      BY <1>1, <2>2, ConstantsAssumption
    <3>2. waiting[c] - admitted[first].read <= Window
      BY <2>2, <2>3
    <3>3. QED
      BY <2>4, <2>5, <3>1, <3>2, Youth
  <2>7. Len(admitted) >= MaxCalls
    BY <1>1, <1>2, <1>3
  <2>8. QED
    BY <2>6, <2>7 DEF RefusalHasCause, first
<1>10. QED
  BY <1>5, <1>6, <1>7, <1>8, <1>9 DEF LimiterInv

(* The steps that leave the deque and the history alone. *)
LEMMA ClockStep ==
    ASSUME LimiterInv, UNCHANGED <<calls, admitted, refused>>,
           clock' \in Nat, clock' >= clock,
           waiting' \in [Callers -> Nat \cup {Idle}],
           \A c \in Callers : waiting'[c] # Idle =>
               waiting'[c] <= clock' /\ clock' - waiting'[c] <= MaxStall
    PROVE  LimiterInv'
<1>1. /\ admitted \in Seq(Admission) /\ calls \in Seq(Nat) /\ clock \in Nat
      /\ Len(calls) <= Len(admitted)
  BY DEF LimiterInv, TypeOK
<1>2. TypeOK'
  BY DEF LimiterInv, TypeOK
<1>3. DequeIsTheEnd' /\ LimitInEveryWindow' /\ RefusalHasCause'
  BY DEF LimiterInv, DequeIsTheEnd, Lost, LimitInEveryWindow, AdmittedIn, RefusalHasCause
<1>4. LostAreOld'
  <2>1. ASSUME NEW i \in 1..Lost PROVE clock' - admitted[i].read > Window
    <3>1. i \in DOMAIN admitted /\ admitted[i].read \in Nat
      BY <1>1, AdmissionFields DEF LimiterInv, Lost
    <3>2. clock - admitted[i].read > Window
      BY DEF LimiterInv, LostAreOld
    <3>3. QED
      BY <1>1, <3>1, <3>2, ConstantsAssumption
  <2>2. QED
    BY <2>1 DEF LostAreOld, Lost
<1>5. StallsAreShort'
  <2>1. \A i \in DOMAIN admitted : admitted[i].at \in Nat
    BY AdmissionFields DEF LimiterInv
  <2>2. QED
    BY <1>1, <2>1 DEF LimiterInv, StallsAreShort
<1>6. RefusalIsPast'
  BY <1>1 DEF LimiterInv, TypeOK, RefusalIsPast, Never, Idle
<1>7. QED
  BY <1>2, <1>3, <1>4, <1>5, <1>6 DEF LimiterInv

LEMMA InvariantStep == LimiterInv /\ [Next]_vars => LimiterInv'
<1> SUFFICES ASSUME LimiterInv, [Next]_vars PROVE LimiterInv'
  OBVIOUS
<1>1. waiting \in [Callers -> Nat \cup {Idle}] /\ clock \in Nat
  BY DEF LimiterInv, TypeOK
<1>2. ASSUME NEW c \in Callers, ReadClock(c) PROVE LimiterInv'
  <2>1. waiting' \in [Callers -> Nat \cup {Idle}]
    BY <1>1, <1>2 DEF ReadClock
  <2>2. \A d \in Callers : waiting'[d] # Idle =>
            waiting'[d] <= clock' /\ clock' - waiting'[d] <= MaxStall
    BY <1>1, <1>2, ConstantsAssumption DEF ReadClock, LimiterInv, StallsAreShort
  <2>3. QED
    BY <1>1, <1>2, <2>1, <2>2, ClockStep DEF ReadClock
<1>3. ASSUME NEW c \in Callers, Check(c) PROVE LimiterInv'
  <2>1. /\ waiting[c] # Idle /\ waiting' = [waiting EXCEPT ![c] = Idle]
        /\ UNCHANGED clock
    BY <1>3 DEF Check
  <2>2. PICK k \in 0..Len(calls) :
           /\ Pops(waiting[c], k)
           /\ \/ /\ Full(Drop(calls, k))
                 /\ calls' = Drop(calls, k)
                 /\ refused' = [at |-> clock, after |-> Len(admitted)]
                 /\ UNCHANGED admitted
              \/ /\ ~Full(Drop(calls, k))
                 /\ calls' = Append(Drop(calls, k), waiting[c])
                 /\ admitted' = Append(admitted, [at |-> clock, read |-> waiting[c]])
                 /\ UNCHANGED refused
    BY <1>3 DEF Check, NotCounted
  <2>3. CASE Full(Drop(calls, k))
    BY <2>1, <2>2, <2>3, RefusalStep
  <2>4. CASE ~Full(Drop(calls, k))
    BY <2>1, <2>2, <2>4, AdmissionStep
  <2>5. QED
    BY <2>3, <2>4
<1>4. CASE Tick
  <2>1. \A d \in Callers : waiting'[d] # Idle =>
            waiting'[d] <= clock' /\ clock' - waiting'[d] <= MaxStall
    BY <1>1, <1>4, ConstantsAssumption DEF Tick, LimiterInv, StallsAreShort
  <2>2. QED
    BY <1>1, <1>4, <2>1, ClockStep DEF Tick
<1>5. CASE UNCHANGED vars
  <2>1. \A d \in Callers : waiting'[d] # Idle =>
            waiting'[d] <= clock' /\ clock' - waiting'[d] <= MaxStall
    BY <1>5 DEF vars, LimiterInv, StallsAreShort
  <2>2. QED
    BY <1>1, <1>5, <2>1, ClockStep DEF vars
<1>6. QED
  BY <1>2, <1>3, <1>4, <1>5 DEF Next

-----------------------------------------------------------------------------
(* The deque is always the end of the history of admissions, and what it   *)
(* has lost is older than the window: from this the limit follows.         *)
THEOREM Invariance == Spec => []LimiterInv
BY InitialInvariant, InvariantStep, PTL DEF Spec

(* The types, and a deque that never grows past the limit. *)
THEOREM TypeCorrect == Spec => []TypeOK
<1>1. LimiterInv => TypeOK
  BY DEF LimiterInv
<1>2. QED
  BY <1>1, Invariance, PTL

(* No process lets more than MaxCalls through in any window, but for what  *)
(* a thread held between its clock and the lock takes off the window.      *)
THEOREM LimitHolds == Spec => []WindowHolds
<1>1. LimiterInv => WindowHolds
  BY DEF LimiterInv, TypeOK, LimitInEveryWindow, WindowHolds
<1>2. QED
  BY <1>1, Invariance, PTL

(* A call is refused only if MaxCalls were let through within the window:  *)
(* refused calls do not count against the caller.                          *)
THEOREM RefusalsAreEarned == Spec => []RefusalHasCause
<1>1. LimiterInv => RefusalHasCause
  BY DEF LimiterInv
<1>2. QED
  BY <1>1, Invariance, PTL
=============================================================================
