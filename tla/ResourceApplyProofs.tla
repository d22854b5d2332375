------------------------ MODULE ResourceApplyProofs ------------------------
(***************************************************************************)
(* Proofs about ResourceApply and its clock, for every choice of instants, *)
(* every number of calls and of mallocs that fail: resources_apply takes   *)
(* no step of a request for another one's answer, and slot_division, whose *)
(* quotients are cut towards zero, publishes the slot that the clock is in.*)
(***************************************************************************)
EXTENDS ResourceApply, WellFoundedInduction, TLAPS

(* The flags go with the states of the loop. *)
Stages ==
  /\ ue \in {"out", "in", "remove", "erase", "erased"}
  /\ ue_state \in {"schedule_idle", "sr_snd", "bsr_snd", "data_snd"}
  /\ ue \notin {"out", "in"} =>
       ue_state = "sr_snd" /\ is_sr_sent /\ ~is_grant_received
  /\ ue_state = "bsr_snd" => is_grant_received

IInv == Stages /\ RequestInOrder

(* No flag is set in the beginning. *)
LEMMA InitInvariant == Init => IInv
  BY DEF Init, ClockInit, IInv, Stages, RequestInOrder

(* The clock, main and the handler set no flag. *)
LEMMA ClockStep == IInv /\ Clock => IInv'
<1> SUFFICES ASSUME IInv, Clock PROVE IInv'
  OBVIOUS
<1>1. UNCHANGED <<ue, ue_state, is_sr_sent, is_grant_received, is_bsr_sent,
                  is_TB_received, TB>>
  BY DEF Clock, ueVars, flags
<1> QED
  BY <1>1 DEF IInv, Stages, RequestInOrder

(* A step of the loop before the grant. *)
LEMMA RequestSteps ==
  ASSUME IInv,
         \/ Call \/ Gather \/ SendSR \/ GetGrant \/ NoMessage
         \/ RemoveLocks \/ RemoveErases \/ RemoveUnlocks
  PROVE  IInv'
<1>1. CASE Call
  BY <1>1 DEF Call, clockVars, queueVars, IInv, Stages, RequestInOrder
<1>2. CASE Gather
  BY <1>2 DEF Gather, clockVars, queueVars, flags, IInv, Stages, RequestInOrder
<1>3. CASE SendSR
  BY <1>3 DEF SendSR, clockVars, queueVars, IInv, Stages, RequestInOrder
<1>4. CASE RemoveLocks \/ RemoveUnlocks
  BY <1>4 DEF RemoveLocks, RemoveUnlocks, queueVars, flags, IInv, Stages, RequestInOrder
<1>5. CASE GetGrant
  BY <1>5 DEF GetGrant, clockVars, queueVars, IInv, Stages, RequestInOrder
<1>6. CASE NoMessage
  BY <1>6 DEF NoMessage, clockVars, queueVars, flags, IInv, Stages, RequestInOrder
<1>7. CASE RemoveErases
  BY <1>7 DEF RemoveErases, Erase, flags, IInv, Stages, RequestInOrder
<1> QED
  BY <1>1, <1>2, <1>3, <1>4, <1>5, <1>6, <1>7

(* A step of the loop from the grant on. *)
LEMMA ReportSteps ==
  ASSUME IInv, ToBSR \/ SendBSR \/ GetTB \/ Finish
  PROVE  IInv'
<1>1. CASE ToBSR
  BY <1>1 DEF ToBSR, clockVars, queueVars, flags, IInv, Stages, RequestInOrder
<1>2. CASE SendBSR
  BY <1>2 DEF SendBSR, clockVars, queueVars, IInv, Stages, RequestInOrder
<1>3. CASE GetTB
  BY <1>3 DEF GetTB, clockVars, queueVars, IInv, Stages, RequestInOrder
<1>4. CASE Finish
  BY <1>4 DEF Finish, clockVars, queueVars, flags, IInv, Stages, RequestInOrder
<1> QED
  BY <1>1, <1>2, <1>3, <1>4

(* Every step keeps the invariant. *)
LEMMA StepInvariant == IInv /\ [Next]_vars => IInv'
<1> SUFFICES ASSUME IInv, [Next]_vars PROVE IInv'
  OBVIOUS
<1>1. CASE Next
  BY <1>1, ClockStep, RequestSteps, ReportSteps DEF Next, UE
<1>2. CASE UNCHANGED vars
  BY <1>2 DEF vars, clockVars, queueVars, ueVars, flags, IInv, Stages, RequestInOrder
<1> QED
  BY <1>1, <1>2

(***************************************************************************)
(* A transport block comes after a report, a report after a grant, and a   *)
(* grant after a request that has stopped the timer.                       *)
(***************************************************************************)
THEOREM RequestsStayInOrder == Spec => []RequestInOrder
<1>1. IInv => RequestInOrder
  BY DEF IInv
<1> QED
  BY <1>1, InitInvariant, StepInvariant, PTL DEF Spec

-----------------------------------------------------------------------------
(* The slot clock *)

(* The period that the last reading of the clock gives. *)
PeriodAt(t) == Truncated(SlotLength - 100 * Slot_pastLength(t), 100)

(* The quotients of slot_division for a reading in a slot: the slot is the one
   whose interval the reading lies in, and the period ends with it. *)
LEMMA ReadInSlot ==
  ASSUME NEW t \in Nat, InSubframe(t) >= 30
  PROVE  /\ SlotNum(t) \in 0 .. 3 /\ TrueSlot(t) = SlotNum(t)
         /\ PeriodAt(t) \in 0 .. 123
         /\ 100 * (InSubframe(t) + PeriodAt(t)) >= 3000 + 12376 * (SlotNum(t) + 1) - 99
         /\ 100 * (InSubframe(t) + PeriodAt(t)) <= 3000 + 12376 * (SlotNum(t) + 1)
         /\ PeriodAt(t) = 0 <=>
              100 * InSubframe(t) > 3000 + 12376 * (SlotNum(t) + 1) - 100
<1> DEFINE x == InSubframe(t)
           h == 100 * (x - 30)
           s == h \div 12376
           w == h - s * 12376
           p == w \div 100
           e == (12376 - 100 * p) \div 100
<1>1. x \in 30 .. 499
  BY DEF InSubframe, subframe_length
<1> HIDE DEF x
<1>2. Hundredths(t) = h
  BY DEF Hundredths, guard_time, x
<1>3. h \in Nat /\ h <= 46900
  BY <1>1
<1>4. SlotNum(t) = s
  BY <1>2, <1>3 DEF SlotNum, Truncated, SlotLength
<1>5. s \in 0 .. 3 /\ 12376 * s <= h /\ h < 12376 * (s + 1)
  BY <1>3
<1>6. Slot_pastLength(t) = p
  BY <1>2, <1>3, <1>4, <1>5 DEF Slot_pastLength, Truncated, SlotLength
<1>7. p \in 0 .. 123 /\ 100 * p <= w /\ w <= 100 * p + 99
  <2>1. w \in 0 .. 12375
    <3> HIDE DEF s
    <3>1. h \in Int /\ s \in Int
      BY <1>3, <1>5
    <3> HIDE DEF h
    <3> QED
      BY <1>5, <3>1
  <2> HIDE DEF w
  <2>2. 100 * p <= w /\ w <= 100 * p + 99 /\ p \in Int
    BY <2>1
  <2> HIDE DEF p
  <2>3. w \in Int /\ 0 <= w /\ w <= 12375
    BY <2>1
  <2>4. 100 * p <= 12375 /\ 0 <= 100 * p + 99
    BY <2>2, <2>3
  <2>5. p \in 0 .. 123
    BY <2>2, <2>4
  <2> QED
    BY <2>2, <2>5
<1>8. PeriodAt(t) = e
  BY <1>6, <1>7 DEF PeriodAt, Truncated, SlotLength
<1>9. TrueSlot(t) = s
  <2> DEFINE In(a) == 100 * (x - 30) >= 12376 * a /\ 100 * (x - 30) < 12376 * (a + 1)
  <2>1. In(s)
    BY <1>5
  <2>2. \A a \in 0 .. 3 : In(a) => a = s
    <3> HIDE DEF s
    <3>1. h \in Int /\ s \in Int
      BY <1>3, <1>5
    <3> SUFFICES ASSUME NEW a \in 0 .. 3, 12376 * a <= h, h < 12376 * (a + 1)
                 PROVE  a = s
      BY <1>1
    <3> HIDE DEF h
    <3> QED
      BY <1>5, <3>1
  <2>3. TrueSlot(t) = CHOOSE a \in 0 .. 3 : In(a)
    BY <1>1 DEF TrueSlot, SlotLength, guard_time, x
  <2> HIDE DEF In, s
  <2> QED
    BY <1>5, <2>1, <2>2, <2>3
<1>10. /\ e \in 0 .. 123
       /\ 100 * (x + e) >= 3000 + 12376 * (s + 1) - 99
       /\ 100 * (x + e) <= 3000 + 12376 * (s + 1)
       /\ e = 0 <=> 100 * x > 3000 + 12376 * (s + 1) - 100
  <2>1. e = 123 - p
    BY <1>7
  <2>2. 100 * p <= h - s * 12376 /\ h - s * 12376 <= 100 * p + 99
    BY <1>7
  <2>3. s = 0 \/ s = 1 \/ s = 2 \/ s = 3
    BY <1>5
  <2> HIDE DEF s, p, e
  <2>4. CASE s = 0
    BY <1>1, <1>7, <2>1, <2>2, <2>4
  <2>5. CASE s = 1
    BY <1>1, <1>7, <2>1, <2>2, <2>5
  <2>6. CASE s = 2
    BY <1>1, <1>7, <2>1, <2>2, <2>6
  <2>7. CASE s = 3
    BY <1>1, <1>7, <2>1, <2>2, <2>7
  <2> QED
    BY <2>3, <2>4, <2>5, <2>6, <2>7
<1> HIDE DEF s, e
<1> QED
  BY <1>4, <1>5, <1>8, <1>9, <1>10 DEF x

(* And for a reading in the guard time: quotients of negative numbers are
   cut towards zero. *)
LEMMA ReadInGuard ==
  ASSUME NEW t \in Nat, InSubframe(t) < 30
  PROVE  /\ InSubframe(t) \in 0 .. 29 /\ TrueSlot(t) = GUARD
         /\ SlotNum(t) = 0
         /\ PeriodAt(t) = 153 - InSubframe(t)
<1> DEFINE x == InSubframe(t)
           h == 100 * (x - 30)
<1>1. x \in 0 .. 29
  BY DEF InSubframe, subframe_length
<1> HIDE DEF x
<1>2. Hundredths(t) = h
  BY DEF Hundredths, guard_time, x
<1>3. SlotNum(t) = 0
  BY <1>1, <1>2 DEF SlotNum, Truncated, SlotLength
<1>4. Slot_pastLength(t) = x - 30
  BY <1>1, <1>2, <1>3 DEF Slot_pastLength, Truncated, SlotLength
<1>5. PeriodAt(t) = 153 - x
  BY <1>1, <1>4 DEF PeriodAt, Truncated, SlotLength
<1>6. TrueSlot(t) = GUARD
  BY <1>1 DEF TrueSlot, guard_time, x
<1> QED
  BY <1>1, <1>3, <1>5, <1>6 DEF x

(* What a call of slot_division gives, its readings somewhere in a second. *)
LEMMA DivisionIs ==
  ASSUME NEW first \in 0 .. second - 1, NEW again \in 0 .. second - 1
  PROVE  /\ slot_division(first, again).frame \in Frame
         /\ slot_division(first, again).period \in 0 .. MaxPeriod
<1>1. /\ second \in Nat /\ frame_length \in Nat /\ frame_length > 0
      /\ frame_length <= 200 * 500 /\ second <= 10 * frame_length
  BY ClockAssumption DEF subframe_length
<1>2. ASSUME NEW t \in 0 .. second - 1, NEW slot \in 0 .. 3 \cup {GUARD}
      PROVE  Published(t, slot) \in Frame
  <2>1. t \in Nat /\ t < 10 * frame_length
    BY <1>1
  <2>2. t \div frame_length \in 0 .. 9
    <3>1. t \div frame_length \in Nat
      BY <1>1, <2>1
    <3>2. t \div frame_length <= 9
      BY <1>1, <2>1
    <3> QED
      BY <3>1, <3>2
  <2>3. (t % frame_length) \div subframe_length \in 0 .. 199
    <3> DEFINE u == t % frame_length
    <3>1. u \in 0 .. frame_length - 1
      BY <1>1, <2>1
    <3> HIDE DEF u
    <3>2. u \in Nat /\ u < 200 * 500
      BY <1>1, <3>1
    <3>3. u \div 500 \in Int /\ 500 * (u \div 500) <= u /\ 0 <= u \div 500
      BY <3>2
    <3> DEFINE v == u \div 500
    <3> HIDE DEF v
    <3>4. v \in 0 .. 199
      BY <3>2, <3>3 DEF v
    <3> QED
      BY <3>4 DEF u, v, subframe_length
  <2> QED
    BY <2>2, <2>3 DEF Published, Frame
<1>3. first \in Nat /\ again \in Nat
  BY <1>1
<1>4. SlotNum(again) \in 0 .. 3 /\ PeriodAt(again) \in 0 .. 153
  <2>1. CASE InSubframe(again) >= 30
    BY <1>3, <2>1, ReadInSlot
  <2>2. CASE InSubframe(again) < 30
    BY <1>3, <2>2, ReadInGuard
  <2>3. InSubframe(again) \in Int
    BY <1>3 DEF InSubframe, subframe_length
  <2> QED
    BY <2>1, <2>2, <2>3
<1>5. CASE InSubframe(first) >= 30
  <2>1. slot_division(first, again) = [frame |-> Published(again, SlotNum(again)),
                                       period |-> PeriodAt(again)]
    BY <1>5 DEF slot_division, guard_time, PeriodAt
  <2> QED
    BY <1>2, <1>4, <2>1 DEF MaxPeriod
<1>6. CASE InSubframe(first) < 30
  <2>1. slot_division(first, again) = [frame |-> Published(first, GUARD),
                                       period |-> 30 - InSubframe(first)]
    <3>1. ~ (InSubframe(first) >= 30)
      BY <1>3, <1>6 DEF InSubframe, subframe_length
    <3> QED
      BY <3>1 DEF slot_division, guard_time
  <2>2. 30 - InSubframe(first) \in 0 .. 153
    BY <1>3, <1>6, ReadInGuard
  <2> QED
    BY <1>2, <2>1, <2>2 DEF MaxPeriod
<1> QED
  BY <1>3, <1>5, <1>6 DEF InSubframe, subframe_length

(* The next instant is one of the instants. *)
LEMMA FollowingIs == ASSUME NEW t \in Instants PROVE Following(t) \in Instants
<1> DEFINE LessThan == {p \in Nat \X Nat : p[1] < p[2]}
           least(S) == CHOOSE n \in S : \A m \in S : n <= m
           later == {n \in Instants : n > t}
<1>1. Instants \subseteq Nat /\ Instants # {}
  BY ClockAssumption
<1>2. ASSUME NEW S, S \subseteq Instants, S # {} PROVE least(S) \in S
  <2>1. IsWellFoundedOn(LessThan, Nat)
    BY NatLessThanWellFounded DEF OpToRel
  <2>2. S \subseteq Nat
    BY <1>1, <1>2
  <2> HIDE DEF LessThan
  <2>3. PICK n \in S : \A m \in S : ~ (<<m, n>> \in LessThan)
    BY <1>2, <2>1, <2>2, WFMin
  <2>4. \A m \in S : ~ (m < n)
    BY <2>2, <2>3 DEF LessThan
  <2>5. \A m \in S : n <= m
    BY <2>2, <2>4
  <2> QED
    BY <2>5
<1>3. Following(t) = IF later # {} THEN least(later) ELSE least(Instants)
  BY DEF Following
<1> HIDE DEF least
<1>4. CASE later # {}
  <2>1. later \subseteq Instants
    OBVIOUS
  <2> HIDE DEF later
  <2> QED
    BY <1>2, <1>3, <1>4, <2>1
<1>5. CASE later = {}
  BY <1>1, <1>2, <1>3, <1>5
<1> QED
  BY <1>4, <1>5

(* Instants lie in a second. *)
LEMMA InstantsAre ==
  /\ second \in Nat /\ MaxLate \in Nat /\ Instants \subseteq 0 .. second - 1
  /\ Instants \subseteq Nat /\ Instants # {}
  BY ClockAssumption

(* The clock and the wait for the event move on together, the latter no
   further than the lateness that is counted. *)
LEMMA PassesIs ==
  ASSUME ClockTypeOK, NEW instant \in Instants, NEW added \in 0 .. MaxPeriod,
         Passes(instant, added), left + added <= MaxPeriod
  PROVE  now' \in Instants /\ left' \in -MaxLate .. MaxPeriod
<1> DEFINE elapsed == (instant - now) % second
<1>1. now' = instant /\ left' = Left(elapsed, added)
  BY DEF Passes
<1>2. /\ now \in Nat /\ instant \in Nat /\ second \in Nat /\ second > 0
      /\ MaxLate \in Nat /\ left \in -MaxLate .. 153 /\ added \in 0 .. 153
  BY InstantsAre, ClockAssumption DEF ClockTypeOK, MaxPeriod
<1>3. elapsed \in Nat
  <2>1. ASSUME NEW n \in Int PROVE n % second \in Nat
    BY <1>2
  <2> QED
    BY <1>2, <2>1
<1> HIDE DEF elapsed
<1>4. Left(elapsed, added) \in -MaxLate .. 153
  BY <1>2, <1>3 DEF Left, MaxPeriod
<1> QED
  BY <1>1, <1>4 DEF MaxPeriod

(* A reading of the clock is one of the instants. *)
LEMMA DividedIs ==
  ASSUME ClockTypeOK, NEW again \in {now, Following(now)},
         NEW added \in 0 .. MaxPeriod, Divided(again, added),
         left + added <= MaxPeriod
  PROVE  /\ now' \in Instants /\ left' \in -MaxLate .. MaxPeriod
         /\ frame_t' \in Frame /\ slot_division_period' \in 0 .. MaxPeriod
<1>1. now \in Instants /\ again \in Instants
  BY FollowingIs DEF ClockTypeOK
<1>2. now' \in Instants /\ left' \in -MaxLate .. MaxPeriod
  BY <1>1, PassesIs DEF Divided
<1>3. /\ slot_division(now, again).frame \in Frame
      /\ slot_division(now, again).period \in 0 .. MaxPeriod
  BY <1>1, InstantsAre, DivisionIs
<1> QED
  BY <1>2, <1>3 DEF Divided

(* The types of the clock at the start. *)
LEMMA ClockInitTyped == Init => ClockTypeOK
<1> SUFFICES ASSUME Init PROVE ClockTypeOK
  OBVIOUS
<1>1. 0 \in -MaxLate .. MaxPeriod
  BY InstantsAre DEF MaxPeriod
<1> QED
  BY <1>1 DEF Init, ClockInit, ClockTypeOK, Frame

(* The clock's steps and main's keep them; main adds its event with a period
   that slot_division has given. *)
LEMMA MainStepTyped == ClockTypeOK /\ (Tick \/ Main) => ClockTypeOK'
<1> SUFFICES ASSUME ClockTypeOK, Tick \/ Main PROVE ClockTypeOK'
  OBVIOUS
<1>1. left + 0 <= MaxPeriod /\ 0 \in 0 .. MaxPeriod
  BY InstantsAre DEF ClockTypeOK, MaxPeriod
<1>2. CASE Tick
  <2>1. now' \in Instants /\ left' \in -MaxLate .. MaxPeriod
    BY <1>1, <1>2, FollowingIs, PassesIs DEF Tick, ClockTypeOK
  <2> QED
    BY <1>2, <2>1 DEF Tick, ClockTypeOK
<1>3. CASE Divide
  <2>1. PICK again \in {now, Following(now)} : Divided(again, 0)
    BY <1>3 DEF Divide
  <2>2. /\ now' \in Instants /\ left' \in -MaxLate .. MaxPeriod
        /\ frame_t' \in Frame /\ slot_division_period' \in 0 .. MaxPeriod
    BY <1>1, <2>1, DividedIs
  <2> QED
    BY <1>3, <2>2 DEF Divide, ClockTypeOK, MaxPeriod
<1>4. main # "divide" => /\ slot_division_period \in 0 .. MaxPeriod
                         /\ slot_division_period \in -MaxLate .. MaxPeriod
  BY InstantsAre DEF ClockTypeOK, MaxPeriod
<1>5. CASE Add
  BY <1>4, <1>5 DEF Add, ClockTypeOK
<1>6. CASE MainLocks
  BY <1>6 DEF MainLocks, queueVars, ClockTypeOK, Thread
<1>7. CASE Insert
  BY <1>4, <1>7 DEF Insert, ClockTypeOK
<1>8. CASE MainErases
  BY <1>8, InstantsAre DEF MainErases, Erase, ClockTypeOK, MaxPeriod
<1>9. CASE MainUnlocks
  BY <1>9 DEF MainUnlocks, queueVars, ClockTypeOK
<1> QED
  BY <1>2, <1>3, <1>5, <1>6, <1>7, <1>8, <1>9 DEF Main

(* So do the handler's. *)
LEMMA HandlerStepTyped == ClockTypeOK /\ Handler => ClockTypeOK'
<1> SUFFICES ASSUME ClockTypeOK, Handler PROVE ClockTypeOK'
  OBVIOUS
<1>1. CASE Alarm
  BY <1>1 DEF Alarm, ClockTypeOK
<1>2. CASE \E t \in Thread : AlarmLocks(t)
  BY <1>2 DEF AlarmLocks, queueVars, ClockTypeOK
<1>3. CASE Round
  <2>1. PICK again \in {now, Following(now)} : Divided(again, delay)
    BY <1>3 DEF Round
  <2>2. delay \in 0 .. MaxPeriod /\ left + delay <= MaxPeriod
    BY <1>3, InstantsAre DEF Round, Due, ClockTypeOK, MaxPeriod
  <2>3. /\ now' \in Instants /\ left' \in -MaxLate .. MaxPeriod
        /\ frame_t' \in Frame /\ slot_division_period' \in 0 .. MaxPeriod
    BY <2>1, <2>2, DividedIs
  <2> QED
    BY <1>3, <2>3 DEF Round, ClockTypeOK, MaxPeriod
<1>4. CASE Report
  BY <1>4 DEF Report, ClockTypeOK
<1>5. CASE Return
  BY <1>5 DEF Return, ClockTypeOK
<1> QED
  BY <1>1, <1>2, <1>3, <1>4, <1>5 DEF Handler

(* And every step. *)
LEMMA ClockStepTyped == ClockTypeOK /\ [Next]_vars => ClockTypeOK'
<1> SUFFICES ASSUME ClockTypeOK, [Next]_vars PROVE ClockTypeOK'
  OBVIOUS
<1>1. UNCHANGED clockVars => ClockTypeOK'
  BY DEF clockVars, queueVars, ClockTypeOK
<1>2. CASE Clock
  BY <1>2, MainStepTyped, HandlerStepTyped DEF Clock
<1>3. CASE Call \/ Gather \/ SendSR \/ GetGrant \/ ToBSR \/ SendBSR \/ GetTB
           \/ Finish \/ NoMessage
  BY <1>1, <1>3 DEF Call, Gather, SendSR, GetGrant, ToBSR, SendBSR, GetTB, Finish, NoMessage
<1>4. CASE RemoveLocks \/ RemoveUnlocks
  <2>1. UNCHANGED <<now, frame_t, slot_division_period, queueVars, alarms, main>>
    BY <1>4 DEF RemoveLocks, RemoveUnlocks
  <2>2. lock' \in {Unlocked, <<"UE", "call">>}
    BY <1>4 DEF RemoveLocks, RemoveUnlocks
  <2> QED
    BY <2>1, <2>2 DEF queueVars, ClockTypeOK, Thread
<1>5. CASE RemoveErases
  BY <1>5, InstantsAre DEF RemoveErases, Erase, ClockTypeOK, MaxPeriod
<1>6. CASE UNCHANGED vars
  BY <1>1, <1>6 DEF vars
<1> QED
  BY <1>2, <1>3, <1>4, <1>5, <1>6 DEF Next, UE

(***************************************************************************)
(* Frame, subframe and slot numbers are those of a second, the slot -1 in  *)
(* its u8; and after main's first call of slot_division the period is      *)
(* never more than a slot and the guard time, whatever it began with.      *)
(***************************************************************************)
THEOREM ClockIsTyped == Spec => []ClockTypeOK
  BY ClockInitTyped, ClockStepTyped, PTL DEF Spec

(***************************************************************************)
(* For readings of the clock at any two instants of a second: the slot     *)
(* that slot_division publishes is the one its last reading lies in, and   *)
(* the period leads to the slot's end, or is zero just before it.          *)
(***************************************************************************)
THEOREM SlotsAreTrue == Spec => SlotOfInstant
<1>1. ASSUME ClockTypeOK, Divide \/ Round
      PROVE  LET last == IF TrueSlot(now) = GUARD THEN now ELSE now'
                 slot == IF TrueSlot(last) = GUARD /\ TrueSlot(now) # GUARD THEN 0
                         ELSE TrueSlot(last)
                 end == IF slot = GUARD THEN 3000 ELSE 3000 + SlotLength * (slot + 1)
             IN  /\ frame_t'.slot_num = slot
                 /\ 100 * (InSubframe(last) + slot_division_period') \in end - 99 .. end
                 /\ slot_division_period' = 0 <=>
                      slot # GUARD /\ 100 * InSubframe(last) > end - 100
  <2>1. PICK again \in {now, Following(now)} :
               /\ now' = again
               /\ frame_t' = slot_division(now, again).frame
               /\ slot_division_period' = slot_division(now, again).period
    BY <1>1 DEF Divide, Round, Divided, Passes
  <2>2. now \in Nat /\ again \in Nat
    BY <1>1, FollowingIs, InstantsAre DEF ClockTypeOK
  <2>3. CASE InSubframe(now) < 30
    <3>1. InSubframe(now) \in 0 .. 29 /\ TrueSlot(now) = GUARD
      BY <2>2, <2>3, ReadInGuard
    <3>2. slot_division(now, again) = [frame |-> Published(now, GUARD),
                                       period |-> 30 - InSubframe(now)]
      <4>1. ~ (InSubframe(now) >= 30)
        BY <3>1
      <4> QED
        BY <4>1 DEF slot_division, guard_time
    <3>3. frame_t'.slot_num = GUARD /\ slot_division_period' = 30 - InSubframe(now)
      BY <2>1, <3>2 DEF Published
    <3>4. /\ 100 * (InSubframe(now) + slot_division_period') = 3000
          /\ slot_division_period' # 0
      BY <3>1, <3>3
    <3> QED
      BY <3>1, <3>3, <3>4
  <2>4. CASE InSubframe(now) >= 30
    <3>1. TrueSlot(now) \in 0 .. 3 /\ GUARD \notin 0 .. 3
      BY <2>2, <2>4, ReadInSlot DEF GUARD
    <3>2. slot_division(now, again) = [frame |-> Published(again, SlotNum(again)),
                                       period |-> PeriodAt(again)]
      BY <2>4 DEF slot_division, guard_time, PeriodAt
    <3>3. frame_t'.slot_num = SlotNum(again) /\ slot_division_period' = PeriodAt(again)
      BY <2>1, <3>2 DEF Published
    <3>4. CASE InSubframe(again) >= 30
      <4> DEFINE s == SlotNum(again)
                 x == InSubframe(again)
                 e == PeriodAt(again)
      <4>1. /\ s \in 0 .. 3 /\ TrueSlot(again) = s /\ e \in 0 .. 123
            /\ 100 * (x + e) >= 3000 + 12376 * (s + 1) - 99
            /\ 100 * (x + e) <= 3000 + 12376 * (s + 1)
            /\ e = 0 <=> 100 * x > 3000 + 12376 * (s + 1) - 100
        BY <2>2, <3>4, ReadInSlot
      <4>2. x \in Int
        BY <2>2 DEF InSubframe, subframe_length
      <4>3. frame_t'.slot_num = s /\ slot_division_period' = e
        BY <3>3
      <4> HIDE DEF s, x, e
      <4>4. 100 * (x + e) \in (3000 + 12376 * (s + 1)) - 99 .. 3000 + 12376 * (s + 1)
        BY <4>1, <4>2
      <4>5. s # GUARD
        BY <3>1, <4>1
      <4> QED
        BY <2>1, <3>1, <4>1, <4>3, <4>4, <4>5 DEF x, SlotLength
    <3>5. CASE InSubframe(again) < 30
      <4>1. /\ InSubframe(again) \in 0 .. 29 /\ TrueSlot(again) = GUARD
            /\ SlotNum(again) = 0 /\ PeriodAt(again) = 153 - InSubframe(again)
        BY <2>2, <3>5, ReadInGuard
      <4>2. frame_t'.slot_num = 0 /\ 0 # GUARD
        BY <3>1, <3>3, <4>1
      <4>3. /\ 100 * (InSubframe(again) + slot_division_period') = 15300
            /\ slot_division_period' # 0
            /\ ~ (100 * InSubframe(again) > (3000 + 12376 * (0 + 1)) - 100)
            /\ 15300 \in (3000 + 12376 * (0 + 1)) - 99 .. 3000 + 12376 * (0 + 1)
        BY <3>3, <4>1
      <4> QED
        BY <2>1, <3>1, <4>1, <4>2, <4>3 DEF SlotLength
    <3>6. InSubframe(again) \in Int
      BY <2>2 DEF InSubframe, subframe_length
    <3> QED
      BY <3>4, <3>5, <3>6
  <2>5. InSubframe(now) \in Int
    BY <2>2 DEF InSubframe, subframe_length
  <2> QED
    BY <2>3, <2>4, <2>5
<1> QED
  BY <1>1, ClockIsTyped, PTL DEF Spec, SlotOfInstant
=============================================================================
