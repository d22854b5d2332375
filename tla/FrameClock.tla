----------------------------- MODULE FrameClock -----------------------------
(***************************************************************************)
(* slot_division and the event "mac_slot_division" that main.c adds to the *)
(* timer queue and takes out again: the clock, main's way from its first   *)
(* call of slot_division to the subframe loop, and the SIGALRM handler     *)
(* stimer_queue_check, which runs slot_division on whatever thread it      *)
(* comes to, one that holds the queue's lock too.  The order of the queue  *)
(* is TimerQueue's; here it holds the slot event and the report that       *)
(* main.c adds first, whose time is left open.                             *)
(*                                                                         *)
(* Lengths are microseconds.  The clock moves through Instants, and starts *)
(* anew after a second, so that what is left of a wait is kept and not the *)
(* moment of its end.                                                      *)
(***************************************************************************)
EXTENDS Integers, FiniteSets

CONSTANTS frame_length,      (* 100000 *)
          second,            (* 1000000, the range of tv_usec *)
          Instants,          (* the moments at which something happens *)
          MaxLate            (* a lateness is not counted any further *)

subframe_length == 500
guard_time      == 30
SlotLength      == 12376     (* slot_length, in hundredths *)

ASSUME ClockAssumption ==
  /\ frame_length \in Nat \ {0} /\ frame_length % subframe_length = 0
  /\ frame_length <= 200 * subframe_length
  /\ second \in Nat \ {0} /\ second % frame_length = 0
  /\ second <= 10 * frame_length
  /\ Instants \subseteq 0 .. second - 1 /\ IsFiniteSet(Instants)
  /\ Instants # {}
  /\ MaxLate \in Nat

VARIABLES now,
          frame_t,               (* what the last slot_division published *)
          slot_division_period,  (* of the last slot_division *)
          delay,     (* delay_time of the slot event, None: not queued *)
          left,      (* until its out_time, negative when it is past *)
          report,    (* the report: queued, due or run *)
          timer,     (* what the interval timer was last set for *)
          lock,      (* Unlocked or <<thread, "call" or "alarm">> *)
          alarms,    (* the threads that SIGALRM's handler lies on *)
          main       (* where main is *)

queueVars == <<delay, left, report, timer>>
clockVars ==
  <<now, frame_t, slot_division_period, queueVars, lock, alarms, main>>

None  == -1
GUARD == 255        (* -1, as the u8 slot_num holds it *)

Thread == {"main", "UE", "other"}

Unlocked == <<"no thread", "none">>

-----------------------------------------------------------------------------
(* slot_division *)

InSubframe(t) == t % subframe_length

(* C's conversions truncate towards zero. *)
Truncated(n, d) == IF n < 0 THEN -((-n) \div d) ELSE n \div d

Hundredths(t) == 100 * (InSubframe(t) - guard_time)

SlotNum(t) == Truncated(Hundredths(t), SlotLength)

Slot_pastLength(t) == Truncated(Hundredths(t) - SlotNum(t) * SlotLength, 100)

Published(t, slot) ==
  [frame_num |-> t \div frame_length,
   sub_frame_num |-> (t % frame_length) \div subframe_length,
   slot_num |-> slot]

(* Mutant: the second reading is not taken. *)
slot_division_once(first, again) ==
  [frame |-> Published(first, SlotNum(first)),
   period |-> Truncated(SlotLength - 100 * Slot_pastLength(first), 100)]

(***************************************************************************)
(* The clock is read twice, unless the first reading is in the guard time. *)
(* minimumTimeAdvance_to_PHY is longer than a slot: nothing is ever sent,  *)
(* and the branches do the same.                                           *)
(***************************************************************************)
slot_division(first, again) ==
  IF InSubframe(first) >= guard_time
  THEN [frame |-> Published(again, SlotNum(again)),
        period |-> Truncated(SlotLength - 100 * Slot_pastLength(again), 100)]
  ELSE [frame |-> Published(first, GUARD),
        period |-> guard_time - InSubframe(first)]

-----------------------------------------------------------------------------
Frame == [frame_num : 0 .. 9, sub_frame_num : 0 .. 199,
          slot_num : 0 .. 3 \cup {GUARD}]

(* A slot and the guard time, in whole microseconds. *)
MaxPeriod == 153

(* Frame numbers of a second, and the period with which main starts. *)
ClockTypeOK ==
  /\ now \in Instants
  /\ frame_t \in Frame
  /\ slot_division_period \in 0 .. MaxPeriod \cup {400}
  /\ delay \in {None} \cup 0 .. MaxPeriod
  /\ left \in -MaxLate .. MaxPeriod
  /\ report \in {"queued", "due", "run"}
  /\ timer \in {"off", "slot", "report", "stale"}
  /\ lock \in {Unlocked} \cup (Thread \X {"call", "alarm"})
  /\ alarms \subseteq Thread
  /\ main \in {"divide", "add", "adding", "insert", "inserted", "sleep",
               "erase", "erased", "loop"}
  /\ main # "divide" => slot_division_period # 400

ClockInit ==
  /\ now \in Instants
  /\ frame_t = [frame_num |-> 0, sub_frame_num |-> 0, slot_num |-> 0]
  /\ slot_division_period = 400
  /\ delay = None /\ left = 0
  /\ report = "queued" /\ timer = "report"
  /\ lock = Unlocked /\ alarms = {}
  /\ main = "divide"

Following(t) ==
  LET later == {i \in Instants : i > t}
      least(S) == CHOOSE i \in S : \A j \in S : i <= j
  IN  IF later # {} THEN least(later) ELSE least(Instants)

(* What is left of the event's wait, which begins when main reads the clock
   to add it. *)
Left(elapsed, added) ==
  IF delay = None /\ main \notin {"adding", "insert"} THEN left
  ELSE IF left - elapsed + added < -MaxLate THEN -MaxLate
  ELSE left - elapsed + added

(* The clock comes to an instant, and the event's time moves on by added. *)
Passes(instant, added) ==
  /\ now' = instant
  /\ left' = Left((instant - now) % second, added)

(* A handler has the lock: queue_checking. *)
Checking == \E t \in alarms : lock = <<t, "alarm">>

Due == delay # None /\ left <= 0

(* While a handler is at work, time passes in its rounds. *)
Tick ==
  /\ ~Checking
  /\ Passes(Following(now), 0)
  /\ UNCHANGED <<frame_t, slot_division_period, delay, report, timer, lock,
                 alarms, main>>

(* A call of slot_division, its second reading here or at the next instant. *)
Divided(again, added) ==
  /\ Passes(again, added)
  /\ frame_t' = slot_division(now, again).frame
  /\ slot_division_period' = slot_division(now, again).period

Divide ==
  /\ main = "divide"
  /\ \E again \in {now, Following(now)} : Divided(again, 0)
  /\ main' = "add"
  /\ UNCHANGED <<delay, report, timer, lock, alarms>>

(* stimer_queue_add_us reads the clock, and waits until queue_checking is 0
   and the lock is free. *)
Add ==
  /\ main = "add"
  /\ left' = slot_division_period
  /\ main' = "adding"
  /\ UNCHANGED <<now, frame_t, slot_division_period, delay, report, timer, lock,
                 alarms>>

(* It locks; or stimer_queue_remove does, after usleep(1000), which every
   handler on main's thread cuts short. *)
MainLocks ==
  /\ \/ main = "adding" /\ main' = "insert"
     \/ main = "sleep" /\ main' = "erase"
  /\ lock = Unlocked
  /\ lock' = <<"main", "call">>
  /\ UNCHANGED <<now, frame_t, slot_division_period, queueVars, alarms>>

(* The timer is set if the queue was empty or the event is earlier than what
   the timer was set for, which is the report. *)
Insert ==
  /\ main = "insert"
  /\ delay' = slot_division_period
  /\ timer' \in {"slot"} \cup (IF report = "run" THEN {} ELSE {timer})
  /\ main' = "inserted"
  /\ UNCHANGED <<now, frame_t, slot_division_period, left, report, lock, alarms>>

(* stimer_queue_remove between its lock and unlock: the timer runs on. *)
Erase ==
  /\ delay' = None
  /\ left' = 0
  /\ timer' = IF timer = "slot" THEN "stale" ELSE timer

MainErases ==
  /\ main = "erase"
  /\ Erase
  /\ main' = "erased"
  /\ UNCHANGED <<now, frame_t, slot_division_period, report, lock, alarms>>

MainUnlocks ==
  /\ \/ main = "inserted" /\ main' = "sleep"
     \/ main = "erased" /\ main' = "loop"
  /\ lock' = Unlocked
  /\ UNCHANGED <<now, frame_t, slot_division_period, queueVars, alarms>>

(* SIGALRM: stimer_queue_check begins on any thread but one that it is on,
   where the signal is blocked. *)
Alarm ==
  /\ timer # "off"
  /\ timer = "slot" => left <= 0
  /\ \E t \in Thread \ alarms : alarms' = alarms \cup {t}
  /\ report' = IF timer = "report" /\ report = "queued" THEN "due" ELSE report
  /\ timer' = "off"
  /\ UNCHANGED <<now, frame_t, slot_division_period, delay, left, lock, main>>

(* It waits for the lock, for ever if its own thread has it. *)
AlarmLocks(t) ==
  /\ t \in alarms
  /\ lock = Unlocked
  /\ lock' = <<t, "alarm">>
  /\ UNCHANGED <<now, frame_t, slot_division_period, queueVars, alarms, main>>

(* Mutant: the event is inserted again with its old out_time. *)
RoundAgain ==
  /\ Checking /\ Due
  /\ Divided(now, 0)
  /\ UNCHANGED <<delay, report, timer, lock, alarms, main>>

(* One round of its loop: the slot event is due, is run and inserted again,
   which may take longer than its period. *)
Round ==
  /\ Checking /\ Due
  /\ \E again \in {now, Following(now)} : Divided(again, delay)
  /\ UNCHANGED <<delay, report, timer, lock, alarms, main>>

(* A round for the report, which is not inserted again. *)
Report ==
  /\ Checking /\ report = "due"
  /\ report' = "run"
  /\ UNCHANGED <<now, frame_t, slot_division_period, delay, left, timer, lock,
                 alarms, main>>

(* Nothing is due: the handler sets the timer for the first event, if there
   is one, and ends. *)
Return ==
  /\ ~Due /\ report # "due"
  /\ \E t \in alarms : lock = <<t, "alarm">> /\ alarms' = alarms \ {t}
  /\ lock' = Unlocked
  /\ LET queued == (IF delay # None THEN {"slot"} ELSE {})
                      \cup (IF report = "queued" THEN {"report"} ELSE {})
     IN  timer' \in IF queued = {} THEN {"off"} ELSE queued
  /\ UNCHANGED <<now, frame_t, slot_division_period, delay, left, report, main>>

(* main runs unless the handler is on its thread. *)
Main ==
  /\ "main" \notin alarms
  /\ Divide \/ Add \/ MainLocks \/ Insert \/ MainErases \/ MainUnlocks

Handler ==
  Alarm \/ (\E t \in Thread : AlarmLocks(t)) \/ Round \/ Report \/ Return

(* A handler waits for the lock that the thread it lies on has. *)
SelfLocked == \E t \in alarms : lock = <<t, "call">>

(* The handler lets a period pass before it has inserted the event again. *)
LongRound == Checking /\ Due /\ (now' - now) % second >= delay

-----------------------------------------------------------------------------
(* The slot of an instant, from the lengths: -1 in the guard time, and 123.76
   microseconds for each, the last one cut at the subframe's end. *)
TrueSlot(t) ==
  IF InSubframe(t) < guard_time THEN GUARD
  ELSE CHOOSE s \in 0 .. 3 :
         /\ 100 * (InSubframe(t) - guard_time) >= SlotLength * s
         /\ 100 * (InSubframe(t) - guard_time) < SlotLength * (s + 1)
=============================================================================
