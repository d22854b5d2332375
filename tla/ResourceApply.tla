--------------------------- MODULE ResourceApply ----------------------------
(***************************************************************************)
(* resources_apply: the UE's way from its logical channels' data over a    *)
(* scheduling request, a grant and a buffer status report to a transport   *)
(* block.  It reads the slot that slot_division publishes from the timer's *)
(* handler, and stops that timer with its request.  The steps are those of *)
(* the loop; it runs on a thread of its own, "UE", whenever it is called.  *)
(***************************************************************************)
EXTENDS FrameClock, GrantTables

CONSTANTS MaxCalls,      (* bound on the calls of resources_apply *)
          MaxFailures    (* bound on the mallocs that fail *)

ASSUME ApplyAssumption == MaxCalls \in Nat /\ MaxFailures \in Nat

VARIABLES ue,         (* where resources_apply is *)
          ue_state,
          is_sr_sent, is_grant_received, is_bsr_sent, is_TB_received,
          BSR,        (* the sums of the two groups *)
          TB,         (* mac_ue_info->TB *)
          calls, failures

flags == <<is_sr_sent, is_grant_received, is_bsr_sent, is_TB_received>>
ueVars == <<ue, ue_state, flags, BSR, TB, calls, failures>>
vars == <<clockVars, ueVars>>

SR_PERIOD      == 2
SR_OFFSET      == 0
slot_per_frame == 800

TypeOK ==
  /\ ClockTypeOK
  /\ ue \in {"out", "in", "remove", "erase", "erased"}
  /\ ue_state \in {"schedule_idle", "sr_snd", "bsr_snd", "data_snd"}
  /\ \A i \in DOMAIN flags : flags[i] \in BOOLEAN
  /\ BSR \in [1 .. 2 -> 0 .. 255]
  /\ TB \in 0 .. 255
  /\ calls \in 0 .. MaxCalls
  /\ failures \in 0 .. MaxFailures

Init ==
  /\ ClockInit
  /\ ue = "out" /\ ue_state = "schedule_idle"
  /\ is_sr_sent = FALSE /\ is_grant_received = FALSE
  /\ is_bsr_sent = FALSE /\ is_TB_received = FALSE
  /\ BSR = <<0, 0>> /\ TB = 0
  /\ calls = 0 /\ failures = 0

-----------------------------------------------------------------------------
(* The call: init_logical and the flags. *)
Call ==
  /\ ue = "out" /\ calls < MaxCalls
  /\ calls' = calls + 1
  /\ ue' = "in" /\ ue_state' = "schedule_idle"
  /\ is_sr_sent' = FALSE /\ is_grant_received' = FALSE
  /\ is_bsr_sent' = FALSE /\ is_TB_received' = FALSE
  /\ TB' = 0
  /\ UNCHANGED <<clockVars, BSR, failures>>

(* schedule_idle *)
Gather ==
  /\ ue = "in" /\ ue_state = "schedule_idle"
  /\ BSR' = mac_status_logicalgroup_data
  /\ ue_state' = IF logicalchannelSR_mask THEN "sr_snd" ELSE ue_state
  /\ UNCHANGED <<clockVars, ue, flags, TB, calls, failures>>

(* sfn_sf is a u16, and it counts the frame's 800 slots but adds the slot of
   a subframe. *)
SR_slot ==
  LET sfn_sf == (frame_t.frame_num * slot_per_frame + frame_t.slot_num) % 65536
  IN  (sfn_sf - SR_OFFSET) % SR_PERIOD = 0

(* trigger_SR in a slot of the period; its counter is a parameter that is
   always 0, below sr_trans_max.  In another slot it does nothing. *)
SendSR ==
  /\ ue = "in" /\ ue_state = "sr_snd"
  /\ ~is_grant_received /\ ~is_sr_sent
  /\ SR_slot
  /\ is_sr_sent' = TRUE
  /\ ue' = "remove"
  /\ UNCHANGED <<clockVars, ue_state, is_grant_received, is_bsr_sent,
                 is_TB_received, BSR, TB, calls, failures>>

(* Its stimer_queue_remove: it locks, *)
RemoveLocks ==
  /\ ue = "remove"
  /\ lock = Unlocked
  /\ lock' = <<"UE", "call">>
  /\ ue' = "erase"
  /\ UNCHANGED <<now, frame_t, slot_division_period, queueVars, alarms, main,
                 ue_state, flags, BSR, TB, calls, failures>>

(* erases the event if it is there, *)
RemoveErases ==
  /\ ue = "erase"
  /\ Erase
  /\ ue' = "erased"
  /\ UNCHANGED <<now, frame_t, slot_division_period, report, lock, alarms, main,
                 ue_state, flags, BSR, TB, calls, failures>>

(* and unlocks. *)
RemoveUnlocks ==
  /\ ue = "erased"
  /\ lock' = Unlocked
  /\ ue' = "in"
  /\ UNCHANGED <<now, frame_t, slot_division_period, queueVars, alarms, main,
                 ue_state, flags, BSR, TB, calls, failures>>

(* malloc fails in GET_PDCCH_DCI_SR or GET_PDCCH_DCI_BSR: another round. *)
NoMessage ==
  /\ ue = "in" /\ failures < MaxFailures
  /\ \/ ue_state = "sr_snd" /\ is_sr_sent /\ ~is_grant_received
     \/ ue_state = "bsr_snd" /\ is_bsr_sent /\ ~is_TB_received
  /\ failures' = failures + 1
  /\ UNCHANGED <<clockVars, ue, ue_state, flags, BSR, TB, calls>>

GetGrant ==
  /\ ue = "in" /\ ue_state = "sr_snd"
  /\ is_sr_sent /\ ~is_grant_received
  /\ is_grant_received' = TRUE
  /\ UNCHANGED <<clockVars, ue, ue_state, is_sr_sent, is_bsr_sent,
                 is_TB_received, BSR, TB, calls, failures>>

ToBSR ==
  /\ ue = "in" /\ ue_state = "sr_snd"
  /\ is_grant_received
  /\ ue_state' = "bsr_snd"
  /\ UNCHANGED <<clockVars, ue, flags, BSR, TB, calls, failures>>

(* Mutant: the report is taken for the answer to it. *)
SendBSRReceived ==
  /\ ue = "in" /\ ue_state = "bsr_snd"
  /\ ~is_TB_received /\ ~is_bsr_sent
  /\ is_TB_received' = TRUE
  /\ UNCHANGED <<clockVars, ue, ue_state, is_sr_sent, is_grant_received,
                 is_bsr_sent, BSR, TB, calls, failures>>

(* The room in the grant is compared with the size of a pointer, 8. *)
SendBSR ==
  /\ ue = "in" /\ ue_state = "bsr_snd"
  /\ ~is_TB_received /\ ~is_bsr_sent
  /\ LET ul_grant == handle_DCI(GET_PDCCH_DCI)
     IN  is_bsr_sent' =
           (cal_RB_carry_capacity(ul_grant.MCS) * 8 * ul_grant.RBG >= 8)
  /\ UNCHANGED <<clockVars, ue, ue_state, is_sr_sent, is_grant_received,
                 is_TB_received, BSR, TB, calls, failures>>

(* Mutant: only the flag that handle_DCI sets. *)
GetTBGrantOnly ==
  /\ ue = "in" /\ ue_state = "bsr_snd"
  /\ is_bsr_sent /\ ~is_TB_received
  /\ is_grant_received' = TRUE
  /\ UNCHANGED <<clockVars, ue, ue_state, is_sr_sent, is_bsr_sent,
                 is_TB_received, BSR, TB, calls, failures>>

(* handle_DCI sets is_grant_received once more. *)
GetTB ==
  /\ ue = "in" /\ ue_state = "bsr_snd"
  /\ is_bsr_sent /\ ~is_TB_received
  /\ is_grant_received' = TRUE /\ is_TB_received' = TRUE
  /\ UNCHANGED <<clockVars, ue, ue_state, is_sr_sent, is_bsr_sent, BSR, TB,
                 calls, failures>>

(* TB is set, and the loop ends if it is not 0. *)
Finish ==
  /\ ue = "in" /\ ue_state = "bsr_snd"
  /\ is_TB_received
  /\ TB' = handle_DCI(GET_PDCCH_DCI).RBG
  /\ ue_state' = "data_snd"
  /\ ue' = IF TB' = 0 THEN "in" ELSE "out"
  /\ UNCHANGED <<clockVars, flags, BSR, calls, failures>>

(* The UE's thread runs unless the handler is on it. *)
UE == /\ "UE" \notin alarms
      /\ \/ Gather \/ SendSR \/ RemoveLocks \/ RemoveErases \/ RemoveUnlocks
         \/ GetGrant \/ ToBSR \/ SendBSR \/ GetTB \/ Finish

Clock == /\ Tick \/ Main \/ Handler
         /\ UNCHANGED ueVars

Next == Clock \/ UE \/ ("UE" \notin alarms /\ (Call \/ NoMessage))

(***************************************************************************)
(* The clock moves, SIGALRM is taken when it has come, and a handler that  *)
(* has the lock goes on.  A thread that handlers interrupt, or that waits  *)
(* for the lock, gets on if it can again and again: what is between two    *)
(* handlers is time for it.                                                *)
(***************************************************************************)
Fairness ==
  /\ WF_vars(Tick /\ UNCHANGED ueVars)
  /\ WF_vars(Handler /\ UNCHANGED ueVars)
  /\ \A t \in {"main", "UE"} : SF_vars(AlarmLocks(t) /\ UNCHANGED ueVars)
  /\ SF_vars(Main /\ UNCHANGED ueVars)
  /\ SF_vars(UE)

Spec == Init /\ [][Next]_vars /\ Fairness

-----------------------------------------------------------------------------
(***************************************************************************)
(* No step of the request is taken for another one's answer: a transport   *)
(* block comes after the report, the report after the grant, and the grant *)
(* after the request and after its call of the timer queue has returned.   *)
(***************************************************************************)
RequestInOrder ==
  /\ TB # 0 => is_TB_received
  /\ is_TB_received => is_bsr_sent
  /\ is_bsr_sent => is_grant_received
  /\ is_grant_received => is_sr_sent /\ ue \in {"in", "out"}

(***************************************************************************)
(* slot_division publishes the slot of its last reading, except that a     *)
(* second reading in the guard time counts as slot 0 of the new subframe;  *)
(* and its period ends within a microsecond before the slot does, 25       *)
(* microseconds into the next guard time after slot 3, so that it is zero  *)
(* in the last whole microsecond of a slot.                                *)
(***************************************************************************)
SlotOfInstant ==
  [][Divide \/ Round =>
       LET last == IF TrueSlot(now) = GUARD THEN now ELSE now'
           slot == IF TrueSlot(last) = GUARD /\ TrueSlot(now) # GUARD THEN 0
                   ELSE TrueSlot(last)
           end == IF slot = GUARD THEN 3000 ELSE 3000 + SlotLength * (slot + 1)
       IN  /\ frame_t'.slot_num = slot
           /\ 100 * (InSubframe(last) + slot_division_period') \in end - 99 .. end
           /\ slot_division_period' = 0 <=>
                slot # GUARD /\ 100 * InSubframe(last) > end - 100]_vars

(* A handler stays in its loop for ever, and only because its rounds take the
   period or more again and again, as every round does when that is zero. *)
HandlerStays == <>[]Checking /\ []<><<LongRound>>_vars

(***************************************************************************)
(* main comes to the subframe loop, unless a handler comes to a thread in  *)
(* its call of the queue and waits for that thread's lock, or stays in its *)
(* loop with rounds that take the event's period.                          *)
(***************************************************************************)
MainReachesLoop == <>(main = "loop" \/ SelfLocked) \/ HandlerStays

(***************************************************************************)
(* A call ends with a transport block, unless the slot stays one outside   *)
(* the period after the timer has been stopped, or a handler waits for its *)
(* own thread's lock or stays in its loop.                                 *)
(***************************************************************************)
TBOrFrozenSlot ==
  \/ (ue = "in")
       ~> (TB # 0 \/ (main = "loop" /\ delay = None /\ ~SR_slot) \/ SelfLocked)
  \/ HandlerStays

(* globals.c gives the period of the slot clock as 3 or 4 ms, and main.c adds
   the periodic event with it: it is some time at least. *)
PeriodIsSet == slot_division_period > 0
=============================================================================
