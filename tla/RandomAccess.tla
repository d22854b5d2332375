---------------------------- MODULE RandomAccess ----------------------------
(***************************************************************************)
(* The four-step random access of ra_procedure.c (the UE's thread) and     *)
(* LEO_ra_procedure.c (the satellite's), with the two condition variables  *)
(* between them.  Both wait without looking at any state first, so a       *)
(* signal that nobody waits for is lost, and a wake-up that nobody sent is *)
(* taken for an answer.  Every critical section ends in the step it begins *)
(* in (pthread_cond_wait gives the mutex back), so no step sees the mutex  *)
(* held and it has no variable.                                            *)
(***************************************************************************)
EXTENDS Integers, FiniteSets, RarMessage

CONSTANTS SSB_num,               (* SSBs the UE chooses from, 4 *)
          OccasionsPerSSB,       (* 1 / SSB_per_prach_occasion, 4 *)
          msg1_fdm,              (* occasions side by side in frequency, 4 *)
          ra_preambletransMax,   (* 3 *)
          MaxSpurious,           (* bound on wake-ups that nobody sent *)
          Responses              (* those written and read: lists of subPDUs *)

ASSUME RandomAccessAssumption ==
  /\ SSB_num \in Nat \ {0} /\ OccasionsPerSSB \in Nat \ {0}
  /\ msg1_fdm \in Nat \ {0}
  /\ ra_preambletransMax \in Nat \ {0}
  /\ MaxSpurious \in Nat

(* n_subheaders and n_subPDUs are u8. *)
ASSUME ResponseAssumption ==
  \A response \in Responses :
    response \in Seq(SubPDU) /\ Len(response) \in 1 .. 255

VARIABLES ue,           (* where randomaccessProcedure is *)
          ra_state,
          counter,      (* RA_PREAMBLE_TRANSMISSION_COUNTER *)
          ra_rnti,
          mac_rar_rec,  (* what the UE holds as the response *)
          leo,          (* where handleRandomAccessRequest is *)
          accessAttempt,
          mac_rar_ctx,  (* the response that the satellite has put out *)
          prachResources, (* the occupied ones *)
          sent,         (* ghost: preambles sent *)
          late,         (* ghost: the last window had ended *)
          spurious      (* wake-ups that nobody sent, so far *)

vars == <<ue, ra_state, counter, ra_rnti, mac_rar_rec, leo, accessAttempt,
          mac_rar_ctx, prachResources, sent, late, spurious>>

-----------------------------------------------------------------------------
PREAMBLE == 21
Occasion == 0 .. SSB_num * OccasionsPerSSB - 1

(* prach_occasion_config: the starting symbols 2, 4, ... of one slot. *)
start_symbol  == 2
N_dur         == 2
N_td_per_slot == 6

get_ra_rnti(t_id, s_id, f_id) == 1 + s_id + 14 * t_id + 14 * 80 * f_id

(* The resource that msg1_transmitted comes to when its count is n >= 1: it
   goes through the symbols and, for each, through the frequencies, and then
   through the same subframe again. *)
RntiOf(n) ==
  LET symbol == start_symbol + N_dur * (((n - 1) \div msg1_fdm) % N_td_per_slot)
  IN  get_ra_rnti(symbol \div 14, symbol % 14, (n - 1) % msg1_fdm)

(* ssb_to_ro_list.  The SSB is the strongest or, below a threshold that is
   never set, a random one. *)
TargetOccasions ==
  {ssb * OccasionsPerSSB + r : ssb \in 0 .. SSB_num - 1,
                               r \in 0 .. OccasionsPerSSB - 1}

(* What a response buffer holds: memory from malloc, or a copy of the
   satellite's. *)
Response == {"garbage", "answer"}

TypeOK ==
  /\ ue \in {"start", "send", "signal", "wait", "woken", "judge", "done"}
  /\ ra_state \in {"RA_UE_IDLE", "msg1_trans", "receive_rar", "RA_SUCCEESED"}
  /\ counter \in 0 .. ra_preambletransMax
  /\ ra_rnti \in {0} \cup {RntiOf(n) : n \in Occasion \ {0}}
  /\ mac_rar_rec \in Response
  /\ leo \in {"start", "wait", "woken", "done"}
  /\ accessAttempt \in {0, 1}
  /\ mac_rar_ctx \in {"empty", "answer"}
  /\ prachResources \subseteq Occasion \ {0}
  /\ sent \in Nat
  /\ late \in BOOLEAN
  /\ spurious \in 0 .. MaxSpurious

Init ==
  /\ ue = "start" /\ leo = "start"
  /\ ra_state = "RA_UE_IDLE" /\ counter = 0 /\ ra_rnti = 0
  /\ mac_rar_rec = "garbage" /\ mac_rar_ctx = "empty"
  /\ accessAttempt = 0 /\ prachResources = {}
  /\ sent = 0 /\ late = FALSE /\ spurious = 0

-----------------------------------------------------------------------------
(* The UE's thread *)

(* The resources are cleared, init_RA, and the counter is set to 0. *)
Begin ==
  /\ ue = "start"
  /\ prachResources' = {}
  /\ counter' = 0
  /\ ue' = "send"
  /\ UNCHANGED <<ra_state, ra_rnti, mac_rar_rec, leo, accessAttempt,
                 mac_rar_ctx, sent, late, spurious>>

(***************************************************************************)
(* msg1_transmitted counts the occasions from 1 on until the count is the  *)
(* target, so that target 0 is never met: no preamble, and the state stays *)
(* msg1_trans.  Otherwise WAIT_RAR, which the caller turns to receive_rar. *)
(***************************************************************************)
Transmit ==
  /\ ue = "send"
  /\ \E target \in TargetOccasions :
       IF target = 0
       THEN /\ ra_state' = "msg1_trans"
            /\ UNCHANGED <<prachResources, ra_rnti, sent>>
       ELSE /\ prachResources' = prachResources \cup {target}
            /\ ra_rnti' = RntiOf(target)
            /\ sent' = sent + 1
            /\ ra_state' = "receive_rar"
  /\ ue' = "signal"
  /\ UNCHANGED <<counter, mac_rar_rec, leo, accessAttempt, mac_rar_ctx, late,
                 spurious>>

(* pthread_cond_signal(&cond2) and pthread_cond_wait(&cond1), in one critical
   section. *)
Signal ==
  /\ ue = "signal"
  /\ leo' = IF leo = "wait" THEN "woken" ELSE leo
  /\ ue' = "wait"
  /\ UNCHANGED <<ra_state, counter, ra_rnti, mac_rar_rec, accessAttempt,
                 mac_rar_ctx, prachResources, sent, late, spurious>>

(* After the wait: inside the window get_rar copies whatever the satellite's
   buffer holds, which may be nothing; after it the old response stays. *)
Receive ==
  /\ ue = "woken"
  /\ late' \in BOOLEAN
  /\ mac_rar_rec' = IF late' THEN mac_rar_rec
                    ELSE IF mac_rar_ctx = "answer" THEN "answer"
                    ELSE "garbage"
  /\ ue' = "judge"
  /\ UNCHANGED <<ra_state, counter, ra_rnti, leo, accessAttempt, mac_rar_ctx,
                 prachResources, sent, spurious>>

(* What handle_rar says of the answer that the satellite puts out. *)
AnswerFound == handle_rar(MAC_INFOR, PREAMBLE).found

(* What it says of the response that the UE holds; of memory that was never
   written it may say anything. *)
Found == IF mac_rar_rec = "garbage" THEN BOOLEAN ELSE {AnswerFound}

(* Mutant: the flag is compared as a signed number. *)
MissesCounted == 1

(* rar_received_flag, a u16 that -1 was assigned to, is compared with -1: they
   never agree, and a response that was not found is not counted. *)
Misses == IF 65536 - 1 = -1 THEN 1 ELSE 0

(* listenRARWindow, and the tests at the end of the loop; RA_FAILED is
   compared with ra_state, not assigned. *)
Judge ==
  /\ ue = "judge"
  /\ IF ra_state = "receive_rar"
     THEN \E found \in Found :
            /\ ra_state' = IF found THEN "RA_SUCCEESED" ELSE ra_state
            /\ counter' = IF found THEN counter ELSE counter + Misses
     ELSE UNCHANGED <<ra_state, counter>>
  /\ ue' = IF ra_state' = "RA_SUCCEESED" \/ counter' = ra_preambletransMax
           THEN "done" ELSE "send"
  /\ UNCHANGED <<ra_rnti, mac_rar_rec, leo, accessAttempt, mac_rar_ctx,
                 prachResources, sent, late, spurious>>

-----------------------------------------------------------------------------
(* The satellite's thread: it waits, answers once and ends. *)

Listen ==
  /\ leo = "start"
  /\ leo' = "wait"
  /\ UNCHANGED <<ue, ra_state, counter, ra_rnti, mac_rar_rec, accessAttempt,
                 mac_rar_ctx, prachResources, sent, late, spurious>>

(* Mutant: a preamble is taken to be there. *)
detectPrachAny == TRUE

(* The index of the first occupied resource, as a truth value: 0 stands for
   none. *)
detectPrach == prachResources # {} /\ 0 \notin prachResources

(* Mutant: the signal is given only to a user that was not found. *)
AnswerSilent ==
  /\ leo = "woken"
  /\ IF detectPrach
     THEN mac_rar_ctx' = "answer" /\ UNCHANGED <<accessAttempt, ue>>
     ELSE /\ accessAttempt' = accessAttempt + 1 /\ UNCHANGED mac_rar_ctx
          /\ ue' = IF ue = "wait" THEN "woken" ELSE ue
  /\ leo' = "done"
  /\ UNCHANGED <<ra_state, counter, ra_rnti, mac_rar_rec, prachResources,
                 sent, late, spurious>>

Answer ==
  /\ leo = "woken"
  /\ IF detectPrach
     THEN mac_rar_ctx' = "answer" /\ UNCHANGED accessAttempt
     ELSE accessAttempt' = accessAttempt + 1 /\ UNCHANGED mac_rar_ctx
  /\ ue' = IF ue = "wait" THEN "woken" ELSE ue
  /\ leo' = "done"
  /\ UNCHANGED <<ra_state, counter, ra_rnti, mac_rar_rec, prachResources,
                 sent, late, spurious>>

(* pthread_cond_wait may return without a signal. *)
WakeUp ==
  /\ spurious < MaxSpurious
  /\ spurious' = spurious + 1
  /\ \/ ue = "wait" /\ ue' = "woken" /\ UNCHANGED leo
     \/ leo = "wait" /\ leo' = "woken" /\ UNCHANGED ue
  /\ UNCHANGED <<ra_state, counter, ra_rnti, mac_rar_rec, accessAttempt,
                 mac_rar_ctx, prachResources, sent, late>>

UE  == Begin \/ Transmit \/ Signal \/ Receive \/ Judge
LEO == Listen \/ Answer

Next == UE \/ LEO \/ WakeUp

(* Both threads run whenever they can; a spurious wake-up need not come. *)
Spec == Init /\ [][Next]_vars /\ WF_vars(UE) /\ WF_vars(LEO)

-----------------------------------------------------------------------------
(***************************************************************************)
(* The satellite's response is out only if a preamble was sent, whichever  *)
(* wake-ups came before, and an access succeeds on this response or on     *)
(* memory that nobody wrote, the latter only after a wake-up that nobody   *)
(* sent or a window that had ended.                                        *)
(***************************************************************************)
SuccessIsAnswered ==
  /\ mac_rar_ctx = "answer" => sent > 0
  /\ ra_state = "RA_SUCCEESED" =>
       \/ mac_rar_rec = "answer" /\ mac_rar_ctx = "answer"
       \/ mac_rar_rec = "garbage" /\ (late \/ spurious > 0)

(***************************************************************************)
(* Not the counter bounds the preambles, which never moves, but the wait   *)
(* for a satellite that answers once: at most two are sent, and one more   *)
(* for every wake-up that nobody sent.                                     *)
(***************************************************************************)
AtMostTwoPreambles == counter = 0 /\ sent <= 2 + spurious

(***************************************************************************)
(* handle_rar finds the UE's preamble if and only if the response has it,  *)
(* wherever backoff subheaders stand, and reads from the last payload with *)
(* it exactly the fields that nr_fill_rar packed there: each of the two    *)
(* shifts the grant over four bytes by hand.                               *)
(***************************************************************************)
ResponseRoundTrip ==
  ue = "start" => \A response \in Responses : ReadsBack(response, PREAMBLE)

(***************************************************************************)
(* If the satellite waits when the UE that has sent a preamble signals, the*)
(* access succeeds, unless the window ends first or the UE is woken        *)
(* without a signal.                                                       *)
(***************************************************************************)
AnsweredWhenListening ==
  (ue = "signal" /\ leo = "wait" /\ ra_state = "receive_rar")
    ~> (ra_state = "RA_SUCCEESED" \/ late \/ spurious > 0)
=============================================================================
