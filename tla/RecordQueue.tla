---------------------------- MODULE RecordQueue ----------------------------
(***************************************************************************)
(* An App_queue whose users push and pop records of one length: the idle   *)
(* CCH RB lists (one RB entry of sizeof(u16 * ) bytes, pushed 250 times by *)
(* init_CCH_idlerb_list and popped by CCH_resource_allocation) and         *)
(* Queue_RACH_Req (one type_RAMSG_s, pushed by Inject_Users_Into_MAC and   *)
(* looked at by Thread_RACH_Process).                                      *)
(***************************************************************************)
EXTENDS AppQueue

CONSTANTS Record,   (* the records, each written as Length cells *)
          Length,   (* bytes of a record *)
          Zero,     (* the byte of memory that nobody has written *)
          None      (* no record *)

ASSUME RecordAssumption ==
  /\ Length \in Nat \ {0}
  /\ 2 * Length <= QUEMAXSIZE
  /\ Cell = (Record \X (1 .. Length)) \cup {Zero}
  /\ Zero \notin Record \X (1 .. Length)
  /\ None \notin Record
  /\ {"OK", "ERROR"} \cap (Record \cup {None}) = {}

VARIABLES q,        (* the ring *)
          crashed,  (* a memcpy was given a negative length *)
          reply,    (* the last operation's answer, as the caller reads it *)
          written   (* ghost: bytes accepted since the last App_queue_init *)

vars == <<q, crashed, reply, written>>

Bytes(r) == [k \in 1 .. Length |-> <<r, k>>]

(* The record whose bytes were copied out; None for the empty buffer. *)
Decode(data) == IF data = <<>> THEN None ELSE data[1][1]

TypeOK == /\ q \in Ring
          /\ crashed \in BOOLEAN
          /\ reply \in Record \cup {None, "OK", "ERROR"}
          /\ written \in 0 .. QUEMAXSIZE + Length

Init == /\ q = [arr |-> [p \in 0 .. QUEMAXSIZE - 1 |-> Zero],
                head |-> 0, tail |-> 0]
        /\ crashed = FALSE
        /\ reply = None
        /\ written = 0

Crash == /\ crashed' = TRUE
         /\ UNCHANGED <<q, reply, written>>

-----------------------------------------------------------------------------
(* App_queue_push(q, r, Length) *)
PushRecord(r) ==
  \/ /\ ~Accepts(q, Length)
     /\ reply' = "ERROR"
     /\ UNCHANGED <<q, crashed, written>>
  \/ /\ PushFaults(q, Length)
     /\ Crash
  \/ /\ Accepts(q, Length)
     /\ ~PushFaults(q, Length)
     /\ q' = Pushed(q, Bytes(r))
     /\ reply' = "OK"
     /\ written' = written + Length
     /\ UNCHANGED crashed

(***************************************************************************)
(* CCH_resource_allocation: one pop that copies and removes, then pops     *)
(* that only remove, one for each further RB of the user.  The buffer the  *)
(* first pop fills is zeroed before, so an empty list answers None.        *)
(***************************************************************************)
TakeRecord ==
  \/ /\ PopFaults(q, Length)
     /\ Crash
  \/ /\ ~PopFaults(q, Length)
     /\ reply' = Decode(Copied(q, Length))
     /\ q' = Removed(Removed(q, Length), Length)
     /\ UNCHANGED <<crashed, written>>

(* Thread_RACH_Process: mask 0x01, the record stays where it is. *)
PeekRecord ==
  \/ /\ PopFaults(q, Length)
     /\ Crash
  \/ /\ ~PopFaults(q, Length)
     /\ reply' = Decode(Copied(q, Length))
     /\ UNCHANGED <<q, crashed, written>>

(* App_queue_init *)
Initialise == /\ q' = Reset(q)
              /\ written' = 0
              /\ UNCHANGED <<crashed, reply>>

Next == /\ ~crashed
        /\ \/ \E r \in Record : PushRecord(r)
           \/ TakeRecord
           \/ PeekRecord
           \/ Initialise

Spec == Init /\ [][Next]_vars

-----------------------------------------------------------------------------
(* The record a ring holds, read where its reader would read it. *)
HeldIn(ring) == LET cell == ring.arr[At(ring.tail, 0)]
                IN  IF IsEmpty(ring) THEN None
                    ELSE IF cell = Zero THEN Zero ELSE cell[1]

Held == HeldIn(q)

(* The whole ring is one place: see OneSlot. *)
Slot == INSTANCE OneSlot WITH slot <- Held, broken <- crashed

(***************************************************************************)
(* The ring of QUEMAXSIZE bytes implements a one-place buffer: whatever    *)
(* the order of pushes, pops and looks, at most one record is in it, a     *)
(* second push is refused, and what comes out is the record that went in.  *)
(***************************************************************************)
OneSlotSpec == Slot!Spec

(***************************************************************************)
(* The negative-length memcpy needs a ring that has been filled once: as   *)
(* long as fewer than QUEMAXSIZE bytes went in since App_queue_init, no    *)
(* sequence of equal pushes and pops crashes the process.                  *)
(***************************************************************************)
CrashOnlyAfterWrap == crashed => written >= QUEMAXSIZE

(***************************************************************************)
(* Between two calls the ring holds nothing or exactly one whole record,   *)
(* stored at consecutive places from tail on, across the end of arr too.   *)
(***************************************************************************)
WholeRecord ==
  \/ IsEmpty(q)
  \/ /\ q.head = At(q.tail, Length)
     /\ \E r \in Record :
          \A k \in 0 .. Length - 1 : q.arr[At(q.tail, k)] = <<r, k + 1>>
=============================================================================
