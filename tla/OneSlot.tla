------------------------------ MODULE OneSlot ------------------------------
(***************************************************************************)
(* What a queue of equally long records really promises its callers: one   *)
(* place.  A record put into the empty place is kept, a record put into    *)
(* the full place is refused and leaves the first one alone, and a taken   *)
(* record is the one that was put.  The buffer may also break, and then    *)
(* nothing more is said about it.                                          *)
(***************************************************************************)
CONSTANTS Record, None

VARIABLES slot,    (* the record in the place, or None *)
          broken,  (* the buffer is of no further use *)
          reply    (* what the last operation answered its caller *)

vars == <<slot, broken, reply>>

Init == /\ slot = None
        /\ broken = FALSE
        /\ reply = None

Put(r) == /\ slot = None
          /\ slot' = r
          /\ reply' = "OK"
          /\ UNCHANGED broken

Refuse == /\ slot # None
          /\ reply' = "ERROR"
          /\ UNCHANGED <<slot, broken>>

(* A take or a look at the empty place answers None. *)
Take == /\ reply' = slot
        /\ slot' = None
        /\ UNCHANGED broken

Look == /\ reply' = slot
        /\ UNCHANGED <<slot, broken>>

Clear == /\ slot' = None
         /\ UNCHANGED <<broken, reply>>

Break == /\ broken' = TRUE
         /\ UNCHANGED <<slot, reply>>

Next == /\ ~broken
        /\ \/ \E r \in Record : Put(r)
           \/ Refuse
           \/ Take
           \/ Look
           \/ Clear
           \/ Break

Spec == Init /\ [][Next]_vars
=============================================================================
