--------------------------- MODULE MCRecordQueue ---------------------------
(* RecordQueue for TLC: three records of two bytes in a ring of seven.  The
   length does not divide the size, so records come to lie across the end. *)
EXTENDS RecordQueue

CONSTANTS r1, r2, r3

MCRecord == {r1, r2, r3}

MCCell == (MCRecord \X (1 .. 2)) \cup {Zero}
=============================================================================
