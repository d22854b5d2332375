----------------------------- MODULE Demultiplex -----------------------------
(***************************************************************************)
(* demultiplex_data of mac_process.c, which takes the SDUs out of a MAC    *)
(* PDU, and the reader of bit fields it uses, as operators.  A PDU is its  *)
(* bytes and what lies behind them in memory, as a function from offsets.  *)
(* Nothing calls demultiplex_data yet, and its counterpart multiplex_data  *)
(* faults at its first push, from address 0; so the PDUs here are written  *)
(* as the comments of multiplex_data lay one out: R, F, LCID, L, data.     *)
(***************************************************************************)
EXTENDS Integers, Sequences, Bitwise

CONSTANT Endless    (* the result when the loop does not end *)

(* Mutant: the offset in the byte is left out. *)
WithinByteUnaligned(byte, bitOffset, numBits) ==
  (byte \div 2^(8 - numBits)) % 2^numBits

WithinByte(byte, bitOffset, numBits) ==
  (byte \div 2^(8 - numBits - bitOffset)) % 2^numBits

(* The bits behind the first byte, each byte laid over the value. *)
RECURSIVE Laid(_, _, _, _)
Laid(stream, value, bytePos, numBits) ==
  IF numBits >= 8
    THEN Laid(stream, value | stream[bytePos], bytePos + 1, numBits - 8)
    ELSE value | ((stream[bytePos] \div 2^(8 - numBits)) % 2^numBits)

getParamFromBitstream(stream, bitPos, numBits) ==
  LET bytePos   == bitPos \div 8
      bitOffset == bitPos % 8
      first     == 8 - bitOffset
  IN  IF numBits + bitOffset > 8
        THEN Laid(stream, (stream[bytePos] * 2^bitOffset) % 2^first,
                  bytePos + 1, numBits - first)
        ELSE WithinByte(stream[bytePos], bitOffset, numBits)

u8(n) == n % 256

(* The SDUs found from bitnum on.  The loop ends where bitnum, a u8, is 8,
   the size of a pointer; after 32 rounds it has been everywhere. *)
RECURSIVE demultiplex_data(_, _, _)
demultiplex_data(stream, bitnum, rounds) ==
  LET LCID  == getParamFromBitstream(stream, bitnum + 2, 6)
      F     == getParamFromBitstream(stream, bitnum + 1, 1)
      atL   == u8(bitnum + 8)
      width == IF F = 0 THEN 8 ELSE 16
      L     == getParamFromBitstream(stream, atL, width)
      rest  == demultiplex_data(stream, u8(atL + width + L * 8), rounds + 1)
  IN  CASE bitnum = 8 -> <<>>
        [] bitnum # 8 /\ (rounds = 32 \/ LCID > 32) -> Endless
        [] OTHER -> IF rest = Endless THEN Endless
                    ELSE <<[LCID |-> LCID, F |-> F, L |-> L]>> \o rest

-----------------------------------------------------------------------------
(* A PDU of the layout in the comments. *)
Head_of(sdu) == <<sdu.F * 64 + sdu.LCID>> \o
             (IF sdu.F = 0 THEN <<sdu.L>> ELSE <<sdu.L \div 256, sdu.L % 256>>)

SDUBytes(sdu) == Len(Head_of(sdu)) + sdu.L
=============================================================================
