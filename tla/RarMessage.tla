----------------------------- MODULE RarMessage -----------------------------
(***************************************************************************)
(* The random access response, byte by byte: what nr_fill_rar writes, what *)
(* handle_rar reads, and the answer that msg2_send copies.  Bytes are the  *)
(* numbers 0 to 255, a buffer is a sequence of them, and offsets count     *)
(* from 0 as in C.                                                         *)
(***************************************************************************)
EXTENDS Integers, Sequences

Backoff == 64          (* no preamble: a backoff subheader *)

(* What one subPDU says; a backoff subheader says nothing of a grant. *)
Bits(n) == 0 .. 2^n - 1

SubPDU == [preamble : 0 .. Backoff, ta : Bits(12), mcs : Bits(4), tda : Bits(4),
           f_alloc : Bits(14), hopping : Bits(1), rnti : Bits(16)]

RAR_SIZE == 7          (* sizeof(NR_MAC_RAR) *)

(* The subheaders NR_RA_HEADER_RAPID and NR_RA_HEADER_BI, E the top bit. *)
E(byte)     == byte \div 128
T(byte)     == (byte \div 64) % 2
RAPID(byte) == byte % 64
RapidHeader(e, preamble) == 128 * e + 64 + preamble
BIHeader(e, bi)          == 128 * e + bi

-----------------------------------------------------------------------------
(* The satellite's side *)

(* Resource indication value of count PRBs from first on, of size. *)
PRBalloc_to_locationandbandwidth0(count, first, size) ==
  IF count <= 1 + size \div 2
  THEN size * (count - 1) + first
  ELSE size * (size + 1 - count) + (size - 1 - first)

(* Mutant: the frequency allocation one bit too low. *)
GrantWordLow(mcs, tda, f_alloc, hopping) ==
  6 + mcs * 2^4 + tda * 2^8 + f_alloc * 2^11 + hopping * 2^26

(* The 27 bits of the uplink grant: csi_req 0, tpc_command 3. *)
GrantWord(mcs, tda, f_alloc, hopping) ==
  6 + mcs * 2^4 + tda * 2^8 + f_alloc * 2^12 + hopping * 2^26

(* NR_MAC_RAR for a timing advance, a grant word and a temporary C-RNTI. *)
Rar(ta, grant, rnti) ==
  << ta \div 32,
     ((ta % 32) * 8) + ((grant \div 2^24) % 8),
     (grant \div 2^16) % 256, (grant \div 2^8) % 256, grant % 256,
     rnti \div 256, rnti % 256 >>

(* A subheader, with its payload if it has a preamble. *)
SubPDUBytes(x, e) ==
  IF x.preamble = Backoff THEN << BIHeader(e, 0) >>
  ELSE << RapidHeader(e, x.preamble) >>
       \o Rar(x.ta, GrantWord(x.mcs, x.tda, x.f_alloc, x.hopping), x.rnti)

(* nr_fill_rar writes a backoff subheader and one answer; handle_rar is made
   for any list, in which all but the last have E = 1. *)
Written(response) ==
  LET bytes[i \in 0 .. Len(response)] ==
        IF i = 0 THEN <<>>
        ELSE bytes[i - 1] \o
             SubPDUBytes(response[i], IF i = Len(response) THEN 0 ELSE 1)
  IN  bytes[Len(response)]

MAC_INFOR == << 162, 213, 160, 138, 12, 88, 225, 20, 220,
                94, 0, 100, 21, 192, 37, 0, 252 >>

-----------------------------------------------------------------------------
(* The user's side *)

(***************************************************************************)
(* Turn n of the loop: n is n_subheaders, and rar_header has passed n - 1  *)
(* subheaders and the payloads counted.  rar points to the last payload    *)
(* with this preamble.  Past the buffer the loop finds nothing.            *)
(***************************************************************************)
Subheader(s, n, buffer, preamble) ==
  LET rar_header == (n - 1) + s.n_subPDUs * RAR_SIZE
      byte == buffer[rar_header + 1]
      here == T(byte) = 1 /\ RAPID(byte) = preamble
  IN  IF s.more /\ rar_header < Len(buffer)
      THEN [more      |-> E(byte) = 1,
            n_subPDUs |-> s.n_subPDUs + T(byte),
            found     |-> s.found \/ here,
            rar       |-> IF here THEN n + s.n_subPDUs * RAR_SIZE ELSE s.rar]
      ELSE s

handle_rar(buffer, preamble) ==
  LET turn[n \in 0 .. Len(buffer)] ==
        IF n = 0 THEN [more |-> TRUE, n_subPDUs |-> 0, found |-> FALSE, rar |-> 0]
        ELSE Subheader(turn[n - 1], n, buffer, preamble)
  IN  turn[Len(buffer)]

(* The fields of the payload at an offset; Msg3_TPC is a u8, so that the
   negative powers of the table come out as 250 to 254. *)
Grant(buffer, rar) ==
  LET byte(i) == buffer[rar + i + 1]
  IN  [ta           |-> (byte(1) \div 8) + ((byte(0) % 128) * 32),
       csi_req      |-> byte(4) % 2,
       Msg3_TPC     |-> (2 * ((byte(4) \div 2) % 8) - 6) % 256,
       mcs          |-> byte(4) \div 16,
       Msg3_t_alloc |-> byte(3) % 16,
       Msg3_f_alloc |-> (byte(3) \div 16) + (byte(2) * 16) + ((byte(1) % 4) * 4096),
       freq_hopping |-> (byte(1) % 8) \div 4]

-----------------------------------------------------------------------------
(* The fields that a subPDU was written with. *)
GrantOf(x) == [ta |-> x.ta, csi_req |-> 0, Msg3_TPC |-> 0, mcs |-> x.mcs,
               Msg3_t_alloc |-> x.tda, Msg3_f_alloc |-> x.f_alloc,
               freq_hopping |-> x.hopping]

(* The response has the preamble if and only if handle_rar finds it, and what
   it reads is the grant of the last subPDU with it. *)
ReadsBack(response, preamble) ==
  LET buffer == Written(response)
      result == handle_rar(buffer, preamble)
      places == {i \in DOMAIN response : response[i].preamble = preamble}
  IN  /\ result.found <=> places # {}
      /\ \A i \in places :
           (\A j \in places : j <= i) =>
              Grant(buffer, result.rar) = GrantOf(response[i])
=============================================================================
