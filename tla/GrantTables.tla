---------------------------- MODULE GrantTables -----------------------------
(***************************************************************************)
(* The tables and bit fields behind the UE's resource request in           *)
(* resource_apply.c: the level that a buffer status report carries, and    *)
(* the grant that a DCI format 0_0 stands for.                             *)
(***************************************************************************)
EXTENDS Integers, Sequences, SequencesExt, FiniteSetsExt

U8(n) == n % 256

-----------------------------------------------------------------------------
(* Buffer status *)

(* The greatest amount of the levels 1 to 30 of BSR_TABLE. *)
UpperBound ==
  << 10, 14, 20, 28, 38, 53, 74, 102, 142, 198, 276, 384, 535, 745, 1038,
     1446, 2014, 2806, 3909, 5446, 7587, 10570, 14726, 20516, 28581, 39818,
     55474, 77284, 107669, 150000 >>

(* Mutant: an amount at the end of a level is given the level below. *)
BSR_TABLE_low(BS_value) ==
  Cardinality({i \in DOMAIN UpperBound : UpperBound[i] <= U8(BS_value)})

(* The parameter is a u8, so that no level above 11 is ever reported. *)
BSR_TABLE(BS_value) ==
  IF U8(BS_value) = 0 THEN 0
  ELSE CHOOSE i \in 1 .. 31 :
         /\ \A k \in 1 .. i - 1 : UpperBound[k] < U8(BS_value)
         /\ i <= 30 => U8(BS_value) <= UpperBound[i]

(* What RLC_MAC_data_test puts into the logical channels, and their groups. *)
PDUsize == << <<5, 4, 8, 6>>, <<14, 3, 20>>, <<15, 9, 1>> >>
Logicalchannel_G_match == <<1, 2, 2>>

Total(sizes) == FoldSeq(LAMBDA a, b : a + b, 0, sizes)

(* The u8 sums of the two groups, and whether the first channel, the only one
   that the loop looks at, asks for a scheduling request. *)
mac_status_logicalgroup_data ==
  [g \in 1 .. 2 |->
     U8(MapThenSumSet(LAMBDA c : Total(PDUsize[c]),
                      {c \in 1 .. 3 : Logicalchannel_G_match[c] = g}))]

logicalchannelSR_mask == U8(Total(PDUsize[1])) > 0

(* Buffer_Size of the short report that trigger_BSR puts together. *)
trigger_BSR(BSR) == BSR_TABLE(BSR[1] + BSR[2])

-----------------------------------------------------------------------------
(* Grants *)

RB_TOTALNUM == 250

(* time_domain_table[S][L - 1]; C fills the rows up with zeros. *)
time_domain_table ==
  << <<0, 14, 28, 42, 56, 70, 84, 98, 97, 83, 69, 55, 41, 27>>,
     <<1, 15, 29, 43, 57, 71, 85, 99, 96, 82, 68, 54, 40, 0>>,
     <<2, 16, 30, 44, 58, 72, 86, 100, 95, 81, 67, 53, 0, 0>>,
     <<3, 17, 31, 45, 59, 73, 87, 101, 94, 80, 66, 0, 0, 0>>,
     <<4, 18, 32, 46, 60, 74, 88, 102, 93, 79, 0, 0, 0, 0>>,
     <<5, 19, 33, 47, 61, 75, 89, 103, 92, 0, 0, 0, 0, 0>>,
     <<6, 20, 34, 48, 62, 76, 90, 104, 0, 0, 0, 0, 0, 0>>,
     <<7, 21, 35, 49, 63, 77, 91, 0, 0, 0, 0, 0, 0, 0>>,
     <<8, 22, 36, 50, 64, 78, 0, 0, 0, 0, 0, 0, 0, 0>>,
     <<9, 23, 37, 51, 65, 0, 0, 0, 0, 0, 0, 0, 0, 0>>,
     <<10, 24, 38, 52, 0, 0, 0, 0, 0, 0, 0, 0, 0, 0>>,
     <<11, 25, 39, 0, 0, 0, 0, 0, 0, 0, 0, 0, 0, 0>>,
     <<12, 26, 0, 0, 0, 0, 0, 0, 0, 0, 0, 0, 0, 0>>,
     <<13, 0, 0, 0, 0, 0, 0, 0, 0, 0, 0, 0, 0, 0>> >>

(* The first place of a value, row after row. *)
FirstPlace(value) ==
  CHOOSE p \in (1 .. 14) \X (1 .. 14) :
    /\ time_domain_table[p[1]][p[2]] = value
    /\ \A o \in (1 .. 14) \X (1 .. 14) :
         time_domain_table[o[1]][o[2]] = value =>
           14 * p[1] + p[2] <= 14 * o[1] + o[2]

(* Mutant: no resource block is added to the group's length. *)
handle_DCI_short(buffer) ==
  LET RIV   == buffer[2] + 256 * (buffer[1] % 128)
      place == FirstPlace(buffer[3] \div 16)
  IN  [RBG |-> U8(RIV \div RB_TOTALNUM), RB |-> RIV % RB_TOTALNUM,
       L |-> place[2], S |-> place[1] - 1,
       MCS |-> (buffer[4] \div 64) + 4 * (buffer[3] % 8)]

(* The fields of DCI_0_0 that are used, and what they stand for; a
   time_domain has four bits and is always found. *)
handle_DCI(buffer) ==
  LET RIV   == buffer[2] + 256 * (buffer[1] % 128)
      place == FirstPlace(buffer[3] \div 16)
  IN  [RBG |-> U8(RIV \div RB_TOTALNUM + 1), RB |-> RIV % RB_TOTALNUM,
       L |-> place[2], S |-> place[1] - 1,
       MCS |-> (buffer[4] \div 64) + 4 * (buffer[3] % 8)]

(* GET_PDCCH_DCI_SR and GET_PDCCH_DCI_BSR answer with the same bytes. *)
GET_PDCCH_DCI == << 0, 250, 224, 64, 0 >>

(* Bytes of one resource block, for the MCS that has any. *)
cal_RB_carry_capacity(MCS) == <<7, 18, 25, 27, 32, 46, 55>>[MCS]
=============================================================================
