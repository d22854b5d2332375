---------------------------- MODULE MCAirReceive ----------------------------
(* AirReceive for TLC.  Two users, whose frames have a zero byte at the place
   of the address, later or nowhere, are of a known kind or not, and hold
   packets that are empty, of usual length, too large, or with a head in their
   last bytes.  And PDUs of up to two SDUs for Demultiplex. *)
EXTENDS AirReceive, Demultiplex, SequencesExt

Report(rnti, state) == [kind |-> "report", URNTI |-> rnti,
                        RRC_State |-> state]
Request == [kind |-> "request"]
Control == [kind |-> "control"]
Packet(n, echo) == [kind |-> "packet", Data_len |-> n, echo |-> echo,
                    follow |-> {0, 17}]

Frame(head, zero, parts) == [FramHead |-> head, zero |-> zero, parts |-> parts]

MCUsers == {
  [cch |-> Frame("CCH", 2, <<Report(1, 1), Request>>),
   sch |-> Frame("SCH", 2, <<Packet(0, 0), Packet(20, 0)>>)],
  [cch |-> Frame("CCH", 2, <<Report(251, 0), Control, Report(258, 1)>>),
   sch |-> Frame("SCH", 2, <<Packet(30, 0), Packet(15, 0)>>)],
  [cch |-> Frame("CCH", 2, <<Request, Control>>),
   sch |-> Frame("SCH", 2, <<Packet(50, 0), Packet(30, 4)>>)],
  [cch |-> Frame("CCH", 2, <<>>),
   sch |-> Frame("SCH", None, <<Packet(20, 0), Packet(20, 0)>>)],
  [cch |-> Frame("CCH", 2, <<Report(3, 1)>>),
   sch |-> Frame("SCH", 2, <<Packet(20, 15)>>)],
  [cch |-> Frame("CCH", 8, <<Report(4, 1)>>),
   sch |-> Frame("SCH", 2, <<>>)],
  [cch |-> Frame("CCH", 2, <<Control>>),
   sch |-> Frame("unknown", 2, <<Packet(1, 0)>>)] }

MCDatagrams ==
  {gen_phy_to_mac_pk(<<u, v>>) : u \in MCUsers, v \in MCUsers}

SDU == [LCID : {0, 32}, F : {0, 1},
        L : {0, 5, 13, 14, 15, 16, 26, 27, 28, 29, 30, 31}]

(* The bytes of a PDU, and bytes 255 behind it. *)
Stream(pdu) ==
  LET bytes == FlattenSeq([k \in DOMAIN pdu |->
                 Head_of(pdu[k]) \o [n \in 1 .. pdu[k].L |-> 255]])
  IN  [n \in 0 .. 63 |-> IF n < Len(bytes) THEN bytes[n + 1] ELSE 255]

(* demultiplex_data gives back the SDUs of a PDU of 33 bytes, where its
   counter of bits comes round to the size of a pointer, and does not come
   back from a shorter one.  An empty SDU at the end is left out: its head
   lies at byte 31 and its length, behind the turn of the counter, is read
   from byte 0.  Nothing here changes, so the initial state is enough. *)
EndsAtByte33 ==
  AirInit => \A pdu \in BoundedSeq(SDU, 2) :
            LET total == SumTo([n \in DOMAIN pdu |-> SDUBytes(pdu[n])], Len(pdu))
                result == demultiplex_data(Stream(pdu), 0, 0)
            IN  /\ total = 33 /\ Last(pdu).L > 0 => result = pdu
                /\ total < 33 => result = Endless
=============================================================================
