----------------------------- MODULE AirReceive -----------------------------
(***************************************************************************)
(* The thread RecvPackage_from_UE_MAC_U and what it calls in package.c.    *)
(* One UDP datagram from the physical layer carries a CCH area of          *)
(* CCH_DATA_LENGTH bytes for each user and then one SCH frame for each;    *)
(* recvphyPackageHandle walks over the datagram with i, and CCH_unpacking  *)
(* and SCH_unpacking walk over the data of one frame with j.  One step     *)
(* here is one round of one of the three loops.                            *)
(*                                                                         *)
(* A datagram is a sequence of frames and a frame a sequence of parts;     *)
(* their offsets are those of the packed structures.  The walk sees only   *)
(* where a head lies.  The address of the satellite is 00:00:00:00:00:02,  *)
(* so as a string it is empty, and strcmp finds it wherever the first byte *)
(* of Dest_MAC is 0: "zero" is the offset in a frame of its first zero     *)
(* byte, 2 when Dest_MAC starts with one, 8 when Src_MAC does, None when   *)
(* the frame has no zero byte.  Data do not hold heads, except that a      *)
(* packet may hold PK_FRAMEHEAD "echo" bytes before its end.               *)
(*                                                                         *)
(* main.c starts the thread in a comment only (lines 68 to 70), and the    *)
(* handlers of the dispatch table of the UE side have no caller.           *)
(***************************************************************************)
EXTENDS Integers, Sequences

CONSTANTS Datagrams,     (* the sequences of frames that arrive *)
          QUEMAXSIZE,    (* bytes of Queue_UDP_recv_ue_mac_u, 2000 *)
          BBU_UE_MAXNUM, (* places of Online_Time_Table, 250 *)
          MaxPayload,    (* the Data_len that Package_Frame fits into 512 *)
          MaxDatagrams,  (* bound on the datagrams received *)
          None

MacHead == 16          (* sizeof(mac_head_type) *)
MsgHead == 4           (* sizeof(mac_msg_type) *)
DivisionHead == 14     (* sizeof(type_msg_division_s) *)
CCH_DATA_LENGTH == 87

(* SCH_DATA_Packaging puts mac_msg_type before a part of this many bytes. *)
PartSize(part) == CASE part.kind = "report"  -> 18
                    [] part.kind = "request" -> 19
                    [] part.kind = "control" -> 18
                    [] part.kind = "packet"  -> DivisionHead + part.Data_len

SCH_DATA_Packaging(part) == MsgHead + PartSize(part)

(* The first k of some lengths together, which is the offset behind them. *)
SumTo(lengths, k) ==
  LET sum[n \in 0 .. Len(lengths)] ==
        IF n = 0 THEN 0 ELSE sum[n - 1] + lengths[n]
  IN  sum[k]

PartAt(f, k) ==
  SumTo([n \in DOMAIN f.parts |-> SCH_DATA_Packaging(f.parts[n])], k - 1)

(* The generator counts the heads of the parts for an SCH frame only. *)
Data_Length(f) ==
  IF f.FramHead = "CCH"
  THEN SumTo([n \in DOMAIN f.parts |-> PartSize(f.parts[n])], Len(f.parts))
  ELSE PartAt(f, Len(f.parts) + 1)

FrameSize(f) == IF f.FramHead = "CCH" THEN CCH_DATA_LENGTH
                                      ELSE MacHead + Data_Length(f)

FrameAt(d, k) == SumTo([n \in DOMAIN d |-> FrameSize(d[n])], k - 1)

(* recv_buff_len *)
Bytes(d) == FrameAt(d, Len(d) + 1)

(* A head in a packet has its two bytes inside of it. *)
Part == [kind : {"report"}, URNTI : Nat, RRC_State : {0, 1}]
        \cup [kind : {"request", "control"}]
        \cup {p \in [kind : {"packet"}, Data_len : Nat, echo : Nat, follow : SUBSET Nat] :
                p.echo # 1 /\ p.echo <= DivisionHead + p.Data_len}

(* A datagram without a byte is not looked at.  Packets go into SCH frames only,
   and nothing else does; and the parts of a control area fit in it. *)
ASSUME ReceiveAssumption ==
  /\ BBU_UE_MAXNUM \in Nat \ {0}
  /\ <<>> \notin Datagrams
  /\ \A d \in Datagrams :
       d \in Seq([FramHead : {"CCH", "SCH", "unknown"}, zero : {2, 8, None},
                  parts : Seq(Part)])
  /\ \A d \in Datagrams : \A k \in DOMAIN d :
       /\ \A n \in DOMAIN d[k].parts :
            /\ d[k].FramHead = "CCH" => d[k].parts[n].kind # "packet"
            /\ d[k].FramHead = "SCH" => d[k].parts[n].kind = "packet"
       /\ d[k].FramHead = "CCH" =>
            MacHead + PartAt(d[k], Len(d[k].parts) + 1) <= CCH_DATA_LENGTH

(* What the physical layer hands over for some users: first the control
   areas, then the frames with data. *)
gen_phy_to_mac_pk(users) == [k \in 1 .. Len(users) |-> users[k].cch]
                            \o [k \in 1 .. Len(users) |-> users[k].sch]

VARIABLES datagram,          (* recv_buff *)
          i, j,              (* the indices of the outer and inner loop *)
          loop,              (* the loop that runs *)
          frame,             (* the frame that is unpacked *)
          queued,            (* bytes in Queue_UDP_recv_ue_mac_u *)
          get_ue_rnti,
          Online_Time_Table, (* the places with a time in them *)
          handled,           (* the parts handled in this datagram *)
          received           (* bounds the datagrams *)

airVars == <<datagram, i, j, loop, frame, queued, get_ue_rnti,
             Online_Time_Table, handled, received>>

walk == <<datagram, queued, received>>
effects == <<get_ue_rnti, Online_Time_Table, handled>>

AirInit ==
  /\ datagram = <<>>
  /\ i = 0 /\ j = 0
  /\ loop = "idle"
  /\ frame = 0
  /\ queued = 0
  /\ get_ue_rnti = 0
  /\ Online_Time_Table = {}
  /\ handled = <<>>
  /\ received = 0

(* App_queue_push, and once more after App_queue_init if it is refused.
   Nobody takes anything out of the queue. *)
Pushed(n) == IF n < QUEMAXSIZE - queued THEN queued + n
             ELSE IF n < QUEMAXSIZE THEN n ELSE 0

RecvPackage_from_UE_MAC_U ==
  /\ loop = "idle"
  /\ received < MaxDatagrams
  /\ received' = received + 1
  /\ \E d \in Datagrams :
       /\ datagram' = d
       /\ queued' = Pushed(Bytes(d))
  /\ loop' = "frames"
  /\ i' = 0
  /\ handled' = <<>>
  /\ UNCHANGED <<j, frame, get_ue_rnti, Online_Time_Table>>

-----------------------------------------------------------------------------
(* recvphyPackageHandle *)

Inside == loop = "frames" /\ i < Bytes(datagram)

(* The frames for which Dest_MAC at i seems to be the address. *)
Matches == {k \in DOMAIN datagram : /\ datagram[k].zero # None
                                    /\ FrameAt(datagram, k)
                                         + datagram[k].zero - 2 = i}

Heads(k) == /\ FrameAt(datagram, k) = i
            /\ datagram[k].FramHead # "unknown"

Unpack == /\ Inside
          /\ \E k \in Matches :
               /\ Heads(k)
               /\ frame' = k
               /\ loop' = datagram[k].FramHead
          /\ j' = 0
          /\ UNCHANGED <<i, walk, effects>>

(* Neither branch takes the head, and i stays where it is. *)
Spin == /\ Inside
        /\ \E k \in Matches : ~ Heads(k)
        /\ UNCHANGED airVars

NextByte == /\ Inside
            /\ Matches = {}
            /\ i' = i + 1
            /\ UNCHANGED <<j, loop, frame, walk, effects>>

Leave == /\ loop = "frames"
         /\ i >= Bytes(datagram)
         /\ loop' = "idle"
         /\ UNCHANGED <<i, j, frame, walk, effects>>

-----------------------------------------------------------------------------
(* CCH_unpacking and SCH_unpacking *)

Parts == datagram[frame].parts
Size == Data_Length(datagram[frame])

Reached == {k \in DOMAIN Parts : PartAt(datagram[frame], k) = j}

(* Packets that hold a head at j. *)
Echoes == {k \in DOMAIN Parts :
             /\ Parts[k].kind = "packet"
             /\ Parts[k].echo > 0
             /\ PartAt(datagram[frame], k) + SCH_DATA_Packaging(Parts[k])
                  - Parts[k].echo = j}

(* An index in Online_Time_Table, unlike RNTI_to_LocalIndex_map. *)
ue_index8_inBBU(rnti) == (rnti % 65536) % BBU_UE_MAXNUM

UE_OnlineReport(part) ==
  IF part.RRC_State = 1
    THEN /\ get_ue_rnti' = part.URNTI
         /\ Online_Time_Table' =
              Online_Time_Table \cup {ue_index8_inBBU(part.URNTI)}
    ELSE UNCHANGED <<get_ue_rnti, Online_Time_Table>>

(* Mutant: a wrong package takes the loop back to its head. *)
AdvanceStuck(part) == IF part.kind = "control" THEN 0
                                               ELSE SCH_DATA_Packaging(part)

Advance(part) == IF part.kind = "control" THEN MsgHead
                                          ELSE SCH_DATA_Packaging(part)

(* non_resident_resource_apply of the request is in Scheduler. *)
CCH_unpacking ==
  /\ loop = "CCH"
  /\ j < Size
  /\ IF Reached = {}
       THEN j' = j + 1 /\ UNCHANGED effects
       ELSE \E k \in Reached :
              /\ j' = j + Advance(Parts[k])
              /\ IF Parts[k].kind = "report"
                   THEN UE_OnlineReport(Parts[k])
                   ELSE UNCHANGED <<get_ue_rnti, Online_Time_Table>>
              /\ handled' = IF Parts[k].kind = "control" THEN handled
                              ELSE Append(handled, <<frame, k>>)
  /\ UNCHANGED <<i, loop, frame, walk>>

(* Package_Frame and UDP_write_rlc.  A packet too large for the buffer of
   512 bytes makes Package_Frame return -1, which is sent as a length. *)
HandedUp(k, n) == <<frame, IF n <= MaxPayload THEN k ELSE None>>

(* The walk goes on Data_len bytes after the start of the packet, which is
   DivisionHead bytes before its end. *)
SCH_unpacking ==
  /\ loop = "SCH"
  /\ j < Size
  /\ \/ /\ Reached = {} /\ Echoes = {}
        /\ j' = j + 1
        /\ UNCHANGED handled
     \/ \E k \in Reached :
          /\ j' = j + MsgHead + Parts[k].Data_len
          /\ handled' = Append(handled, HandedUp(k, Parts[k].Data_len))
     \/ \E k \in Echoes \ Reached : \E n \in Parts[k].follow :
          /\ j' = j + MsgHead + n
          /\ handled' = Append(handled, HandedUp(0, n))
  /\ UNCHANGED <<i, loop, frame, walk, get_ue_rnti, Online_Time_Table>>

(* Mutant: the control area is taken for the 88 bytes of CCH_Print_Type. *)
SkipLong == IF loop = "CCH" THEN CCH_DATA_LENGTH + 1 ELSE MacHead + Size

Skip == IF loop = "CCH" THEN CCH_DATA_LENGTH ELSE MacHead + Size

Unpacked == /\ loop \in {"CCH", "SCH"}
            /\ j >= Size
            /\ i' = i + Skip
            /\ loop' = "frames"
            /\ UNCHANGED <<j, frame, walk, effects>>

recvphyPackageHandle == \/ Unpack \/ NextByte \/ Leave \/ Unpacked
                        \/ CCH_unpacking \/ SCH_unpacking

AirNext == RecvPackage_from_UE_MAC_U \/ recvphyPackageHandle \/ Spin

(* The thread runs whenever it is not blocked in recvfrom. *)
AirSpec == AirInit /\ [][AirNext]_airVars /\ WF_airVars(recvphyPackageHandle)

-----------------------------------------------------------------------------
(* Properties *)

(* A datagram as the generator of package.c makes it: a frame is for this
   satellite and of a known kind, or has no byte that is zero; and no packet
   holds a head where the walk would look for one or is too large to hand
   up. *)
Clean(d) ==
  \A k \in DOMAIN d :
    /\ \/ d[k].zero = None
       \/ d[k].zero = 2 /\ d[k].FramHead # "unknown"
    /\ \A n \in DOMAIN d[k].parts :
         d[k].parts[n].kind = "packet" =>
           /\ d[k].parts[n].Data_len <= MaxPayload
           /\ d[k].parts[n].echo \notin 2 .. DivisionHead

(* The reports, requests and packets in the frames of a datagram that seem to
   be for this satellite, each the number of its frame and its number there. *)
Contents(d) ==
  UNION {{k} \X {n \in DOMAIN d[k].parts : d[k].parts[n].kind # "control"} :
           k \in {m \in DOMAIN d : d[m].zero # None}}

Before(p, q) == p[1] < q[1] \/ (p[1] = q[1] /\ p[2] < q[2])

(* Every report, request and packet of a clean datagram is handled once and
   in order, and none is passed over, although the loops step over control
   areas by a constant, over parts by their own lengths and over packets by
   less than their length. *)
EachPartOnce ==
  Clean(datagram) =>
    /\ \A x \in DOMAIN handled :
         /\ handled[x] \in Contents(datagram)
         /\ \A y \in DOMAIN handled : x < y => Before(handled[x], handled[y])
         /\ \A p \in Contents(datagram) :
              Before(p, handled[x]) => \E y \in DOMAIN handled : handled[y] = p
    /\ loop = "idle" =>
         \A p \in Contents(datagram) : \E x \in DOMAIN handled : handled[x] = p

(* The thread comes back to recvfrom from every clean datagram. *)
ReceiveEnds == Clean(datagram) /\ loop = "frames" ~> loop = "idle"
=============================================================================
