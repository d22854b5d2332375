----------------------------- MODULE Scheduler -----------------------------
(***************************************************************************)
(* One base-band unit's downlink scheduler and uplink grants: the subframe *)
(* of prepare_next_subframe_send_data, what puts packets into the users'   *)
(* buffers, and non_resident_resource_apply.  A subframe is one step, as   *)
(* under Global_MAC_Lock.  Priorities, rates and delays only decide the    *)
(* order of the rows, which is left open; the counters of g_MacStats are   *)
(* left out.                                                               *)
(***************************************************************************)
EXTENDS AppQueue, FiniteSets, SequencesExt

CONSTANTS User,                (* the local indices that requests come to *)
          Wave_num,            (* Wave_num[u]: the waves that they name *)
          WAVE_NUM,            (* waves of the table, 150 *)
          WAVE_NUM_PER_BBU,    (* waves that are polled, 75 *)
          PER_WAVE_MAX_NUM,    (* rows of a wave, 10 *)
          Interference,        (* pairs of waves with a 1 in the matrix *)
          RB_TOTALNUM,         (* the first SCH RB, 250 *)
          SCH_RB_NUM,          (* SCH RBs, 750 *)
          per_RB_ByteNum,      (* bytes in an RB at MCS 5, 32 *)
          PER_UE_MAX_DL_VOLUME,(* bytes for one user in a subframe, 4096 *)
          DataLen,             (* lengths of the packets that arrive *)
          ReportLen, GrantLen, (* bytes of the packages in a CCH, 15 and 28 *)
          EntryLen,            (* sizeof(Mac_to_PHY), 111 *)
          RBNum,               (* the numbers of RBs a UL request comes to *)
          NoGrant,             (* 0xFFFF in begin and total *)
          Nobody,              (* an entry of Mac_to_PHY_data never used *)
          Overwritten,         (* an entry that packet data lie over *)
          MaxPackets,          (* bound on the packets that arrive *)
          MaxRequests          (* bound on the UL requests *)

MAC_FRAME_LENGTH == 16

CCH_DATA_LENGTH == 87

Word == 65536

Ceil(n, d) == (n + d - 1) \div d

Slot == 1 .. PER_WAVE_MAX_NUM

Wave == 0 .. WAVE_NUM - 1

PolledWave == 0 .. WAVE_NUM_PER_BBU - 1

Grant == [begin : 0 .. Word - 1, total : 0 .. Word - 1]

(***************************************************************************)
(* An entry of Mac_to_PHY_data: whom it is for, its RBs, how many bytes of *)
(* SCH data lie whole in it, which packages its CCH holds, and whether its *)
(* data are still those that were put there.                               *)
(***************************************************************************)
Entry == [user : User, grant : Grant, bytes : Nat,
          cch : SUBSET {"REPORT", "UL", "DL"}, whole : BOOLEAN]

ASSUME SchedulerAssumption ==
  /\ Wave_num \in [User -> SUBSET Wave]
  /\ WAVE_NUM \in 0 .. 180 /\ WAVE_NUM_PER_BBU \in 1 .. WAVE_NUM
  /\ Interference \subseteq Wave \X Wave
  /\ {PER_WAVE_MAX_NUM, per_RB_ByteNum, EntryLen} \subseteq Nat \ {0}
  /\ RB_TOTALNUM \in Nat /\ SCH_RB_NUM \in Nat /\ RB_TOTALNUM <= SCH_RB_NUM
  /\ PER_UE_MAX_DL_VOLUME \in Nat /\ {MaxPackets, MaxRequests} \subseteq Nat
  /\ \A n \in DataLen : n \in Nat \ {0} /\ 2 * n <= QUEMAXSIZE
  /\ {ReportLen, GrantLen} \subseteq 1 .. QUEMAXSIZE - 1
  /\ RBNum \subseteq Nat

(***************************************************************************)
(* The lengths the scheduler reckons with: a header fits in an RB, every   *)
(* packet in a user's volume and in the RBs of an empty subframe, and the  *)
(* RB numbers in a u16, also when every row has its whole volume (250 + 10 *)
(* * 128 and 250 + 750).  Nobody and Overwritten are no entries.           *)
(***************************************************************************)
ASSUME SubframeAssumption ==
  /\ MAC_FRAME_LENGTH <= per_RB_ByteNum
  /\ \A n \in DataLen : /\ n <= PER_UE_MAX_DL_VOLUME - MAC_FRAME_LENGTH
                        /\ n <= (SCH_RB_NUM * per_RB_ByteNum) % Word
  /\ RB_TOTALNUM + PER_WAVE_MAX_NUM * Ceil(PER_UE_MAX_DL_VOLUME, per_RB_ByteNum) < Word
  /\ RB_TOTALNUM + SCH_RB_NUM < Word
  /\ {Nobody, Overwritten} \cap Entry = {}

VARIABLES users,          (* users[w]: the rows in use on wave w, each with its
                             user and its number among the user's rows *)
          buffer,         (* DL_data_buffer_Cvector_List: packet lengths *)
          arrived,        (* packets that arrived, for the bound *)
          requests,       (* UL requests so far, for the bound *)
          poll_wave_index,
          dl,             (* DL_SCH_RB_begin, DL_SCH_RB_Total_NUM *)
          ul,             (* UL_SCH_RB_begin, UL_SCH_RB_Total_NUM *)
          eatrly_ul,      (* the same of eatrly_UL_SCH_RB *)
          UL_min_idleRB,
          Mac_to_PHY_data,
          RB_Reception_Info,
          send_user_num,  (* of the last subframe *)
          served,         (* ghost: rows with data in the last subframe *)
          crashed         (* a memcpy was given a negative length *)

radio == <<dl, eatrly_ul, Mac_to_PHY_data, RB_Reception_Info, send_user_num,
           served, crashed>>

vars == <<users, buffer, arrived, requests, poll_wave_index, ul, UL_min_idleRB, radio>>

-----------------------------------------------------------------------------
TypeOK ==
  /\ users \in [Wave -> SUBSET (User \X Slot)]
  /\ \A w \in Wave : Cardinality(users[w]) <= PER_WAVE_MAX_NUM
  /\ buffer \in [User -> Seq(DataLen)]
  /\ arrived \in 0 .. MaxPackets
  /\ requests \in 0 .. MaxRequests
  /\ poll_wave_index \in PolledWave
  /\ dl \in [User -> Grant \cup {NoGrant}]
  /\ ul \in [User -> Grant \cup {NoGrant}]
  /\ eatrly_ul \in [User -> Grant \cup {NoGrant}]
  /\ UL_min_idleRB \in RB_TOTALNUM .. SCH_RB_NUM
  /\ Mac_to_PHY_data \in [Slot -> Entry \cup {Nobody, Overwritten}]
  /\ RB_Reception_Info \in [Slot -> Grant \cup {NoGrant}]
  /\ send_user_num \in 0 .. PER_WAVE_MAX_NUM
  /\ served \in SUBSET Slot
  /\ crashed \in BOOLEAN

(* One vector, still empty, for each user. *)
init_DL_data_buffer_Cvector_List == [u \in User |-> <<>>]

(* No row has an entry of its own yet: SCH_TBS is 0xFFFF in all of them. *)
init_Mac_to_PHY_data == [i \in Slot |-> Nobody]

init_RB_Reception_Info == [i \in Slot |-> NoGrant]

Init ==
  /\ users = [w \in Wave |-> {}]
  /\ buffer = init_DL_data_buffer_Cvector_List
  /\ arrived = 0
  /\ requests = 0
  /\ poll_wave_index = 0
  /\ dl = [u \in User |-> NoGrant]
  /\ ul = [u \in User |-> NoGrant]
  /\ eatrly_ul = [u \in User |-> NoGrant]
  /\ UL_min_idleRB = RB_TOTALNUM
  /\ Mac_to_PHY_data = init_Mac_to_PHY_data
  /\ RB_Reception_Info = init_RB_Reception_Info
  /\ send_user_num = 0
  /\ served = {}
  /\ crashed = FALSE

-----------------------------------------------------------------------------
(***************************************************************************)
(* A request gets a row: see MacAccess, which also says when the idle RB   *)
(* lists refuse it.  Who asks again gets one more row with the same buffer *)
(* and the same registration, and so does another RNTI of the same index.  *)
(***************************************************************************)
Access(u, w) ==
  /\ Cardinality(users[w]) < PER_WAVE_MAX_NUM
  /\ \E k \in Slot :
       /\ <<u, k>> \notin users[w]
       /\ \A j \in 1 .. k - 1 : <<u, j>> \in users[w]
       /\ users' = [users EXCEPT ![w] = @ \cup {<<u, k>>}]
  /\ UNCHANGED <<buffer, arrived, requests, poll_wave_index, ul, UL_min_idleRB,
                 radio>>

(* cvector_pushback of a packet from the RLC, whether the user has a row or
   not. *)
TYPE_MSG_division_Handle(u, n) ==
  /\ arrived < MaxPackets
  /\ arrived' = arrived + 1
  /\ buffer' = [buffer EXCEPT ![u] = Append(@, n)]
  /\ UNCHANGED <<users, requests, poll_wave_index, ul, UL_min_idleRB, radio>>

(***************************************************************************)
(* non_resident_resource_apply: n RBs, or what is left of the pool.  UL_MCS*)
(* is never set, so n is a quotient by an unwritten per_RB_ByteNum: any.   *)
(***************************************************************************)

Granted(n) == IF UL_min_idleRB + n <= SCH_RB_NUM THEN n
                                                ELSE SCH_RB_NUM - UL_min_idleRB

(* Mutant: UL_min_idleRB is not moved. *)
non_resident_resource_apply_kept(u, n) ==
  /\ requests < MaxRequests
  /\ requests' = requests + 1
  /\ ul' = [ul EXCEPT ![u] = [begin |-> UL_min_idleRB, total |-> Granted(n)]]
  /\ UNCHANGED <<users, buffer, arrived, poll_wave_index, UL_min_idleRB, radio>>

non_resident_resource_apply(u, n) ==
  /\ requests < MaxRequests
  /\ requests' = requests + 1
  /\ ul' = [ul EXCEPT ![u] = [begin |-> UL_min_idleRB, total |-> Granted(n)]]
  /\ UL_min_idleRB' = UL_min_idleRB + Granted(n)
  /\ UNCHANGED <<users, buffer, arrived, poll_wave_index, radio>>

-----------------------------------------------------------------------------
(* poll_wave_index_renew_MLRA *)

(* The packets that wait for the rows of a wave, in each row those of its
   user. *)
Waiting(w) == UNION {{row} \X DOMAIN buffer[row[1]] : row \in users[w]}

Demand(w) == Cardinality(Waiting(w))

Interferers(w) == {v \in Wave \ {w} : <<w, v>> \in Interference /\ Demand(v) > 0}

Score(w) == Demand(w) - 500 * Cardinality(Interferers(w))

(* A highest score below this is taken for none at all. *)
LowestScore == -90000

(* Mutant: the highest score so far begins at 0. *)
SelectedAboveZero == {w \in PolledWave :
                        /\ Score(w) > 0
                        /\ \A v \in PolledWave :
                             \/ Score(v) < Score(w)
                             \/ Score(v) = Score(w) /\ w <= v}

(* The first of the polled waves with demand that have the highest score. *)
Selected == {w \in PolledWave :
               /\ Demand(w) > 0 /\ Score(w) > LowestScore
               /\ \A v \in PolledWave : Demand(v) > 0 =>
                    \/ Score(v) < Score(w)
                    \/ Score(v) = Score(w) /\ w <= v}

poll_wave_index_renew_MLRA ==
  \/ /\ Selected # {}
     /\ poll_wave_index' \in Selected
  \/ /\ Selected = {}
     /\ poll_wave_index' = (poll_wave_index + 1) % WAVE_NUM_PER_BBU

(* sortLevel_MLRA on the polled wave, whose rows nobody reads before. *)
RowOrders(w) ==
  {[i \in DOMAIN r |-> r[i][1]] : r \in
     {r \in [1 .. Cardinality(users[w]) -> users[w]] :
        \A i, j \in DOMAIN r : r[i] = r[j] => i = j}}

(***************************************************************************)
(* SCH_RB_Reception_info_renew of the rows in use, how often for a user.   *)
(* Its row counter is not initialised: the loop begins anywhere.           *)
(***************************************************************************)
Renewals(rows, start, u) == Cardinality({i \in DOMAIN rows : i >= start /\ rows[i] = u})

(* What is then the grant to be heard, and the one to be told.  The renewal of
   a second row of the user takes away what the first has moved. *)
Early(rows, start) ==
  [u \in User |-> LET n == Renewals(rows, start, u)
                  IN  IF n = 0 THEN eatrly_ul[u] ELSE IF n = 1 THEN ul[u] ELSE NoGrant]

Uplink(rows, start) ==
  [u \in User |-> IF Renewals(rows, start, u) = 0 THEN ul[u] ELSE NoGrant]

-----------------------------------------------------------------------------
(***************************************************************************)
(* The packaging buffers.  Messages of the given lengths are pushed to an  *)
(* App_queue that has just been initialised: which are in it afterwards,   *)
(* or whether a push faults.                                               *)
(***************************************************************************)
Empty == [ring |-> [head |-> 0, tail |-> 0], kept |-> {}, faults |-> FALSE]

Put(p, k, n) ==
  IF p.faults \/ ~Accepts(p.ring, n) THEN p
  ELSE IF PushFaults(p.ring, n)
    THEN [ring |-> p.ring, kept |-> p.kept, faults |-> TRUE]
  ELSE [ring |-> [head |-> HeadAfter(p.ring, n), tail |-> p.ring.tail],
        kept |-> p.kept \cup {k}, faults |-> FALSE]

Packaged(lens) ==
  LET after[k \in 0 .. Len(lens)] ==
        IF k = 0 THEN Empty ELSE Put(after[k - 1], k, lens[k])
  IN  after[Len(lens)]

(* The first k lengths together. *)
SumTo(lens, k) ==
  LET sum[i \in 0 .. Len(lens)] == IF i = 0 THEN 0 ELSE sum[i - 1] + lens[i]
  IN  sum[k]

(* Mutant: the RBs that are left are not looked at. *)
TakenByVolume(lens, surplus_ByteNum) ==
  Cardinality({k \in DOMAIN lens :
                 SumTo(lens, k) <= PER_UE_MAX_DL_VOLUME - MAC_FRAME_LENGTH})

(* How many packets the loop takes: as long as they fit in the volume of one
   user and in surplus_ByteNum. *)
Taken(lens, surplus_ByteNum) ==
  LET fits(k) == /\ SumTo(lens, k) <= PER_UE_MAX_DL_VOLUME - MAC_FRAME_LENGTH
                 /\ SumTo(lens, k) <= surplus_ByteNum
  IN  Cardinality({k \in DOMAIN lens : fits(k)})

(* CCH_pk_generate for a user with a DL grant: the packages in its order. *)
Packages(uplink) == <<"REPORT">> \o (IF uplink # NoGrant THEN <<"UL">> ELSE <<>>)
                                 \o <<"DL">>

CCHLens(packages) ==
  [k \in DOMAIN packages |-> IF packages[k] = "REPORT" THEN ReportLen ELSE GrantLen]

CCH_pk_generate(uplink) ==
  {Packages(uplink)[k] : k \in Packaged(CCHLens(Packages(uplink))).kept}

(* SCH_data is the end of its entry and has no room of its own: n bytes of it
   lie over so many of the following entries. *)
Reach(n) == Ceil(n, EntryLen)

(* Row i's entry and its data are written: the entries under the data are
   lost, and so are the data of earlier rows that reach to row i. *)
Written(entries, i, entry) ==
  [j \in Slot |->
     IF j = i THEN entry
     ELSE IF j > i /\ j <= i + Reach(entry.grant.total * per_RB_ByteNum)
       THEN Overwritten
     ELSE IF /\ j < i
             /\ entries[j] \notin {Nobody, Overwritten}
             /\ i <= j + Reach(entries[j].bytes)
       THEN [entries[j] EXCEPT !.whole = FALSE]
     ELSE entries[j]]

(* Mutant: DL_min_flash_available_idleRB is not moved. *)
flash_after_kept(flash, total) == flash

flash_after(flash, total) == (flash + total) % Word

(***************************************************************************)
(* One turn of the loop over the rows, for a user with data.  What the     *)
(* loop has changed so far is s: s.flash is DL_min_flash_available_idleRB. *)
(***************************************************************************)
ServeRow(s, i, u, uplink, early) ==
  LET lens    == s.buffer[u]
      surplus == (SCH_RB_NUM + RB_TOTALNUM - s.flash) % Word
      taken   == Taken(lens, (surplus * per_RB_ByteNum) % Word)
      kept    == Packaged(SubSeq(lens, 1, taken))
      total   == Ceil(SumTo(lens, taken) + MAC_FRAME_LENGTH, per_RB_ByteNum)
      grant   == [begin |-> s.flash, total |-> total]
      first   == IF 1 \in kept.kept THEN lens[1] ELSE 0
  IN  [flash   |-> flash_after(s.flash, total),
       buffer  |-> [s.buffer EXCEPT ![u] = SubSeq(@, taken + 1, Len(@))],
       dl      |-> [s.dl EXCEPT ![u] = grant],
       entries |-> Written(s.entries, i,
                           [user |-> u, grant |-> grant, bytes |-> first,
                            cch |-> CCH_pk_generate(uplink), whole |-> TRUE]),
       heard   |-> [s.heard EXCEPT ![i] = early],
       served  |-> s.served \cup {i},
       faults  |-> s.faults \/ kept.faults]

(* Before the loop. *)
Unserved ==
  [flash |-> RB_TOTALNUM, buffer |-> buffer, dl |-> dl,
   entries |-> Mac_to_PHY_data, heard |-> RB_Reception_Info,
   served |-> {}, faults |-> FALSE]

(* Users without data are passed over. *)
Turn(s, i, u, uplink, early) ==
  IF s.faults \/ s.buffer[u] = <<>> THEN s ELSE ServeRow(s, i, u, uplink, early)

(* The whole loop over the rows of the polled wave. *)
ServeRows(rows, uplink, early) ==
  LET after[i \in 0 .. Len(rows)] ==
        IF i = 0 THEN Unserved
        ELSE Turn(after[i - 1], i, rows[i], uplink[rows[i]], early[rows[i]])
  IN  after[Len(rows)]

(***************************************************************************)
(* prepare_next_subframe_send_data.  A fault ends the process somewhere in *)
(* the loop; nothing is said of the subframe it happens in.                *)
(***************************************************************************)
prepare_next_subframe_send_data ==
  /\ poll_wave_index_renew_MLRA
  /\ \E rows \in RowOrders(poll_wave_index'), start \in 1 .. PER_WAVE_MAX_NUM + 1 :
       LET early  == Early(rows, start)
           uplink == Uplink(rows, start)
       IN  \E after \in {ServeRows(rows, uplink, early)} :
             /\ crashed' = after.faults
             /\ IF after.faults
                  THEN UNCHANGED <<buffer, dl, ul, eatrly_ul, Mac_to_PHY_data,
                                   RB_Reception_Info, send_user_num, served>>
                  ELSE /\ buffer' = after.buffer
                       /\ dl' = after.dl
                       /\ ul' = uplink
                       /\ eatrly_ul' = early
                       /\ Mac_to_PHY_data' = after.entries
                       /\ RB_Reception_Info' = after.heard
                       /\ send_user_num' = Len(rows)
                       /\ served' = after.served
  /\ UNCHANGED <<users, arrived, requests, UL_min_idleRB>>

-----------------------------------------------------------------------------
(* The two frames for the PHY, put together at the end of the subframe. *)

(* What an entry says of its SCH data.  In an overwritten one anything may
   stand: 0 is the least. *)
SCH_TBS(entry) ==
  CASE entry = Nobody      -> Word - 1
    [] entry = Overwritten -> 0
    [] OTHER               -> (entry.grant.total * per_RB_ByteNum) % Word

(* Their lengths: each row in use, with or without data, adds its parts. *)
Mac_PHY_send_frame_Hendler ==
  FoldLeft(LAMBDA n, i : n + 1 + CCH_DATA_LENGTH + 7 + SCH_TBS(Mac_to_PHY_data[i]),
           1, [i \in 1 .. send_user_num |-> i])

Mac_PHY_rec_frame_Hendler == 1 + send_user_num * 8

(* The sizes of the buffers they are put in. *)
Mac_to_PHY_send_frame_buffer == PER_WAVE_MAX_NUM * (1031 + 1 + CCH_DATA_LENGTH) + 1

Mac_to_PHY_rec_frame_buffer == PER_WAVE_MAX_NUM * 8 + 1

Next ==
  /\ ~crashed
  /\ \/ \E u \in User : \/ \E w \in Wave_num[u] : Access(u, w)
                        \/ \E n \in DataLen : TYPE_MSG_division_Handle(u, n)
                        \/ \E n \in RBNum : non_resident_resource_apply(u, n)
     \/ prepare_next_subframe_send_data

Spec == Init /\ [][Next]_vars

-----------------------------------------------------------------------------
RBs(grant) == IF grant = NoGrant THEN {}
              ELSE grant.begin .. grant.begin + grant.total - 1

UplinkGrants(u) == {ul[u], eatrly_ul[u]}

(***************************************************************************)
(* An uplink RB is granted once: whatever the order of requests and        *)
(* subframes, the latest and the earlier grant of all users lie apart from *)
(* each other, in the part of the range that has been given out.           *)
(***************************************************************************)
UplinkGrantsApart ==
  /\ \A u \in User : /\ RBs(ul[u]) \cap RBs(eatrly_ul[u]) = {}
                     /\ \A g \in UplinkGrants(u) :
                          RBs(g) \subseteq RB_TOTALNUM .. UL_min_idleRB - 1
  /\ \A u, v \in User : u # v =>
       \A g \in UplinkGrants(u), h \in UplinkGrants(v) : RBs(g) \cap RBs(h) = {}

(* No later row with data is one of the same user. *)
LastOfUser(i) == \A j \in served : j > i => Mac_to_PHY_data[j].user # Mac_to_PHY_data[i].user

(***************************************************************************)
(* The entry of a row that had data is in the frame in spite of the data   *)
(* of the rows before it, and no other row of the subframe with data has   *)
(* one of its RBs, be it another row of the same user.  What is registered *)
(* for a user are the RBs of the last of his rows.                         *)
(***************************************************************************)
ServedEntries ==
  \A i \in served :
    /\ Mac_to_PHY_data[i] \notin {Nobody, Overwritten}
    /\ LastOfUser(i) => dl[Mac_to_PHY_data[i].user] = Mac_to_PHY_data[i].grant
    /\ \A j \in served \ {i} :
         RBs(Mac_to_PHY_data[i].grant) \cap RBs(Mac_to_PHY_data[j].grant) = {}

End(i) == Mac_to_PHY_data[i].grant.begin + Mac_to_PHY_data[i].grant.total

Limit == RB_TOTALNUM + SCH_RB_NUM

(***************************************************************************)
(* The RBs run out of the range by the MAC header only: the first grant of *)
(* a subframe that ends beyond the last RB ends one RB beyond it.          *)
(***************************************************************************)
FirstOverrunIsHeader ==
  \A i \in served :
    (\A j \in served : j < i => End(j) <= Limit) => End(i) <= Limit + 1

(* A packet that stands behind a longer one. *)
FallingLength ==
  \E u \in User : \E k, l \in DOMAIN buffer[u] : k < l /\ buffer[u][l] < buffer[u][k]

(***************************************************************************)
(* The packaging buffer faults only on packets of falling length: a        *)
(* subframe in which no packet stands behind a longer one of its user does *)
(* not crash, also when a second row of the user begins where the first    *)
(* has stopped.                                                            *)
(***************************************************************************)
CrashNeedsShorterPacket == [][crashed' => FallingLength]_vars

(***************************************************************************)
(* No subframe is wasted: when a polled wave has demand, the subframe      *)
(* takes a packet out of some user's buffer, whichever wave the choice by  *)
(* demand and interference falls on.  So when packets stop arriving, the   *)
(* polled waves are empty after as many subframes as there are packets.    *)
(***************************************************************************)
SubframeProgress ==
  [][(UNCHANGED <<users, arrived, requests>> /\ \E w \in PolledWave : Demand(w) > 0)
       => crashed' \/ \E u \in User : Len(buffer'[u]) < Len(buffer[u])]_vars

(* "The size of the array is that of a virtual beam position full of users with
   all their service data at the maximum": both frames fit in their buffers. *)
SendFrameFits ==
  /\ Mac_PHY_rec_frame_Hendler <= Mac_to_PHY_rec_frame_buffer
  /\ Mac_PHY_send_frame_Hendler <= Mac_to_PHY_send_frame_buffer
=============================================================================
