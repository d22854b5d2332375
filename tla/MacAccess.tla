----------------------------- MODULE MacAccess -----------------------------
(***************************************************************************)
(* Random access of users to the waves (virtual beam positions) of one     *)
(* base-band unit: RAMSG_process and what it calls, on the table           *)
(* wave_ueser_mapPtrArray, the registration list UserInfo_PtrArray, the    *)
(* idle CCH RB lists and the counters.  Each call is one step, as under    *)
(* Global_MAC_Lock.  The scheduler reorders a wave between two accesses.   *)
(***************************************************************************)
EXTENDS Integers, FiniteSets, Functions

CONSTANTS RNTI,              (* the U_RNTI values that requests carry *)
          RNTI_LOW,          (* the index is the RNTI modulo this, 2^16 *)
          Service,           (* the service types that they ask for *)
          Wave,              (* local wave indices *)
          PER_WAVE_MAX_NUM,  (* rows of one wave, 10 *)
          NoUE,              (* 0xFFFFFFFF in U_RNTI, NULL in a queue pointer *)
          MaxAttempts        (* bound on the requests received *)

ASSUME AccessAssumption ==
  /\ RNTI \subseteq Nat
  /\ RNTI_LOW \in Nat \ {0}
  /\ Service \subseteq {"VOICE", "VIDEO", "WEB", "BACKGROUND"}
  /\ PER_WAVE_MAX_NUM \in Nat \ {0}
  /\ NoUE \notin Nat
  /\ MaxAttempts \in Nat

VARIABLES table,             (* wave_ueser_mapPtrArray *)
          per_wave_usernum,  (* rows in use on each wave, as counted *)
          info,              (* UserInfo_PtrArray *)
          idle,              (* idle[d][w]: the idle CCH RB list of wave w in
                                direction d has its entry; see RecordQueue *)
          stats,             (* g_MacStats and access_ue_count *)
          asked              (* ghost: the requests that got a row *)

vars == <<table, per_wave_usernum, info, idle, stats, asked>>

-----------------------------------------------------------------------------
Slot == 1 .. PER_WAVE_MAX_NUM

(* The static level of a service, 1 the highest. *)
QoS_Mapping(service) == CASE service = "VOICE"      -> 1
                          [] service = "VIDEO"      -> 2
                          [] service = "WEB"        -> 2
                          [] service = "BACKGROUND" -> 3

RealTime(service) == service \in {"VOICE", "VIDEO"}

(* BBU_index is 0, so the local index is the low half of the RNTI. *)
RNTI_to_LocalIndex_map(rnti) == rnti % RNTI_LOW

Index == {RNTI_to_LocalIndex_map(r) : r \in RNTI}

Direction == {"UL", "DL"}

(***************************************************************************)
(* A row of UserInfo_Block.  Location_Factor stands for the user whose     *)
(* distance it was computed from, User_DataQueue_ptr for the index of the  *)
(* buffer it points to.  MCS is 5 in every row in use.                     *)
(***************************************************************************)
Row == [State              : {0, 1},
        U_RNTI             : RNTI \cup {NoUE},
        UE_Level           : {1, 2, 3, 255},
        User_DataQueue_ptr : Index \cup {NoUE},
        Is_RealTime        : BOOLEAN,
        Location_Factor    : RNTI \cup {NoUE}]

(* State 0; what the other fields hold is never read. *)
FreeRow == [State |-> 0, U_RNTI |-> NoUE, UE_Level |-> 255,
            User_DataQueue_ptr |-> NoUE, Is_RealTime |-> FALSE,
            Location_Factor |-> NoUE]

(* The registration of a user: UserInfo.  On base-band unit 0 the wave number
   it keeps is the local index. *)
Info == [state              : {0, 1},
         U_RNTI             : RNTI \cup {NoUE},
         BeamPositionIndex  : Wave \cup {NoUE},
         wave_user_index    : Nat \cup {NoUE},
         uplink_FrequencyPoint   : {0, 255},
         downlink_FrequencyPoint : {0, 255}]

UserInfo_init == [state |-> 0, U_RNTI |-> NoUE, BeamPositionIndex |-> NoUE,
                  wave_user_index |-> NoUE, uplink_FrequencyPoint |-> 255,
                  downlink_FrequencyPoint |-> 255]

Active(rows) == {i \in Slot : rows[i].State = 1}

TypeOK ==
  /\ table \in [Wave -> [Slot -> Row]]
  /\ per_wave_usernum \in [Wave -> 0 .. PER_WAVE_MAX_NUM]
  /\ info \in [Index -> Info]
  /\ idle \in [Direction -> [Wave -> BOOLEAN]]
  /\ stats \in [rach_attempts : Nat, rach_success : Nat,
                rach_collisions : Nat, access_ue_count : Nat]
  /\ asked \in SUBSET (RNTI \X Service)

(* One entry of each of the two lists of every wave got in: see RecordQueue. *)
init_CCH_idlerb_list == [d \in Direction |-> [w \in Wave |-> TRUE]]

(* MAC_U_init *)
Init ==
  /\ table = [w \in Wave |-> [i \in Slot |-> FreeRow]]
  /\ per_wave_usernum = [w \in Wave |-> 0]
  /\ info = [x \in Index |-> UserInfo_init]
  /\ idle = init_CCH_idlerb_list
  /\ stats = [rach_attempts |-> 0, rach_success |-> 0,
              rach_collisions |-> 0, access_ue_count |-> 0]
  /\ asked = {}

-----------------------------------------------------------------------------
(* The two sorts of a wave's rows. *)

(* The orders that whole rows can come to stand in. *)
Order == Bijection(Slot, Slot)

Rearranged(rows, p) == [i \in Slot |-> rows[p[i]]]

(* Mutant: by priority only, free rows included. *)
AnyOrder(rows) == {Rearranged(rows, p) : p \in Order}

(***************************************************************************)
(* sortLevel_MLRA: whole rows change places, rows in use first, the higher *)
(* Dynamic_Priority first.  The priority comes from rates, delays and      *)
(* queue lengths, which are abstracted: any order of the rows in use.      *)
(***************************************************************************)
sortLevel_MLRA(rows) ==
  {Rearranged(rows, p) : p \in
     {p \in Order :
        \A i, j \in Slot : (i < j /\ rows[p[j]].State = 1)
                             => rows[p[i]].State = 1}}

(***************************************************************************)
(* sortLevel: a stable sort by UE_Level of the rows in use, which moves    *)
(* the user's RNTI, level and queue and leaves the row's other fields.     *)
(***************************************************************************)
(* Mutant: the queue pointer is not swapped. *)
IdentifiedNoQueue(rows, p) ==
  [i \in Slot |-> [rows[i] EXCEPT !.U_RNTI   = rows[p[i]].U_RNTI,
                                  !.UE_Level = rows[p[i]].UE_Level]]

(* Mutant: a swap without the temporary. *)
IdentifiedOneWay(rows, p) ==
  [i \in Slot |-> IF i < p[i] THEN rows[p[i]] ELSE rows[i]]

Identified(rows, p) ==
  [i \in Slot |->
     [State              |-> rows[i].State,
      U_RNTI             |-> rows[p[i]].U_RNTI,
      UE_Level           |-> rows[p[i]].UE_Level,
      User_DataQueue_ptr |-> rows[p[i]].User_DataQueue_ptr,
      Is_RealTime        |-> rows[i].Is_RealTime,
      Location_Factor    |-> rows[i].Location_Factor]]

(* Mutant: rows of one level in any order. *)
LevelOrderUnstable(rows, p) ==
  /\ \A i \in Slot \ Active(rows) : p[i] = i
  /\ \A i, j \in Active(rows) :
       i < j => rows[p[i]].UE_Level <= rows[p[j]].UE_Level

LevelOrder(rows, p) ==
  /\ \A i \in Slot \ Active(rows) : p[i] = i
  /\ \A i, j \in Active(rows) : i < j =>
       \/ rows[p[i]].UE_Level < rows[p[j]].UE_Level
       \/ rows[p[i]].UE_Level = rows[p[j]].UE_Level /\ p[i] < p[j]

sortLevel(rows) ==
  {Identified(rows, p) : p \in {p \in Order : LevelOrder(rows, p)}}

(***************************************************************************)
(* The same sorts as the code writes them: passes over the rows, each one  *)
(* row shorter than the one before, in which a row changes places with the *)
(* next.                                                                   *)
(***************************************************************************)
Exchange(j) == [i \in Slot |-> CASE i = j     -> j + 1
                                 [] i = j + 1 -> j
                                 [] OTHER     -> i]

(* Turn j of a pass of sortLevel, over rows j and j + 1.  A row not in use
   ends the pass, and no turn changes which rows are in use. *)
LevelTurn(rows, j) ==
  IF /\ \A i \in 1 .. j : rows[i + 1].State # 0
     /\ rows[j].UE_Level > rows[j + 1].UE_Level
  THEN Identified(rows, Exchange(j)) ELSE rows

LevelPass(rows, last) ==
  LET turn[j \in 0 .. last] == IF j = 0 THEN rows ELSE LevelTurn(turn[j - 1], j)
  IN  turn[last]

LevelLoop(rows) ==
  LET pass[i \in 0 .. PER_WAVE_MAX_NUM - 1] ==
        IF i = 0 THEN rows ELSE LevelPass(pass[i - 1], PER_WAVE_MAX_NUM - i)
  IN  pass[PER_WAVE_MAX_NUM - 1]

(* Turn j of a pass of sortLevel_MLRA over a wave, which is its rows and the
   Dynamic_Priority of each: a number of Slot, since only which of two is the
   higher counts. *)
PriorityTurn(wave, j) ==
  IF /\ wave.rows[j + 1].State = 1
     /\ \/ wave.rows[j].State = 0
        \/ wave.priority[j + 1] > wave.priority[j]
  THEN [rows     |-> Rearranged(wave.rows, Exchange(j)),
        priority |-> Rearranged(wave.priority, Exchange(j))]
  ELSE wave

PriorityPass(wave, last) ==
  LET turn[j \in 0 .. last] == IF j = 0 THEN wave ELSE PriorityTurn(turn[j - 1], j)
  IN  turn[last]

PriorityLoop(wave) ==
  LET pass[i \in 0 .. PER_WAVE_MAX_NUM - 1] ==
        IF i = 0 THEN wave ELSE PriorityPass(pass[i - 1], PER_WAVE_MAX_NUM - i)
  IN  pass[PER_WAVE_MAX_NUM - 1]

-----------------------------------------------------------------------------
(* RAMSG_process *)

(* The counters after one more attempt, with its 0 or 1 of the others. *)
Counted(success, collision, access) ==
  [rach_attempts   |-> stats.rach_attempts + 1,
   rach_success    |-> stats.rach_success + success,
   rach_collisions |-> stats.rach_collisions + collision,
   access_ue_count |-> stats.access_ue_count + access]

(***************************************************************************)
(* What App_queue_empty says of a list at index x of the two arrays of     *)
(* idle lists.  The index is a user's, the arrays have one list for each   *)
(* wave: past their end either answer may come back.                       *)
(***************************************************************************)
SeenEmpty(x) == IF x \in Wave THEN {~idle["UL"][x] \/ ~idle["DL"][x]}
                              ELSE BOOLEAN

(* Mutant: the last row is taken even when it is in use. *)
FirstFreeOrLast(w) ==
  {i \in Slot : /\ table[w][i].State = 0 \/ i = PER_WAVE_MAX_NUM
                /\ \A j \in 1 .. i - 1 : table[w][j].State # 0}

(* The first row with State 0, if any. *)
FirstFree(w) == {i \in Slot : /\ table[w][i].State = 0
                              /\ \A j \in 1 .. i - 1 : table[w][j].State # 0}

(* Mutant: the number of the row is counted after the access. *)
CCH_resource_allocation_late(rnti, w) ==
  /\ info' = [info EXCEPT ![RNTI_to_LocalIndex_map(rnti)] =
                [state |-> 1, U_RNTI |-> rnti, BeamPositionIndex |-> w,
                 wave_user_index |-> per_wave_usernum[w] + 1,
                 uplink_FrequencyPoint |-> 0, downlink_FrequencyPoint |-> 0]]
  /\ idle' = [d \in Direction |-> [idle[d] EXCEPT ![w] = FALSE]]

(***************************************************************************)
(* CCH_resource_allocation: both lists of the wave are popped empty.  The  *)
(* first RB of a full list is cch_rb_id[0] = 0, and the zeroed buffer that *)
(* an empty list leaves reads as RB 0 too.                                 *)
(***************************************************************************)
CCH_resource_allocation(rnti, w) ==
  /\ info' = [info EXCEPT ![RNTI_to_LocalIndex_map(rnti)] =
                [state |-> 1, U_RNTI |-> rnti, BeamPositionIndex |-> w,
                 wave_user_index |-> per_wave_usernum[w],
                 uplink_FrequencyPoint |-> 0, downlink_FrequencyPoint |-> 0]]
  /\ idle' = [d \in Direction |-> [idle[d] EXCEPT ![w] = FALSE]]

NewRow(rnti, service) ==
  [State |-> 1, U_RNTI |-> rnti, UE_Level |-> QoS_Mapping(service),
   User_DataQueue_ptr |-> RNTI_to_LocalIndex_map(rnti),
   Is_RealTime |-> RealTime(service), Location_Factor |-> rnti]

(* The list looked at is empty: logged, and nothing else. *)
Refuse(rnti) ==
  /\ TRUE \in SeenEmpty(RNTI_to_LocalIndex_map(rnti))
  /\ stats' = Counted(0, 0, 0)
  /\ UNCHANGED <<table, per_wave_usernum, info, idle, asked>>

(* A row is found: fill it, sort twice, answer with RARSP. *)
Admit(rnti, w, service) ==
  /\ FALSE \in SeenEmpty(RNTI_to_LocalIndex_map(rnti))
  /\ CCH_resource_allocation(rnti, w)
  /\ \E i \in FirstFree(w) :
       \E rows \in sortLevel_MLRA([table[w] EXCEPT ![i] = NewRow(rnti, service)]) :
         \E sorted \in sortLevel(rows) :
           table' = [table EXCEPT ![w] = sorted]
  /\ per_wave_usernum' = [per_wave_usernum EXCEPT ![w] = @ + 1]
  /\ stats' = Counted(1, 0, 1)
  /\ asked' = asked \cup {<<rnti, service>>}

(* Every row is in use: a collision, and the wave is sorted all the same. *)
Collide(rnti, w) ==
  /\ FALSE \in SeenEmpty(RNTI_to_LocalIndex_map(rnti))
  /\ FirstFree(w) = {}
  /\ \E sorted \in sortLevel(table[w]) : table' = [table EXCEPT ![w] = sorted]
  /\ stats' = Counted(0, 1, 0)
  /\ UNCHANGED <<per_wave_usernum, info, idle, asked>>

RAMSG_process(rnti, w, service) ==
  /\ stats.rach_attempts < MaxAttempts
  /\ \/ Refuse(rnti)
     \/ Admit(rnti, w, service)
     \/ Collide(rnti, w)

(* What a subframe of the scheduler does to the table. *)
SchedulerSort(w) ==
  /\ \E rows \in sortLevel_MLRA(table[w]) : table' = [table EXCEPT ![w] = rows]
  /\ UNCHANGED <<per_wave_usernum, info, idle, stats, asked>>

Next ==
  \E w \in Wave :
    \/ \E rnti \in RNTI, service \in Service : RAMSG_process(rnti, w, service)
    \/ SchedulerSort(w)

Spec == Init /\ [][Next]_vars

-----------------------------------------------------------------------------
(***************************************************************************)
(* The rows in use are the first ones of their wave, and per_wave_usernum  *)
(* counts them: the scheduler stops at the first row with State 0 and      *)
(* relies on no user standing behind it.                                   *)
(***************************************************************************)
ActivePrefix ==
  \A w \in Wave, i \in Slot :
    table[w][i].State = 1 <=> i <= per_wave_usernum[w]

(***************************************************************************)
(* A row is one user's: its level is that of a service its RNTI asked for, *)
(* and its queue is that RNTI's buffer, whatever sorts have moved it.      *)
(***************************************************************************)
RowIsOneUser ==
  \A w \in Wave, i \in Slot :
    table[w][i].State = 1 =>
      LET row == table[w][i]
      IN  /\ row.User_DataQueue_ptr = RNTI_to_LocalIndex_map(row.U_RNTI)
          /\ \E service \in Service :
               /\ <<row.U_RNTI, service>> \in asked
               /\ row.UE_Level = QoS_Mapping(service)

(***************************************************************************)
(* A registered user can be found: the wave its registration names has a   *)
(* row of its RNTI, and wave_user_index is the number of a row in use.     *)
(***************************************************************************)
RegisteredHasRow ==
  \A x \in Index :
    info[x].state = 1 =>
      /\ info[x].wave_user_index < per_wave_usernum[info[x].BeamPositionIndex]
      /\ \E i \in Slot :
           /\ table[info[x].BeamPositionIndex][i].State = 1
           /\ table[info[x].BeamPositionIndex][i].U_RNTI = info[x].U_RNTI

(***************************************************************************)
(* The two sorts do what the loops of the code do: on every wave that is   *)
(* reached, sortLevel gives the one order that its loop leaves, and        *)
(* sortLevel_MLRA just those that its loop leaves for some priorities.     *)
(***************************************************************************)
SortsAreBubbleSorts ==
  \A w \in Wave :
    /\ sortLevel(table[w]) = {LevelLoop(table[w])}
    /\ sortLevel_MLRA(table[w]) =
         {PriorityLoop([rows |-> table[w], priority |-> f]).rows : f \in [Slot -> Slot]}

(* A step never drops a user from a wave: the partial swaps of sortLevel and
   the row swaps of sortLevel_MLRA lose and double nobody. *)
Users(rows) == {rows[i].U_RNTI : i \in Active(rows)}

UsersKept == [][\A w \in Wave : Users(table[w]) \subseteq Users(table'[w])]_vars

(***************************************************************************)
(* A collision is reported only by a wave that has its full number of rows *)
(* in use, and reported instead of an access.                              *)
(***************************************************************************)
CollisionMeansFull ==
  [][stats'.rach_collisions > stats.rach_collisions =>
       /\ stats'.rach_success = stats.rach_success
       /\ \E w \in Wave : per_wave_usernum[w] = PER_WAVE_MAX_NUM]_vars

=============================================================================
