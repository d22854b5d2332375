-------------------------- MODULE MacAccessProofs --------------------------
(***************************************************************************)
(* Proofs about MacAccess, for every set of RNTIs, services and waves and  *)
(* every number of rows: the rows in use stay in front and are counted, a  *)
(* row stays one user's, and a registered user keeps a row, through both   *)
(* sorts and every order of accesses and subframes.                        *)
(***************************************************************************)
EXTENDS MacAccess, FiniteSetTheorems, WellFoundedInduction, TLAPS

Rows == [Slot -> Row]

(* The rows in use are the first n. *)
InFront(rows, n) == \A i \in Slot : rows[i].State = 1 <=> i <= n

(* Two rows with the fields that sortLevel moves. *)
SameUser(a, b) == /\ a.U_RNTI = b.U_RNTI
                  /\ a.UE_Level = b.UE_Level
                  /\ a.User_DataQueue_ptr = b.User_DataQueue_ptr

(* The rows in use of the one wave are the users of the other, and the other
   way round. *)
SameUsers(rows, sorted) ==
  /\ \A i \in Active(sorted) : \E j \in Active(rows) : SameUser(sorted[i], rows[j])
  /\ \A j \in Active(rows) : \E i \in Active(sorted) : SameUser(sorted[i], rows[j])

(* What the constants are. *)
LEMMA Numbers == /\ PER_WAVE_MAX_NUM \in Nat \ {0}
                 /\ RNTI \subseteq Nat /\ NoUE \notin Nat
  BY AccessAssumption

(* An order of the rows is one-to-one and leaves no row out. *)
LEMMA OrderIsBijection ==
  ASSUME NEW p \in Order
  PROVE  /\ p \in [Slot -> Slot]
         /\ \A i, j \in Slot : p[i] = p[j] => i = j
         /\ \A j \in Slot : \E i \in Slot : p[i] = j
  BY DEF Order, Bijection, Injection, Surjection, IsInjective

-----------------------------------------------------------------------------
(* A set of rows that has no gap at its front is the first ones. *)
LEMMA NoGap ==
  ASSUME NEW B \in SUBSET Slot, NEW n \in Nat, Cardinality(B) = n,
         \A i, j \in Slot : i < j /\ j \in B => i \in B
  PROVE  B = 1 .. n
<1>1. IsFiniteSet(B)
  <2>1. IsFiniteSet(Slot)
    BY Numbers, FS_Interval DEF Slot
  <2> QED
    BY <2>1, FS_Subset
<1>2. ASSUME NEW i \in B PROVE i \in 1 .. n
  <2>1. i \in Nat /\ 1 <= i /\ i \in Slot
    BY Numbers DEF Slot
  <2>2. 1 .. i \subseteq B
    BY <2>1, Numbers DEF Slot
  <2>3. Cardinality(1 .. i) = i
    BY <2>1, FS_Interval
  <2>4. Cardinality(1 .. i) <= Cardinality(B)
    BY <1>1, <2>2, FS_Subset
  <2> QED
    BY <2>1, <2>3, <2>4
<1>3. IsFiniteSet(1 .. n) /\ Cardinality(1 .. n) = n
  BY FS_Interval
<1>4. B \in SUBSET (1 .. n)
  BY <1>2
<1> QED
  BY <1>3, <1>4, FS_Subset

(***************************************************************************)
(* sortLevel_MLRA keeps as many rows in use as there were, and leaves them *)
(* in front, whatever the priorities.                                      *)
(***************************************************************************)
LEMMA MLRASortKeeps ==
  ASSUME NEW rows \in Rows, NEW n \in 0 .. PER_WAVE_MAX_NUM, InFront(rows, n),
         NEW sorted \in sortLevel_MLRA(rows)
  PROVE  /\ sorted \in Rows
         /\ InFront(sorted, n)
         /\ SameUsers(rows, sorted)
<1>1. PICK p \in Order :
        /\ sorted = Rearranged(rows, p)
        /\ \A i, j \in Slot : (i < j /\ rows[p[j]].State = 1) => rows[p[i]].State = 1
  BY DEF sortLevel_MLRA
<1>2. /\ p \in [Slot -> Slot]
      /\ \A i, j \in Slot : p[i] = p[j] => i = j
      /\ \A j \in Slot : \E i \in Slot : p[i] = j
  BY OrderIsBijection
<1>3. sorted \in Rows /\ \A i \in Slot : sorted[i] = rows[p[i]]
  BY <1>1, <1>2 DEF Rearranged, Rows
<1>4. n \in Nat /\ n <= PER_WAVE_MAX_NUM /\ 1 .. n \subseteq Slot
  BY Numbers DEF Slot
<1> DEFINE B == {i \in Slot : p[i] \in 1 .. n}
<1>5. \A i \in Slot : sorted[i].State = 1 <=> i \in B
  <2>1. \A j \in Slot : rows[j].State = 1 <=> j \in 1 .. n
    BY <1>4, Numbers DEF InFront, Slot
  <2> QED
    BY <1>2, <1>3, <2>1
<1>6. \A i, j \in Slot : i < j /\ j \in B => i \in B
  BY <1>1, <1>3, <1>5
<1>7. Cardinality(B) = n
  <2> DEFINE f == [i \in B |-> p[i]]
  <2>1. f \in [B -> 1 .. n]
    OBVIOUS
  <2>2. \A i, j \in B : f[i] = f[j] => i = j
    BY <1>2
  <2>3. \A j \in 1 .. n : \E i \in B : f[i] = j
    BY <1>2, <1>4
  <2> HIDE DEF f, B
  <2>4. f \in Bijection(B, 1 .. n)
    BY <2>1, <2>2, <2>3 DEF Bijection, Injection, Surjection, IsInjective
  <2>5. ExistsBijection(B, 1 .. n)
    BY <2>4 DEF ExistsBijection
  <2>6. IsFiniteSet(B)
    <3>1. IsFiniteSet(Slot)
      BY Numbers, FS_Interval DEF Slot
    <3> QED
      BY <3>1, FS_Subset DEF B
  <2>7. Cardinality(1 .. n) = n
    BY <1>4, FS_Interval
  <2> QED
    BY <2>5, <2>6, <2>7, FS_Bijection
<1>8. B = 1 .. n
  <2>1. B \in SUBSET Slot
    OBVIOUS
  <2> HIDE DEF B
  <2> QED
    BY <1>4, <1>6, <1>7, <2>1, NoGap
<1>9. InFront(sorted, n)
  <2> HIDE DEF B
  <2>1. \A i \in Slot : i \in 1 .. n <=> i <= n
    BY <1>4, Numbers DEF Slot
  <2> QED
    BY <1>5, <1>8, <2>1 DEF InFront
<1>10. SameUsers(rows, sorted)
  BY <1>2, <1>3 DEF SameUsers, SameUser, Active
<1> QED
  BY <1>3, <1>9, <1>10

(***************************************************************************)
(* sortLevel moves users among the rows in use: it swaps three fields, and *)
(* these three stay together.                                              *)
(***************************************************************************)
LEMMA LevelSortKeeps ==
  ASSUME NEW rows \in Rows, NEW sorted \in sortLevel(rows)
  PROVE  /\ sorted \in Rows
         /\ \A i \in Slot : sorted[i].State = rows[i].State
         /\ SameUsers(rows, sorted)
<1>1. PICK p \in Order : LevelOrder(rows, p) /\ sorted = Identified(rows, p)
  BY DEF sortLevel
<1>2. /\ p \in [Slot -> Slot]
      /\ \A i, j \in Slot : p[i] = p[j] => i = j
      /\ \A j \in Slot : \E i \in Slot : p[i] = j
  BY OrderIsBijection
<1>3. \A i \in Slot : /\ sorted[i].State = rows[i].State
                      /\ SameUser(sorted[i], rows[p[i]])
  BY <1>1 DEF Identified, SameUser
<1>4. sorted \in Rows
  BY <1>1, <1>2 DEF Identified, Rows, Row
<1>5. \A i \in Slot : i \in Active(rows) <=> p[i] \in Active(rows)
  BY <1>1, <1>2 DEF LevelOrder, Active
<1>6. Active(sorted) = Active(rows)
  BY <1>3 DEF Active
<1>7. SameUsers(rows, sorted)
  BY <1>2, <1>3, <1>5, <1>6 DEF SameUsers, Active
<1> QED
  BY <1>3, <1>4, <1>7

-----------------------------------------------------------------------------
(* RowIsOneUser for one wave. *)
Owned(rows, requests) ==
  \A i \in Active(rows) :
    /\ rows[i].User_DataQueue_ptr = RNTI_to_LocalIndex_map(rows[i].U_RNTI)
    /\ \E service \in Service : /\ <<rows[i].U_RNTI, service>> \in requests
                                /\ rows[i].UE_Level = QoS_Mapping(service)

(* RowIsOneUser, wave by wave. *)
LEMMA OwnedIsRowIsOneUser == RowIsOneUser <=> \A w \in Wave : Owned(table[w], asked)
  BY DEF RowIsOneUser, Owned, Active

(* A sort that keeps RNTI, level and queue together keeps every row its
   user's. *)
LEMMA SortKeepsOwned ==
  ASSUME NEW rows, NEW sorted, SameUsers(rows, sorted),
         NEW requests, Owned(rows, requests)
  PROVE  Owned(sorted, requests)
  BY DEF SameUsers, SameUser, Owned

(* And it loses nobody and invents nobody. *)
LEMMA SortKeepsUsers ==
  ASSUME NEW rows, NEW sorted, SameUsers(rows, sorted)
  PROVE  Users(sorted) = Users(rows)
  BY DEF SameUsers, SameUser, Users

-----------------------------------------------------------------------------
(* A registration names a wave; with it the four invariants are inductive. *)
Registered ==
  \A x \in Index :
    info[x].state = 1 =>
      /\ info[x].BeamPositionIndex \in Wave
      /\ info[x].wave_user_index \in Nat
      /\ info[x].wave_user_index < per_wave_usernum[info[x].BeamPositionIndex]
      /\ info[x].U_RNTI \in Users(table[info[x].BeamPositionIndex])

IInv ==
  /\ TypeOK
  /\ \A w \in Wave : /\ InFront(table[w], per_wave_usernum[w])
                     /\ Owned(table[w], asked)
  /\ Registered

(* The inductive invariant is as strong as what it is for. *)
LEMMA Implied == IInv => TypeOK /\ ActivePrefix /\ RowIsOneUser /\ RegisteredHasRow
<1> SUFFICES ASSUME IInv PROVE TypeOK /\ ActivePrefix /\ RowIsOneUser /\ RegisteredHasRow
  OBVIOUS
<1>1. TypeOK /\ RowIsOneUser
  BY OwnedIsRowIsOneUser DEF IInv
<1>2. ActivePrefix
  BY DEF IInv, InFront, ActivePrefix
<1>3. RegisteredHasRow
  BY DEF IInv, Registered, RegisteredHasRow, Users, Active
<1> QED
  BY <1>1, <1>2, <1>3

(* It holds of the tables that MAC_U_init leaves. *)
LEMMA InitInvariant == Init => IInv
<1> SUFFICES ASSUME Init PROVE IInv
  OBVIOUS
<1>1. FreeRow \in Row /\ FreeRow.State = 0
  BY DEF FreeRow, Row
<1>2. \A w \in Wave : table[w] \in Rows /\ \A i \in Slot : table[w][i].State = 0
  BY <1>1 DEF Init, Rows
<1>3. table \in [Wave -> Rows]
  BY <1>1 DEF Init, Rows
<1>4. UserInfo_init \in Info /\ UserInfo_init.state = 0
  BY DEF UserInfo_init, Info
<1>5. \A x \in Index : info[x].state = 0
  BY <1>4 DEF Init
<1>6. TypeOK
  BY <1>3, <1>4, Numbers DEF Init, init_CCH_idlerb_list, TypeOK, Rows
<1>7. \A w \in Wave : InFront(table[w], per_wave_usernum[w]) /\ Owned(table[w], asked)
  <2> SUFFICES ASSUME NEW w \in Wave
               PROVE  InFront(table[w], per_wave_usernum[w]) /\ Owned(table[w], asked)
    OBVIOUS
  <2>1. per_wave_usernum[w] = 0 /\ \A i \in Slot : ~(i <= 0)
    BY Numbers DEF Init, Slot
  <2>2. \A i \in Slot : table[w][i].State # 1
    BY <1>2
  <2> QED
    BY <2>1, <2>2 DEF InFront, Owned, Active
<1>8. Registered
  BY <1>5 DEF Registered
<1> QED
  BY <1>6, <1>7, <1>8 DEF IInv

Counters == [rach_attempts : Nat, rach_success : Nat,
             rach_collisions : Nat, access_ue_count : Nat]

(* The counters stay numbers. *)
LEMMA CountedType ==
  ASSUME TypeOK, NEW success \in Nat, NEW collision \in Nat, NEW access \in Nat
  PROVE  Counted(success, collision, access) \in Counters
  BY DEF TypeOK, Counted, Counters

(* A step that only sorts a wave: a subframe, or an access to a full wave. *)
LEMMA SortStep ==
  ASSUME IInv, NEW w \in Wave, NEW sorted \in Rows,
         InFront(sorted, per_wave_usernum[w]), SameUsers(table[w], sorted),
         table' = [table EXCEPT ![w] = sorted],
         stats' \in Counters, UNCHANGED <<per_wave_usernum, info, idle, asked>>
  PROVE  /\ IInv'
         /\ \A v \in Wave : Users(table[v]) \subseteq Users(table'[v])
<1>1. TypeOK'
  BY DEF IInv, TypeOK, Rows, Counters
<1>2. \A v \in Wave : table'[v] = IF v = w THEN sorted ELSE table[v]
  BY DEF IInv, TypeOK
<1>3. \A v \in Wave : Users(table'[v]) = Users(table[v])
  BY <1>2, SortKeepsUsers
<1>4. Owned(sorted, asked)
  BY SortKeepsOwned DEF IInv
<1>5. \A v \in Wave : InFront(table'[v], per_wave_usernum'[v]) /\ Owned(table'[v], asked')
  BY <1>2, <1>4 DEF IInv
<1>6. Registered'
  BY <1>3 DEF IInv, Registered
<1> QED
  BY <1>1, <1>3, <1>5, <1>6 DEF IInv

(* An access that an empty idle list refuses changes no row. *)
LEMMA RefuseStep ==
  ASSUME IInv, NEW rnti \in RNTI, Refuse(rnti)
  PROVE  /\ IInv'
         /\ \A v \in Wave : Users(table[v]) \subseteq Users(table'[v])
<1>1. stats' \in Counters
  BY CountedType DEF IInv, Refuse
<1>2. TypeOK'
  BY <1>1 DEF IInv, TypeOK, Refuse, Counters
<1> QED
  BY <1>2 DEF IInv, Refuse, InFront, Owned, Registered, Users, Active

(* The row that RAMSG_process finds is the one after the rows in use. *)
LEMMA FirstFreeIsNext ==
  ASSUME IInv, NEW w \in Wave
  PROVE  /\ \A i \in FirstFree(w) : i = per_wave_usernum[w] + 1
         /\ FirstFree(w) = {} => per_wave_usernum[w] = PER_WAVE_MAX_NUM
<1>1. /\ per_wave_usernum[w] \in 0 .. PER_WAVE_MAX_NUM
      /\ \A i \in Slot : table[w][i].State \in {0, 1}
  BY DEF IInv, TypeOK, Row
<1>2. \A i \in Slot : table[w][i].State = 1 <=> i <= per_wave_usernum[w]
  BY DEF IInv, InFront
<1>3. ASSUME NEW i \in FirstFree(w) PROVE i = per_wave_usernum[w] + 1
  <2>1. /\ i \in Slot /\ table[w][i].State = 0
        /\ \A j \in 1 .. i - 1 : table[w][j].State # 0
    BY DEF FirstFree
  <2>2. \A j \in 1 .. i - 1 : j \in Slot
    BY <2>1, Numbers DEF Slot
  <2>3. i \in Nat /\ 1 <= i /\ ~(i <= per_wave_usernum[w])
    BY <1>2, <2>1, Numbers DEF Slot
  <2>4. \A j \in 1 .. i - 1 : j <= per_wave_usernum[w]
    BY <1>1, <1>2, <2>1, <2>2
  <2>5. i = 1 \/ i - 1 \in 1 .. i - 1
    BY <2>3
  <2> QED
    BY <1>1, <2>3, <2>4, <2>5, Numbers
<1>4. ASSUME FirstFree(w) = {} PROVE per_wave_usernum[w] = PER_WAVE_MAX_NUM
  <2> DEFINE i == per_wave_usernum[w] + 1
  <2> SUFFICES ASSUME per_wave_usernum[w] # PER_WAVE_MAX_NUM PROVE i \in FirstFree(w)
    BY <1>4
  <2>1. i \in Slot /\ \A j \in 1 .. i - 1 : j \in Slot /\ j <= per_wave_usernum[w]
    BY <1>1, Numbers DEF Slot
  <2>2. ~(i <= per_wave_usernum[w])
    BY <1>1, Numbers
  <2>3. table[w][i].State = 0 /\ \A j \in 1 .. i - 1 : table[w][j].State # 0
    BY <1>1, <1>2, <2>1, <2>2
  <2> QED
    BY <2>1, <2>3 DEF FirstFree
<1> QED
  BY <1>3, <1>4

(* What RAMSG_process writes into a row is a row. *)
LEMMA NewRowType ==
  ASSUME NEW rnti \in RNTI, NEW service \in Service
  PROVE  NewRow(rnti, service) \in Row
<1>1. QoS_Mapping(service) \in {1, 2, 3, 255} /\ RealTime(service) \in BOOLEAN
  BY AccessAssumption DEF QoS_Mapping, RealTime
<1>2. RNTI_to_LocalIndex_map(rnti) \in Index
  BY DEF Index
<1> QED
  BY <1>1, <1>2 DEF NewRow, Row

(* A wave with the new row behind the others, before the sorts. *)
LEMMA FilledWave ==
  ASSUME IInv, NEW w \in Wave, NEW rnti \in RNTI, NEW service \in Service,
         NEW i \in FirstFree(w), NEW filled,
         filled = [table[w] EXCEPT ![i] = NewRow(rnti, service)]
  PROVE  /\ filled \in Rows
         /\ per_wave_usernum[w] + 1 \in 0 .. PER_WAVE_MAX_NUM
         /\ InFront(filled, per_wave_usernum[w] + 1)
         /\ Owned(filled, asked \cup {<<rnti, service>>})
         /\ Users(filled) = Users(table[w]) \cup {rnti}
<1>1. i \in Slot /\ table[w] \in Rows /\ table[w][i].State = 0
  BY DEF IInv, TypeOK, Rows, FirstFree
<1>2. /\ per_wave_usernum[w] \in Nat /\ PER_WAVE_MAX_NUM \in Nat
      /\ i = per_wave_usernum[w] + 1 /\ i <= PER_WAVE_MAX_NUM
  BY <1>1, FirstFreeIsNext, Numbers DEF IInv, TypeOK, Slot
<1>3. filled \in Rows
  BY <1>1, NewRowType DEF Rows
<1>4. \A j \in Slot : filled[j] = IF j = i THEN NewRow(rnti, service) ELSE table[w][j]
  BY <1>1 DEF Rows
<1>5. /\ NewRow(rnti, service).State = 1
      /\ NewRow(rnti, service).U_RNTI = rnti
      /\ NewRow(rnti, service).UE_Level = QoS_Mapping(service)
      /\ NewRow(rnti, service).User_DataQueue_ptr = RNTI_to_LocalIndex_map(rnti)
  BY DEF NewRow
<1>6. Active(filled) = Active(table[w]) \cup {i} /\ i \notin Active(table[w])
  BY <1>1, <1>4, <1>5 DEF Active
<1>7. InFront(filled, per_wave_usernum[w] + 1)
  <2> SUFFICES ASSUME NEW j \in Slot
               PROVE  filled[j].State = 1 <=> j <= per_wave_usernum[w] + 1
    BY DEF InFront
  <2>1. CASE j = i
    BY <1>2, <1>4, <1>5, <2>1
  <2>2. CASE j # i
    <3>1. filled[j].State = 1 <=> j <= per_wave_usernum[w]
      BY <1>4, <2>2 DEF IInv, InFront
    <3> QED
      BY <1>2, <2>2, <3>1, Numbers DEF Slot
  <2> QED
    BY <2>1, <2>2
<1>8. Owned(filled, asked \cup {<<rnti, service>>})
  <2> SUFFICES ASSUME NEW j \in Active(filled)
               PROVE  /\ filled[j].User_DataQueue_ptr
                           = RNTI_to_LocalIndex_map(filled[j].U_RNTI)
                      /\ \E s \in Service :
                           /\ <<filled[j].U_RNTI, s>> \in asked \cup {<<rnti, service>>}
                           /\ filled[j].UE_Level = QoS_Mapping(s)
    BY DEF Owned
  <2>1. CASE j = i
    BY <1>1, <1>4, <1>5, <2>1
  <2>2. CASE j # i
    <3>1. j \in Active(table[w]) /\ j \in Slot /\ filled[j] = table[w][j]
      BY <1>4, <1>6, <2>2 DEF Active
    <3> QED
      BY <3>1 DEF IInv, Owned
  <2> QED
    BY <2>1, <2>2
<1>9. Users(filled) = Users(table[w]) \cup {rnti}
  <2>1. \A j \in Active(table[w]) : j \in Slot /\ j # i /\ filled[j] = table[w][j]
    BY <1>4, <1>6 DEF Active
  <2>2. filled[i].U_RNTI = rnti
    BY <1>1, <1>4, <1>5
  <2> QED
    BY <1>6, <2>1, <2>2 DEF Users
<1> QED
  BY <1>2, <1>3, <1>7, <1>8, <1>9

(* An access that finds a row: the row is filled, the wave sorted twice, the
   user registered. *)
LEMMA AdmitStep ==
  ASSUME IInv, NEW w \in Wave, NEW rnti \in RNTI, NEW service \in Service,
         Admit(rnti, w, service)
  PROVE  /\ IInv'
         /\ \A v \in Wave : Users(table[v]) \subseteq Users(table'[v])
<1> DEFINE n == per_wave_usernum[w]
<1> DEFINE requests == asked \cup {<<rnti, service>>}
<1> DEFINE entry == [state |-> 1, U_RNTI |-> rnti, BeamPositionIndex |-> w,
                     wave_user_index |-> n,
                     uplink_FrequencyPoint |-> 0, downlink_FrequencyPoint |-> 0]
<1> DEFINE index == RNTI_to_LocalIndex_map(rnti)
<1>1. PICK i \in FirstFree(w) :
        \E rows \in sortLevel_MLRA([table[w] EXCEPT ![i] = NewRow(rnti, service)]) :
          \E sorted \in sortLevel(rows) : table' = [table EXCEPT ![w] = sorted]
  BY DEF Admit
<1> DEFINE filled == [table[w] EXCEPT ![i] = NewRow(rnti, service)]
<1>2. PICK rows \in sortLevel_MLRA(filled) :
        \E sorted \in sortLevel(rows) : table' = [table EXCEPT ![w] = sorted]
  BY <1>1
<1>3. PICK sorted \in sortLevel(rows) : table' = [table EXCEPT ![w] = sorted]
  BY <1>2
<1>4. /\ per_wave_usernum' = [per_wave_usernum EXCEPT ![w] = n + 1]
      /\ info' = [info EXCEPT ![index] = entry]
      /\ idle' = [d \in Direction |-> [idle[d] EXCEPT ![w] = FALSE]]
      /\ stats' = Counted(1, 0, 1)
      /\ asked' = requests
  BY DEF Admit, CCH_resource_allocation
<1>5. /\ filled \in Rows /\ n + 1 \in 0 .. PER_WAVE_MAX_NUM /\ InFront(filled, n + 1)
      /\ Owned(filled, requests) /\ Users(filled) = Users(table[w]) \cup {rnti}
  BY FilledWave
<1> HIDE DEF filled
<1>6. rows \in Rows /\ InFront(rows, n + 1) /\ SameUsers(filled, rows)
  BY <1>5, MLRASortKeeps
<1>7. /\ sorted \in Rows /\ SameUsers(rows, sorted)
      /\ \A j \in Slot : sorted[j].State = rows[j].State
  BY <1>6, LevelSortKeeps
<1>8. InFront(sorted, n + 1)
  BY <1>6, <1>7 DEF InFront
<1>9. Owned(sorted, requests)
  BY <1>5, <1>6, <1>7, SortKeepsOwned
<1>10. Users(sorted) = Users(table[w]) \cup {rnti}
  BY <1>5, <1>6, <1>7, SortKeepsUsers
<1>11. n \in Nat /\ entry \in Info /\ index \in Index /\ requests \in SUBSET (RNTI \X Service)
  BY Numbers DEF IInv, TypeOK, Info, Index
<1>12. stats' \in Counters
  BY <1>4, CountedType DEF IInv
<1>13. /\ table \in [Wave -> Rows] /\ info \in [Index -> Info]
       /\ per_wave_usernum \in [Wave -> 0 .. PER_WAVE_MAX_NUM]
       /\ idle \in [Direction -> [Wave -> BOOLEAN]]
  BY DEF IInv, TypeOK, Rows
<1> HIDE DEF requests, entry, index, n
<1>14. TypeOK'
  <2>1. table' \in [Wave -> Rows]
    BY <1>3, <1>7, <1>13
  <2>2. per_wave_usernum' \in [Wave -> 0 .. PER_WAVE_MAX_NUM]
    BY <1>4, <1>5, <1>13
  <2>3. info' \in [Index -> Info]
    BY <1>4, <1>11, <1>13
  <2>4. idle' \in [Direction -> [Wave -> BOOLEAN]]
    BY <1>4, <1>13
  <2> QED
    BY <1>4, <1>11, <1>12, <2>1, <2>2, <2>3, <2>4 DEF TypeOK, Rows, Counters
<1>15. \A v \in Wave : /\ table'[v] = IF v = w THEN sorted ELSE table[v]
                       /\ per_wave_usernum'[v] = IF v = w THEN n + 1
                                                 ELSE per_wave_usernum[v]
  BY <1>3, <1>4, <1>13
<1>16. \A v \in Wave : Users(table[v]) \subseteq Users(table'[v])
  BY <1>10, <1>15
<1>17. ASSUME NEW v \in Wave
       PROVE  InFront(table'[v], per_wave_usernum'[v]) /\ Owned(table'[v], asked')
  <2>1. CASE v = w
    BY <1>4, <1>8, <1>9, <1>15, <2>1
  <2>2. CASE v # w
    <3>1. table'[v] = table[v] /\ per_wave_usernum'[v] = per_wave_usernum[v]
      BY <1>15, <2>2
    <3>2. InFront(table[v], per_wave_usernum[v]) /\ Owned(table[v], asked)
      BY DEF IInv
    <3>3. Owned(table[v], requests)
      BY <3>2 DEF Owned, requests
    <3> QED
      BY <1>4, <3>1, <3>2, <3>3
  <2> QED
    BY <2>1, <2>2
<1>18. Registered'
  <2> SUFFICES ASSUME NEW x \in Index, info'[x].state = 1
               PROVE  /\ info'[x].BeamPositionIndex \in Wave
                      /\ info'[x].wave_user_index \in Nat
                      /\ info'[x].wave_user_index
                           < per_wave_usernum'[info'[x].BeamPositionIndex]
                      /\ info'[x].U_RNTI \in Users(table'[info'[x].BeamPositionIndex])
    BY DEF Registered
  <2>1. CASE x = index
    <3>1. info'[x] = entry
      BY <1>4, <1>11, <1>13, <2>1
    <3>2. /\ entry.BeamPositionIndex = w /\ entry.wave_user_index = n
          /\ entry.U_RNTI = rnti
      BY DEF entry
    <3> QED
      BY <1>10, <1>11, <1>15, <3>1, <3>2
  <2>2. CASE x # index
    <3> DEFINE v == info[x].BeamPositionIndex
    <3>1. info'[x] = info[x]
      BY <1>4, <1>13, <2>2
    <3>2. /\ v \in Wave /\ info[x].wave_user_index < per_wave_usernum[v]
          /\ info[x].U_RNTI \in Users(table[v])
          /\ info[x].wave_user_index \in Nat
      BY <3>1 DEF IInv, Registered
    <3>3. per_wave_usernum[v] \in Nat
      BY <1>13, <3>2, Numbers
    <3>4. info[x].wave_user_index < per_wave_usernum'[v]
      BY <1>11, <1>15, <3>2, <3>3 DEF n
    <3> QED
      BY <1>16, <3>1, <3>2, <3>4
  <2> QED
    BY <2>1, <2>2
<1> QED
  BY <1>14, <1>16, <1>17, <1>18 DEF IInv

(* An access that finds every row in use. *)
LEMMA CollideStep ==
  ASSUME IInv, NEW w \in Wave, NEW rnti \in RNTI, Collide(rnti, w)
  PROVE  /\ IInv'
         /\ \A v \in Wave : Users(table[v]) \subseteq Users(table'[v])
         /\ stats'.rach_success = stats.rach_success
         /\ per_wave_usernum[w] = PER_WAVE_MAX_NUM
<1>1. PICK sorted \in sortLevel(table[w]) : table' = [table EXCEPT ![w] = sorted]
  BY DEF Collide
<1>2. table[w] \in Rows /\ InFront(table[w], per_wave_usernum[w])
  BY DEF IInv, TypeOK, Rows
<1>3. /\ sorted \in Rows /\ SameUsers(table[w], sorted)
      /\ InFront(sorted, per_wave_usernum[w])
  BY <1>2, LevelSortKeeps DEF InFront
<1>4. stats' \in Counters
  BY CountedType DEF IInv, Collide
<1>5. stats'.rach_success = stats.rach_success
  BY DEF Collide, Counted, IInv, TypeOK
<1>6. per_wave_usernum[w] = PER_WAVE_MAX_NUM
  BY FirstFreeIsNext DEF Collide
<1> QED
  BY <1>1, <1>3, <1>4, <1>5, <1>6, SortStep DEF Collide

(* A subframe of the scheduler. *)
LEMMA SchedulerStep ==
  ASSUME IInv, NEW w \in Wave, SchedulerSort(w)
  PROVE  /\ IInv'
         /\ \A v \in Wave : Users(table[v]) \subseteq Users(table'[v])
<1>1. PICK sorted \in sortLevel_MLRA(table[w]) : table' = [table EXCEPT ![w] = sorted]
  BY DEF SchedulerSort
<1>2. /\ table[w] \in Rows /\ InFront(table[w], per_wave_usernum[w])
      /\ per_wave_usernum[w] \in 0 .. PER_WAVE_MAX_NUM
      /\ stats' \in Counters
  BY DEF IInv, TypeOK, Rows, SchedulerSort, Counters
<1>3. /\ sorted \in Rows /\ SameUsers(table[w], sorted)
      /\ InFront(sorted, per_wave_usernum[w])
  BY <1>2, MLRASortKeeps
<1> QED
  BY <1>1, <1>2, <1>3, SortStep DEF SchedulerSort

(* No step breaks the inductive invariant. *)
LEMMA StepInvariant ==
  IInv /\ [Next]_vars => /\ IInv'
                         /\ \A v \in Wave : Users(table[v]) \subseteq Users(table'[v])
<1> SUFFICES ASSUME IInv, [Next]_vars
             PROVE  /\ IInv'
                    /\ \A v \in Wave : Users(table[v]) \subseteq Users(table'[v])
  OBVIOUS
<1>1. CASE UNCHANGED vars
  BY <1>1 DEF vars, IInv, TypeOK, InFront, Owned, Registered, Users, Active
<1>2. CASE Next
  BY <1>2, RefuseStep, AdmitStep, CollideStep, SchedulerStep DEF Next, RAMSG_process
<1> QED
  BY <1>1, <1>2

(* What a step that counts a collision has seen. *)
LEMMA CollisionStep ==
  IInv /\ [Next]_vars =>
    (stats'.rach_collisions > stats.rach_collisions =>
       /\ stats'.rach_success = stats.rach_success
       /\ \E w \in Wave : per_wave_usernum[w] = PER_WAVE_MAX_NUM)
<1> SUFFICES ASSUME IInv, [Next]_vars,
                    stats'.rach_collisions > stats.rach_collisions
             PROVE  /\ stats'.rach_success = stats.rach_success
                    /\ \E w \in Wave : per_wave_usernum[w] = PER_WAVE_MAX_NUM
  OBVIOUS
<1>1. stats.rach_collisions \in Nat
  BY DEF IInv, TypeOK
<1>2. stats'.rach_collisions # stats.rach_collisions
  BY <1>1
<1>3. ASSUME NEW rnti \in RNTI, Refuse(rnti) PROVE FALSE
  BY <1>1, <1>2, <1>3 DEF Refuse, Counted
<1>4. ASSUME NEW w \in Wave, NEW rnti \in RNTI, NEW service \in Service,
             Admit(rnti, w, service)
      PROVE  FALSE
  BY <1>1, <1>2, <1>4 DEF Admit, Counted
<1>5. ASSUME NEW w \in Wave, SchedulerSort(w) PROVE FALSE
  BY <1>2, <1>5 DEF SchedulerSort
<1>6. ~UNCHANGED vars
  BY <1>2 DEF vars
<1>7. PICK w \in Wave, rnti \in RNTI : Collide(rnti, w)
  BY <1>3, <1>4, <1>5, <1>6 DEF Next, RAMSG_process
<1> QED
  BY <1>7, CollideStep

-----------------------------------------------------------------------------
(* The inductive invariant holds throughout: rows in use are in front and
   counted, each is one user's, and every registration has its row. *)
THEOREM Invariant == Spec => []IInv
<1> QED
  BY InitInvariant, StepInvariant, PTL DEF Spec

(***************************************************************************)
(* Type correctness: no access takes per_wave_usernum beyond the rows of   *)
(* its wave, whatever the order of accesses and subframes.                 *)
(***************************************************************************)
THEOREM TypeCorrect == Spec => []TypeOK
<1> QED
  BY Invariant, Implied, PTL

(***************************************************************************)
(* The scheduler may stop at the first row with State 0: after any number  *)
(* of accesses and sorts the rows in use are the first per_wave_usernum.   *)
(***************************************************************************)
THEOREM RowsInFront == Spec => []ActivePrefix
<1> QED
  BY Invariant, Implied, PTL

(***************************************************************************)
(* Both sorts keep RNTI, level and data queue of a row together.           *)
(***************************************************************************)
THEOREM RowsStayOneUsers == Spec => []RowIsOneUser
<1> QED
  BY Invariant, Implied, PTL

(***************************************************************************)
(* What CCH_resource_allocation registers stays true: the wave named by a  *)
(* registration keeps a row of that user.                                  *)
(***************************************************************************)
THEOREM RegisteredKeepRow == Spec => []RegisteredHasRow
<1> QED
  BY Invariant, Implied, PTL

(***************************************************************************)
(* No access and no sort drops a user that has a row.                      *)
(***************************************************************************)
THEOREM UsersAreKept == Spec => UsersKept
<1>1. IInv /\ [Next]_vars =>
        [\A w \in Wave : Users(table[w]) \subseteq Users(table'[w])]_vars
  BY StepInvariant
<1> QED
  BY <1>1, Invariant, PTL DEF Spec, UsersKept

(***************************************************************************)
(* RAMSG_process reports a collision only when every row of a wave is in   *)
(* use: the search for a free row misses none.                             *)
(***************************************************************************)
THEOREM CollisionsMeanFull == Spec => CollisionMeansFull
<1>1. IInv /\ [Next]_vars =>
        [stats'.rach_collisions > stats.rach_collisions =>
           /\ stats'.rach_success = stats.rach_success
           /\ \E w \in Wave : per_wave_usernum[w] = PER_WAVE_MAX_NUM]_vars
  BY CollisionStep
<1> QED
  BY <1>1, Invariant, PTL DEF Spec, CollisionMeansFull

-----------------------------------------------------------------------------
(* The order of the natural numbers as a relation. *)
LessThan == {p \in Nat \X Nat : p[1] < p[2]}

(* A set of natural numbers has a least one. *)
LEMMA Least ==
  ASSUME NEW T, T \subseteq Nat, T # {}
  PROVE  \E m \in T : \A k \in T : m <= k
<1>1. IsWellFoundedOn(LessThan, Nat)
  BY NatLessThanWellFounded DEF OpToRel, LessThan
<1>2. \E m \in T : \A k \in T : ~ (<<k, m>> \in LessThan)
  BY <1>1, WFMin
<1>3. \A k, m \in Nat : k < m => <<k, m>> \in LessThan
  BY DEF LessThan
<1>4. PICK m \in T : \A k \in T : ~ (<<k, m>> \in LessThan)
  BY <1>2
<1>5. \A k \in T : ~(k < m)
  BY <1>3, <1>4
<1>6. \A k \in T : m <= k
  BY <1>5
<1> QED
  BY <1>6

(* What holds of 0 and passes from each number below b to the next holds of
   all numbers up to b. *)
LEMMA UpTo ==
  ASSUME NEW b \in Nat, NEW S, 0 \in S, \A n \in 0 .. b - 1 : n \in S => n + 1 \in S
  PROVE  0 .. b \subseteq S
<1>1. SUFFICES ASSUME ~(0 .. b \subseteq S) PROVE FALSE
  OBVIOUS
<1> DEFINE T == (0 .. b) \ S
<1>2. T \subseteq Nat /\ T # {}
  BY <1>1
<1>3. PICK m \in T : \A k \in T : m <= k
  BY <1>2, Least
<1>4. m # 0 /\ m - 1 \in 0 .. b - 1 /\ m - 1 \notin T
  BY <1>3
<1> QED
  BY <1>3, <1>4

-----------------------------------------------------------------------------
(***************************************************************************)
(* The sorts and their loops.  An order of the rows says which row stands  *)
(* where; a rank says how far back a row belongs, and rows of one rank     *)
(* keep the order in which they stood.                                     *)
(***************************************************************************)
Before(rank, a, b) == rank[a] < rank[b] \/ (rank[a] = rank[b] /\ a < b)

(* No row has overtaken another one of its rank. *)
Stable(rank, p) ==
  \A x, y \in Slot : x < y /\ rank[p[x]] = rank[p[y]] => p[x] < p[y]

(* The rows behind place m are where they belong. *)
Settled(rank, p, m) == \A x, y \in Slot : x < y /\ y > m => Before(rank, p[x], p[y])

(* Every row in front of place j belongs before the one that stands there. *)
Highest(rank, p, j) == \A x \in Slot : x < j => Before(rank, p[x], p[j])

(* The order after turn j of a pass. *)
Turned(rank, p, j) ==
  IF rank[p[j + 1]] < rank[p[j]] THEN Rearranged(p, Exchange(j)) ELSE p

(* Before turn j of the pass that settles place m. *)
InPass(rank, p, m, j) ==
  p \in Order /\ Stable(rank, p) /\ Settled(rank, p, m) /\ Highest(rank, p, j)

(* A function one-to-one on the rows that leaves none out is an order. *)
LEMMA BijectionIsOrder ==
  ASSUME NEW p \in [Slot -> Slot],
         \A i, j \in Slot : p[i] = p[j] => i = j,
         \A j \in Slot : \E i \in Slot : p[i] = j
  PROVE  p \in Order
  BY DEF Order, Bijection, Injection, Surjection, IsInjective

(* An order of the rows in an order is an order. *)
LEMMA OrdersCompose ==
  ASSUME NEW p \in Order, NEW q \in Order
  PROVE  Rearranged(p, q) \in Order
<1>1. /\ p \in [Slot -> Slot] /\ q \in [Slot -> Slot]
      /\ \A i, j \in Slot : p[i] = p[j] => i = j
      /\ \A i, j \in Slot : q[i] = q[j] => i = j
      /\ \A j \in Slot : \E i \in Slot : p[i] = j
      /\ \A j \in Slot : \E i \in Slot : q[i] = j
  BY OrderIsBijection
<1> DEFINE r == Rearranged(p, q)
<1>2. r \in [Slot -> Slot] /\ \A i \in Slot : r[i] = p[q[i]]
  BY <1>1 DEF Rearranged
<1> HIDE DEF r
<1>3. \A i, j \in Slot : r[i] = r[j] => i = j
  BY <1>1, <1>2
<1>4. \A j \in Slot : \E i \in Slot : r[i] = j
  BY <1>1, <1>2
<1> QED
  BY <1>2, <1>3, <1>4, BijectionIsOrder DEF r

(* The order that leaves every row where it is. *)
Unmoved == [i \in Slot |-> i]

LEMMA UnmovedIsOrder == Unmoved \in Order
<1>1. Unmoved \in [Slot -> Slot] /\ \A i \in Slot : Unmoved[i] = i
  BY DEF Unmoved
<1> QED
  BY <1>1, BijectionIsOrder

(* Two neighbours that change places overtake each other and no other row. *)
LEMMA ExchangeIs ==
  ASSUME NEW j \in 1 .. PER_WAVE_MAX_NUM - 1
  PROVE  /\ j \in Slot /\ j + 1 \in Slot /\ j \in Nat
         /\ Exchange(j) \in Order
         /\ Exchange(j) \in [Slot -> Slot]
         /\ Exchange(j)[j] = j + 1
         /\ Exchange(j)[j + 1] = j
         /\ \A i \in Slot : i # j /\ i # j + 1 => Exchange(j)[i] = i
         /\ \A x, y \in Slot : x < y /\ ~(x = j /\ y = j + 1) =>
              Exchange(j)[x] < Exchange(j)[y]
<1> DEFINE e == Exchange(j)
<1>1. j \in Slot /\ j + 1 \in Slot /\ j \in Nat /\ j # j + 1
  BY Numbers DEF Slot
<1>2. /\ e \in [Slot -> Slot] /\ e[j] = j + 1 /\ e[j + 1] = j
      /\ \A i \in Slot : i # j /\ i # j + 1 => e[i] = i
  BY <1>1 DEF Exchange
<1> HIDE DEF e
<1>3. \A i \in Slot : e[e[i]] = i
  BY <1>1, <1>2
<1>4. \A x, y \in Slot : e[x] = e[y] => x = y
  BY <1>3
<1>5. \A y \in Slot : \E x \in Slot : e[x] = y
  BY <1>2, <1>3
<1>6. e \in Order
  BY <1>2, <1>4, <1>5, BijectionIsOrder
<1>7. ASSUME NEW x \in Slot, NEW y \in Slot, x < y, ~(x = j /\ y = j + 1)
      PROVE  e[x] < e[y]
  <2>1. x \in Nat /\ y \in Nat
    BY Numbers DEF Slot
  <2>2. e[x] = IF x = j THEN j + 1 ELSE IF x = j + 1 THEN j ELSE x
    BY <1>2
  <2>3. e[y] = IF y = j THEN j + 1 ELSE IF y = j + 1 THEN j ELSE y
    BY <1>2
  <2> QED
    BY <1>1, <1>7, <2>1, <2>2, <2>3
<1> QED
  BY <1>1, <1>2, <1>6, <1>7 DEF e

(* A turn that sees the highest row so far at j leaves it at j + 1. *)
LEMMA TurnKeeps ==
  ASSUME NEW rank \in [Slot -> Nat], NEW p, NEW m \in 1 .. PER_WAVE_MAX_NUM,
         NEW j \in 1 .. m - 1, InPass(rank, p, m, j)
  PROVE  InPass(rank, Turned(rank, p, j), m, j + 1)
<1> DEFINE e == Exchange(j)
           q == Turned(rank, p, j)
<1>1. /\ j \in 1 .. PER_WAVE_MAX_NUM - 1 /\ m \in Nat /\ j + 1 <= m
      /\ \A x \in Slot : x \in Nat
  BY Numbers DEF Slot
<1>2. /\ j \in Slot /\ j + 1 \in Slot /\ j \in Nat /\ e \in Order /\ e \in [Slot -> Slot]
      /\ e[j] = j + 1 /\ e[j + 1] = j
      /\ \A i \in Slot : i # j /\ i # j + 1 => e[i] = i
      /\ \A x, y \in Slot : x < y /\ ~(x = j /\ y = j + 1) => e[x] < e[y]
  BY <1>1, ExchangeIs
<1>3. /\ p \in [Slot -> Slot]
      /\ \A x, y \in Slot : p[x] = p[y] => x = y
  BY OrderIsBijection DEF InPass
<1>4. \A x \in Slot : p[x] \in Nat /\ rank[p[x]] \in Nat
  BY <1>1, <1>3
<1> HIDE DEF e
<1>5. CASE rank[p[j + 1]] < rank[p[j]]
  <2>1. q \in Order /\ \A x \in Slot : q[x] = p[e[x]]
    BY <1>2, <1>5, OrdersCompose DEF Turned, Rearranged, e, InPass
  <2> HIDE DEF q
  <2>2. Stable(rank, q)
    <3> SUFFICES ASSUME NEW x \in Slot, NEW y \in Slot, x < y, rank[q[x]] = rank[q[y]]
                 PROVE  q[x] < q[y]
      BY DEF Stable
    <3>1. ~(x = j /\ y = j + 1)
      BY <1>2, <1>4, <1>5, <2>1
    <3>2. e[x] < e[y] /\ e[x] \in Slot /\ e[y] \in Slot
      BY <1>2, <3>1
    <3> QED
      BY <2>1, <3>2 DEF InPass, Stable
  <2>3. Settled(rank, q, m)
    <3> SUFFICES ASSUME NEW x \in Slot, NEW y \in Slot, x < y, y > m
                 PROVE  Before(rank, q[x], q[y])
      BY DEF Settled
    <3>1. y # j /\ y # j + 1
      BY <1>1, <1>2
    <3>2. e[x] < e[y] /\ e[x] \in Slot /\ e[y] = y
      BY <1>2, <3>1
    <3> QED
      BY <2>1, <3>2 DEF InPass, Settled
  <2>4. Highest(rank, q, j + 1)
    <3> SUFFICES ASSUME NEW x \in Slot, x < j + 1 PROVE Before(rank, q[x], q[j + 1])
      BY DEF Highest
    <3>1. q[j + 1] = p[j]
      BY <1>2, <2>1
    <3>2. CASE x = j
      BY <1>2, <1>5, <2>1, <3>1, <3>2 DEF Before
    <3>3. CASE x # j
      <4>1. x < j /\ x # j + 1
        BY <1>1, <1>2, <3>3
      <4>2. q[x] = p[x]
        BY <1>2, <2>1, <4>1
      <4> QED
        BY <3>1, <4>1, <4>2 DEF InPass, Highest
    <3> QED
      BY <3>2, <3>3
  <2> QED
    BY <2>1, <2>2, <2>3, <2>4 DEF InPass, q
<1>6. CASE ~(rank[p[j + 1]] < rank[p[j]])
  <2>1. q = p
    BY <1>6 DEF Turned
  <2>2. j < j + 1 /\ Before(rank, p[j], p[j + 1])
    <3>1. j < j + 1
      BY <1>2
    <3>2. rank[p[j]] = rank[p[j + 1]] => p[j] < p[j + 1]
      BY <1>2, <3>1 DEF InPass, Stable
    <3> QED
      BY <1>2, <1>4, <1>6, <3>1, <3>2 DEF Before
  <2>3. Highest(rank, p, j + 1)
    <3> SUFFICES ASSUME NEW x \in Slot, x < j + 1 PROVE Before(rank, p[x], p[j + 1])
      BY DEF Highest
    <3>1. CASE x = j
      BY <2>2, <3>1
    <3>2. CASE x # j
      <4>1. x < j
        BY <1>1, <1>2, <3>2
      <4>2. Before(rank, p[x], p[j])
        BY <4>1 DEF InPass, Highest
      <4> QED
        BY <1>2, <1>4, <2>2, <4>2 DEF Before
    <3> QED
      BY <3>1, <3>2
  <2> QED
    BY <2>1, <2>3 DEF InPass
<1> QED
  BY <1>5, <1>6

(* The highest of the first m rows at place m: one more place is settled. *)
LEMMA PassEnds ==
  ASSUME NEW rank, NEW p, NEW m \in 1 .. PER_WAVE_MAX_NUM, InPass(rank, p, m, m)
  PROVE  Settled(rank, p, m - 1)
<1> SUFFICES ASSUME NEW x \in Slot, NEW y \in Slot, x < y, y > m - 1
             PROVE  Before(rank, p[x], p[y])
  BY DEF Settled
<1>1. y = m \/ y > m
  BY Numbers DEF Slot
<1> QED
  BY <1>1 DEF InPass, Highest, Settled

(* The loop ends in the only order that the ranks allow. *)
LEMMA OneSortedOrder ==
  ASSUME NEW rank \in [Slot -> Nat], NEW p \in Order, NEW q \in Order,
         Settled(rank, p, 1), Settled(rank, q, 1)
  PROVE  p = q
<1>1. /\ p \in [Slot -> Slot] /\ q \in [Slot -> Slot]
      /\ \A j \in Slot : \E i \in Slot : p[i] = j
      /\ \A j \in Slot : \E i \in Slot : q[i] = j
      /\ \A i, j \in Slot : p[i] = p[j] => i = j
      /\ \A i, j \in Slot : q[i] = q[j] => i = j
  BY OrderIsBijection
<1> DEFINE D == {x \in Slot : p[x] # q[x]}
<1> SUFFICES ASSUME D # {} PROVE FALSE
  BY <1>1
<1>2. D \subseteq Nat
  BY Numbers DEF Slot
<1>3. PICK x \in D : \A k \in D : x <= k
  BY <1>2, Least
<1>4. x \in Slot /\ p[x] # q[x] /\ \A k \in Slot : k < x => p[k] = q[k]
  BY <1>3, Numbers DEF Slot
<1> HIDE DEF D
<1>5. PICK y \in Slot : p[y] = q[x]
  BY <1>1, <1>4
<1>6. PICK z \in Slot : q[z] = p[x]
  BY <1>1, <1>4
<1>7. x < y /\ x < z
  <2>1. y # x /\ z # x
    BY <1>4, <1>5, <1>6
  <2>2. ~(y < x) /\ ~(z < x)
    BY <1>1, <1>4, <1>5, <1>6, <2>1
  <2> QED
    BY <1>4, <2>1, <2>2, Numbers DEF Slot
<1>8. y > 1 /\ z > 1
  BY <1>4, <1>7, Numbers DEF Slot
<1>9. Before(rank, p[x], q[x]) /\ Before(rank, q[x], p[x])
  BY <1>4, <1>5, <1>6, <1>7, <1>8 DEF Settled
<1>10. p[x] \in Slot /\ q[x] \in Slot
  BY <1>1, <1>4
<1>11. p[x] \in Nat /\ q[x] \in Nat /\ rank[p[x]] \in Nat /\ rank[q[x]] \in Nat
  BY <1>10, Numbers DEF Slot
<1> QED
  BY <1>9, <1>11 DEF Before

-----------------------------------------------------------------------------
(* A loop of n turns from start, whose turn i takes x to step[i][x]. *)
Goes(g, n, start, step) == g[0] = start /\ \A i \in 1 .. n : g[i] = step[i][g[i - 1]]

StaysIn(X, n, step) == \A i \in 1 .. n, x \in X : step[i][x] \in X

(* A loop whose turns stay in a set, unrolled: it goes from turn to turn. *)
LEMMA Unroll ==
  ASSUME NEW X, NEW n \in Nat, NEW start \in X, NEW step, StaysIn(X, n, step)
  PROVE  \E g : g \in [0 .. n -> X] /\ Goes(g, n, start, step)
<1> DEFINE S == {m \in 0 .. n : \E g \in [0 .. m -> X] : Goes(g, m, start, step)}
<1>1. 0 \in S
  <2> DEFINE g == [i \in 0 .. 0 |-> start]
  <2>1. g \in [0 .. 0 -> X] /\ Goes(g, 0, start, step)
    BY DEF Goes
  <2> HIDE DEF g
  <2>2. 0 \in 0 .. n
    OBVIOUS
  <2> QED
    BY <2>1, <2>2
<1>2. ASSUME NEW m \in 0 .. n - 1, m \in S PROVE m + 1 \in S
  <2>1. PICK g \in [0 .. m -> X] : Goes(g, m, start, step)
    BY <1>2
  <2>2. /\ m \in Nat /\ m + 1 \in 1 .. n /\ m \in 0 .. m /\ m + 1 \notin 0 .. m
        /\ m + 1 \in 0 .. n
    OBVIOUS
  <2>3. step[m + 1][g[m]] \in X
    BY <2>2 DEF StaysIn
  <2> DEFINE h == [i \in 0 .. m + 1 |-> IF i \in 0 .. m THEN g[i] ELSE step[m + 1][g[m]]]
  <2>4. h \in [0 .. m + 1 -> X]
    BY <2>3
  <2>5. \A i \in 0 .. m : h[i] = g[i]
    OBVIOUS
  <2>6. h[m + 1] = step[m + 1][g[m]]
    BY <2>2
  <2> HIDE DEF h
  <2>7. h[0] = start
    BY <2>1, <2>5 DEF Goes
  <2>8. ASSUME NEW i \in 1 .. m + 1 PROVE h[i] = step[i][h[i - 1]]
    <3>1. CASE i = m + 1
      BY <2>2, <2>5, <2>6, <3>1
    <3>2. CASE i # m + 1
      <4>1. i \in 1 .. m /\ i \in 0 .. m /\ i - 1 \in 0 .. m
        BY <3>2
      <4> QED
        BY <2>1, <2>5, <4>1 DEF Goes
    <3> QED
      BY <3>1, <3>2
  <2>9. Goes(h, m + 1, start, step)
    BY <2>7, <2>8 DEF Goes
  <2> QED
    BY <2>2, <2>4, <2>9
<1>3. 0 .. n \subseteq S
  <2> HIDE DEF S
  <2> QED
    BY <1>1, <1>2, UpTo
<1>4. n \in S
  BY <1>3
<1> QED
  BY <1>4

-----------------------------------------------------------------------------
(* sortLevel *)

(* How far back sortLevel puts a row: its level, or behind every level. *)
LevelRank(rows) ==
  [i \in Slot |-> IF rows[i].State = 1 THEN rows[i].UE_Level ELSE 256]

(* A row that is not in use stays where it is. *)
KeepsFree(rows, p) == \A i \in Slot : rows[i].State # 1 => p[i] = i

LEMMA LevelRankType ==
  ASSUME NEW rows \in Rows
  PROVE  /\ LevelRank(rows) \in [Slot -> Nat]
         /\ \A i \in Slot : LevelRank(rows)[i] <= 256
         /\ \A i \in Slot : rows[i].State = 1 => LevelRank(rows)[i] < 256
  BY DEF Rows, Row, LevelRank

(* The rows exchanged by sortLevel are rows. *)
LEMMA IdentifiedType ==
  ASSUME NEW rows \in Rows, NEW p \in Order
  PROVE  Identified(rows, p) \in Rows
  BY OrderIsBijection DEF Identified, Rows, Row

LEMMA LevelTurnType ==
  ASSUME NEW rows \in Rows, NEW j \in 1 .. PER_WAVE_MAX_NUM - 1
  PROVE  LevelTurn(rows, j) \in Rows
  BY ExchangeIs, IdentifiedType DEF LevelTurn

(* A pass of sortLevel goes from turn to turn. *)
LEMMA LevelPassTurns ==
  ASSUME NEW rows \in Rows, NEW last \in 0 .. PER_WAVE_MAX_NUM - 1
  PROVE  \E t : /\ t[0] = rows
                /\ \A j \in 1 .. last : t[j] = LevelTurn(t[j - 1], j)
                /\ t[last] = LevelPass(rows, last)
<1> DEFINE T(r, j) == LevelTurn(r, j)
           F(g) == [j \in 0 .. last |-> IF j = 0 THEN rows ELSE T(g[j - 1], j)]
           t == CHOOSE g : g = F(g)
           step == [j \in 1 .. last |-> [r \in Rows |-> T(r, j)]]
<1>1. LevelPass(rows, last) = t[last]
  BY Zenon DEF LevelPass
<1>2. last \in Nat /\ 1 .. last \subseteq 1 .. PER_WAVE_MAX_NUM - 1
  BY Numbers
<1>3. \A r \in Rows, j \in 1 .. last : T(r, j) \in Rows
  BY <1>2, LevelTurnType
<1> HIDE DEF T
<1>4. \A r \in Rows, j \in 1 .. last : step[j][r] = T(r, j)
  OBVIOUS
<1>5. StaysIn(Rows, last, step)
  BY <1>3, <1>4 DEF StaysIn
<1> HIDE DEF step
<1>6. PICK g : g \in [0 .. last -> Rows] /\ Goes(g, last, rows, step)
  BY <1>2, <1>5, Unroll, Zenon
<1>7. \A j \in 1 .. last : g[j] = T(g[j - 1], j)
  <2>1. \A j \in 1 .. last : j - 1 \in 0 .. last
    BY <1>2
  <2> QED
    BY <1>4, <1>6, <2>1 DEF Goes
<1>8. g = F(g)
  <2>1. \A j \in 0 .. last : j = 0 \/ j \in 1 .. last
    BY <1>2
  <2> QED
    BY <1>6, <1>7, <2>1 DEF Goes
<1>9. t = F(t)
  <2> HIDE DEF F
  <2> QED
    BY <1>8
<1> HIDE DEF t
<1>10. t[0] = rows
  BY <1>2, <1>9
<1>11. \A j \in 1 .. last : t[j] = T(t[j - 1], j)
  BY <1>2, <1>9
<1> QED
  BY <1>1, <1>10, <1>11 DEF T

LEMMA LevelPassType ==
  ASSUME NEW rows \in Rows, NEW last \in 0 .. PER_WAVE_MAX_NUM - 1
  PROVE  LevelPass(rows, last) \in Rows
<1>1. PICK t : /\ t[0] = rows
               /\ \A j \in 1 .. last : t[j] = LevelTurn(t[j - 1], j)
               /\ t[last] = LevelPass(rows, last)
  BY LevelPassTurns
<1> DEFINE S == {j \in 0 .. last : t[j] \in Rows}
<1>2. last \in Nat /\ \A j \in 0 .. last - 1 : j + 1 \in 1 .. last /\ (j + 1) - 1 = j
  BY Numbers
<1>3. 0 \in S
  BY <1>1, <1>2
<1>4. ASSUME NEW j \in 0 .. last - 1, j \in S PROVE j + 1 \in S
  <2>1. t[j + 1] = LevelTurn(t[j], j + 1) /\ j + 1 \in 1 .. PER_WAVE_MAX_NUM - 1
    BY <1>1, <1>2, Numbers
  <2> QED
    BY <1>4, <2>1, LevelTurnType
<1> HIDE DEF S
<1>5. last \in S
  BY <1>2, <1>3, <1>4, UpTo
<1> QED
  BY <1>1, <1>5 DEF S

(* The loop of sortLevel goes from pass to pass. *)
LEMMA LevelLoopPasses ==
  ASSUME NEW rows \in Rows
  PROVE  \E t : /\ t[0] = rows
                /\ \A i \in 1 .. PER_WAVE_MAX_NUM - 1 :
                     t[i] = LevelPass(t[i - 1], PER_WAVE_MAX_NUM - i)
                /\ t[PER_WAVE_MAX_NUM - 1] = LevelLoop(rows)
<1> DEFINE n == PER_WAVE_MAX_NUM - 1
           T(r, i) == LevelPass(r, PER_WAVE_MAX_NUM - i)
           F(g) == [i \in 0 .. n |-> IF i = 0 THEN rows ELSE T(g[i - 1], i)]
           t == CHOOSE g : g = F(g)
           step == [i \in 1 .. n |-> [r \in Rows |-> T(r, i)]]
<1>1. LevelLoop(rows) = t[n]
  BY Zenon DEF LevelLoop
<1>2. n \in Nat /\ \A i \in 1 .. n : PER_WAVE_MAX_NUM - i \in 0 .. PER_WAVE_MAX_NUM - 1
  BY Numbers
<1>3. \A r \in Rows, i \in 1 .. n : T(r, i) \in Rows
  BY <1>2, LevelPassType
<1> HIDE DEF T, n
<1>4. \A r \in Rows, i \in 1 .. n : step[i][r] = T(r, i)
  OBVIOUS
<1>5. StaysIn(Rows, n, step)
  BY <1>3, <1>4 DEF StaysIn
<1> HIDE DEF step
<1>6. PICK g : g \in [0 .. n -> Rows] /\ Goes(g, n, rows, step)
  BY <1>2, <1>5, Unroll, Zenon
<1>7. \A i \in 1 .. n : g[i] = T(g[i - 1], i)
  <2>1. \A i \in 1 .. n : i - 1 \in 0 .. n
    BY <1>2
  <2> QED
    BY <1>4, <1>6, <2>1 DEF Goes
<1>8. g = F(g)
  <2>1. \A i \in 0 .. n : i = 0 \/ i \in 1 .. n
    BY <1>2
  <2> QED
    BY <1>6, <1>7, <2>1 DEF Goes
<1>9. t = F(t)
  <2> HIDE DEF F
  <2> QED
    BY <1>8
<1> HIDE DEF t
<1>10. t[0] = rows
  BY <1>2, <1>9
<1>11. \A i \in 1 .. n : t[i] = T(t[i - 1], i)
  BY <1>2, <1>9
<1> QED
  BY <1>1, <1>10, <1>11 DEF T, n

(* A turn of sortLevel is a turn by rank. *)
LEMMA LevelTurnIs ==
  ASSUME NEW rows \in Rows, NEW n \in 0 .. PER_WAVE_MAX_NUM, InFront(rows, n),
         NEW p \in Order, KeepsFree(rows, p), NEW j \in 1 .. PER_WAVE_MAX_NUM - 1
  PROVE  /\ LevelTurn(Identified(rows, p), j)
              = Identified(rows, Turned(LevelRank(rows), p, j))
         /\ KeepsFree(rows, Turned(LevelRank(rows), p, j))
<1> DEFINE r == Identified(rows, p)
           e == Exchange(j)
           q == Turned(LevelRank(rows), p, j)
<1>1. /\ p \in [Slot -> Slot]
      /\ \A x, y \in Slot : p[x] = p[y] => x = y
  BY OrderIsBijection
<1>2. /\ j \in Slot /\ j + 1 \in Slot /\ j \in Nat /\ e \in [Slot -> Slot]
      /\ \A i \in Slot : i # j /\ i # j + 1 => e[i] = i
  BY ExchangeIs
<1>3. \A i \in Slot : /\ r[i].State = rows[i].State /\ rows[i].State \in {0, 1}
                      /\ r[i].UE_Level = rows[p[i]].UE_Level
  BY DEF Identified, Rows, Row
<1>4. n \in Nat /\ \A i \in Slot : i \in Nat
  BY Numbers DEF Slot
<1>5. CASE rows[j + 1].State # 1
  <2>1. rows[j + 1].State = 0
    BY <1>2, <1>3, <1>5
  <2>2. LevelTurn(r, j) = r
    <3>1. r[j + 1].State = 0 /\ j \in 1 .. j
      BY <1>2, <1>3, <2>1
    <3> HIDE DEF r
    <3> QED
      BY <3>1 DEF LevelTurn
  <2>3. p[j + 1] = j + 1 /\ p[j] \in Slot
    BY <1>1, <1>2, <1>5 DEF KeepsFree
  <2>4. LevelRank(rows)[p[j + 1]] = 256
    BY <1>2, <1>5, <2>3 DEF LevelRank
  <2>5. LevelRank(rows)[p[j]] <= 256 /\ LevelRank(rows)[p[j]] \in Nat
    BY <2>3, LevelRankType
  <2>6. ~(LevelRank(rows)[p[j + 1]] < LevelRank(rows)[p[j]])
    BY <2>4, <2>5
  <2>7. q = p
    BY <2>6 DEF Turned
  <2> QED
    BY <2>2, <2>7
<1>6. CASE rows[j + 1].State = 1
  <2>1. j + 1 <= n
    BY <1>2, <1>6 DEF InFront
  <2>2. ASSUME NEW i \in 1 .. j PROVE i + 1 \in Slot /\ i + 1 <= n
    BY <1>2, <2>1, Numbers DEF Slot
  <2>3. \A i \in 1 .. j : r[i + 1].State # 0
    BY <1>3, <2>2 DEF InFront
  <2>4. rows[j].State = 1
    BY <1>2, <1>4, <2>1 DEF InFront
  <2>5. rows[p[j]].State = 1 /\ rows[p[j + 1]].State = 1
    BY <1>1, <1>2, <1>6, <2>4 DEF KeepsFree
  <2>6. p[j] \in Slot /\ p[j + 1] \in Slot
    BY <1>1, <1>2
  <2>7. /\ LevelRank(rows)[p[j]] = r[j].UE_Level
        /\ LevelRank(rows)[p[j + 1]] = r[j + 1].UE_Level
    BY <1>2, <1>3, <2>5, <2>6 DEF LevelRank
  <2>8. r[j].UE_Level \in Nat /\ r[j + 1].UE_Level \in Nat
    BY <2>6, <2>7, LevelRankType
  <2>9. Identified(r, e) = Identified(rows, Rearranged(p, e))
    BY <1>1, <1>2 DEF Identified, Rearranged
  <2>10. KeepsFree(rows, Rearranged(p, e))
    BY <1>2, <1>6, <2>4 DEF KeepsFree, Rearranged
  <2> HIDE DEF r, e
  <2>11. CASE LevelRank(rows)[p[j + 1]] < LevelRank(rows)[p[j]]
    <3>1. LevelTurn(r, j) = Identified(r, e)
      BY <2>3, <2>7, <2>8, <2>11 DEF LevelTurn, e
    <3>2. q = Rearranged(p, e)
      BY <2>11 DEF Turned, e
    <3> QED
      BY <2>9, <2>10, <3>1, <3>2 DEF r
  <2>12. CASE ~(LevelRank(rows)[p[j + 1]] < LevelRank(rows)[p[j]])
    <3>1. LevelTurn(r, j) = r
      BY <2>7, <2>8, <2>12 DEF LevelTurn
    <3>2. q = p
      BY <2>12 DEF Turned
    <3> QED
      BY <3>1, <3>2 DEF r
  <2> QED
    BY <2>11, <2>12
<1> QED
  BY <1>5, <1>6

(* A pass of sortLevel settles one more place. *)
LEMMA LevelPassSettles ==
  ASSUME NEW rows \in Rows, NEW n \in 0 .. PER_WAVE_MAX_NUM, InFront(rows, n),
         NEW m \in 1 .. PER_WAVE_MAX_NUM, NEW p \in Order, KeepsFree(rows, p),
         Stable(LevelRank(rows), p), Settled(LevelRank(rows), p, m)
  PROVE  \E q \in Order :
           /\ KeepsFree(rows, q) /\ Stable(LevelRank(rows), q)
           /\ Settled(LevelRank(rows), q, m - 1)
           /\ LevelPass(Identified(rows, p), m - 1) = Identified(rows, q)
<1> DEFINE rank == LevelRank(rows)
           start == Identified(rows, p)
<1>1. start \in Rows /\ m - 1 \in 0 .. PER_WAVE_MAX_NUM - 1 /\ m - 1 \in Nat
  BY IdentifiedType, Numbers
<1>2. rank \in [Slot -> Nat]
  BY LevelRankType
<1> HIDE DEF rank
<1>3. PICK t : /\ t[0] = start
               /\ \A j \in 1 .. m - 1 : t[j] = LevelTurn(t[j - 1], j)
               /\ t[m - 1] = LevelPass(start, m - 1)
  <2> HIDE DEF start
  <2> QED
    BY <1>1, LevelPassTurns
<1> DEFINE S == {j \in 0 .. m - 1 : \E q : /\ InPass(rank, q, m, j + 1)
                                           /\ KeepsFree(rows, q)
                                           /\ t[j] = Identified(rows, q)}
<1>4. 0 \in S
  <2>1. Highest(rank, p, 1)
    BY Numbers DEF Highest, Slot
  <2>2. InPass(rank, p, m, 0 + 1)
    BY <2>1 DEF InPass, rank
  <2> QED
    BY <1>1, <1>3, <2>2
<1>5. ASSUME NEW j \in 0 .. m - 1 - 1, j \in S PROVE j + 1 \in S
  <2>1. PICK q : InPass(rank, q, m, j + 1) /\ KeepsFree(rows, q) /\ t[j] = Identified(rows, q)
    BY <1>5
  <2>2. /\ j + 1 \in 1 .. m - 1 /\ (j + 1) - 1 = j /\ j + 1 \in 0 .. m - 1
        /\ j + 1 \in 1 .. PER_WAVE_MAX_NUM - 1
    BY Numbers
  <2>3. t[j + 1] = LevelTurn(t[j], j + 1)
    BY <1>3, <2>2
  <2>4. /\ t[j + 1] = Identified(rows, Turned(rank, q, j + 1))
        /\ KeepsFree(rows, Turned(rank, q, j + 1))
    BY <2>1, <2>2, <2>3, LevelTurnIs DEF InPass, rank
  <2>5. InPass(rank, Turned(rank, q, j + 1), m, j + 1 + 1)
    BY <1>2, <2>1, <2>2, TurnKeeps
  <2> QED
    BY <2>2, <2>4, <2>5
<1>6. m - 1 \in S
  <2> HIDE DEF S
  <2> QED
    BY <1>1, <1>4, <1>5, UpTo
<1>7. PICK q : /\ InPass(rank, q, m, m - 1 + 1) /\ KeepsFree(rows, q)
               /\ t[m - 1] = Identified(rows, q)
  BY <1>6
<1>8. InPass(rank, q, m, m)
  BY <1>7, Numbers
<1>9. Settled(rank, q, m - 1)
  BY <1>8, PassEnds
<1> QED
  BY <1>3, <1>7, <1>8, <1>9 DEF InPass, rank

(* The loop of sortLevel leaves the rows in the order of their ranks. *)
LEMMA LevelLoopSettles ==
  ASSUME NEW rows \in Rows, NEW n \in 0 .. PER_WAVE_MAX_NUM, InFront(rows, n)
  PROVE  \E q \in Order :
           /\ KeepsFree(rows, q) /\ Settled(LevelRank(rows), q, 1)
           /\ LevelLoop(rows) = Identified(rows, q)
<1> DEFINE rank == LevelRank(rows)
           N == PER_WAVE_MAX_NUM
<1>1. N \in Nat \ {0} /\ N - 1 \in Nat
  BY Numbers
<1>2. PICK t : /\ t[0] = rows
               /\ \A i \in 1 .. N - 1 : t[i] = LevelPass(t[i - 1], N - i)
               /\ t[N - 1] = LevelLoop(rows)
  BY LevelLoopPasses
<1> HIDE DEF rank
<1> DEFINE S == {i \in 0 .. N - 1 : \E q \in Order :
                   /\ KeepsFree(rows, q) /\ Stable(rank, q) /\ Settled(rank, q, N - i)
                   /\ t[i] = Identified(rows, q)}
<1>3. 0 \in S
  <2>1. Unmoved \in Order /\ \A i \in Slot : Unmoved[i] = i
    BY UnmovedIsOrder DEF Unmoved
  <2>2. KeepsFree(rows, Unmoved) /\ Stable(rank, Unmoved)
    BY <2>1 DEF KeepsFree, Stable
  <2>3. Settled(rank, Unmoved, N - 0)
    BY Numbers DEF Settled, Slot
  <2>4. rows = Identified(rows, Unmoved)
    BY <2>1 DEF Identified, Rows, Row
  <2> QED
    BY <1>1, <1>2, <2>1, <2>2, <2>3, <2>4
<1>4. ASSUME NEW i \in 0 .. N - 1 - 1, i \in S PROVE i + 1 \in S
  <2>1. PICK q \in Order : /\ KeepsFree(rows, q) /\ Stable(rank, q)
                           /\ Settled(rank, q, N - i) /\ t[i] = Identified(rows, q)
    BY <1>4
  <2>2. /\ i + 1 \in 1 .. N - 1 /\ (i + 1) - 1 = i /\ i + 1 \in 0 .. N - 1
        /\ N - i \in 1 .. N /\ N - (i + 1) = (N - i) - 1
    BY <1>1
  <2>3. t[i + 1] = LevelPass(t[i], (N - i) - 1)
    BY <1>2, <2>2
  <2>4. PICK u \in Order : /\ KeepsFree(rows, u) /\ Stable(rank, u)
                           /\ Settled(rank, u, (N - i) - 1)
                           /\ LevelPass(Identified(rows, q), (N - i) - 1)
                                = Identified(rows, u)
    BY <2>1, <2>2, LevelPassSettles DEF rank
  <2>5. t[i + 1] = Identified(rows, u) /\ Settled(rank, u, N - (i + 1))
    BY <2>1, <2>2, <2>3, <2>4
  <2> QED
    BY <2>2, <2>4, <2>5
<1>5. N - 1 \in S
  <2> HIDE DEF S, N
  <2> QED
    BY <1>1, <1>3, <1>4, UpTo
<1>6. PICK q \in Order : /\ KeepsFree(rows, q) /\ Settled(rank, q, N - (N - 1))
                         /\ t[N - 1] = Identified(rows, q)
  BY <1>5
<1>7. N - (N - 1) = 1
  BY <1>1
<1> QED
  BY <1>2, <1>6, <1>7 DEF rank

(***************************************************************************)
(* sortLevel is its loop: of the orders by level just one is stable, and   *)
(* the passes leave that one.                                              *)
(***************************************************************************)
LEMMA LevelSortIsLoop ==
  ASSUME NEW rows \in Rows, NEW n \in 0 .. PER_WAVE_MAX_NUM, InFront(rows, n)
  PROVE  sortLevel(rows) = {LevelLoop(rows)}
<1> DEFINE rank == LevelRank(rows)
<1>1. PICK q \in Order : /\ KeepsFree(rows, q) /\ Settled(rank, q, 1)
                         /\ LevelLoop(rows) = Identified(rows, q)
  BY LevelLoopSettles
<1>2. n \in Nat /\ \A i \in Slot : i \in Nat /\ i >= 1
  BY Numbers DEF Slot
<1>3. ASSUME NEW p \in Order, KeepsFree(rows, p), NEW i \in Slot
      PROVE  /\ p[i] \in Slot
             /\ rows[i].State = 1 => rows[p[i]].State = 1
             /\ rows[i].State # 1 => p[i] = i
  <2>1. p \in [Slot -> Slot] /\ \A x, y \in Slot : p[x] = p[y] => x = y
    BY OrderIsBijection
  <2> QED
    BY <1>3, <2>1 DEF KeepsFree
<1>4. LevelOrder(rows, q)
  <2>1. \A i \in Slot \ Active(rows) : q[i] = i
    BY <1>3, <1>1 DEF Active
  <2>2. ASSUME NEW i \in Active(rows), NEW j \in Active(rows), i < j
        PROVE  \/ rows[q[i]].UE_Level < rows[q[j]].UE_Level
               \/ rows[q[i]].UE_Level = rows[q[j]].UE_Level /\ q[i] < q[j]
    <3>1. /\ i \in Slot /\ j \in Slot /\ rows[i].State = 1 /\ rows[j].State = 1
          /\ j > 1
      BY <1>2, <2>2 DEF Active
    <3>2. Before(rank, q[i], q[j])
      BY <1>1, <2>2, <3>1 DEF Settled
    <3>3. /\ rank[q[i]] = rows[q[i]].UE_Level
          /\ rank[q[j]] = rows[q[j]].UE_Level
      BY <1>1, <1>3, <3>1 DEF LevelRank
    <3> QED
      BY <3>2, <3>3 DEF Before
  <2> QED
    BY <2>1, <2>2 DEF LevelOrder
<1>5. ASSUME NEW p \in Order, LevelOrder(rows, p) PROVE p = q
  <2>1. KeepsFree(rows, p)
    BY <1>5 DEF LevelOrder, KeepsFree, Active
  <2>2. ASSUME NEW x \in Slot, NEW y \in Slot, x < y PROVE Before(rank, p[x], p[y])
    <3>1. p[x] \in Slot /\ p[y] \in Slot /\ rank[p[x]] \in Nat
      BY <1>3, <2>1, LevelRankType
    <3>2. CASE rows[y].State = 1
      <4>1. rows[x].State = 1
        BY <1>2, <2>2, <3>2 DEF InFront
      <4>2. /\ rank[p[x]] = rows[p[x]].UE_Level
            /\ rank[p[y]] = rows[p[y]].UE_Level
        BY <1>3, <2>1, <3>2, <4>1 DEF LevelRank
      <4>3. \/ rows[p[x]].UE_Level < rows[p[y]].UE_Level
            \/ rows[p[x]].UE_Level = rows[p[y]].UE_Level /\ p[x] < p[y]
        BY <1>5, <2>2, <3>2, <4>1 DEF LevelOrder, Active
      <4> QED
        BY <4>2, <4>3 DEF Before
    <3>3. CASE rows[y].State # 1
      <4>1. p[y] = y /\ rank[p[y]] = 256
        BY <1>3, <2>1, <3>3 DEF LevelRank
      <4>2. CASE rows[x].State = 1
        <5>1. rank[p[x]] < 256
          BY <1>3, <2>1, <4>2, LevelRankType
        <5> QED
          BY <4>1, <5>1 DEF Before
      <4>3. CASE rows[x].State # 1
        <5>1. p[x] = x /\ rank[p[x]] = 256
          BY <1>3, <2>1, <4>3 DEF LevelRank
        <5> QED
          BY <2>2, <4>1, <5>1 DEF Before
      <4> QED
        BY <4>2, <4>3
    <3> QED
      BY <3>2, <3>3
  <2>3. Settled(rank, p, 1)
    BY <2>2 DEF Settled
  <2>4. rank \in [Slot -> Nat]
    BY LevelRankType
  <2> HIDE DEF rank
  <2> QED
    BY <1>1, <2>3, <2>4, OneSortedOrder
<1> QED
  BY <1>1, <1>4, <1>5 DEF sortLevel

-----------------------------------------------------------------------------
(* sortLevel_MLRA *)

(* A wave with a priority for each row. *)
Ranked == [rows : Rows, priority : [Slot -> Slot]]

(* Rows and priorities of a wave, in the order p. *)
Moved(rows, f, p) == [rows |-> Rearranged(rows, p), priority |-> Rearranged(f, p)]

(* How far back sortLevel_MLRA puts a row: the lower its priority the
   further, and behind every priority when it is not in use. *)
PriorityRank(rows, f) ==
  [i \in Slot |-> IF rows[i].State = 1 THEN PER_WAVE_MAX_NUM - f[i]
                                       ELSE PER_WAVE_MAX_NUM]

LEMMA PriorityRankType ==
  ASSUME NEW rows, NEW f \in [Slot -> Slot]
  PROVE  /\ PriorityRank(rows, f) \in [Slot -> Nat]
         /\ \A i \in Slot : PriorityRank(rows, f)[i] <= PER_WAVE_MAX_NUM
         /\ \A i \in Slot :
              rows[i].State = 1 => /\ PriorityRank(rows, f)[i] = PER_WAVE_MAX_NUM - f[i]
                                   /\ PriorityRank(rows, f)[i] < PER_WAVE_MAX_NUM
         /\ \A i \in Slot :
              rows[i].State # 1 => PriorityRank(rows, f)[i] = PER_WAVE_MAX_NUM
  BY Numbers DEF PriorityRank, Slot

LEMMA MovedType ==
  ASSUME NEW rows \in Rows, NEW f \in [Slot -> Slot], NEW p \in Order
  PROVE  Moved(rows, f, p) \in Ranked
  BY OrderIsBijection DEF Moved, Ranked, Rearranged, Rows

LEMMA PriorityTurnType ==
  ASSUME NEW wave \in Ranked, NEW j \in 1 .. PER_WAVE_MAX_NUM - 1
  PROVE  PriorityTurn(wave, j) \in Ranked
<1>1. wave.rows \in Rows /\ wave.priority \in [Slot -> Slot]
  BY DEF Ranked
<1>2. Moved(wave.rows, wave.priority, Exchange(j)) \in Ranked
  BY <1>1, ExchangeIs, MovedType
<1> QED
  BY <1>2 DEF PriorityTurn, Moved

(* A pass of sortLevel_MLRA goes from turn to turn. *)
LEMMA PriorityPassTurns ==
  ASSUME NEW wave \in Ranked, NEW last \in 0 .. PER_WAVE_MAX_NUM - 1
  PROVE  \E t : /\ t[0] = wave
                /\ \A j \in 1 .. last : t[j] = PriorityTurn(t[j - 1], j)
                /\ t[last] = PriorityPass(wave, last)
<1> DEFINE T(v, j) == PriorityTurn(v, j)
           F(g) == [j \in 0 .. last |-> IF j = 0 THEN wave ELSE T(g[j - 1], j)]
           t == CHOOSE g : g = F(g)
           step == [j \in 1 .. last |-> [v \in Ranked |-> T(v, j)]]
<1>1. PriorityPass(wave, last) = t[last]
  BY Zenon DEF PriorityPass
<1>2. last \in Nat /\ 1 .. last \subseteq 1 .. PER_WAVE_MAX_NUM - 1
  BY Numbers
<1>3. \A v \in Ranked, j \in 1 .. last : T(v, j) \in Ranked
  BY <1>2, PriorityTurnType
<1> HIDE DEF T
<1>4. \A v \in Ranked, j \in 1 .. last : step[j][v] = T(v, j)
  OBVIOUS
<1>5. StaysIn(Ranked, last, step)
  BY <1>3, <1>4 DEF StaysIn
<1> HIDE DEF step
<1>6. PICK g : g \in [0 .. last -> Ranked] /\ Goes(g, last, wave, step)
  BY <1>2, <1>5, Unroll, Zenon
<1>7. \A j \in 1 .. last : g[j] = T(g[j - 1], j)
  <2>1. \A j \in 1 .. last : j - 1 \in 0 .. last
    BY <1>2
  <2> QED
    BY <1>4, <1>6, <2>1 DEF Goes
<1>8. g = F(g)
  <2>1. \A j \in 0 .. last : j = 0 \/ j \in 1 .. last
    BY <1>2
  <2> QED
    BY <1>6, <1>7, <2>1 DEF Goes
<1>9. t = F(t)
  <2> HIDE DEF F
  <2> QED
    BY <1>8
<1> HIDE DEF t
<1>10. t[0] = wave
  BY <1>2, <1>9
<1>11. \A j \in 1 .. last : t[j] = T(t[j - 1], j)
  BY <1>2, <1>9
<1> QED
  BY <1>1, <1>10, <1>11 DEF T

LEMMA PriorityPassType ==
  ASSUME NEW wave \in Ranked, NEW last \in 0 .. PER_WAVE_MAX_NUM - 1
  PROVE  PriorityPass(wave, last) \in Ranked
<1>1. PICK t : /\ t[0] = wave
               /\ \A j \in 1 .. last : t[j] = PriorityTurn(t[j - 1], j)
               /\ t[last] = PriorityPass(wave, last)
  BY PriorityPassTurns
<1> DEFINE S == {j \in 0 .. last : t[j] \in Ranked}
<1>2. last \in Nat /\ \A j \in 0 .. last - 1 : j + 1 \in 1 .. last /\ (j + 1) - 1 = j
  BY Numbers
<1>3. 0 \in S
  BY <1>1, <1>2
<1>4. ASSUME NEW j \in 0 .. last - 1, j \in S PROVE j + 1 \in S
  <2>1. t[j + 1] = PriorityTurn(t[j], j + 1) /\ j + 1 \in 1 .. PER_WAVE_MAX_NUM - 1
    BY <1>1, <1>2, Numbers
  <2> QED
    BY <1>4, <2>1, PriorityTurnType
<1> HIDE DEF S
<1>5. last \in S
  BY <1>2, <1>3, <1>4, UpTo
<1> QED
  BY <1>1, <1>5 DEF S

(* The loop of sortLevel_MLRA goes from pass to pass. *)
LEMMA PriorityLoopPasses ==
  ASSUME NEW wave \in Ranked
  PROVE  \E t : /\ t[0] = wave
                /\ \A i \in 1 .. PER_WAVE_MAX_NUM - 1 :
                     t[i] = PriorityPass(t[i - 1], PER_WAVE_MAX_NUM - i)
                /\ t[PER_WAVE_MAX_NUM - 1] = PriorityLoop(wave)
<1> DEFINE n == PER_WAVE_MAX_NUM - 1
           T(v, i) == PriorityPass(v, PER_WAVE_MAX_NUM - i)
           F(g) == [i \in 0 .. n |-> IF i = 0 THEN wave ELSE T(g[i - 1], i)]
           t == CHOOSE g : g = F(g)
           step == [i \in 1 .. n |-> [v \in Ranked |-> T(v, i)]]
<1>1. PriorityLoop(wave) = t[n]
  BY Zenon DEF PriorityLoop
<1>2. n \in Nat /\ \A i \in 1 .. n : PER_WAVE_MAX_NUM - i \in 0 .. PER_WAVE_MAX_NUM - 1
  BY Numbers
<1>3. \A v \in Ranked, i \in 1 .. n : T(v, i) \in Ranked
  BY <1>2, PriorityPassType
<1> HIDE DEF T, n
<1>4. \A v \in Ranked, i \in 1 .. n : step[i][v] = T(v, i)
  OBVIOUS
<1>5. StaysIn(Ranked, n, step)
  BY <1>3, <1>4 DEF StaysIn
<1> HIDE DEF step
<1>6. PICK g : g \in [0 .. n -> Ranked] /\ Goes(g, n, wave, step)
  BY <1>2, <1>5, Unroll, Zenon
<1>7. \A i \in 1 .. n : g[i] = T(g[i - 1], i)
  <2>1. \A i \in 1 .. n : i - 1 \in 0 .. n
    BY <1>2
  <2> QED
    BY <1>4, <1>6, <2>1 DEF Goes
<1>8. g = F(g)
  <2>1. \A i \in 0 .. n : i = 0 \/ i \in 1 .. n
    BY <1>2
  <2> QED
    BY <1>6, <1>7, <2>1 DEF Goes
<1>9. t = F(t)
  <2> HIDE DEF F
  <2> QED
    BY <1>8
<1> HIDE DEF t
<1>10. t[0] = wave
  BY <1>2, <1>9
<1>11. \A i \in 1 .. n : t[i] = T(t[i - 1], i)
  BY <1>2, <1>9
<1> QED
  BY <1>1, <1>10, <1>11 DEF T, n

(* A turn of sortLevel_MLRA is a turn by rank. *)
LEMMA PriorityTurnIs ==
  ASSUME NEW rows \in Rows, NEW f \in [Slot -> Slot], NEW p \in Order,
         NEW j \in 1 .. PER_WAVE_MAX_NUM - 1
  PROVE  PriorityTurn(Moved(rows, f, p), j)
           = Moved(rows, f, Turned(PriorityRank(rows, f), p, j))
<1> DEFINE wave == Moved(rows, f, p)
           e == Exchange(j)
           rank == PriorityRank(rows, f)
<1>1. p \in [Slot -> Slot]
  BY OrderIsBijection
<1>2. j \in Slot /\ j + 1 \in Slot /\ e \in [Slot -> Slot]
  BY ExchangeIs
<1> DEFINE a == p[j]
           b == p[j + 1]
<1>3. a \in Slot /\ b \in Slot
  BY <1>1, <1>2
<1>4. /\ wave.rows[j] = rows[a] /\ wave.rows[j + 1] = rows[b]
      /\ wave.priority[j] = f[a] /\ wave.priority[j + 1] = f[b]
  BY <1>2 DEF Moved, Rearranged
<1>5. rows[a].State \in {0, 1} /\ rows[b].State \in {0, 1}
  BY <1>3 DEF Rows, Row
<1>6. f[a] \in 1 .. PER_WAVE_MAX_NUM /\ f[b] \in 1 .. PER_WAVE_MAX_NUM
  BY <1>3 DEF Slot
<1>7. /\ rows[a].State = 1 => rank[a] = PER_WAVE_MAX_NUM - f[a]
      /\ rows[b].State = 1 => rank[b] = PER_WAVE_MAX_NUM - f[b]
      /\ rows[a].State # 1 => rank[a] = PER_WAVE_MAX_NUM
      /\ rows[b].State # 1 => rank[b] = PER_WAVE_MAX_NUM
  BY <1>3, PriorityRankType
<1>8. rank[b] < rank[a] <=> /\ rows[b].State = 1
                            /\ rows[a].State = 0 \/ f[b] > f[a]
  <2> HIDE DEF a, b, rank
  <2> QED
    BY <1>5, <1>6, <1>7, Numbers
<1>9. [rows     |-> Rearranged(wave.rows, e),
       priority |-> Rearranged(wave.priority, e)] = Moved(rows, f, Rearranged(p, e))
  BY <1>1, <1>2 DEF Moved, Rearranged
<1> HIDE DEF wave, e, rank
<1>10. CASE rank[b] < rank[a]
  <2>1. PriorityTurn(wave, j) = Moved(rows, f, Rearranged(p, e))
    BY <1>4, <1>8, <1>9, <1>10 DEF PriorityTurn, e
  <2>2. Turned(rank, p, j) = Rearranged(p, e)
    BY <1>10 DEF Turned, e
  <2> QED
    BY <2>1, <2>2 DEF wave, rank
<1>11. CASE ~(rank[b] < rank[a])
  <2>1. PriorityTurn(wave, j) = wave
    BY <1>4, <1>8, <1>11 DEF PriorityTurn
  <2>2. Turned(rank, p, j) = p
    BY <1>11 DEF Turned
  <2> QED
    BY <2>1, <2>2 DEF wave, rank
<1> QED
  BY <1>10, <1>11

(* A pass of sortLevel_MLRA settles one more place. *)
LEMMA PriorityPassSettles ==
  ASSUME NEW rows \in Rows, NEW f \in [Slot -> Slot],
         NEW m \in 1 .. PER_WAVE_MAX_NUM, NEW p \in Order,
         Stable(PriorityRank(rows, f), p), Settled(PriorityRank(rows, f), p, m)
  PROVE  \E q \in Order :
           /\ Stable(PriorityRank(rows, f), q)
           /\ Settled(PriorityRank(rows, f), q, m - 1)
           /\ PriorityPass(Moved(rows, f, p), m - 1) = Moved(rows, f, q)
<1> DEFINE rank == PriorityRank(rows, f)
           start == Moved(rows, f, p)
<1>1. start \in Ranked /\ m - 1 \in 0 .. PER_WAVE_MAX_NUM - 1 /\ m - 1 \in Nat
  BY MovedType, Numbers
<1>2. rank \in [Slot -> Nat]
  BY PriorityRankType
<1> HIDE DEF rank
<1>3. PICK t : /\ t[0] = start
               /\ \A j \in 1 .. m - 1 : t[j] = PriorityTurn(t[j - 1], j)
               /\ t[m - 1] = PriorityPass(start, m - 1)
  <2> HIDE DEF start
  <2> QED
    BY <1>1, PriorityPassTurns
<1> DEFINE S == {j \in 0 .. m - 1 : \E q : /\ InPass(rank, q, m, j + 1)
                                           /\ t[j] = Moved(rows, f, q)}
<1>4. 0 \in S
  <2>1. Highest(rank, p, 1)
    BY Numbers DEF Highest, Slot
  <2>2. InPass(rank, p, m, 0 + 1)
    BY <2>1 DEF InPass, rank
  <2> QED
    BY <1>1, <1>3, <2>2
<1>5. ASSUME NEW j \in 0 .. m - 1 - 1, j \in S PROVE j + 1 \in S
  <2>1. PICK q : InPass(rank, q, m, j + 1) /\ t[j] = Moved(rows, f, q)
    BY <1>5
  <2>2. /\ j + 1 \in 1 .. m - 1 /\ (j + 1) - 1 = j /\ j + 1 \in 0 .. m - 1
        /\ j + 1 \in 1 .. PER_WAVE_MAX_NUM - 1
    BY Numbers
  <2>3. t[j + 1] = PriorityTurn(t[j], j + 1)
    BY <1>3, <2>2
  <2>4. t[j + 1] = Moved(rows, f, Turned(rank, q, j + 1))
    BY <2>1, <2>2, <2>3, PriorityTurnIs DEF InPass, rank
  <2>5. InPass(rank, Turned(rank, q, j + 1), m, j + 1 + 1)
    BY <1>2, <2>1, <2>2, TurnKeeps
  <2> QED
    BY <2>2, <2>4, <2>5
<1>6. m - 1 \in S
  <2> HIDE DEF S
  <2> QED
    BY <1>1, <1>4, <1>5, UpTo
<1>7. PICK q : InPass(rank, q, m, m - 1 + 1) /\ t[m - 1] = Moved(rows, f, q)
  BY <1>6
<1>8. InPass(rank, q, m, m)
  BY <1>7, Numbers
<1>9. Settled(rank, q, m - 1)
  BY <1>8, PassEnds
<1> QED
  BY <1>3, <1>7, <1>8, <1>9 DEF InPass, rank

(* The loop of sortLevel_MLRA leaves the rows in the order of their ranks. *)
LEMMA PriorityLoopSettles ==
  ASSUME NEW rows \in Rows, NEW f \in [Slot -> Slot]
  PROVE  \E q \in Order :
           /\ Settled(PriorityRank(rows, f), q, 1)
           /\ PriorityLoop([rows |-> rows, priority |-> f]) = Moved(rows, f, q)
<1> DEFINE rank == PriorityRank(rows, f)
           N == PER_WAVE_MAX_NUM
           wave == [rows |-> rows, priority |-> f]
<1>1. N \in Nat \ {0} /\ N - 1 \in Nat
  BY Numbers
<1>2. wave \in Ranked
  BY DEF Ranked
<1>3. PICK t : /\ t[0] = wave
               /\ \A i \in 1 .. N - 1 : t[i] = PriorityPass(t[i - 1], N - i)
               /\ t[N - 1] = PriorityLoop(wave)
  <2> HIDE DEF wave
  <2> QED
    BY <1>2, PriorityLoopPasses
<1> HIDE DEF rank
<1> DEFINE S == {i \in 0 .. N - 1 : \E q \in Order :
                   /\ Stable(rank, q) /\ Settled(rank, q, N - i)
                   /\ t[i] = Moved(rows, f, q)}
<1>4. 0 \in S
  <2>1. Unmoved \in Order /\ \A i \in Slot : Unmoved[i] = i
    BY UnmovedIsOrder DEF Unmoved
  <2>2. Stable(rank, Unmoved)
    BY <2>1 DEF Stable
  <2>3. Settled(rank, Unmoved, N - 0)
    BY Numbers DEF Settled, Slot
  <2>4. wave = Moved(rows, f, Unmoved)
    BY <2>1 DEF Moved, Rearranged, Rows
  <2> HIDE DEF wave
  <2> QED
    BY <1>1, <1>3, <2>1, <2>2, <2>3, <2>4
<1>5. ASSUME NEW i \in 0 .. N - 1 - 1, i \in S PROVE i + 1 \in S
  <2>1. PICK q \in Order : /\ Stable(rank, q) /\ Settled(rank, q, N - i)
                           /\ t[i] = Moved(rows, f, q)
    BY <1>5
  <2>2. /\ i + 1 \in 1 .. N - 1 /\ (i + 1) - 1 = i /\ i + 1 \in 0 .. N - 1
        /\ N - i \in 1 .. N /\ N - (i + 1) = (N - i) - 1
    BY <1>1
  <2>3. t[i + 1] = PriorityPass(t[i], (N - i) - 1)
    BY <1>3, <2>2
  <2>4. PICK u \in Order : /\ Stable(rank, u) /\ Settled(rank, u, (N - i) - 1)
                           /\ PriorityPass(Moved(rows, f, q), (N - i) - 1)
                                = Moved(rows, f, u)
    BY <2>1, <2>2, PriorityPassSettles DEF rank
  <2>5. t[i + 1] = Moved(rows, f, u) /\ Settled(rank, u, N - (i + 1))
    BY <2>1, <2>2, <2>3, <2>4
  <2> QED
    BY <2>2, <2>4, <2>5
<1>6. N - 1 \in S
  <2> HIDE DEF S, N
  <2> QED
    BY <1>1, <1>4, <1>5, UpTo
<1>7. PICK q \in Order : /\ Settled(rank, q, N - (N - 1)) /\ t[N - 1] = Moved(rows, f, q)
  BY <1>6
<1>8. N - (N - 1) = 1
  BY <1>1
<1> QED
  BY <1>3, <1>7, <1>8 DEF rank

(* Every row that is not in use is the same. *)
FreeAlike(rows) == \A i \in Slot : rows[i].State # 1 => rows[i] = FreeRow

(***************************************************************************)
(* Any order with the rows in use in front is what the loop leaves for     *)
(* some priorities: those that fall from place to place.                   *)
(***************************************************************************)
LEMMA SomePriorities ==
  ASSUME NEW rows \in Rows, NEW n \in 0 .. PER_WAVE_MAX_NUM, InFront(rows, n),
         FreeAlike(rows), NEW sorted \in sortLevel_MLRA(rows)
  PROVE  \E f \in [Slot -> Slot] :
           sorted = PriorityLoop([rows |-> rows, priority |-> f]).rows
<1> DEFINE N == PER_WAVE_MAX_NUM
<1>1. PICK q \in Order : sorted = Rearranged(rows, q)
  BY DEF sortLevel_MLRA
<1>2. /\ q \in [Slot -> Slot]
      /\ \A i, j \in Slot : q[i] = q[j] => i = j
      /\ \A j \in Slot : \E i \in Slot : q[i] = j
  BY OrderIsBijection
<1>3. InFront(sorted, n)
  BY MLRASortKeeps
<1>4. \A i \in Slot : i <= n <=> q[i] <= n
  BY <1>1, <1>2, <1>3 DEF InFront, Rearranged
<1>5. n \in Nat /\ N \in Nat \ {0} /\ \A i \in Slot : i \in Nat /\ 1 <= i /\ i <= N
  BY Numbers DEF Slot
<1> DEFINE p == [i \in Slot |-> IF i <= n THEN q[i] ELSE i]
<1>6. p \in [Slot -> Slot] /\ \A i \in Slot : p[i] = IF i <= n THEN q[i] ELSE i
  BY <1>2
<1> HIDE DEF p, N
<1>7. p \in Order
  <2>1. \A i, j \in Slot : p[i] = p[j] => i = j
    BY <1>2, <1>4, <1>6
  <2>2. \A j \in Slot : \E i \in Slot : p[i] = j
    BY <1>2, <1>4, <1>6
  <2> QED
    BY <1>6, <2>1, <2>2, BijectionIsOrder
<1>8. sorted = Rearranged(rows, p)
  <2>1. ASSUME NEW i \in Slot PROVE rows[q[i]] = rows[p[i]]
    <3>1. CASE i <= n
      BY <1>6, <3>1
    <3>2. CASE ~(i <= n)
      <4>1. rows[q[i]].State # 1 /\ rows[p[i]].State # 1
        BY <1>2, <1>4, <1>6, <3>2 DEF InFront
      <4> QED
        BY <1>2, <1>6, <4>1 DEF FreeAlike
    <3> QED
      BY <3>1, <3>2
  <2> QED
    BY <1>1, <2>1 DEF Rearranged
<1> DEFINE at == [a \in Slot |-> CHOOSE i \in Slot : p[i] = a]
           f == [a \in Slot |-> N + 1 - at[a]]
           rank == PriorityRank(rows, f)
<1>9. \A i \in Slot : at[p[i]] = i
  <2>1. \A i, j \in Slot : p[i] = p[j] => i = j
    BY <1>7, OrderIsBijection
  <2> QED
    BY <1>6, <2>1
<1>10. \A a \in Slot : at[a] \in Slot
  BY <1>7, OrderIsBijection
<1> HIDE DEF at
<1>11. f \in [Slot -> Slot] /\ \A i \in Slot : f[p[i]] = N + 1 - i
  <2>1. \A a \in Slot : N + 1 - at[a] \in Slot
    BY <1>5, <1>10 DEF Slot, N
  <2> QED
    BY <1>6, <1>9, <2>1
<1> HIDE DEF f
<1>12. ASSUME NEW i \in Slot PROVE rank[p[i]] = IF i <= n THEN i - 1 ELSE N
  <2>1. p[i] \in Slot /\ (rows[p[i]].State = 1 <=> i <= n)
    BY <1>4, <1>6 DEF InFront
  <2>2. N - (N + 1 - i) = i - 1
    BY <1>5
  <2> QED
    BY <1>11, <2>1, <2>2, PriorityRankType DEF N
<1>13. Settled(rank, p, 1)
  <2> SUFFICES ASSUME NEW x \in Slot, NEW y \in Slot, x < y
               PROVE  Before(rank, p[x], p[y])
    BY DEF Settled
  <2>1. /\ x \in Nat /\ 1 <= x /\ x <= N /\ y \in Nat /\ 1 <= y /\ y <= N
        /\ rank[p[x]] = IF x <= n THEN x - 1 ELSE N
        /\ rank[p[y]] = IF y <= n THEN y - 1 ELSE N
        /\ ~(x <= n) => p[x] = x
        /\ ~(y <= n) => p[y] = y
    BY <1>5, <1>6, <1>12
  <2> HIDE DEF rank
  <2> QED
    BY <1>5, <2>1 DEF Before
<1>14. PICK u \in Order : /\ Settled(rank, u, 1)
                          /\ PriorityLoop([rows |-> rows, priority |-> f]) = Moved(rows, f, u)
  BY <1>11, PriorityLoopSettles
<1>15. u = p
  <2>1. rank \in [Slot -> Nat]
    BY <1>11, PriorityRankType
  <2> HIDE DEF rank
  <2> QED
    BY <1>7, <1>13, <1>14, <2>1, OneSortedOrder
<1>16. Moved(rows, f, u).rows = sorted
  BY <1>8, <1>15 DEF Moved
<1> QED
  BY <1>11, <1>14, <1>16

(* Whatever the priorities, the loop leaves the rows in use in front. *)
LEMMA SomeOrder ==
  ASSUME NEW rows \in Rows, NEW f \in [Slot -> Slot]
  PROVE  PriorityLoop([rows |-> rows, priority |-> f]).rows \in sortLevel_MLRA(rows)
<1> DEFINE rank == PriorityRank(rows, f)
<1>1. PICK q \in Order : /\ Settled(rank, q, 1)
                         /\ PriorityLoop([rows |-> rows, priority |-> f]) = Moved(rows, f, q)
  BY PriorityLoopSettles
<1>2. Moved(rows, f, q).rows = Rearranged(rows, q)
  BY DEF Moved
<1>3. q \in [Slot -> Slot]
  BY OrderIsBijection
<1>4. ASSUME NEW i \in Slot, NEW j \in Slot, i < j, rows[q[j]].State = 1
      PROVE  rows[q[i]].State = 1
  <2>1. q[i] \in Slot /\ q[j] \in Slot
    BY <1>3
  <2>2. j > 1
    BY <1>4, Numbers DEF Slot
  <2>3. Before(rank, q[i], q[j])
    BY <1>1, <1>4, <2>2 DEF Settled
  <2>4. rank[q[i]] \in Nat /\ rank[q[j]] \in Nat /\ rank[q[j]] < PER_WAVE_MAX_NUM
    BY <1>4, <2>1, PriorityRankType
  <2>5. rank[q[i]] # PER_WAVE_MAX_NUM
    <3> HIDE DEF rank
    <3> QED
      BY <2>3, <2>4, Numbers DEF Before
  <2> QED
    BY <2>1, <2>5, PriorityRankType
<1> QED
  BY <1>1, <1>2, <1>4 DEF sortLevel_MLRA

(***************************************************************************)
(* sortLevel_MLRA is its loop: the orders that it may leave are those that *)
(* the passes leave for some priorities.                                   *)
(***************************************************************************)
LEMMA MLRASortIsLoop ==
  ASSUME NEW rows \in Rows, NEW n \in 0 .. PER_WAVE_MAX_NUM, InFront(rows, n),
         FreeAlike(rows)
  PROVE  sortLevel_MLRA(rows)
           = {PriorityLoop([rows |-> rows, priority |-> f]).rows : f \in [Slot -> Slot]}
  BY SomePriorities, SomeOrder

-----------------------------------------------------------------------------
(* A row that is not in use holds what MAC_U_init wrote: the third part of
   the inductive invariant, for the sorts only. *)
FreeRows == \A w \in Wave : FreeAlike(table[w])

(* Both sorts keep the rows that are not in use alike. *)
LEMMA SortsKeepFree ==
  ASSUME NEW rows \in Rows, FreeAlike(rows)
  PROVE  /\ \A sorted \in sortLevel_MLRA(rows) : FreeAlike(sorted)
         /\ \A sorted \in sortLevel(rows) : FreeAlike(sorted)
<1>1. ASSUME NEW sorted \in sortLevel_MLRA(rows) PROVE FreeAlike(sorted)
  <2>1. PICK p \in Order : sorted = Rearranged(rows, p)
    BY DEF sortLevel_MLRA
  <2> QED
    BY <2>1, OrderIsBijection DEF Rearranged, FreeAlike
<1>2. ASSUME NEW sorted \in sortLevel(rows) PROVE FreeAlike(sorted)
  <2>1. PICK p \in Order : LevelOrder(rows, p) /\ sorted = Identified(rows, p)
    BY DEF sortLevel
  <2>2. ASSUME NEW i \in Slot, sorted[i].State # 1 PROVE sorted[i] = FreeRow
    <3>1. sorted[i].State = rows[i].State
      BY <2>1 DEF Identified
    <3>2. rows[i].State # 1 /\ p[i] = i /\ rows[i] = FreeRow
      BY <2>1, <2>2, <3>1 DEF LevelOrder, Active, FreeAlike
    <3> QED
      BY <2>1, <3>2 DEF Identified, FreeRow
  <2> QED
    BY <2>2 DEF FreeAlike
<1> QED
  BY <1>1, <1>2

(* A step that writes one wave, with its free rows alike, keeps all so. *)
LEMMA WaveStepKeepsFree ==
  ASSUME TypeOK, FreeRows, NEW w \in Wave, NEW sorted, FreeAlike(sorted),
         table' = [table EXCEPT ![w] = sorted]
  PROVE  FreeRows'
<1>1. \A v \in Wave : table'[v] = IF v = w THEN sorted ELSE table[v]
  BY DEF TypeOK
<1> QED
  BY <1>1 DEF FreeRows

LEMMA FreeRowsStep == IInv /\ FreeRows /\ [Next]_vars => FreeRows'
<1> SUFFICES ASSUME IInv, FreeRows, [Next]_vars PROVE FreeRows'
  OBVIOUS
<1>1. TypeOK /\ \A w \in Wave : table[w] \in Rows /\ FreeAlike(table[w])
  BY DEF IInv, TypeOK, Rows, FreeRows
<1>2. CASE UNCHANGED vars
  BY <1>2 DEF vars, FreeRows, FreeAlike
<1>3. ASSUME NEW w \in Wave, SchedulerSort(w) PROVE FreeRows'
  <2>1. PICK rows \in sortLevel_MLRA(table[w]) : table' = [table EXCEPT ![w] = rows]
    BY <1>3 DEF SchedulerSort
  <2> QED
    BY <1>1, <2>1, SortsKeepFree, WaveStepKeepsFree
<1>4. ASSUME NEW w \in Wave, NEW rnti \in RNTI, Collide(rnti, w) PROVE FreeRows'
  <2>1. PICK sorted \in sortLevel(table[w]) : table' = [table EXCEPT ![w] = sorted]
    BY <1>4 DEF Collide
  <2> QED
    BY <1>1, <2>1, SortsKeepFree, WaveStepKeepsFree
<1>5. ASSUME NEW w \in Wave, NEW rnti \in RNTI, NEW service \in Service,
             Admit(rnti, w, service)
      PROVE  FreeRows'
  <2>1. PICK i \in FirstFree(w) :
          \E rows \in sortLevel_MLRA([table[w] EXCEPT ![i] = NewRow(rnti, service)]) :
            \E sorted \in sortLevel(rows) : table' = [table EXCEPT ![w] = sorted]
    BY <1>5 DEF Admit
  <2> DEFINE filled == [table[w] EXCEPT ![i] = NewRow(rnti, service)]
  <2>2. PICK rows \in sortLevel_MLRA(filled) :
          \E sorted \in sortLevel(rows) : table' = [table EXCEPT ![w] = sorted]
    BY <2>1
  <2>3. PICK sorted \in sortLevel(rows) : table' = [table EXCEPT ![w] = sorted]
    BY <2>2
  <2>4. filled \in Rows /\ InFront(filled, per_wave_usernum[w] + 1)
        /\ per_wave_usernum[w] + 1 \in 0 .. PER_WAVE_MAX_NUM
    BY FilledWave
  <2>5. FreeAlike(filled)
    <3>1. i \in Slot /\ NewRow(rnti, service).State = 1
      BY DEF FirstFree, NewRow
    <3>2. \A j \in Slot : filled[j] = IF j = i THEN NewRow(rnti, service) ELSE table[w][j]
      BY <1>1, <3>1 DEF Rows
    <3> HIDE DEF filled
    <3> QED
      BY <1>1, <3>1, <3>2 DEF FreeAlike
  <2> HIDE DEF filled
  <2>6. rows \in Rows /\ FreeAlike(rows)
    BY <2>4, <2>5, MLRASortKeeps, SortsKeepFree
  <2>7. FreeAlike(sorted)
    BY <2>6, SortsKeepFree
  <2> QED
    BY <1>1, <2>3, <2>7, WaveStepKeepsFree
<1>6. ASSUME NEW rnti \in RNTI, Refuse(rnti) PROVE FreeRows'
  BY <1>6 DEF Refuse, FreeRows
<1> QED
  BY <1>2, <1>3, <1>4, <1>5, <1>6 DEF Next, RAMSG_process

(* On a wave of a reached state both sorts are their loops. *)
LEMMA SortsAreLoops == IInv /\ FreeRows => SortsAreBubbleSorts
<1> SUFFICES ASSUME IInv, FreeRows, NEW w \in Wave
             PROVE  /\ sortLevel(table[w]) = {LevelLoop(table[w])}
                    /\ sortLevel_MLRA(table[w])
                         = {PriorityLoop([rows |-> table[w], priority |-> f]).rows :
                              f \in [Slot -> Slot]}
  BY DEF SortsAreBubbleSorts
<1>1. /\ table[w] \in Rows /\ per_wave_usernum[w] \in 0 .. PER_WAVE_MAX_NUM
      /\ InFront(table[w], per_wave_usernum[w]) /\ FreeAlike(table[w])
  BY DEF IInv, TypeOK, Rows, FreeRows
<1>2. sortLevel(table[w]) = {LevelLoop(table[w])}
  BY <1>1, LevelSortIsLoop
<1>3. sortLevel_MLRA(table[w])
        = {PriorityLoop([rows |-> table[w], priority |-> f]).rows : f \in [Slot -> Slot]}
  BY <1>1, MLRASortIsLoop
<1> QED
  BY <1>2, <1>3

(***************************************************************************)
(* The bubble sorts of info_process.c do what MacAccess says of them, for  *)
(* any number of rows: on every wave that is reached the passes of         *)
(* sortLevel end in the one order by level in which rows of one level keep *)
(* their places, and those of sortLevel_MLRA, over all the priorities that *)
(* the rows may have, in just the orders with the rows in use in front.    *)
(***************************************************************************)
THEOREM SortsAreTheLoops == Spec => []SortsAreBubbleSorts
<1>1. Init => FreeRows
  BY DEF Init, FreeRows, FreeAlike
<1> QED
  BY <1>1, Invariant, FreeRowsStep, SortsAreLoops, PTL DEF Spec
=============================================================================
