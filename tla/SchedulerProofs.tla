-------------------------- MODULE SchedulerProofs --------------------------
(***************************************************************************)
(* Proofs about Scheduler, for every number of users, waves, rows and RBs: *)
(* an uplink RB is granted to one user once; the entries of a subframe's   *)
(* rows stay, apart from each other, the last of a user's rows what is     *)
(* registered for him; the first overrun of the RBs is the header's; a     *)
(* subframe takes a packet when there is one, and crashes only on a packet *)
(* behind a longer one.  What the loops compute is proved turn by turn,    *)
(* with UpTo for induction.                                                *)
(***************************************************************************)
EXTENDS Scheduler, SequenceTheorems, FiniteSetTheorems, WellFoundedInduction, TLAPS

-----------------------------------------------------------------------------
ULGrant == [begin : Nat, total : Nat]

GrantsTyped ==
  /\ ul \in [User -> ULGrant \cup {NoGrant}]
  /\ eatrly_ul \in [User -> ULGrant \cup {NoGrant}]

PoolTyped == UL_min_idleRB \in RB_TOTALNUM .. SCH_RB_NUM

(* UplinkGrantsApart is inductive with the types of what it speaks of. *)
IInv == GrantsTyped /\ PoolTyped /\ UplinkGrantsApart

(* The SCH RBs of the uplink are a range of numbers. *)
LEMMA PoolNumbers == RB_TOTALNUM \in Nat /\ SCH_RB_NUM \in Nat /\ RB_TOTALNUM <= SCH_RB_NUM
  BY SchedulerAssumption

(* Who has no grant has no RB. *)
LEMMA NoRBs == RBs(NoGrant) = {}
  BY DEF RBs

(* Nobody has a grant in the beginning. *)
LEMMA InitInvariant == Init => IInv
<1> SUFFICES ASSUME Init PROVE IInv
  OBVIOUS
<1>1. GrantsTyped /\ PoolTyped
  BY PoolNumbers DEF Init, GrantsTyped, PoolTyped
<1>2. \A u \in User : ul[u] = NoGrant /\ eatrly_ul[u] = NoGrant
  BY DEF Init
<1>3. UplinkGrantsApart
  BY <1>2, NoRBs DEF UplinkGrantsApart, UplinkGrants
<1> QED
  BY <1>1, <1>3 DEF IInv

(***************************************************************************)
(* non_resident_resource_apply takes its RBs from the part of the range    *)
(* that has not been given out, and never more than is left.               *)
(***************************************************************************)
LEMMA GrantedFits ==
  ASSUME PoolTyped, NEW n \in RBNum
  PROVE  /\ Granted(n) \in Nat
         /\ UL_min_idleRB + Granted(n) <= SCH_RB_NUM
<1>1. n \in Nat
  BY SchedulerAssumption
<1> QED
  BY <1>1, PoolNumbers DEF PoolTyped, Granted

(* A request gives out RBs that nobody has. *)
LEMMA ApplyStep ==
  ASSUME IInv, NEW u \in User, NEW n \in RBNum, non_resident_resource_apply(u, n)
  PROVE  IInv'
<1> DEFINE new == [begin |-> UL_min_idleRB, total |-> Granted(n)]
<1>1. Granted(n) \in Nat /\ UL_min_idleRB + Granted(n) <= SCH_RB_NUM
  BY GrantedFits DEF IInv
<1>2. /\ RB_TOTALNUM \in Nat /\ SCH_RB_NUM \in Nat /\ UL_min_idleRB \in Nat
      /\ RB_TOTALNUM <= UL_min_idleRB
  BY PoolNumbers DEF IInv, PoolTyped
<1>3. /\ ul' = [ul EXCEPT ![u] = new]
      /\ UL_min_idleRB' = UL_min_idleRB + Granted(n)
      /\ eatrly_ul' = eatrly_ul
  BY DEF non_resident_resource_apply, radio
<1>4. GrantsTyped' /\ PoolTyped'
  <2>1. new \in ULGrant
    BY <1>1, <1>2 DEF ULGrant
  <2>2. GrantsTyped'
    BY <1>3, <2>1 DEF IInv, GrantsTyped
  <2>3. PoolTyped'
    BY <1>1, <1>2, <1>3 DEF PoolTyped
  <2> QED
    BY <2>2, <2>3
<1>5. RBs(new) \subseteq UL_min_idleRB .. UL_min_idleRB' - 1
  BY <1>1, <1>2, <1>3 DEF RBs
<1>6. \A v \in User : /\ ul'[v] = ul[v] \/ (v = u /\ ul'[v] = new)
                      /\ eatrly_ul'[v] = eatrly_ul[v]
  BY <1>3 DEF IInv, GrantsTyped
<1>7. \A v \in User : \A g \in UplinkGrants(v) :
        /\ RBs(g) \subseteq RB_TOTALNUM .. UL_min_idleRB - 1
        /\ RBs(g) \subseteq RB_TOTALNUM .. UL_min_idleRB' - 1
        /\ RBs(g) \cap RBs(new) = {}
  <2> SUFFICES ASSUME NEW v \in User, NEW g \in UplinkGrants(v)
               PROVE  /\ RBs(g) \subseteq RB_TOTALNUM .. UL_min_idleRB - 1
                      /\ RBs(g) \subseteq RB_TOTALNUM .. UL_min_idleRB' - 1
                      /\ RBs(g) \cap RBs(new) = {}
    OBVIOUS
  <2>1. RBs(g) \subseteq RB_TOTALNUM .. UL_min_idleRB - 1
    BY DEF IInv, UplinkGrantsApart
  <2> HIDE DEF new
  <2>2. \A x \in RB_TOTALNUM .. UL_min_idleRB - 1 :
          /\ x \in RB_TOTALNUM .. UL_min_idleRB' - 1
          /\ x \notin UL_min_idleRB .. UL_min_idleRB' - 1
    BY <1>1, <1>2, <1>3
  <2> QED
    BY <1>5, <2>1, <2>2
<1>8. RBs(new) \subseteq RB_TOTALNUM .. UL_min_idleRB' - 1
  BY <1>1, <1>2, <1>3, <1>5
<1> HIDE DEF new
<1>9. UplinkGrantsApart'
  <2>1. ASSUME NEW v \in User
        PROVE  /\ RBs(ul'[v]) \cap RBs(eatrly_ul'[v]) = {}
               /\ \A g \in UplinkGrants(v)' :
                    RBs(g) \subseteq RB_TOTALNUM .. UL_min_idleRB' - 1
    BY <1>6, <1>7, <1>8 DEF IInv, UplinkGrantsApart, UplinkGrants
  <2>2. ASSUME NEW v \in User, NEW w \in User, v # w,
               NEW g \in UplinkGrants(v)', NEW h \in UplinkGrants(w)'
        PROVE  RBs(g) \cap RBs(h) = {}
    <3>1. /\ g \in UplinkGrants(v) \/ (v = u /\ g = new)
          /\ h \in UplinkGrants(w) \/ (w = u /\ h = new)
      BY <1>6 DEF UplinkGrants
    <3> QED
      BY <1>7, <2>2, <3>1 DEF IInv, UplinkGrantsApart
  <2> QED
    BY <2>1, <2>2 DEF UplinkGrantsApart
<1> QED
  BY <1>4, <1>9 DEF IInv

(***************************************************************************)
(* SCH_RB_Reception_info_renew only moves a grant from one place of its    *)
(* user to the other, over the one that was there.                         *)
(***************************************************************************)
LEMMA RenewStep ==
  ASSUME IInv, prepare_next_subframe_send_data PROVE IInv'
<1>1. UL_min_idleRB' = UL_min_idleRB
  BY DEF prepare_next_subframe_send_data
<1>2. \/ UNCHANGED <<ul, eatrly_ul>>
      \/ \E rows, start : eatrly_ul' = Early(rows, start) /\ ul' = Uplink(rows, start)
  BY DEF prepare_next_subframe_send_data
<1>4. \A u \in User :
        \/ ul'[u] = ul[u] /\ eatrly_ul'[u] = eatrly_ul[u]
        \/ ul'[u] = NoGrant /\ eatrly_ul'[u] = ul[u]
        \/ ul'[u] = NoGrant /\ eatrly_ul'[u] = NoGrant
  BY <1>2 DEF Early, Uplink
<1>3. GrantsTyped' /\ PoolTyped'
  <2>1. DOMAIN ul' = User /\ DOMAIN eatrly_ul' = User
    BY <1>2 DEF IInv, GrantsTyped, Early, Uplink
  <2>2. ul' = [u \in User |-> ul'[u]] /\ eatrly_ul' = [u \in User |-> eatrly_ul'[u]]
    BY <1>2 DEF IInv, GrantsTyped, Early, Uplink
  <2>3. \A u \in User : ul'[u] \in ULGrant \cup {NoGrant} /\ eatrly_ul'[u] \in ULGrant \cup {NoGrant}
    BY <1>4 DEF IInv, GrantsTyped
  <2> QED
    BY <1>1, <2>2, <2>3 DEF IInv, GrantsTyped, PoolTyped
<1>5. UplinkGrantsApart'
  <2>1. ASSUME NEW u \in User, NEW g \in UplinkGrants(u)'
        PROVE  g \in UplinkGrants(u) \/ g = NoGrant
    BY <1>4, <2>1 DEF UplinkGrants
  <2>2. \A u \in User : RBs(ul'[u]) \cap RBs(eatrly_ul'[u]) = {}
    BY <1>4, NoRBs DEF IInv, UplinkGrantsApart
  <2>3. \A u \in User : \A g \in UplinkGrants(u)' :
          RBs(g) \subseteq RB_TOTALNUM .. UL_min_idleRB' - 1
    BY <1>1, <2>1, NoRBs DEF IInv, UplinkGrantsApart
  <2>4. \A u, v \in User : u # v =>
          \A g \in UplinkGrants(u)', h \in UplinkGrants(v)' : RBs(g) \cap RBs(h) = {}
    BY <2>1, NoRBs DEF IInv, UplinkGrantsApart
  <2> QED
    BY <2>2, <2>3, <2>4 DEF UplinkGrantsApart
<1> QED
  BY <1>3, <1>5 DEF IInv

(* Steps that leave the grants alone. *)
LEMMA Unmoved ==
  ASSUME IInv, UNCHANGED <<ul, eatrly_ul, UL_min_idleRB>> PROVE IInv'
  BY DEF IInv, GrantsTyped, PoolTyped, UplinkGrantsApart, UplinkGrants

(* No step breaks the inductive invariant. *)
LEMMA StepInvariant == IInv /\ [Next]_vars => IInv'
<1> SUFFICES ASSUME IInv, [Next]_vars PROVE IInv'
  OBVIOUS
<1>1. ASSUME NEW u \in User, NEW w \in Wave_num[u], Access(u, w) PROVE IInv'
  BY <1>1, Unmoved DEF Access, radio
<1>2. ASSUME NEW u \in User, NEW n \in DataLen, TYPE_MSG_division_Handle(u, n)
      PROVE  IInv'
  BY <1>2, Unmoved DEF TYPE_MSG_division_Handle, radio
<1>3. ASSUME NEW u \in User, NEW n \in RBNum, non_resident_resource_apply(u, n)
      PROVE  IInv'
  BY <1>3, ApplyStep
<1>4. ASSUME prepare_next_subframe_send_data PROVE IInv'
  BY <1>4, RenewStep
<1>5. ASSUME UNCHANGED vars PROVE IInv'
  BY <1>5, Unmoved DEF vars, radio
<1> QED
  BY <1>1, <1>2, <1>3, <1>4, <1>5 DEF Next

(***************************************************************************)
(* However many users ask and however subframes and requests alternate, no *)
(* uplink RB is granted to two users, or twice to one.                     *)
(***************************************************************************)
THEOREM UplinkGrantsStayApart == Spec => []UplinkGrantsApart
<1>1. IInv => UplinkGrantsApart
  BY DEF IInv
<1> QED
  BY <1>1, InitInvariant, StepInvariant, PTL DEF Spec

(* The order of the natural numbers as a relation. *)
LessThan == {p \in Nat \X Nat : p[1] < p[2]}

(* A set of natural numbers has a least one. *)
LEMMA Least ==
  ASSUME NEW T, T \subseteq Nat, T # {}
  PROVE  \E m \in T : \A k \in T : m <= k
<1>1. IsWellFoundedOn(LessThan, Nat)
  BY NatLessThanWellFounded DEF OpToRel, LessThan
<1>2. \E m \in T : \A k \in T : ~ (<<k, m>> \in LessThan)
  BY <1>1, WFMin
<1>3. \A k, m \in Nat : k < m => <<k, m>> \in LessThan
  BY DEF LessThan
<1>4. PICK m \in T : \A k \in T : ~ (<<k, m>> \in LessThan)
  BY <1>2
<1>5. \A k \in T : ~(k < m)
  BY <1>3, <1>4
<1>6. \A k \in T : m <= k
  BY <1>5
<1> QED
  BY <1>6

(* What holds of 0 and passes from each number below b to the next holds of
   all numbers up to b. *)
LEMMA UpTo ==
  ASSUME NEW b \in Nat, NEW S, 0 \in S, \A n \in 0 .. b - 1 : n \in S => n + 1 \in S
  PROVE  0 .. b \subseteq S
<1>1. SUFFICES ASSUME ~(0 .. b \subseteq S) PROVE FALSE
  OBVIOUS
<1> DEFINE T == (0 .. b) \ S
<1>2. T \subseteq Nat /\ T # {}
  BY <1>1
<1>3. PICK m \in T : \A k \in T : m <= k
  BY <1>2, Least
<1>4. m # 0 /\ m - 1 \in 0 .. b - 1 /\ m - 1 \notin T
  BY <1>3
<1> QED
  BY <1>3, <1>4

(* The function behind SumTo. *)
LEMMA SumsExist ==
  ASSUME NEW x, NEW n \in Nat
  PROVE  \E g : g = [i \in 0 .. n |-> IF i = 0 THEN 0 ELSE g[i - 1] + x[i]]
<1> DEFINE F(g, k) == [i \in 0 .. k |-> IF i = 0 THEN 0 ELSE g[i - 1] + x[i]]
           S == {k \in 0 .. n : \E g : g = F(g, k)}
<1>1. 0 \in S
  <2> DEFINE g == [i \in 0 .. 0 |-> 0]
  <2>1. g = F(g, 0)
    OBVIOUS
  <2> HIDE DEF g
  <2>2. \E h : h = F(h, 0)
    BY <2>1
  <2>3. 0 \in 0 .. n
    OBVIOUS
  <2> QED
    BY <2>2, <2>3
<1>2. ASSUME NEW k \in 0 .. n - 1, k \in S PROVE k + 1 \in S
  <2>1. PICK g : g = F(g, k)
    BY <1>2
  <2> DEFINE h == [i \in 0 .. k + 1 |-> IF i <= k THEN g[i] ELSE g[k] + x[k + 1]]
  <2>2. \A i \in 0 .. k + 1 : h[i] = IF i = 0 THEN 0 ELSE h[i - 1] + x[i]
    <3>1. \A i \in 0 .. k : g[i] = IF i = 0 THEN 0 ELSE g[i - 1] + x[i]
      BY <2>1
    <3>2. \A i \in 0 .. k : h[i] = g[i]
      OBVIOUS
    <3>3. h[k + 1] = h[k] + x[k + 1]
      OBVIOUS
    <3> HIDE DEF h
    <3>4. ASSUME NEW i \in 0 .. k + 1 PROVE h[i] = IF i = 0 THEN 0 ELSE h[i - 1] + x[i]
      <4>1. CASE i = k + 1
        BY <3>3, <4>1
      <4>2. CASE i \in 0 .. k
        <5>1. i # 0 => i - 1 \in 0 .. k
          BY <4>2
        <5> QED
          BY <3>1, <3>2, <4>2, <5>1
      <4> QED
        BY <4>1, <4>2
    <3> QED
      BY <3>4
  <2>3. h = [i \in 0 .. k + 1 |-> h[i]]
    OBVIOUS
  <2> HIDE DEF h
  <2>4. h = F(h, k + 1)
    BY <2>2, <2>3
  <2> QED
    BY <2>4
<1> HIDE DEF S
<1>3. 0 .. n \subseteq S
  BY <1>1, <1>2, UpTo
<1> QED
  BY <1>3 DEF S

(* SumTo adds the lengths one after the other. *)
LEMMA SumIs ==
  ASSUME NEW x, NEW n \in Nat, x \in [1 .. n -> Nat], Len(x) = n
  PROVE  /\ SumTo(x, 0) = 0
         /\ \A k \in 0 .. n : SumTo(x, k) \in Nat
         /\ \A k \in 1 .. n : SumTo(x, k) = SumTo(x, k - 1) + x[k]
<1> DEFINE G(g) == [i \in 0 .. n |-> IF i = 0 THEN 0 ELSE g[i - 1] + x[i]]
           f == CHOOSE g : g = G(g)
<1>1. f = G(f)
  BY SumsExist
<1>2. \A k : SumTo(x, k) = f[k]
  BY Zenon DEF SumTo
<1> HIDE DEF f
<1>3. f[0] = 0
  BY <1>1
<1>4. \A k \in 1 .. n : f[k] = f[k - 1] + x[k]
  BY <1>1
<1> DEFINE S == {k \in 0 .. n : f[k] \in Nat}
<1>5. 0 \in S
  BY <1>3
<1>6. ASSUME NEW k \in 0 .. n - 1, k \in S PROVE k + 1 \in S
  <2>1. k + 1 \in 1 .. n /\ (k + 1) - 1 = k
    OBVIOUS
  <2> QED
    BY <1>4, <1>6, <2>1
<1>7. 0 .. n \subseteq S
  <2> HIDE DEF S
  <2> QED
    BY <1>5, <1>6, UpTo
<1> QED
  BY <1>2, <1>3, <1>4, <1>7

(* A set of numbers from 1 on without a gap is counted by its last one. *)
LEMMA NoGap ==
  ASSUME NEW n \in Nat, NEW T, T \subseteq 1 .. n,
         \A k \in T : \A j \in 1 .. k : j \in T
  PROVE  Cardinality(T) \in 0 .. n /\ T = 1 .. Cardinality(T)
<1>1. \E m \in 0 .. n : T = 1 .. m
  <2>1. CASE 1 .. n \subseteq T
    <3>1. T = 1 .. n
      BY <2>1
    <3>2. n \in 0 .. n
      OBVIOUS
    <3> QED
      BY <3>1, <3>2
  <2>2. CASE ~(1 .. n \subseteq T)
    <3> DEFINE U == (1 .. n) \ T
    <3>1. U \subseteq Nat /\ U # {}
      BY <2>2
    <3>2. PICK m \in U : \A k \in U : m <= k
      BY <3>1, Least
    <3>3. m \in 1 .. n /\ m \notin T
      OBVIOUS
    <3>4. \A j \in T : j < m
      <4> SUFFICES ASSUME NEW j \in T, m <= j PROVE FALSE
        BY <3>3
      <4>1. m \in 1 .. j
        BY <3>3
      <4> QED
        BY <3>3, <4>1
    <3>5. \A j \in 1 .. m - 1 : j \in T
      BY <3>2, <3>3
    <3> HIDE DEF U
    <3>6. \A j \in T : j \in 1 .. m - 1
      BY <3>3, <3>4
    <3>7. m - 1 \in 0 .. n
      BY <3>3
    <3>8. ASSUME NEW l \in 0 .. n, l = m - 1 PROVE T = 1 .. l
      BY <3>5, <3>6, <3>8
    <3> DEFINE e == m - 1
    <3>9. e \in 0 .. n /\ e = m - 1
      BY <3>7
    <3> HIDE DEF e
    <3>10. T = 1 .. e
      BY <3>8, <3>9
    <3> QED
      BY <3>9, <3>10
  <2> QED
    BY <2>1, <2>2
<1>2. PICK m \in 0 .. n : T = 1 .. m
  BY <1>1
<1>3. Cardinality(1 .. m) = m
  BY FS_Interval
<1> QED
  BY <1>2, <1>3

(* More packets are not shorter. *)
LEMMA SumGrows ==
  ASSUME NEW x, NEW n \in Nat, x \in [1 .. n -> Nat], Len(x) = n,
         NEW k \in 0 .. n, NEW j \in 0 .. k
  PROVE  SumTo(x, j) <= SumTo(x, k)
<1> DEFINE S == {i \in 0 .. n : j <= i => SumTo(x, j) <= SumTo(x, i)}
<1>1. 0 \in S
  BY SumIs
<1>2. ASSUME NEW i \in 0 .. n - 1, i \in S PROVE i + 1 \in S
  <2>1. /\ i + 1 \in 1 .. n /\ (i + 1) - 1 = i /\ i \in 0 .. n /\ j \in 0 .. n
    OBVIOUS
  <2>2. /\ SumTo(x, i + 1) = SumTo(x, i) + x[i + 1]
        /\ SumTo(x, i) \in Nat /\ SumTo(x, j) \in Nat /\ x[i + 1] \in Nat
    BY <2>1, SumIs
  <2>3. CASE j <= i
    BY <1>2, <2>1, <2>2, <2>3
  <2>4. CASE j = i + 1
    BY <2>1, <2>2, <2>4
  <2> QED
    BY <2>3, <2>4
<1> HIDE DEF S
<1>3. 0 .. n \subseteq S
  BY <1>1, <1>2, UpTo
<1> QED
  BY <1>3 DEF S

(* The loop takes the packets that fit together; the first one, if it fits. *)
LEMMA TakenIs ==
  ASSUME NEW x, NEW n \in Nat, x \in [1 .. n -> Nat], Len(x) = n, NEW b \in Nat
  PROVE  /\ Taken(x, b) \in 0 .. n
         /\ Taken(x, b) > 0 =>
              /\ SumTo(x, Taken(x, b)) <= b
              /\ SumTo(x, Taken(x, b)) <= PER_UE_MAX_DL_VOLUME - MAC_FRAME_LENGTH
         /\ n > 0 /\ x[1] <= b /\ x[1] <= PER_UE_MAX_DL_VOLUME - MAC_FRAME_LENGTH =>
              Taken(x, b) > 0
<1> DEFINE fits(k) == /\ SumTo(x, k) <= PER_UE_MAX_DL_VOLUME - MAC_FRAME_LENGTH
                      /\ SumTo(x, k) <= b
           T == {k \in 1 .. n : fits(k)}
           m == Cardinality(T)
<1>1. Taken(x, b) = m
  BY DEF Taken
<1>2. \A k \in T : \A j \in 1 .. k : j \in T
  <2> SUFFICES ASSUME NEW k \in T, NEW j \in 1 .. k PROVE j \in T
    OBVIOUS
  <2>1. SumTo(x, j) <= SumTo(x, k)
    BY SumGrows
  <2>2. SumTo(x, j) \in Nat /\ SumTo(x, k) \in Nat
    BY SumIs
  <2> QED
    BY <2>1, <2>2, SchedulerAssumption DEF MAC_FRAME_LENGTH
<1>3. m \in 0 .. n /\ T = 1 .. m
  <2> HIDE DEF T
  <2>1. T \subseteq 1 .. n
    BY DEF T
  <2> QED
    BY <1>2, <2>1, NoGap
<1>4. n > 0 => SumTo(x, 1) = x[1]
  <2> SUFFICES ASSUME n > 0 PROVE SumTo(x, 1) = x[1]
    OBVIOUS
  <2>1. 1 \in 1 .. n /\ x[1] \in Nat
    OBVIOUS
  <2>2. SumTo(x, 1) = SumTo(x, 1 - 1) + x[1]
    BY <2>1, SumIs
  <2>3. SumTo(x, 1 - 1) = 0
    BY SumIs
  <2> QED
    BY <2>1, <2>2, <2>3
<1>6. n > 0 /\ fits(1) => 1 \in T
  OBVIOUS
<1> HIDE DEF m
<1>5. m > 0 => m \in T
  <2> HIDE DEF T
  <2> QED
    BY <1>3
<1>7. n > 0 /\ fits(1) => m > 0
  BY <1>3, <1>6
<1>8. m > 0 => fits(m)
  BY <1>5
<1> QED
  BY <1>1, <1>3, <1>4, <1>7, <1>8

(* The RBs for so many bytes. *)
LEMMA CeilIs ==
  ASSUME NEW a \in Nat, NEW d \in Nat \ {0}
  PROVE  /\ Ceil(a, d) \in Nat
         /\ \A k \in Nat : a <= k * d => Ceil(a, d) <= k
         /\ a <= Ceil(a, d) * d
<1> DEFINE c == a + d - 1
           q == c \div d
<1>1. c \in Nat
  OBVIOUS
<1> HIDE DEF c
<1>2. q \in Nat /\ q * d <= c /\ c < q * d + d
  BY <1>1
<1>3. Ceil(a, d) = q /\ c = a + d - 1
  BY DEF Ceil, c
<1> HIDE DEF q
<1>4. ASSUME NEW k \in Nat, a <= k * d PROVE q <= k
  <2>1. SUFFICES ASSUME q >= k + 1 PROVE FALSE
    BY <1>2
  <2>2. q * d >= (k + 1) * d
    BY <1>2, <2>1
  <2>3. (k + 1) * d = k * d + d
    OBVIOUS
  <2>4. k * d \in Nat /\ q * d \in Nat
    BY <1>2
  <2> QED
    BY <1>2, <1>3, <1>4, <2>2, <2>3, <2>4
<1>5. q * d \in Nat
  BY <1>2
<1> QED
  BY <1>2, <1>3, <1>4, <1>5

(* More bytes need no fewer RBs. *)
LEMMA CeilGrows ==
  ASSUME NEW a \in Nat, NEW b \in Nat, a <= b, NEW d \in Nat \ {0}
  PROVE  Ceil(a, d) <= Ceil(b, d)
<1>1. Ceil(b, d) \in Nat /\ b <= Ceil(b, d) * d
  BY CeilIs
<1>2. Ceil(b, d) * d \in Nat
  BY <1>1
<1>3. a <= Ceil(b, d) * d
  BY <1>1, <1>2
<1> QED
  BY <1>1, <1>3, CeilIs

-----------------------------------------------------------------------------
(* The function behind Packaged. *)
LEMMA PackagesExist ==
  ASSUME NEW x, NEW n \in Nat
  PROVE  \E g : g = [k \in 0 .. n |-> IF k = 0 THEN Empty ELSE Put(g[k - 1], k, x[k])]
<1> DEFINE F(g, m) == [k \in 0 .. m |-> IF k = 0 THEN Empty ELSE Put(g[k - 1], k, x[k])]
           S == {m \in 0 .. n : \E g : g = F(g, m)}
<1>1. 0 \in S
  <2> DEFINE g == [k \in 0 .. 0 |-> Empty]
  <2>1. g = F(g, 0)
    OBVIOUS
  <2> HIDE DEF g
  <2>2. \E h : h = F(h, 0)
    BY <2>1
  <2>3. 0 \in 0 .. n
    OBVIOUS
  <2> QED
    BY <2>2, <2>3
<1>2. ASSUME NEW m \in 0 .. n - 1, m \in S PROVE m + 1 \in S
  <2>1. PICK g : g = F(g, m)
    BY <1>2
  <2> DEFINE h == [k \in 0 .. m + 1 |-> IF k <= m THEN g[k] ELSE Put(g[m], m + 1, x[m + 1])]
  <2>2. \A k \in 0 .. m + 1 : h[k] = IF k = 0 THEN Empty ELSE Put(h[k - 1], k, x[k])
    <3>1. \A k \in 0 .. m : g[k] = IF k = 0 THEN Empty ELSE Put(g[k - 1], k, x[k])
      BY <2>1
    <3>2. \A k \in 0 .. m : h[k] = g[k]
      OBVIOUS
    <3>3. h[m + 1] = Put(h[m], m + 1, x[m + 1])
      OBVIOUS
    <3> HIDE DEF h
    <3>4. ASSUME NEW k \in 0 .. m + 1
          PROVE  h[k] = IF k = 0 THEN Empty ELSE Put(h[k - 1], k, x[k])
      <4>1. CASE k = m + 1
        BY <3>3, <4>1
      <4>2. CASE k \in 0 .. m
        <5>1. k # 0 => k - 1 \in 0 .. m
          BY <4>2
        <5> QED
          BY <3>1, <3>2, <4>2, <5>1
      <4> QED
        BY <4>1, <4>2
    <3> QED
      BY <3>4
  <2>3. h = [k \in 0 .. m + 1 |-> h[k]]
    OBVIOUS
  <2> HIDE DEF h
  <2>4. h = F(h, m + 1)
    BY <2>2, <2>3
  <2> QED
    BY <2>4
<1> HIDE DEF S
<1>3. 0 .. n \subseteq S
  BY <1>1, <1>2, UpTo
<1> QED
  BY <1>3 DEF S

(* What is pushed one after the other is numbered from 1. *)
LEMMA PackagedKept ==
  ASSUME NEW x, NEW n \in Nat, Len(x) = n
  PROVE  Packaged(x).kept \subseteq 1 .. n /\ Packaged(x).faults \in BOOLEAN
<1> DEFINE G(g) == [k \in 0 .. n |-> IF k = 0 THEN Empty ELSE Put(g[k - 1], k, x[k])]
           f == CHOOSE g : g = G(g)
<1>1. f = G(f)
  BY PackagesExist
<1>2. Packaged(x) = f[n]
  BY Zenon DEF Packaged
<1> HIDE DEF f
<1>3. f[0] = Empty
  BY <1>1
<1>4. \A k \in 1 .. n : f[k] = Put(f[k - 1], k, x[k])
  BY <1>1
<1> DEFINE P(p, k) == p.kept \subseteq 1 .. k /\ p.faults \in BOOLEAN
           S == {k \in 0 .. n : P(f[k], k)}
<1>5. 0 \in S
  <2>1. f[0].kept = {} /\ f[0].faults = FALSE
    BY <1>3 DEF Empty
  <2>2. P(f[0], 0)
    BY <2>1
  <2>3. 0 \in 0 .. n
    OBVIOUS
  <2> HIDE DEF P
  <2> QED
    BY <2>2, <2>3
<1>6. ASSUME NEW k \in 0 .. n - 1, k \in S PROVE k + 1 \in S
  <2>1. k + 1 \in 1 .. n /\ (k + 1) - 1 = k /\ k \in 1 .. k + 1 \cup {0}
    OBVIOUS
  <2> DEFINE p == f[k]
             c == x[k + 1]
  <2>2. f[k + 1] = Put(p, k + 1, c)
    BY <1>4, <2>1
  <2>3. P(p, k)
    BY <1>6
  <2> HIDE DEF p, c
  <2> DEFINE q == Put(p, k + 1, c)
  <2>4. \/ q = p
        \/ q.kept = p.kept /\ q.faults = TRUE
        \/ q.kept = p.kept \cup {k + 1} /\ q.faults = FALSE
    BY DEF Put
  <2> HIDE DEF q
  <2>5. \A i \in 1 .. k : i \in 1 .. k + 1
    OBVIOUS
  <2>6. q.kept \subseteq 1 .. k + 1
    BY <2>1, <2>3, <2>4, <2>5
  <2>7. q.faults \in BOOLEAN
    BY <2>3, <2>4
  <2> QED
    BY <2>1, <2>2, <2>6, <2>7 DEF q
<1>7. 0 .. n \subseteq S
  <2> HIDE DEF S
  <2> QED
    BY <1>5, <1>6, UpTo
<1>8. P(f[n], n)
  BY <1>7
<1> QED
  BY <1>2, <1>8

(* The first packet goes in, the others are refused: nothing faults, when none
   is shorter than the first. *)
LEMMA PackagedFaults ==
  ASSUME NEW x, NEW n \in Nat, Len(x) = n, x \in [1 .. n -> DataLen],
         \A k \in 1 .. n : x[1] <= x[k]
  PROVE  ~Packaged(x).faults
<1> DEFINE G(g) == [k \in 0 .. n |-> IF k = 0 THEN Empty ELSE Put(g[k - 1], k, x[k])]
           f == CHOOSE g : g = G(g)
<1>1. f = G(f)
  BY PackagesExist
<1>2. Packaged(x) = f[n]
  BY Zenon DEF Packaged
<1> HIDE DEF f
<1>3. f[0] = Empty
  BY <1>1
<1>4. \A k \in 1 .. n : f[k] = Put(f[k - 1], k, x[k])
  BY <1>1
<1> DEFINE One == [ring |-> [head |-> x[1], tail |-> 0], kept |-> {1}, faults |-> FALSE]
           S == {k \in 0 .. n : f[k] = IF k = 0 THEN Empty ELSE One}
<1>5. 0 \in S
  BY <1>3
<1>6. ASSUME NEW k \in 0 .. n - 1, k \in S PROVE k + 1 \in S
  <2>1. k + 1 \in 1 .. n /\ (k + 1) - 1 = k /\ 1 \in 1 .. n
    OBVIOUS
  <2>2. /\ x[1] \in Nat \ {0} /\ x[k + 1] \in Nat /\ x[1] <= x[k + 1]
        /\ x[1] < QUEMAXSIZE /\ QUEMAXSIZE \in Nat
    BY <2>1, SchedulerAssumption, QueueAssumption
  <2>3. f[k + 1] = Put(f[k], k + 1, x[k + 1])
    BY <1>4, <2>1
  <2>4. CASE k = 0
    <3>1. f[k] = Empty
      BY <1>6, <2>4
    <3>2. Put(Empty, 1, x[1]) = One
      <4> DEFINE r == [head |-> 0, tail |-> 0]
      <4>1. r.head = 0 /\ r.tail = 0
        OBVIOUS
      <4>2. Empty.ring = r /\ Empty.kept = {} /\ Empty.faults = FALSE
        BY DEF Empty
      <4> HIDE DEF r
      <4>3. /\ Accepts(r, x[1]) /\ ~PushFaults(r, x[1])
            /\ HeadAfter(r, x[1]) = x[1]
        BY <2>2, <4>1 DEF Accepts, PushFaults, PushRoom, HeadAfter, Remain, Size, Forward
      <4> QED
        BY <4>1, <4>2, <4>3 DEF Put
    <3>3. k + 1 = 1 /\ k + 1 \in 0 .. n /\ k + 1 # 0
      BY <2>4
    <3> HIDE DEF One
    <3>4. f[k + 1] = One
      BY <2>3, <3>1, <3>2, <3>3
    <3> QED
      BY <3>3, <3>4
  <2>5. CASE k # 0
    <3>1. f[k] = One
      BY <1>6, <2>5
    <3>2. One.ring.head = x[1] /\ One.ring.tail = 0
      OBVIOUS
    <3> HIDE DEF One
    <3>3. ~Accepts(One.ring, x[k + 1])
      BY <2>2, <3>2 DEF Accepts, Remain, Size, Forward
    <3>4. Put(One, k + 1, x[k + 1]) = One
      BY <3>3 DEF Put
    <3>5. f[k + 1] = One
      BY <2>3, <3>1, <3>4
    <3>6. k + 1 \in 0 .. n /\ k + 1 # 0
      OBVIOUS
    <3> QED
      BY <3>5, <3>6
  <2> QED
    BY <2>4, <2>5
<1>7. 0 .. n \subseteq S
  <2> HIDE DEF S
  <2> QED
    BY <1>5, <1>6, UpTo
<1>8. f[n].faults = FALSE
  BY <1>7 DEF Empty
<1> QED
  BY <1>2, <1>8

-----------------------------------------------------------------------------
(* The RBs that a user with all its volume needs. *)
Volume == Ceil(PER_UE_MAX_DL_VOLUME, per_RB_ByteNum)

(* The numbers of the scheduler. *)
LEMMA Numbers ==
  /\ per_RB_ByteNum \in Nat \ {0} /\ MAC_FRAME_LENGTH <= per_RB_ByteNum
  /\ PER_WAVE_MAX_NUM \in Nat \ {0}
  /\ PER_UE_MAX_DL_VOLUME \in Nat /\ MAC_FRAME_LENGTH \in Nat
  /\ RB_TOTALNUM \in Nat /\ SCH_RB_NUM \in Nat
  /\ RB_TOTALNUM + SCH_RB_NUM < Word /\ Word \in Nat
  /\ Limit = RB_TOTALNUM + SCH_RB_NUM
  /\ Volume \in Nat
  /\ RB_TOTALNUM + PER_WAVE_MAX_NUM * Volume < Word
<1>1. Volume \in Nat
  BY SchedulerAssumption, CeilIs DEF Volume
<1> QED
  BY <1>1, SchedulerAssumption, SubframeAssumption
  DEF MAC_FRAME_LENGTH, Word, Limit, Volume

(* A remainder is not above the number. *)
LEMMA ModBelow == \A n \in Nat : n % Word \in Nat /\ n % Word <= n /\ (n < Word => n % Word = n)
  BY DEF Word

(* A remainder of a whole number is a number of a u16. *)
LEMMA ModIs == \A c \in Int : c % Word \in Nat /\ (c >= 0 /\ c < Word => c % Word = c)
<1>1. \A c \in Int : c % Word \in Nat
  BY DEF Word
<1>2. Word \in Nat
  BY DEF Word
<1>3. \A c \in Int : c >= 0 => c \in Nat
  OBVIOUS
<1> QED
  BY <1>1, <1>2, <1>3, ModBelow

(* What is left of the RBs. *)
Surplus(flash) == (SCH_RB_NUM + RB_TOTALNUM - flash) % Word

TakenFrom(x, flash) == Taken(x, (Surplus(flash) * per_RB_ByteNum) % Word)

Needed(x, flash) == Ceil(SumTo(x, TakenFrom(x, flash)) + MAC_FRAME_LENGTH, per_RB_ByteNum)

(* One turn takes packets and grants RBs: not more than the volume of a user,
   and over the end of the range by the header only. *)
LEMMA NeededIs ==
  ASSUME NEW x \in Seq(DataLen), x # <<>>, NEW flash \in Nat
  PROVE  /\ TakenFrom(x, flash) \in 0 .. Len(x)
         /\ SumTo(x, TakenFrom(x, flash)) \in Nat
         /\ Needed(x, flash) \in Nat /\ Needed(x, flash) <= Volume
         /\ flash <= Limit => flash + Needed(x, flash) <= Limit + 1
         /\ flash = RB_TOTALNUM => TakenFrom(x, flash) > 0
<1> DEFINE n == Len(x)
           b == (Surplus(flash) * per_RB_ByteNum) % Word
           t == Taken(x, b)
           sum == SumTo(x, t)
<1>1. n \in Nat /\ n > 0 /\ x \in [1 .. n -> DataLen]
  OBVIOUS
<1>2. /\ x[1] \in DataLen /\ x[1] \in Nat \ {0}
      /\ x[1] <= PER_UE_MAX_DL_VOLUME - MAC_FRAME_LENGTH
      /\ x[1] <= (SCH_RB_NUM * per_RB_ByteNum) % Word
      /\ x \in [1 .. n -> Nat]
  <2>1. x[1] \in DataLen
    BY <1>1
  <2>2. \A c \in DataLen : c \in Nat \ {0}
    BY SchedulerAssumption
  <2>3. /\ x[1] <= PER_UE_MAX_DL_VOLUME - MAC_FRAME_LENGTH
        /\ x[1] <= (SCH_RB_NUM * per_RB_ByteNum) % Word
    BY <2>1, SubframeAssumption
  <2>4. x \in [1 .. n -> Nat]
    BY <1>1, <2>2
  <2> QED
    BY <2>1, <2>2, <2>3, <2>4
<1>3. Surplus(flash) \in Nat /\ (flash <= Limit => Surplus(flash) = Limit - flash)
  <2>1. SCH_RB_NUM + RB_TOTALNUM - flash \in Int
    BY Numbers
  <2>2. flash <= Limit => /\ SCH_RB_NUM + RB_TOTALNUM - flash >= 0
                       /\ SCH_RB_NUM + RB_TOTALNUM - flash < Word
    BY Numbers
  <2>3. Surplus(flash) \in Nat
    BY <2>1, ModIs DEF Surplus
  <2>4. flash <= Limit => Surplus(flash) = SCH_RB_NUM + RB_TOTALNUM - flash
    BY <2>1, <2>2, ModIs DEF Surplus
  <2> QED
    BY <2>3, <2>4, Numbers
<1>4. Surplus(flash) * per_RB_ByteNum \in Nat
  BY <1>3, Numbers
<1>5. b \in Nat /\ b <= Surplus(flash) * per_RB_ByteNum
  BY <1>4, ModBelow
<1>6. TakenFrom(x, flash) = t
  BY DEF TakenFrom
<1> HIDE DEF b
<1>7. /\ t \in 0 .. n
      /\ t > 0 => sum <= b /\ sum <= PER_UE_MAX_DL_VOLUME - MAC_FRAME_LENGTH
      /\ x[1] <= b => t > 0
  BY <1>1, <1>2, <1>5, TakenIs
<1>8. sum \in Nat /\ (t = 0 => sum = 0)
  BY <1>1, <1>2, <1>7, SumIs
<1>9. flash = RB_TOTALNUM => t > 0
  <2> SUFFICES ASSUME flash = RB_TOTALNUM PROVE x[1] <= b
    BY <1>7
  <2>1. Surplus(flash) = SCH_RB_NUM
    BY <1>3, Numbers
  <2> QED
    BY <1>2, <2>1 DEF b
<1> HIDE DEF t, sum
<1>10. sum <= b /\ sum + MAC_FRAME_LENGTH <= PER_UE_MAX_DL_VOLUME
  BY <1>2, <1>5, <1>7, <1>8, Numbers
<1>11. Needed(x, flash) = Ceil(sum + MAC_FRAME_LENGTH, per_RB_ByteNum)
  BY <1>6 DEF Needed, sum
<1>12. Needed(x, flash) \in Nat /\ Needed(x, flash) <= Volume
  <2> DEFINE a == sum + MAC_FRAME_LENGTH
  <2>1. a \in Nat /\ a <= PER_UE_MAX_DL_VOLUME
    BY <1>8, <1>10, Numbers
  <2> HIDE DEF a
  <2>2. PER_UE_MAX_DL_VOLUME \in Nat /\ per_RB_ByteNum \in Nat \ {0}
    BY Numbers
  <2>3. Ceil(a, per_RB_ByteNum) \in Nat
    BY <2>1, <2>2, CeilIs
  <2>4. Ceil(a, per_RB_ByteNum) <= Volume
    BY <2>1, <2>2, CeilGrows DEF Volume
  <2> QED
    BY <1>11, <2>3, <2>4 DEF a
<1>13. ASSUME flash <= Limit PROVE flash + Needed(x, flash) <= Limit + 1
  <2> DEFINE s == Surplus(flash)
  <2>1. s \in Nat /\ s = Limit - flash /\ sum <= s * per_RB_ByteNum
    <3>1. s * per_RB_ByteNum \in Nat
      BY <1>4
    <3> QED
      BY <1>3, <1>5, <1>8, <1>10, <1>13, <3>1
  <2> HIDE DEF s
  <2>2. (s + 1) * per_RB_ByteNum = s * per_RB_ByteNum + per_RB_ByteNum /\ s * per_RB_ByteNum \in Nat
    BY <2>1, Numbers
  <2> DEFINE a == sum + MAC_FRAME_LENGTH
             k == s + 1
  <2>3. a \in Nat /\ k \in Nat /\ a <= k * per_RB_ByteNum
    BY <1>8, <2>1, <2>2, Numbers
  <2>5. Needed(x, flash) = Ceil(a, per_RB_ByteNum) /\ k = s + 1
    BY <1>11
  <2> HIDE DEF a, k
  <2>6. per_RB_ByteNum \in Nat \ {0}
    BY Numbers
  <2>4. Needed(x, flash) <= s + 1
    BY <2>3, <2>5, <2>6, CeilIs
  <2> QED
    BY <1>12, <2>1, <2>4, Numbers
<1> QED
  BY <1>6, <1>7, <1>8, <1>9, <1>12, <1>13 DEF sum, t, b

-----------------------------------------------------------------------------
(* The loop over the rows, unrolled: it goes from turn to turn. *)
LEMMA TurnByTurn ==
  ASSUME NEW rows, NEW uplink, NEW early, NEW n \in Nat, Len(rows) = n
  PROVE  \E f : /\ f[0] = Unserved
                /\ \A i \in 1 .. n :
                     f[i] = Turn(f[i - 1], i, rows[i], uplink[rows[i]], early[rows[i]])
                /\ f[n] = ServeRows(rows, uplink, early)
<1> DEFINE T(s, i) == Turn(s, i, rows[i], uplink[rows[i]], early[rows[i]])
           F(g, m) == [i \in 0 .. m |-> IF i = 0 THEN Unserved ELSE T(g[i - 1], i)]
           f == CHOOSE g : g = F(g, n)
           S == {m \in 0 .. n : \E g : g = F(g, m)}
<1>0. ServeRows(rows, uplink, early) = f[n]
  BY Zenon DEF ServeRows
<1> HIDE DEF T, f
<1>1. 0 \in S
  <2> DEFINE g == [i \in 0 .. 0 |-> Unserved]
  <2>1. g = F(g, 0)
    OBVIOUS
  <2> HIDE DEF g
  <2>2. \E h : h = F(h, 0)
    BY <2>1
  <2>3. 0 \in 0 .. n
    OBVIOUS
  <2> QED
    BY <2>2, <2>3
<1>2. ASSUME NEW m \in 0 .. n - 1, m \in S PROVE m + 1 \in S
  <2>1. PICK g : g = F(g, m)
    BY <1>2
  <2> DEFINE h == [i \in 0 .. m + 1 |-> IF i <= m THEN g[i] ELSE T(g[m], m + 1)]
  <2>2. \A i \in 0 .. m + 1 : h[i] = IF i = 0 THEN Unserved ELSE T(h[i - 1], i)
    <3>1. \A i \in 0 .. m : g[i] = IF i = 0 THEN Unserved ELSE T(g[i - 1], i)
      BY <2>1
    <3>2. \A i \in 0 .. m : h[i] = g[i]
      OBVIOUS
    <3>3. h[m + 1] = T(h[m], m + 1)
      OBVIOUS
    <3> HIDE DEF h
    <3>4. ASSUME NEW i \in 0 .. m + 1
          PROVE  h[i] = IF i = 0 THEN Unserved ELSE T(h[i - 1], i)
      <4>1. CASE i = m + 1
        BY <3>3, <4>1
      <4>2. CASE i \in 0 .. m
        <5>1. i # 0 => i - 1 \in 0 .. m
          BY <4>2
        <5> QED
          BY <3>1, <3>2, <4>2, <5>1
      <4> QED
        BY <4>1, <4>2
    <3> QED
      BY <3>4
  <2>3. h = [i \in 0 .. m + 1 |-> h[i]]
    OBVIOUS
  <2> HIDE DEF h
  <2>4. h = F(h, m + 1)
    BY <2>2, <2>3
  <2> QED
    BY <2>4
<1>3. 0 .. n \subseteq S
  <2> HIDE DEF S
  <2> QED
    BY <1>1, <1>2, UpTo
<1>4. \E g : g = F(g, n)
  BY <1>3
<1>5. f = F(f, n)
  BY <1>4 DEF f
<1>6. f[0] = Unserved
  BY <1>5
<1>7. \A i \in 1 .. n : f[i] = T(f[i - 1], i)
  BY <1>5
<1> QED
  BY <1>0, <1>6, <1>7 DEF T

(* An entry in front of the one that is written keeps user and grant. *)
LEMMA WrittenIs ==
  ASSUME NEW entries, NEW i \in Slot, NEW e
  PROVE  /\ DOMAIN Written(entries, i, e) = Slot
         /\ Written(entries, i, e)[i] = e
         /\ \A j \in Slot : j < i /\ entries[j] \in Entry =>
              /\ Written(entries, i, e)[j] \in Entry
              /\ Written(entries, i, e)[j].user = entries[j].user
              /\ Written(entries, i, e)[j].grant = entries[j].grant
<1> DEFINE w == Written(entries, i, e)
<1>1. DOMAIN w = Slot /\ w[i] = e
  BY DEF Written
<1>2. ASSUME NEW j \in Slot, j < i, entries[j] \in Entry
      PROVE  w[j] \in Entry /\ w[j].user = entries[j].user /\ w[j].grant = entries[j].grant
  <2>1. j # i /\ ~(j > i)
    BY <1>2 DEF Slot
  <2>2. w[j] = entries[j] \/ w[j] = [entries[j] EXCEPT !.whole = FALSE]
    BY <2>1 DEF Written
  <2>3. /\ [entries[j] EXCEPT !.whole = FALSE] \in Entry
        /\ [entries[j] EXCEPT !.whole = FALSE].user = entries[j].user
        /\ [entries[j] EXCEPT !.whole = FALSE].grant = entries[j].grant
    BY <1>2 DEF Entry
  <2> HIDE DEF w
  <2> QED
    BY <1>2, <2>2, <2>3
<1> QED
  BY <1>1, <1>2

-----------------------------------------------------------------------------
(* The rows that a subframe goes along. *)
RowsOf(rows) == /\ Len(rows) \in 0 .. PER_WAVE_MAX_NUM
                /\ rows \in [1 .. Len(rows) -> User]

EndOf(s, i) == s.entries[i].grant.begin + s.entries[i].grant.total

(* The entry of row i is one of its user; what is registered is that of the last
   of his rows. *)
EntryOf(s, rows, i) ==
  /\ s.entries[i] \in Entry
  /\ s.entries[i].user = rows[i]
  /\ (\A j \in s.served : j > i => rows[j] # rows[i]) => s.dl[rows[i]] = s.entries[i].grant
  /\ RB_TOTALNUM <= s.entries[i].grant.begin
  /\ EndOf(s, i) <= s.flash

(* What is left of the packets y after the first of them have been taken. *)
Rest(x, y) == \E d \in Nat : /\ Len(x) = Len(y) - d
                            /\ \A c \in 1 .. Len(x) : x[c] = y[c + d]

(* The fields of the loop, and buffers from which packets have been taken. *)
TurnTyped(s, rows, k) ==
  /\ s.flash \in Nat
  /\ RB_TOTALNUM <= s.flash /\ s.flash <= RB_TOTALNUM + k * Volume
  /\ s.buffer \in [User -> Seq(DataLen)]
  /\ DOMAIN s.dl = User
  /\ s.faults \in BOOLEAN
  /\ \A u \in User : Rest(s.buffer[u], buffer[u])

(* The RBs go up row after row, and leave the range by one the first time. *)
TurnInv(s, rows, k) ==
  /\ s.served \subseteq 1 .. k
  /\ \A i \in s.served : EntryOf(s, rows, i)
  /\ \A i, j \in s.served : i < j => EndOf(s, i) <= s.entries[j].grant.begin
  /\ s.flash = RB_TOTALNUM \/ \E i \in s.served : s.flash = EndOf(s, i)
  /\ \A i \in s.served :
       (\A j \in s.served : j < i => EndOf(s, j) <= Limit) => EndOf(s, i) <= Limit + 1

(* The packages of the CCH that got in. *)
LEMMA PackagesIn ==
  ASSUME NEW uplink
  PROVE  CCH_pk_generate(uplink) \in SUBSET {"REPORT", "UL", "DL"}
<1> DEFINE p == Packages(uplink)
           n == Len(p)
<1>1. p \in Seq({"REPORT", "UL", "DL"}) /\ n \in Nat
  <2> DEFINE q == IF uplink # NoGrant THEN <<"UL">> ELSE <<>>
             S == {"REPORT", "UL", "DL"}
  <2>1. <<"REPORT">> \in Seq(S) /\ <<"DL">> \in Seq(S) /\ q \in Seq(S)
    <3>1. \A e \in S : <<e>> \in Seq(S)
      OBVIOUS
    <3>2. <<"UL">> \in Seq(S) /\ <<>> \in Seq(S)
      BY <3>1
    <3>3. q = <<"UL">> \/ q = <<>>
      OBVIOUS
    <3> HIDE DEF q
    <3> QED
      BY <3>1, <3>2, <3>3
  <2>2. p = <<"REPORT">> \o q \o <<"DL">>
    BY DEF Packages
  <2> HIDE DEF p, q, S
  <2>3. p \in Seq(S)
    BY <2>1, <2>2
  <2> QED
    BY <2>3 DEF S
<1>2. CCHLens(p) = [k \in 1 .. n |-> CCHLens(p)[k]]
  BY <1>1 DEF CCHLens
<1>3. Len(CCHLens(p)) = n
  <2>1. CCHLens(p) \in Seq(Int) \/ CCHLens(p) \in [1 .. n -> {CCHLens(p)[k] : k \in 1 .. n}]
    BY <1>2
  <2> QED
    BY <1>1, <2>1, <1>2
<1>4. Packaged(CCHLens(p)).kept \subseteq 1 .. n
  BY <1>1, <1>3, PackagedKept
<1>5. \A k \in 1 .. n : p[k] \in {"REPORT", "UL", "DL"}
  BY <1>1
<1> HIDE DEF p
<1> QED
  BY <1>4, <1>5 DEF CCH_pk_generate, p

(* Nothing has been taken yet, and then from what is left. *)
LEMMA RestBegins ==
  ASSUME NEW y \in Seq(DataLen) PROVE Rest(y, y)
<1>1. Len(y) = Len(y) - 0 /\ \A c \in 1 .. Len(y) : y[c] = y[c + 0]
  OBVIOUS
<1> QED
  BY <1>1 DEF Rest

LEMMA RestGoesOn ==
  ASSUME NEW x \in Seq(DataLen), NEW y \in Seq(DataLen), Rest(x, y), NEW t \in 0 .. Len(x)
  PROVE  Rest(SubSeq(x, t + 1, Len(x)), y)
<1>1. PICK d \in Nat : Len(x) = Len(y) - d /\ \A c \in 1 .. Len(x) : x[c] = y[c + d]
  BY DEF Rest
<1> DEFINE z == SubSeq(x, t + 1, Len(x))
<1>2. Len(z) = Len(x) - t /\ \A c \in 1 .. Len(x) - t : z[c] = x[c + t]
  OBVIOUS
<1> HIDE DEF z
<1>3. Len(z) = Len(y) - (d + t) /\ d + t \in Nat
  BY <1>1, <1>2
<1>4. \A c \in 1 .. Len(z) : z[c] = y[c + (d + t)]
  BY <1>1, <1>2
<1>5. Rest(z, y)
  BY <1>3, <1>4 DEF Rest
<1> QED
  BY <1>5 DEF z

(* One row more adds one volume. *)
LEMMA OneMore ==
  ASSUME NEW c \in Nat, NEW d \in Nat
  PROVE  (c + 1) * d = c * d + d /\ c * d \in Nat
  OBVIOUS

(* A turn keeps the types. *)
LEMMA TurnTypedStep ==
  ASSUME NEW rows, RowsOf(rows), NEW k \in Nat, k < Len(rows), NEW s, TurnTyped(s, rows, k),
         buffer \in [User -> Seq(DataLen)], NEW uplink, NEW early, s.buffer[rows[k + 1]] # <<>>,
         NEW r, r = ServeRow(s, k + 1, rows[k + 1], uplink, early)
  PROVE  /\ TurnTyped(r, rows, k + 1)
         /\ r.flash = s.flash + Needed(s.buffer[rows[k + 1]], s.flash)
         /\ r.flash < Word
<1> DEFINE u == rows[k + 1]
           flash == s.flash
           x == s.buffer[u]
           t == TakenFrom(x, flash)
           v == Needed(x, flash)
<1>1. u \in User /\ x \in Seq(DataLen) /\ x # <<>> /\ flash \in Nat
  BY DEF RowsOf, TurnTyped
<1>2. /\ r.flash = (flash + v) % Word
      /\ r.buffer = [s.buffer EXCEPT ![u] = SubSeq(x, t + 1, Len(x))]
      /\ r.dl = [s.dl EXCEPT ![u] = [begin |-> flash, total |-> v]]
      /\ r.faults = (s.faults \/ Packaged(SubSeq(x, 1, t)).faults)
  <2>2. r.flash = (flash + v) % Word
    BY DEF ServeRow, TakenFrom, Needed, Surplus, flash_after
  <2>3. r.buffer = [s.buffer EXCEPT ![u] = SubSeq(x, t + 1, Len(x))]
    BY DEF ServeRow, TakenFrom, Needed, Surplus, flash_after
  <2>4. r.dl = [s.dl EXCEPT ![u] = [begin |-> flash, total |-> v]]
    BY DEF ServeRow, TakenFrom, Needed, Surplus, flash_after
  <2>5. r.faults = (s.faults \/ Packaged(SubSeq(x, 1, t)).faults)
    BY DEF ServeRow, TakenFrom, Needed, Surplus, flash_after
  <2> QED
    BY <2>2, <2>3, <2>4, <2>5
<1> HIDE DEF x, flash
<1>3. /\ t \in 0 .. Len(x) /\ v \in Nat /\ v <= Volume
  BY <1>1, NeededIs
<1> HIDE DEF t, v, u
<1>4. /\ RB_TOTALNUM <= flash /\ flash + v <= RB_TOTALNUM + (k + 1) * Volume
      /\ RB_TOTALNUM + (k + 1) * Volume < Word
  <2>1. (k + 1) * Volume = k * Volume + Volume /\ k * Volume \in Nat
    <3>1. Volume \in Nat
      BY Numbers
    <3> HIDE DEF flash
    <3> QED
      BY <3>1, OneMore
  <2>2. RB_TOTALNUM <= flash /\ flash <= RB_TOTALNUM + k * Volume
    BY DEF TurnTyped, flash
  <2>3. k + 1 <= PER_WAVE_MAX_NUM
    BY Numbers DEF RowsOf
  <2>4. (k + 1) * Volume <= PER_WAVE_MAX_NUM * Volume
    BY <2>3, Numbers
  <2>5. PER_WAVE_MAX_NUM * Volume \in Nat
    BY Numbers
  <2> DEFINE before == k * Volume
             upto == (k + 1) * Volume
             whole == PER_WAVE_MAX_NUM * Volume
  <2>6. /\ upto = before + Volume /\ before \in Nat /\ whole \in Nat /\ upto <= whole
        /\ RB_TOTALNUM <= flash /\ flash <= RB_TOTALNUM + before
        /\ RB_TOTALNUM + whole < Word
    BY <2>1, <2>2, <2>4, <2>5, Numbers
  <2>8. /\ flash \in Nat /\ v \in Nat /\ v <= Volume /\ Volume \in Nat
        /\ RB_TOTALNUM \in Nat /\ Word \in Nat /\ upto \in Nat
    BY <1>1, <1>3, <2>6, Numbers
  <2> HIDE DEF before, upto, whole
  <2>7. /\ RB_TOTALNUM <= flash /\ flash + v <= RB_TOTALNUM + upto
        /\ RB_TOTALNUM + upto < Word
    BY <2>6, <2>8
  <2> QED
    BY <2>7 DEF upto
<1>5. r.flash = flash + v
  <2>1. flash + v \in Nat /\ flash + v < Word
    BY <1>1, <1>3, <1>4, Numbers
  <2> QED
    BY <1>2, <2>1, ModBelow
<1>6. r.buffer \in [User -> Seq(DataLen)]
  <2>1. SubSeq(x, t + 1, Len(x)) \in Seq(DataLen)
    BY <1>1, <1>3
  <2> QED
    BY <1>1, <1>2, <2>1 DEF TurnTyped
<1>7. DOMAIN r.dl = User
  BY <1>2 DEF TurnTyped
<1>8. r.faults \in BOOLEAN
  <2>1. SubSeq(x, 1, t) \in Seq(DataLen)
    BY <1>1, <1>3
  <2>2. Len(SubSeq(x, 1, t)) \in Nat
    BY <2>1
  <2>3. Packaged(SubSeq(x, 1, t)).faults \in BOOLEAN
    BY <2>2, PackagedKept
  <2> QED
    BY <1>2, <2>3, Zenon DEF TurnTyped
<1>9. \A w \in User : Rest(r.buffer[w], buffer[w])
  <2> SUFFICES ASSUME NEW w \in User PROVE Rest(r.buffer[w], buffer[w])
    OBVIOUS
  <2>1. Rest(s.buffer[w], buffer[w]) /\ s.buffer \in [User -> Seq(DataLen)]
    BY DEF TurnTyped
  <2>2. CASE w # u
    <3>1. r.buffer[w] = s.buffer[w]
      BY <1>2, <2>1, <2>2
    <3> QED
      BY <2>1, <3>1
  <2>3. CASE w = u
    <3>1. r.buffer[w] = SubSeq(x, t + 1, Len(x))
      BY <1>2, <2>1, <2>3
    <3>2. Rest(x, buffer[w]) /\ buffer[w] \in Seq(DataLen)
      BY <2>1, <2>3 DEF x, u
    <3> QED
      BY <1>1, <1>3, <3>1, <3>2, RestGoesOn
  <2> QED
    BY <2>2, <2>3
<1>10. r.flash = s.flash + Needed(s.buffer[rows[k + 1]], s.flash)
  BY <1>5 DEF x, v, u, flash
<1>11. r.flash \in Nat /\ r.flash < Word
  <2>1. (k + 1) * Volume \in Nat
    BY Numbers
  <2> QED
    BY <1>1, <1>3, <1>4, <1>5, <2>1, Numbers
<1>12. RB_TOTALNUM <= r.flash /\ r.flash <= RB_TOTALNUM + (k + 1) * Volume
  <2>1. (k + 1) * Volume \in Nat
    BY Numbers
  <2> QED
    BY <1>1, <1>3, <1>4, <1>5, <2>1, Numbers
<1> QED
  BY <1>6, <1>7, <1>8, <1>9, <1>10, <1>11, <1>12 DEF TurnTyped

(* The numbers of a grant. *)
LEMMA GrantIs == \A g \in Grant : g.begin \in Nat /\ g.total \in Nat
<1>1. \A c \in 0 .. Word - 1 : c \in Nat
  OBVIOUS
<1> QED
  BY <1>1 DEF Grant

(* Numbers whose sum is one of a u16 make a grant. *)
LEMMA GrantOf ==
  ASSUME NEW c \in Nat, NEW d \in Nat, c + d < Word
  PROVE  [begin |-> c, total |-> d] \in Grant
<1>1. c \in 0 .. Word - 1 /\ d \in 0 .. Word - 1
  BY Numbers
<1> QED
  BY <1>1 DEF Grant

(* A turn keeps the order of the RBs. *)
LEMMA TurnInvStep ==
  ASSUME NEW rows, RowsOf(rows), NEW k \in Nat, k < Len(rows),
         NEW s, TurnTyped(s, rows, k), TurnInv(s, rows, k),
         buffer \in [User -> Seq(DataLen)], NEW uplink, NEW early, s.buffer[rows[k + 1]] # <<>>,
         NEW r, r = ServeRow(s, k + 1, rows[k + 1], uplink, early)
  PROVE  TurnInv(r, rows, k + 1)
<1> DEFINE u == rows[k + 1]
           flash == s.flash
           x == s.buffer[u]
           t == TakenFrom(x, flash)
           v == Needed(x, flash)
           g == [begin |-> flash, total |-> v]
           first == IF 1 \in Packaged(SubSeq(x, 1, t)).kept THEN x[1] ELSE 0
           e == [user |-> u, grant |-> g, bytes |-> first,
                 cch |-> CCH_pk_generate(uplink), whole |-> TRUE]
<1>1. /\ u \in User /\ x \in Seq(DataLen) /\ x # <<>> /\ flash \in Nat
      /\ k + 1 \in 1 .. Len(rows) /\ k + 1 \in Slot
  <2>1. PER_WAVE_MAX_NUM \in Nat /\ Len(rows) \in 0 .. PER_WAVE_MAX_NUM
    BY Numbers DEF RowsOf
  <2>2. k + 1 \in 1 .. Len(rows) /\ k + 1 \in Slot
    BY <2>1 DEF Slot
  <2> QED
    BY <2>2 DEF RowsOf, TurnTyped
<1>2. r.dl = [s.dl EXCEPT ![u] = g]
  BY DEF ServeRow, TakenFrom, Needed, Surplus, flash_after
<1>3. r.entries = Written(s.entries, k + 1, e)
  BY DEF ServeRow, TakenFrom, Needed, Surplus, flash_after
<1>4. r.served = s.served \cup {k + 1}
  BY DEF ServeRow
<1>5. r.flash = flash + v /\ r.flash < Word
  <2>1. r.flash = s.flash + Needed(s.buffer[rows[k + 1]], s.flash) /\ r.flash < Word
    <3> HIDE DEF u, flash, x, t, v, g, first, e
    <3> QED
      BY TurnTypedStep, SMTT(60)
  <2> QED
    BY <2>1
<1>6. RB_TOTALNUM <= flash
  BY DEF TurnTyped
<1> HIDE DEF x
<1>7. /\ t \in 0 .. Len(x) /\ v \in Nat
      /\ flash <= Limit => flash + v <= Limit + 1
  BY <1>1, NeededIs
<1>8. first \in Nat
  <2>1. Len(x) > 0 /\ x[1] \in DataLen
    BY <1>1
  <2> QED
    BY <2>1, SchedulerAssumption
<1> HIDE DEF t, v, u, flash, first
<1>9. g \in Grant /\ g.begin = flash /\ g.total = v
  <2>1. flash + v < Word
    BY <1>5
  <2> QED
    BY <1>1, <1>7, <2>1, GrantOf
<1> HIDE DEF g
<1>10. e \in Entry /\ e.user = u /\ e.grant = g
  <2>1. CCH_pk_generate(uplink) \in SUBSET {"REPORT", "UL", "DL"}
    BY PackagesIn
  <2> QED
    BY <1>1, <1>8, <1>9, <2>1 DEF Entry
<1> HIDE DEF e
<1>11. s.served \subseteq 1 .. k
  BY DEF TurnInv
<1>12. r.entries[k + 1] = e
  <2>1. k + 1 \in Slot
    BY <1>1
  <2>2. Written(s.entries, k + 1, e)[k + 1] = e
    BY <2>1 DEF Written
  <2> QED
    BY <1>3, <2>2
<1>13. \A i \in s.served : /\ i \in Slot /\ i < k + 1 /\ rows[i] \in User
                           /\ s.entries[i] \in Entry
                           /\ EndOf(s, i) \in Nat /\ s.entries[i].grant.begin \in Nat
  <2> SUFFICES ASSUME NEW i \in s.served
               PROVE  /\ i \in Slot /\ i < k + 1 /\ rows[i] \in User
                      /\ s.entries[i] \in Entry
                      /\ EndOf(s, i) \in Nat /\ s.entries[i].grant.begin \in Nat
    OBVIOUS
  <2>1. i \in 1 .. k /\ i \in 1 .. Len(rows) /\ i # k + 1 /\ i < k + 1
    BY <1>11 DEF RowsOf
  <2>2. rows[i] \in User
    BY <1>1, <2>1 DEF RowsOf
  <2>3. s.entries[i] \in Entry
    BY DEF TurnInv, EntryOf
  <2>4. s.entries[i].grant.begin \in Nat /\ s.entries[i].grant.total \in Nat
    <3>1. s.entries[i].grant \in Grant
      BY <2>3 DEF Entry
    <3> QED
      BY <3>1, GrantIs
  <2>5. i \in Slot
    BY <2>1, Numbers DEF Slot, RowsOf
  <2>6. EndOf(s, i) \in Nat
    <3>1. EndOf(s, i) = s.entries[i].grant.begin + s.entries[i].grant.total
      BY DEF EndOf
    <3>2. \A c, d \in Nat : c + d \in Nat
      OBVIOUS
    <3> QED
      BY <2>4, <3>1, <3>2
  <2> QED
    BY <2>1, <2>2, <2>3, <2>4, <2>5, <2>6
<1>14. \A i \in s.served : /\ r.entries[i] \in Entry
                           /\ r.entries[i].user = s.entries[i].user
                           /\ r.entries[i].grant = s.entries[i].grant
  BY <1>1, <1>3, <1>13, WrittenIs
<1>15. \A i \in s.served : EndOf(r, i) = EndOf(s, i)
  BY <1>14 DEF EndOf
<1>16. EndOf(r, k + 1) = r.flash
  BY <1>5, <1>9, <1>10, <1>12 DEF EndOf
<1>17. \A i \in s.served : EndOf(s, i) <= flash
  BY DEF TurnInv, EntryOf, flash
<1>18. r.served \subseteq 1 .. k + 1
  BY <1>1, <1>4, <1>11
<1>19. \A i \in r.served : EntryOf(r, rows, i)
  <2> SUFFICES ASSUME NEW i \in r.served PROVE EntryOf(r, rows, i)
    OBVIOUS
  <2>1. CASE i = k + 1
    <3>1. r.dl[u] = g
      BY <1>1, <1>2 DEF TurnTyped
    <3>2. rows[k + 1] = u
      BY DEF u
    <3>3. r.flash \in Nat /\ RB_TOTALNUM <= r.entries[i].grant.begin
      BY <1>1, <1>5, <1>6, <1>7, <1>9, <1>10, <1>12, <2>1
    <3> QED
      BY <1>10, <1>12, <1>16, <2>1, <3>1, <3>2, <3>3 DEF EntryOf
  <2>2. CASE i \in s.served
    <3>1. (\A j \in r.served : j > i => rows[j] # rows[i]) =>
            /\ r.dl[rows[i]] = s.dl[rows[i]]
            /\ \A j \in s.served : j > i => rows[j] # rows[i]
      <4> SUFFICES ASSUME \A j \in r.served : j > i => rows[j] # rows[i]
                   PROVE  /\ r.dl[rows[i]] = s.dl[rows[i]]
                          /\ \A j \in s.served : j > i => rows[j] # rows[i]
        OBVIOUS
      <4>1. k + 1 \in r.served /\ k + 1 > i /\ rows[k + 1] = u
        <5>1. i \in 1 .. k
          BY <1>11, <2>2
        <5> QED
          BY <1>4, <5>1 DEF u
      <4>2. rows[i] # u
        BY <4>1
      <4> QED
        BY <1>2, <1>4, <1>13, <2>2, <4>2 DEF TurnTyped
    <3>2. EntryOf(s, rows, i)
      BY <2>2 DEF TurnInv
    <3>3. EndOf(r, i) <= r.flash
      BY <1>1, <1>5, <1>7, <1>13, <1>15, <1>17, <2>2
    <3> QED
      BY <1>14, <2>2, <3>1, <3>2, <3>3 DEF EntryOf
  <2> QED
    BY <1>4, <2>1, <2>2
<1>20. \A i, j \in r.served : i < j => EndOf(r, i) <= r.entries[j].grant.begin
  <2> SUFFICES ASSUME NEW i \in r.served, NEW j \in r.served, i < j
               PROVE  EndOf(r, i) <= r.entries[j].grant.begin
    OBVIOUS
  <2>1. i \in s.served
    <3>1. j \in 1 .. k + 1
      BY <1>18
    <3>2. i # k + 1
      BY <3>1
    <3> QED
      BY <1>4, <3>2
  <2>2. CASE j = k + 1
    <3>1. r.entries[j].grant.begin = flash
      BY <1>9, <1>10, <1>12, <2>2
    <3> QED
      BY <1>15, <1>17, <2>1, <3>1
  <2>3. CASE j \in s.served
    BY <1>14, <1>15, <2>1, <2>3 DEF TurnInv
  <2> QED
    BY <1>4, <2>2, <2>3
<1>21. \E i \in r.served : r.flash = EndOf(r, i)
  BY <1>4, <1>16
<1>22. \A i \in r.served :
         (\A j \in r.served : j < i => EndOf(r, j) <= Limit) => EndOf(r, i) <= Limit + 1
  <2> SUFFICES ASSUME NEW i \in r.served, \A j \in r.served : j < i => EndOf(r, j) <= Limit
               PROVE  EndOf(r, i) <= Limit + 1
    OBVIOUS
  <2>1. CASE i = k + 1
    <3>1. \A j \in s.served : EndOf(s, j) <= Limit
      BY <1>4, <1>13, <1>15, <2>1
    <3>2. flash = RB_TOTALNUM \/ \E j \in s.served : flash = EndOf(s, j)
      BY DEF TurnInv, flash
    <3>3. flash <= Limit
      BY <3>1, <3>2, Numbers
    <3> QED
      BY <1>5, <1>7, <1>16, <2>1, <3>3
  <2>2. CASE i \in s.served
    <3>1. \A j \in s.served : j < i => EndOf(s, j) <= Limit
      BY <1>4, <1>15
    <3> QED
      BY <1>15, <2>2, <3>1 DEF TurnInv
  <2> QED
    BY <1>4, <2>1, <2>2
<1> QED
  BY <1>18, <1>19, <1>20, <1>21, <1>22 DEF TurnInv

(* Before the first turn. *)
LEMMA UnservedIs ==
  ASSUME NEW rows, RowsOf(rows), buffer \in [User -> Seq(DataLen)], DOMAIN dl = User
  PROVE  TurnTyped(Unserved, rows, 0) /\ TurnInv(Unserved, rows, 0)
<1>1. /\ Unserved.flash = RB_TOTALNUM /\ Unserved.buffer = buffer /\ Unserved.dl = dl
      /\ Unserved.served = {} /\ Unserved.faults = FALSE
  BY DEF Unserved
<1>2. 0 * Volume = 0
  BY Numbers
<1>3. \A u \in User : Rest(Unserved.buffer[u], buffer[u])
  BY <1>1, RestBegins
<1>6. /\ Unserved.flash \in Nat /\ RB_TOTALNUM <= Unserved.flash
      /\ Unserved.flash <= RB_TOTALNUM + 0 * Volume
  BY <1>1, <1>2, Numbers
<1>4. TurnTyped(Unserved, rows, 0)
  BY <1>1, <1>3, <1>6, Zenon DEF TurnTyped
<1>5. TurnInv(Unserved, rows, 0)
  BY <1>1 DEF TurnInv
<1> QED
  BY <1>4, <1>5

(* Passing over a row keeps both. *)
LEMMA PassedOver ==
  ASSUME NEW rows, RowsOf(rows), NEW k \in Nat, k < Len(rows),
         NEW s, TurnTyped(s, rows, k), TurnInv(s, rows, k)
  PROVE  TurnTyped(s, rows, k + 1) /\ TurnInv(s, rows, k + 1)
<1>1. (k + 1) * Volume = k * Volume + Volume /\ k * Volume \in Nat /\ Volume \in Nat
  BY Numbers
<1>2. s.flash <= RB_TOTALNUM + (k + 1) * Volume
  BY <1>1, Numbers DEF TurnTyped
<1>4. s.served \subseteq 1 .. k + 1
  BY DEF TurnInv
<1> QED
  BY <1>2, <1>4 DEF TurnTyped, TurnInv

(* The loop with what holds after each of its turns. *)
LEMMA ServeRowsIs ==
  ASSUME NEW rows, RowsOf(rows), buffer \in [User -> Seq(DataLen)], DOMAIN dl = User,
         NEW uplink, NEW early
  PROVE  \E f : /\ f[0] = Unserved
                /\ \A i \in 1 .. Len(rows) :
                     f[i] = Turn(f[i - 1], i, rows[i], uplink[rows[i]], early[rows[i]])
                /\ f[Len(rows)] = ServeRows(rows, uplink, early)
                /\ \A k \in 0 .. Len(rows) : TurnTyped(f[k], rows, k) /\ TurnInv(f[k], rows, k)
<1> DEFINE n == Len(rows)
<1>1. n \in Nat
  BY Numbers DEF RowsOf
<1>2. PICK f : /\ f[0] = Unserved
               /\ \A i \in 1 .. n :
                    f[i] = Turn(f[i - 1], i, rows[i], uplink[rows[i]], early[rows[i]])
               /\ f[n] = ServeRows(rows, uplink, early)
  BY <1>1, TurnByTurn
<1> DEFINE S == {k \in 0 .. n : TurnTyped(f[k], rows, k) /\ TurnInv(f[k], rows, k)}
<1>3. 0 \in S
  BY <1>1, <1>2, UnservedIs
<1>4. ASSUME NEW k \in 0 .. n - 1, k \in S PROVE k + 1 \in S
  <2> DEFINE s == f[k]
             r == f[k + 1]
  <2>1. /\ k \in Nat /\ k < Len(rows) /\ k + 1 \in 1 .. n /\ (k + 1) - 1 = k
        /\ k + 1 \in 0 .. n
    BY <1>1
  <2>2. r = Turn(s, k + 1, rows[k + 1], uplink[rows[k + 1]], early[rows[k + 1]])
    BY <1>2, <2>1
  <2>3. TurnTyped(s, rows, k) /\ TurnInv(s, rows, k)
    BY <1>4
  <2> HIDE DEF s, r
  <2>4. CASE s.faults \/ s.buffer[rows[k + 1]] = <<>>
    <3>1. r = s
      BY <2>2, <2>4 DEF Turn
    <3>2. TurnTyped(s, rows, k + 1) /\ TurnInv(s, rows, k + 1)
      BY <2>1, <2>3, PassedOver
    <3> QED
      BY <2>1, <3>1, <3>2 DEF r
  <2>5. CASE ~(s.faults \/ s.buffer[rows[k + 1]] = <<>>)
    <3>1. r = ServeRow(s, k + 1, rows[k + 1], uplink[rows[k + 1]], early[rows[k + 1]])
      BY <2>2, <2>5 DEF Turn
    <3>2. TurnTyped(r, rows, k + 1)
      BY <2>1, <2>3, <2>5, <3>1, TurnTypedStep
    <3>3. TurnInv(r, rows, k + 1)
      BY <2>1, <2>3, <2>5, <3>1, TurnInvStep
    <3> QED
      BY <2>1, <3>2, <3>3 DEF r
  <2> QED
    BY <2>4, <2>5
<1>5. 0 .. n \subseteq S
  <2> HIDE DEF S, n
  <2> QED
    BY <1>1, <1>3, <1>4, UpTo
<1> QED
  BY <1>1, <1>2, <1>5

-----------------------------------------------------------------------------
(* Who has a row, and what waits for whom. *)
TablesTyped ==
  /\ users \in [Wave -> SUBSET (User \X Slot)]
  /\ \A w \in Wave : /\ IsFiniteSet(users[w])
                     /\ Cardinality(users[w]) \in 0 .. PER_WAVE_MAX_NUM
  /\ buffer \in [User -> Seq(DataLen)]
  /\ DOMAIN dl = User
  /\ poll_wave_index \in PolledWave

(* ServedEntries and FirstOverrunIsHeader with the types that a subframe needs. *)
ServedInv == TablesTyped /\ ServedEntries /\ FirstOverrunIsHeader

(* An order of the rows of a wave goes along the user of each of them. *)
LEMMA RowOrderIs ==
  ASSUME TablesTyped, NEW w \in Wave, NEW rows \in RowOrders(w)
  PROVE  /\ RowsOf(rows)
         /\ \A row \in users[w] : \E i \in 1 .. Len(rows) : rows[i] = row[1]
<1> DEFINE n == Cardinality(users[w])
<1>1. /\ n \in 0 .. PER_WAVE_MAX_NUM /\ n \in Nat
      /\ IsFiniteSet(users[w]) /\ users[w] \subseteq User \X Slot
  BY Numbers DEF TablesTyped
<1>2. PICK r \in [1 .. n -> users[w]] :
        /\ rows = [i \in DOMAIN r |-> r[i][1]]
        /\ \A i, j \in DOMAIN r : r[i] = r[j] => i = j
  BY DEF RowOrders
<1> HIDE DEF n
<1>9. rows = [i \in 1 .. n |-> r[i][1]] /\ \A i, j \in 1 .. n : r[i] = r[j] => i = j
  BY <1>2
<1>10. \A i \in 1 .. n : r[i][1] \in User
  BY <1>1
<1>11. rows \in [1 .. n -> User]
  BY <1>9, <1>10
<1>3. rows \in Seq(User) /\ Len(rows) = n
  BY <1>1, <1>11
<1>4. RowsOf(rows)
  BY <1>1, <1>11, <1>3 DEF RowsOf
<1>5. r \in Injection(1 .. n, users[w])
  BY <1>9 DEF Injection, IsInjective
<1>6. Cardinality(1 .. n) = n
  BY <1>1, FS_Interval
<1>7. r \in Surjection(1 .. n, users[w])
  BY <1>1, <1>5, <1>6, FS_Injection DEF n
<1>12. \A row \in users[w] : \E i \in 1 .. n : r[i] = row
  BY <1>7 DEF Surjection
<1>8. \A row \in users[w] : \E i \in 1 .. n : rows[i] = row[1]
  BY <1>9, <1>12
<1> QED
  BY <1>3, <1>4, <1>8

(* The beam that is chosen is polled. *)
LEMMA PolledIs ==
  ASSUME TablesTyped, poll_wave_index_renew_MLRA
  PROVE  poll_wave_index' \in PolledWave /\ poll_wave_index' \in Wave
<1>1. WAVE_NUM \in Nat /\ WAVE_NUM_PER_BBU \in Nat \ {0} /\ WAVE_NUM_PER_BBU <= WAVE_NUM
  BY SchedulerAssumption
<1>2. poll_wave_index \in Nat
  BY <1>1 DEF TablesTyped, PolledWave
<1>3. (poll_wave_index + 1) % WAVE_NUM_PER_BBU \in 0 .. WAVE_NUM_PER_BBU - 1
  BY <1>1, <1>2
<1>4. poll_wave_index' \in PolledWave
  BY <1>3 DEF poll_wave_index_renew_MLRA, Selected, PolledWave
<1> QED
  BY <1>1, <1>4 DEF PolledWave, Wave

(* The initial state satisfies the invariant. *)
LEMMA InitServed == Init => ServedInv
<1> SUFFICES ASSUME Init PROVE ServedInv
  OBVIOUS
<1>1. /\ users = [w \in Wave |-> {}] /\ buffer = [u \in User |-> <<>>]
      /\ dl = [u \in User |-> NoGrant] /\ poll_wave_index = 0 /\ served = {}
  BY DEF Init, init_DL_data_buffer_Cvector_List
<1>2. IsFiniteSet({}) /\ Cardinality({}) = 0
  BY FS_EmptySet
<1>3. \A w \in Wave : /\ IsFiniteSet(users[w])
                      /\ Cardinality(users[w]) \in 0 .. PER_WAVE_MAX_NUM
  BY <1>1, <1>2, Numbers
<1>4. 0 \in PolledWave
  BY SchedulerAssumption DEF PolledWave
<1>5. <<>> \in Seq(DataLen)
  OBVIOUS
<1>6. TablesTyped
  BY <1>1, <1>3, <1>4, <1>5 DEF TablesTyped
<1>7. ServedEntries /\ FirstOverrunIsHeader
  BY <1>1 DEF ServedEntries, FirstOverrunIsHeader
<1> QED
  BY <1>6, <1>7 DEF ServedInv

(* What a subframe is. *)
LEMMA SubframeIs ==
  ASSUME TablesTyped, prepare_next_subframe_send_data
  PROVE  \E rows \in RowOrders(poll_wave_index') : \E uplink, early :
           LET after == ServeRows(rows, uplink, early)
           IN  /\ crashed' = after.faults
               /\ after.faults => UNCHANGED <<buffer, dl, Mac_to_PHY_data, served>>
               /\ ~after.faults => /\ buffer' = after.buffer
                                   /\ dl' = after.dl
                                   /\ Mac_to_PHY_data' = after.entries
                                   /\ served' = after.served
BY DEF prepare_next_subframe_send_data

(* The frame of a subframe. *)
LEMMA SubframeServes ==
  ASSUME ServedInv, prepare_next_subframe_send_data
  PROVE  ServedInv'
<1>1. TablesTyped /\ poll_wave_index_renew_MLRA /\ users' = users
  BY DEF ServedInv, prepare_next_subframe_send_data
<1>2. poll_wave_index' \in PolledWave /\ poll_wave_index' \in Wave
  BY <1>1, PolledIs
<1>3. PICK rows \in RowOrders(poll_wave_index') : \E uplink, early :
        LET after == ServeRows(rows, uplink, early)
        IN  /\ after.faults => UNCHANGED <<buffer, dl, Mac_to_PHY_data, served>>
            /\ ~after.faults => /\ buffer' = after.buffer
                                /\ dl' = after.dl
                                /\ Mac_to_PHY_data' = after.entries
                                /\ served' = after.served
  BY <1>1, SubframeIs
<1>8. PICK uplink, early :
        LET after == ServeRows(rows, uplink, early)
        IN  /\ after.faults => UNCHANGED <<buffer, dl, Mac_to_PHY_data, served>>
            /\ ~after.faults => /\ buffer' = after.buffer
                                /\ dl' = after.dl
                                /\ Mac_to_PHY_data' = after.entries
                                /\ served' = after.served
  BY <1>3
<1> DEFINE after == ServeRows(rows, uplink, early)
<1>4. RowsOf(rows)
  BY <1>1, <1>2, RowOrderIs
<1>5. TurnTyped(after, rows, Len(rows)) /\ TurnInv(after, rows, Len(rows))
  <2>1. Len(rows) \in 0 .. Len(rows)
    BY <1>4, Numbers DEF RowsOf
  <2>2. buffer \in [User -> Seq(DataLen)] /\ DOMAIN dl = User
    BY <1>1 DEF TablesTyped
  <2> QED
    BY <1>4, <2>1, <2>2, ServeRowsIs
<1> HIDE DEF after
<1>6. CASE after.faults
  <2>1. /\ buffer' = buffer /\ dl' = dl
        /\ Mac_to_PHY_data' = Mac_to_PHY_data /\ served' = served
    BY <1>6, <1>8 DEF after
  <2>2. TablesTyped'
    BY <1>1, <1>2, <2>1 DEF TablesTyped
  <2>3. ServedEntries'
    BY <2>1 DEF ServedInv, ServedEntries, LastOfUser
  <2>4. FirstOverrunIsHeader'
    BY <2>1 DEF ServedInv, FirstOverrunIsHeader, End
  <2> QED
    BY <2>2, <2>3, <2>4 DEF ServedInv
<1>7. CASE ~after.faults
  <2>1. /\ buffer' = after.buffer /\ dl' = after.dl
        /\ Mac_to_PHY_data' = after.entries /\ served' = after.served
    BY <1>7, <1>8 DEF after
  <2>2. TablesTyped'
    BY <1>1, <1>2, <1>5, <2>1 DEF TablesTyped, TurnTyped
  <2>3. \A i \in served' : End(i)' = EndOf(after, i)
    BY <2>1 DEF End, EndOf
  <2>4. FirstOverrunIsHeader'
    BY <1>5, <2>1, <2>3 DEF TurnInv, FirstOverrunIsHeader, Limit
  <2>5. ASSUME NEW i \in served'
        PROVE  /\ Mac_to_PHY_data'[i] \in Entry
               /\ Mac_to_PHY_data'[i] \notin {Nobody, Overwritten}
               /\ LastOfUser(i)' => dl'[Mac_to_PHY_data'[i].user] = Mac_to_PHY_data'[i].grant
    <3>1. \A j \in served' : EntryOf(after, rows, j)
      BY <1>5, <2>1 DEF TurnInv
    <3>2. \A j \in served' : Mac_to_PHY_data'[j].user = rows[j]
      BY <2>1, <3>1 DEF EntryOf
    <3>3. LastOfUser(i)' => \A j \in after.served : j > i => rows[j] # rows[i]
      BY <2>1, <3>2 DEF LastOfUser
    <3> QED
      BY <2>1, <3>1, <3>2, <3>3, SubframeAssumption DEF EntryOf
  <2>6. ASSUME NEW i \in served', NEW j \in served', i < j
        PROVE  RBs(Mac_to_PHY_data'[i].grant) \cap RBs(Mac_to_PHY_data'[j].grant) = {}
    <3> DEFINE g == Mac_to_PHY_data'[i].grant
               h == Mac_to_PHY_data'[j].grant
    <3>1. g \in Grant /\ h \in Grant
      BY <2>5 DEF Entry
    <3>2. g.begin + g.total <= h.begin
      BY <1>5, <2>1, <2>6 DEF TurnInv, EndOf
    <3> HIDE DEF g, h
    <3>3. /\ g.begin \in Nat /\ g.total \in Nat /\ h.begin \in Nat /\ h.total \in Nat
      BY <3>1, GrantIs
    <3>4. \A c \in g.begin .. g.begin + g.total - 1 : c \notin h.begin .. h.begin + h.total - 1
      BY <3>2, <3>3
    <3>5. RBs(g) \cap RBs(h) = {}
      BY <3>4 DEF RBs
    <3> QED
      BY <3>5 DEF g, h
  <2>7. \A i \in served' : i \in Int
    BY <1>5, <2>1 DEF TurnInv
  <2>8. ServedEntries'
    <3>1. \A i \in served' : \A j \in served' \ {i} : i < j \/ j < i
      BY <2>7
    <3>2. \A i \in served' : \A j \in served' \ {i} :
            RBs(Mac_to_PHY_data'[i].grant) \cap RBs(Mac_to_PHY_data'[j].grant) = {}
      BY <2>6, <3>1
    <3> QED
      BY <2>5, <3>2 DEF ServedEntries, RBs
  <2> QED
    BY <2>2, <2>4, <2>8 DEF ServedInv
<1> QED
  BY <1>6, <1>7

(* Every step keeps the invariant. *)
LEMMA NextServed == ServedInv /\ [Next]_vars => ServedInv'
<1> SUFFICES ASSUME ServedInv, [Next]_vars PROVE ServedInv'
  OBVIOUS
<1>1. ASSUME UNCHANGED <<dl, Mac_to_PHY_data, served>>, TablesTyped' PROVE ServedInv'
  BY <1>1 DEF ServedInv, ServedEntries, LastOfUser, FirstOverrunIsHeader, End
<1>2. ASSUME NEW u \in User, NEW w \in Wave_num[u], Access(u, w) PROVE ServedInv'
  <2>0. PICK k \in Slot : <<u, k>> \notin users[w] /\ users' = [users EXCEPT ![w] = @ \cup {<<u, k>>}]
    BY <1>2 DEF Access
  <2>1. /\ w \in Wave /\ Cardinality(users[w]) < PER_WAVE_MAX_NUM
        /\ UNCHANGED <<buffer, dl, poll_wave_index, Mac_to_PHY_data, served>>
    BY <1>2, SchedulerAssumption DEF Access, radio
  <2>2. /\ IsFiniteSet(users[w]) /\ Cardinality(users[w]) \in Nat
        /\ users \in [Wave -> SUBSET (User \X Slot)]
    BY <2>1, Numbers DEF ServedInv, TablesTyped
  <2>3. /\ IsFiniteSet(users[w] \cup {<<u, k>>})
        /\ Cardinality(users[w] \cup {<<u, k>>}) = Cardinality(users[w]) + 1
    BY <2>0, <2>2, FS_AddElement
  <2>4. Cardinality(users[w]) + 1 \in 0 .. PER_WAVE_MAX_NUM
    BY <2>1, <2>2, Numbers
  <2>5. users' \in [Wave -> SUBSET (User \X Slot)]
    <3>1. <<u, k>> \in User \X Slot
      OBVIOUS
    <3> QED
      BY <2>0, <2>1, <2>2, <3>1
  <2>6. \A v \in Wave : /\ IsFiniteSet(users'[v])
                        /\ Cardinality(users'[v]) \in 0 .. PER_WAVE_MAX_NUM
    BY <2>0, <2>1, <2>2, <2>3, <2>4 DEF ServedInv, TablesTyped
  <2>7. TablesTyped'
    BY <2>1, <2>5, <2>6 DEF ServedInv, TablesTyped
  <2> QED
    BY <1>1, <2>1, <2>7
<1>3. ASSUME NEW u \in User, NEW n \in DataLen, TYPE_MSG_division_Handle(u, n)
      PROVE  ServedInv'
  <2>1. /\ buffer' = [buffer EXCEPT ![u] = Append(@, n)]
        /\ UNCHANGED <<users, dl, poll_wave_index, Mac_to_PHY_data, served>>
    BY <1>3 DEF TYPE_MSG_division_Handle, radio
  <2>2. Append(buffer[u], n) \in Seq(DataLen)
    BY DEF ServedInv, TablesTyped
  <2>3. TablesTyped'
    BY <2>1, <2>2 DEF ServedInv, TablesTyped
  <2> QED
    BY <1>1, <2>1, <2>3
<1>4. ASSUME NEW u \in User, NEW n \in RBNum, non_resident_resource_apply(u, n)
      PROVE  ServedInv'
  <2>1. UNCHANGED <<users, buffer, dl, poll_wave_index, Mac_to_PHY_data, served>>
    BY <1>4 DEF non_resident_resource_apply, radio
  <2> QED
    BY <1>1, <2>1 DEF ServedInv, TablesTyped
<1>5. ASSUME prepare_next_subframe_send_data PROVE ServedInv'
  BY <1>5, SubframeServes
<1>6. ASSUME UNCHANGED vars PROVE ServedInv'
  <2>1. UNCHANGED <<users, buffer, dl, poll_wave_index, Mac_to_PHY_data, served>>
    BY <1>6 DEF vars, radio
  <2> QED
    BY <1>1, <2>1 DEF ServedInv, TablesTyped
<1> QED
  BY <1>2, <1>3, <1>4, <1>5, <1>6 DEF Next

(***************************************************************************)
(* For every table, all orders of rows and all packets: the entry of a row *)
(* with data survives the data of the rows before it and shares no RB with *)
(* another one, and the last one of a user agrees with what is registered. *)
(***************************************************************************)
THEOREM ServedEntriesStand == Spec => []ServedEntries
<1>1. ServedInv => ServedEntries
  BY DEF ServedInv
<1> QED
  BY <1>1, InitServed, NextServed, PTL DEF Spec

(* The first grant of a subframe that leaves the range of the RBs leaves it by
   the RB of its MAC header. *)
THEOREM OverrunsByHeader == Spec => []FirstOverrunIsHeader
<1>1. ServedInv => FirstOverrunIsHeader
  BY DEF ServedInv
<1> QED
  BY <1>1, InitServed, NextServed, PTL DEF Spec

-----------------------------------------------------------------------------
Place == Entry \cup {Nobody, Overwritten}

MaybeGrant == Grant \cup {NoGrant}

(* The tables that the loop writes. *)
FieldsTyped(s) == /\ s.dl \in [User -> MaybeGrant]
                  /\ s.entries \in [Slot -> Place]
                  /\ s.heard \in [Slot -> MaybeGrant]

TypeInv == ServedInv /\ TypeOK

(* Writing an entry keeps the table of entries one. *)
LEMMA WrittenTyped ==
  ASSUME NEW entries \in [Slot -> Place], NEW i \in Slot, NEW e \in Entry
  PROVE  Written(entries, i, e) \in [Slot -> Place]
<1> DEFINE w == Written(entries, i, e)
<1>1. ASSUME NEW j \in Slot PROVE w[j] \in Place
  <2>1. \/ w[j] = e \/ w[j] = Overwritten \/ w[j] = entries[j]
        \/ entries[j] \notin {Nobody, Overwritten} /\ w[j] = [entries[j] EXCEPT !.whole = FALSE]
    BY DEF Written
  <2>2. entries[j] \in Entry => [entries[j] EXCEPT !.whole = FALSE] \in Entry
    BY DEF Entry
  <2> HIDE DEF w
  <2>3. entries[j] \in Place /\ e \in Place /\ Overwritten \in Place
    BY DEF Place
  <2> QED
    BY <2>1, <2>2, <2>3 DEF Place
<1>2. w = [j \in Slot |-> w[j]]
  BY DEF Written
<1> HIDE DEF w
<1>3. w \in [Slot -> Place]
  BY <1>1, <1>2
<1> QED
  BY <1>3 DEF w

(* A turn keeps the tables it writes. *)
LEMMA FieldsTypedStep ==
  ASSUME NEW rows, RowsOf(rows), NEW k \in Nat, k < Len(rows),
         NEW s, FieldsTyped(s), NEW uplink, NEW early \in MaybeGrant,
         NEW r, r = ServeRow(s, k + 1, rows[k + 1], uplink, early),
         TurnInv(r, rows, k + 1)
  PROVE  FieldsTyped(r)
<1> DEFINE u == rows[k + 1]
<1>1. k + 1 \in Slot /\ u \in User
  <2>1. PER_WAVE_MAX_NUM \in Nat /\ Len(rows) \in 0 .. PER_WAVE_MAX_NUM
    BY Numbers DEF RowsOf
  <2>2. k + 1 \in 1 .. Len(rows) /\ k + 1 \in Slot
    BY <2>1 DEF Slot
  <2> QED
    BY <2>2 DEF RowsOf
<1>2. PICK e, g : r.entries = Written(s.entries, k + 1, e) /\ r.dl = [s.dl EXCEPT ![u] = g]
  BY DEF ServeRow
<1>3. r.heard = [s.heard EXCEPT ![k + 1] = early]
  BY DEF ServeRow
<1>4. k + 1 \in r.served
  BY DEF ServeRow
<1>5. /\ r.entries[k + 1] \in Entry
      /\ r.dl[u] = r.entries[k + 1].grant
  BY <1>4 DEF TurnInv, EntryOf, u
<1> HIDE DEF u
<1>6. r.entries[k + 1] = e
  BY <1>1, <1>2 DEF Written
<1>7. r.entries \in [Slot -> Place]
  BY <1>1, <1>2, <1>5, <1>6, WrittenTyped DEF FieldsTyped
<1>8. g \in MaybeGrant
  <2>1. r.dl[u] = g
    BY <1>1, <1>2 DEF FieldsTyped
  <2>2. r.entries[k + 1].grant \in Grant
    BY <1>5 DEF Entry
  <2> QED
    BY <1>5, <2>1, <2>2 DEF MaybeGrant
<1>9. r.dl \in [User -> MaybeGrant]
  BY <1>1, <1>2, <1>8 DEF FieldsTyped
<1>10. r.heard \in [Slot -> MaybeGrant]
  BY <1>1, <1>3 DEF FieldsTyped
<1> QED
  BY <1>7, <1>9, <1>10 DEF FieldsTyped

(* The tables after the loop. *)
LEMMA FieldsAre ==
  ASSUME TypeOK, NEW rows, RowsOf(rows), NEW uplink,
         NEW early, \A u \in User : early[u] \in MaybeGrant
  PROVE  FieldsTyped(ServeRows(rows, uplink, early))
<1> DEFINE n == Len(rows)
<1>1. n \in Nat
  BY Numbers DEF RowsOf
<1>2. buffer \in [User -> Seq(DataLen)] /\ DOMAIN dl = User
  BY DEF TypeOK
<1>3. PICK f : /\ f[0] = Unserved
               /\ \A i \in 1 .. Len(rows) :
                    f[i] = Turn(f[i - 1], i, rows[i], uplink[rows[i]], early[rows[i]])
               /\ f[Len(rows)] = ServeRows(rows, uplink, early)
               /\ \A k \in 0 .. Len(rows) : TurnTyped(f[k], rows, k) /\ TurnInv(f[k], rows, k)
  BY <1>2, ServeRowsIs
<1> DEFINE S == {k \in 0 .. n : FieldsTyped(f[k])}
<1>4. 0 \in S
  <2>1. FieldsTyped(Unserved)
    BY DEF FieldsTyped, Unserved, TypeOK, Place, MaybeGrant
  <2> QED
    BY <1>1, <1>3, <2>1
<1>5. ASSUME NEW k \in 0 .. n - 1, k \in S PROVE k + 1 \in S
  <2> DEFINE s == f[k]
             r == f[k + 1]
  <2>1. /\ k \in Nat /\ k < Len(rows) /\ k + 1 \in 1 .. n /\ (k + 1) - 1 = k
        /\ k + 1 \in 0 .. n
    BY <1>1
  <2>2. r = Turn(s, k + 1, rows[k + 1], uplink[rows[k + 1]], early[rows[k + 1]])
    BY <1>3, <2>1
  <2>3. FieldsTyped(s) /\ TurnInv(r, rows, k + 1)
    BY <1>3, <1>5, <2>1
  <2>4. early[rows[k + 1]] \in MaybeGrant
    BY <2>1 DEF RowsOf
  <2> HIDE DEF s, r
  <2>5. FieldsTyped(r)
    <3>1. CASE s.faults \/ s.buffer[rows[k + 1]] = <<>>
      BY <2>2, <2>3, <3>1 DEF Turn
    <3>2. CASE ~(s.faults \/ s.buffer[rows[k + 1]] = <<>>)
      <4>1. r = ServeRow(s, k + 1, rows[k + 1], uplink[rows[k + 1]], early[rows[k + 1]])
        BY <2>2, <3>2 DEF Turn
      <4> QED
        BY <2>1, <2>3, <2>4, <4>1, FieldsTypedStep
    <3> QED
      BY <3>1, <3>2
  <2> QED
    BY <2>1, <2>5 DEF r
<1>6. 0 .. n \subseteq S
  <2> HIDE DEF S, n
  <2> QED
    BY <1>1, <1>4, <1>5, UpTo
<1> QED
  BY <1>1, <1>3, <1>6

(* A subframe keeps the types. *)
LEMMA SubframeTyped ==
  ASSUME TypeInv, prepare_next_subframe_send_data
  PROVE  TypeOK'
<1>1. TablesTyped /\ poll_wave_index_renew_MLRA /\ TypeOK
  BY DEF TypeInv, ServedInv, prepare_next_subframe_send_data
<1>2. poll_wave_index' \in PolledWave /\ poll_wave_index' \in Wave
  BY <1>1, PolledIs
<1>3. PICK rows \in RowOrders(poll_wave_index'), start \in 1 .. PER_WAVE_MAX_NUM + 1 :
        LET early  == Early(rows, start)
            uplink == Uplink(rows, start)
            after  == ServeRows(rows, uplink, early)
        IN  /\ crashed' = after.faults
            /\ \/ after.faults /\ UNCHANGED <<buffer, dl, ul, eatrly_ul, Mac_to_PHY_data,
                                   RB_Reception_Info, send_user_num, served>>
               \/ /\ buffer' = after.buffer
                  /\ dl' = after.dl
                  /\ ul' = uplink
                  /\ eatrly_ul' = early
                  /\ Mac_to_PHY_data' = after.entries
                  /\ RB_Reception_Info' = after.heard
                  /\ send_user_num' = Len(rows)
                  /\ served' = after.served
  BY DEF prepare_next_subframe_send_data
<1> DEFINE early  == Early(rows, start)
           uplink == Uplink(rows, start)
           after == ServeRows(rows, uplink, early)
<1>4. early \in [User -> MaybeGrant] /\ uplink \in [User -> MaybeGrant]
  BY <1>1 DEF TypeOK, MaybeGrant, Early, Uplink
<1>5. UNCHANGED <<users, arrived, requests, UL_min_idleRB>>
  BY DEF prepare_next_subframe_send_data
<1>6. /\ crashed' = after.faults
      /\ \/ after.faults /\ UNCHANGED <<buffer, dl, ul, eatrly_ul, Mac_to_PHY_data,
                             RB_Reception_Info, send_user_num, served>>
         \/ /\ buffer' = after.buffer
            /\ dl' = after.dl
            /\ ul' = uplink
            /\ eatrly_ul' = early
            /\ Mac_to_PHY_data' = after.entries
            /\ RB_Reception_Info' = after.heard
            /\ send_user_num' = Len(rows)
            /\ served' = after.served
  BY <1>3
<1> HIDE DEF early, uplink
<1>7. RowsOf(rows)
  BY <1>1, <1>2, RowOrderIs
<1>8. FieldsTyped(after)
  <2>1. \A u \in User : early[u] \in MaybeGrant
    BY <1>4
  <2> QED
    BY <1>1, <1>7, <2>1, FieldsAre DEF after
<1>9. TurnTyped(after, rows, Len(rows)) /\ TurnInv(after, rows, Len(rows))
  <2>1. Len(rows) \in 0 .. Len(rows)
    BY <1>7, Numbers DEF RowsOf
  <2>2. buffer \in [User -> Seq(DataLen)] /\ DOMAIN dl = User
    BY <1>1 DEF TablesTyped
  <2> QED
    BY <1>7, <2>1, <2>2, ServeRowsIs
<1> HIDE DEF after
<1>10. CASE after.faults /\ UNCHANGED <<buffer, dl, ul, eatrly_ul, Mac_to_PHY_data,
                             RB_Reception_Info, send_user_num, served>>
  BY <1>1, <1>2, <1>5, <1>6, <1>10 DEF TypeOK
<1>11. CASE /\ buffer' = after.buffer
            /\ dl' = after.dl
            /\ ul' = uplink
            /\ eatrly_ul' = early
            /\ Mac_to_PHY_data' = after.entries
            /\ RB_Reception_Info' = after.heard
            /\ send_user_num' = Len(rows)
            /\ served' = after.served
  <2>1. crashed' \in BOOLEAN /\ buffer' \in [User -> Seq(DataLen)]
    BY <1>6, <1>9, <1>11, Zenon DEF TurnTyped
  <2>2. served' \in SUBSET Slot /\ send_user_num' \in 0 .. PER_WAVE_MAX_NUM
    <3>1. Len(rows) \in 0 .. PER_WAVE_MAX_NUM /\ PER_WAVE_MAX_NUM \in Nat
      BY <1>7, Numbers DEF RowsOf
    <3>2. 1 .. Len(rows) \subseteq Slot
      BY <3>1 DEF Slot
    <3> QED
      BY <1>9, <1>11, <3>1, <3>2 DEF TurnInv
  <2>3. /\ dl' \in [User -> MaybeGrant] /\ Mac_to_PHY_data' \in [Slot -> Place]
        /\ RB_Reception_Info' \in [Slot -> MaybeGrant]
    BY <1>8, <1>11 DEF FieldsTyped
  <2>4. ul' \in [User -> MaybeGrant] /\ eatrly_ul' \in [User -> MaybeGrant]
    BY <1>4, <1>11
  <2> QED
    BY <1>1, <1>2, <1>5, <2>1, <2>2, <2>3, <2>4 DEF TypeOK, Place, MaybeGrant
<1> QED
  BY <1>6, <1>10, <1>11

(* The initial state satisfies the types. *)
LEMMA InitTyped == Init => TypeInv
<1> SUFFICES ASSUME Init PROVE TypeInv
  OBVIOUS
<1>1. ServedInv
  BY InitServed
<1>2. /\ RB_TOTALNUM \in Nat /\ SCH_RB_NUM \in Nat /\ RB_TOTALNUM <= SCH_RB_NUM
      /\ PER_WAVE_MAX_NUM \in Nat /\ MaxPackets \in Nat /\ MaxRequests \in Nat
  BY SchedulerAssumption, Numbers
<1>3. /\ arrived \in 0 .. MaxPackets /\ requests \in 0 .. MaxRequests
      /\ UL_min_idleRB \in RB_TOTALNUM .. SCH_RB_NUM
      /\ send_user_num \in 0 .. PER_WAVE_MAX_NUM
  BY <1>2 DEF Init
<1>4. \A w \in Wave : Cardinality(users[w]) <= PER_WAVE_MAX_NUM
  BY <1>1, <1>2 DEF ServedInv, TablesTyped
<1>5. /\ users \in [Wave -> SUBSET (User \X Slot)] /\ buffer \in [User -> Seq(DataLen)]
      /\ poll_wave_index \in PolledWave
  BY <1>1 DEF ServedInv, TablesTyped
<1>6. /\ dl \in [User -> Grant \cup {NoGrant}] /\ ul \in [User -> Grant \cup {NoGrant}]
      /\ eatrly_ul \in [User -> Grant \cup {NoGrant}]
      /\ Mac_to_PHY_data \in [Slot -> Entry \cup {Nobody, Overwritten}]
      /\ RB_Reception_Info \in [Slot -> Grant \cup {NoGrant}]
      /\ served \in SUBSET Slot /\ crashed \in BOOLEAN
  BY DEF Init, init_Mac_to_PHY_data, init_RB_Reception_Info
<1>7. TypeOK
  BY <1>3, <1>4, <1>5, <1>6 DEF TypeOK
<1> QED
  BY <1>1, <1>7 DEF TypeInv

(* Every step keeps the types. *)
LEMMA NextTyped == TypeInv /\ [Next]_vars => TypeInv'
<1> SUFFICES ASSUME TypeInv, [Next]_vars PROVE TypeInv'
  OBVIOUS
<1>1. ServedInv'
  BY NextServed DEF TypeInv
<1>2. TypeOK
  BY DEF TypeInv
<1>3. \A w \in Wave : Cardinality(users[w])' <= PER_WAVE_MAX_NUM
  BY <1>1, Numbers DEF ServedInv, TablesTyped
<1>4. /\ users' \in [Wave -> SUBSET (User \X Slot)] /\ buffer' \in [User -> Seq(DataLen)]
      /\ poll_wave_index' \in PolledWave
  BY <1>1 DEF ServedInv, TablesTyped
<1>5. ASSUME NEW u \in User, NEW w \in Wave_num[u], Access(u, w) PROVE TypeOK'
  BY <1>2, <1>3, <1>4, <1>5 DEF Access, radio, TypeOK
<1>6. ASSUME NEW u \in User, NEW n \in DataLen, TYPE_MSG_division_Handle(u, n)
      PROVE  TypeOK'
  <2>1. arrived' \in 0 .. MaxPackets
    BY <1>2, <1>6, SchedulerAssumption DEF TYPE_MSG_division_Handle, TypeOK
  <2> QED
    BY <1>2, <1>3, <1>4, <1>6, <2>1 DEF TYPE_MSG_division_Handle, radio, TypeOK
<1>7. ASSUME NEW u \in User, NEW n \in RBNum, non_resident_resource_apply(u, n)
      PROVE  TypeOK'
  <2>1. PoolTyped
    BY <1>2 DEF TypeOK, PoolTyped
  <2>2. Granted(n) \in Nat /\ UL_min_idleRB + Granted(n) <= SCH_RB_NUM
    BY <2>1, GrantedFits
  <2>3. UL_min_idleRB \in Nat /\ RB_TOTALNUM <= UL_min_idleRB
    BY <2>1, Numbers DEF PoolTyped
  <2>4. [begin |-> UL_min_idleRB, total |-> Granted(n)] \in Grant
    BY <2>2, <2>3, Numbers, GrantOf
  <2>5. UL_min_idleRB' \in RB_TOTALNUM .. SCH_RB_NUM
    BY <1>7, <2>2, <2>3, Numbers DEF non_resident_resource_apply
  <2>6. ul' \in [User -> Grant \cup {NoGrant}]
    BY <1>2, <1>7, <2>4 DEF non_resident_resource_apply, TypeOK
  <2>7. requests' \in 0 .. MaxRequests
    BY <1>2, <1>7, SchedulerAssumption DEF non_resident_resource_apply, TypeOK
  <2> QED
    BY <1>2, <1>3, <1>4, <1>7, <2>5, <2>6, <2>7 DEF non_resident_resource_apply, radio, TypeOK
<1>8. ASSUME prepare_next_subframe_send_data PROVE TypeOK'
  BY <1>8, SubframeTyped
<1>9. ASSUME UNCHANGED vars PROVE TypeOK'
  BY <1>2, <1>9 DEF vars, radio, TypeOK
<1>10. TypeOK'
  BY <1>5, <1>6, <1>7, <1>8, <1>9 DEF Next
<1> QED
  BY <1>1, <1>10 DEF TypeInv

(***************************************************************************)
(* The variables keep their types: grants and RB numbers fit in a u16, and *)
(* a wave has no more rows in use than there are.                          *)
(***************************************************************************)
THEOREM TypeCorrect == Spec => []TypeOK
<1>1. TypeInv => TypeOK
  BY DEF TypeInv
<1> QED
  BY <1>1, InitTyped, NextTyped, PTL DEF Spec

-----------------------------------------------------------------------------
NoShorterPacket ==
  \A u \in User : \A k, l \in DOMAIN buffer[u] : k < l => buffer[u][k] <= buffer[u][l]

(* Some user has fewer packets than before the loop. *)
Served(s) == \E u \in User : Len(s.buffer[u]) < Len(buffer[u])

(* Until a packet is taken, no RB is, and the rows so far had nothing.  From a
   buffer of which no packet is taken nothing is missing. *)
Progress(s, rows, k) ==
  \/ s.faults
  \/ Served(s)
  \/ /\ s.flash = RB_TOTALNUM /\ s.buffer = buffer
     /\ \A j \in 1 .. k : buffer[rows[j]] = <<>>

(* A turn faults only in the packaging of its packets. *)
LEMMA TurnFaults ==
  ASSUME NEW rows, RowsOf(rows), NEW k \in Nat, k < Len(rows),
         buffer \in [User -> Seq(DataLen)], NoShorterPacket,
         NEW s, TurnTyped(s, rows, k), ~s.faults, s.buffer[rows[k + 1]] # <<>>,
         NEW uplink, NEW early,
         NEW r, r = ServeRow(s, k + 1, rows[k + 1], uplink, early)
  PROVE  ~r.faults
<1> DEFINE u == rows[k + 1]
           x == s.buffer[u]
           t == TakenFrom(x, s.flash)
<1>1. r.faults = (s.faults \/ Packaged(SubSeq(x, 1, t)).faults)
  BY DEF ServeRow, TakenFrom, Needed, Surplus, flash_after
<1>2. /\ k + 1 \in 1 .. Len(rows) /\ k + 1 \in k + 1 .. Len(rows)
  BY DEF RowsOf
<1>3. /\ u \in User /\ x \in Seq(DataLen) /\ x # <<>> /\ s.flash \in Nat
      /\ Rest(x, buffer[u]) /\ buffer[u] \in Seq(DataLen)
  BY <1>2 DEF RowsOf, TurnTyped
<1>10. \A c, e \in DOMAIN buffer[u] : c < e => buffer[u][c] <= buffer[u][e]
  BY <1>3 DEF NoShorterPacket
<1> HIDE DEF x, u
<1>4. \A c \in DOMAIN x : x[1] <= x[c]
  <2> SUFFICES ASSUME NEW c \in DOMAIN x PROVE x[1] <= x[c]
    OBVIOUS
  <2> DEFINE y == buffer[u]
  <2>1. PICK d \in Nat : Len(x) = Len(y) - d /\ \A e \in 1 .. Len(x) : x[e] = y[e + d]
    BY <1>3 DEF Rest
  <2>2. /\ c \in 1 .. Len(x) /\ 1 \in 1 .. Len(x) /\ c \in Nat
        /\ 1 + d \in DOMAIN y /\ c + d \in DOMAIN y
    BY <1>3, <2>1
  <2>3. x[1] = y[1 + d] /\ x[c] = y[c + d] /\ x[1] \in DataLen
    BY <1>3, <2>1, <2>2
  <2>4. x[1] \in Nat
    BY <2>3, SchedulerAssumption
  <2>5. CASE c = 1
    BY <2>4, <2>5
  <2>6. CASE c # 1
    <3>1. 1 + d < c + d
      BY <2>2, <2>6
    <3> QED
      BY <1>10, <2>2, <2>3, <3>1
  <2> QED
    BY <2>5, <2>6
<1>5. t \in 0 .. Len(x)
  BY <1>3, NeededIs
<1> HIDE DEF t
<1> DEFINE y == SubSeq(x, 1, t)
<1>6. /\ y \in Seq(DataLen) /\ Len(y) = t /\ t \in Nat
      /\ \A c \in 1 .. t : y[c] = x[c] /\ c \in DOMAIN x
  BY <1>3, <1>5
<1> HIDE DEF y
<1>7. y \in [1 .. t -> DataLen]
  BY <1>6
<1>8. \A c \in 1 .. t : y[1] <= y[c]
  <2> SUFFICES ASSUME NEW c \in 1 .. t PROVE y[1] <= y[c]
    OBVIOUS
  <2>1. 1 \in 1 .. t
    BY <1>6
  <2> QED
    BY <1>4, <1>6, <2>1
<1>9. ~Packaged(y).faults
  BY <1>6, <1>7, <1>8, PackagedFaults
<1> QED
  BY <1>1, <1>9, Zenon DEF y

(* The loop does not fault when no packet stands behind a longer one. *)
LEMMA LoopFaults ==
  ASSUME NEW rows, RowsOf(rows), buffer \in [User -> Seq(DataLen)], DOMAIN dl = User,
         NoShorterPacket, NEW uplink, NEW early
  PROVE  ~ServeRows(rows, uplink, early).faults
<1>1. PICK f : /\ f[0] = Unserved
               /\ \A i \in 1 .. Len(rows) :
                    f[i] = Turn(f[i - 1], i, rows[i], uplink[rows[i]], early[rows[i]])
               /\ f[Len(rows)] = ServeRows(rows, uplink, early)
               /\ \A k \in 0 .. Len(rows) : TurnTyped(f[k], rows, k) /\ TurnInv(f[k], rows, k)
  BY ServeRowsIs
<1> DEFINE n == Len(rows)
<1>2. n \in Nat
  BY Numbers DEF RowsOf
<1> DEFINE S == {k \in 0 .. n : ~f[k].faults}
<1>3. 0 \in S
  <2>1. ~Unserved.faults
    BY DEF Unserved
  <2> QED
    BY <1>1, <1>2, <2>1
<1>4. ASSUME NEW k \in 0 .. n - 1, k \in S PROVE k + 1 \in S
  <2> DEFINE s == f[k]
             r == f[k + 1]
  <2>1. /\ k \in Nat /\ k < Len(rows) /\ k + 1 \in 1 .. n /\ (k + 1) - 1 = k
        /\ k + 1 \in 0 .. n
    BY <1>2
  <2>2. r = Turn(s, k + 1, rows[k + 1], uplink[rows[k + 1]], early[rows[k + 1]])
    BY <1>1, <2>1
  <2>3. TurnTyped(s, rows, k) /\ ~s.faults
    BY <1>1, <1>4
  <2> HIDE DEF s, r
  <2>4. ~r.faults
    <3>1. CASE s.buffer[rows[k + 1]] = <<>>
      BY <2>2, <2>3, <3>1 DEF Turn
    <3>2. CASE s.buffer[rows[k + 1]] # <<>>
      <4>1. r = ServeRow(s, k + 1, rows[k + 1], uplink[rows[k + 1]], early[rows[k + 1]])
        BY <2>2, <2>3, <3>2 DEF Turn
      <4> QED
        BY <2>1, <2>3, <3>2, <4>1, TurnFaults
    <3> QED
      BY <3>1, <3>2
  <2> QED
    BY <2>1, <2>4 DEF r
<1>5. 0 .. n \subseteq S
  <2> HIDE DEF S, n
  <2> QED
    BY <1>2, <1>3, <1>4, UpTo
<1> QED
  BY <1>1, <1>2, <1>5

(* A turn takes a packet when no RB is taken, and never brings one back. *)
LEMMA TurnProgress ==
  ASSUME NEW rows, RowsOf(rows), NEW k \in Nat, k < Len(rows),
         buffer \in [User -> Seq(DataLen)],
         NEW s, TurnTyped(s, rows, k), Progress(s, rows, k),
         ~s.faults, s.buffer[rows[k + 1]] # <<>>,
         NEW uplink, NEW early,
         NEW r, r = ServeRow(s, k + 1, rows[k + 1], uplink, early)
  PROVE  Served(r)
<1> DEFINE u == rows[k + 1]
           x == s.buffer[u]
           t == TakenFrom(x, s.flash)
<1>1. r.buffer = [s.buffer EXCEPT ![u] = SubSeq(x, t + 1, Len(x))]
  BY DEF ServeRow, TakenFrom, Needed, Surplus, flash_after
<1>2. /\ k + 1 \in 1 .. Len(rows) /\ k + 1 \in k + 1 .. Len(rows)
  BY DEF RowsOf
<1>3. /\ u \in User /\ x \in Seq(DataLen) /\ x # <<>> /\ s.flash \in Nat
      /\ s.buffer \in [User -> Seq(DataLen)]
  BY <1>2 DEF RowsOf, TurnTyped
<1> DEFINE flash == s.flash
<1> HIDE DEF x, u
<1>4. t \in 0 .. Len(x) /\ (s.flash = RB_TOTALNUM => t > 0)
  <2> HIDE DEF flash
  <2>1. flash \in Nat
    BY <1>3 DEF flash
  <2>2. TakenFrom(x, flash) \in 0 .. Len(x) /\ (flash = RB_TOTALNUM => TakenFrom(x, flash) > 0)
    BY <1>3, <2>1, NeededIs
  <2> QED
    BY <2>2 DEF flash
<1> HIDE DEF t
<1>5. r.buffer[u] = SubSeq(x, t + 1, Len(x)) /\ Len(r.buffer[u]) = Len(x) - t
  <2>1. r.buffer[u] = SubSeq(x, t + 1, Len(x))
    BY <1>1, <1>3
  <2>2. Len(SubSeq(x, t + 1, Len(x))) = Len(x) - t
    BY <1>3, <1>4
  <2> QED
    BY <2>1, <2>2
<1>6. Len(x) \in Nat /\ t \in Nat
  BY <1>3, <1>4
<1>7. CASE s.flash = RB_TOTALNUM /\ s.buffer = buffer
  <2>1. x = buffer[u]
    BY <1>7 DEF x
  <2> QED
    BY <1>3, <1>4, <1>5, <1>6, <1>7, <2>1 DEF Served
<1>8. CASE Served(s)
  <2>1. PICK v \in User : Len(s.buffer[v]) < Len(buffer[v])
    BY <1>8 DEF Served
  <2>2. CASE v = u
    <3>1. Len(r.buffer[u]) <= Len(x) /\ x = s.buffer[u] /\ buffer[u] \in Seq(DataLen)
      BY <1>3, <1>4, <1>5, <1>6 DEF x
    <3> QED
      BY <1>3, <1>5, <1>6, <2>1, <2>2, <3>1 DEF Served
  <2>3. CASE v # u
    <3>1. r.buffer[v] = s.buffer[v]
      BY <1>1, <1>3, <2>3
    <3> QED
      BY <2>1, <3>1 DEF Served
  <2> QED
    BY <2>2, <2>3
<1> QED
  BY <1>7, <1>8 DEF Progress

(* The loop takes a packet, or faults, when a row has one. *)
LEMMA LoopProgress ==
  ASSUME NEW rows, RowsOf(rows), buffer \in [User -> Seq(DataLen)], DOMAIN dl = User,
         NEW i \in 1 .. Len(rows), buffer[rows[i]] # <<>>, NEW uplink, NEW early
  PROVE  \/ ServeRows(rows, uplink, early).faults
         \/ Served(ServeRows(rows, uplink, early))
<1>1. PICK f : /\ f[0] = Unserved
               /\ \A j \in 1 .. Len(rows) :
                    f[j] = Turn(f[j - 1], j, rows[j], uplink[rows[j]], early[rows[j]])
               /\ f[Len(rows)] = ServeRows(rows, uplink, early)
               /\ \A k \in 0 .. Len(rows) : TurnTyped(f[k], rows, k) /\ TurnInv(f[k], rows, k)
  BY ServeRowsIs
<1> DEFINE n == Len(rows)
<1>2. n \in Nat
  BY Numbers DEF RowsOf
<1> DEFINE S == {k \in 0 .. n : Progress(f[k], rows, k)}
<1>3. 0 \in S
  <2>1. Progress(Unserved, rows, 0)
    BY DEF Unserved, Progress
  <2> QED
    BY <1>1, <1>2, <2>1
<1>4. ASSUME NEW k \in 0 .. n - 1, k \in S PROVE k + 1 \in S
  <2> DEFINE s == f[k]
             r == f[k + 1]
  <2>1. /\ k \in Nat /\ k < Len(rows) /\ k + 1 \in 1 .. n /\ (k + 1) - 1 = k
        /\ k + 1 \in 0 .. n
    BY <1>2
  <2>2. r = Turn(s, k + 1, rows[k + 1], uplink[rows[k + 1]], early[rows[k + 1]])
    BY <1>1, <2>1
  <2>3. TurnTyped(s, rows, k) /\ Progress(s, rows, k)
    BY <1>1, <1>4
  <2> HIDE DEF s, r
  <2>4. Progress(r, rows, k + 1)
    <3>1. CASE s.faults
      BY <2>2, <3>1 DEF Turn, Progress
    <3>2. CASE s.buffer[rows[k + 1]] = <<>>
      <4>1. s.buffer = buffer => buffer[rows[k + 1]] = <<>>
        BY <3>2
      <4>2. \A j \in 1 .. k + 1 : j \in 1 .. k \/ j = k + 1
        BY <2>1
      <4>3. r = s
        BY <2>2, <3>2 DEF Turn
      <4> QED
        BY <2>3, <4>1, <4>2, <4>3 DEF Progress
    <3>3. CASE ~s.faults /\ s.buffer[rows[k + 1]] # <<>>
      <4>1. r = ServeRow(s, k + 1, rows[k + 1], uplink[rows[k + 1]], early[rows[k + 1]])
        BY <2>2, <3>3 DEF Turn
      <4>2. Served(r)
        BY <2>1, <2>3, <3>3, <4>1, TurnProgress
      <4> QED
        BY <4>2 DEF Progress
    <3> QED
      BY <3>1, <3>2, <3>3
  <2> QED
    BY <2>1, <2>4 DEF r
<1>5. 0 .. n \subseteq S
  <2> HIDE DEF S, n
  <2> QED
    BY <1>2, <1>3, <1>4, UpTo
<1>6. Progress(f[n], rows, n)
  BY <1>2, <1>5
<1> QED
  BY <1>1, <1>6 DEF Progress

-----------------------------------------------------------------------------
(* The first of the highest scores is found. *)
LEMMA FirstHighest ==
  ASSUME NEW b \in Nat, NEW D, D \subseteq 0 .. b - 1, D # {}, NEW score \in [D -> Int]
  PROVE  \E m \in D : \A v \in D : score[v] < score[m] \/ (score[v] = score[m] /\ m <= v)
<1> DEFINE Best(m, k) == m < k /\ \A v \in D : v < k =>
                            score[v] < score[m] \/ (score[v] = score[m] /\ m <= v)
           S == {k \in 0 .. b : (\E v \in D : v < k) => \E m \in D : Best(m, k)}
<1>1. 0 \in S
  <2>1. \A v \in D : ~(v < 0)
    OBVIOUS
  <2> QED
    BY <2>1
<1>2. ASSUME NEW k \in 0 .. b - 1, k \in S PROVE k + 1 \in S
  <2> SUFFICES ASSUME NEW v \in D, v < k + 1 PROVE \E m \in D : Best(m, k + 1)
    BY <1>2
  <2>0. \A w \in D : w \in Int /\ score[w] \in Int /\ (w < k + 1 <=> w < k \/ w = k)
    BY <1>2
  <2>1. CASE k \notin D
    <3>1. \A w \in D : w < k + 1 => w < k
      BY <2>0, <2>1
    <3>2. PICK m \in D : Best(m, k)
      BY <1>2, <3>1
    <3>3. Best(m, k + 1)
      BY <2>0, <3>1, <3>2
    <3> QED
      BY <3>3
  <2>2. CASE k \in D /\ \A w \in D : ~(w < k)
    <3>1. Best(k, k + 1)
      BY <2>0, <2>2
    <3> QED
      BY <2>2, <3>1
  <2>3. CASE k \in D /\ \E w \in D : w < k
    <3>1. PICK m \in D : Best(m, k)
      BY <1>2, <2>3
    <3>2. CASE score[m] < score[k]
      <4>1. Best(k, k + 1)
        BY <2>0, <2>3, <3>1, <3>2
      <4> QED
        BY <2>3, <4>1
    <3>3. CASE ~(score[m] < score[k])
      <4>1. Best(m, k + 1)
        BY <2>0, <2>3, <3>1, <3>3
      <4> QED
        BY <4>1
    <3> QED
      BY <3>2, <3>3
  <2> QED
    BY <2>1, <2>2, <2>3
<1>3. 0 .. b \subseteq S
  <2> HIDE DEF S
  <2> QED
    BY <1>1, <1>2, UpTo
<1>4. b \in S
  <2>1. b \in 0 .. b
    OBVIOUS
  <2> HIDE DEF S
  <2> QED
    BY <1>3, <2>1
<1>5. \A v \in D : v < b
  OBVIOUS
<1> QED
  BY <1>4, <1>5

(* Demand is a number, and somebody's. *)
LEMMA DemandIs ==
  ASSUME TablesTyped, NEW w \in Wave
  PROVE  /\ Demand(w) \in Nat
         /\ Demand(w) > 0 => \E row \in users[w] : buffer[row[1]] # <<>>
<1> DEFINE rows == {{u} \X DOMAIN buffer[u[1]] : u \in users[w]}
           f == [u \in users[w] |-> {u} \X DOMAIN buffer[u[1]]]
<1>1. IsFiniteSet(users[w]) /\ users[w] \subseteq User \X Slot
  BY DEF TablesTyped
<1>2. f \in Surjection(users[w], rows)
  BY DEF Surjection
<1>3. IsFiniteSet(rows)
  <2> HIDE DEF f, rows
  <2> QED
    BY <1>1, <1>2, FS_Surjection
<1>4. \A T \in rows : IsFiniteSet(T)
  <2> SUFFICES ASSUME NEW u \in users[w] PROVE IsFiniteSet({u} \X DOMAIN buffer[u[1]])
    OBVIOUS
  <2>4. u[1] \in User
    BY <1>1
  <2>1. DOMAIN buffer[u[1]] = 1 .. Len(buffer[u[1]]) /\ Len(buffer[u[1]]) \in Nat
    BY <2>4 DEF TablesTyped
  <2>2. IsFiniteSet(1 .. Len(buffer[u[1]]))
    BY <2>1, FS_Interval
  <2>3. IsFiniteSet({u})
    BY FS_Singleton
  <2> QED
    BY <2>1, <2>2, <2>3, FS_Product
<1>5. IsFiniteSet(Waiting(w))
  <2>1. Waiting(w) = UNION rows
    BY DEF Waiting
  <2> HIDE DEF rows
  <2> QED
    BY <1>3, <1>4, <2>1, FS_UNION
<1>6. Demand(w) \in Nat
  BY <1>5, FS_CardinalityType DEF Demand
<1>7. ASSUME \A u \in users[w] : buffer[u[1]] = <<>> PROVE Demand(w) = 0
  <2>1. \A u \in users[w] : {u} \X DOMAIN buffer[u[1]] = {}
    BY <1>7
  <2>2. Waiting(w) = {}
    BY <2>1 DEF Waiting
  <2> QED
    BY <2>2, FS_EmptySet DEF Demand
<1> QED
  BY <1>6, <1>7

(* There are too few waves for a score as low as the lowest. *)
LEMMA AboveLowest ==
  ASSUME TablesTyped, NEW w \in Wave, Demand(w) > 0
  PROVE  Score(w) > LowestScore
<1>1. Demand(w) \in Nat
  BY DemandIs
<1>2. WAVE_NUM \in Nat /\ WAVE_NUM <= 180
  BY SchedulerAssumption
<1>3. IsFiniteSet(Wave) /\ Cardinality(Wave) = WAVE_NUM
  <2>1. Cardinality(0 .. WAVE_NUM - 1) = (WAVE_NUM - 1) - 0 + 1 /\ IsFiniteSet(0 .. WAVE_NUM - 1)
    <3>1. 0 \in Int /\ WAVE_NUM - 1 \in Int
      BY <1>2
    <3>2. WAVE_NUM > 0
      BY <1>2 DEF Wave
    <3> QED
      BY <1>2, <3>1, <3>2, FS_Interval
  <2> QED
    BY <1>2, <2>1 DEF Wave
<1>4. Interferers(w) \subseteq Wave \ {w}
  BY DEF Interferers
<1>5. IsFiniteSet(Wave \ {w}) /\ Cardinality(Wave \ {w}) = WAVE_NUM - 1
  BY <1>3, FS_RemoveElement
<1>6. Cardinality(Interferers(w)) \in Nat /\ Cardinality(Interferers(w)) <= WAVE_NUM - 1
  BY <1>4, <1>5, FS_Subset, FS_CardinalityType
<1> QED
  BY <1>1, <1>2, <1>6 DEF Score, LowestScore

(* Whatever the interference, a polled wave with demand lets one be chosen. *)
LEMMA DemandIsSelected ==
  ASSUME TablesTyped, NEW w \in PolledWave, Demand(w) > 0
  PROVE  Selected # {}
<1> DEFINE D == {v \in PolledWave : Demand(v) > 0}
           score == [v \in D |-> Score(v)]
<1>1. WAVE_NUM \in Nat /\ WAVE_NUM_PER_BBU \in Nat /\ WAVE_NUM_PER_BBU <= WAVE_NUM
  BY SchedulerAssumption
<1>2. ASSUME NEW v \in Wave PROVE Score(v) \in Int
  <2>1. Demand(v) \in Nat
    BY DemandIs
  <2>2. IsFiniteSet(Wave)
    BY <1>1, FS_Interval DEF Wave
  <2>3. Interferers(v) \in SUBSET Wave
    BY DEF Interferers
  <2>4. Cardinality(Interferers(v)) \in Nat
    BY <2>2, <2>3, FS_Subset, FS_CardinalityType
  <2> QED
    BY <2>1, <2>4 DEF Score
<1>3. PolledWave \subseteq Wave
  BY <1>1 DEF PolledWave, Wave
<1>4. score \in [D -> Int]
  BY <1>2, <1>3
<1>5. D \subseteq 0 .. WAVE_NUM_PER_BBU - 1 /\ D # {}
  BY DEF PolledWave
<1> HIDE DEF score, D
<1>6. PICK m \in D : \A v \in D : score[v] < score[m] \/ (score[v] = score[m] /\ m <= v)
  BY <1>1, <1>4, <1>5, FirstHighest
<1>7. \A v \in D : score[v] = Score(v)
  BY DEF score
<1>9. Score(m) > LowestScore
  BY <1>3, AboveLowest DEF D
<1>8. m \in Selected
  BY <1>6, <1>7, <1>9 DEF Selected, D
<1> QED
  BY <1>8

-----------------------------------------------------------------------------
(* The faults of a subframe. *)
LEMMA SubframeFaults ==
  ASSUME TypeInv, prepare_next_subframe_send_data, crashed'
  PROVE  FallingLength
<1>1. TablesTyped /\ poll_wave_index_renew_MLRA
  BY DEF TypeInv, ServedInv, prepare_next_subframe_send_data
<1>2. poll_wave_index' \in PolledWave /\ poll_wave_index' \in Wave
  BY <1>1, PolledIs
<1>3. PICK rows \in RowOrders(poll_wave_index') : \E uplink, early :
        ServeRows(rows, uplink, early).faults
  BY <1>1, SubframeIs
<1>4. RowsOf(rows)
  BY <1>1, <1>2, RowOrderIs
<1>5. buffer \in [User -> Seq(DataLen)] /\ DOMAIN dl = User
  BY <1>1 DEF TablesTyped
<1>6. ~NoShorterPacket
  BY <1>3, <1>4, <1>5, LoopFaults
<1>7. PICK u \in User : \E k, l \in DOMAIN buffer[u] : k < l /\ ~(buffer[u][k] <= buffer[u][l])
  BY <1>6 DEF NoShorterPacket
<1>9. PICK k \in DOMAIN buffer[u], l \in DOMAIN buffer[u] :
        k < l /\ ~(buffer[u][k] <= buffer[u][l])
  BY <1>7
<1>8. buffer[u][k] \in Nat /\ buffer[u][l] \in Nat
  <2>1. buffer[u] \in Seq(DataLen) /\ k \in 1 .. Len(buffer[u]) /\ l \in 1 .. Len(buffer[u])
    BY <1>5
  <2>2. buffer[u][k] \in DataLen /\ buffer[u][l] \in DataLen
    BY <2>1
  <2> QED
    BY <2>2, SchedulerAssumption
<1> QED
  BY <1>8, <1>9 DEF FallingLength

(* A subframe takes a packet when a polled wave has one. *)
LEMMA SubframeTakes ==
  ASSUME TypeInv, prepare_next_subframe_send_data, \E w \in PolledWave : Demand(w) > 0
  PROVE  crashed' \/ \E u \in User : Len(buffer'[u]) < Len(buffer[u])
<1>1. TablesTyped /\ poll_wave_index_renew_MLRA
  BY DEF TypeInv, ServedInv, prepare_next_subframe_send_data
<1>2. poll_wave_index' \in PolledWave /\ poll_wave_index' \in Wave
  BY <1>1, PolledIs
<1>3. Demand(poll_wave_index') > 0
  BY <1>1, DemandIsSelected DEF poll_wave_index_renew_MLRA, Selected
<1>4. PICK row \in users[poll_wave_index'] : buffer[row[1]] # <<>>
  BY <1>1, <1>2, <1>3, DemandIs
<1>5. PICK rows \in RowOrders(poll_wave_index') : \E uplink, early :
           LET after == ServeRows(rows, uplink, early)
           IN  /\ crashed' = after.faults
               /\ ~after.faults => buffer' = after.buffer
  BY <1>1, SubframeIs
<1>11. PICK uplink, early :
           LET after == ServeRows(rows, uplink, early)
           IN  /\ crashed' = after.faults
               /\ ~after.faults => buffer' = after.buffer
  BY <1>5
<1>6. RowsOf(rows)
  BY <1>1, <1>2, RowOrderIs
<1>7. PICK i \in 1 .. Len(rows) : rows[i] = row[1]
  BY <1>1, <1>2, <1>4, RowOrderIs
<1>8. buffer \in [User -> Seq(DataLen)] /\ DOMAIN dl = User
  BY <1>1 DEF TablesTyped
<1>9. buffer[rows[i]] # <<>>
  BY <1>4, <1>7
<1>10. \/ ServeRows(rows, uplink, early).faults
       \/ Served(ServeRows(rows, uplink, early))
  BY <1>6, <1>8, <1>9, LoopProgress
<1> QED
  BY <1>10, <1>11 DEF Served

(***************************************************************************)
(* CrashNeedsShorterPacket for every table of rows and all packets: a turn *)
(* finds what the rows before it have left of the user's packets, and      *)
(* packets no shorter than the first of those never turn the queue over    *)
(* its end.                                                                *)
(***************************************************************************)
THEOREM CrashOnShorterPacket == Spec => CrashNeedsShorterPacket
<1>1. TypeInv /\ [Next]_vars =>
        [crashed' => FallingLength]_vars
  <2> SUFFICES ASSUME TypeInv, Next, crashed' PROVE FallingLength
    OBVIOUS
  <2>1. ~crashed
    BY DEF Next
  <2>2. ASSUME NEW u \in User, NEW w \in Wave_num[u], Access(u, w) PROVE FALSE
    BY <2>1, <2>2 DEF Access, radio
  <2>3. ASSUME NEW u \in User, NEW n \in DataLen, TYPE_MSG_division_Handle(u, n) PROVE FALSE
    BY <2>1, <2>3 DEF TYPE_MSG_division_Handle, radio
  <2>4. ASSUME NEW u \in User, NEW n \in RBNum, non_resident_resource_apply(u, n) PROVE FALSE
    BY <2>1, <2>4 DEF non_resident_resource_apply, radio
  <2>5. prepare_next_subframe_send_data
    BY <2>2, <2>3, <2>4 DEF Next
  <2> QED
    BY <2>5, SubframeFaults
<1> QED
  BY <1>1, InitTyped, NextTyped, PTL DEF Spec, CrashNeedsShorterPacket

(***************************************************************************)
(* SubframeProgress for every number of users and waves and every matrix   *)
(* of interference: the first row with data finds all RBs free and takes a *)
(* packet, whichever wave with demand is chosen.                           *)
(***************************************************************************)
THEOREM EverySubframeServes == Spec => SubframeProgress
<1>1. TypeInv /\ [Next]_vars =>
        [(UNCHANGED <<users, arrived, requests>> /\ \E w \in PolledWave : Demand(w) > 0)
           => crashed' \/ \E u \in User : Len(buffer'[u]) < Len(buffer[u])]_vars
  <2> SUFFICES ASSUME TypeInv, Next, UNCHANGED <<users, arrived, requests>>,
                      \E w \in PolledWave : Demand(w) > 0
               PROVE  crashed' \/ \E u \in User : Len(buffer'[u]) < Len(buffer[u])
    OBVIOUS
  <2>1. users \in [Wave -> SUBSET (User \X Slot)] /\ arrived \in Nat /\ requests \in Nat
    <3>1. TypeOK
      BY DEF TypeInv
    <3> QED
      BY <3>1, SchedulerAssumption DEF TypeOK
  <2>2. ASSUME NEW u \in User, NEW w \in Wave_num[u], Access(u, w) PROVE FALSE
    BY <2>1, <2>2, SchedulerAssumption DEF Access
  <2>3. ASSUME NEW u \in User, NEW n \in DataLen, TYPE_MSG_division_Handle(u, n) PROVE FALSE
    BY <2>1, <2>3 DEF TYPE_MSG_division_Handle
  <2>4. ASSUME NEW u \in User, NEW n \in RBNum, non_resident_resource_apply(u, n) PROVE FALSE
    BY <2>1, <2>4 DEF non_resident_resource_apply
  <2>5. prepare_next_subframe_send_data
    BY <2>2, <2>3, <2>4 DEF Next
  <2> QED
    BY <2>5, SubframeTakes
<1> QED
  BY <1>1, InitTyped, NextTyped, PTL DEF Spec, SubframeProgress
=============================================================================
