------------------------ MODULE AirInterfaceProofs -------------------------
(***************************************************************************)
(* Proofs about what goes over the air, of three modules that share no     *)
(* state: RandomAccess, AirReceive and UserTopology.                       *)
(*                                                                         *)
(* RandomAccess, for every number of SSBs and occasions, every limit of    *)
(* the counter and any number of wake-ups that nobody sent: the bound on   *)
(* the preambles comes from the satellite's one answer, and that a success *)
(* was answered from where the two threads are when the response is put    *)
(* out.  And for every response, however long and wherever its backoff     *)
(* subheaders stand, that its reader finds the grant that was written: the *)
(* loop of handle_rar has, after each turn, passed the bytes of as many    *)
(* subPDUs, and the bytes of a payload are the fields taken apart.         *)
(*                                                                         *)
(* AirReceive, for all datagrams, however many frames they have and        *)
(* however long their parts are: no part is handled twice or passed over,  *)
(* which rests on how the offsets of frames and parts climb, and on where  *)
(* the three loops can be between them.                                    *)
(*                                                                         *)
(* UserTopology, for every grid of beams and every place in the area: the  *)
(* wave of a user is the one whose cell he stands in, and it has its rows. *)
(***************************************************************************)
EXTENDS RandomAccess, AirReceive, UserTopology, FiniteSetTheorems,
        WellFoundedInduction, TLAPS

-----------------------------------------------------------------------------
(* Numbers and loops *)

(* The order of the natural numbers as a relation. *)
LessThan == {p \in Nat \X Nat : p[1] < p[2]}

(* A set of natural numbers has a least one. *)
LEMMA Least ==
  ASSUME NEW Q, Q \subseteq Nat, Q # {}
  PROVE  \E m \in Q : \A k \in Q : m <= k
<1>1. IsWellFoundedOn(LessThan, Nat)
  BY NatLessThanWellFounded DEF OpToRel, LessThan
<1>2. \E m \in Q : \A k \in Q : ~ (<<k, m>> \in LessThan)
  BY <1>1, WFMin
<1>3. \A k, m \in Nat : k < m => <<k, m>> \in LessThan
  BY DEF LessThan
<1>4. PICK m \in Q : \A k \in Q : ~ (<<k, m>> \in LessThan)
  BY <1>2
<1>5. \A k \in Q : ~(k < m)
  BY <1>3, <1>4
<1>6. \A k \in Q : m <= k
  BY <1>5
<1> QED
  BY <1>6

(* What holds of 0 and passes from each number below b to the next holds of
   all numbers up to b. *)
LEMMA UpTo ==
  ASSUME NEW b \in Nat, NEW S, 0 \in S, \A n \in 0 .. b - 1 : n \in S => n + 1 \in S
  PROVE  0 .. b \subseteq S
<1>1. SUFFICES ASSUME ~(0 .. b \subseteq S) PROVE FALSE
  OBVIOUS
<1> DEFINE Q == (0 .. b) \ S
<1>2. Q \subseteq Nat /\ Q # {}
  BY <1>1
<1>3. PICK m \in Q : \A k \in Q : m <= k
  BY <1>2, Least
<1>4. m # 0 /\ m - 1 \in 0 .. b - 1 /\ m - 1 \notin Q
  BY <1>3
<1> QED
  BY <1>3, <1>4

(* Quotient and remainder by a variable divisor. *)
LEMMA Division ==
  ASSUME NEW a \in Int, NEW d \in Nat \ {0}
  PROVE  /\ a \div d \in Int /\ a % d \in 0 .. d - 1
         /\ a = d * (a \div d) + (a % d)
  OBVIOUS

(* There is one quotient and one remainder. *)
LEMMA DivisionUnique ==
  ASSUME NEW d \in Nat \ {0}, NEW q \in Int, NEW p \in Int,
         NEW r \in 0 .. d - 1, NEW s \in 0 .. d - 1, d * q + r = d * p + s
  PROVE  q = p /\ r = s
<1>1. ASSUME q + 1 <= p PROVE FALSE
  <2>1. d * (q + 1) <= d * p
    BY <1>1
  <2> QED
    BY <2>1
<1>2. ASSUME p + 1 <= q PROVE FALSE
  <2>1. d * (p + 1) <= d * q
    BY <1>2
  <2> QED
    BY <2>1
<1>3. q = p
  BY <1>1, <1>2
<1> QED
  BY <1>3

(* Quotient and remainder of a number that is written as one and the other. *)
LEMMA Quotient ==
  ASSUME NEW d \in Nat \ {0}, NEW q \in Int, NEW r \in 0 .. d - 1
  PROVE  (d * q + r) \div d = q /\ (d * q + r) % d = r
<1> DEFINE a == d * q + r
<1>1. a \in Int
  OBVIOUS
<1> HIDE DEF a
<1>2. a \div d \in Int /\ a % d \in 0 .. d - 1 /\ a = d * (a \div d) + (a % d)
  BY <1>1, Division
<1>3. d * (a \div d) + (a % d) = d * q + r
  BY <1>2 DEF a
<1>4. a \div d = q /\ a % d = r
  BY <1>2, <1>3, DivisionUnique
<1> QED
  BY <1>4 DEF a

(* A loop of n turns from start, whose turn k takes x to step[k][x]. *)
Goes(g, n, start, step) == g[0] = start /\ \A k \in 1 .. n : g[k] = step[k][g[k - 1]]

StaysIn(X, n, step) == \A k \in 1 .. n, x \in X : step[k][x] \in X

(* A loop whose turns stay in a set, unrolled: it goes from turn to turn. *)
LEMMA Unroll ==
  ASSUME NEW X, NEW n \in Nat, NEW start \in X, NEW step, StaysIn(X, n, step)
  PROVE  \E g : g \in [0 .. n -> X] /\ Goes(g, n, start, step)
<1> DEFINE S == {m \in 0 .. n : \E g \in [0 .. m -> X] : Goes(g, m, start, step)}
<1>1. 0 \in S
  <2> DEFINE g == [k \in 0 .. 0 |-> start]
  <2>1. g \in [0 .. 0 -> X] /\ Goes(g, 0, start, step)
    BY DEF Goes
  <2> HIDE DEF g
  <2>2. 0 \in 0 .. n
    OBVIOUS
  <2> QED
    BY <2>1, <2>2
<1>2. ASSUME NEW m \in 0 .. n - 1, m \in S PROVE m + 1 \in S
  <2>1. PICK g \in [0 .. m -> X] : Goes(g, m, start, step)
    BY <1>2
  <2>2. /\ m \in Nat /\ m + 1 \in 1 .. n /\ m \in 0 .. m /\ m + 1 \notin 0 .. m
        /\ m + 1 \in 0 .. n
    OBVIOUS
  <2>3. step[m + 1][g[m]] \in X
    BY <2>2 DEF StaysIn
  <2> DEFINE h == [k \in 0 .. m + 1 |-> IF k \in 0 .. m THEN g[k] ELSE step[m + 1][g[m]]]
  <2>4. h \in [0 .. m + 1 -> X]
    BY <2>3
  <2>5. \A k \in 0 .. m : h[k] = g[k]
    OBVIOUS
  <2>6. h[m + 1] = step[m + 1][g[m]]
    BY <2>2
  <2> HIDE DEF h
  <2>7. h[0] = start
    BY <2>1, <2>5 DEF Goes
  <2>8. ASSUME NEW k \in 1 .. m + 1 PROVE h[k] = step[k][h[k - 1]]
    <3>1. CASE k = m + 1
      BY <2>2, <2>5, <2>6, <3>1
    <3>2. CASE k # m + 1
      <4>1. k \in 1 .. m /\ k \in 0 .. m /\ k - 1 \in 0 .. m
        BY <3>2
      <4> QED
        BY <2>1, <2>5, <4>1 DEF Goes
    <3> QED
      BY <3>1, <3>2
  <2>9. Goes(h, m + 1, start, step)
    BY <2>7, <2>8 DEF Goes
  <2> QED
    BY <2>2, <2>4, <2>9
<1>3. 0 .. n \subseteq S
  <2> HIDE DEF S
  <2> QED
    BY <1>1, <1>2, UpTo
<1>4. n \in S
  BY <1>3
<1> QED
  BY <1>4

-----------------------------------------------------------------------------
(* Random access *)

Typed ==
  /\ sent \in Nat /\ spurious \in Nat
  /\ ue \in {"start", "send", "signal", "wait", "woken", "judge", "done"}
  /\ leo \in {"start", "wait", "woken", "done"}
  /\ ra_state \in {"RA_UE_IDLE", "msg1_trans", "receive_rar", "RA_SUCCEESED"}
  /\ mac_rar_rec \in Response
  /\ mac_rar_ctx \in {"empty", "answer"}
  /\ late \in BOOLEAN
  /\ prachResources \subseteq Nat \ {0}

(* The wake-ups so far: the satellite's one and those that nobody sent. *)
WakeUps == spurious + (IF leo = "done" THEN 1 ELSE 0)

(* Every preamble but the first follows a wake-up. *)
Bounded ==
  /\ counter = 0
  /\ ue = "start" => sent = 0
  /\ ue \in {"send", "woken", "judge"} => sent <= WakeUps
  /\ ue \in {"signal", "wait", "done"} => sent <= 1 + WakeUps

(* A UE that waits for a response has a preamble in the air; nobody but the
   satellite wakes it if no wake-up comes from nowhere; and the satellite is
   only woken by its signal. *)
Answered ==
  /\ prachResources # {} => sent > 0
  /\ mac_rar_rec = "answer" => mac_rar_ctx = "answer"
  /\ mac_rar_ctx = "answer" => sent > 0
  /\ ra_state = "RA_SUCCEESED" => ue = "done"
  /\ ra_state = "receive_rar" => ue # "start" /\ prachResources # {}
  /\ leo = "woken" /\ spurious = 0 => ue = "wait"
  /\ (spurious = 0 /\ ue \in {"woken", "judge"} /\ ra_state = "receive_rar")
       => mac_rar_ctx = "answer"
  /\ (spurious = 0 /\ ue = "judge" /\ ~late /\ ra_state = "receive_rar")
       => mac_rar_rec = "answer"

IInv == Typed /\ Bounded /\ Answered /\ SuccessIsAnswered

(* The occasions that the UE may choose are numbers. *)
LEMMA TargetsAreNumbers == TargetOccasions \subseteq Nat
<1> SUFFICES ASSUME NEW ssb \in 0 .. SSB_num - 1, NEW r \in 0 .. OccasionsPerSSB - 1
             PROVE  ssb * OccasionsPerSSB + r \in Nat
  BY DEF TargetOccasions
<1>1. ssb \in Nat /\ r \in Nat /\ OccasionsPerSSB \in Nat
  BY RandomAccessAssumption
<1>2. ssb * OccasionsPerSSB \in Nat
  BY <1>1
<1> QED
  BY <1>1, <1>2

(* The search for a preamble finds one if and only if one is there. *)
LEMMA DetectsOccupied ==
  ASSUME Typed
  PROVE  detectPrach <=> prachResources # {}
  BY DEF detectPrach, Typed

(* Nothing was sent and nobody waits in the beginning. *)
LEMMA InitInvariant == Init => IInv
<1> SUFFICES ASSUME Init PROVE IInv
  OBVIOUS
<1>1. Typed
  BY DEF Init, Typed, Response
<1>2. Bounded
  BY DEF Init, Bounded, WakeUps
<1>3. Answered
  BY DEF Init, Answered
<1>4. SuccessIsAnswered
  BY DEF Init, SuccessIsAnswered
<1> QED
  BY <1>1, <1>2, <1>3, <1>4 DEF IInv

(* A response that was not found is not counted. *)
LEMMA NoMiss == Misses = 0
  BY DEF Misses

(***************************************************************************)
(* The steps of the UE.  Begin: everything is as in the beginning of the   *)
(* thread.                                                                 *)
(***************************************************************************)
LEMMA BeginStep == IInv /\ Begin => IInv'
<1> SUFFICES ASSUME IInv, Begin PROVE IInv'
  OBVIOUS
<1> USE DEF IInv, Begin
<1>1. Typed'
  BY DEF Typed
<1>2. Bounded'
  BY DEF Bounded, WakeUps, Typed
<1>3. Answered'
  BY DEF Answered, Typed
<1>4. SuccessIsAnswered'
  BY DEF SuccessIsAnswered
<1> QED
  BY <1>1, <1>2, <1>3, <1>4

(* A preamble is sent only from "send", whose bound is one less. *)
LEMMA TransmitStep == IInv /\ Transmit => IInv'
<1> SUFFICES ASSUME IInv, Transmit PROVE IInv'
  OBVIOUS
<1>1. ue = "send" /\ ue' = "signal"
  BY DEF Transmit
<1>2. PICK target \in TargetOccasions :
        IF target = 0
        THEN ra_state' = "msg1_trans" /\ UNCHANGED <<prachResources, ra_rnti, sent>>
        ELSE /\ prachResources' = prachResources \cup {target}
             /\ sent' = sent + 1 /\ ra_state' = "receive_rar"
  BY DEF Transmit
<1>3. target \in Nat
  BY TargetsAreNumbers
<1>4. UNCHANGED <<counter, mac_rar_rec, leo, mac_rar_ctx, late, spurious>>
  BY DEF Transmit
<1> USE DEF IInv
<1>5. Typed'
  <2>1. prachResources' \subseteq Nat \ {0}
    BY <1>2, <1>3 DEF Typed
  <2>2. sent' \in Nat /\ ra_state' \in {"msg1_trans", "receive_rar"}
    BY <1>2 DEF Typed
  <2> QED
    BY <1>1, <1>4, <2>1, <2>2 DEF Typed
<1>6. Bounded'
  BY <1>1, <1>2, <1>4 DEF Bounded, WakeUps, Typed
<1>7. Answered'
  BY <1>1, <1>2, <1>4 DEF Answered, Typed
<1>8. SuccessIsAnswered'
  BY <1>1, <1>2, <1>4 DEF SuccessIsAnswered, Answered, Typed
<1> QED
  BY <1>5, <1>6, <1>7, <1>8

(* The signal reaches a satellite that waits, and the UE waits then. *)
LEMMA SignalStep == IInv /\ Signal => IInv'
<1> SUFFICES ASSUME IInv, Signal PROVE IInv'
  OBVIOUS
<1> USE DEF IInv, Signal
<1>1. Typed'
  BY DEF Typed
<1>2. Bounded'
  BY DEF Bounded, WakeUps, Typed
<1>3. Answered'
  BY DEF Answered, Typed
<1>4. SuccessIsAnswered'
  BY DEF SuccessIsAnswered
<1> QED
  BY <1>1, <1>2, <1>3, <1>4

(* Inside the window the response held is what the satellite has put out. *)
LEMMA ReceiveStep == IInv /\ Receive => IInv'
<1> SUFFICES ASSUME IInv, Receive PROVE IInv'
  OBVIOUS
<1> USE DEF IInv, Receive
<1>1. Typed'
  BY DEF Typed, Response
<1>2. Bounded'
  BY DEF Bounded, WakeUps, Typed
<1>3. Answered'
  BY DEF Answered, Typed
<1>4. SuccessIsAnswered'
  BY DEF SuccessIsAnswered, Answered, Typed
<1> QED
  BY <1>1, <1>2, <1>3, <1>4

(* The judgement counts no miss, and a success found in memory that nobody
   wrote had no response to hold. *)
LEMMA JudgeStep == IInv /\ Judge => IInv'
<1> SUFFICES ASSUME IInv, Judge PROVE IInv'
  OBVIOUS
<1>1. /\ ue = "judge" /\ ue' \in {"done", "send"}
      /\ ra_state' = "RA_SUCCEESED" => ue' = "done"
      /\ ra_state' \in {ra_state, "RA_SUCCEESED"}
      /\ ra_state' # ra_state => ra_state = "receive_rar"
      /\ counter' = counter
  BY NoMiss DEF Judge, IInv, Bounded
<1>2. UNCHANGED <<mac_rar_rec, leo, mac_rar_ctx, prachResources, sent, late, spurious>>
  BY DEF Judge
<1> USE DEF IInv
<1>3. Typed'
  BY <1>1, <1>2 DEF Typed
<1>4. Bounded'
  BY <1>1, <1>2 DEF Bounded, WakeUps, Typed
<1>5. Answered'
  BY <1>1, <1>2 DEF Answered, Typed
<1>6. SuccessIsAnswered'
  BY <1>1, <1>2 DEF SuccessIsAnswered, Answered, Typed, Response
<1> QED
  BY <1>3, <1>4, <1>5, <1>6

(* The satellite answers once, and its answer is the one wake-up counted. *)
LEMMA SatelliteStep == IInv /\ LEO => IInv'
<1> SUFFICES ASSUME IInv, LEO PROVE IInv'
  OBVIOUS
<1>1. CASE Listen
  <2> USE <1>1 DEF IInv, Listen
  <2>1. Typed'
    BY DEF Typed
  <2>2. Bounded'
    BY DEF Bounded, WakeUps, Typed
  <2>3. Answered'
    BY DEF Answered, Typed
  <2>4. SuccessIsAnswered'
    BY DEF SuccessIsAnswered
  <2> QED
    BY <2>1, <2>2, <2>3, <2>4
<1>2. CASE Answer
  <2> USE <1>2 DEF IInv, Answer
  <2>1. Typed'
    BY DEF Typed
  <2>2. Bounded'
    BY DEF Bounded, WakeUps, Typed
  <2>3. Answered'
    BY DetectsOccupied DEF Answered, Typed
  <2>4. SuccessIsAnswered'
    BY DetectsOccupied DEF SuccessIsAnswered, Answered, Typed
  <2> QED
    BY <2>1, <2>2, <2>3, <2>4
<1> QED
  BY <1>1, <1>2 DEF LEO

(* A wake-up that nobody sent is counted. *)
LEMMA WakeUpStep == IInv /\ WakeUp => IInv'
<1> SUFFICES ASSUME IInv, WakeUp PROVE IInv'
  OBVIOUS
<1> USE DEF IInv, WakeUp
<1>1. Typed'
  BY DEF Typed
<1>2. Bounded'
  BY DEF Bounded, WakeUps, Typed
<1>3. Answered'
  BY DEF Answered, Typed
<1>4. SuccessIsAnswered'
  BY DEF SuccessIsAnswered, Typed
<1> QED
  BY <1>1, <1>2, <1>3, <1>4

(* Every step keeps the invariant. *)
LEMMA StepInvariant == IInv /\ [Next]_vars => IInv'
<1> SUFFICES ASSUME IInv, [Next]_vars PROVE IInv'
  OBVIOUS
<1>1. CASE UE
  BY <1>1, BeginStep, TransmitStep, SignalStep, ReceiveStep, JudgeStep DEF UE
<1>2. CASE LEO
  BY <1>2, SatelliteStep
<1>3. CASE WakeUp
  BY <1>3, WakeUpStep
<1>4. CASE UNCHANGED vars
  BY <1>4 DEF vars, IInv, Typed, Bounded, WakeUps, Answered, SuccessIsAnswered
<1> QED
  BY <1>1, <1>2, <1>3, <1>4 DEF Next

(***************************************************************************)
(* However large the limit of the counter is, it never moves, and at most  *)
(* two preambles are sent, and one more for each wake-up that nobody sent. *)
(***************************************************************************)
THEOREM PreamblesAreBounded == Spec => []AtMostTwoPreambles
<1>1. IInv => AtMostTwoPreambles
  BY DEF IInv, Typed, Bounded, WakeUps, AtMostTwoPreambles
<1> QED
  BY <1>1, InitInvariant, StepInvariant, PTL DEF Spec

(***************************************************************************)
(* A response is put out only for a preamble, and a success that no        *)
(* response stands behind needs a wake-up that nobody sent or a window     *)
(* that had ended.                                                         *)
(***************************************************************************)
THEOREM SuccessesAreAnswered == Spec => []SuccessIsAnswered
<1>1. IInv => SuccessIsAnswered
  BY DEF IInv
<1> QED
  BY <1>1, InitInvariant, StepInvariant, PTL DEF Spec

-----------------------------------------------------------------------------
(* The random access response *)

(* A frequency allocation is 2, 8 and 4 bits, which go into three bytes. *)
Allocation(high, middle, low) == 2^12 * high + 2^4 * middle + low

LEMMA AllocationBits ==
  ASSUME NEW f_alloc \in Bits(14)
  PROVE  \E high \in 0 .. 3, middle \in 0 .. 255, low \in 0 .. 15 :
           f_alloc = Allocation(high, middle, low)
<1> DEFINE f == f_alloc \div 16
           low == f_alloc % 16
           high == f \div 256
           middle == f % 256
<1>1. f_alloc \in Nat /\ f_alloc < 2^14
  BY DEF Bits
<1>2. f \in Int /\ low \in 0 .. 15 /\ f_alloc = 16 * f + low
  BY <1>1
<1> HIDE DEF f, low
<1>3. high \in Int /\ middle \in 0 .. 255 /\ f = 256 * high + middle
  BY <1>2
<1> HIDE DEF high, middle
<1>4. f \in Nat /\ f < 2^10
  BY <1>1, <1>2
<1>5. high \in 0 .. 3
  BY <1>3, <1>4
<1>6. f_alloc = Allocation(high, middle, low)
  BY <1>2, <1>3 DEF Allocation
<1> QED
  BY <1>2, <1>3, <1>5, <1>6

(* The four bytes that the grant word goes into. *)
InBytes(grant, mcs, tda, hopping, high, middle, low) ==
  /\ (grant \div 2^24) % 8 = 4 * hopping + high
  /\ (grant \div 2^16) % 256 = middle
  /\ (grant \div 2^8) % 256 = 16 * low + tda
  /\ grant % 256 = 16 * mcs + 6

LEMMA GrantBytes ==
  ASSUME NEW mcs \in 0 .. 15, NEW tda \in 0 .. 15, NEW hopping \in 0 .. 1,
         NEW high \in 0 .. 3, NEW middle \in 0 .. 255, NEW low \in 0 .. 15
  PROVE  InBytes(GrantWord(mcs, tda, Allocation(high, middle, low), hopping),
                 mcs, tda, hopping, high, middle, low)
<1> DEFINE grant == GrantWord(mcs, tda, Allocation(high, middle, low), hopping)
           w3 == 4 * hopping + high
           w2 == 256 * w3 + middle
           w1 == 256 * w2 + (16 * low + tda)
           w0 == 256 * w1 + (16 * mcs + 6)
<1>1. grant = w0
  BY DEF GrantWord, Allocation
<1>2. /\ w0 = 2^8 * w1 + (16 * mcs + 6)
      /\ w0 = 2^16 * w2 + (2^8 * (16 * low + tda) + 16 * mcs + 6)
      /\ w0 = 2^24 * w3 + (2^16 * middle + 2^8 * (16 * low + tda) + 16 * mcs + 6)
  OBVIOUS
<1>3. /\ 16 * mcs + 6 \in 0 .. 2^8 - 1
      /\ 2^8 * (16 * low + tda) + 16 * mcs + 6 \in 0 .. 2^16 - 1
      /\ 2^16 * middle + 2^8 * (16 * low + tda) + 16 * mcs + 6 \in 0 .. 2^24 - 1
      /\ 16 * low + tda \in 0 .. 255
      /\ w3 \in 0 .. 7
  OBVIOUS
<1>4. w1 \in Int /\ w2 \in Int /\ w3 \in Int
  OBVIOUS
<1>5. /\ 2^8 \in Nat \ {0} /\ 2^16 \in Nat \ {0} /\ 2^24 \in Nat \ {0}
      /\ 2^8 = 256
  OBVIOUS
<1>6. w0 \div 2^8 = w1 /\ w0 % 2^8 = 16 * mcs + 6
  <2> HIDE DEF w0, w1
  <2> QED
    BY <1>2, <1>3, <1>4, <1>5, Quotient
<1>7. w0 \div 2^16 = w2
  <2> DEFINE rest == 2^8 * (16 * low + tda) + 16 * mcs + 6
  <2>1. w0 = 2^16 * w2 + rest /\ rest \in 0 .. 2^16 - 1
    BY <1>2, <1>3
  <2> HIDE DEF w0, w2, rest
  <2> QED
    BY <1>4, <1>5, <2>1, Quotient
<1>8. w0 \div 2^24 = w3
  <2> DEFINE rest == 2^16 * middle + 2^8 * (16 * low + tda) + 16 * mcs + 6
  <2>1. w0 = 2^24 * w3 + rest /\ rest \in 0 .. 2^24 - 1
    BY <1>2, <1>3
  <2> HIDE DEF w0, w3, rest
  <2> QED
    BY <1>4, <1>5, <2>1, Quotient
<1>9. w1 % 256 = 16 * low + tda
  <2> HIDE DEF w2
  <2> QED
    BY <1>3, <1>4, Quotient
<1>10. w2 % 256 = middle
  <2> HIDE DEF w3
  <2> QED
    BY <1>4, Quotient
<1>11. w3 % 8 = w3
  <2>1. w3 = 8 * 0 + w3
    OBVIOUS
  <2> HIDE DEF w3
  <2> QED
    BY <1>3
<1> HIDE DEF grant, w0, w1, w2
<1> QED
  BY <1>1, <1>5, <1>6, <1>7, <1>8, <1>9, <1>10, <1>11 DEF grant, InBytes

(* A timing advance is 7 and 5 bits, which go into two bytes. *)
LEMMA AdvanceBits ==
  ASSUME NEW ta \in Bits(12)
  PROVE  ta \div 32 \in 0 .. 127 /\ ta % 32 \in 0 .. 31 /\ ta = 32 * (ta \div 32) + (ta % 32)
<1>1. ta \in Nat /\ ta < 2^12
  BY DEF Bits
<1> QED
  BY <1>1

(* The fields that Grant takes out of the bytes. *)
LEMMA TakeHopping ==
  ASSUME NEW byte, NEW tr \in 0 .. 31, NEW hopping \in 0 .. 1, NEW high \in 0 .. 3,
         byte = 8 * tr + (4 * hopping + high)
  PROVE  byte \div 8 = tr /\ byte % 4 = high /\ (byte % 8) \div 4 = hopping
<1>1. tr \in Int /\ 4 * hopping + high \in 0 .. 7
  OBVIOUS
<1>2. byte \div 8 = tr /\ byte % 8 = 4 * hopping + high
  BY <1>1, Quotient
<1>3. (byte % 8) \div 4 = hopping
  BY <1>2, Quotient
<1>4. byte % 4 = high
  <2>1. byte = 4 * (2 * tr + hopping) + high /\ 2 * tr + hopping \in Int
    OBVIOUS
  <2> QED
    BY <2>1, Quotient
<1> QED
  BY <1>2, <1>3, <1>4

LEMMA TakeTimes ==
  ASSUME NEW byte, NEW low \in 0 .. 15, NEW tda \in 0 .. 15, byte = 16 * low + tda
  PROVE  byte \div 16 = low /\ byte % 16 = tda
  BY Quotient

LEMMA TakeMcs ==
  ASSUME NEW byte, NEW mcs \in 0 .. 15, byte = 16 * mcs + 6
  PROVE  byte % 2 = 0 /\ (byte \div 2) % 8 = 3 /\ byte \div 16 = mcs
<1>1. byte \div 16 = mcs
  BY Quotient
<1>2. byte % 2 = 0 /\ byte \div 2 = 8 * mcs + 3
  <2>1. byte = 2 * (8 * mcs + 3) + 0 /\ 8 * mcs + 3 \in Int
    OBVIOUS
  <2> QED
    BY <2>1, Quotient
<1>3. (byte \div 2) % 8 = 3
  BY <1>2, Quotient
<1> QED
  BY <1>1, <1>2, <1>3

LEMMA SubPDUFields ==
  ASSUME NEW x \in SubPDU
  PROVE  /\ x.preamble \in 0 .. Backoff /\ x.ta \in Bits(12)
         /\ x.mcs \in 0 .. 15 /\ x.tda \in 0 .. 15
         /\ x.f_alloc \in Bits(14) /\ x.hopping \in 0 .. 1 /\ x.rnti \in Bits(16)
<1>1. /\ x.preamble \in 0 .. Backoff /\ x.ta \in Bits(12)
      /\ x.mcs \in Bits(4) /\ x.tda \in Bits(4)
      /\ x.f_alloc \in Bits(14) /\ x.hopping \in Bits(1) /\ x.rnti \in Bits(16)
  BY DEF SubPDU
<1>2. Bits(4) = 0 .. 15 /\ Bits(1) = 0 .. 1
  BY DEF Bits
<1> QED
  BY <1>1, <1>2

(* What the bytes of a payload say is what they were written with. *)
RarOf(x) == Rar(x.ta, GrantWord(x.mcs, x.tda, x.f_alloc, x.hopping), x.rnti)

HoldsRar(buffer, rar, x) == \A q \in 0 .. 6 : buffer[rar + q + 1] = RarOf(x)[q + 1]

LEMMA GrantReadsBack ==
  ASSUME NEW x \in SubPDU, NEW buffer, NEW rar, HoldsRar(buffer, rar, x)
  PROVE  Grant(buffer, rar) = GrantOf(x)
<1> DEFINE byte(q) == buffer[rar + q + 1]
           grant == GrantWord(x.mcs, x.tda, x.f_alloc, x.hopping)
           tq == x.ta \div 32
           tr == x.ta % 32
<1>1. /\ x.ta \in Bits(12) /\ x.mcs \in 0 .. 15 /\ x.tda \in 0 .. 15
      /\ x.f_alloc \in Bits(14) /\ x.hopping \in 0 .. 1
  BY SubPDUFields, Zenon
<1>2. PICK high \in 0 .. 3, middle \in 0 .. 255, low \in 0 .. 15 :
             x.f_alloc = Allocation(high, middle, low)
  BY <1>1, AllocationBits, Zenon
<1>3. /\ (grant \div 2^24) % 8 = 4 * x.hopping + high
      /\ (grant \div 2^16) % 256 = middle
      /\ (grant \div 2^8) % 256 = 16 * low + x.tda
      /\ grant % 256 = 16 * x.mcs + 6
  <2>1. grant = GrantWord(x.mcs, x.tda, Allocation(high, middle, low), x.hopping)
    BY <1>2
  <2>2. InBytes(GrantWord(x.mcs, x.tda, Allocation(high, middle, low), x.hopping),
                x.mcs, x.tda, x.hopping, high, middle, low)
    BY <1>1, GrantBytes, Zenon
  <2> HIDE DEF grant
  <2> QED
    BY <2>1, <2>2 DEF InBytes
<1>4. /\ byte(0) = tq
      /\ byte(1) = (tr * 8) + ((grant \div 2^24) % 8)
      /\ byte(2) = (grant \div 2^16) % 256
      /\ byte(3) = (grant \div 2^8) % 256
      /\ byte(4) = grant % 256
  <2>1. RarOf(x) = Rar(x.ta, grant, x.rnti)
    BY DEF RarOf
  <2> HIDE DEF grant
  <2>2. /\ Rar(x.ta, grant, x.rnti)[1] = tq
        /\ Rar(x.ta, grant, x.rnti)[2] = (tr * 8) + ((grant \div 2^24) % 8)
        /\ Rar(x.ta, grant, x.rnti)[3] = (grant \div 2^16) % 256
        /\ Rar(x.ta, grant, x.rnti)[4] = (grant \div 2^8) % 256
        /\ Rar(x.ta, grant, x.rnti)[5] = grant % 256
    BY DEF Rar
  <2> HIDE DEF tq, tr
  <2>3. \A q \in 0 .. 6 : byte(q) = RarOf(x)[q + 1]
    BY DEF HoldsRar
  <2> HIDE DEF byte
  <2> QED
    BY <2>1, <2>2, <2>3
<1>5. tq \in 0 .. 127 /\ tr \in 0 .. 31 /\ x.ta = 32 * tq + tr
  BY <1>1, AdvanceBits, Zenon
<1> HIDE DEF grant, tq, tr, byte
<1>6. byte(0) = tq /\ byte(0) % 128 = tq
  BY <1>4, <1>5
<1>7. byte(1) \div 8 = tr /\ byte(1) % 4 = high /\ (byte(1) % 8) \div 4 = x.hopping
  <2>1. byte(1) = 8 * tr + (4 * x.hopping + high)
    BY <1>3, <1>4, <1>5
  <2> DEFINE b == byte(1)
             h == x.hopping
  <2>2. h \in 0 .. 1 /\ b = 8 * tr + (4 * h + high)
    BY <1>1, <2>1
  <2> HIDE DEF b, h
  <2>3. b \div 8 = tr /\ b % 4 = high /\ (b % 8) \div 4 = h
    BY <1>5, <2>2, TakeHopping
  <2> QED
    BY <2>3 DEF b, h
<1>8. /\ byte(3) \div 16 = low /\ byte(3) % 16 = x.tda
      /\ byte(4) % 2 = 0 /\ (byte(4) \div 2) % 8 = 3
      /\ byte(4) \div 16 = x.mcs
  <2>1. byte(3) = 16 * low + x.tda /\ byte(4) = 16 * x.mcs + 6
    BY <1>3, <1>4
  <2> QED
    BY <1>1, <2>1, TakeTimes, TakeMcs
<1>9. Grant(buffer, rar) =
        [ta           |-> (byte(1) \div 8) + ((byte(0) % 128) * 32),
         csi_req      |-> byte(4) % 2,
         Msg3_TPC     |-> (2 * ((byte(4) \div 2) % 8) - 6) % 256,
         mcs          |-> byte(4) \div 16,
         Msg3_t_alloc |-> byte(3) % 16,
         Msg3_f_alloc |-> (byte(3) \div 16) + (byte(2) * 16) + ((byte(1) % 4) * 4096),
         freq_hopping |-> (byte(1) % 8) \div 4]
  BY DEF Grant, byte
<1>10. (2 * ((byte(4) \div 2) % 8) - 6) % 256 = 0
  BY <1>8
<1>11. (byte(1) \div 8) + ((byte(0) % 128) * 32) = x.ta
  BY <1>5, <1>6, <1>7
<1>12. (byte(3) \div 16) + (byte(2) * 16) + ((byte(1) % 4) * 4096) = x.f_alloc
  <2>1. x.f_alloc = 4096 * high + 16 * middle + low
    BY <1>2 DEF Allocation
  <2> QED
    BY <1>3, <1>4, <1>7, <1>8, <2>1
<1> QED
  BY <1>7, <1>8, <1>9, <1>10, <1>11, <1>12 DEF GrantOf

-----------------------------------------------------------------------------
(* What is written *)

(* The sequence d is b and then c. *)
Joined(b, c, d) ==
  /\ d \in Seq(Nat) /\ Len(d) = Len(b) + Len(c)
  /\ \A q \in 1 .. Len(b) : d[q] = b[q]
  /\ \A q \in 1 .. Len(c) : d[Len(b) + q] = c[q]

LEMMA Concatenated ==
  ASSUME NEW b \in Seq(Nat), NEW c \in Seq(Nat)
  PROVE  Joined(b, c, b \o c)
  BY DEF Joined

LEMMA SubPDUIsBytes ==
  ASSUME NEW x \in SubPDU, NEW e \in 0 .. 1
  PROVE  /\ SubPDUBytes(x, e) \in Seq(Nat)
         /\ x.preamble = Backoff =>
              Len(SubPDUBytes(x, e)) = 1 /\ SubPDUBytes(x, e)[1] = 128 * e
         /\ x.preamble # Backoff =>
              /\ Len(SubPDUBytes(x, e)) = 8
              /\ SubPDUBytes(x, e)[1] = 128 * e + 64 + x.preamble
              /\ HoldsRar(SubPDUBytes(x, e), 1, x)
<1>1. CASE x.preamble = Backoff
  <2>1. SubPDUBytes(x, e) = << 128 * e >>
    BY <1>1 DEF SubPDUBytes, BIHeader
  <2>2. 128 * e \in Nat
    OBVIOUS
  <2> QED
    BY <1>1, <2>1, <2>2
<1>2. CASE x.preamble # Backoff
  <2> DEFINE head == 128 * e + 64 + x.preamble
             grant == GrantWord(x.mcs, x.tda, x.f_alloc, x.hopping)
  <2>1. x.preamble \in Nat
    BY SubPDUFields DEF Backoff
  <2>2. x.ta \in Nat /\ x.rnti \in Nat /\ x.f_alloc \in Nat
    <3>1. Bits(12) \subseteq Nat /\ Bits(16) \subseteq Nat /\ Bits(14) \subseteq Nat
      BY DEF Bits
    <3> QED
      BY <3>1, SubPDUFields
  <2>3. grant \in Nat
    <3>1. x.mcs \in Nat /\ x.tda \in Nat /\ x.hopping \in Nat
      BY SubPDUFields
    <3> QED
      BY <2>2, <3>1 DEF GrantWord
  <2>4. head \in Nat
    BY <2>1
  <2>5. RarOf(x) = Rar(x.ta, grant, x.rnti)
    BY DEF RarOf
  <2> HIDE DEF grant
  <2>6. RarOf(x) \in Seq(Nat) /\ Len(RarOf(x)) = 7
    <3>1. /\ x.ta \div 32 \in Nat /\ x.ta % 32 \in Nat
          /\ (grant \div 2^24) % 8 \in Nat /\ (grant \div 2^16) % 256 \in Nat
          /\ (grant \div 2^8) % 256 \in Nat /\ grant % 256 \in Nat
          /\ x.rnti \div 256 \in Nat /\ x.rnti % 256 \in Nat
      BY <2>2, <2>3
    <3>2. (x.ta % 32) * 8 + ((grant \div 2^24) % 8) \in Nat
      BY <3>1
    <3> QED
      BY <2>5, <3>1, <3>2 DEF Rar
  <2>7. SubPDUBytes(x, e) = << head >> \o RarOf(x)
    BY <1>2 DEF SubPDUBytes, RapidHeader, RarOf
  <2> HIDE DEF head
  <2>8. /\ << head >> \in Seq(Nat) /\ Len(<< head >>) = 1 /\ << head >>[1] = head
    BY <2>4
  <2>9. Joined(<< head >>, RarOf(x), SubPDUBytes(x, e))
    BY <2>6, <2>7, <2>8, Concatenated, Zenon
  <2>10. SubPDUBytes(x, e) \in Seq(Nat) /\ Len(SubPDUBytes(x, e)) = 8
    BY <2>6, <2>8, <2>9 DEF Joined
  <2>11. SubPDUBytes(x, e)[1] = head
    <3>1. 1 \in 1 .. Len(<< head >>)
      BY <2>8
    <3> QED
      BY <2>8, <2>9, <3>1, Zenon DEF Joined
  <2>12. \A q \in 1 .. 7 : SubPDUBytes(x, e)[1 + q] = RarOf(x)[q]
    BY <2>6, <2>8, <2>9, Zenon DEF Joined
  <2>13. ASSUME NEW q \in 0 .. 6 PROVE SubPDUBytes(x, e)[1 + q + 1] = RarOf(x)[q + 1]
    <3>1. q + 1 \in 1 .. 7 /\ 1 + q + 1 = 1 + (q + 1)
      OBVIOUS
    <3>2. SubPDUBytes(x, e)[1 + (q + 1)] = RarOf(x)[q + 1]
      BY <2>12, <3>1, Zenon
    <3> QED
      BY <3>1, <3>2, Zenon
  <2> QED
    BY <1>2, <2>10, <2>11, <2>13 DEF HoldsRar, head
<1> QED
  BY <1>1, <1>2

(* The subPDU p of a response, and what is written up to it. *)
PartOf(response, p) == SubPDUBytes(response[p], IF p = Len(response) THEN 0 ELSE 1)

WrittenUpTo(g, response) ==
  /\ g \in [0 .. Len(response) -> Seq(Nat)]
  /\ g[0] = <<>>
  /\ \A p \in 1 .. Len(response) : g[p] = g[p - 1] \o PartOf(response, p)

LEMMA PartIsBytes ==
  ASSUME NEW response \in Seq(SubPDU), NEW p \in 1 .. Len(response)
  PROVE  response[p] \in SubPDU /\ PartOf(response, p) \in Seq(Nat)
<1>1. response[p] \in SubPDU
  OBVIOUS
<1>2. (IF p = Len(response) THEN 0 ELSE 1) \in 0 .. 1
  OBVIOUS
<1> QED
  BY <1>1, <1>2, SubPDUIsBytes DEF PartOf

LEMMA WrittenPartByPart ==
  ASSUME NEW response \in Seq(SubPDU)
  PROVE  \E g : WrittenUpTo(g, response) /\ Written(response) = g[Len(response)]
<1> DEFINE n == Len(response)
           F(g) == [p \in 0 .. n |-> IF p = 0 THEN <<>> ELSE g[p - 1] \o PartOf(response, p)]
           t == CHOOSE g : g = F(g)
           X == Seq(Nat)
           step == [p \in 1 .. n |-> [b \in X |-> b \o PartOf(response, p)]]
<1>1. Written(response) = t[n]
  BY Zenon DEF Written, PartOf
<1>2. n \in Nat
  OBVIOUS
<1>3. \A p \in 1 .. n : PartOf(response, p) \in X
  BY PartIsBytes
<1>4. \A p \in 1 .. n, b \in X : step[p][b] = b \o PartOf(response, p)
  OBVIOUS
<1> HIDE DEF n
<1>5. StaysIn(X, n, step)
  <2>1. \A p \in 1 .. n, b \in X : b \o PartOf(response, p) \in X
    BY <1>3
  <2> QED
    BY <1>4, <2>1, Zenon DEF StaysIn
<1> HIDE DEF step
<1>6. <<>> \in X
  OBVIOUS
<1> HIDE DEF X
<1>7. PICK g \in [0 .. n -> X] : Goes(g, n, <<>>, step)
  BY <1>2, <1>5, <1>6, Unroll, Zenon
<1>8. \A p \in 1 .. n : g[p] = g[p - 1] \o PartOf(response, p)
  <2>1. \A p \in 1 .. n : p - 1 \in 0 .. n
    BY <1>2
  <2> QED
    BY <1>4, <1>7, <2>1 DEF Goes
<1>9. g[0] = <<>>
  BY <1>7 DEF Goes
<1>10. g = F(g)
  <2>1. \A p \in 0 .. n : p = 0 \/ p \in 1 .. n
    BY <1>2
  <2> QED
    BY <1>7, <1>8, <1>9, <2>1
<1>11. t = F(t)
  <2> HIDE DEF F
  <2> QED
    BY <1>10
<1> HIDE DEF t
<1>12. t \in [0 .. n -> X] /\ t[0] = <<>> /\ \A p \in 1 .. n : t[p] = t[p - 1] \o PartOf(response, p)
  <2>1. t[0] = <<>>
    BY <1>2, <1>11
  <2>2. ASSUME NEW p \in 1 .. n PROVE t[p] = t[p - 1] \o PartOf(response, p)
    <3>1. p \in 0 .. n /\ p # 0
      BY <1>2
    <3> QED
      BY <1>11, <3>1, Zenon
  <2>3. DOMAIN t = 0 .. n /\ t = [p \in 0 .. n |-> t[p]]
    BY <1>11
  <2> DEFINE S == {p \in 0 .. n : t[p] \in X}
  <2>4. 0 \in S
    BY <1>2, <1>6, <2>1
  <2>5. ASSUME NEW p \in 0 .. n - 1, p \in S PROVE p + 1 \in S
    <3>1. p + 1 \in 1 .. n /\ (p + 1) - 1 = p /\ p + 1 \in 0 .. n
      BY <1>2
    <3>2. t[p + 1] = t[p] \o PartOf(response, p + 1)
      BY <2>2, <3>1
    <3>3. t[p] \in Seq(Nat) /\ PartOf(response, p + 1) \in Seq(Nat)
      BY <1>3, <2>5, <3>1 DEF X
    <3>4. t[p + 1] \in X
      BY <3>2, <3>3, Concatenated DEF X, Joined
    <3> QED
      BY <3>1, <3>4
  <2> HIDE DEF S
  <2>6. 0 .. n \subseteq S
    BY <1>2, <2>4, <2>5, UpTo
  <2>7. \A p \in 0 .. n : t[p] \in X
    BY <2>6 DEF S
  <2> QED
    BY <2>1, <2>2, <2>3, <2>7
<1> QED
  BY <1>1, <1>12 DEF WrittenUpTo, n, X

(* The beginning of a buffer. *)
Begins(b, c) == Len(b) <= Len(c) /\ \A q \in 1 .. Len(b) : c[q] = b[q]

LEMMA JoinedBegins ==
  ASSUME NEW b \in Seq(Nat), NEW c \in Seq(Nat), NEW d, Joined(b, c, d)
  PROVE  Begins(b, d)
  BY DEF Joined, Begins

LEMMA PartsBegin ==
  ASSUME NEW response \in Seq(SubPDU), NEW g, WrittenUpTo(g, response),
         NEW p \in 0 .. Len(response)
  PROVE  Begins(g[p], g[Len(response)])
<1> DEFINE n == Len(response)
           S == {d \in 0 .. n - p : Begins(g[p], g[p + d])}
<1>1. n \in Nat /\ n - p \in Nat
  OBVIOUS
<1>2. \A r \in 0 .. n : g[r] \in Seq(Nat)
  BY DEF WrittenUpTo
<1>3. 0 \in S
  BY <1>1, <1>2 DEF Begins
<1>4. ASSUME NEW d \in 0 .. n - p - 1, d \in S PROVE d + 1 \in S
  <2>1. p + d + 1 \in 1 .. n /\ p + d \in 0 .. n /\ (p + d + 1) - 1 = p + d /\ d + 1 \in 0 .. n - p
    BY <1>1
  <2>2. g[p + d + 1] = g[p + d] \o PartOf(response, p + d + 1)
    BY <2>1 DEF WrittenUpTo
  <2>3. PartOf(response, p + d + 1) \in Seq(Nat)
    BY <2>1, PartIsBytes
  <2>4. Begins(g[p + d], g[p + d + 1])
    <3>1. g[p + d] \in Seq(Nat)
      BY <1>2, <2>1
    <3>2. Joined(g[p + d], PartOf(response, p + d + 1), g[p + d + 1])
      BY <2>2, <2>3, <3>1, Concatenated, Zenon
    <3> QED
      BY <2>3, <3>1, <3>2, JoinedBegins, Zenon
  <2>5. Begins(g[p], g[p + d])
    BY <1>4
  <2>6. Len(g[p]) \in Nat /\ Len(g[p + d]) \in Nat /\ Len(g[p + d + 1]) \in Nat
    BY <1>2, <2>1
  <2>7. Begins(g[p], g[p + d + 1])
    BY <2>4, <2>5, <2>6 DEF Begins
  <2>8. p + (d + 1) = p + d + 1
    BY <1>1
  <2> QED
    BY <2>1, <2>7, <2>8
<1>5. n - p \in S
  <2> HIDE DEF S
  <2>1. 0 .. n - p \subseteq S
    BY <1>1, <1>3, <1>4, UpTo
  <2> QED
    BY <1>1, <2>1
<1> QED
  BY <1>1, <1>5

(* The bytes of a subPDU stand behind those of the subPDUs before it. *)
LEMMA PartAtItsPlace ==
  ASSUME NEW response \in Seq(SubPDU), NEW g, WrittenUpTo(g, response),
         NEW p \in 1 .. Len(response)
  PROVE  /\ Len(g[p - 1]) \in Nat
         /\ Len(g[p]) = Len(g[p - 1]) + Len(PartOf(response, p))
         /\ Len(g[p]) <= Len(g[Len(response)])
         /\ \A q \in 1 .. Len(PartOf(response, p)) :
              g[Len(response)][Len(g[p - 1]) + q] = PartOf(response, p)[q]
<1> DEFINE part == PartOf(response, p)
           place == Len(g[p - 1])
<1>1. p - 1 \in 0 .. Len(response) /\ p \in 0 .. Len(response)
  OBVIOUS
<1>2. g[p - 1] \in Seq(Nat) /\ g[p] \in Seq(Nat) /\ part \in Seq(Nat)
  BY <1>1, PartIsBytes DEF WrittenUpTo
<1>3. g[p] = g[p - 1] \o part
  BY DEF WrittenUpTo
<1>4. Begins(g[p], g[Len(response)])
  BY <1>1, PartsBegin
<1> HIDE DEF part
<1>5. place \in Nat /\ Len(g[p]) = place + Len(part) /\ Len(part) \in Nat
  BY <1>2, <1>3
<1>6. \A q \in 1 .. Len(part) : g[p][place + q] = part[q] /\ place + q \in 1 .. Len(g[p])
  BY <1>2, <1>3, <1>5
<1> HIDE DEF place
<1>7. /\ Len(g[p]) <= Len(g[Len(response)])
      /\ \A q \in 1 .. Len(part) : g[Len(response)][place + q] = part[q]
  BY <1>4, <1>6 DEF Begins
<1> QED
  BY <1>5, <1>7 DEF part, place

-----------------------------------------------------------------------------
(* What is read *)

LEMMA HeaderBits ==
  ASSUME NEW e \in 0 .. 1
  PROVE  /\ E(128 * e) = e /\ T(128 * e) = 0
         /\ \A p \in 0 .. 63 : /\ E(128 * e + 64 + p) = e /\ T(128 * e + 64 + p) = 1
                               /\ RAPID(128 * e + 64 + p) = p
<1>1. E(128 * e) = e /\ T(128 * e) = 0
  BY DEF E, T
<1>2. ASSUME NEW p \in 0 .. 63
      PROVE  /\ E(128 * e + 64 + p) = e /\ T(128 * e + 64 + p) = 1
             /\ RAPID(128 * e + 64 + p) = p
  BY DEF E, T, RAPID
<1> QED
  BY <1>1, <1>2

RarStates == [more : BOOLEAN, n_subPDUs : Nat, found : BOOLEAN, rar : Nat]

RarStart == [more |-> TRUE, n_subPDUs |-> 0, found |-> FALSE, rar |-> 0]

LEMMA SubheaderIsState ==
  ASSUME NEW buffer \in Seq(Nat), NEW preamble, NEW s \in RarStates, NEW n \in Nat \ {0}
  PROVE  Subheader(s, n, buffer, preamble) \in RarStates
<1> DEFINE rar_header == (n - 1) + s.n_subPDUs * RAR_SIZE
           byte == buffer[rar_header + 1]
           here == T(byte) = 1 /\ RAPID(byte) = preamble
           next == [more      |-> E(byte) = 1,
                    n_subPDUs |-> s.n_subPDUs + T(byte),
                    found     |-> s.found \/ here,
                    rar       |-> IF here THEN n + s.n_subPDUs * RAR_SIZE ELSE s.rar]
<1>1. Subheader(s, n, buffer, preamble) =
        IF s.more /\ rar_header < Len(buffer) THEN next ELSE s
  BY DEF Subheader
<1>2. CASE s.more /\ rar_header < Len(buffer)
  <2>1. s.n_subPDUs \in Nat /\ s.found \in BOOLEAN /\ s.rar \in Nat
    BY DEF RarStates
  <2>2. rar_header \in Nat /\ n + s.n_subPDUs * RAR_SIZE \in Nat
    BY <2>1 DEF RAR_SIZE
  <2>3. byte \in Nat
    <3>1. rar_header + 1 \in 1 .. Len(buffer)
      BY <1>2, <2>2
    <3> HIDE DEF rar_header
    <3> QED
      BY <3>1
  <2> HIDE DEF rar_header
  <2> HIDE DEF byte
  <2>4. T(byte) \in Nat
    BY <2>3 DEF T
  <2>5. next.n_subPDUs \in Nat
    BY <2>1, <2>4
  <2> HIDE DEF here
  <2>6. (IF here THEN n + s.n_subPDUs * RAR_SIZE ELSE s.rar) \in Nat
    BY <2>1, <2>2
  <2>7. (E(byte) = 1) \in BOOLEAN /\ (s.found \/ here) \in BOOLEAN
    OBVIOUS
  <2>8. next \in RarStates
    BY <2>5, <2>6, <2>7 DEF RarStates
  <2> QED
    BY <1>1, <1>2, <2>8
<1>3. CASE ~(s.more /\ rar_header < Len(buffer))
  BY <1>1, <1>3
<1> QED
  BY <1>2, <1>3

(* The loop of handle_rar goes from turn to turn. *)
InTurns(t, buffer, preamble) ==
  /\ t[0] = RarStart
  /\ \A n \in 1 .. Len(buffer) : t[n] = Subheader(t[n - 1], n, buffer, preamble)

LEMMA HandledTurnByTurn ==
  ASSUME NEW buffer \in Seq(Nat), NEW preamble
  PROVE  \E t : InTurns(t, buffer, preamble)
                /\ handle_rar(buffer, preamble) = t[Len(buffer)]
<1> DEFINE last == Len(buffer)
           F(g) == [n \in 0 .. last |->
                      IF n = 0 THEN RarStart ELSE Subheader(g[n - 1], n, buffer, preamble)]
           t == CHOOSE g : g = F(g)
           step == [n \in 1 .. last |->
                      [s \in RarStates |-> Subheader(s, n, buffer, preamble)]]
<1>1. handle_rar(buffer, preamble) = t[last]
  BY Zenon DEF handle_rar, RarStart
<1>2. last \in Nat
  OBVIOUS
<1> HIDE DEF last
<1>3. \A n \in 1 .. last, s \in RarStates : Subheader(s, n, buffer, preamble) \in RarStates
  <2>1. \A n \in 1 .. last : n \in Nat \ {0}
    BY <1>2
  <2> QED
    BY <2>1, SubheaderIsState, Zenon
<1>4. \A n \in 1 .. last, s \in RarStates : step[n][s] = Subheader(s, n, buffer, preamble)
  BY Zenon
<1> HIDE DEF step
<1>5. StaysIn(RarStates, last, step)
  BY <1>3, <1>4, Zenon DEF StaysIn
<1>6. RarStart \in RarStates
  BY DEF RarStart, RarStates
<1>7. PICK g \in [0 .. last -> RarStates] : Goes(g, last, RarStart, step)
  BY <1>2, <1>5, <1>6, Unroll, Zenon
<1>8. \A n \in 1 .. last : g[n] = Subheader(g[n - 1], n, buffer, preamble)
  <2>1. \A n \in 1 .. last : n - 1 \in 0 .. last
    BY <1>2
  <2> QED
    BY <1>4, <1>7, <2>1, Zenon DEF Goes
<1>9. g[0] = RarStart
  BY <1>7 DEF Goes
<1>10. g = F(g)
  <2>1. \A n \in 0 .. last : n = 0 \/ n \in 1 .. last
    BY <1>2
  <2> QED
    BY <1>7, <1>8, <1>9, <2>1
<1>11. t = F(t)
  <2> HIDE DEF F
  <2> QED
    BY <1>10
<1> HIDE DEF t
<1>12. t[0] = RarStart
  BY <1>2, <1>11
<1>13. ASSUME NEW n \in 1 .. last PROVE t[n] = Subheader(t[n - 1], n, buffer, preamble)
  <2>1. n \in 0 .. last /\ n # 0
    BY <1>2
  <2> QED
    BY <1>11, <2>1, Zenon
<1> QED
  BY <1>1, <1>12, <1>13 DEF InTurns, last

(***************************************************************************)
(* After p turns: the subheaders and payloads passed are the bytes of the  *)
(* first p subPDUs, the loop ends with the last of them, and rar points to *)
(* the payload of the last of them with the preamble.                      *)
(***************************************************************************)
Passed(s, p, g, response, preamble) ==
  /\ s \in RarStates
  /\ Len(g[p]) = p + s.n_subPDUs * RAR_SIZE
  /\ s.more <=> p < Len(response)
  /\ s.found <=> \E r \in 1 .. p : response[r].preamble = preamble
  /\ \A r \in 1 .. p :
       /\ response[r].preamble = preamble
       /\ \A k \in 1 .. p : response[k].preamble = preamble => k <= r
       => s.rar = Len(g[r - 1]) + 1

LEMMA TurnPasses ==
  ASSUME NEW response \in Seq(SubPDU), NEW g, WrittenUpTo(g, response),
         NEW preamble \in 0 .. 63, NEW p \in 0 .. Len(response) - 1,
         NEW s, Passed(s, p, g, response, preamble)
  PROVE  Passed(Subheader(s, p + 1, g[Len(response)], preamble), p + 1,
                g, response, preamble)
<1> DEFINE N == Len(response)
           buffer == g[N]
           x == response[p + 1]
           e == IF p + 1 = N THEN 0 ELSE 1
           part == PartOf(response, p + 1)
           place == Len(g[p])
           byte == part[1]
           k == s.n_subPDUs
           here == T(byte) = 1 /\ RAPID(byte) = preamble
           next == [more      |-> E(byte) = 1,
                    n_subPDUs |-> k + T(byte),
                    found     |-> s.found \/ here,
                    rar       |-> IF here THEN p + 1 + k * RAR_SIZE ELSE s.rar]
<1>1. /\ N \in Nat /\ p \in Nat /\ p < N /\ p + 1 \in 1 .. N /\ (p + 1) - 1 = p
      /\ e \in 0 .. 1
  OBVIOUS
<1>2. k \in Nat /\ s.more = TRUE /\ s.found \in BOOLEAN /\ s.rar \in Nat /\ place = p + 7 * k
  BY <1>1 DEF Passed, RarStates, RAR_SIZE
<1>3. x \in SubPDU
  BY <1>1, PartIsBytes
<1>4. part = SubPDUBytes(x, e)
  BY DEF PartOf
<1> HIDE DEF N, e
<1>5. /\ place \in Nat /\ Len(g[p + 1]) = place + Len(part) /\ Len(g[p + 1]) <= Len(buffer)
      /\ \A q \in 1 .. Len(part) : buffer[place + q] = part[q]
  <2>1. /\ Len(g[(p + 1) - 1]) \in Nat
        /\ Len(g[p + 1]) = Len(g[(p + 1) - 1]) + Len(part)
        /\ Len(g[p + 1]) <= Len(buffer)
        /\ \A q \in 1 .. Len(part) : buffer[Len(g[(p + 1) - 1]) + q] = part[q]
    BY <1>1, PartAtItsPlace, Zenon DEF N
  <2> QED
    BY <1>1, <2>1, Zenon
<1>6. /\ E(byte) = e
      /\ x.preamble = Backoff => T(byte) = 0 /\ Len(part) = 1
      /\ x.preamble # Backoff =>
           T(byte) = 1 /\ RAPID(byte) = x.preamble /\ Len(part) = 8
  <2>1. CASE x.preamble = Backoff
    <3>1. byte = 128 * e /\ Len(part) = 1
      BY <1>1, <1>3, <1>4, <2>1, SubPDUIsBytes
    <3>2. E(128 * e) = e /\ T(128 * e) = 0
      BY <1>1, HeaderBits
    <3> QED
      BY <2>1, <3>1, <3>2
  <2>2. CASE x.preamble # Backoff
    <3>1. byte = 128 * e + 64 + x.preamble /\ Len(part) = 8
      BY <1>1, <1>3, <1>4, <2>2, SubPDUIsBytes
    <3>2. x.preamble \in 0 .. 63
      <4>1. x.preamble \in 0 .. Backoff
        BY <1>3, SubPDUFields, Zenon
      <4> QED
        BY <2>2, <4>1 DEF Backoff
    <3>3. /\ E(128 * e + 64 + x.preamble) = e /\ T(128 * e + 64 + x.preamble) = 1
          /\ RAPID(128 * e + 64 + x.preamble) = x.preamble
      BY <1>1, <3>2, HeaderBits, Zenon
    <3> QED
      BY <2>2, <3>1, <3>3
  <2> QED
    BY <2>1, <2>2
<1>7. T(byte) \in 0 .. 1 /\ Len(part) = 1 + 7 * T(byte)
  <2> HIDE DEF byte, part
  <2>1. \/ T(byte) = 0 /\ Len(part) = 1
        \/ T(byte) = 1 /\ Len(part) = 8
    BY <1>6, Zenon
  <2>2. 1 + 7 * 0 = 1 /\ 1 + 7 * 1 = 8 /\ 0 \in 0 .. 1 /\ 1 \in 0 .. 1
    OBVIOUS
  <2> QED
    BY <2>1, <2>2, Zenon
<1>8. here <=> x.preamble = preamble
  BY <1>6 DEF Backoff
<1>9. buffer[place + 1] = byte /\ place < Len(buffer)
  <2>1. buffer \in Seq(Nat)
    BY <1>1 DEF WrittenUpTo, N
  <2>2. 1 \in 1 .. Len(part) /\ Len(part) >= 1
    BY <1>7
  <2>3. buffer[place + 1] = part[1]
    BY <1>5, <2>2
  <2> HIDE DEF buffer, place, part
  <2>4. Len(buffer) \in Nat
    BY <2>1
  <2>5. place < Len(buffer)
    BY <1>5, <1>7, <2>4
  <2> QED
    BY <2>3, <2>5 DEF part
<1>10. Subheader(s, p + 1, buffer, preamble) = next
  <2> HIDE DEF buffer
  <2>1. ((p + 1) - 1) + s.n_subPDUs * RAR_SIZE = place
    BY <1>1, <1>2 DEF RAR_SIZE
  <2> HIDE DEF place, byte
  <2> QED
    BY <1>2, <1>9, <2>1, Zenon DEF Subheader
<1> HIDE DEF x, part, place, byte, here, buffer
<1>11. next \in RarStates
  <2>1. k + T(byte) \in Nat
    BY <1>2, <1>7
  <2>2. (IF here THEN p + 1 + k * RAR_SIZE ELSE s.rar) \in Nat
    BY <1>1, <1>2 DEF RAR_SIZE
  <2>3. (E(byte) = 1) \in BOOLEAN /\ (s.found \/ here) \in BOOLEAN
    OBVIOUS
  <2> QED
    BY <2>1, <2>2, <2>3 DEF RarStates
<1>12. Len(g[p + 1]) = p + 1 + next.n_subPDUs * RAR_SIZE
  <2>1. next.n_subPDUs = k + T(byte)
    OBVIOUS
  <2>2. Len(g[p + 1]) = p + 7 * k + (1 + 7 * T(byte))
    BY <1>2, <1>5, <1>7
  <2> DEFINE m == T(byte)
  <2>3. m \in Nat
    BY <1>7
  <2> HIDE DEF k, m
  <2>4. p + 7 * k + (1 + 7 * m) = p + 1 + (k + m) * 7
    BY <1>1, <1>2, <2>3
  <2> HIDE DEF next
  <2> QED
    BY <2>1, <2>2, <2>4, Zenon DEF RAR_SIZE, m
<1>13. next.more <=> p + 1 < N
  <2>1. next.more <=> E(byte) = 1
    OBVIOUS
  <2>2. e = 1 <=> p + 1 < N
    BY <1>1 DEF e
  <2> QED
    BY <1>6, <2>1, <2>2, Zenon
<1>14. next.found <=> \E r \in 1 .. p + 1 : response[r].preamble = preamble
  <2>1. s.found <=> \E r \in 1 .. p : response[r].preamble = preamble
    BY DEF Passed
  <2>2. 1 .. p + 1 = (1 .. p) \cup {p + 1}
    BY <1>1
  <2>3. here <=> response[p + 1].preamble = preamble
    BY <1>8 DEF x
  <2> QED
    BY <2>1, <2>2, <2>3
<1>15. ASSUME NEW r \in 1 .. p + 1, response[r].preamble = preamble,
              \A m \in 1 .. p + 1 : response[m].preamble = preamble => m <= r
       PROVE  next.rar = Len(g[r - 1]) + 1
  <2>1. CASE here
    <3>1. p + 1 <= r
      BY <1>1, <1>8, <1>15, <2>1 DEF x
    <3>2. r = p + 1
      BY <1>1, <3>1
    <3>3. Len(g[r - 1]) = place
      BY <1>1, <3>2 DEF place
    <3> QED
      BY <1>1, <1>2, <2>1, <3>3 DEF RAR_SIZE
  <2>2. CASE ~here
    <3>1. r # p + 1
      BY <1>8, <1>15, <2>2 DEF x
    <3>2. r \in 1 .. p /\ \A m \in 1 .. p : m \in 1 .. p + 1
      BY <1>1, <3>1
    <3>3. s.rar = Len(g[r - 1]) + 1
      BY <1>15, <3>2, Zenon DEF Passed
    <3> QED
      BY <2>2, <3>3
  <2> QED
    BY <2>1, <2>2
<1>16. Passed(next, p + 1, g, response, preamble)
  <2> HIDE DEF next
  <2> QED
    BY <1>11, <1>12, <1>13, <1>14, <1>15, Zenon DEF Passed, N
<1> QED
  BY <1>10, <1>16 DEF buffer, N

(* After the last subPDU the loop has ended, and later turns change nothing. *)
LEMMA LoopEnds ==
  ASSUME NEW response \in Seq(SubPDU), response # <<>>,
         NEW g, WrittenUpTo(g, response),
         NEW preamble \in 0 .. 63, NEW t, InTurns(t, g[Len(response)], preamble)
  PROVE  Passed(t[Len(g[Len(response)])], Len(response), g, response, preamble)
<1> DEFINE N == Len(response)
           last == Len(g[N])
<1>1. N \in Nat \ {0} /\ last \in Nat
  BY DEF WrittenUpTo
<1>2. \A n \in 1 .. last : t[n] = Subheader(t[n - 1], n, g[N], preamble)
  BY DEF InTurns
<1>3. Passed(t[0], 0, g, response, preamble)
  <2>1. t[0] = RarStart /\ g[0] = <<>> /\ RarStart \in RarStates
    BY DEF InTurns, WrittenUpTo, RarStart, RarStates
  <2>2. /\ RarStart.n_subPDUs = 0 /\ RarStart.more = TRUE /\ RarStart.found = FALSE
    BY DEF RarStart
  <2>3. Len(<<>>) = 0 + RarStart.n_subPDUs * RAR_SIZE
    BY <2>2 DEF RAR_SIZE
  <2>4. RarStart.more <=> 0 < Len(response)
    BY <1>1, <2>2
  <2>5. 1 .. 0 = {} /\ Len(g[0]) = Len(<<>>)
    BY <2>1
  <2> QED
    BY <2>1, <2>2, <2>3, <2>4, <2>5, Zenon DEF Passed
<1>4. ASSUME NEW p \in 0 .. N, Passed(t[p], p, g, response, preamble) PROVE p <= last
  <2>1. t[p].n_subPDUs \in Nat /\ Len(g[p]) = p + t[p].n_subPDUs * 7
    BY <1>4 DEF Passed, RarStates, RAR_SIZE
  <2>2. Len(g[p]) <= last
    BY PartsBegin DEF Begins
  <2> DEFINE k == t[p].n_subPDUs
             place == Len(g[p])
  <2>3. k \in Nat /\ place = p + k * 7 /\ place <= last
    BY <2>1, <2>2
  <2> HIDE DEF k, place, last
  <2> QED
    BY <1>1, <2>3
<1> HIDE DEF last
<1> DEFINE S == {p \in 0 .. N : Passed(t[p], p, g, response, preamble)}
<1>5. 0 \in S
  BY <1>1, <1>3
<1>6. ASSUME NEW p \in 0 .. N - 1, p \in S PROVE p + 1 \in S
  <2>1. /\ p \in 0 .. N /\ p + 1 \in 0 .. N /\ p + 1 \in Nat \ {0} /\ (p + 1) - 1 = p
        /\ p < N
    BY <1>1
  <2>2. Passed(t[p], p, g, response, preamble)
    BY <1>6
  <2>3. Passed(Subheader(t[p], p + 1, g[N], preamble), p + 1, g, response, preamble)
    BY <1>6, <2>2, TurnPasses, Zenon
  <2>4. p + 1 <= last
    <3>1. /\ Subheader(t[p], p + 1, g[N], preamble).n_subPDUs \in Nat
          /\ Len(g[p + 1]) = p + 1 + Subheader(t[p], p + 1, g[N], preamble).n_subPDUs * 7
      BY <2>3 DEF Passed, RarStates, RAR_SIZE
    <3>2. Len(g[p + 1]) <= last
      BY <2>1, PartsBegin DEF Begins, last
    <3> DEFINE k == Subheader(t[p], p + 1, g[N], preamble).n_subPDUs
               place == Len(g[p + 1])
    <3>3. k \in Nat /\ place = p + 1 + k * 7 /\ place <= last
      BY <3>1, <3>2
    <3> HIDE DEF k, place
    <3> QED
      BY <1>1, <2>1, <3>3
  <2>5. t[p + 1] = Subheader(t[p], p + 1, g[N], preamble)
    <3>1. p + 1 \in 1 .. last
      BY <1>1, <2>1, <2>4
    <3> QED
      BY <1>2, <2>1, <3>1, Zenon
  <2> QED
    BY <2>1, <2>3, <2>5
<1>7. N \in S
  <2> HIDE DEF S
  <2>1. 0 .. N \subseteq S
    BY <1>1, <1>5, <1>6, UpTo
  <2> QED
    BY <1>1, <2>1
<1>8. Passed(t[N], N, g, response, preamble)
  BY <1>7
<1>9. N <= last
  BY <1>1, <1>4, <1>8
<1>10. t[N].more = FALSE
  BY <1>1, <1>8 DEF Passed, RarStates
<1> DEFINE R == {d \in 0 .. last - N : t[N + d] = t[N]}
<1>11. 0 \in R
  BY <1>1, <1>9
<1>12. ASSUME NEW d \in 0 .. last - N - 1, d \in R PROVE d + 1 \in R
  <2>1. /\ N + (d + 1) \in 1 .. last /\ (N + (d + 1)) - 1 = N + d /\ d + 1 \in 0 .. last - N
    BY <1>1, <1>9
  <2>2. t[N + d] = t[N]
    BY <1>12
  <2>3. t[N + (d + 1)] = Subheader(t[N], N + (d + 1), g[N], preamble)
    BY <1>2, <2>1, <2>2, Zenon
  <2>4. t[N + (d + 1)] = t[N]
    BY <1>10, <2>3 DEF Subheader
  <2> QED
    BY <2>1, <2>4
<1>13. last - N \in R
  <2> HIDE DEF R
  <2>1. last - N \in Nat
    BY <1>1, <1>9
  <2>2. 0 .. last - N \subseteq R
    BY <1>11, <1>12, <2>1, UpTo
  <2> QED
    BY <2>1, <2>2
<1>14. t[last] = t[N]
  <2>1. N + (last - N) = last
    BY <1>1
  <2> QED
    BY <1>13, <2>1
<1> QED
  BY <1>8, <1>14 DEF last, N

(* A response of any length reads back. *)
LEMMA ReadsBackWhatWasWritten ==
  ASSUME NEW response \in Seq(SubPDU), response # <<>>, NEW preamble \in 0 .. 63
  PROVE  ReadsBack(response, preamble)
<1> DEFINE N == Len(response)
           places == {p \in DOMAIN response : response[p].preamble = preamble}
<1>1. PICK g : WrittenUpTo(g, response) /\ Written(response) = g[N]
  BY WrittenPartByPart
<1> DEFINE buffer == Written(response)
           result == handle_rar(buffer, preamble)
<1>2. buffer \in Seq(Nat)
  <2>1. N \in 0 .. N
    OBVIOUS
  <2> QED
    BY <1>1, <2>1 DEF WrittenUpTo
<1>3. PICK t : InTurns(t, buffer, preamble) /\ result = t[Len(buffer)]
  BY <1>2, HandledTurnByTurn, Zenon
<1>4. Passed(result, N, g, response, preamble)
  <2>1. InTurns(t, g[N], preamble) /\ result = t[Len(g[N])]
    BY <1>1, <1>3
  <2> HIDE DEF result
  <2> QED
    BY <1>1, <2>1, LoopEnds
<1> HIDE DEF result
<1>5. N \in Nat /\ DOMAIN response = 1 .. N
  OBVIOUS
<1>6. result.found <=> places # {}
  BY <1>4, <1>5 DEF Passed
<1>7. ASSUME NEW p \in places, \A r \in places : r <= p
      PROVE  Grant(buffer, result.rar) = GrantOf(response[p])
  <2> DEFINE x == response[p]
             place == Len(g[p - 1])
             part == PartOf(response, p)
             e == IF p = N THEN 0 ELSE 1
  <2>1. p \in 1 .. N /\ x.preamble = preamble
    BY <1>5
  <2>2. result.rar = place + 1
    <3>1. \A k \in 1 .. N : response[k].preamble = preamble => k <= p
      BY <1>5, <1>7
    <3> QED
      BY <1>4, <2>1, <3>1, Zenon DEF Passed
  <2>3. x \in SubPDU /\ e \in 0 .. 1 /\ x.preamble # Backoff
    <3>1. x \in SubPDU
      BY <2>1, PartIsBytes
    <3>2. e \in 0 .. 1
      OBVIOUS
    <3> HIDE DEF x
    <3> QED
      BY <2>1, <3>1, <3>2 DEF Backoff
  <2>4. part = SubPDUBytes(x, e)
    BY DEF PartOf
  <2>5. place \in Nat /\ \A q \in 1 .. Len(part) : buffer[place + q] = part[q]
    <3>1. /\ Len(g[p - 1]) \in Nat
          /\ \A q \in 1 .. Len(PartOf(response, p)) :
               g[Len(response)][Len(g[p - 1]) + q] = PartOf(response, p)[q]
      BY <1>1, <2>1, PartAtItsPlace, Zenon
    <3> QED
      BY <1>1, <3>1, Zenon
  <2>6. Len(part) = 8 /\ HoldsRar(part, 1, x)
    <3> HIDE DEF x, e, part
    <3> QED
      BY <2>3, <2>4, SubPDUIsBytes, Zenon
  <2> HIDE DEF x, part, place, e, buffer
  <2>7. HoldsRar(buffer, place + 1, x)
    <3>1. ASSUME NEW q \in 0 .. 6 PROVE buffer[place + 1 + q + 1] = RarOf(x)[q + 1]
      <4>1. /\ 1 + q + 1 \in 1 .. 8 /\ place + (1 + q + 1) = place + 1 + q + 1
        BY <2>5
      <4>2. buffer[place + (1 + q + 1)] = part[1 + q + 1]
        BY <2>5, <2>6, <4>1
      <4>3. part[1 + q + 1] = RarOf(x)[q + 1]
        BY <2>6 DEF HoldsRar
      <4> QED
        BY <4>1, <4>2, <4>3
    <3> QED
      BY <3>1 DEF HoldsRar
  <2>8. Grant(buffer, place + 1) = GrantOf(x)
    BY <2>3, <2>7, GrantReadsBack
  <2> QED
    BY <2>2, <2>8 DEF x
<1> QED
  BY <1>6, <1>7 DEF ReadsBack, result

(***************************************************************************)
(* handle_rar reads, from every list of subPDUs, the grant of the last one *)
(* with the UE's preamble, wherever it stands and whatever its fields are. *)
(***************************************************************************)
THEOREM ResponsesReadBack == Spec => []ResponseRoundTrip
<1>1. ResponseRoundTrip
  <2>1. PREAMBLE \in 0 .. 63
    BY DEF PREAMBLE
  <2>2. ASSUME NEW response \in Responses
        PROVE  response \in Seq(SubPDU) /\ response # <<>>
    <3>1. response \in Seq(SubPDU) /\ Len(response) \in 1 .. 255
      BY ResponseAssumption, Zenon
    <3>2. 0 \notin 1 .. 255
      OBVIOUS
    <3>3. Len(response) # 0
      BY <3>1, <3>2, Zenon
    <3> QED
      BY <3>1, <3>3
  <2> QED
    BY <2>1, <2>2, ReadsBackWhatWasWritten DEF ResponseRoundTrip
<1> QED
  BY <1>1, PTL

-----------------------------------------------------------------------------
(* Datagrams: offsets *)

(* The function behind SumTo. *)
LEMMA SumExists ==
  ASSUME NEW lengths, NEW n \in Nat
  PROVE  \E g : g = [m \in 0 .. n |-> IF m = 0 THEN 0 ELSE g[m - 1] + lengths[m]]
<1> DEFINE F(g, k) == [m \in 0 .. k |-> IF m = 0 THEN 0 ELSE g[m - 1] + lengths[m]]
           S == {k \in 0 .. n : \E g : g = F(g, k)}
<1>1. 0 \in S
  <2> DEFINE g0 == [m \in 0 .. 0 |-> 0]
  <2>1. g0 = F(g0, 0)
    OBVIOUS
  <2> HIDE DEF g0
  <2>2. \E h : h = F(h, 0)
    BY <2>1
  <2>3. 0 \in 0 .. n
    OBVIOUS
  <2> QED
    BY <2>2, <2>3
<1>2. ASSUME NEW k \in 0 .. n - 1, k \in S PROVE k + 1 \in S
  <2>1. PICK g : g = F(g, k)
    BY <1>2
  <2> DEFINE h == [m \in 0 .. k + 1 |-> IF m <= k THEN g[m] ELSE g[k] + lengths[k + 1]]
  <2>2. \A m \in 0 .. k + 1 : h[m] = IF m = 0 THEN 0 ELSE h[m - 1] + lengths[m]
    <3>1. \A m \in 0 .. k : g[m] = IF m = 0 THEN 0 ELSE g[m - 1] + lengths[m]
      BY <2>1
    <3>2. \A m \in 0 .. k : h[m] = g[m]
      OBVIOUS
    <3>3. h[k + 1] = h[k] + lengths[k + 1]
      OBVIOUS
    <3> HIDE DEF h
    <3>4. ASSUME NEW m \in 0 .. k + 1
          PROVE  h[m] = IF m = 0 THEN 0 ELSE h[m - 1] + lengths[m]
      <4>1. CASE m = k + 1
        BY <3>3, <4>1
      <4>2. CASE m \in 0 .. k
        <5>1. m # 0 => m - 1 \in 0 .. k
          BY <4>2
        <5> QED
          BY <3>1, <3>2, <4>2, <5>1
      <4> QED
        BY <4>1, <4>2
    <3> QED
      BY <3>4
  <2>3. h = [m \in 0 .. k + 1 |-> h[m]]
    OBVIOUS
  <2> HIDE DEF h
  <2>4. h = F(h, k + 1)
    BY <2>2, <2>3
  <2> QED
    BY <2>4
<1> HIDE DEF S
<1>3. 0 .. n \subseteq S
  BY <1>1, <1>2, UpTo
<1> QED
  BY <1>3 DEF S

(* SumTo adds one length after the other. *)
LEMMA SumIs ==
  ASSUME NEW lengths \in Seq(Nat)
  PROVE  /\ SumTo(lengths, 0) = 0
         /\ \A k \in 0 .. Len(lengths) : SumTo(lengths, k) \in Nat
         /\ \A k \in 1 .. Len(lengths) :
              SumTo(lengths, k) = SumTo(lengths, k - 1) + lengths[k]
<1> DEFINE n == Len(lengths)
           G(g) == [m \in 0 .. n |-> IF m = 0 THEN 0 ELSE g[m - 1] + lengths[m]]
           f == CHOOSE g : g = G(g)
<1>1. n \in Nat /\ \A k \in 1 .. n : lengths[k] \in Nat
  OBVIOUS
<1>2. f = G(f)
  BY <1>1, SumExists
<1>3. \A k : SumTo(lengths, k) = f[k]
  BY Zenon DEF SumTo
<1> HIDE DEF f
<1>4. f[0] = 0 /\ \A k \in 1 .. n : f[k] = f[k - 1] + lengths[k]
  <2>1. \A k \in 0 .. n : f[k] = IF k = 0 THEN 0 ELSE f[k - 1] + lengths[k]
    BY <1>2
  <2> HIDE DEF n
  <2> QED
    BY <1>1, <2>1
<1> HIDE DEF n, G
<1> DEFINE S == {k \in 0 .. n : f[k] \in Nat}
<1>5. 0 .. n \subseteq S
  <2>1. 0 \in S
    BY <1>1, <1>4
  <2>2. ASSUME NEW k \in 0 .. n - 1, k \in S PROVE k + 1 \in S
    <3>1. k + 1 \in 1 .. n /\ (k + 1) - 1 = k
      BY <1>1
    <3>2. f[k + 1] = f[k] + lengths[k + 1] /\ lengths[k + 1] \in Nat
      BY <1>1, <1>4, <3>1
    <3> QED
      BY <2>2, <3>1, <3>2
  <2> HIDE DEF S
  <2> QED
    BY <1>1, <2>1, <2>2, UpTo
<1> QED
  BY <1>3, <1>4, <1>5 DEF n

(* What comes later lies behind the whole of what comes before. *)
LEMMA SumClimbs ==
  ASSUME NEW lengths \in Seq(Nat), NEW a \in 0 .. Len(lengths),
         NEW b \in 0 .. Len(lengths), a < b
  PROVE  SumTo(lengths, a) + lengths[a + 1] <= SumTo(lengths, b)
<1> DEFINE n == Len(lengths)
           S == {c \in 0 .. b - a - 1 : SumTo(lengths, a) + lengths[a + 1] <= SumTo(lengths, a + 1 + c)}
<1>1. /\ n \in Nat /\ a \in Nat /\ b \in Nat /\ b <= n
      /\ \A k \in 1 .. n : lengths[k] \in Nat
  OBVIOUS
<1>2. /\ \A k \in 0 .. n : SumTo(lengths, k) \in Nat
      /\ \A k \in 1 .. n : SumTo(lengths, k) = SumTo(lengths, k - 1) + lengths[k]
  BY SumIs
<1> HIDE DEF n
<1>3. 0 \in S
  <2>1. a + 1 \in 1 .. n /\ a \in 0 .. n
    BY <1>1
  <2>2. SumTo(lengths, a + 1) = SumTo(lengths, a) + lengths[a + 1] /\ SumTo(lengths, a + 1) \in Nat
    BY <1>1, <1>2, <2>1
  <2> QED
    BY <1>1, <2>2
<1>4. ASSUME NEW c \in 0 .. (b - a - 1) - 1, c \in S PROVE c + 1 \in S
  <2>1. a + 1 + c \in 0 .. n /\ a + 1 + (c + 1) \in 1 .. n
    BY <1>1
  <2>2. (a + 1 + (c + 1)) - 1 = a + 1 + c
    BY <1>1
  <2>3. SumTo(lengths, a + 1 + (c + 1)) = SumTo(lengths, a + 1 + c) + lengths[a + 1 + (c + 1)]
    BY <1>2, <2>1, <2>2
  <2>4. lengths[a + 1 + (c + 1)] \in Nat
    BY <1>1, <2>1
  <2>5. SumTo(lengths, a + 1 + c) \in Nat
    BY <1>2, <2>1
  <2>6. SumTo(lengths, a) \in Nat
    BY <1>1, <1>2
  <2>7. lengths[a + 1] \in Nat
    BY <1>1
  <2>8. SumTo(lengths, a) + lengths[a + 1] <= SumTo(lengths, a + 1 + c)
    BY <1>4
  <2>9. SumTo(lengths, a) + lengths[a + 1] <= SumTo(lengths, a + 1 + (c + 1))
    <3> DEFINE x == SumTo(lengths, a)
               y == SumTo(lengths, a + 1 + c)
               z == SumTo(lengths, a + 1 + (c + 1))
               u == lengths[a + 1]
               v == lengths[a + 1 + (c + 1)]
    <3>1. z = y + v /\ v \in Nat /\ y \in Nat /\ x \in Nat /\ u \in Nat /\ x + u <= y
      BY <2>3, <2>4, <2>5, <2>6, <2>7, <2>8
    <3> HIDE DEF x, y, z, u, v
    <3>2. x + u <= z
      BY <3>1
    <3> QED
      BY <3>2 DEF x, z, u
  <2>10. c + 1 \in 0 .. b - a - 1
    BY <1>1
  <2> QED
    BY <2>9, <2>10
<1>5. b - a - 1 \in Nat
  BY <1>1
<1> HIDE DEF S
<1>6. 0 .. b - a - 1 \subseteq S
  BY <1>3, <1>4, <1>5, UpTo
<1>7. b - a - 1 \in S
  BY <1>5, <1>6
<1>8. a + 1 + (b - a - 1) = b
  BY <1>1
<1> QED
  BY <1>7, <1>8 DEF S

(* How long the parts are. *)
LEMMA PartSizes ==
  ASSUME NEW part \in Part
  PROVE  /\ PartSize(part) \in Nat
         /\ SCH_DATA_Packaging(part) \in Nat
         /\ SCH_DATA_Packaging(part) = 4 + PartSize(part)
         /\ PartSize(part) >= 14
         /\ part.kind # "packet" => PartSize(part) >= 18
         /\ part.kind = "packet" =>
              /\ part.Data_len \in Nat /\ part.echo \in Nat
              /\ PartSize(part) = 14 + part.Data_len
              /\ part.echo # 1 /\ part.echo <= 14 + part.Data_len
<1>1. CASE part \in [kind : {"report"}, URNTI : Nat, RRC_State : {0, 1}]
  BY <1>1 DEF PartSize, SCH_DATA_Packaging, MsgHead, DivisionHead
<1>2. CASE part \in [kind : {"request", "control"}]
  BY <1>2 DEF PartSize, SCH_DATA_Packaging, MsgHead, DivisionHead
<1>3. CASE /\ part \in [kind : {"packet"}, Data_len : Nat, echo : Nat, follow : SUBSET Nat]
           /\ part.echo # 1 /\ part.echo <= DivisionHead + part.Data_len
  BY <1>3 DEF PartSize, SCH_DATA_Packaging, MsgHead, DivisionHead
<1> QED
  BY <1>1, <1>2, <1>3 DEF Part

(* The parts of a frame lie one behind the other. *)
LEMMA PartsClimb ==
  ASSUME NEW f, f.parts \in Seq(Part)
  PROVE  /\ PartAt(f, 1) = 0
         /\ \A n \in 1 .. Len(f.parts) + 1 : PartAt(f, n) \in Nat
         /\ \A n \in 1 .. Len(f.parts) :
              PartAt(f, n + 1) = PartAt(f, n) + SCH_DATA_Packaging(f.parts[n])
         /\ \A m, n \in 1 .. Len(f.parts) + 1 :
              m < n => PartAt(f, m) + SCH_DATA_Packaging(f.parts[m]) <= PartAt(f, n)
<1> DEFINE lengths == [n \in DOMAIN f.parts |-> SCH_DATA_Packaging(f.parts[n])]
           c == Len(f.parts)
<1>1. c \in Nat /\ DOMAIN f.parts = 1 .. c /\ \A n \in 1 .. c : f.parts[n] \in Part
  OBVIOUS
<1>2. lengths \in Seq(Nat) /\ Len(lengths) = c
  <2>1. \A n \in 1 .. c : SCH_DATA_Packaging(f.parts[n]) \in Nat
    BY <1>1, PartSizes
  <2> QED
    BY <1>1, <2>1
<1>3. \A n : PartAt(f, n) = SumTo(lengths, n - 1)
  BY DEF PartAt
<1>4. \A n \in 1 .. c : lengths[n] = SCH_DATA_Packaging(f.parts[n])
  BY <1>1
<1> HIDE DEF lengths, c
<1>5. /\ SumTo(lengths, 0) = 0
      /\ \A k \in 0 .. c : SumTo(lengths, k) \in Nat
      /\ \A k \in 1 .. c : SumTo(lengths, k) = SumTo(lengths, k - 1) + lengths[k]
  BY <1>2, SumIs
<1>6. PartAt(f, 1) = 0
  BY <1>3, <1>5
<1>7. ASSUME NEW n \in 1 .. c + 1 PROVE PartAt(f, n) \in Nat
  BY <1>1, <1>3, <1>5
<1>8. ASSUME NEW n \in 1 .. c
      PROVE  PartAt(f, n + 1) = PartAt(f, n) + SCH_DATA_Packaging(f.parts[n])
  <2>1. PartAt(f, n + 1) = SumTo(lengths, n) /\ PartAt(f, n) = SumTo(lengths, n - 1)
    <3>1. (n + 1) - 1 = n
      OBVIOUS
    <3> QED
      BY <1>3, <3>1
  <2> QED
    BY <1>1, <1>4, <1>5, <2>1
<1>9. ASSUME NEW m \in 1 .. c + 1, NEW n \in 1 .. c + 1, m < n
      PROVE  PartAt(f, m) + SCH_DATA_Packaging(f.parts[m]) <= PartAt(f, n)
  <2>1. m - 1 \in 0 .. c /\ n - 1 \in 0 .. c /\ m - 1 < n - 1 /\ m \in 1 .. c /\ (m - 1) + 1 = m
    BY <1>1, <1>9
  <2>2. SumTo(lengths, m - 1) + lengths[(m - 1) + 1] <= SumTo(lengths, n - 1)
    BY <1>2, <2>1, SumClimbs
  <2> QED
    BY <1>3, <1>4, <2>1, <2>2
<1> QED
  BY <1>6, <1>7, <1>8, <1>9 DEF c

(* A frame of a datagram that arrives. *)
LEMMA FrameIs ==
  ASSUME NEW d \in Datagrams, NEW k \in DOMAIN d
  PROVE  /\ d[k].FramHead \in {"CCH", "SCH", "unknown"}
         /\ d[k].parts \in Seq(Part)
         /\ \A n \in DOMAIN d[k].parts :
              /\ d[k].FramHead = "CCH" => d[k].parts[n].kind # "packet"
              /\ d[k].FramHead = "SCH" => d[k].parts[n].kind = "packet"
         /\ d[k].FramHead = "CCH" => 16 + PartAt(d[k], Len(d[k].parts) + 1) <= 87
<1> DEFINE F == [FramHead : {"CCH", "SCH", "unknown"}, zero : {2, 8, None},
                 parts : Seq(Part)]
<1>1. d \in Seq(F)
  BY ReceiveAssumption
<1> HIDE DEF F
<1>2. d[k] \in F
  BY <1>1
<1>3. /\ d[k].FramHead \in {"CCH", "SCH", "unknown"}
      /\ d[k].parts \in Seq(Part)
  BY <1>2 DEF F
<1> QED
  BY <1>3, ReceiveAssumption DEF MacHead, CCH_DATA_LENGTH

(* At most three parts fit in a control area, so that its length without the
   heads still reaches beyond where its last part begins. *)
LEMMA ControlArea ==
  ASSUME NEW f, f.parts \in Seq(Part), f.FramHead = "CCH",
         \A n \in DOMAIN f.parts : f.parts[n].kind # "packet",
         16 + PartAt(f, Len(f.parts) + 1) <= 87
  PROVE  /\ Data_Length(f) \in Nat
         /\ Data_Length(f) <= PartAt(f, Len(f.parts) + 1)
         /\ \A n \in 1 .. Len(f.parts) : PartAt(f, n) < Data_Length(f)
<1> DEFINE c == Len(f.parts)
           sizes == [n \in DOMAIN f.parts |-> PartSize(f.parts[n])]
           S(k) == SumTo(sizes, k)
           P(k) == PartAt(f, k)
           L(n) == PartSize(f.parts[n])
<1>1. c \in Nat /\ DOMAIN f.parts = 1 .. c /\ \A n \in 1 .. c : f.parts[n] \in Part
  OBVIOUS
<1>2. \A n \in 1 .. c : /\ L(n) \in Nat /\ L(n) >= 18
                        /\ SCH_DATA_Packaging(f.parts[n]) = 4 + L(n)
  BY <1>1, PartSizes
<1>3. sizes \in Seq(Nat) /\ Len(sizes) = c /\ \A n \in 1 .. c : sizes[n] = L(n)
  BY <1>1, <1>2
<1>4. Data_Length(f) = S(c)
  BY DEF Data_Length
<1> HIDE DEF sizes
<1>5. /\ S(0) = 0
      /\ \A k \in 0 .. c : S(k) \in Nat
      /\ \A k \in 1 .. c : S(k) = S(k - 1) + L(k)
  BY <1>3, SumIs
<1>6. /\ P(1) = 0
      /\ \A n \in 1 .. c + 1 : P(n) \in Nat
      /\ \A n \in 1 .. c : P(n + 1) = P(n) + (4 + L(n))
      /\ \A m, n \in 1 .. c + 1 : m < n => P(m) + SCH_DATA_Packaging(f.parts[m]) <= P(n)
  BY <1>2, PartsClimb
<1>7. P(c + 1) <= 71
  BY <1>1, <1>6
<1> HIDE DEF c, S, P, L
<1>8. c <= 3
  <2> SUFFICES ASSUME c >= 4 PROVE FALSE
    BY <1>1
  <2>1. {1, 2, 3, 4} \subseteq 1 .. c /\ 5 \in 1 .. c + 1
    BY <1>1
  <2>2. P(1 + 1) = P(1) + (4 + L(1)) /\ P(2 + 1) = P(2) + (4 + L(2))
        /\ P(3 + 1) = P(3) + (4 + L(3)) /\ P(4 + 1) = P(4) + (4 + L(4))
    BY <1>6, <2>1
  <2>3. L(1) >= 18 /\ L(2) >= 18 /\ L(3) >= 18 /\ L(4) >= 18
        /\ L(1) \in Nat /\ L(2) \in Nat /\ L(3) \in Nat /\ L(4) \in Nat
    BY <1>2, <2>1
  <2>4. P(5) >= 88
    BY <1>6, <2>2, <2>3
  <2>6. P(c + 1) \in Nat /\ P(5) \in Nat
    BY <1>1, <1>6, <2>1
  <2>5. P(5) <= P(c + 1)
    <3>1. CASE c = 4
      BY <3>1, <2>6
    <3>2. CASE c > 4
      <4>1. 5 \in 1 .. c /\ c + 1 \in 1 .. c + 1 /\ 5 < c + 1
        BY <1>1, <3>2
      <4>2. P(5) + SCH_DATA_Packaging(f.parts[5]) <= P(c + 1)
        BY <1>6, <2>1, <4>1
      <4>3. SCH_DATA_Packaging(f.parts[5]) = 4 + L(5) /\ L(5) \in Nat
        BY <1>2, <4>1
      <4> QED
        BY <2>6, <4>2, <4>3
    <3> QED
      BY <1>1, <3>1, <3>2
  <2> QED
    BY <1>7, <2>4, <2>5, <2>6
<1>9. /\ S(c) \in Nat /\ S(c) <= P(c + 1)
      /\ \A n \in 1 .. c : P(n) < S(c)
  <2>1. CASE c = 0
    BY <2>1, <1>5, <1>6
  <2>2. CASE c = 1
    <3>1. S(1) = S(0) + L(1) /\ P(1 + 1) = P(1) + (4 + L(1)) /\ L(1) \in Nat /\ L(1) >= 18
      BY <2>2, <1>2, <1>5, <1>6
    <3> QED
      BY <3>1, <2>2, <1>5, <1>6
  <2>3. CASE c = 2
    <3>1. 1 \in 1 .. c /\ 2 \in 1 .. c
      BY <2>3
    <3>2. /\ L(1) \in Nat /\ L(1) >= 18
          /\ L(2) \in Nat /\ L(2) >= 18
      BY <1>2, <3>1
    <3>3. /\ S(1) = S(0) + L(1)
          /\ S(2) = S(1) + L(2)
      BY <1>5, <3>1
    <3>4. /\ P(2) = P(1) + (4 + L(1))
          /\ P(3) = P(2) + (4 + L(2))
      <4>1. P(1 + 1) = P(1) + (4 + L(1)) /\ 1 + 1 = 2
        BY <1>6, <3>1
      <4>2. P(2 + 1) = P(2) + (4 + L(2)) /\ 2 + 1 = 3
        BY <1>6, <3>1
      <4> QED
        BY <4>1, <4>2
    <3>5. S(2) = L(1) + L(2)
      BY <1>5, <3>2, <3>3
    <3>6. P(2) = 4 + L(1)
      BY <1>6, <3>2, <3>4
    <3>7. P(3) = 8 + L(1) + L(2)
      BY <1>6, <3>2, <3>4, <3>6
    <3>8. /\ S(2) \in Nat /\ S(2) <= P(3)
          /\ P(1) < S(2)
          /\ P(2) < S(2)
      BY <1>6, <3>2, <3>5, <3>6, <3>7
    <3>9. c + 1 = 3 /\ \A n \in 1 .. c : n = 1 \/ n = 2
      BY <2>3
    <3> QED
      BY <2>3, <3>8, <3>9
  <2>4. CASE c = 3
    <3>1. 1 \in 1 .. c /\ 2 \in 1 .. c /\ 3 \in 1 .. c
      BY <2>4
    <3>2. /\ L(1) \in Nat /\ L(1) >= 18
          /\ L(2) \in Nat /\ L(2) >= 18
          /\ L(3) \in Nat /\ L(3) >= 18
      BY <1>2, <3>1
    <3>3. /\ S(1) = S(0) + L(1)
          /\ S(2) = S(1) + L(2)
          /\ S(3) = S(2) + L(3)
      BY <1>5, <3>1
    <3>4. /\ P(2) = P(1) + (4 + L(1))
          /\ P(3) = P(2) + (4 + L(2))
          /\ P(4) = P(3) + (4 + L(3))
      <4>1. P(1 + 1) = P(1) + (4 + L(1)) /\ 1 + 1 = 2
        BY <1>6, <3>1
      <4>2. P(2 + 1) = P(2) + (4 + L(2)) /\ 2 + 1 = 3
        BY <1>6, <3>1
      <4>3. P(3 + 1) = P(3) + (4 + L(3)) /\ 3 + 1 = 4
        BY <1>6, <3>1
      <4> QED
        BY <4>1, <4>2, <4>3
    <3>5. S(3) = L(1) + L(2) + L(3)
      BY <1>5, <3>2, <3>3
    <3>6. P(2) = 4 + L(1)
      BY <1>6, <3>2, <3>4
    <3>7. P(3) = 8 + L(1) + L(2)
      BY <1>6, <3>2, <3>4, <3>6
    <3>8. P(4) = 12 + L(1) + L(2) + L(3)
      BY <1>6, <3>2, <3>4, <3>7
    <3>9. /\ S(3) \in Nat /\ S(3) <= P(4)
          /\ P(1) < S(3)
          /\ P(2) < S(3)
          /\ P(3) < S(3)
      <4>1. P(1) = 0
        BY <1>6
      <4>2. S(3) \in Nat /\ S(3) <= P(4)
        BY <3>2, <3>5, <3>8
      <4>3. P(1) < S(3) /\ P(2) < S(3)
        BY <4>1, <3>2, <3>5, <3>6
      <4>4. P(3) < S(3)
        BY <3>2, <3>5, <3>7
      <4> QED
        BY <4>2, <4>3, <4>4
    <3>10. c + 1 = 4 /\ \A n \in 1 .. c : n = 1 \/ n = 2 \/ n = 3
      BY <2>4
    <3> QED
      BY <2>4, <3>9, <3>10
  <2> QED
    BY <1>1, <1>8, <2>1, <2>2, <2>3, <2>4
<1> QED
  BY <1>4, <1>9 DEF c, S, P

(* The length in a frame's head: it reaches beyond where the last part begins,
   and not beyond its end. *)
LEMMA FrameLengths ==
  ASSUME NEW d \in Datagrams, NEW k \in DOMAIN d
  PROVE  /\ FrameSize(d[k]) \in Nat
         /\ FrameSize(d[k]) >= 16
         /\ d[k].FramHead = "CCH" =>
              /\ Data_Length(d[k]) <= PartAt(d[k], Len(d[k].parts) + 1)
              /\ \A n \in 1 .. Len(d[k].parts) : PartAt(d[k], n) < Data_Length(d[k])
         /\ d[k].FramHead # "CCH" =>
              Data_Length(d[k]) = PartAt(d[k], Len(d[k].parts) + 1)
<1>1. d[k].FramHead # "CCH" =>
        Data_Length(d[k]) = PartAt(d[k], Len(d[k].parts) + 1)
  BY DEF Data_Length
<1>2. /\ d[k].parts \in Seq(Part)
      /\ d[k].FramHead = "CCH" => 16 + PartAt(d[k], Len(d[k].parts) + 1) <= 87
      /\ \A n \in DOMAIN d[k].parts :
           d[k].FramHead = "CCH" => d[k].parts[n].kind # "packet"
  BY FrameIs
<1>3. PartAt(d[k], Len(d[k].parts) + 1) \in Nat
  <2>1. Len(d[k].parts) + 1 \in 1 .. Len(d[k].parts) + 1
    BY <1>2
  <2> QED
    BY <1>2, <2>1, PartsClimb
<1>4. d[k].FramHead = "CCH" =>
        /\ Data_Length(d[k]) <= PartAt(d[k], Len(d[k].parts) + 1)
        /\ \A n \in 1 .. Len(d[k].parts) : PartAt(d[k], n) < Data_Length(d[k])
  BY <1>2, ControlArea
<1>5. FrameSize(d[k]) \in Nat /\ FrameSize(d[k]) >= 16
  <2>1. CASE d[k].FramHead = "CCH"
    BY <2>1 DEF FrameSize, CCH_DATA_LENGTH
  <2>2. CASE d[k].FramHead # "CCH"
    <3>1. FrameSize(d[k]) = 16 + PartAt(d[k], Len(d[k].parts) + 1)
      BY <1>1, <2>2 DEF FrameSize, MacHead
    <3> QED
      BY <1>3, <3>1
  <2> QED
    BY <2>1, <2>2
<1> QED
  BY <1>1, <1>4, <1>5

(* The frames of a datagram lie one behind the other. *)
LEMMA FramesClimb ==
  ASSUME NEW d \in Datagrams
  PROVE  /\ Len(d) \in Nat /\ DOMAIN d = 1 .. Len(d)
         /\ FrameAt(d, 1) = 0
         /\ \A n \in 1 .. Len(d) + 1 : FrameAt(d, n) \in Nat
         /\ \A n \in 1 .. Len(d) :
              /\ FrameAt(d, n + 1) = FrameAt(d, n) + FrameSize(d[n])
              /\ FrameSize(d[n]) \in Nat
         /\ \A m, n \in 1 .. Len(d) + 1 :
              m < n => FrameAt(d, m) + FrameSize(d[m]) <= FrameAt(d, n)
         /\ \A m, n \in 1 .. Len(d) + 1 : m < n => FrameAt(d, m) < FrameAt(d, n)
<1> DEFINE lengths == [n \in DOMAIN d |-> FrameSize(d[n])]
           c == Len(d)
<1>1. c \in Nat /\ DOMAIN d = 1 .. c
  BY ReceiveAssumption
<1>2. \A n \in 1 .. c : FrameSize(d[n]) \in Nat /\ FrameSize(d[n]) >= 16
  BY <1>1, FrameLengths
<1>3. lengths \in Seq(Nat) /\ Len(lengths) = c
  BY <1>1, <1>2
<1>4. \A n : FrameAt(d, n) = SumTo(lengths, n - 1)
  BY DEF FrameAt
<1>5. \A n \in 1 .. c : lengths[n] = FrameSize(d[n])
  BY <1>1
<1> HIDE DEF lengths, c
<1>6. /\ SumTo(lengths, 0) = 0
      /\ \A k \in 0 .. c : SumTo(lengths, k) \in Nat
      /\ \A k \in 1 .. c : SumTo(lengths, k) = SumTo(lengths, k - 1) + lengths[k]
  BY <1>3, SumIs
<1>7. FrameAt(d, 1) = 0
  BY <1>4, <1>6
<1>8. ASSUME NEW n \in 1 .. c + 1 PROVE FrameAt(d, n) \in Nat
  BY <1>1, <1>4, <1>6
<1>9. ASSUME NEW n \in 1 .. c
      PROVE  FrameAt(d, n + 1) = FrameAt(d, n) + FrameSize(d[n])
  <2>1. FrameAt(d, n + 1) = SumTo(lengths, n) /\ FrameAt(d, n) = SumTo(lengths, n - 1)
    <3>1. (n + 1) - 1 = n
      OBVIOUS
    <3> QED
      BY <1>4, <3>1
  <2> QED
    BY <1>1, <1>5, <1>6, <2>1
<1>10. ASSUME NEW m \in 1 .. c + 1, NEW n \in 1 .. c + 1, m < n
       PROVE  /\ FrameAt(d, m) + FrameSize(d[m]) <= FrameAt(d, n)
              /\ FrameAt(d, m) < FrameAt(d, n)
  <2>1. m - 1 \in 0 .. c /\ n - 1 \in 0 .. c /\ m - 1 < n - 1 /\ m \in 1 .. c /\ (m - 1) + 1 = m
    BY <1>1, <1>10
  <2>2. SumTo(lengths, m - 1) + lengths[(m - 1) + 1] <= SumTo(lengths, n - 1)
    BY <1>3, <2>1, SumClimbs
  <2>3. FrameAt(d, m) + FrameSize(d[m]) <= FrameAt(d, n)
    BY <1>4, <1>5, <2>1, <2>2
  <2> QED
    BY <1>2, <1>8, <2>1, <2>3
<1> QED
  BY <1>1, <1>2, <1>7, <1>8, <1>9, <1>10 DEF c

-----------------------------------------------------------------------------
(* The invariant *)

(* What comes before part n of frame k. *)
UpToPart(d, k, n) == {p \in Contents(d) : Before(p, <<k, n>>)}

(* That, in its order, and nothing else has been handled. *)
HandledUpTo(k, n) ==
  /\ handled \in Seq(Contents(datagram))
  /\ {handled[x] : x \in DOMAIN handled} = UpToPart(datagram, k, n)
  /\ \A x, y \in DOMAIN handled : x < y => Before(handled[x], handled[y])

(* The outer loop is at a frame, or in one that has no zero byte. *)
AtFrame(k) ==
  /\ k \in 1 .. Len(datagram) + 1
  /\ i = FrameAt(datagram, k) \/
       (/\ k <= Len(datagram) /\ datagram[k].zero = None
        /\ i \in Nat /\ FrameAt(datagram, k) < i /\ i < FrameAt(datagram, k + 1))

(* An inner loop has passed the parts before n.  It has not come to part n
   yet where a wrong package brought it behind its head only, or a packet
   before its last bytes. *)
AtPart(n) ==
  /\ n \in 1 .. Len(Parts) + 1
  /\ j \in Nat
  /\ j <= PartAt(datagram[frame], n)
  /\ n = 1 => j = 0
  /\ n > 1 => PartAt(datagram[frame], n - 1) < j
  /\ n > 1 /\ loop = "SCH" => PartAt(datagram[frame], n) - DivisionHead <= j

InFrame ==
  /\ frame \in 1 .. Len(datagram)
  /\ loop = datagram[frame].FramHead
  /\ datagram[frame].zero # None
  /\ i = FrameAt(datagram, frame)

Walk ==
  \/ loop = "idle" /\ HandledUpTo(Len(datagram) + 1, 1)
  \/ /\ loop = "frames"
     /\ \E k \in 1 .. Len(datagram) + 1 : AtFrame(k) /\ HandledUpTo(k, 1)
  \/ /\ loop \in {"CCH", "SCH"}
     /\ InFrame
     /\ \E n \in 1 .. Len(Parts) + 1 : AtPart(n) /\ HandledUpTo(frame, n)

(* Before the first datagram there is an empty one. *)
AirInv == /\ datagram \in Datagrams \cup {<<>>}
          /\ datagram = <<>> => loop = "idle"
          /\ Clean(datagram) => Walk

-----------------------------------------------------------------------------
(* What comes before what *)

(* The contents are the parts that are not control, of the frames that match. *)
LEMMA ContentsAre ==
  ASSUME NEW d, NEW p
  PROVE  p \in Contents(d) <=>
           \E k \in DOMAIN d : \E n \in DOMAIN d[k].parts :
             p = <<k, n>> /\ d[k].zero # None /\ d[k].parts[n].kind # "control"
  BY DEF Contents

(* Places are pairs of numbers. *)
LEMMA PlacesAre ==
  ASSUME NEW d \in Datagrams, NEW p \in Contents(d)
  PROVE  /\ p[1] \in 1 .. Len(d) /\ p = <<p[1], p[2]>>
         /\ p[2] \in 1 .. Len(d[p[1]].parts)
         /\ d[p[1]].zero # None /\ d[p[1]].parts[p[2]].kind # "control"
<1>1. PICK k \in DOMAIN d : \E n \in DOMAIN d[k].parts :
        p = <<k, n>> /\ d[k].zero # None /\ d[k].parts[n].kind # "control"
  BY ContentsAre
<1>2. PICK n \in DOMAIN d[k].parts :
        p = <<k, n>> /\ d[k].zero # None /\ d[k].parts[n].kind # "control"
  BY <1>1
<1>3. DOMAIN d = 1 .. Len(d)
  BY FramesClimb
<1>4. DOMAIN d[k].parts = 1 .. Len(d[k].parts)
  BY FrameIs
<1> QED
  BY <1>2, <1>3, <1>4

(* Behind a part comes the next one. *)
LEMMA UpToNext ==
  ASSUME NEW d \in Datagrams, NEW k \in 1 .. Len(d), NEW n \in 1 .. Len(d[k].parts)
  PROVE  /\ d[k].zero # None /\ d[k].parts[n].kind # "control" =>
              UpToPart(d, k, n + 1) = UpToPart(d, k, n) \cup {<<k, n>>}
         /\ d[k].parts[n].kind = "control" =>
              UpToPart(d, k, n + 1) = UpToPart(d, k, n)
<1>0. k \in DOMAIN d /\ n \in DOMAIN d[k].parts /\ k \in Nat /\ n \in Nat
  BY FramesClimb, FrameIs
<1>1. ASSUME NEW p \in Contents(d)
      PROVE  Before(p, <<k, n + 1>>) <=> Before(p, <<k, n>>) \/ p = <<k, n>>
  <2>1. p[1] \in Nat /\ p[2] \in Nat /\ p = <<p[1], p[2]>>
    BY PlacesAre, FramesClimb, <1>1
  <2> QED
    BY <1>0, <2>1 DEF Before
<1>2. ASSUME d[k].zero # None, d[k].parts[n].kind # "control"
      PROVE  <<k, n>> \in Contents(d)
  BY <1>0, <1>2, ContentsAre
<1>3. ASSUME d[k].parts[n].kind = "control" PROVE <<k, n>> \notin Contents(d)
  BY <1>0, <1>3, ContentsAre
<1> QED
  BY <1>1, <1>2, <1>3 DEF UpToPart

(* Behind the last part of a frame, or a frame that does not match, comes the
   next frame. *)
LEMMA UpToNextFrame ==
  ASSUME NEW d \in Datagrams, NEW k \in 1 .. Len(d)
  PROVE  /\ UpToPart(d, k, Len(d[k].parts) + 1) = UpToPart(d, k + 1, 1)
         /\ d[k].zero = None => UpToPart(d, k, 1) = UpToPart(d, k + 1, 1)
<1>0. k \in DOMAIN d /\ k \in Nat /\ Len(d[k].parts) \in Nat
  BY FramesClimb, FrameIs
<1>1. ASSUME NEW p \in Contents(d)
      PROVE  /\ Before(p, <<k, Len(d[k].parts) + 1>>) <=> Before(p, <<k + 1, 1>>)
             /\ d[k].zero = None => (Before(p, <<k, 1>>) <=> Before(p, <<k + 1, 1>>))
  <2>1. /\ p[1] \in Nat /\ p[2] \in Nat /\ p = <<p[1], p[2]>>
        /\ p[2] >= 1 /\ p[2] <= Len(d[p[1]].parts)
        /\ d[p[1]].zero # None
    <3>1. p[1] \in 1 .. Len(d) /\ p[2] \in 1 .. Len(d[p[1]].parts)
      BY PlacesAre, <1>1
    <3>2. Len(d[p[1]].parts) \in Nat
      BY <3>1, FramesClimb, FrameIs
    <3> QED
      BY <3>1, <3>2, PlacesAre, FramesClimb, <1>1
  <2>2. Before(p, <<k + 1, 1>>) <=> p[1] <= k
    BY <1>0, <2>1 DEF Before
  <2>3. Before(p, <<k, Len(d[k].parts) + 1>>) <=> p[1] <= k
    <3>1. Before(p, <<k, Len(d[k].parts) + 1>>) <=>
            p[1] < k \/ (p[1] = k /\ p[2] < Len(d[k].parts) + 1)
      BY DEF Before
    <3>2. p[1] = k => p[2] < Len(d[k].parts) + 1
      BY <1>0, <2>1
    <3> QED
      BY <1>0, <2>1, <3>1, <3>2
  <2>4. d[k].zero = None => p[1] # k
    BY <2>1
  <2>5. Before(p, <<k, 1>>) <=> p[1] < k
    BY <1>0, <2>1 DEF Before
  <2> QED
    BY <1>0, <2>1, <2>2, <2>3, <2>4, <2>5
<1> QED
  BY <1>1 DEF UpToPart

(* Nothing comes before the first frame, and everything before the end. *)
LEMMA UpToEnds ==
  ASSUME NEW d \in Datagrams
  PROVE  UpToPart(d, 1, 1) = {} /\ UpToPart(d, Len(d) + 1, 1) = Contents(d)
<1>1. ASSUME NEW p \in Contents(d)
      PROVE  ~ Before(p, <<1, 1>>) /\ Before(p, <<Len(d) + 1, 1>>)
  <2>1. p[1] \in 1 .. Len(d) /\ p[2] \in 1 .. Len(d[p[1]].parts)
    BY PlacesAre, <1>1
  <2>2. Len(d) \in Nat /\ p[1] \in Nat /\ p[2] \in Nat /\ p[2] >= 1
    BY <2>1, FramesClimb, FrameIs
  <2> QED
    BY <2>1, <2>2 DEF Before
<1> QED
  BY <1>1 DEF UpToPart

(* One more part is handled. *)
LEMMA HandlesNext ==
  ASSUME NEW k \in 1 .. Len(datagram), datagram \in Datagrams,
         NEW n \in 1 .. Len(datagram[k].parts),
         HandledUpTo(k, n),
         datagram[k].zero # None, datagram[k].parts[n].kind # "control",
         handled' = Append(handled, <<k, n>>), datagram' = datagram
  PROVE  HandledUpTo(k, n + 1)'
<1> DEFINE C == Contents(datagram)
           e == <<k, n>>
<1>1. k \in DOMAIN datagram /\ n \in DOMAIN datagram[k].parts
  BY FramesClimb, FrameIs
<1>2. e \in C
  BY <1>1, ContentsAre
<1>3. UpToPart(datagram, k, n + 1) = UpToPart(datagram, k, n) \cup {e}
  BY UpToNext
<1>4. /\ handled \in Seq(C)
      /\ {handled[x] : x \in DOMAIN handled} = UpToPart(datagram, k, n)
      /\ \A x, y \in DOMAIN handled : x < y => Before(handled[x], handled[y])
  BY DEF HandledUpTo
<1>5. \A x \in DOMAIN handled : Before(handled[x], e)
  BY <1>4 DEF UpToPart
<1> HIDE DEF C, e
<1> DEFINE l == Len(handled)
<1>6. /\ l \in Nat /\ DOMAIN handled = 1 .. l
      /\ handled' \in Seq(C) /\ DOMAIN handled' = 1 .. l + 1
      /\ \A x \in 1 .. l : handled'[x] = handled[x]
      /\ handled'[l + 1] = e
  BY <1>2, <1>4 DEF e
<1> HIDE DEF l
<1>7. {handled'[x] : x \in DOMAIN handled'} = UpToPart(datagram, k, n + 1)
  <2>1. {handled'[x] : x \in DOMAIN handled'} = {handled[x] : x \in DOMAIN handled} \cup {e}
    <3>1. \A x \in 1 .. l + 1 : x \in 1 .. l \/ x = l + 1
      BY <1>6
    <3>2. l + 1 \in 1 .. l + 1 /\ 1 .. l \subseteq 1 .. l + 1
      BY <1>6
    <3> QED
      BY <1>6, <3>1, <3>2
  <2> QED
    BY <1>3, <1>4, <2>1
<1>8. \A x, y \in DOMAIN handled' : x < y => Before(handled'[x], handled'[y])
  <2> SUFFICES ASSUME NEW x \in 1 .. l + 1, NEW y \in 1 .. l + 1, x < y
               PROVE  Before(handled'[x], handled'[y])
    BY <1>6
  <2>1. x \in 1 .. l /\ (y \in 1 .. l \/ y = l + 1)
    BY <1>6
  <2>2. CASE y \in 1 .. l
    <3>1. Before(handled[x], handled[y])
      BY <1>4, <1>6, <2>1, <2>2
    <3> QED
      BY <1>6, <2>1, <2>2, <3>1
  <2>3. CASE y = l + 1
    <3>1. Before(handled[x], e)
      BY <1>5, <1>6, <2>1
    <3> QED
      BY <1>6, <2>1, <2>3, <3>1
  <2> QED
    BY <2>1, <2>2, <2>3
<1> QED
  BY <1>6, <1>7, <1>8 DEF HandledUpTo, C

-----------------------------------------------------------------------------
(* The outer loop *)

(* A datagram arrives: the walk begins at its first frame. *)
LEMMA ArrivalStep == AirInv /\ RecvPackage_from_UE_MAC_U => AirInv'
<1> SUFFICES ASSUME AirInv, RecvPackage_from_UE_MAC_U PROVE AirInv'
  OBVIOUS
<1>1. datagram' \in Datagrams /\ loop' = "frames" /\ i' = 0 /\ handled' = <<>>
  BY DEF RecvPackage_from_UE_MAC_U
<1>2. Len(datagram') \in Nat /\ FrameAt(datagram', 1) = 0 /\ UpToPart(datagram', 1, 1) = {}
  BY <1>1, FramesClimb, UpToEnds
<1>3. AtFrame(1)'
  BY <1>1, <1>2 DEF AtFrame
<1>4. HandledUpTo(1, 1)'
  BY <1>1, <1>2 DEF HandledUpTo
<1>5. \E k \in 1 .. Len(datagram') + 1 : AtFrame(k)' /\ HandledUpTo(k, 1)'
  BY <1>2, <1>3, <1>4
<1>6. Walk'
  BY <1>1, <1>5 DEF Walk
<1>7. datagram' # <<>>
  BY <1>1, ReceiveAssumption
<1> QED
  BY <1>1, <1>6, <1>7 DEF AirInv

(* Where the outer loop is in a datagram that is clean. *)
LEMMA AtSomeFrame ==
  ASSUME AirInv, Clean(datagram), loop = "frames"
  PROVE  /\ datagram \in Datagrams
         /\ \E k \in 1 .. Len(datagram) + 1 : AtFrame(k) /\ HandledUpTo(k, 1)
  BY DEF AirInv, Walk

(* Only one frame begins where the loop is, and the loop does not come to it
   from inside of another one. *)
LEMMA OneFrame ==
  ASSUME datagram \in Datagrams, NEW k, AtFrame(k),
         NEW m \in 1 .. Len(datagram) + 1, FrameAt(datagram, m) = i
  PROVE  k = m
<1>1. /\ Len(datagram) \in Nat
      /\ \A a \in 1 .. Len(datagram) + 1 : FrameAt(datagram, a) \in Nat
      /\ \A a, b \in 1 .. Len(datagram) + 1 :
           a < b => FrameAt(datagram, a) < FrameAt(datagram, b)
  BY FramesClimb
<1>2. k \in 1 .. Len(datagram) + 1
  BY DEF AtFrame
<1>3. CASE i = FrameAt(datagram, k)
  <2>1. ~(k < m) /\ ~(m < k)
    BY <1>1, <1>2, <1>3
  <2> QED
    BY <1>1, <1>2, <2>1
<1>4. CASE /\ k <= Len(datagram)
           /\ FrameAt(datagram, k) < i /\ i < FrameAt(datagram, k + 1)
  <2>1. k + 1 \in 1 .. Len(datagram) + 1
    BY <1>1, <1>2, <1>4
  <2>2. ~(k + 1 < m) /\ m # k + 1 /\ ~(m < k) /\ m # k
    BY <1>1, <1>2, <1>4, <2>1
  <2> QED
    BY <1>1, <1>2, <2>2
<1> QED
  BY <1>3, <1>4 DEF AtFrame

(* In a clean datagram the zero byte that makes a frame match is the first of
   its address. *)
LEMMA MatchIsHead ==
  ASSUME datagram \in Datagrams, Clean(datagram), NEW k \in Matches
  PROVE  /\ k \in 1 .. Len(datagram)
         /\ FrameAt(datagram, k) = i
         /\ datagram[k].zero # None
         /\ datagram[k].FramHead \in {"CCH", "SCH"}
<1>1. /\ k \in DOMAIN datagram /\ datagram[k].zero # None
      /\ FrameAt(datagram, k) + datagram[k].zero - 2 = i
  BY DEF Matches
<1>2. datagram[k].zero = 2 /\ datagram[k].FramHead # "unknown"
  BY <1>1 DEF Clean
<1>3. /\ k \in 1 .. Len(datagram)
      /\ datagram[k].FramHead \in {"CCH", "SCH", "unknown"}
  BY <1>1, FramesClimb, FrameIs
<1>4. FrameAt(datagram, k) \in Nat
  BY <1>3, FramesClimb
<1>5. FrameAt(datagram, k) = i
  BY <1>1, <1>2, <1>4
<1> QED
  BY <1>1, <1>2, <1>3, <1>5

(* An inner loop begins at the first part of the frame found. *)
LEMMA UnpackStep == AirInv /\ Unpack => AirInv'
<1> SUFFICES ASSUME AirInv, Unpack PROVE AirInv'
  OBVIOUS
<1>1. PICK m \in Matches : frame' = m /\ loop' = datagram[m].FramHead
  BY DEF Unpack
<1>2. /\ loop = "frames" /\ j' = 0 /\ i' = i
      /\ datagram' = datagram /\ handled' = handled
  BY DEF Unpack, Inside, walk, effects
<1>3. ASSUME Clean(datagram) PROVE Walk'
  <2>1. /\ datagram \in Datagrams
        /\ \E k \in 1 .. Len(datagram) + 1 : AtFrame(k) /\ HandledUpTo(k, 1)
    BY <1>2, <1>3, AtSomeFrame
  <2>2. PICK k \in 1 .. Len(datagram) + 1 : AtFrame(k) /\ HandledUpTo(k, 1)
    BY <2>1
  <2>3. /\ m \in 1 .. Len(datagram) /\ FrameAt(datagram, m) = i
        /\ datagram[m].zero # None /\ datagram[m].FramHead \in {"CCH", "SCH"}
    BY <1>3, <2>1, MatchIsHead
  <2>4. k = m
    <3>1. m \in 1 .. Len(datagram) + 1
      BY <2>3
    <3> QED
      BY <2>1, <2>2, <2>3, <3>1, OneFrame
  <2>5. HandledUpTo(m, 1)'
    BY <1>2, <2>2, <2>4 DEF HandledUpTo
  <2>6. datagram[m].parts \in Seq(Part) /\ PartAt(datagram[m], 1) = 0
    <3>1. m \in DOMAIN datagram
      BY <2>1, <2>3, FramesClimb
    <3>2. datagram[m].parts \in Seq(Part)
      BY <2>1, <3>1, FrameIs
    <3> QED
      BY <3>2, PartsClimb
  <2>7. AtPart(1)' /\ 1 \in (1 .. Len(Parts) + 1)'
    BY <1>1, <1>2, <2>6 DEF AtPart, Parts
  <2>8. InFrame'
    BY <1>1, <1>2, <2>3 DEF InFrame
  <2>9. HandledUpTo(frame, 1)'
    BY <1>1, <2>5 DEF HandledUpTo
  <2>10. (\E n \in 1 .. Len(Parts) + 1 : AtPart(n) /\ HandledUpTo(frame, n))'
    BY <2>7, <2>9
  <2> QED
    BY <1>1, <2>3, <2>8, <2>10 DEF Walk
<1>4. datagram # <<>>
  BY <1>2 DEF AirInv
<1> QED
  BY <1>2, <1>3, <1>4 DEF AirInv

(* A byte without a match is one of a frame without a zero byte, or the loop
   would have taken the head. *)
LEMMA NextByteStep == AirInv /\ NextByte => AirInv'
<1> SUFFICES ASSUME AirInv, NextByte PROVE AirInv'
  OBVIOUS
<1>1. /\ loop = "frames" /\ i < Bytes(datagram) /\ Matches = {}
      /\ i' = i + 1 /\ loop' = loop
      /\ datagram' = datagram /\ handled' = handled
  BY DEF NextByte, Inside, walk, effects
<1>2. ASSUME Clean(datagram) PROVE Walk'
  <2>1. /\ datagram \in Datagrams
        /\ \E k \in 1 .. Len(datagram) + 1 : AtFrame(k) /\ HandledUpTo(k, 1)
    BY <1>1, <1>2, AtSomeFrame
  <2>2. PICK k \in 1 .. Len(datagram) + 1 : AtFrame(k) /\ HandledUpTo(k, 1)
    BY <2>1
  <2>3. /\ Len(datagram) \in Nat /\ DOMAIN datagram = 1 .. Len(datagram)
        /\ \A a \in 1 .. Len(datagram) + 1 : FrameAt(datagram, a) \in Nat
        /\ \A a, b \in 1 .. Len(datagram) + 1 :
             a < b => FrameAt(datagram, a) < FrameAt(datagram, b)
    BY <2>1, FramesClimb
  <2>4. k <= Len(datagram) /\ i \in Nat
    <3>1. i \in Nat
      BY <2>2, <2>3 DEF AtFrame
    <3>2. i # FrameAt(datagram, Len(datagram) + 1)
      BY <1>1, <2>3, <3>1 DEF Bytes
    <3>3. k # Len(datagram) + 1
      BY <2>2, <2>3, <3>2 DEF AtFrame
    <3> QED
      BY <2>3, <3>1, <3>3
  <2>5. datagram[k].zero = None
    <3>1. CASE i = FrameAt(datagram, k)
      <4> SUFFICES ASSUME datagram[k].zero # None PROVE FALSE
        OBVIOUS
      <4>1. k \in DOMAIN datagram
        BY <2>3, <2>4
      <4>2. datagram[k].zero = 2
        BY <1>2, <4>1 DEF Clean
      <4>3. FrameAt(datagram, k) + datagram[k].zero - 2 = i
        BY <3>1, <2>4, <4>2
      <4>4. k \in Matches
        BY <4>1, <4>3 DEF Matches
      <4> QED
        BY <1>1, <4>4
    <3>2. CASE i # FrameAt(datagram, k)
      BY <2>2, <3>2 DEF AtFrame
    <3> QED
      BY <3>1, <3>2
  <2>6. k + 1 \in 1 .. Len(datagram) + 1 /\ k \in 1 .. Len(datagram)
    BY <2>3, <2>4
  <2>7. FrameAt(datagram, k) <= i /\ i < FrameAt(datagram, k + 1)
    BY <2>2, <2>3, <2>6 DEF AtFrame
  <2>8. CASE i + 1 < FrameAt(datagram, k + 1)
    <3>1. AtFrame(k)' /\ HandledUpTo(k, 1)'
      BY <1>1, <2>2, <2>3, <2>4, <2>5, <2>6, <2>7, <2>8 DEF AtFrame, HandledUpTo
    <3>2. \E a \in 1 .. Len(datagram') + 1 : AtFrame(a)' /\ HandledUpTo(a, 1)'
      BY <1>1, <3>1
    <3> QED
      BY <1>1, <3>2 DEF Walk
  <2>9. CASE i + 1 = FrameAt(datagram, k + 1)
    <3>1. UpToPart(datagram, k, 1) = UpToPart(datagram, k + 1, 1)
      BY <2>1, <2>5, <2>6, UpToNextFrame
    <3>2. HandledUpTo(k + 1, 1)'
      BY <1>1, <2>2, <3>1 DEF HandledUpTo
    <3>3. AtFrame(k + 1)'
      BY <1>1, <2>6, <2>9 DEF AtFrame
    <3>4. \E a \in 1 .. Len(datagram') + 1 : AtFrame(a)' /\ HandledUpTo(a, 1)'
      BY <1>1, <2>6, <3>2, <3>3
    <3> QED
      BY <1>1, <3>4 DEF Walk
  <2> QED
    BY <2>3, <2>4, <2>6, <2>7, <2>8, <2>9
<1> QED
  BY <1>1, <1>2 DEF AirInv

(* At the end everything is handled. *)
LEMMA LeaveStep == AirInv /\ Leave => AirInv'
<1> SUFFICES ASSUME AirInv, Leave PROVE AirInv'
  OBVIOUS
<1>1. /\ loop = "frames" /\ i >= Bytes(datagram) /\ loop' = "idle"
      /\ datagram' = datagram /\ handled' = handled
  BY DEF Leave, walk, effects
<1>2. ASSUME Clean(datagram) PROVE Walk'
  <2>1. /\ datagram \in Datagrams
        /\ \E k \in 1 .. Len(datagram) + 1 : AtFrame(k) /\ HandledUpTo(k, 1)
    BY <1>1, <1>2, AtSomeFrame
  <2>2. PICK k \in 1 .. Len(datagram) + 1 : AtFrame(k) /\ HandledUpTo(k, 1)
    BY <2>1
  <2>3. /\ Len(datagram) \in Nat
        /\ \A a \in 1 .. Len(datagram) + 1 : FrameAt(datagram, a) \in Nat
        /\ \A a, b \in 1 .. Len(datagram) + 1 :
             a < b => FrameAt(datagram, a) < FrameAt(datagram, b)
    BY <2>1, FramesClimb
  <2>4. k = Len(datagram) + 1
    <3> SUFFICES ASSUME k <= Len(datagram) PROVE FALSE
      BY <2>3
    <3>1. k \in 1 .. Len(datagram) + 1 /\ k + 1 \in 1 .. Len(datagram) + 1
      BY <2>3
    <3>2. FrameAt(datagram, k) < FrameAt(datagram, Len(datagram) + 1)
      BY <2>3
    <3>3. FrameAt(datagram, k + 1) <= FrameAt(datagram, Len(datagram) + 1)
      <4>1. CASE k + 1 = Len(datagram) + 1
        BY <2>3, <3>1, <4>1
      <4>2. CASE k + 1 < Len(datagram) + 1
        BY <2>3, <3>1, <4>2
      <4> QED
        BY <2>3, <3>1, <4>1, <4>2
    <3>4. CASE i = FrameAt(datagram, k)
      BY <1>1, <2>3, <3>1, <3>2, <3>4 DEF Bytes
    <3>5. CASE i \in Nat /\ i < FrameAt(datagram, k + 1)
      BY <1>1, <2>3, <3>1, <3>3, <3>5 DEF Bytes
    <3> QED
      BY <2>2, <3>4, <3>5 DEF AtFrame
  <2>5. HandledUpTo(Len(datagram) + 1, 1)'
    BY <1>1, <2>2, <2>4 DEF HandledUpTo
  <2> QED
    BY <1>1, <2>5 DEF Walk
<1>3. datagram # <<>>
  BY <1>1 DEF AirInv
<1> QED
  BY <1>1, <1>2 DEF AirInv

-----------------------------------------------------------------------------
(* The inner loops *)

(* Where an inner loop is in a datagram that is clean. *)
LEMMA AtSomePart ==
  ASSUME AirInv, Clean(datagram), loop \in {"CCH", "SCH"}
  PROVE  /\ datagram \in Datagrams
         /\ InFrame
         /\ \E n \in 1 .. Len(Parts) + 1 : AtPart(n) /\ HandledUpTo(frame, n)
  BY DEF AirInv, Walk

(* The offsets in the frame that is unpacked. *)
LEMMA Offsets ==
  ASSUME datagram \in Datagrams, InFrame
  PROVE  /\ frame \in DOMAIN datagram /\ Len(Parts) \in Nat
         /\ DOMAIN Parts = 1 .. Len(Parts) /\ \A n \in 1 .. Len(Parts) : Parts[n] \in Part
         /\ PartAt(datagram[frame], 1) = 0
         /\ \A n \in 1 .. Len(Parts) + 1 : PartAt(datagram[frame], n) \in Nat
         /\ \A n \in 1 .. Len(Parts) :
              /\ PartAt(datagram[frame], n + 1)
                   = PartAt(datagram[frame], n) + SCH_DATA_Packaging(Parts[n])
              /\ SCH_DATA_Packaging(Parts[n]) \in Nat /\ SCH_DATA_Packaging(Parts[n]) >= 18
         /\ \A m, n \in 1 .. Len(Parts) + 1 :
              m < n => PartAt(datagram[frame], m) < PartAt(datagram[frame], n)
<1>1. frame \in DOMAIN datagram
  BY FramesClimb DEF InFrame
<1>2. Parts \in Seq(Part) /\ Parts = datagram[frame].parts
  BY <1>1, FrameIs DEF Parts
<1>3. Len(Parts) \in Nat /\ DOMAIN Parts = 1 .. Len(Parts) /\ \A n \in 1 .. Len(Parts) : Parts[n] \in Part
  BY <1>2
<1>4. \A n \in 1 .. Len(Parts) :
        SCH_DATA_Packaging(Parts[n]) \in Nat /\ SCH_DATA_Packaging(Parts[n]) >= 18
  BY <1>3, PartSizes
<1>5. /\ PartAt(datagram[frame], 1) = 0
      /\ \A n \in 1 .. Len(Parts) + 1 : PartAt(datagram[frame], n) \in Nat
      /\ \A n \in 1 .. Len(Parts) :
           PartAt(datagram[frame], n + 1)
             = PartAt(datagram[frame], n) + SCH_DATA_Packaging(Parts[n])
      /\ \A m, n \in 1 .. Len(Parts) + 1 :
           m < n => PartAt(datagram[frame], m) + SCH_DATA_Packaging(Parts[m])
                      <= PartAt(datagram[frame], n)
  BY <1>2, PartsClimb
<1>6. ASSUME NEW m \in 1 .. Len(Parts) + 1, NEW n \in 1 .. Len(Parts) + 1, m < n
      PROVE  PartAt(datagram[frame], m) < PartAt(datagram[frame], n)
  <2>1. m \in 1 .. Len(Parts)
    BY <1>3, <1>6
  <2>2. PartAt(datagram[frame], m) + SCH_DATA_Packaging(Parts[m]) <= PartAt(datagram[frame], n)
    BY <1>5, <1>6
  <2> QED
    BY <1>4, <1>5, <2>1, <2>2
<1> QED
  BY <1>1, <1>3, <1>4, <1>5, <1>6

(* The loop finds the next part and no other. *)
LEMMA ReachesNext ==
  ASSUME datagram \in Datagrams, InFrame, NEW n, AtPart(n)
  PROVE  /\ Reached \subseteq {n}
         /\ n \in Reached <=> j = PartAt(datagram[frame], n) /\ n <= Len(Parts)
<1> DEFINE P(k) == PartAt(datagram[frame], k)
           c == Len(Parts)
<1>1. /\ c \in Nat /\ DOMAIN Parts = 1 .. c
      /\ \A k \in 1 .. c + 1 : P(k) \in Nat
      /\ \A a, b \in 1 .. c + 1 : a < b => P(a) < P(b)
  BY Offsets
<1>2. /\ n \in 1 .. c + 1 /\ j \in Nat /\ j <= P(n)
      /\ n > 1 => P(n - 1) < j
  BY DEF AtPart
<1>3. Reached = {k \in 1 .. c : P(k) = j}
  BY <1>1 DEF Reached
<1> HIDE DEF P, c
<1>4. ASSUME NEW m \in 1 .. c, P(m) = j PROVE m = n
  <2>1. m \in 1 .. c + 1
    BY <1>1
  <2>2. ~(n < m)
    BY <1>1, <1>2, <1>4, <2>1
  <2>3. ~(m < n)
    <3> SUFFICES ASSUME m < n PROVE FALSE
      OBVIOUS
    <3>1. n > 1 /\ n - 1 \in 1 .. c + 1 /\ (m < n - 1 \/ m = n - 1)
      BY <1>1, <1>2, <2>1
    <3>2. P(m) <= P(n - 1)
      BY <1>1, <2>1, <3>1
    <3> QED
      BY <1>1, <1>2, <1>4, <2>1, <3>1, <3>2
  <2> QED
    BY <1>1, <1>2, <2>1, <2>2, <2>3
<1> QED
  BY <1>1, <1>2, <1>3, <1>4 DEF P, c

(* Until it does, it is before the part, and not at the beginning. *)
LEMMA NotReached ==
  ASSUME datagram \in Datagrams, InFrame, NEW n, AtPart(n), Reached = {},
         j < PartAt(datagram[frame], Len(Parts) + 1)
  PROVE  n > 1 /\ j < PartAt(datagram[frame], n)
<1>1. /\ Len(Parts) \in Nat
      /\ PartAt(datagram[frame], 1) = 0
      /\ \A k \in 1 .. Len(Parts) + 1 : PartAt(datagram[frame], k) \in Nat
  BY Offsets
<1>2. /\ n \in 1 .. Len(Parts) + 1 /\ j \in Nat
      /\ j <= PartAt(datagram[frame], n) /\ (n = 1 => j = 0)
  BY DEF AtPart
<1>3. ~(j = PartAt(datagram[frame], n) /\ n <= Len(Parts))
  BY ReachesNext
<1>4. n = Len(Parts) + 1 \/ n <= Len(Parts)
  BY <1>1, <1>2
<1>5. j < PartAt(datagram[frame], n)
  BY <1>1, <1>2, <1>3, <1>4
<1> QED
  BY <1>1, <1>2, <1>5

(* No packet of a clean datagram holds a head where its last bytes are walked
   over. *)
LEMMA NoEcho ==
  ASSUME datagram \in Datagrams, Clean(datagram), InFrame, loop = "SCH",
         NEW n, AtPart(n)
  PROVE  Echoes = {}
<1> SUFFICES ASSUME NEW k \in Echoes PROVE FALSE
  OBVIOUS
<1> DEFINE P(m) == PartAt(datagram[frame], m)
           c == Len(Parts)
           l == Parts[k].Data_len
           echo == Parts[k].echo
<1>1. /\ frame \in DOMAIN datagram
      /\ c \in Nat /\ DOMAIN Parts = 1 .. c /\ \A m \in 1 .. c : Parts[m] \in Part
      /\ \A m \in 1 .. c + 1 : P(m) \in Nat
      /\ \A m \in 1 .. c : P(m + 1) = P(m) + SCH_DATA_Packaging(Parts[m])
      /\ \A a, b \in 1 .. c + 1 : a < b => P(a) < P(b)
  BY Offsets
<1>2. /\ k \in 1 .. c /\ Parts[k].kind = "packet" /\ echo > 0
      /\ P(k) + SCH_DATA_Packaging(Parts[k]) - echo = j
  BY <1>1 DEF Echoes
<1>3. /\ l \in Nat /\ echo \in Nat /\ SCH_DATA_Packaging(Parts[k]) = 18 + l
      /\ echo # 1 /\ echo <= 14 + l
  <2>1. Parts[k] \in Part
    BY <1>1, <1>2
  <2>2. /\ SCH_DATA_Packaging(Parts[k]) = 4 + PartSize(Parts[k])
        /\ l \in Nat /\ echo \in Nat /\ PartSize(Parts[k]) = 14 + l
        /\ echo # 1 /\ echo <= 14 + l
    BY <1>2, <2>1, PartSizes
  <2> QED
    BY <2>2
<1>4. echo \notin 2 .. 14
  BY <1>1, <1>2 DEF Clean, Parts, DivisionHead
<1>5. /\ n \in 1 .. c + 1 /\ j \in Nat /\ j <= P(n)
      /\ n > 1 => P(n - 1) < j
      /\ n > 1 => P(n) - 14 <= j
  BY DEF AtPart, DivisionHead
<1>6. P(k + 1) = P(k) + (18 + l) /\ P(k) \in Nat /\ k \in 1 .. c + 1 /\ k + 1 \in 1 .. c + 1
  BY <1>1, <1>2, <1>3
<1> HIDE DEF P, c, l, echo
<1>7. P(k) + 4 <= j /\ j < P(k + 1) - 14
  BY <1>2, <1>3, <1>4, <1>5, <1>6
<1>8. k < n
  <2> SUFFICES ASSUME n <= k PROVE FALSE
    BY <1>1, <1>5, <1>6
  <2>1. P(n) <= P(k)
    <3>1. CASE n = k
      BY <1>6, <3>1
    <3>2. CASE n < k
      BY <1>1, <1>5, <1>6, <3>2
    <3> QED
      BY <1>1, <1>5, <1>6, <3>1, <3>2
  <2>2. P(n) \in Nat
    BY <1>1, <1>5
  <2> QED
    BY <1>5, <1>6, <1>7, <2>1, <2>2
<1>9. n > 1 /\ n - 1 \in 1 .. c + 1 /\ P(n) \in Nat /\ P(n - 1) \in Nat
  BY <1>1, <1>5, <1>6, <1>8
<1>10. CASE k + 1 = n
  BY <1>5, <1>7, <1>9, <1>10
<1>11. CASE k + 1 < n
  <2>1. k + 1 = n - 1 \/ k + 1 < n - 1
    BY <1>1, <1>5, <1>6, <1>11
  <2>2. P(k + 1) <= P(n - 1)
    BY <1>1, <1>6, <1>9, <2>1
  <2>3. P(k + 1) \in Nat
    BY <1>1, <1>6
  <2> QED
    BY <1>5, <1>7, <1>9, <2>2, <2>3
<1>12. k + 1 = n \/ k + 1 < n
  <2>1. k \in Nat /\ n \in Nat
    BY <1>1, <1>5, <1>6
  <2> QED
    BY <1>8, <2>1
<1> QED
  BY <1>10, <1>11, <1>12

(* One more byte. *)
LEMMA StepOverByte ==
  ASSUME AirInv, Clean(datagram), loop \in {"CCH", "SCH"},
         NEW n, AtPart(n), HandledUpTo(frame, n), n > 1,
         j < PartAt(datagram[frame], n), j' = j + 1,
         UNCHANGED <<datagram, i, loop, frame, handled>>
  PROVE  Walk'
<1>1. datagram \in Datagrams /\ InFrame
  BY AtSomePart
<1>2. /\ Len(Parts) \in Nat
      /\ \A k \in 1 .. Len(Parts) + 1 : PartAt(datagram[frame], k) \in Nat
  BY <1>1, Offsets
<1>3. InFrame'
  BY <1>1 DEF InFrame
<1>4. AtPart(n)'
  <2>1. /\ n \in 1 .. Len(Parts) + 1 /\ j \in Nat
        /\ PartAt(datagram[frame], n - 1) < j
        /\ loop = "SCH" => PartAt(datagram[frame], n) - 14 <= j
    BY DEF AtPart, DivisionHead
  <2>2. /\ PartAt(datagram[frame], n) \in Nat /\ PartAt(datagram[frame], n - 1) \in Nat
        /\ n # 1
    <3>1. n - 1 \in 1 .. Len(Parts) + 1
      BY <1>2, <2>1
    <3> QED
      BY <1>2, <2>1, <3>1
  <2>3. /\ j + 1 \in Nat /\ j + 1 <= PartAt(datagram[frame], n)
        /\ PartAt(datagram[frame], n - 1) < j + 1
        /\ loop = "SCH" => PartAt(datagram[frame], n) - 14 <= j + 1
    BY <2>1, <2>2
  <2> QED
    BY <2>1, <2>2, <2>3 DEF AtPart, Parts, DivisionHead
<1>5. HandledUpTo(frame, n)'
  BY DEF HandledUpTo
<1>6. (\E m \in 1 .. Len(Parts) + 1 : AtPart(m) /\ HandledUpTo(frame, m))'
  <2>1. n \in (1 .. Len(Parts) + 1)'
    BY <1>4 DEF AtPart
  <2> QED
    BY <1>4, <1>5, <2>1
<1> QED
  BY <1>3, <1>6 DEF Walk

(* A part is passed, up to its end or not quite so far. *)
LEMMA StepOverPart ==
  ASSUME AirInv, Clean(datagram), loop \in {"CCH", "SCH"},
         NEW n \in 1 .. Len(Parts), HandledUpTo(frame, n + 1)',
         j = PartAt(datagram[frame], n), NEW step \in Nat, j' = j + step,
         0 < step, step <= SCH_DATA_Packaging(Parts[n]),
         loop = "SCH" => SCH_DATA_Packaging(Parts[n]) - 14 <= step,
         UNCHANGED <<datagram, i, loop, frame>>
  PROVE  Walk'
<1>1. datagram \in Datagrams /\ InFrame
  BY AtSomePart
<1>2. /\ Len(Parts) \in Nat
      /\ PartAt(datagram[frame], n) \in Nat
      /\ PartAt(datagram[frame], n + 1)
           = PartAt(datagram[frame], n) + SCH_DATA_Packaging(Parts[n])
      /\ SCH_DATA_Packaging(Parts[n]) \in Nat
  <2>1. n \in 1 .. Len(Parts) + 1
    BY <1>1, Offsets
  <2> QED
    BY <1>1, <2>1, Offsets
<1>3. InFrame'
  BY <1>1 DEF InFrame
<1>4. n + 1 \in 1 .. Len(Parts) + 1 /\ n + 1 > 1 /\ n + 1 # 1 /\ (n + 1) - 1 = n
  BY <1>2
<1>5. /\ j' \in Nat /\ j' <= PartAt(datagram[frame], n + 1)
      /\ PartAt(datagram[frame], n) < j'
      /\ loop = "SCH" => PartAt(datagram[frame], n + 1) - 14 <= j'
  BY <1>2
<1>6. AtPart(n + 1)'
  BY <1>4, <1>5 DEF AtPart, Parts, DivisionHead
<1>7. (\E m \in 1 .. Len(Parts) + 1 : AtPart(m) /\ HandledUpTo(frame, m))'
  <2>1. n + 1 \in (1 .. Len(Parts) + 1)'
    BY <1>6 DEF AtPart
  <2> QED
    BY <1>6, <2>1
<1> QED
  BY <1>3, <1>7 DEF Walk

(* A report or a request is handled, and a wrong package is stepped into. *)
LEMMA ControlStep == AirInv /\ CCH_unpacking => AirInv'
<1> SUFFICES ASSUME AirInv, CCH_unpacking PROVE AirInv'
  OBVIOUS
<1>1. /\ loop = "CCH" /\ j < Size
      /\ UNCHANGED <<datagram, i, loop, frame>>
  BY DEF CCH_unpacking, walk
<1>2. ASSUME Clean(datagram) PROVE Walk'
  <2>1. /\ datagram \in Datagrams /\ InFrame
        /\ \E n \in 1 .. Len(Parts) + 1 : AtPart(n) /\ HandledUpTo(frame, n)
    BY <1>1, <1>2, AtSomePart
  <2>2. PICK n \in 1 .. Len(Parts) + 1 : AtPart(n) /\ HandledUpTo(frame, n)
    BY <2>1
  <2>3. CASE Reached = {}
    <3>1. j' = j + 1 /\ handled' = handled
      BY <2>3 DEF CCH_unpacking, effects
    <3>2. j < PartAt(datagram[frame], Len(Parts) + 1)
      <4>1. Size <= PartAt(datagram[frame], Len(Parts) + 1)
        BY <1>1, <2>1, Offsets, FrameLengths DEF Size, Parts, InFrame
      <4>2. frame \in DOMAIN datagram /\ PartAt(datagram[frame], Len(Parts) + 1) \in Nat
        BY <2>1, Offsets
      <4>3. j \in Nat /\ Size \in Nat
        BY <1>1, <2>1, <2>2, <4>2, FrameIs, ControlArea DEF AtPart, Size, InFrame, Parts
      <4> QED
        BY <1>1, <4>1, <4>2, <4>3
    <3>3. n > 1 /\ j < PartAt(datagram[frame], n)
      BY <2>1, <2>2, <2>3, <3>2, NotReached
    <3> QED
      BY <1>1, <1>2, <2>2, <3>1, <3>3, StepOverByte
  <2>4. CASE Reached # {}
    <3>1. PICK k \in Reached :
            /\ j' = j + Advance(Parts[k])
            /\ handled' = IF Parts[k].kind = "control" THEN handled
                            ELSE Append(handled, <<frame, k>>)
      BY <2>4 DEF CCH_unpacking
    <3>2. k = n /\ n \in 1 .. Len(Parts) /\ j = PartAt(datagram[frame], n)
      BY <2>1, <2>2, <3>1, ReachesNext
    <3>3. /\ frame \in DOMAIN datagram /\ Parts[n] \in Part
          /\ SCH_DATA_Packaging(Parts[n]) \in Nat /\ SCH_DATA_Packaging(Parts[n]) >= 18
      BY <2>1, <3>2, Offsets
    <3>4. datagram[frame].zero # None /\ Parts = datagram[frame].parts /\ frame \in 1 .. Len(datagram)
      BY <2>1 DEF InFrame, Parts
    <3>5. HandledUpTo(frame, n + 1)'
      <4>1. CASE Parts[n].kind = "control"
        <5>1. UpToPart(datagram, frame, n + 1) = UpToPart(datagram, frame, n)
          BY <2>1, <3>2, <3>4, <4>1, UpToNext
        <5> QED
          BY <1>1, <2>2, <3>1, <3>2, <4>1, <5>1 DEF HandledUpTo
      <4>2. CASE Parts[n].kind # "control"
        <5>1. handled' = Append(handled, <<frame, n>>)
          BY <3>1, <3>2, <4>2
        <5>2. HandledUpTo(frame, n)
          BY <2>2
        <5> DEFINE f == frame
        <5>3. /\ f \in 1 .. Len(datagram) /\ n \in 1 .. Len(datagram[f].parts)
              /\ HandledUpTo(f, n)
              /\ datagram[f].zero # None /\ datagram[f].parts[n].kind # "control"
              /\ handled' = Append(handled, <<f, n>>) /\ datagram' = datagram
          BY <1>1, <3>2, <3>4, <4>2, <5>1, <5>2
        <5>4. HandledUpTo(frame, n + 1)'
          BY <1>1, <2>1, <5>3, HandlesNext
        <5> QED
          BY <5>4
      <4> QED
        BY <4>1, <4>2
    <3>6. Advance(Parts[n]) \in Nat /\ 0 < Advance(Parts[n])
          /\ Advance(Parts[n]) <= SCH_DATA_Packaging(Parts[n])
      BY <3>3 DEF Advance, MsgHead
    <3>7. j' = j + Advance(Parts[n])
      BY <3>1, <3>2
    <3> DEFINE step == Advance(Parts[n])
    <3>8. step \in Nat /\ 0 < step /\ step <= SCH_DATA_Packaging(Parts[n]) /\ j' = j + step
      BY <3>6, <3>7
    <3> HIDE DEF step
    <3> QED
      BY <1>1, <1>2, <3>2, <3>5, <3>8, StepOverPart
  <2> QED
    BY <2>3, <2>4
<1> QED
  BY <1>1, <1>2 DEF AirInv

(* A packet is handed up, and the walk goes on in its last bytes. *)
LEMMA PacketStep == AirInv /\ SCH_unpacking => AirInv'
<1> SUFFICES ASSUME AirInv, SCH_unpacking PROVE AirInv'
  OBVIOUS
<1>1. /\ loop = "SCH" /\ j < Size
      /\ UNCHANGED <<datagram, i, loop, frame>>
  BY DEF SCH_unpacking, walk
<1>2. ASSUME Clean(datagram) PROVE Walk'
  <2>1. /\ datagram \in Datagrams /\ InFrame
        /\ \E n \in 1 .. Len(Parts) + 1 : AtPart(n) /\ HandledUpTo(frame, n)
    BY <1>1, <1>2, AtSomePart
  <2>2. PICK n \in 1 .. Len(Parts) + 1 : AtPart(n) /\ HandledUpTo(frame, n)
    BY <2>1
  <2>3. Echoes = {}
    BY <1>1, <1>2, <2>1, <2>2, NoEcho
  <2>4. CASE Reached = {} /\ j' = j + 1 /\ handled' = handled
    <3>1. j < PartAt(datagram[frame], Len(Parts) + 1)
      BY <1>1, <2>1, Offsets, FrameLengths DEF Size, Parts, InFrame
    <3>2. n > 1 /\ j < PartAt(datagram[frame], n)
      BY <2>1, <2>2, <2>4, <3>1, NotReached
    <3> QED
      BY <1>1, <1>2, <2>2, <2>4, <3>2, StepOverByte
  <2>5. ASSUME NEW k \in Reached,
               j' = j + MsgHead + Parts[k].Data_len,
               handled' = Append(handled, HandedUp(k, Parts[k].Data_len))
        PROVE  Walk'
    <3>1. k = n /\ n \in 1 .. Len(Parts) /\ j = PartAt(datagram[frame], n)
      BY <2>1, <2>2, <2>5, ReachesNext
    <3>2. /\ frame \in DOMAIN datagram /\ Parts[n] \in Part /\ n \in DOMAIN Parts
          /\ SCH_DATA_Packaging(Parts[n]) = 4 + PartSize(Parts[n])
          /\ Parts = datagram[frame].parts /\ frame \in 1 .. Len(datagram)
          /\ datagram[frame].zero # None /\ datagram[frame].FramHead = "SCH"
      BY <1>1, <2>1, <3>1, Offsets, PartSizes DEF InFrame, Parts
    <3>3. Parts[n].kind = "packet"
      BY <2>1, <3>2, FrameIs
    <3>4. /\ Parts[n].Data_len \in Nat /\ Parts[n].Data_len <= MaxPayload
          /\ PartSize(Parts[n]) = 14 + Parts[n].Data_len
      BY <1>2, <3>2, <3>3, PartSizes DEF Clean
    <3>5. HandedUp(n, Parts[n].Data_len) = <<frame, n>>
      BY <3>4 DEF HandedUp
    <3>6. HandledUpTo(frame, n + 1)'
      <4>1. handled' = Append(handled, <<frame, n>>)
        BY <2>5, <3>1, <3>5
      <4> DEFINE f == frame
      <4>2. /\ f \in 1 .. Len(datagram) /\ n \in 1 .. Len(datagram[f].parts)
            /\ HandledUpTo(f, n)
            /\ datagram[f].zero # None /\ datagram[f].parts[n].kind # "control"
            /\ handled' = Append(handled, <<f, n>>) /\ datagram' = datagram
        BY <1>1, <2>2, <3>1, <3>2, <3>3, <4>1
      <4>3. HandledUpTo(frame, n + 1)'
        BY <1>1, <2>1, <4>2, HandlesNext
      <4> QED
        BY <4>3
    <3> DEFINE step == 4 + Parts[n].Data_len
    <3>7. /\ step \in Nat /\ 0 < step /\ step <= SCH_DATA_Packaging(Parts[n])
          /\ SCH_DATA_Packaging(Parts[n]) - 14 <= step
      <4> DEFINE size == PartSize(Parts[n])
                 packed == SCH_DATA_Packaging(Parts[n])
                 l == Parts[n].Data_len
      <4>1. packed = 4 + size /\ size = 14 + l /\ l \in Nat /\ step = 4 + l
        BY <3>2, <3>4
      <4> HIDE DEF step, size, packed, l
      <4>2. step \in Nat /\ 0 < step /\ step <= packed /\ packed - 14 <= step
        BY <4>1
      <4> QED
        BY <4>2 DEF packed
    <3>8. j' = j + step
      <4> DEFINE l == Parts[n].Data_len
      <4>1. j \in Nat
        BY <2>2 DEF AtPart
      <4>2. j' = j + 4 + l /\ l \in Nat /\ step = 4 + l
        BY <2>5, <3>1, <3>4 DEF MsgHead
      <4> HIDE DEF l, step
      <4> QED
        BY <4>1, <4>2
    <3> HIDE DEF step
    <3> QED
      BY <1>1, <1>2, <3>1, <3>6, <3>7, <3>8, StepOverPart
  <2> QED
    BY <2>3, <2>4, <2>5 DEF SCH_unpacking
<1> QED
  BY <1>1, <1>2 DEF AirInv

(* An inner loop ends when it has passed the last part, and the outer one goes
   on at the next frame. *)
LEMMA UnpackedStep == AirInv /\ Unpacked => AirInv'
<1> SUFFICES ASSUME AirInv, Unpacked PROVE AirInv'
  OBVIOUS
<1>1. /\ loop \in {"CCH", "SCH"} /\ j >= Size /\ i' = i + Skip /\ loop' = "frames"
      /\ datagram' = datagram /\ handled' = handled
  BY DEF Unpacked, walk, effects
<1>2. ASSUME Clean(datagram) PROVE Walk'
  <2>1. /\ datagram \in Datagrams /\ InFrame
        /\ \E n \in 1 .. Len(Parts) + 1 : AtPart(n) /\ HandledUpTo(frame, n)
    BY <1>1, <1>2, AtSomePart
  <2>2. PICK n \in 1 .. Len(Parts) + 1 : AtPart(n) /\ HandledUpTo(frame, n)
    BY <2>1
  <2>3. /\ frame \in DOMAIN datagram /\ frame \in 1 .. Len(datagram)
        /\ loop = datagram[frame].FramHead /\ Parts = datagram[frame].parts
        /\ i = FrameAt(datagram, frame)
    BY <2>1, Offsets DEF InFrame, Parts
  <2>4. n = Len(Parts) + 1
    <3> SUFFICES ASSUME n \in 1 .. Len(Parts) PROVE FALSE
      BY <2>1, Offsets
    <3>1. PartAt(datagram[frame], n) < Size
      <4>1. CASE loop = "CCH"
        BY <2>1, <2>3, <4>1, FrameLengths DEF Size
      <4>2. CASE loop = "SCH"
        <5>1. Size = PartAt(datagram[frame], Len(Parts) + 1)
          BY <2>1, <2>3, <4>2, FrameLengths DEF Size
        <5>2. n \in 1 .. Len(Parts) + 1 /\ Len(Parts) + 1 \in 1 .. Len(Parts) + 1
              /\ n < Len(Parts) + 1
          BY <2>1, Offsets
        <5> QED
          BY <2>1, <5>1, <5>2, Offsets
      <4> QED
        BY <1>1, <4>1, <4>2
    <3>2. j \in Nat /\ j <= PartAt(datagram[frame], n) /\ PartAt(datagram[frame], n) \in Nat
      BY <2>1, <2>2, Offsets DEF AtPart
    <3>3. Size \in Int
      <4>1. CASE loop = "CCH"
        <5> DEFINE f == datagram[frame]
        <5>1. /\ f.parts \in Seq(Part) /\ f.FramHead = "CCH"
              /\ 16 + PartAt(f, Len(f.parts) + 1) <= 87
              /\ \A m \in DOMAIN f.parts : f.parts[m].kind # "packet"
          BY <2>1, <2>3, <4>1, FrameIs
        <5> HIDE DEF f
        <5>2. Data_Length(f) \in Nat
          BY <5>1, ControlArea
        <5> QED
          BY <5>2 DEF Size, f
      <4>2. CASE loop = "SCH"
        <5>1. Size = PartAt(datagram[frame], Len(Parts) + 1)
          BY <2>1, <2>3, <4>2, FrameLengths DEF Size
        <5>2. Len(Parts) + 1 \in 1 .. Len(Parts) + 1
          BY <2>1, Offsets
        <5> QED
          BY <2>1, <5>1, <5>2, Offsets
      <4> QED
        BY <1>1, <4>1, <4>2
    <3> QED
      BY <1>1, <3>1, <3>2, <3>3
  <2>5. UpToPart(datagram, frame, n) = UpToPart(datagram, frame + 1, 1)
    BY <2>1, <2>3, <2>4, UpToNextFrame
  <2>6. HandledUpTo(frame + 1, 1) /\ i + Skip = FrameAt(datagram, frame + 1)
    <3>1. HandledUpTo(frame + 1, 1)
      BY <2>2, <2>5 DEF HandledUpTo
    <3>2. FrameAt(datagram, frame + 1) = FrameAt(datagram, frame) + FrameSize(datagram[frame])
      BY <2>1, <2>3, FramesClimb
    <3>3. Skip = FrameSize(datagram[frame])
      BY <1>1, <2>3 DEF Skip, FrameSize, Size
    <3> QED
      BY <2>3, <3>1, <3>2, <3>3
  <2>7. frame + 1 \in 1 .. Len(datagram) + 1
    BY <2>1, <2>3, FramesClimb
  <2> DEFINE k == frame + 1
  <2>8. /\ k \in 1 .. Len(datagram) + 1 /\ HandledUpTo(k, 1)
        /\ i' = FrameAt(datagram, k)
    BY <1>1, <2>6, <2>7
  <2> HIDE DEF k
  <2>9. \E m \in 1 .. Len(datagram) + 1 : HandledUpTo(m, 1) /\ i' = FrameAt(datagram, m)
    BY <2>8
  <2>10. PICK m \in 1 .. Len(datagram) + 1 : HandledUpTo(m, 1) /\ i' = FrameAt(datagram, m)
    BY <2>9
  <2>11. HandledUpTo(m, 1)' /\ AtFrame(m)'
    BY <1>1, <2>10 DEF HandledUpTo, AtFrame
  <2>12. \E a \in 1 .. Len(datagram') + 1 : AtFrame(a)' /\ HandledUpTo(a, 1)'
    BY <1>1, <2>11
  <2> QED
    BY <1>1, <2>12 DEF Walk
<1>3. datagram # <<>>
  BY <1>1 DEF AirInv
<1> QED
  BY <1>1, <1>2 DEF AirInv

-----------------------------------------------------------------------------
(* Nothing has arrived in the beginning. *)
LEMMA AirInitInvariant == AirInit => AirInv
<1> SUFFICES ASSUME AirInit PROVE AirInv
  OBVIOUS
<1>1. datagram = <<>> /\ handled = <<>> /\ loop = "idle"
  BY DEF AirInit
<1>2. Contents(<<>>) = {}
  BY DEF Contents
<1>3. HandledUpTo(Len(datagram) + 1, 1)
  BY <1>1, <1>2 DEF HandledUpTo, UpToPart
<1> QED
  BY <1>1, <1>3 DEF AirInv, Walk

(* Every step keeps the invariant. *)
LEMMA AirStepInvariant == AirInv /\ [AirNext]_airVars => AirInv'
<1> SUFFICES ASSUME AirInv, [AirNext]_airVars PROVE AirInv'
  OBVIOUS
<1>1. CASE RecvPackage_from_UE_MAC_U
  BY <1>1, ArrivalStep
<1>2. CASE recvphyPackageHandle
  BY <1>2, UnpackStep, NextByteStep, LeaveStep, UnpackedStep, ControlStep, PacketStep
     DEF recvphyPackageHandle
<1>3. CASE UNCHANGED airVars
  <2>1. UNCHANGED <<datagram, i, j, loop, frame, handled>>
    BY <1>3 DEF airVars
  <2>2. Walk => Walk'
    BY <2>1 DEF Walk, AtFrame, AtPart, InFrame, HandledUpTo, Parts
  <2> QED
    BY <2>1, <2>2 DEF AirInv
<1>4. CASE Spin
  BY <1>3, <1>4 DEF Spin
<1> QED
  BY <1>1, <1>2, <1>3, <1>4 DEF AirNext

(***************************************************************************)
(* For all datagrams, however many frames they have and whatever their     *)
(* parts' lengths: each report, request and packet of a clean one is       *)
(* handled once, in order, and none is passed over.                        *)
(***************************************************************************)
THEOREM PartsAreHandledOnce == AirSpec => []EachPartOnce
<1>1. AirInv => EachPartOnce
  <2> SUFFICES ASSUME AirInv, Clean(datagram)
               PROVE  EachPartOnce
    BY DEF EachPartOnce
  <2>0. datagram \in Datagrams => Len(datagram) \in Nat
    BY FramesClimb
  <2>1. \E k, n : /\ HandledUpTo(k, n)
                  /\ loop = "idle" => k = Len(datagram) + 1 /\ n = 1
                  /\ datagram \in Datagrams => k \in Int /\ n \in Int
    <3>1. CASE loop = "idle"
      BY <2>0, <3>1 DEF AirInv, Walk
    <3>2. CASE loop # "idle"
      BY <2>0, <3>2 DEF AirInv, Walk, InFrame
    <3> QED
      BY <3>1, <3>2
  <2>2. PICK k, n : /\ HandledUpTo(k, n)
                    /\ loop = "idle" => k = Len(datagram) + 1 /\ n = 1
                    /\ datagram \in Datagrams => k \in Int /\ n \in Int
    BY <2>1
  <2>3. CASE datagram = <<>>
    <3>1. Contents(datagram) = {} 
      BY <2>3 DEF Contents
    <3>2. handled \in Seq({})
      BY <2>2, <3>1 DEF HandledUpTo
    <3>3. DOMAIN handled = {}
      BY <3>2
    <3> QED
      BY <3>1, <3>3 DEF EachPartOnce
  <2>4. CASE datagram \in Datagrams
    <3>1. /\ \A x \in DOMAIN handled : handled[x] \in Contents(datagram)
                                       /\ Before(handled[x], <<k, n>>)
          /\ \A p \in Contents(datagram) :
               Before(p, <<k, n>>) => \E y \in DOMAIN handled : handled[y] = p
          /\ \A x, y \in DOMAIN handled : x < y => Before(handled[x], handled[y])
      BY <2>2 DEF HandledUpTo, UpToPart
    <3>2. \A p \in Contents(datagram) : p[1] \in Int /\ p[2] \in Int
      <4> SUFFICES ASSUME NEW p \in Contents(datagram) PROVE p[1] \in Int /\ p[2] \in Int
        OBVIOUS
      <4>1. p[1] \in 1 .. Len(datagram) /\ p[2] \in 1 .. Len(datagram[p[1]].parts)
        BY <2>4, PlacesAre
      <4> QED
        BY <4>1
    <3>3. ASSUME NEW p \in Contents(datagram), NEW x \in DOMAIN handled,
                 Before(p, handled[x])
          PROVE  \E y \in DOMAIN handled : handled[y] = p
      <4> DEFINE q == handled[x]
      <4>1. q \in Contents(datagram) /\ Before(q, <<k, n>>) /\ Before(p, q)
        BY <3>1, <3>3
      <4>2. /\ p[1] \in Int /\ p[2] \in Int /\ q[1] \in Int /\ q[2] \in Int
            /\ k \in Int /\ n \in Int
        <5>1. k \in Int /\ n \in Int
          BY <2>2, <2>4
        <5>2. p[1] \in Int /\ p[2] \in Int
          BY <3>2, <3>3
        <5>3. q[1] \in Int /\ q[2] \in Int
          BY <3>2, <4>1
        <5> QED
          BY <5>1, <5>2, <5>3
      <4> HIDE DEF q
      <4>3. p[1] < q[1] \/ (p[1] = q[1] /\ p[2] < q[2])
        BY <4>1 DEF Before
      <4>4. q[1] < k \/ (q[1] = k /\ q[2] < n)
        BY <4>1 DEF Before
      <4>5. p[1] < k \/ (p[1] = k /\ p[2] < n)
        BY <4>2, <4>3, <4>4
      <4>6. Before(p, <<k, n>>)
        BY <4>5 DEF Before
      <4> QED
        BY <3>1, <3>3, <4>6
    <3>4. ASSUME loop = "idle", NEW p \in Contents(datagram)
          PROVE  \E y \in DOMAIN handled : handled[y] = p
      <4>1. UpToPart(datagram, k, n) = Contents(datagram)
        BY <2>2, <2>4, <3>4, UpToEnds
      <4>2. p \in {handled[x] : x \in DOMAIN handled}
        BY <2>2, <3>4, <4>1 DEF HandledUpTo
      <4> QED
        BY <4>2
    <3> QED
      BY <3>1, <3>3, <3>4 DEF EachPartOnce
  <2> QED
    BY <2>3, <2>4 DEF AirInv
<1> QED
  BY <1>1, AirInitInvariant, AirStepInvariant, PTL DEF AirSpec

-----------------------------------------------------------------------------
(* Beams: the grid *)

(* The assumptions about the grid, in the form in which they are used. *)
LEMMA BeamsAre ==
  /\ WAVE_TOTALNUM \in Nat \ {0} /\ WAVE_TOTALNUM < 65536
  /\ WAVE_TOTALNUM = cols * rows
  BY BeamsAssumption

(* The area in its unit of length. *)
LEMMA AreaIs ==
  /\ COVERAGE_WIDTH \in Nat \ {0} /\ COVERAGE_WIDTH % (2 * cols) = 0
  /\ COVERAGE_HEIGHT \in Nat \ {0} /\ COVERAGE_HEIGHT % (2 * rows) = 0
  BY AreaAssumption

(* The grid has whole columns and rows, with a centre in each cell. *)
LEMMA GridIs ==
  /\ cols \in Nat \ {0} /\ rows \in Nat \ {0} /\ WAVE_TOTALNUM = cols * rows
  /\ \E h \in Nat \ {0} : step_x = 2 * h /\ COVERAGE_WIDTH = step_x * cols
  /\ \E h \in Nat \ {0} : step_y = 2 * h /\ COVERAGE_HEIGHT = step_y * rows
<1> DEFINE W == WAVE_TOTALNUM
           Root(n) == n * n <= W /\ (n + 1) * (n + 1) > W
           Above == {n \in Nat : (n + 1) * (n + 1) > W}
<1>0. W \in Nat \ {0}
  BY BeamsAre
<1>1. \E n \in 1 .. W : Root(n)
  <2> HIDE DEF W
  <2>1. W \in Above
    <3>1. (W + 1) * (W + 1) = W * W + 2 * W + 1
      BY <1>0
    <3>2. W * W >= 0
      BY <1>0
    <3>3. W * W \in Int
      BY <1>0
    <3> QED
      BY <1>0, <3>1, <3>2, <3>3
  <2>2. Above \subseteq Nat /\ Above # {}
    BY <2>1
  <2> HIDE DEF Above
  <2>3. PICK m \in Above : \A k \in Above : m <= k
    BY <2>2, Least
  <2> USE DEF Above
  <2>4. m \in Nat /\ m <= W /\ (m + 1) * (m + 1) > W
    BY <2>1, <2>3
  <2>5. m # 0
    BY <1>0, <2>4
  <2>6. m - 1 \in Nat /\ ~(m - 1 \in Above)
    <3>1. m - 1 \in Nat /\ m - 1 < m
      BY <2>4, <2>5
    <3>2. m - 1 \in Above => m <= m - 1
      BY <2>3
    <3> QED
      BY <2>4, <3>1, <3>2
  <2>7. ~((m - 1 + 1) * (m - 1 + 1) > W)
    BY <2>6
  <2>8. m * m <= W
    <3>1. m - 1 + 1 = m
      BY <2>4
    <3>2. ~(m * m > W)
      BY <2>7, <3>1
    <3> QED
      BY <1>0, <2>4, <3>2
  <2>9. m \in 1 .. W
    BY <1>0, <2>4, <2>5
  <2> QED
    BY <2>4, <2>8, <2>9
<1>2. cols \in 1 .. W
  BY <1>1 DEF cols
<1>3. cols \in Nat \ {0}
  <2> HIDE DEF W
  <2> QED
    BY <1>0, <1>2
<1>4. rows \in Int
  <2>1. W + cols - 1 \in Int
    BY <1>0, <1>3
  <2> HIDE DEF W
  <2> QED
    BY <1>3, <2>1, Division DEF rows, W
<1>5. W = cols * rows
  BY BeamsAre
<1>6. rows \in Nat \ {0}
  <2> DEFINE c == cols
             r == rows
  <2>1. c \in Nat \ {0} /\ r \in Int /\ c * r > 0
    BY <1>0, <1>3, <1>4, <1>5
  <2> HIDE DEF c, r
  <2>2. r > 0
    <3>1. ASSUME r <= 0 PROVE FALSE
      <4>1. c * r <= c * 0
        BY <2>1, <3>1
      <4> QED
        BY <2>1, <4>1
    <3> QED
      BY <2>1, <3>1
  <2>3. r \in Nat \ {0}
    BY <2>1, <2>2
  <2> QED
    BY <2>3 DEF r
<1>7. ASSUME NEW n \in Nat \ {0}, NEW w \in Nat \ {0}, w % (2 * n) = 0
      PROVE  \E h \in Nat \ {0} : w \div n = 2 * h /\ w = (2 * h) * n
  <2> DEFINE h == w \div (2 * n)
  <2>1. 2 * n \in Nat \ {0}
    OBVIOUS
  <2>2. h \in Int /\ w = (2 * n) * h
    <3> DEFINE d == 2 * n
    <3>1. w \in Int /\ d \in Nat \ {0}
      BY <2>1
    <3> HIDE DEF d
    <3>2. w \div d \in Int /\ w = d * (w \div d) + (w % d)
      BY <3>1, Division
    <3>3. w % d = 0
      BY <1>7 DEF d
    <3> DEFINE k == w \div d
               m == w % d
    <3>4. k \in Int /\ w = d * k + m /\ m = 0
      BY <3>2, <3>3
    <3> HIDE DEF k, m
    <3>5. k \in Int /\ w = d * k
      BY <3>1, <3>4
    <3> QED
      BY <3>5 DEF k, d
  <2>3. w \div n \in Int /\ w % n \in 0 .. n - 1 /\ w = n * (w \div n) + (w % n)
    BY Division
  <2>4. w = n * (2 * h) + 0
    BY <2>2
  <2>5. 0 \in 0 .. n - 1 /\ 2 * h \in Int
    BY <2>2
  <2> DEFINE q == w \div n
             r == w % n
  <2>6. q \in Int /\ r \in 0 .. n - 1 /\ n * q + r = n * (2 * h) + 0
    BY <2>3, <2>4
  <2>7. q = 2 * h
    <3> HIDE DEF q, r, h
    <3> QED
      BY <2>5, <2>6, DivisionUnique
  <2>8. h > 0
    <3> HIDE DEF h
    <3>1. ASSUME h <= 0 PROVE FALSE
      <4> DEFINE k == 2 * h
      <4>1. k \in Int /\ k <= 0 /\ w = n * k + 0
        BY <2>2, <2>4, <3>1
      <4> HIDE DEF k
      <4>2. n * k <= n * 0
        BY <4>1
      <4> QED
        BY <4>1, <4>2
    <3> QED
      BY <2>2, <3>1
  <2>9. w = (2 * h) * n
    BY <2>4, <2>5
  <2> QED
    BY <2>2, <2>7, <2>8, <2>9
<1>8. \E h \in Nat \ {0} : step_x = 2 * h /\ COVERAGE_WIDTH = (2 * h) * cols
  BY <1>3, <1>7, AreaIs DEF step_x
<1>9. \E h \in Nat \ {0} : step_y = 2 * h /\ COVERAGE_HEIGHT = (2 * h) * rows
  BY <1>6, <1>7, AreaIs DEF step_y
<1> QED
  BY <1>3, <1>5, <1>6, <1>8, <1>9

(* Each cell of the grid is a beam's. *)
LEMMA BeamAt ==
  ASSUME NEW x \in 0 .. cols - 1, NEW y \in 0 .. rows - 1
  PROVE  /\ cols * y + x \in Beam
         /\ (cols * y + x) % cols = x /\ (cols * y + x) \div cols = y
<1> DEFINE b == cols * y + x
           q == b \div cols
           r == b % cols
<1>1. cols \in Nat \ {0} /\ rows \in Nat \ {0} /\ WAVE_TOTALNUM = cols * rows
  BY GridIs
<1>2. b \in Nat
  BY <1>1
<1>3. b <= WAVE_TOTALNUM - 1
  <2>1. cols * (y + 1) <= cols * rows
    BY <1>1
  <2> QED
    BY <1>1, <2>1
<1>4. q \in Int /\ r \in 0 .. cols - 1 /\ cols * q + r = cols * y + x
  <2>1. b = cols * y + x
    OBVIOUS
  <2> HIDE DEF b
  <2>2. b \in Int
    BY <1>2
  <2>3. b \div cols \in Int /\ b % cols \in 0 .. cols - 1
        /\ b = cols * (b \div cols) + (b % cols)
    BY <1>1, <2>2, Division
  <2> QED
    BY <2>1, <2>3
<1>5. q = y /\ r = x
  <2> HIDE DEF q, r
  <2> QED
    BY <1>1, <1>4, DivisionUnique
<1>6. b \in Beam
  BY <1>1, <1>2, <1>3 DEF Beam
<1> QED
  BY <1>5, <1>6

(* Each beam has a cell of the grid. *)
LEMMA CellOfBeam ==
  ASSUME NEW b \in Beam
  PROVE  /\ b % cols \in 0 .. cols - 1 /\ b \div cols \in 0 .. rows - 1
         /\ b = cols * (b \div cols) + (b % cols)
<1> DEFINE q == b \div cols
           r == b % cols
<1>1. cols \in Nat \ {0} /\ rows \in Nat \ {0} /\ WAVE_TOTALNUM = cols * rows
  BY GridIs
<1>2. b \in Nat /\ b <= cols * rows - 1
  BY <1>1 DEF Beam
<1>3. q \in Int /\ r \in 0 .. cols - 1 /\ b = cols * q + r
  BY <1>1, <1>2, Division
<1> HIDE DEF q, r
<1>4. q >= 0
  <2>1. ASSUME q <= -1 PROVE FALSE
    <3>1. cols * q <= cols * (-1)
      BY <1>1, <1>3, <2>1
    <3> QED
      BY <1>1, <1>2, <1>3, <3>1
  <2> QED
    BY <1>3, <2>1
<1>5. q <= rows - 1
  <2>1. ASSUME rows <= q PROVE FALSE
    <3>1. cols * rows <= cols * q
      BY <1>1, <1>3, <2>1
    <3> QED
      BY <1>1, <1>2, <1>3, <3>1
  <2> QED
    BY <1>1, <1>3, <2>1
<1>6. r \in 0 .. cols - 1 /\ q \in 0 .. rows - 1 /\ b = cols * q + r
  BY <1>1, <1>3, <1>4, <1>5
<1> QED
  BY <1>6 DEF q, r

(* In one direction: who is not in the k-th part of n, of length 2 * h, is
   nearer to the centre of the part beside it on his side. *)
LEMMA NearerBeside ==
  ASSUME NEW n \in Nat \ {0}, NEW h \in Nat \ {0}, NEW p \in 0 .. (2 * h) * n,
         NEW k \in 0 .. n - 1, ~(p - k * (2 * h) \in 0 .. 2 * h)
  PROVE  \E m \in 0 .. n - 1 :
           (p - (m * (2 * h) + h)) * (p - (m * (2 * h) + h))
             < (p - (k * (2 * h) + h)) * (p - (k * (2 * h) + h))
<1> DEFINE l == k * (2 * h)
           d == p - (l + h)
           c == d * d
           e == h * d
           f == h * h
<1>1. l \in Int /\ p \in Int /\ (p - l < 0 \/ p - l > 2 * h)
  OBVIOUS
<1>2. d \in Int /\ c \in Int /\ e \in Int /\ f \in Int
  BY <1>1
<1>3. CASE p - l < 0
  <2>1. k # 0
    BY <1>3
  <2>2. k - 1 \in 0 .. n - 1
    BY <2>1
  <2>3. (k - 1) * (2 * h) = l - 2 * h
    OBVIOUS
  <2>4. p - ((k - 1) * (2 * h) + h) = d + 2 * h
    BY <1>1, <2>3
  <2>5. (d + 2 * h) * (d + 2 * h) = c + 4 * e + 4 * f
    BY <1>2
  <2>6. d + h <= -1
    BY <1>1, <1>3
  <2>7. e + f <= -1
    <3>1. h * (d + h) = e + f
      BY <1>2
    <3>2. h * (d + h) <= 1 * (d + h)
      <4> DEFINE g == d + h
      <4>1. g \in Int /\ g <= -1
        BY <1>2, <2>6
      <4> HIDE DEF g
      <4>2. h * g <= 1 * g
        BY <4>1
      <4> QED
        BY <4>2 DEF g
    <3> QED
      BY <1>2, <2>6, <3>1, <3>2
  <2>8. c + 4 * e + 4 * f < c
    <3> HIDE DEF c, e, f
    <3> QED
      BY <1>2, <2>7
  <2>9. (p - ((k - 1) * (2 * h) + h)) * (p - ((k - 1) * (2 * h) + h)) < d * d
    BY <2>4, <2>5, <2>8
  <2> QED
    BY <2>2, <2>9
<1>4. CASE p - l > 2 * h
  <2>1. k + 1 <= n - 1
    <3>1. ASSUME k = n - 1 PROVE FALSE
      <4>1. l + 2 * h = (2 * h) * n
        BY <3>1
      <4> QED
        BY <1>1, <1>4, <4>1
    <3> QED
      BY <3>1
  <2>2. k + 1 \in 0 .. n - 1
    BY <2>1
  <2>3. (k + 1) * (2 * h) = l + 2 * h
    OBVIOUS
  <2>4. p - ((k + 1) * (2 * h) + h) = d - 2 * h
    BY <1>1, <2>3
  <2>5. (d - 2 * h) * (d - 2 * h) = c - 4 * e + 4 * f
    BY <1>2
  <2>6. d - h >= 1
    BY <1>1, <1>4
  <2>7. e - f >= 1
    <3>1. h * (d - h) = e - f
      BY <1>2
    <3>2. h * (d - h) >= 1 * (d - h)
      <4> DEFINE g == d - h
      <4>1. g \in Int /\ g >= 1
        BY <1>2, <2>6
      <4> HIDE DEF g
      <4>2. h * g >= 1 * g
        BY <4>1
      <4> QED
        BY <4>2 DEF g
    <3> QED
      BY <1>2, <2>6, <3>1, <3>2
  <2>8. c - 4 * e + 4 * f < c
    <3> HIDE DEF c, e, f
    <3> QED
      BY <1>2, <2>7
  <2>9. (p - ((k + 1) * (2 * h) + h)) * (p - ((k + 1) * (2 * h) + h)) < d * d
    BY <2>4, <2>5, <2>8
  <2> QED
    BY <2>2, <2>9
<1> QED
  BY <1>1, <1>3, <1>4

(* The centre of a beam's cell. *)
LEMMA CentreIs ==
  ASSUME NEW g \in Nat \ {0}, step_x = 2 * g, NEW h \in Nat \ {0}, step_y = 2 * h,
         NEW b \in Beam
  PROVE  /\ Init_Topology(b).x = (b % cols) * (2 * g) + g
         /\ Init_Topology(b).y = (b \div cols) * (2 * h) + h
<1>1. (2 * g) \div 2 = g /\ (2 * h) \div 2 = h
  OBVIOUS
<1>2. /\ Init_Topology(b).x = (b % cols) * step_x + (step_x \div 2)
      /\ Init_Topology(b).y = (b \div cols) * step_y + (step_y \div 2)
  BY DEF Init_Topology
<1> QED
  BY <1>1, <1>2

(* The distance, squared, from a place. *)
LEMMA DistanceIs ==
  ASSUME NEW g \in Nat \ {0}, step_x = 2 * g, NEW h \in Nat \ {0}, step_y = 2 * h,
         NEW b \in Beam, NEW pos, pos.x \in Int, pos.y \in Int
  PROVE  /\ calc_distance(pos, Init_Topology(b)) \in Nat
         /\ calc_distance(pos, Init_Topology(b)) =
              (pos.x - ((b % cols) * (2 * g) + g)) * (pos.x - ((b % cols) * (2 * g) + g))
              + (pos.y - ((b \div cols) * (2 * h) + h)) * (pos.y - ((b \div cols) * (2 * h) + h))
<1> DEFINE x == (b % cols) * (2 * g) + g
           y == (b \div cols) * (2 * h) + h
<1>1. Init_Topology(b).x = x /\ Init_Topology(b).y = y
  BY CentreIs
<1>2. b % cols \in Int /\ b \div cols \in Int
  <2>1. b % cols \in 0 .. cols - 1 /\ b \div cols \in 0 .. rows - 1
    BY CellOfBeam
  <2> QED
    BY <2>1
<1>3. x \in Int /\ y \in Int
  <2> DEFINE k == b % cols
             l == b \div cols
  <2>1. k \in Int /\ l \in Int
    BY <1>2
  <2> HIDE DEF k, l
  <2>2. k * (2 * g) + g \in Int /\ l * (2 * h) + h \in Int
    BY <2>1
  <2> QED
    BY <2>2 DEF k, l
<1> HIDE DEF x, y
<1> DEFINE u == pos.x - x
           v == pos.y - y
<1>4. calc_distance(pos, Init_Topology(b)) = u * u + v * v
  BY <1>1 DEF calc_distance
<1>5. u \in Int /\ v \in Int
  BY <1>3
<1>6. u * u + v * v \in Nat
  <2> HIDE DEF u, v
  <2>1. u * u >= 0 /\ v * v >= 0
    BY <1>5
  <2> QED
    BY <1>5, <2>1
<1>7. calc_distance(pos, Init_Topology(b)) \in Nat
  BY <1>4, <1>6
<1> QED
  BY <1>4, <1>7 DEF x, y

(* Best_Wave_ID_at is a nearest beam. *)
LEMMA BestIsNearest ==
  ASSUME NEW pos, pos.x \in Int, pos.y \in Int
  PROVE  /\ Best_Wave_ID_at(pos) \in Beam
         /\ \A b \in Beam : calc_distance(pos, Init_Topology(Best_Wave_ID_at(pos)))
                              <= calc_distance(pos, Init_Topology(b))
<1> DEFINE distance(b) == calc_distance(pos, Init_Topology(b))
           D == {distance(b) : b \in Beam}
           N == {b \in Beam : distance(b) = Min(D)}
<1>1. PICK g \in Nat \ {0} : step_x = 2 * g
  BY GridIs
<1>2. PICK h \in Nat \ {0} : step_y = 2 * h
  BY GridIs
<1>3. \A b \in Beam : distance(b) \in Nat
  BY <1>1, <1>2, DistanceIs
<1>4. 0 \in Beam /\ Beam \subseteq Nat
  BY BeamsAre DEF Beam
<1> HIDE DEF distance
<1>5. \A S : S \subseteq Nat /\ S # {} => Min(S) \in S /\ \A k \in S : Min(S) <= k
  <2> SUFFICES ASSUME NEW S, S \subseteq Nat, S # {}
               PROVE  Min(S) \in S /\ \A k \in S : Min(S) <= k
    OBVIOUS
  <2>1. \E m \in S : \A k \in S : m <= k
    BY Least
  <2> QED
    BY <2>1 DEF Min
<1>6. D \subseteq Nat /\ D # {}
  BY <1>3, <1>4
<1>7. Min(D) \in D /\ \A k \in D : Min(D) <= k
  BY <1>5, <1>6
<1>8. N # {} /\ N \subseteq Nat
  <2>1. PICK b \in Beam : distance(b) = Min(D)
    BY <1>7
  <2> QED
    BY <1>4, <2>1
<1>9. Min(N) \in N
  BY <1>5, <1>8
<1>10. Best_Wave_ID_at(pos) = Min(N)
  BY DEF Best_Wave_ID_at, distance
<1>11. Min(N) \in Beam /\ \A b \in Beam : distance(Min(N)) <= distance(b)
  BY <1>7, <1>9
<1> QED
  BY <1>10, <1>11 DEF distance

(* In the nearest beam's cell: otherwise the beam beside it were nearer. *)
LEMMA StandsInCell ==
  ASSUME NEW pos \in [x : 0 .. COVERAGE_WIDTH, y : 0 .. COVERAGE_HEIGHT],
         NEW best \in Beam,
         \A b \in Beam : calc_distance(pos, Init_Topology(best))
                           <= calc_distance(pos, Init_Topology(b))
  PROVE  StandsIn(pos, best)
<1>1. PICK g \in Nat \ {0} : step_x = 2 * g /\ COVERAGE_WIDTH = (2 * g) * cols
  BY GridIs
<1>2. PICK h \in Nat \ {0} : step_y = 2 * h /\ COVERAGE_HEIGHT = (2 * h) * rows
  BY GridIs
<1>3. cols \in Nat \ {0} /\ rows \in Nat \ {0}
  BY GridIs
<1> DEFINE k == best % cols
           l == best \div cols
           Off(p, w, e) == (p - (e * (2 * w) + w)) * (p - (e * (2 * w) + w))
<1>4. k \in 0 .. cols - 1 /\ l \in 0 .. rows - 1
  BY CellOfBeam
<1>5. pos.x \in 0 .. (2 * g) * cols /\ pos.y \in 0 .. (2 * h) * rows
  BY <1>1, <1>2
<1>6. pos.x \in Int /\ pos.y \in Int
  BY <1>5
<1>7. \A b \in Beam : calc_distance(pos, Init_Topology(b)) =
                        Off(pos.x, g, b % cols) + Off(pos.y, h, b \div cols)
  BY <1>1, <1>2, <1>6, DistanceIs
<1>8. \A m \in 0 .. cols - 1, n \in 0 .. rows - 1 :
        Off(pos.x, g, k) + Off(pos.y, h, l) <= Off(pos.x, g, m) + Off(pos.y, h, n)
  <2> SUFFICES ASSUME NEW m \in 0 .. cols - 1, NEW n \in 0 .. rows - 1
               PROVE  Off(pos.x, g, k) + Off(pos.y, h, l)
                        <= Off(pos.x, g, m) + Off(pos.y, h, n)
    OBVIOUS
  <2> DEFINE b == cols * n + m
  <2>1. b \in Beam /\ b % cols = m /\ b \div cols = n
    BY BeamAt
  <2> HIDE DEF b, Off
  <2> QED
    BY <1>7, <2>1
<1>9. \A p, w, e \in Int : Off(p, w, e) \in Int
  <2> SUFFICES ASSUME NEW p \in Int, NEW w \in Int, NEW e \in Int
               PROVE  Off(p, w, e) \in Int
    OBVIOUS
  <2>1. p - (e * (2 * w) + w) \in Int
    OBVIOUS
  <2> QED
    BY <2>1
<1>10. pos.x - k * (2 * g) \in 0 .. 2 * g
  <2> SUFFICES ASSUME ~(pos.x - k * (2 * g) \in 0 .. 2 * g) PROVE FALSE
    OBVIOUS
  <2>1. PICK m \in 0 .. cols - 1 : Off(pos.x, g, m) < Off(pos.x, g, k)
    <3> HIDE DEF k
    <3> QED
      BY <1>3, <1>4, <1>5, NearerBeside
  <2>2. Off(pos.x, g, k) + Off(pos.y, h, l) <= Off(pos.x, g, m) + Off(pos.y, h, l)
    BY <1>4, <1>8
  <2>3. Off(pos.x, g, k) \in Int /\ Off(pos.x, g, m) \in Int /\ Off(pos.y, h, l) \in Int
    <3>1. g \in Int /\ h \in Int /\ k \in Int /\ l \in Int /\ m \in Int
      BY <1>4
    <3> QED
      BY <1>6, <1>9, <3>1
  <2> HIDE DEF Off
  <2> QED
    BY <2>1, <2>2, <2>3
<1>11. pos.y - l * (2 * h) \in 0 .. 2 * h
  <2> SUFFICES ASSUME ~(pos.y - l * (2 * h) \in 0 .. 2 * h) PROVE FALSE
    OBVIOUS
  <2>1. PICK n \in 0 .. rows - 1 : Off(pos.y, h, n) < Off(pos.y, h, l)
    <3> HIDE DEF l
    <3> QED
      BY <1>3, <1>4, <1>5, NearerBeside
  <2>2. Off(pos.x, g, k) + Off(pos.y, h, l) <= Off(pos.x, g, k) + Off(pos.y, h, n)
    BY <1>4, <1>8
  <2>3. Off(pos.x, g, k) \in Int /\ Off(pos.y, h, n) \in Int /\ Off(pos.y, h, l) \in Int
    <3>1. g \in Int /\ h \in Int /\ k \in Int /\ l \in Int /\ n \in Int
      BY <1>4
    <3> QED
      BY <1>6, <1>9, <3>1
  <2> HIDE DEF Off
  <2> QED
    BY <2>1, <2>2, <2>3
<1>12. CellOf(best).x = k /\ CellOf(best).y = l
  BY DEF CellOf
<1> QED
  BY <1>1, <1>2, <1>10, <1>11, <1>12 DEF StandsIn

(* Squares of natural numbers climb. *)
LEMMA SquaresClimb ==
  ASSUME NEW m \in Nat, NEW n \in Nat
  PROVE  /\ m * m \in Nat
         /\ m <= n => m * m <= n * n
         /\ m < n => m * m < n * n
<1>1. m * m \in Nat /\ n * n \in Nat
  OBVIOUS
<1>2. ASSUME m <= n PROVE m * m <= n * n
  <2>1. m * m <= m * n
    BY <1>2
  <2>2. m * n <= n * n
    BY <1>2
  <2>3. m * n \in Int
    OBVIOUS
  <2> QED
    BY <1>1, <2>1, <2>2, <2>3
<1>3. ASSUME m < n PROVE m * m < n * n
  <2>1. m * m <= m * n
    BY <1>3
  <2>2. m * n + n <= n * n
    <3>1. (m + 1) * n <= n * n
      BY <1>3
    <3>2. (m + 1) * n = m * n + n
      OBVIOUS
    <3> QED
      BY <3>1, <3>2
  <2>3. m * n \in Int
    OBVIOUS
  <2> QED
    BY <1>1, <1>3, <2>1, <2>2, <2>3
<1> QED
  BY <1>1, <1>2, <1>3

(* The square of a steps of length s. *)
LEMMA StepsSquared ==
  ASSUME NEW a \in Int, NEW s \in Nat \ {0}
  PROVE  /\ (a * s) * (a * s) \in Nat
         /\ a = 0 => (a * s) * (a * s) = 0
         /\ a \in {-1, 1} => (a * s) * (a * s) = s * s
         /\ a # 0 => (a * s) * (a * s) >= s * s
         /\ a \notin -1 .. 1 => (a * s) * (a * s) >= (2 * s) * (2 * s)
<1> DEFINE m == IF a < 0 THEN -a ELSE a
           t == m * s
<1>1. m \in Nat /\ t \in Nat
  OBVIOUS
<1>2. (a * s) * (a * s) = t * t
  <2>1. CASE a < 0
    <3>1. a * s = -t
      BY <2>1
    <3>2. (-t) * (-t) = t * t
      BY <1>1
    <3> QED
      BY <3>1, <3>2
  <2>2. CASE ~(a < 0)
    BY <2>2
  <2> QED
    BY <2>1, <2>2
<1>3. a # 0 => s <= t
  <2>1. ASSUME a # 0 PROVE s <= t
    <3>1. 1 <= m
      BY <2>1
    <3> HIDE DEF m
    <3>2. 1 * s <= m * s
      BY <1>1, <3>1
    <3> QED
      BY <3>2
  <2> QED
    BY <2>1
<1>4. a \notin -1 .. 1 => 2 * s <= t
  <2>1. ASSUME a \notin -1 .. 1 PROVE 2 * s <= t
    <3>1. 2 <= m
      BY <2>1
    <3> HIDE DEF m
    <3>2. 2 * s <= m * s
      BY <1>1, <3>1
    <3> QED
      BY <3>2
  <2> QED
    BY <2>1
<1>5. a = 0 => t = 0
  OBVIOUS
<1>6. a \in {-1, 1} => t = s
  OBVIOUS
<1> HIDE DEF t, m
<1>7. t * t \in Nat /\ (s <= t => s * s <= t * t)
      /\ (2 * s <= t => (2 * s) * (2 * s) <= t * t)
  BY <1>1, SquaresClimb
<1>8. t = 0 => t * t = 0
  OBVIOUS
<1>9. s * s \in Nat /\ (2 * s) * (2 * s) \in Nat
  OBVIOUS
<1>10. a # 0 => (a * s) * (a * s) >= s * s
  BY <1>2, <1>3, <1>7, <1>9
<1>11. a \notin -1 .. 1 => (a * s) * (a * s) >= (2 * s) * (2 * s)
  BY <1>2, <1>4, <1>7, <1>9
<1>12. a = 0 => (a * s) * (a * s) = 0
  BY <1>2, <1>5, <1>8
<1>13. a \in {-1, 1} => (a * s) * (a * s) = s * s
  BY <1>2, <1>6
<1> QED
  BY <1>2, <1>7, <1>10, <1>11, <1>12, <1>13

(* Nearer than the threshold are the beam itself and those beside it. *)
LEMMA InterferesWithNeighbours ==
  ASSUME NEW b \in Beam
  PROVE  Init_Interference_Matrix(b) =
           {c \in Beam : calc_distance(CellOf(b), CellOf(c)) <= 1}
<1>1. PICK g \in Nat \ {0} : step_x = 2 * g
  BY GridIs
<1>2. PICK h \in Nat \ {0} : step_y = 2 * h
  BY GridIs
<1> DEFINE H == INTERFERENCE_TH
           s == 2 * g
           t == 2 * h
<1>3. s \in Nat \ {0} /\ t \in Nat \ {0}
  OBVIOUS
<1>4. H \in Nat /\ s <= H /\ t <= H /\ H < 2 * s /\ H < 2 * t /\ H * H < s * s + t * t
  BY <1>1, <1>2, ThresholdAssumption
<1>5. SUFFICES ASSUME NEW c \in Beam
               PROVE  (b = c \/ calc_distance(Init_Topology(b), Init_Topology(c)) <= H * H)
                        <=> calc_distance(CellOf(b), CellOf(c)) <= 1
  BY DEF Init_Interference_Matrix
<1> DEFINE k == b % cols
           l == b \div cols
           m == c % cols
           n == c \div cols
           u == k - m
           v == l - n
<1>6. k \in Int /\ l \in Int /\ m \in Int /\ n \in Int /\ (b = c <=> k = m /\ l = n)
  <2>1. /\ b % cols \in 0 .. cols - 1 /\ b \div cols \in 0 .. rows - 1
        /\ b = cols * (b \div cols) + (b % cols)
    BY CellOfBeam
  <2>2. /\ c % cols \in 0 .. cols - 1 /\ c \div cols \in 0 .. rows - 1
        /\ c = cols * (c \div cols) + (c % cols)
    BY CellOfBeam
  <2> QED
    BY <2>1, <2>2
<1>7. calc_distance(CellOf(b), CellOf(c)) = u * u + v * v
  BY DEF CellOf, calc_distance
<1>8. /\ Init_Topology(b).x = k * s + g /\ Init_Topology(b).y = l * t + h
      /\ Init_Topology(c).x = m * s + g /\ Init_Topology(c).y = n * t + h
  BY <1>1, <1>2, CentreIs
<1> HIDE DEF k, l, m, n
<1>9. /\ (k * s + g) - (m * s + g) = u * s
      /\ (l * t + h) - (n * t + h) = v * t
  BY <1>6
<1>10. calc_distance(Init_Topology(b), Init_Topology(c)) =
         (u * s) * (u * s) + (v * t) * (v * t)
  BY <1>8, <1>9 DEF calc_distance
<1>11. u \in Int /\ v \in Int /\ (b = c <=> u = 0 /\ v = 0)
  BY <1>6
<1> HIDE DEF u, v, s, t, H
<1> DEFINE U == (u * s) * (u * s)
           V == (v * t) * (v * t)
<1>12. /\ U \in Nat /\ (u = 0 => U = 0) /\ (u \in {-1, 1} => U = s * s)
       /\ (u # 0 => U >= s * s) /\ (u \notin -1 .. 1 => U >= (2 * s) * (2 * s))
  BY <1>3, <1>11, StepsSquared
<1>13. /\ V \in Nat /\ (v = 0 => V = 0) /\ (v \in {-1, 1} => V = t * t)
       /\ (v # 0 => V >= t * t) /\ (v \notin -1 .. 1 => V >= (2 * t) * (2 * t))
  BY <1>3, <1>11, StepsSquared
<1>14. s * s \in Nat /\ t * t \in Nat /\ H * H \in Nat
  BY <1>3, <1>4
<1>15. s * s <= H * H /\ t * t <= H * H
  BY <1>3, <1>4, SquaresClimb
<1>16. H * H < (2 * s) * (2 * s) /\ H * H < (2 * t) * (2 * t)
  <2>1. 2 * s \in Nat /\ 2 * t \in Nat
    BY <1>3
  <2> QED
    BY <1>4, <2>1, SquaresClimb
<1>17. (2 * s) * (2 * s) \in Int /\ (2 * t) * (2 * t) \in Int
  BY <1>3
<1>18. H * H < s * s + t * t
  BY <1>4
<1> DEFINE near == u * u + v * v <= 1
<1>19. u \in -1 .. 1 /\ v \in -1 .. 1 => (near <=> u = 0 \/ v = 0)
  BY <1>11
<1>20. near => u \in -1 .. 1 /\ v \in -1 .. 1
  <2>1. /\ (u * 1) * (u * 1) \in Nat
        /\ u \notin -1 .. 1 => (u * 1) * (u * 1) >= (2 * 1) * (2 * 1)
    BY <1>11, StepsSquared
  <2>2. /\ (v * 1) * (v * 1) \in Nat
        /\ v \notin -1 .. 1 => (v * 1) * (v * 1) >= (2 * 1) * (2 * 1)
    BY <1>11, StepsSquared
  <2>3. u * 1 = u /\ v * 1 = v
    BY <1>11
  <2>4. /\ u * u \in Nat /\ (u \notin -1 .. 1 => u * u >= 4)
        /\ v * v \in Nat /\ (v \notin -1 .. 1 => v * v >= 4)
    BY <2>1, <2>2, <2>3
  <2> DEFINE p == u * u
             q == v * v
  <2> HIDE DEF p, q
  <2>5. p \in Nat /\ q \in Nat /\ (u \notin -1 .. 1 => p >= 4) /\ (v \notin -1 .. 1 => q >= 4)
    BY <2>4 DEF p, q
  <2>6. p + q <= 1 => u \in -1 .. 1 /\ v \in -1 .. 1
    BY <2>5
  <2> QED
    BY <2>6 DEF p, q
<1> HIDE DEF near
<1> DEFINE ss == s * s
           tt == t * t
           HH == H * H
           s4 == (2 * s) * (2 * s)
           t4 == (2 * t) * (2 * t)
<1>21. /\ U \in Nat /\ (u = 0 => U = 0) /\ (u \in {-1, 1} => U = ss)
       /\ (u # 0 => U >= ss) /\ (u \notin -1 .. 1 => U >= s4)
       /\ V \in Nat /\ (v = 0 => V = 0) /\ (v \in {-1, 1} => V = tt)
       /\ (v # 0 => V >= tt) /\ (v \notin -1 .. 1 => V >= t4)
       /\ ss \in Nat /\ tt \in Nat /\ HH \in Nat /\ s4 \in Int /\ t4 \in Int
       /\ ss <= HH /\ tt <= HH /\ HH < s4 /\ HH < t4 /\ HH < ss + tt
  BY <1>12, <1>13, <1>14, <1>15, <1>16, <1>17, <1>18
<1> HIDE DEF U, V, ss, tt, HH, s4, t4
<1>22. (u = 0 /\ v = 0) \/ U + V <= HH
         <=> u \in -1 .. 1 /\ v \in -1 .. 1 /\ (u = 0 \/ v = 0)
  BY <1>11, <1>21
<1>23. near <=> u \in -1 .. 1 /\ v \in -1 .. 1 /\ (u = 0 \/ v = 0)
  BY <1>19, <1>20
<1>24. (b = c \/ U + V <= HH) <=> near
  BY <1>11, <1>22, <1>23
<1> QED
  BY <1>7, <1>10, <1>24 DEF near, U, V, HH

-----------------------------------------------------------------------------
(* Rows of the units *)

(* The number of rows of a unit, and how many of them are polled. *)
LEMMA RowsAre ==
  /\ RowsOfBBU \in Nat \ {0} /\ WAVE_TOTALNUM = 4 * RowsOfBBU
  /\ PolledOfBBU \in Nat /\ PolledOfBBU <= RowsOfBBU /\ RowsOfBBU < 16384
<1> DEFINE W == WAVE_TOTALNUM
<1>1. W \in Nat \ {0} /\ W < 65536 /\ W % 8 = 0
  BY BeamsAssumption DEF BBU_NUM
<1>2. RowsOfBBU = W \div 4 /\ PolledOfBBU = W \div 8
  <2>1. 8 \div 2 = 4
    OBVIOUS
  <2> QED
    BY <2>1 DEF RowsOfBBU, PolledOfBBU, BBU_NUM
<1> HIDE DEF W
<1>3. W \div 4 \in Nat \ {0} /\ W = 4 * (W \div 4) /\ W \div 8 \in Nat
      /\ W \div 8 <= W \div 4 /\ W \div 4 < 16384
  BY <1>1
<1> QED
  BY <1>2, <1>3 DEF W

(* A wave has a row in the units of its block, and the map in the other
   direction takes it back. *)
LEMMA OwnersAre ==
  ASSUME NEW b \in Beam, NEW u \in BBU
  PROVE  /\ u \in Owners(b) <=> /\ b - Block(u) * RowsOfBBU >= 0
                                /\ b - Block(u) * RowsOfBBU < RowsOfBBU
         /\ u \in Owners(b) =>
              wave_local_index_to_WAVE_NUM(u, WAVE_NUM_to_LocalIndex_map(u, b)) = b
<1> DEFINE R == RowsOfBBU
           k == Block(u)
           d == b - k * R
           row == d % 65536
<1>1. R \in Nat \ {0} /\ R < 16384 /\ b \in Nat /\ b < 4 * R
  BY RowsAre DEF Beam
<1>2. k \in 0 .. 3
  BY DEF BBU, BBU_NUM, Block
<1>3. WAVE_NUM_to_LocalIndex_map(u, b) = row
  BY DEF WAVE_NUM_to_LocalIndex_map
<1>4. wave_local_index_to_WAVE_NUM(u, row) = (row + k * R) % 65536
  BY DEF wave_local_index_to_WAVE_NUM
<1> HIDE DEF R, k
<1>5. k = 0 \/ k = 1 \/ k = 2 \/ k = 3
  BY <1>2
<1>6. d \in Int /\ d < 65536 /\ d > -49152
  BY <1>1, <1>5
<1>7. row = IF d >= 0 THEN d ELSE d + 65536
  <2> HIDE DEF d
  <2> QED
    BY <1>6
<1>8. row < R <=> d >= 0 /\ d < R
  BY <1>1, <1>6, <1>7
<1>9. row < R => (row + k * R) % 65536 = b
  <2>1. ASSUME row < R PROVE row + k * R = b
    <3>1. row = d
      BY <1>7, <1>8, <2>1
    <3>2. k * R \in Int
      BY <1>1, <1>2
    <3> QED
      BY <1>1, <3>1, <3>2
  <2>2. b % 65536 = b
    BY <1>1
  <2> QED
    BY <2>1, <2>2
<1>10. u \in Owners(b) <=> row < R
  BY <1>3 DEF Owners, R
<1> QED
  BY <1>3, <1>4, <1>8, <1>9, <1>10 DEF R, k

(* Each of the four blocks is two units'. *)
LEMMA TwoOwners ==
  ASSUME NEW b \in Beam
  PROVE  Cardinality(Owners(b)) = 2
<1> DEFINE R == RowsOfBBU
           In(k) == b - k * R >= 0 /\ b - k * R < R
<1>1. R \in Nat \ {0} /\ b \in Nat /\ b < 4 * R
  BY RowsAre DEF Beam
<1>2. Owners(b) = {u \in BBU : In(Block(u))}
  <2>1. \A u \in BBU : u \in Owners(b) <=> In(Block(u))
    BY OwnersAre
  <2>2. Owners(b) \subseteq BBU
    BY DEF Owners
  <2> QED
    BY <2>1, <2>2
<1>3. BBU = {0, 1, 2, 3, 4, 5, 6, 7}
  BY DEF BBU, BBU_NUM
<1>4. /\ Block(0) = 0 /\ Block(6) = 0 /\ Block(1) = 1 /\ Block(7) = 1
      /\ Block(2) = 2 /\ Block(4) = 2 /\ Block(3) = 3 /\ Block(5) = 3
  BY DEF Block
<1>5. PICK k \in 0 .. 3 : \A e \in 0 .. 3 : In(e) <=> e = k
  <2> HIDE DEF R
  <2>1. CASE b < R
    BY <1>1, <2>1
  <2>2. CASE R <= b /\ b < 2 * R
    BY <1>1, <2>2
  <2>3. CASE 2 * R <= b /\ b < 3 * R
    BY <1>1, <2>3
  <2>4. CASE 3 * R <= b
    BY <1>1, <2>4
  <2> QED
    BY <1>1, <2>1, <2>2, <2>3, <2>4
<1> HIDE DEF In
<1>6. \E p, q : p # q /\ Owners(b) = {p, q}
  <2>1. CASE k = 0
    <3>1. Owners(b) = {0, 6}
      BY <1>2, <1>3, <1>4, <1>5, <2>1
    <3>2. 0 # 6
      OBVIOUS
    <3> QED
      BY <3>1, <3>2, Zenon
  <2>2. CASE k = 1
    <3>1. Owners(b) = {1, 7}
      BY <1>2, <1>3, <1>4, <1>5, <2>2
    <3>2. 1 # 7
      OBVIOUS
    <3> QED
      BY <3>1, <3>2, Zenon
  <2>3. CASE k = 2
    <3>1. Owners(b) = {2, 4}
      BY <1>2, <1>3, <1>4, <1>5, <2>3
    <3>2. 2 # 4
      OBVIOUS
    <3> QED
      BY <3>1, <3>2, Zenon
  <2>4. CASE k = 3
    <3>1. Owners(b) = {3, 5}
      BY <1>2, <1>3, <1>4, <1>5, <2>4
    <3>2. 3 # 5
      OBVIOUS
    <3> QED
      BY <3>1, <3>2, Zenon
  <2>5. k = 0 \/ k = 1 \/ k = 2 \/ k = 3
    OBVIOUS
  <2> QED
    BY <2>1, <2>2, <2>3, <2>4, <2>5, Zenon
<1>7. PICK p, q : p # q /\ Owners(b) = {p, q}
  BY <1>6
<1>8. IsFiniteSet({p}) /\ Cardinality({p}) = 1
  BY FS_Singleton
<1>9. Cardinality({p} \cup {q}) = 2
  BY <1>7, <1>8, FS_AddElement
<1>10. {p} \cup {q} = {p, q}
  OBVIOUS
<1> QED
  BY <1>7, <1>9, <1>10

(* The rows that unit 0 polls. *)
LEMMA PolledByUnit0 == PolledRowsAreTheWaves
<1> SUFFICES ASSUME NEW p \in Polled(0)
             PROVE  WAVE_NUM_to_LocalIndex_map(0, p[2]) = p[1]
  BY DEF PolledRowsAreTheWaves
<1>1. PICK w \in 0 .. PolledOfBBU - 1 : p = <<w, 0 * PolledOfBBU + w>>
  BY DEF Polled
<1>2. PolledOfBBU \in Nat /\ PolledOfBBU < 16384 /\ RowsOfBBU \in Nat
  BY RowsAre
<1>3. p[1] = w /\ p[2] = w
  BY <1>1, <1>2
<1>4. Block(0) = 0
  BY DEF Block
<1>5. (w - 0 * RowsOfBBU) % 65536 = w
  BY <1>2
<1> QED
  BY <1>3, <1>4, <1>5 DEF WAVE_NUM_to_LocalIndex_map

(* Every beam has its rows. *)
LEMMA EveryBeamHasRows == Beam \subseteq BeamsWithRows
<1> SUFFICES ASSUME NEW b \in Beam PROVE HasRows(b)
  BY DEF BeamsWithRows
<1>1. Init_Interference_Matrix(b) =
        {c \in Beam : calc_distance(CellOf(b), CellOf(c)) <= 1}
  BY InterferesWithNeighbours
<1>2. Cardinality(Owners(b)) = 2
  BY TwoOwners
<1>3. \A u \in Owners(b) :
        wave_local_index_to_WAVE_NUM(u, WAVE_NUM_to_LocalIndex_map(u, b)) = b
  <2>1. Owners(b) \subseteq BBU
    BY DEF Owners
  <2> QED
    BY <2>1, OwnersAre
<1> QED
  BY <1>1, <1>2, <1>3 DEF HasRows

(* Who has not been matched yet is at the corner of the first cell. *)
LEMMA CornerIsIn == 0 \in Beam /\ StandsIn([x |-> 0, y |-> 0], 0)
<1>1. 0 \in Beam
  BY BeamsAre DEF Beam
<1>2. PICK g \in Nat \ {0} : step_x = 2 * g
  BY GridIs
<1>3. PICK h \in Nat \ {0} : step_y = 2 * h
  BY GridIs
<1>4. cols \in Nat \ {0} /\ rows \in Nat \ {0}
  BY GridIs
<1>5. 0 % cols = 0 /\ 0 \div cols = 0
  <2> DEFINE k == cols * 0 + 0
  <2>1. 0 \in 0 .. cols - 1 /\ 0 \in 0 .. rows - 1
    BY <1>4
  <2>2. k % cols = 0 /\ k \div cols = 0
    BY <2>1, BeamAt
  <2>3. k = 0
    BY <1>4
  <2> QED
    BY <2>2, <2>3
<1>6. CellOf(0).x = 0 /\ CellOf(0).y = 0
  BY <1>5 DEF CellOf
<1>7. 0 - 0 * step_x \in 0 .. step_x
  BY <1>2
<1>8. 0 - 0 * step_y \in 0 .. step_y
  BY <1>3
<1> QED
  BY <1>1, <1>6, <1>7, <1>8 DEF StandsIn

(* What PlaceHasRows says, with what the loop's table is. *)
MatchInv ==
  /\ generated \in Nat
  /\ DOMAIN g_User_Topology = UserIndex
  /\ PlaceHasRows

(* For every grid of beams that the assumptions allow, every number of users
   and wherever each of them stands: his beam is that of his cell, it
   interferes with its neighbours by a side, and two units have a row that
   maps back to it; what the polling loop of unit 0 takes for a wave's row is
   the wave's. *)
THEOREM PlacesHaveRows == MatchSpec => []PlaceHasRows
<1>1. MatchInit => MatchInv
  <2> SUFFICES ASSUME MatchInit PROVE MatchInv
    OBVIOUS
  <2>1. \A n \in UserIndex : /\ g_User_Topology[n].Pos = [x |-> 0, y |-> 0]
                             /\ g_User_Topology[n].Best_Wave_ID = 0
    BY DEF MatchInit
  <2>2. DOMAIN g_User_Topology = UserIndex /\ generated \in Nat
    BY DEF MatchInit
  <2>3. \A n \in UserIndex :
          /\ StandsIn(g_User_Topology[n].Pos, g_User_Topology[n].Best_Wave_ID)
          /\ g_User_Topology[n].Best_Wave_ID \in BeamsWithRows
    BY <2>1, CornerIsIn, EveryBeamHasRows
  <2> QED
    BY <2>2, <2>3, PolledByUnit0 DEF MatchInv, PlaceHasRows
<1>2. MatchInv /\ [Generate_Users_And_Match]_matchVars => MatchInv'
  <2> SUFFICES ASSUME MatchInv, [Generate_Users_And_Match]_matchVars
               PROVE  MatchInv'
    OBVIOUS
  <2>1. CASE Generate_Users_And_Match
    <3>1. PICK pos \in Positions :
            g_User_Topology' = [g_User_Topology EXCEPT
              ![generated] = [Pos |-> pos, Best_Wave_ID |-> Best_Wave_ID_at(pos)]]
      BY <2>1 DEF Generate_Users_And_Match
    <3>2. pos \in [x : 0 .. COVERAGE_WIDTH, y : 0 .. COVERAGE_HEIGHT]
      BY UsersAssumption
    <3>3. pos.x \in Int /\ pos.y \in Int
      BY <3>2, AreaIs
    <3> DEFINE best == Best_Wave_ID_at(pos)
    <3>4. best \in Beam /\ \A b \in Beam : calc_distance(pos, Init_Topology(best))
                                            <= calc_distance(pos, Init_Topology(b))
      BY <3>3, BestIsNearest
    <3> HIDE DEF best
    <3>5. StandsIn(pos, best)
      BY <3>2, <3>4, StandsInCell
    <3>6. best \in BeamsWithRows
      BY <3>4, EveryBeamHasRows
    <3>7. ASSUME NEW n \in UserIndex
          PROVE  /\ StandsIn(g_User_Topology'[n].Pos, g_User_Topology'[n].Best_Wave_ID)
                 /\ g_User_Topology'[n].Best_Wave_ID \in BeamsWithRows
      <4>1. CASE n = generated
        <5>1. g_User_Topology'[n] = [Pos |-> pos, Best_Wave_ID |-> best]
          BY <3>1, <3>7, <4>1 DEF MatchInv, best
        <5> QED
          BY <3>5, <3>6, <5>1
      <4>2. CASE n # generated
        <5>1. g_User_Topology'[n] = g_User_Topology[n]
          BY <3>1, <3>7, <4>2 DEF MatchInv
        <5>2. /\ StandsIn(g_User_Topology[n].Pos, g_User_Topology[n].Best_Wave_ID)
              /\ g_User_Topology[n].Best_Wave_ID \in BeamsWithRows
          BY <3>7 DEF MatchInv, PlaceHasRows
        <5> QED
          BY <5>1, <5>2
      <4> QED
        BY <4>1, <4>2
    <3>8. generated' \in Nat /\ DOMAIN g_User_Topology' = UserIndex
      BY <2>1, <3>1 DEF MatchInv, Generate_Users_And_Match
    <3> QED
      BY <3>7, <3>8, PolledByUnit0 DEF MatchInv, PlaceHasRows
  <2>2. CASE UNCHANGED matchVars
    BY <2>2 DEF matchVars, MatchInv, PlaceHasRows
  <2> QED
    BY <2>1, <2>2
<1>3. MatchInv => PlaceHasRows
  BY DEF MatchInv
<1> QED
  BY <1>1, <1>2, <1>3, PTL DEF MatchSpec
=============================================================================
