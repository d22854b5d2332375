------------------------- MODULE RecordQueueProofs -------------------------
(***************************************************************************)
(* Proofs about RecordQueue for every size of the ring and every length of *)
(* a record that is at most half of it: the ring is one place, and what is *)
(* in it is whole.                                                         *)
(***************************************************************************)
EXTENDS RecordQueue, TLAPS

(* The record r lies at the L places from tail on. *)
Lies(r, ring) == \A k \in 0 .. Length - 1 : ring.arr[At(ring.tail, k)] = <<r, k + 1>>

Emptied == q.head = q.tail /\ written = q.tail

Filled == /\ q.head = At(q.tail, Length)
          /\ written = q.tail + Length
          /\ \E r \in Record : Lies(r, q)

(***************************************************************************)
(* The inductive invariant.  Tail never comes round: a record that lies    *)
(* across the end of arr is never taken out, so tail counts the bytes that *)
(* were taken since the last App_queue_init.                               *)
(***************************************************************************)
IInv ==
  /\ q \in Ring
  /\ q.tail < QUEMAXSIZE
  /\ crashed \in BOOLEAN
  /\ reply \in Record \cup {None, "OK", "ERROR"}
  /\ Emptied \/ Filled
  /\ crashed => written >= QUEMAXSIZE

-----------------------------------------------------------------------------
(* What the formulas of App_queue.c come to on an empty ring. *)
LEMMA OnEmpty ==
  ASSUME NEW ring \in Ring, ring.head = ring.tail, ring.tail < QUEMAXSIZE
  PROVE  /\ Size(ring) = 0
         /\ Accepts(ring, Length)
         /\ ~PushFaults(ring, Length)
         /\ ~PopFaults(ring, Length)
         /\ PopLen(ring, Length) = 0
         /\ Copied(ring, Length) = <<>>
         /\ Removed(ring, Length) = ring
         /\ HeadAfter(ring, Length) = At(ring.tail, Length)
<1>1. QUEMAXSIZE \in Nat /\ Length \in Nat /\ Length < QUEMAXSIZE /\ 0 < Length
  BY QueueAssumption, RecordAssumption
<1>2. ring.head \in Nat /\ ring.tail \in Nat
  BY <1>1 DEF Ring
<1>3. Size(ring) = 0 /\ PopLen(ring, Length) = 0 /\ PopRun(ring) = 0
  BY <1>1, <1>2 DEF Size, PopLen, PopRun, Forward
<1>4. Accepts(ring, Length) /\ PushRoom(ring) = QUEMAXSIZE - ring.tail
  BY <1>1, <1>2, <1>3 DEF Accepts, Remain, PushRoom, Forward
<1>5. ~PushFaults(ring, Length) /\ ~PopFaults(ring, Length)
  BY <1>1, <1>2, <1>3, <1>4 DEF PushFaults, PopFaults
<1>6. Copied(ring, Length) = <<>>
  BY <1>3 DEF Copied
<1>7. Removed(ring, Length) = ring
  BY <1>1, <1>2, <1>3 DEF Removed, TailAfter, Ring
<1>8. HeadAfter(ring, Length) = At(ring.tail, Length)
  BY <1>1, <1>2, <1>4 DEF HeadAfter, At
<1> QED
  BY <1>3, <1>4, <1>5, <1>6, <1>7, <1>8

(* And on a ring that holds one record, across the end of arr or not. *)
LEMMA OnFull ==
  ASSUME NEW ring \in Ring, ring.head = At(ring.tail, Length),
         ring.tail < QUEMAXSIZE
  PROVE  /\ ring.head # ring.tail
         /\ ~Accepts(ring, Length)
         /\ PopLen(ring, Length) = Length
         /\ PopFaults(ring, Length) <=> ring.tail + Length >= QUEMAXSIZE
         /\ ~PopFaults(ring, Length) =>
              /\ Removed(ring, Length) = [ring EXCEPT !.tail = ring.head]
              /\ ring.head = ring.tail + Length
<1>1. QUEMAXSIZE \in Nat /\ Length \in Nat /\ 2 * Length <= QUEMAXSIZE /\ 0 < Length
  BY QueueAssumption, RecordAssumption
<1>2. ring.head \in Nat /\ ring.tail \in Nat
  BY <1>1 DEF Ring
<1>3. CASE ring.tail + Length < QUEMAXSIZE
  <2>1. ring.head = ring.tail + Length
    BY <1>3 DEF At
  <2>2. Size(ring) = QUEMAXSIZE - Length /\ PopRun(ring) = QUEMAXSIZE - ring.tail
    BY <1>1, <1>2, <2>1 DEF Size, PopRun, Forward
  <2>3. PopLen(ring, Length) = Length /\ ~Accepts(ring, Length)
    BY <1>1, <1>2, <2>2 DEF PopLen, Accepts, Remain
  <2>4. ~PopFaults(ring, Length) /\ TailAfter(ring, Length) = ring.head
    BY <1>1, <1>2, <1>3, <2>1, <2>2, <2>3 DEF PopFaults, TailAfter
  <2> QED
    BY <1>1, <1>2, <1>3, <2>1, <2>3, <2>4 DEF Removed
<1>4. CASE ring.tail + Length >= QUEMAXSIZE
  <2>1. ring.head = ring.tail + Length - QUEMAXSIZE
    BY <1>1, <1>2, <1>4 DEF At
  <2>2. Size(ring) = QUEMAXSIZE - Length /\ PopRun(ring) = Length - QUEMAXSIZE
    BY <1>1, <1>2, <2>1 DEF Size, PopRun, Forward
  <2>3. PopLen(ring, Length) = Length /\ ~Accepts(ring, Length)
    BY <1>1, <1>2, <2>2 DEF PopLen, Accepts, Remain
  <2>4. PopFaults(ring, Length)
    BY <1>1, <1>2, <2>2, <2>3 DEF PopFaults
  <2> QED
    BY <1>1, <1>2, <1>4, <2>1, <2>3, <2>4
<1> QED
  BY <1>1, <1>2, <1>3, <1>4

(* What is copied out of a full ring is the record in it. *)
LEMMA FullReply ==
  ASSUME NEW ring \in Ring, ring.head = At(ring.tail, Length),
         ring.tail < QUEMAXSIZE,
         NEW r \in Record, Lies(r, ring)
  PROVE  Decode(Copied(ring, Length)) = r
<1>1. QUEMAXSIZE \in Nat /\ Length \in Nat /\ 0 < Length /\ ring.tail \in Nat
  BY QueueAssumption, RecordAssumption DEF Ring
<1>2. PopLen(ring, Length) = Length
  BY OnFull
<1>3. Copied(ring, Length) # <<>> /\ Copied(ring, Length)[1] = ring.arr[At(ring.tail, 0)]
  BY <1>1, <1>2 DEF Copied
<1>4. ring.arr[At(ring.tail, 0)] = <<r, 1>>
  BY <1>1 DEF Lies
<1> QED
  BY <1>3, <1>4 DEF Decode

(* A push into an empty ring writes the whole record. *)
LEMMA PushFills ==
  ASSUME NEW ring \in Ring, ring.head = ring.tail, ring.tail < QUEMAXSIZE,
         NEW r \in Record
  PROVE  /\ Pushed(ring, Bytes(r)) \in Ring
         /\ Pushed(ring, Bytes(r)).tail = ring.tail
         /\ Pushed(ring, Bytes(r)).head = At(ring.tail, Length)
         /\ Lies(r, Pushed(ring, Bytes(r)))
<1>1. QUEMAXSIZE \in Nat /\ Length \in Nat /\ 2 * Length <= QUEMAXSIZE /\ 0 < Length
  BY QueueAssumption, RecordAssumption
<1>2. ring.tail \in Nat /\ ring.arr \in [0 .. QUEMAXSIZE - 1 -> Cell]
  BY <1>1 DEF Ring
<1>3. Len(Bytes(r)) = Length /\ \A k \in 1 .. Length : Bytes(r)[k] = <<r, k>>
  BY <1>1 DEF Bytes
<1>4. HeadAfter(ring, Length) = At(ring.tail, Length)
  BY OnEmpty
<1>5. At(ring.tail, Length) \in 0 .. QUEMAXSIZE
  BY <1>1, <1>2 DEF At
<1> DEFINE arr == [p \in 0 .. QUEMAXSIZE - 1 |->
                     IF Past(ring.head, p) < Length THEN Bytes(r)[Past(ring.head, p) + 1]
                     ELSE ring.arr[p]]
<1>6. Pushed(ring, Bytes(r)) =
        [arr |-> arr, head |-> At(ring.tail, Length), tail |-> ring.tail]
  BY <1>3, <1>4 DEF Pushed
<1>7. arr \in [0 .. QUEMAXSIZE - 1 -> Cell]
  <2> SUFFICES ASSUME NEW p \in 0 .. QUEMAXSIZE - 1
               PROVE  arr[p] \in Cell
    OBVIOUS
  <2>1. CASE Past(ring.head, p) < Length
    <3>1. Past(ring.head, p) + 1 \in 1 .. Length
      BY <1>1, <1>2, <2>1 DEF Past
    <3>2. arr[p] = <<r, Past(ring.head, p) + 1>>
      BY <1>3, <2>1, <3>1
    <3>3. <<r, Past(ring.head, p) + 1>> \in Record \X (1 .. Length)
      BY <3>1
    <3> HIDE DEF arr
    <3> QED
      BY <3>2, <3>3, RecordAssumption
  <2>2. CASE ~(Past(ring.head, p) < Length)
    BY <1>2, <2>2
  <2> QED
    BY <2>1, <2>2
<1>8. ASSUME NEW k \in 0 .. Length - 1
      PROVE  arr[At(ring.tail, k)] = <<r, k + 1>>
  <2>1. At(ring.tail, k) \in 0 .. QUEMAXSIZE - 1 /\ Past(ring.head, At(ring.tail, k)) = k
    BY <1>1, <1>2 DEF At, Past
  <2>2. k + 1 \in 1 .. Length /\ k < Length
    BY <1>1
  <2> QED
    BY <1>3, <2>1, <2>2
<1> HIDE DEF arr
<1> QED
  BY <1>2, <1>5, <1>6, <1>7, <1>8 DEF Ring, Lies

-----------------------------------------------------------------------------
(* The inductive invariant is one. *)
LEMMA InitInvariant == Init => IInv
<1> SUFFICES ASSUME Init PROVE IInv
  OBVIOUS
<1>1. QUEMAXSIZE \in Nat \ {0} /\ Zero \in Cell
  BY QueueAssumption, RecordAssumption
<1>2. q \in Ring /\ q.head = 0 /\ q.tail = 0
  BY <1>1 DEF Init, Ring
<1>3. crashed \in BOOLEAN /\ ~crashed
  BY DEF Init
<1> QED
  BY <1>1, <1>2, <1>3 DEF Init, IInv, Emptied

(* No push, pop, look or App_queue_init breaks it. *)
LEMMA StepInvariant == IInv /\ [Next]_vars => IInv'
<1> SUFFICES ASSUME IInv, [Next]_vars PROVE IInv'
  OBVIOUS
<1>1. QUEMAXSIZE \in Nat /\ Length \in Nat /\ 2 * Length <= QUEMAXSIZE /\ 0 < Length
  BY QueueAssumption, RecordAssumption
<1>2. q.tail \in Nat /\ q.head \in Nat
  BY <1>1 DEF IInv, Ring
<1>3. ASSUME NEW r \in Record, PushRecord(r) PROVE IInv'
  <2>1. CASE Emptied
    <3>1. Accepts(q, Length) /\ ~PushFaults(q, Length)
      BY <2>1, OnEmpty DEF Emptied, IInv
    <3>2. /\ q' = Pushed(q, Bytes(r))
          /\ written' = written + Length
          /\ reply' = "OK" /\ crashed' = crashed
      BY <1>3, <3>1 DEF PushRecord
    <3>3. /\ q' \in Ring /\ q'.tail = q.tail
          /\ q'.head = At(q.tail, Length) /\ Lies(r, q')
      BY <2>1, <3>2, PushFills DEF Emptied, IInv
    <3>4. Filled'
      BY <2>1, <3>2, <3>3 DEF Emptied, Filled
    <3>5. crashed' => written' >= QUEMAXSIZE
      BY <1>1, <1>2, <2>1, <3>2 DEF IInv, Emptied
    <3> QED
      BY <3>2, <3>3, <3>4, <3>5 DEF IInv
  <2>2. CASE Filled
    <3>1. ~Accepts(q, Length)
      BY <2>2, OnFull DEF Filled, IInv
    <3>2. reply' = "ERROR" /\ UNCHANGED <<q, crashed, written>>
      BY <1>3, <3>1 DEF PushRecord, PushFaults
    <3> QED
      BY <2>2, <3>2 DEF IInv, Filled, Lies
  <2> QED
    BY <2>1, <2>2 DEF IInv
<1>4. ASSUME PopFaults(q, Length), Crash PROVE IInv'
  <2>1. Filled
    BY <1>4, OnEmpty DEF IInv, Emptied
  <2>2. written >= QUEMAXSIZE
    BY <1>4, <2>1, OnFull DEF IInv, Filled
  <2> QED
    BY <1>4, <2>1, <2>2 DEF IInv, Crash, Filled, Lies
<1>5. ASSUME ~PopFaults(q, Length), q' = Removed(Removed(q, Length), Length),
             reply' = Decode(Copied(q, Length)), UNCHANGED <<crashed, written>>
      PROVE  IInv'
  <2>1. CASE Emptied
    <3>1. q' = q /\ reply' = None
      BY <1>5, <2>1, OnEmpty DEF IInv, Emptied, Decode
    <3> QED
      BY <1>5, <2>1, <3>1 DEF IInv, Emptied
  <2>2. CASE Filled
    <3>1. reply' \in Record
      BY <1>5, <2>2, FullReply DEF IInv, Filled
    <3> DEFINE ring == [q EXCEPT !.tail = q.head]
    <3>2. Removed(q, Length) = ring /\ q.head = q.tail + Length /\ q.head < QUEMAXSIZE
      BY <1>5, <2>2, <1>1, <1>2, OnFull DEF IInv, Filled
    <3>3. ring \in Ring /\ ring.head = q.head /\ ring.tail = q.head
      BY DEF IInv, Ring
    <3>4. q' = ring
      BY <1>5, <3>2, <3>3, OnEmpty
    <3>5. Emptied'
      BY <1>5, <2>2, <3>2, <3>3, <3>4 DEF Emptied, Filled
    <3> QED
      BY <1>5, <3>1, <3>2, <3>3, <3>4, <3>5 DEF IInv
  <2> QED
    BY <2>1, <2>2 DEF IInv
<1>6. ASSUME ~PopFaults(q, Length), reply' = Decode(Copied(q, Length)),
             UNCHANGED <<q, crashed, written>>
      PROVE  IInv'
  <2>1. reply' \in Record \cup {None}
    BY <1>6, OnEmpty, FullReply DEF IInv, Emptied, Filled, Decode
  <2> QED
    BY <1>6, <2>1 DEF IInv, Emptied, Filled, Lies
<1>7. ASSUME ~crashed, Initialise PROVE IInv'
  <2>1. q' \in Ring /\ q'.head = 0 /\ q'.tail = 0
    BY <1>1, <1>7 DEF Initialise, Reset, IInv, Ring
  <2> QED
    BY <1>1, <1>7, <2>1 DEF Initialise, IInv, Emptied
<1>8. ASSUME UNCHANGED vars PROVE IInv'
  BY <1>8 DEF vars, IInv, Emptied, Filled, Lies
<1> QED
  BY <1>3, <1>4, <1>5, <1>6, <1>7, <1>8 DEF Next, TakeRecord, PeekRecord

(* Throughout, the ring is empty or filled by one record, and tail is the
   number of bytes written but for the record that is still in it. *)
THEOREM Invariant == Spec => []IInv
<1> QED
  BY InitInvariant, StepInvariant, PTL DEF Spec

-----------------------------------------------------------------------------
(***************************************************************************)
(* Type correctness: head and tail stay in arr, and no sequence of pushes, *)
(* pops and App_queue_init leaves a pointer outside it.                    *)
(***************************************************************************)
THEOREM TypeCorrect == Spec => []TypeOK
<1>1. IInv => TypeOK
  <2> SUFFICES ASSUME IInv PROVE TypeOK
    OBVIOUS
  <2>1. QUEMAXSIZE \in Nat /\ Length \in Nat /\ q.tail \in Nat
    BY QueueAssumption, RecordAssumption DEF IInv, Ring
  <2>2. written \in 0 .. QUEMAXSIZE + Length
    BY <2>1 DEF IInv, Emptied, Filled
  <2> QED
    BY <2>2 DEF IInv, TypeOK
<1> QED
  BY <1>1, Invariant, PTL

(***************************************************************************)
(* App_queue_push and App_queue_pop never leave a record in pieces: the    *)
(* ring holds nothing or one whole record, across the end of arr too.      *)
(***************************************************************************)
THEOREM HoldsWholeRecord == Spec => []WholeRecord
<1>1. IInv => WholeRecord
  BY DEF IInv, Emptied, Filled, Lies, WholeRecord, IsEmpty
<1> QED
  BY <1>1, Invariant, PTL

(***************************************************************************)
(* The memcpy of App_queue_pop gets a negative length only on a ring that  *)
(* has been filled once since App_queue_init.                              *)
(***************************************************************************)
THEOREM CrashesOnlyAfterWrap == Spec => []CrashOnlyAfterWrap
<1>1. IInv => CrashOnlyAfterWrap
  BY DEF IInv, CrashOnlyAfterWrap
<1> QED
  BY <1>1, Invariant, PTL

-----------------------------------------------------------------------------
(* The place of OneSlot on an empty ring and on one with the record r. *)
LEMMA HeldEmpty == q.head = q.tail => Held = None
  BY DEF Held, HeldIn, IsEmpty

(* On a ring that record r fills, the place holds r. *)
LEMMA HeldFull ==
  ASSUME NEW ring \in Ring, ring.tail < QUEMAXSIZE, ring.head # ring.tail,
         NEW r \in Record, Lies(r, ring)
  PROVE  HeldIn(ring) = r /\ r # None
<1>1. Length \in Nat \ {0} /\ None \notin Record /\ Zero \notin Record \X (1 .. Length)
  BY RecordAssumption
<1>2. ring.arr[At(ring.tail, 0)] = <<r, 1>>
  BY <1>1 DEF Lies
<1>3. <<r, 1>> \in Record \X (1 .. Length)
  BY <1>1
<1> QED
  BY <1>1, <1>2, <1>3 DEF HeldIn, IsEmpty

(* Every operation of the ring is one of the place, or none. *)
LEMMA StepRefines == IInv /\ IInv' /\ [Next]_vars => [Slot!Next]_(Slot!vars)
<1> SUFFICES ASSUME IInv, IInv', Next PROVE [Slot!Next]_(Slot!vars)
  <2>1. ASSUME UNCHANGED vars PROVE UNCHANGED Slot!vars
    BY <2>1 DEF vars, Slot!vars, Held, HeldIn, IsEmpty
  <2> QED
    BY <2>1
<1> USE DEF Slot!Next
<1>1. ~crashed
  BY DEF Next
<1>2. ASSUME NEW r \in Record, PushRecord(r) PROVE Slot!Next
  <2>1. CASE Emptied
    <3>1. Accepts(q, Length) /\ ~PushFaults(q, Length)
      BY <2>1, OnEmpty DEF Emptied, IInv
    <3>2. q' = Pushed(q, Bytes(r)) /\ reply' = "OK" /\ crashed' = crashed
      BY <1>2, <3>1 DEF PushRecord
    <3>3. /\ q' \in Ring /\ q'.tail = q.tail
          /\ q'.head = At(q.tail, Length) /\ Lies(r, q')
      BY <2>1, <3>2, PushFills DEF Emptied, IInv
    <3>4. Held = None
      BY <2>1, HeldEmpty DEF Emptied
    <3>5. q'.head # q'.tail
      BY <3>3, OnFull DEF IInv
    <3>6. Held' = r
      BY <3>3, <3>5, HeldFull DEF IInv, Held
    <3>7. Slot!Put(r)
      BY <3>2, <3>4, <3>6 DEF Slot!Put
    <3> QED
      BY <1>1, <3>7
  <2>2. CASE Filled
    <3>1. ~Accepts(q, Length) /\ q.head # q.tail
      BY <2>2, OnFull DEF Filled, IInv
    <3>2. reply' = "ERROR" /\ UNCHANGED <<q, crashed>>
      BY <1>2, <3>1 DEF PushRecord, PushFaults
    <3>3. Held # None
      BY <2>2, <3>1, HeldFull DEF Filled, IInv, Held
    <3>4. Slot!Refuse
      BY <3>2, <3>3 DEF Slot!Refuse, Held, HeldIn, IsEmpty
    <3> QED
      BY <1>1, <3>4
  <2> QED
    BY <2>1, <2>2 DEF IInv
<1>3. ASSUME Crash PROVE Slot!Next
  <2>1. Slot!Break
    BY <1>3 DEF Crash, Slot!Break, Held, HeldIn, IsEmpty
  <2> QED
    BY <1>1, <2>1
<1>4. ASSUME reply' = Decode(Copied(q, Length)) PROVE reply' = Held
  <2>1. CASE Emptied
    BY <1>4, <2>1, OnEmpty, HeldEmpty DEF IInv, Emptied, Decode
  <2>2. CASE Filled
    <3>1. PICK r \in Record : Lies(r, q)
      BY <2>2 DEF Filled
    <3>2. Decode(Copied(q, Length)) = r
      BY <2>2, <3>1, FullReply DEF Filled, IInv
    <3>3. Held = r
      BY <2>2, <3>1, OnFull, HeldFull DEF Filled, IInv, Held
    <3> QED
      BY <1>4, <3>2, <3>3
  <2> QED
    BY <2>1, <2>2 DEF IInv
<1>5. ASSUME ~PopFaults(q, Length), TakeRecord PROVE Slot!Next
  <2>1. /\ reply' = Decode(Copied(q, Length)) /\ crashed' = crashed
        /\ q' = Removed(Removed(q, Length), Length)
    BY <1>5 DEF TakeRecord
  <2>2. q'.head = q'.tail
    <3>1. CASE Emptied
      BY <2>1, <3>1, OnEmpty DEF IInv, Emptied
    <3>2. CASE Filled
      <4> DEFINE ring == [q EXCEPT !.tail = q.head]
      <4>1. Removed(q, Length) = ring /\ q.head = q.tail + Length
        BY <1>5, <3>2, OnFull DEF IInv, Filled
      <4>2. ring \in Ring /\ ring.head = q.head /\ ring.tail = q.head
        BY DEF IInv, Ring
      <4>3. q.head < QUEMAXSIZE
        <5>1. /\ QUEMAXSIZE \in Nat /\ q.tail \in Nat /\ q.head \in Nat
              /\ Length \in Nat
          BY QueueAssumption, RecordAssumption DEF IInv, Ring
        <5>2. ~(q.tail + Length >= QUEMAXSIZE)
          BY <1>5, <3>2, OnFull DEF IInv, Filled
        <5> QED
          BY <4>1, <5>1, <5>2
      <4> QED
        BY <2>1, <4>1, <4>2, <4>3, OnEmpty
    <3> QED
      BY <3>1, <3>2 DEF IInv
  <2>3. Held' = None
    BY <2>2 DEF Held, HeldIn, IsEmpty
  <2>4. Slot!Take
    BY <1>4, <2>1, <2>3 DEF Slot!Take
  <2> QED
    BY <1>1, <2>4
<1>6. ASSUME ~PopFaults(q, Length), PeekRecord PROVE Slot!Next
  <2>1. reply' = Decode(Copied(q, Length)) /\ UNCHANGED <<q, crashed>>
    BY <1>6 DEF PeekRecord
  <2>2. Slot!Look
    BY <1>4, <2>1 DEF Slot!Look, Held, HeldIn, IsEmpty
  <2> QED
    BY <1>1, <2>2
<1>7. ASSUME Initialise PROVE Slot!Next
  <2>1. Held' = None
    BY <1>7 DEF Initialise, Reset, Held, HeldIn, IsEmpty
  <2>2. Slot!Clear
    BY <1>7, <2>1 DEF Initialise, Slot!Clear
  <2> QED
    BY <1>1, <2>2
<1> QED
  BY <1>2, <1>3, <1>5, <1>6, <1>7 DEF Next, TakeRecord, PeekRecord

(***************************************************************************)
(* A ring of any size, used for records of one length, implements a buffer *)
(* of one place: the 2000-byte lists of init_CCH_idlerb_list hold one RB,  *)
(* and Queue_RACH_Req holds one request.                                   *)
(***************************************************************************)
THEOREM ImplementsOneSlot == Spec => OneSlotSpec
<1>1. Init => Slot!Init
  BY HeldEmpty DEF Init, Slot!Init
<1> QED
  BY <1>1, Invariant, StepRefines, PTL DEF Spec, OneSlotSpec, Slot!Spec
=============================================================================
