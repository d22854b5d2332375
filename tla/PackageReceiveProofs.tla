------------------------ MODULE PackageReceiveProofs ------------------------
(***************************************************************************)
(* Proofs about PackageReceive for every ring, every set of messages and   *)
(* every number of datagrams: the types; that a young stream is handled    *)
(* once and in order; what its first repetition leads to.                  *)
(***************************************************************************)
EXTENDS PackageReceive, WellFoundedInduction, TLAPS

(* The order of the natural numbers as a relation. *)
LessThan == {p \in Nat \X Nat : p[1] < p[2]}

(* A set of natural numbers has a least one. *)
LEMMA Least ==
  ASSUME NEW T, T \subseteq Nat, T # {}
  PROVE  \E m \in T : \A k \in T : m <= k
<1>1. IsWellFoundedOn(LessThan, Nat)
  BY NatLessThanWellFounded DEF OpToRel, LessThan
<1>2. \E m \in T : \A k \in T : ~ (<<k, m>> \in LessThan)
  BY <1>1, WFMin
<1>3. \A k, m \in Nat : k < m => <<k, m>> \in LessThan
  BY DEF LessThan
<1>4. PICK m \in T : \A k \in T : ~ (<<k, m>> \in LessThan)
  BY <1>2
<1>5. \A k \in T : ~(k < m)
  BY <1>3, <1>4
<1>6. \A k \in T : m <= k
  BY <1>5
<1> QED
  BY <1>6

(* What holds of 0 and passes from each number below b to the next holds of
   all numbers up to b. *)
LEMMA UpTo ==
  ASSUME NEW b \in Nat, NEW S, 0 \in S, \A n \in 0 .. b - 1 : n \in S => n + 1 \in S
  PROVE  0 .. b \subseteq S
<1>1. SUFFICES ASSUME ~(0 .. b \subseteq S) PROVE FALSE
  OBVIOUS
<1> DEFINE T == (0 .. b) \ S
<1>2. T \subseteq Nat /\ T # {}
  BY <1>1
<1>3. PICK m \in T : \A k \in T : m <= k
  BY <1>2, Least
<1>4. m # 0 /\ m - 1 \in 0 .. b - 1 /\ m - 1 \notin T
  BY <1>3
<1> QED
  BY <1>3, <1>4

(* The function behind BytesOf. *)
LEMMA SumsExist ==
  ASSUME NEW x, NEW n \in Nat
  PROVE  \E g : g = [i \in 0 .. n |-> IF i = 0 THEN 0 ELSE g[i - 1] + FrameLen[x[i]]]
<1> DEFINE F(g, k) == [i \in 0 .. k |-> IF i = 0 THEN 0 ELSE g[i - 1] + FrameLen[x[i]]]
           S == {k \in 0 .. n : \E g : g = F(g, k)}
<1>1. 0 \in S
  <2> DEFINE g0 == [i \in 0 .. 0 |-> 0]
  <2>1. g0 = F(g0, 0)
    OBVIOUS
  <2> HIDE DEF g0
  <2>2. \E h : h = F(h, 0)
    BY <2>1
  <2>3. 0 \in 0 .. n
    OBVIOUS
  <2> QED
    BY <2>2, <2>3
<1>2. ASSUME NEW k \in 0 .. n - 1, k \in S PROVE k + 1 \in S
  <2>1. PICK g : g = F(g, k)
    BY <1>2
  <2> DEFINE h == [i \in 0 .. k + 1 |-> IF i <= k THEN g[i] ELSE g[k] + FrameLen[x[k + 1]]]
  <2>2. \A i \in 0 .. k + 1 : h[i] = IF i = 0 THEN 0 ELSE h[i - 1] + FrameLen[x[i]]
    <3>1. \A i \in 0 .. k : g[i] = IF i = 0 THEN 0 ELSE g[i - 1] + FrameLen[x[i]]
      BY <2>1
    <3>2. \A i \in 0 .. k : h[i] = g[i]
      OBVIOUS
    <3>3. h[k + 1] = h[k] + FrameLen[x[k + 1]]
      OBVIOUS
    <3> HIDE DEF h
    <3>4. ASSUME NEW i \in 0 .. k + 1
          PROVE  h[i] = IF i = 0 THEN 0 ELSE h[i - 1] + FrameLen[x[i]]
      <4>1. CASE i = k + 1
        BY <3>3, <4>1
      <4>2. CASE i \in 0 .. k
        <5>1. i # 0 => i - 1 \in 0 .. k
          BY <4>2
        <5> QED
          BY <3>1, <3>2, <4>2, <5>1
      <4> QED
        BY <4>1, <4>2
    <3> QED
      BY <3>4
  <2>3. h = [i \in 0 .. k + 1 |-> h[i]]
    OBVIOUS
  <2> HIDE DEF h
  <2>4. h = F(h, k + 1)
    BY <2>2, <2>3
  <2> QED
    BY <2>4
<1> HIDE DEF S
<1>3. 0 .. n \subseteq S
  BY <1>1, <1>2, UpTo
<1> QED
  BY <1>3 DEF S

(* BytesOf adds the messages' lengths one after the other. *)
LEMMA BytesAre ==
  ASSUME NEW x \in Seq(Message)
  PROVE  /\ BytesOf(x, 0) = 0
         /\ \A k \in 0 .. Len(x) : BytesOf(x, k) \in Nat
         /\ \A k \in 1 .. Len(x) : BytesOf(x, k) = BytesOf(x, k - 1) + FrameLen[x[k]]
<1> DEFINE n == Len(x)
           G(g) == [i \in 0 .. n |-> IF i = 0 THEN 0 ELSE g[i - 1] + FrameLen[x[i]]]
           f == CHOOSE g : g = G(g)
<1>1. n \in Nat /\ \A k \in 1 .. n : x[k] \in Message
  OBVIOUS
<1>2. f = G(f)
  BY <1>1, SumsExist
<1>3. \A k : BytesOf(x, k) = f[k]
  BY Zenon DEF BytesOf
<1> HIDE DEF f
<1>4. f[0] = 0 /\ \A k \in 1 .. n : f[k] = f[k - 1] + FrameLen[x[k]]
  <2>1. \A k \in 0 .. n : f[k] = IF k = 0 THEN 0 ELSE f[k - 1] + FrameLen[x[k]]
    BY <1>2
  <2> HIDE DEF n
  <2> QED
    BY <1>1, <2>1
<1> HIDE DEF n, G
<1> DEFINE S == {k \in 0 .. n : f[k] \in Nat}
<1>5. 0 .. n \subseteq S
  <2>1. 0 \in S
    BY <1>1, <1>4
  <2>2. ASSUME NEW k \in 0 .. n - 1, k \in S PROVE k + 1 \in S
    <3>1. k + 1 \in 1 .. n /\ (k + 1) - 1 = k
      BY <1>1
    <3>2. f[k + 1] = f[k] + FrameLen[x[k + 1]] /\ FrameLen[x[k + 1]] \in Nat
      BY <1>1, <1>4, <3>1, ReceiveAssumption
    <3> QED
      BY <2>2, <3>1, <3>2
  <2> HIDE DEF S
  <2> QED
    BY <1>1, <2>1, <2>2, UpTo
<1> QED
  BY <1>3, <1>4, <1>5 DEF n

(* A message more leaves the sums before it alone. *)
LEMMA BytesAppend ==
  ASSUME NEW x \in Seq(Message), NEW m \in Message
  PROVE  /\ \A k \in 0 .. Len(x) : BytesOf(Append(x, m), k) = BytesOf(x, k)
         /\ BytesOf(Append(x, m), Len(x) + 1) = BytesOf(x, Len(x)) + FrameLen[m]
<1> DEFINE y == Append(x, m)
<1>1. /\ y \in Seq(Message) /\ Len(x) \in Nat /\ Len(y) = Len(x) + 1
      /\ y[Len(x) + 1] = m
      /\ \A k \in 1 .. Len(x) : y[k] = x[k]
  OBVIOUS
<1> HIDE DEF y
<1> DEFINE S == {k \in 0 .. Len(x) : BytesOf(y, k) = BytesOf(x, k)}
<1>2. 0 .. Len(x) \subseteq S
  <2>1. 0 \in S
    BY <1>1, BytesAre
  <2>2. ASSUME NEW k \in 0 .. Len(x) - 1, k \in S PROVE k + 1 \in S
    <3>1. k + 1 \in 1 .. Len(x) /\ k + 1 \in 1 .. Len(y) /\ (k + 1) - 1 = k
      BY <1>1
    <3>2. BytesOf(x, k + 1) = BytesOf(x, k) + FrameLen[x[k + 1]]
      BY <3>1, BytesAre
    <3>3. BytesOf(y, k + 1) = BytesOf(y, k) + FrameLen[y[k + 1]]
      BY <1>1, <3>1, BytesAre
    <3> QED
      BY <1>1, <2>2, <3>1, <3>2, <3>3
  <2> HIDE DEF S
  <2> QED
    BY <1>1, <2>1, <2>2, UpTo
<1>3. BytesOf(y, Len(x) + 1) = BytesOf(y, Len(x)) + FrameLen[m]
  <2>1. Len(x) + 1 \in 1 .. Len(y) /\ (Len(x) + 1) - 1 = Len(x)
    BY <1>1
  <2>2. BytesOf(y, Len(x) + 1) = BytesOf(y, (Len(x) + 1) - 1) + FrameLen[y[Len(x) + 1]]
    BY <1>1, <2>1, BytesAre
  <2> QED
    BY <1>1, <2>1, <2>2
<1>4. BytesOf(y, Len(x)) = BytesOf(x, Len(x))
  BY <1>1, <1>2
<1> QED
  BY <1>2, <1>3, <1>4 DEF y

(* The function behind Scan. *)
LEMMA LooksExist ==
  ASSUME NEW buf, NEW n \in Nat
  PROVE  \E g : g = [i \in 0 .. n |->
                       IF i = 0 THEN Start(n) ELSE Look(buf, g[i - 1], i - 1)]
<1> DEFINE F(g, k) == [i \in 0 .. k |->
                         IF i = 0 THEN Start(n) ELSE Look(buf, g[i - 1], i - 1)]
           S == {k \in 0 .. n : \E g : g = F(g, k)}
<1>1. 0 \in S
  <2> DEFINE g0 == [i \in 0 .. 0 |-> Start(n)]
  <2>1. g0 = F(g0, 0)
    OBVIOUS
  <2> HIDE DEF g0
  <2>2. \E h : h = F(h, 0)
    BY <2>1
  <2>3. 0 \in 0 .. n
    OBVIOUS
  <2> QED
    BY <2>2, <2>3
<1>2. ASSUME NEW k \in 0 .. n - 1, k \in S PROVE k + 1 \in S
  <2>1. PICK g : g = F(g, k)
    BY <1>2
  <2> DEFINE h == [i \in 0 .. k + 1 |-> IF i <= k THEN g[i] ELSE Look(buf, g[k], k)]
  <2>2. \A i \in 0 .. k + 1 : h[i] = IF i = 0 THEN Start(n) ELSE Look(buf, h[i - 1], i - 1)
    <3>1. \A i \in 0 .. k : g[i] = IF i = 0 THEN Start(n) ELSE Look(buf, g[i - 1], i - 1)
      BY <2>1
    <3>2. \A i \in 0 .. k : h[i] = g[i]
      OBVIOUS
    <3>3. h[k + 1] = Look(buf, h[k], k)
      OBVIOUS
    <3> HIDE DEF h
    <3>4. ASSUME NEW i \in 0 .. k + 1
          PROVE  h[i] = IF i = 0 THEN Start(n) ELSE Look(buf, h[i - 1], i - 1)
      <4>1. CASE i = k + 1
        <5>1. i - 1 = k /\ i # 0
          BY <4>1
        <5> QED
          BY <3>3, <4>1, <5>1
      <4>2. CASE i \in 0 .. k
        <5>1. i # 0 => i - 1 \in 0 .. k
          BY <4>2
        <5> QED
          BY <3>1, <3>2, <4>2, <5>1
      <4> QED
        BY <4>1, <4>2
    <3> QED
      BY <3>4
  <2>3. h = [i \in 0 .. k + 1 |-> h[i]]
    OBVIOUS
  <2> HIDE DEF h
  <2>4. h = F(h, k + 1)
    BY <2>2, <2>3
  <2> QED
    BY <2>4
<1> HIDE DEF S
<1>3. 0 .. n \subseteq S
  BY <1>1, <1>2, UpTo
<1> QED
  BY <1>3 DEF S

(* The search goes over the bytes one after the other. *)
LEMMA ScanIs ==
  ASSUME NEW buf, Len(buf) \in Nat
  PROVE  \E s : /\ s[0] = Start(Len(buf))
                /\ \A i \in 0 .. Len(buf) - 1 : s[i + 1] = Look(buf, s[i], i)
                /\ Scan(buf) = s[Len(buf)]
<1> DEFINE n == Len(buf)
           G(g) == [i \in 0 .. n |->
                      IF i = 0 THEN Start(n) ELSE Look(buf, g[i - 1], i - 1)]
           f == CHOOSE g : g = G(g)
<1>1. f = G(f)
  BY LooksExist
<1>2. Scan(buf) = f[n]
  BY Zenon DEF Scan
<1> HIDE DEF f
<1>3. \A i \in 0 .. n : f[i] = IF i = 0 THEN Start(n) ELSE Look(buf, f[i - 1], i - 1)
  BY <1>1
<1>4. f[0] = Start(n)
  BY <1>3
<1>5. ASSUME NEW i \in 0 .. n - 1 PROVE f[i + 1] = Look(buf, f[i], i)
  <2>1. i + 1 \in 0 .. n /\ i + 1 # 0 /\ (i + 1) - 1 = i
    OBVIOUS
  <2> QED
    BY <1>3, <2>1
<1> QED
  BY <1>2, <1>4, <1>5

(* A frame has its length, and its bytes are cells of arr other than Zero. *)
LEMMA FrameIs ==
  ASSUME NEW m \in Message
  PROVE  /\ FrameLen[m] \in Nat /\ 3 <= FrameLen[m]
         /\ 2 * FrameLen[m] <= QUEMAXSIZE /\ QUEMAXSIZE \in Nat
         /\ \A k \in 1 .. FrameLen[m] : <<m, k>> \in Cell /\ <<m, k>> # Zero
         /\ \A n \in Nat : Len(Bytes(m, n)) = n
<1>1. FrameLen[m] \in Nat /\ 3 <= FrameLen[m] /\ 2 * FrameLen[m] <= QUEMAXSIZE
  BY ReceiveAssumption
<1>2. \A k \in 1 .. FrameLen[m] : <<m, k>> \in FrameCell
  BY DEF FrameCell
<1>3. \A n \in Nat : Len(Bytes(m, n)) = n
  BY DEF Bytes
<1> QED
  BY <1>1, <1>2, <1>3, QueueAssumption, ReceiveAssumption

(* No head or tail reads as a byte nobody has written. *)
LEMMA ZeroIs ==
  /\ Zero \notin TailBytes
  /\ \A m \in Message : Zero # <<m, 1>>
<1>1. \A m \in Message : 1 \in 1 .. FrameLen[m] /\ FrameLen[m] \in 1 .. FrameLen[m]
  BY FrameIs
<1> QED
  BY <1>1, FrameIs DEF TailBytes

Handled == Message \cup {Garbled}

(* What the search has in hand. *)
Searching(s) == /\ s.frames \in Seq(Handled)
                /\ s.next \in Nat
                /\ s.rest \in Nat
                /\ s.last \in Nat

(* A turn finds a frame at i or leaves everything as it is. *)
LEMMA LookIs ==
  ASSUME NEW buf, NEW s, NEW i
  PROVE  \/ Look(buf, s, i) = s
         \/ /\ ~(i < s.next) /\ ~(Overhead >= s.rest)
            /\ \E m \in FramesAt(buf, i, s.rest) : Look(buf, s, i) = Found(buf, s, i, m)
<1> DEFINE M == FramesAt(buf, i, s.rest)
           c == CHOOSE m \in M : TRUE
<1>1. M # {} => c \in M
  OBVIOUS
<1>2. Look(buf, s, i) = IF i < s.next \/ Overhead >= s.rest \/ M = {}
                          THEN s ELSE Found(buf, s, i, c)
  BY DEF Look
<1> HIDE DEF c, M
<1>3. i < s.next \/ Overhead >= s.rest \/ M = {} => Look(buf, s, i) = s
  BY <1>2
<1>4. ~(i < s.next \/ Overhead >= s.rest \/ M = {}) => Look(buf, s, i) = Found(buf, s, i, c)
  BY <1>2
<1> QED
  BY <1>1, <1>3, <1>4 DEF M

(* The fields after a frame. *)
LEMMA FoundIs ==
  ASSUME NEW buf, NEW s, NEW i, NEW m
  PROVE  /\ Found(buf, s, i, m).frames = Append(s.frames, FrameRead(buf, i, m))
         /\ Found(buf, s, i, m).next = i + FrameLen[m]
         /\ Found(buf, s, i, m).rest = s.rest - FrameLen[m]
         /\ Found(buf, s, i, m).last = i + FrameLen[m]
  BY DEF Found

(* A frame that is found has a head, is no longer than what is left, and has
   some tail. *)
LEMMA FramesAtAre ==
  ASSUME NEW buf, NEW i, NEW rest, NEW m \in FramesAt(buf, i, rest)
  PROVE  /\ m \in Message /\ FrameLen[m] <= rest
         /\ ByteAt(buf, i) = <<m, 1>>
         /\ ByteAt(buf, i + FrameLen[m] - 1) \in TailBytes
  BY DEF FramesAt

(* Types of the search. *)
LEMMA LookTyped ==
  ASSUME NEW buf, NEW s, Searching(s), NEW i \in Nat
  PROVE  Searching(Look(buf, s, i))
<1>1. CASE Look(buf, s, i) = s
  BY <1>1
<1>2. ASSUME NEW m, m \in FramesAt(buf, i, s.rest), Look(buf, s, i) = Found(buf, s, i, m)
      PROVE  Searching(Look(buf, s, i))
  <2>1. m \in Message /\ FrameLen[m] <= s.rest /\ FrameLen[m] \in Nat
    BY <1>2, FramesAtAre, FrameIs
  <2>2. FrameRead(buf, i, m) \in Handled
    BY <2>1 DEF FrameRead, Handled
  <2>3. Append(s.frames, FrameRead(buf, i, m)) \in Seq(Handled)
    BY <2>2 DEF Searching
  <2>4. s.rest - FrameLen[m] \in Nat /\ i + FrameLen[m] \in Nat
    BY <2>1 DEF Searching
  <2> DEFINE t == Found(buf, s, i, m)
  <2>5. /\ t.frames = Append(s.frames, FrameRead(buf, i, m))
        /\ t.next = i + FrameLen[m] /\ t.rest = s.rest - FrameLen[m]
        /\ t.last = i + FrameLen[m]
    BY FoundIs
  <2> HIDE DEF t
  <2>6. Searching(t)
    BY <2>3, <2>4, <2>5 DEF Searching
  <2> QED
    BY <1>2, <2>6 DEF t
<1>3. \/ Look(buf, s, i) = s
      \/ \E m \in FramesAt(buf, i, s.rest) : Look(buf, s, i) = Found(buf, s, i, m)
  BY LookIs
<1> QED
  BY <1>1, <1>2, <1>3

(* What the search starts with. *)
LEMMA StartTyped ==
  ASSUME NEW n \in Nat
  PROVE  Searching(Start(n)) /\ Start(n).frames = <<>> /\ Start(n).next = 0
         /\ Start(n).rest = n /\ Start(n).last = 0
  BY DEF Searching, Start

(* The result of the search is typed. *)
LEMMA ScanTyped ==
  ASSUME NEW buf, Len(buf) \in Nat
  PROVE  Searching(Scan(buf))
<1> DEFINE n == Len(buf)
<1>1. PICK s : /\ s[0] = Start(n)
               /\ \A i \in 0 .. n - 1 : s[i + 1] = Look(buf, s[i], i)
               /\ Scan(buf) = s[n]
  BY ScanIs
<1>2. n \in Nat
  OBVIOUS
<1> HIDE DEF n
<1> DEFINE S == {i \in 0 .. n : Searching(s[i])}
<1>3. 0 \in S
  BY <1>1, <1>2, StartTyped
<1>4. ASSUME NEW i \in 0 .. n - 1, i \in S PROVE i + 1 \in S
  <2>1. Searching(Look(buf, s[i], i))
    BY <1>4, LookTyped
  <2> QED
    BY <1>1, <1>2, <2>1
<1> HIDE DEF S
<1>5. 0 .. n \subseteq S
  BY <1>2, <1>3, <1>4, UpTo
<1> QED
  BY <1>1, <1>2, <1>5 DEF S

-----------------------------------------------------------------------------
(* The ring after a push of some bytes of a message. *)
LEMMA PushTyped ==
  ASSUME NEW ring \in Ring, NEW m \in Message, NEW n \in 1 .. FrameLen[m],
         Accepts(ring, n), ~PushFaults(ring, n)
  PROVE  Pushed(ring, Bytes(m, n)) \in Ring
<1> DEFINE data == Bytes(m, n)
<1>1. QUEMAXSIZE \in Nat /\ ring.head \in 0 .. QUEMAXSIZE /\ ring.tail \in 0 .. QUEMAXSIZE
  BY QueueAssumption DEF Ring
<1>2. n \in Nat /\ n <= QUEMAXSIZE /\ Len(data) = n
  BY FrameIs, <1>1
<1>3. PushRoom(ring) >= 0 /\ PushRoom(ring) <= QUEMAXSIZE - ring.head /\ PushRoom(ring) \in Int
  BY <1>1 DEF PushFaults, PushRoom, Forward
<1>4. HeadAfter(ring, n) \in 0 .. QUEMAXSIZE
  BY <1>1, <1>2, <1>3 DEF HeadAfter
<1>5. ASSUME NEW p \in 0 .. QUEMAXSIZE - 1
      PROVE  (IF Past(ring.head, p) < Len(data) THEN data[Past(ring.head, p) + 1]
                                                ELSE ring.arr[p]) \in Cell
  <2>1. Past(ring.head, p) \in Nat
    BY <1>1 DEF Past
  <2>2. CASE Past(ring.head, p) < n
    <3>1. Past(ring.head, p) + 1 \in 1 .. n
      BY <1>2, <2>1, <2>2
    <3>2. data[Past(ring.head, p) + 1] = <<m, Past(ring.head, p) + 1>>
      BY <3>1 DEF Bytes
    <3> QED
      BY <1>2, <2>2, <3>1, <3>2, FrameIs
  <2>3. CASE ~(Past(ring.head, p) < n)
    BY <1>2, <2>3 DEF Ring
  <2> QED
    BY <2>2, <2>3
<1> HIDE DEF data
<1>6. Pushed(ring, data) =
        [arr  |-> [p \in 0 .. QUEMAXSIZE - 1 |->
                     IF Past(ring.head, p) < Len(data) THEN data[Past(ring.head, p) + 1]
                                                       ELSE ring.arr[p]],
         head |-> HeadAfter(ring, n), tail |-> ring.tail]
  BY <1>2 DEF Pushed
<1> QED
  BY <1>1, <1>4, <1>5, <1>6 DEF Ring, data

(* Sizes of a ring. *)
LEMMA SizeIs ==
  ASSUME NEW ring \in Ring
  PROVE  /\ Size(ring) \in 0 .. QUEMAXSIZE /\ Size(ring) \in Nat
         /\ QUEMAXSIZE \in Nat
         /\ ring.head \in 0 .. QUEMAXSIZE /\ ring.tail \in 0 .. QUEMAXSIZE
         /\ PopRun(ring) \in Int /\ ring.tail + PopRun(ring) <= QUEMAXSIZE
         /\ PopLen(ring, Size(ring)) = Size(ring)
         /\ ~PopFaults(ring, Size(ring)) => PopRun(ring) >= 0
         /\ Len(Copied(ring, Size(ring))) = Size(ring)
<1>1. QUEMAXSIZE \in Nat /\ ring.head \in 0 .. QUEMAXSIZE /\ ring.tail \in 0 .. QUEMAXSIZE
  BY QueueAssumption DEF Ring
<1>2. Size(ring) \in 0 .. QUEMAXSIZE
  BY <1>1 DEF Size, Forward
<1>3. PopRun(ring) \in Int /\ ring.tail + PopRun(ring) <= QUEMAXSIZE
  BY <1>1 DEF PopRun, Forward
<1>4. PopLen(ring, Size(ring)) = Size(ring)
  BY <1>1, <1>2 DEF PopLen
<1>5. ~PopFaults(ring, Size(ring)) => PopRun(ring) >= 0
  BY <1>1, <1>2, <1>3, <1>4 DEF PopFaults
<1>6. Len(Copied(ring, Size(ring))) = Size(ring)
  BY <1>1, <1>2, <1>4 DEF Copied
<1> QED
  BY <1>1, <1>2, <1>3, <1>4, <1>5, <1>6

(* The ring after a removal. *)
LEMMA RemoveTyped ==
  ASSUME NEW ring \in Ring, ~PopFaults(ring, Size(ring)), NEW n \in Nat
  PROVE  Removed(ring, n) \in Ring
<1>1. PopLen(ring, n) \in 0 .. QUEMAXSIZE
  BY SizeIs DEF PopLen
<1>2. TailAfter(ring, n) \in 0 .. QUEMAXSIZE
  BY <1>1, SizeIs DEF TailAfter
<1> QED
  BY <1>2 DEF Removed, Ring

(* A push goes to a ring that accepts it. *)
LEMMA PushesIs ==
  ASSUME q \in Ring, NEW m \in Message, NEW n \in 1 .. FrameLen[m]
  PROVE  /\ Pushes(Bytes(m, n)) \in Ring
         /\ Accepts(Pushes(Bytes(m, n)), n)
         /\ Len(Bytes(m, n)) = n
<1>1. n \in Nat /\ n < QUEMAXSIZE /\ Len(Bytes(m, n)) = n /\ QUEMAXSIZE \in Nat
  BY FrameIs
<1>2. CASE Accepts(q, n)
  BY <1>1, <1>2 DEF Pushes
<1>3. CASE ~Accepts(q, n)
  <2>1. Pushes(Bytes(m, n)) = Reset(q)
    BY <1>1, <1>3 DEF Pushes
  <2>2. Reset(q) \in Ring
    BY <1>1 DEF Reset, Ring
  <2>3. Remain(Reset(q)) = QUEMAXSIZE
    BY <1>1 DEF Remain, Size, Forward, Reset
  <2> QED
    BY <1>1, <2>1, <2>2, <2>3 DEF Accepts
<1> QED
  BY <1>2, <1>3

(* A datagram of n bytes of a message keeps the types. *)
LEMMA HandleTyped ==
  ASSUME q \in Ring, crashed \in BOOLEAN, handled \in Seq(Handled),
         NEW m \in Message, NEW n \in 1 .. FrameLen[m], recvPackageHandle(Bytes(m, n))
  PROVE  q' \in Ring /\ crashed' \in BOOLEAN /\ handled' \in Seq(Handled)
<1> DEFINE data == Bytes(m, n)
           ring == Pushes(data)
           full == Pushed(ring, data)
           found == Scan(Copied(full, Size(full)))
<1>1. ring \in Ring /\ Accepts(ring, n) /\ Len(data) = n
  BY PushesIs
<1>2. CASE Crash
  BY <1>2 DEF Crash
<1>3. CASE ~PushFaults(ring, Len(data)) /\ Search(full) /\ ~Crash
  <2>1. full \in Ring
    BY <1>1, <1>3, PushTyped
  <2>2. /\ ~PopFaults(full, Size(full))
        /\ handled' = handled \o found.frames
        /\ q' = IF found.last = 0 THEN full ELSE Removed(full, found.last)
        /\ UNCHANGED crashed
    BY <1>3 DEF Search
  <2>3. Searching(found)
    BY <2>1, SizeIs, ScanTyped
  <2> HIDE DEF found, full
  <2>4. q' \in Ring
    BY <2>1, <2>2, <2>3, RemoveTyped DEF Searching
  <2>5. handled' \in Seq(Handled)
    BY <2>2, <2>3 DEF Searching
  <2> QED
    BY <2>2, <2>4, <2>5
<1> QED
  BY <1>2, <1>3 DEF recvPackageHandle

(* The types at the beginning. *)
LEMMA InitTyped == Init => TypeOK
<1> SUFFICES ASSUME Init PROVE TypeOK
  OBVIOUS
<1>1. q \in Ring
  BY QueueAssumption, ReceiveAssumption DEF Init, Ring
<1>2. handled \in Seq(Message \cup {Garbled}) /\ received \in Seq(Message)
  BY DEF Init
<1>3. cut \in 0 .. MaxDatagrams
  BY ReceiveAssumption DEF Init
<1>4. crashed \in BOOLEAN
  BY Zenon DEF Init
<1> QED
  BY <1>1, <1>2, <1>3, <1>4 DEF TypeOK

(* And after a step. *)
LEMMA NextTyped == TypeOK /\ [Next]_vars => TypeOK'
<1> SUFFICES ASSUME TypeOK, [Next]_vars PROVE TypeOK'
  OBVIOUS
<1>1. ASSUME Next, NEW m \in Message, ReceiveFrame(m) PROVE TypeOK'
  <2>1. FrameLen[m] \in 1 .. FrameLen[m]
    BY FrameIs
  <2>2. q' \in Ring /\ crashed' \in BOOLEAN /\ handled' \in Seq(Handled)
    BY <1>1, <2>1, HandleTyped DEF TypeOK, ReceiveFrame, Handled
  <2> QED
    BY <1>1, <2>2 DEF TypeOK, ReceiveFrame, Handled
<1>2. ASSUME Next, NEW m \in Message, ReceiveCut(m) PROVE TypeOK'
  <2>1. PICK n \in 1 .. FrameLen[m] - 1 : recvPackageHandle(Bytes(m, n))
                                          /\ cut' = cut + 1 /\ UNCHANGED received
    BY <1>2 DEF ReceiveCut
  <2>2. n \in 1 .. FrameLen[m]
    BY FrameIs
  <2>3. q' \in Ring /\ crashed' \in BOOLEAN /\ handled' \in Seq(Handled)
    BY <2>1, <2>2, HandleTyped DEF TypeOK, Handled
  <2>4. cut' \in 0 .. MaxDatagrams
    <3>1. Len(received) + cut < MaxDatagrams
      BY <1>2 DEF Next, Datagrams
    <3>2. Len(received) \in Nat /\ cut \in Nat /\ MaxDatagrams \in Nat
      BY ReceiveAssumption DEF TypeOK
    <3> QED
      BY <2>1, <3>1, <3>2
  <2> QED
    BY <2>1, <2>3, <2>4 DEF TypeOK, Handled
<1>3. CASE UNCHANGED vars
  BY <1>3 DEF vars, TypeOK
<1> QED
  BY <1>1, <1>2, <1>3 DEF Next

(* Type correctness for any ring, messages and number of datagrams. *)
THEOREM TypeCorrect == Spec => []TypeOK
  BY InitTyped, NextTyped, PTL DEF Spec

(* The frame in front is found; whatever else is found lies at b or behind. *)
LEMMA ScanYoung ==
  ASSUME NEW buf, Len(buf) \in Nat, NEW m \in Message, NEW b \in Nat,
         FrameLen[m] <= Len(buf), FrameLen[m] <= b,
         \A i \in 0 .. FrameLen[m] - 1 : ByteAt(buf, i) = <<m, i + 1>>,
         \A i \in FrameLen[m] .. Len(buf) - 1 : i < b => ByteAt(buf, i) = Zero
  PROVE  \/ Scan(buf).frames = <<m>> /\ Scan(buf).last = FrameLen[m]
         \/ /\ Scan(buf).last > b /\ Len(buf) > b
            /\ \E i \in FrameLen[m] .. Len(buf) - 1, rest \in Nat : FramesAt(buf, i, rest) # {}
<1> DEFINE n == FrameLen[m]
           N == Len(buf)
           New(s) == s.frames = <<m>> /\ s.next = n /\ s.last = n
           Old(s) == /\ s.last \in Nat /\ s.last > b /\ s.next = s.last /\ N > b
                     /\ \E i \in n .. N - 1, rest \in Nat : FramesAt(buf, i, rest) # {}
<1>1. n \in Nat /\ 3 <= n /\ N \in Nat /\ n <= N /\ n <= b
  BY FrameIs
<1>2. PICK s : /\ s[0] = Start(N)
               /\ \A i \in 0 .. N - 1 : s[i + 1] = Look(buf, s[i], i)
               /\ Scan(buf) = s[N]
  BY ScanIs
<1>3. New(Look(buf, Start(N), 0))
  <2> DEFINE M == FramesAt(buf, 0, N)
             c == CHOOSE x \in M : TRUE
             t == Found(buf, Start(N), 0, m)
  <2>1. m \in M
    <3>1. ByteAt(buf, 0) = <<m, 1>> /\ ByteAt(buf, 0 + n - 1) = <<m, n>>
      <4>1. 0 \in 0 .. n - 1 /\ 0 + n - 1 \in 0 .. n - 1 /\ (0 + n - 1) + 1 = n
        BY <1>1
      <4> QED
        BY <4>1
    <3>2. <<m, n>> \in TailBytes
      BY DEF TailBytes
    <3> QED
      BY <1>1, <3>1, <3>2 DEF FramesAt
  <2>2. \A x \in M : x = m
    <3>1. \A x \in M : <<x, 1>> = <<m, 1>>
      BY <2>1, FramesAtAre
    <3> QED
      BY <3>1
  <2>3. c = m
    BY <2>1, <2>2
  <2>4. ~(0 < Start(N).next) /\ ~(Overhead >= Start(N).rest) /\ Start(N).rest = N
    BY <1>1, StartTyped DEF Overhead
  <2>5. Look(buf, Start(N), 0) = Found(buf, Start(N), 0, c)
    BY <2>1, <2>4 DEF Look
  <2>6. FrameRead(buf, 0, m) = m
    <3>1. \A k \in 1 .. n : 0 + k - 1 \in 0 .. n - 1 /\ (0 + k - 1) + 1 = k
      BY <1>1
    <3>2. \A k \in 1 .. n : ByteAt(buf, 0 + k - 1) = <<m, k>>
      BY <3>1
    <3> QED
      BY <3>2 DEF FrameRead
  <2>7. /\ t.frames = Append(Start(N).frames, FrameRead(buf, 0, m))
        /\ t.next = 0 + n /\ t.last = 0 + n
    BY FoundIs
  <2> HIDE DEF t, M, c
  <2>8. New(t)
    <3>1. Append(<<>>, m) = <<m>> /\ Start(N).frames = <<>> /\ 0 + n = n
      BY <1>1, StartTyped
    <3> QED
      BY <2>6, <2>7, <3>1
  <2> QED
    BY <2>3, <2>5, <2>8 DEF t
<1> HIDE DEF N
<1>4. ASSUME NEW r, NEW i \in 1 .. N - 1, New(r) \/ Old(r)
      PROVE  New(Look(buf, r, i)) \/ Old(Look(buf, r, i))
  <2>1. CASE Look(buf, r, i) = r
    BY <1>4, <2>1
  <2>2. ASSUME NEW x, x \in FramesAt(buf, i, r.rest), ~(i < r.next),
               Look(buf, r, i) = Found(buf, r, i, x)
        PROVE  Old(Look(buf, r, i))
    <3>1. x \in Message /\ ByteAt(buf, i) = <<x, 1>> /\ FrameLen[x] \in Nat /\ 3 <= FrameLen[x]
      BY <2>2, FramesAtAre, FrameIs
    <3>2. i >= n
      <4>1. r.next \in Nat /\ r.next >= n
        BY <1>1, <1>4
      <4> QED
        BY <1>1, <2>2, <4>1
    <3>3. i \in n .. N - 1
      BY <3>2, <1>1
    <3>4. ByteAt(buf, i) # Zero
      BY <3>1, ZeroIs
    <3>5. i >= b
      BY <3>3, <3>4 DEF N
    <3> DEFINE t == Found(buf, r, i, x)
    <3>6. t.next = i + FrameLen[x] /\ t.last = i + FrameLen[x]
      BY FoundIs
    <3> HIDE DEF t
    <3>7. t.last \in Nat /\ t.last > b /\ t.next = t.last /\ N > b
      BY <1>1, <3>1, <3>3, <3>5, <3>6
    <3>8. \E j \in n .. N - 1, rest \in Nat : FramesAt(buf, j, rest) # {}
      <4>1. FrameLen[x] \in Nat /\ x \in FramesAt(buf, i, FrameLen[x])
        BY <2>2, <3>1 DEF FramesAt
      <4> QED
        BY <3>3, <4>1
    <3>9. Old(t)
      BY <3>7, <3>8
    <3> QED
      BY <2>2, <3>9 DEF t
  <2>3. \/ Look(buf, r, i) = r
        \/ /\ ~(i < r.next)
           /\ \E x \in FramesAt(buf, i, r.rest) : Look(buf, r, i) = Found(buf, r, i, x)
    BY LookIs
  <2> QED
    BY <2>1, <2>2, <2>3
<1> DEFINE S == {i \in 0 .. N : i # 0 => New(s[i]) \/ Old(s[i])}
<1>5. 0 \in S
  BY <1>1
<1>6. ASSUME NEW i \in 0 .. N - 1, i \in S PROVE i + 1 \in S
  <2>1. i + 1 \in 0 .. N /\ s[i + 1] = Look(buf, s[i], i)
    BY <1>1, <1>2
  <2>2. CASE i = 0
    BY <1>2, <1>3, <2>1, <2>2
  <2>3. CASE i # 0
    <3>1. i \in 1 .. N - 1 /\ (New(s[i]) \/ Old(s[i]))
      BY <1>1, <1>6, <2>3
    <3> HIDE DEF New, Old
    <3>2. New(Look(buf, s[i], i)) \/ Old(Look(buf, s[i], i))
      BY <1>4, <3>1
    <3> QED
      BY <2>1, <3>2
  <2> QED
    BY <2>2, <2>3
<1> HIDE DEF S
<1>7. 0 .. N \subseteq S
  BY <1>1, <1>5, <1>6, UpTo
<1>8. New(s[N]) \/ Old(s[N])
  BY <1>1, <1>7 DEF S
<1> QED
  BY <1>2, <1>8 DEF N

(* In the beginning of a frame that lies behind b no frame is found: its head
   is there and its tail is not. *)
LEMMA NoOldFrame ==
  ASSUME NEW buf, Len(buf) \in Nat, NEW b \in Nat, NEW f \in Message,
         Len(buf) < b + FrameLen[f],
         NEW i \in 0 .. Len(buf) - 1, NEW rest,
         i < b => ByteAt(buf, i) = Zero,
         i >= b => ByteAt(buf, i) = <<f, i - b + 1>>
  PROVE  FramesAt(buf, i, rest) = {}
<1> SUFFICES ASSUME NEW m, m \in FramesAt(buf, i, rest) PROVE FALSE
  OBVIOUS
<1>1. m \in Message /\ ByteAt(buf, i) = <<m, 1>> /\ ByteAt(buf, i + FrameLen[m] - 1) \in TailBytes
  BY FramesAtAre
<1>2. i >= b
  BY <1>1, ZeroIs
<1>3. <<f, i - b + 1>> = <<m, 1>>
  BY <1>1, <1>2
<1>4. m = f /\ i = b
  BY <1>2, <1>3
<1>5. FrameLen[f] \in Nat /\ 3 <= FrameLen[f]
  BY FrameIs
<1>6. ~(i + FrameLen[m] - 1 < Len(buf))
  BY <1>4, <1>5
<1>7. ByteAt(buf, i + FrameLen[m] - 1) = Zero
  BY <1>6 DEF ByteAt
<1> QED
  BY <1>1, <1>7, ZeroIs

-----------------------------------------------------------------------------
(* A frame of n bytes pushed into an empty ring: as long as it does not reach
   the end of arr, the ring is as full as arr without the frame. *)
LEMMA EmptyPushed ==
  ASSUME NEW ring \in Ring, ring.head = ring.tail, ring.tail < QUEMAXSIZE,
         NEW m \in Message, NEW full, full = Pushed(ring, Bytes(m, FrameLen[m]))
  PROVE  /\ Accepts(ring, FrameLen[m]) /\ ~PushFaults(ring, FrameLen[m])
         /\ ring.tail + FrameLen[m] >= QUEMAXSIZE => PopFaults(full, Size(full))
         /\ ring.tail + FrameLen[m] < QUEMAXSIZE =>
              /\ full.head = ring.tail + FrameLen[m]
              /\ full.tail = ring.tail
              /\ Size(full) = QUEMAXSIZE - FrameLen[m]
              /\ PopRun(full) = QUEMAXSIZE - ring.tail
              /\ ~PopFaults(full, Size(full))
<1> DEFINE n == FrameLen[m]
<1>1. n \in Nat /\ 3 <= n /\ 2 * n <= QUEMAXSIZE /\ QUEMAXSIZE \in Nat /\ ring.tail \in Nat
      /\ Len(Bytes(m, n)) = n
  BY FrameIs DEF Ring
<1> HIDE DEF n
<1>2. Size(ring) = 0 /\ PushRoom(ring) = QUEMAXSIZE - ring.tail
  BY <1>1 DEF Size, PushRoom, Forward
<1>3. Accepts(ring, n) /\ ~PushFaults(ring, n)
  BY <1>1, <1>2 DEF Accepts, PushFaults, Remain
<1>4. full.head = HeadAfter(ring, n) /\ full.tail = ring.tail
  BY <1>1 DEF Pushed, n
<1>5. CASE ring.tail + n >= QUEMAXSIZE
  <2>1. full.head = ring.tail + n - QUEMAXSIZE
    BY <1>1, <1>2, <1>4, <1>5 DEF HeadAfter
  <2>2. Size(full) = QUEMAXSIZE - n /\ PopRun(full) = n - QUEMAXSIZE
    BY <1>1, <1>4, <2>1 DEF Size, PopRun, Forward
  <2>3. PopFaults(full, Size(full))
    BY <1>1, <2>2 DEF PopFaults, PopLen
  <2> QED
    BY <1>1, <1>3, <1>5, <2>3 DEF n
<1>6. CASE ring.tail + n < QUEMAXSIZE
  <2>1. full.head = ring.tail + n
    BY <1>1, <1>2, <1>4, <1>6 DEF HeadAfter
  <2>2. Size(full) = QUEMAXSIZE - n /\ PopRun(full) = QUEMAXSIZE - ring.tail
    BY <1>1, <1>4, <2>1 DEF Size, PopRun, Forward
  <2>3. ~PopFaults(full, Size(full))
    BY <1>1, <1>6, <2>2 DEF PopFaults, PopLen
  <2> QED
    BY <1>1, <1>3, <1>4, <1>6, <2>1, <2>2, <2>3 DEF n
<1> QED
  BY <1>1, <1>5, <1>6

(* What is in arr after such a push. *)
LEMMA PushedBytes ==
  ASSUME NEW ring \in Ring, ring.head = ring.tail,
         NEW m \in Message, ring.tail + FrameLen[m] < QUEMAXSIZE,
         NEW full, full = Pushed(ring, Bytes(m, FrameLen[m]))
  PROVE  /\ \A i \in 0 .. FrameLen[m] - 1 : full.arr[ring.tail + i] = <<m, i + 1>>
         /\ \A p \in 0 .. QUEMAXSIZE - 1 :
              p < ring.tail \/ p >= ring.tail + FrameLen[m] => full.arr[p] = ring.arr[p]
<1> DEFINE n == FrameLen[m]
           data == Bytes(m, n)
<1>1. n \in Nat /\ 3 <= n /\ 2 * n <= QUEMAXSIZE /\ QUEMAXSIZE \in Nat /\ ring.tail \in Nat
      /\ Len(data) = n
  BY FrameIs DEF Ring
<1>2. \A p \in 0 .. QUEMAXSIZE - 1 :
        full.arr[p] = IF Past(ring.tail, p) < n THEN data[Past(ring.tail, p) + 1] ELSE ring.arr[p]
  BY <1>1 DEF Pushed
<1>3. ASSUME NEW i \in 0 .. n - 1 PROVE full.arr[ring.tail + i] = <<m, i + 1>>
  <2>1. ring.tail + i \in 0 .. QUEMAXSIZE - 1 /\ Past(ring.tail, ring.tail + i) = i
    BY <1>1 DEF Past
  <2>2. i < n /\ i + 1 \in 1 .. n
    BY <1>1
  <2>3. data[i + 1] = <<m, i + 1>>
    BY <2>2 DEF Bytes
  <2> HIDE DEF data, n
  <2> QED
    BY <1>2, <2>1, <2>2, <2>3
<1>4. ASSUME NEW p \in 0 .. QUEMAXSIZE - 1, p < ring.tail \/ p >= ring.tail + n
      PROVE  full.arr[p] = ring.arr[p]
  <2>1. ~(Past(ring.tail, p) < n)
    BY <1>1, <1>4 DEF Past
  <2> HIDE DEF data, n
  <2> QED
    BY <1>2, <2>1
<1> QED
  BY <1>3, <1>4

(* What recvPackageHandle copies out then: the frame, what lies behind it in
   arr and, from b on, the beginning of arr. *)
LEMMA CopiedBytes ==
  ASSUME NEW ring \in Ring, ring.head = ring.tail,
         NEW m \in Message, ring.tail + FrameLen[m] < QUEMAXSIZE,
         NEW full, full = Pushed(ring, Bytes(m, FrameLen[m])),
         NEW buf, buf = Copied(full, Size(full)),
         NEW b, b = QUEMAXSIZE - ring.tail
  PROVE  /\ b \in Nat /\ Len(buf) = QUEMAXSIZE - FrameLen[m]
         /\ \A i \in 0 .. FrameLen[m] - 1 : ByteAt(buf, i) = <<m, i + 1>>
         /\ \A i \in FrameLen[m] .. Len(buf) - 1 :
              /\ i < b  => ByteAt(buf, i) = ring.arr[ring.tail + i]
              /\ i >= b => ByteAt(buf, i) = ring.arr[i - b]
<1> DEFINE n == FrameLen[m]
<1>1. n \in Nat /\ 3 <= n /\ 2 * n <= QUEMAXSIZE /\ QUEMAXSIZE \in Nat /\ ring.tail \in Nat
      /\ ring.tail < QUEMAXSIZE
  BY FrameIs DEF Ring
<1>2. full.tail = ring.tail /\ Size(full) = QUEMAXSIZE - n
  BY <1>1, EmptyPushed
<1>3. PopLen(full, Size(full)) = QUEMAXSIZE - n
  BY <1>1, <1>2 DEF PopLen
<1>4. buf = [k \in 1 .. QUEMAXSIZE - n |-> full.arr[At(ring.tail, k - 1)]]
  BY <1>2, <1>3 DEF Copied
<1>5. Len(buf) = QUEMAXSIZE - n
  BY <1>1, <1>4
<1>6. ASSUME NEW i \in 0 .. QUEMAXSIZE - n - 1
      PROVE  ByteAt(buf, i) = full.arr[At(ring.tail, i)]
  <2>1. i < Len(buf) /\ i + 1 \in 1 .. QUEMAXSIZE - n /\ (i + 1) - 1 = i
    BY <1>1, <1>5
  <2> QED
    BY <1>4, <2>1 DEF ByteAt
<1>7. ASSUME NEW i \in 0 .. n - 1 PROVE ByteAt(buf, i) = <<m, i + 1>>
  <2>1. i \in 0 .. QUEMAXSIZE - n - 1 /\ At(ring.tail, i) = ring.tail + i
    BY <1>1 DEF At
  <2> QED
    BY <1>6, <2>1, PushedBytes
<1>8. ASSUME NEW i \in n .. QUEMAXSIZE - n - 1
      PROVE  /\ i < b  => ByteAt(buf, i) = ring.arr[ring.tail + i]
             /\ i >= b => ByteAt(buf, i) = ring.arr[i - b]
  <2>1. i \in 0 .. QUEMAXSIZE - n - 1
    BY <1>1
  <2>2. CASE i < b
    <3>1. At(ring.tail, i) = ring.tail + i /\ ring.tail + i \in 0 .. QUEMAXSIZE - 1
          /\ ring.tail + i >= ring.tail + n
      BY <1>1, <2>1, <2>2 DEF At
    <3> QED
      BY <1>1, <1>6, <2>1, <2>2, <3>1, PushedBytes
  <2>3. CASE i >= b
    <3>1. At(ring.tail, i) = i - b /\ i - b \in 0 .. QUEMAXSIZE - 1 /\ i - b < ring.tail
      BY <1>1, <2>1, <2>3 DEF At
    <3> QED
      BY <1>1, <1>6, <2>1, <2>3, <3>1, PushedBytes
  <2> QED
    BY <1>1, <2>2, <2>3
<1> QED
  BY <1>1, <1>5, <1>7, <1>8

(***************************************************************************)
(* What a young stream leaves behind: nothing in the ring, both pointers   *)
(* behind the bytes that arrived, no byte in arr from there on, and at its *)
(* beginning the first frame.                                              *)
(***************************************************************************)
Settled ==
  /\ ~crashed
  /\ handled = received
  /\ q.head = q.tail
  /\ q.tail = BytesUpTo(Len(received))
  /\ \A p \in 0 .. QUEMAXSIZE - 1 : p >= q.tail => q.arr[p] = Zero
  /\ received # <<>> =>
       /\ FrameLen[received[1]] <= q.tail
       /\ \A p \in 0 .. FrameLen[received[1]] - 1 : q.arr[p] = <<received[1], p + 1>>

IInv == TypeOK /\ (Young => Settled)

(***************************************************************************)
(* A frame of n bytes that comes into such a ring crashes the process if   *)
(* it reaches the end of arr.  Otherwise it is the first that is handled,  *)
(* and either nothing else is and the pointers are behind it, or tail has  *)
(* gone over the end of arr and the push behind the old bytes that were    *)
(* copied.                                                                 *)
(***************************************************************************)
LEMMA YoungReceives ==
  ASSUME TypeOK, Settled, q.tail < QUEMAXSIZE,
         NEW m \in Message, recvPackageHandle(Bytes(m, FrameLen[m])),
         NEW full, full = Pushed(q, Bytes(m, FrameLen[m])),
         NEW b, b = QUEMAXSIZE - q.tail,
         NEW buf, buf = Copied(full, Size(full))
  PROVE  \/ q.tail + FrameLen[m] >= QUEMAXSIZE /\ Crash
         \/ /\ q.tail + FrameLen[m] < QUEMAXSIZE
            /\ UNCHANGED crashed
            /\ q'.arr = full.arr
            /\ q'.head = q.tail + FrameLen[m]
            /\ \/ handled' = Append(handled, m) /\ q'.tail = q.tail + FrameLen[m]
               \/ /\ q'.tail \in Nat /\ 0 < q'.tail /\ q'.tail <= q.tail - FrameLen[m]
                  /\ \E i \in FrameLen[m] .. Len(buf) - 1, rest \in Nat :
                       FramesAt(buf, i, rest) # {}
<1> DEFINE n == FrameLen[m]
           data == Bytes(m, n)
           found == Scan(buf)
<1>1. /\ n \in Nat /\ 3 <= n /\ 2 * n <= QUEMAXSIZE /\ QUEMAXSIZE \in Nat /\ Len(data) = n
      /\ q \in Ring /\ q.tail \in Nat /\ n \in 1 .. n
  BY FrameIs DEF TypeOK, Ring
<1>2. q.head = q.tail /\ handled \in Seq(Handled)
  BY DEF Settled, TypeOK, Handled
<1>3. Accepts(q, n) /\ ~PushFaults(q, n)
  BY <1>1, <1>2, EmptyPushed
<1>4. Pushes(data) = q
  BY <1>1, <1>3 DEF Pushes
<1>5. Search(full)
  BY <1>1, <1>3, <1>4 DEF recvPackageHandle
<1>6. CASE q.tail + n >= QUEMAXSIZE
  <2>1. PopFaults(full, Size(full))
    BY <1>1, <1>2, <1>6, EmptyPushed
  <2> QED
    BY <1>5, <1>6, <2>1 DEF Search
<1>7. CASE q.tail + n < QUEMAXSIZE
  <2>1. /\ full.head = q.tail + n /\ full.tail = q.tail
        /\ Size(full) = QUEMAXSIZE - n /\ PopRun(full) = b
        /\ ~PopFaults(full, Size(full))
    BY <1>1, <1>2, <1>7, EmptyPushed
  <2>2. /\ handled' = handled \o found.frames
        /\ q' = IF found.last = 0 THEN full ELSE Removed(full, found.last)
        /\ UNCHANGED crashed
    BY <1>5, <2>1 DEF Search
  <2>3. full \in Ring
    BY <1>1, <1>3, PushTyped
  <2>4. /\ b \in Nat /\ Len(buf) = QUEMAXSIZE - n
        /\ \A i \in 0 .. n - 1 : ByteAt(buf, i) = <<m, i + 1>>
        /\ \A i \in n .. Len(buf) - 1 :
             /\ i < b  => ByteAt(buf, i) = q.arr[q.tail + i]
             /\ i >= b => ByteAt(buf, i) = q.arr[i - b]
    <3>1. q \in Ring /\ q.head = q.tail /\ q.tail + FrameLen[m] < QUEMAXSIZE
      BY <1>1, <1>2, <1>7
    <3> HIDE DEF n
    <3>2. /\ b \in Nat /\ Len(buf) = QUEMAXSIZE - FrameLen[m]
          /\ \A i \in 0 .. FrameLen[m] - 1 : ByteAt(buf, i) = <<m, i + 1>>
          /\ \A i \in FrameLen[m] .. Len(buf) - 1 :
               /\ i < b  => ByteAt(buf, i) = q.arr[q.tail + i]
               /\ i >= b => ByteAt(buf, i) = q.arr[i - b]
      BY <3>1, CopiedBytes
    <3> QED
      BY <3>2 DEF n
  <2>5. ASSUME NEW i \in n .. Len(buf) - 1, i < b PROVE ByteAt(buf, i) = Zero
    <3>1. i \in Nat /\ b = QUEMAXSIZE - q.tail
      BY <1>1, <2>4
    <3>2. q.tail + i \in 0 .. QUEMAXSIZE - 1 /\ q.tail + i >= q.tail
      BY <1>1, <2>5, <3>1
    <3>3. q.arr[q.tail + i] = Zero
      BY <3>2 DEF Settled
    <3> QED
      BY <2>4, <2>5, <3>3
  <2>6. Len(buf) \in Nat /\ n <= Len(buf) /\ n <= b
    BY <1>1, <1>7, <2>4
  <2>7. \/ found.frames = <<m>> /\ found.last = n
        \/ /\ found.last > b /\ Len(buf) > b
           /\ \E i \in n .. Len(buf) - 1, rest \in Nat : FramesAt(buf, i, rest) # {}
    <3>1. \A i \in n .. Len(buf) - 1 : i < b => ByteAt(buf, i) = Zero
      BY <2>5
    <3>2. \A i \in 0 .. FrameLen[m] - 1 : ByteAt(buf, i) = <<m, i + 1>>
      BY <2>4
    <3>3. b \in Nat
      BY <2>4
    <3> QED
      BY <2>6, <3>1, <3>2, <3>3, ScanYoung
  <2>8. found.last \in Nat
    BY <2>6, ScanTyped DEF Searching
  <2> HIDE DEF found
  <2>9. found.last # 0
    BY <1>1, <2>4, <2>7, <2>8
  <2>10. /\ q'.arr = full.arr /\ q'.head = q.tail + n
         /\ q'.tail = TailAfter(full, found.last)
    <3>1. q' = Removed(full, found.last)
      BY <2>2, <2>9
    <3> QED
      BY <2>1, <2>3, <3>1 DEF Removed, Ring
  <2>11. CASE found.frames = <<m>> /\ found.last = n
    <3>1. PopLen(full, n) = n
      BY <1>1, <2>1 DEF PopLen
    <3>2. q'.tail = q.tail + n
      BY <1>1, <2>1, <2>6, <2>10, <2>11, <3>1 DEF TailAfter
    <3>3. handled' = Append(handled, m)
      BY <1>2, <2>2, <2>11
    <3> QED
      BY <1>7, <2>2, <2>10, <3>2, <3>3
  <2>12. CASE found.last > b /\ Len(buf) > b
    <3> DEFINE l == PopLen(full, found.last)
    <3>1. l \in Nat /\ l > b /\ l <= QUEMAXSIZE - n
      BY <1>1, <2>1, <2>4, <2>8, <2>12 DEF PopLen
    <3>2. TailAfter(full, found.last) = l - b
      BY <2>1, <2>4, <3>1 DEF TailAfter
    <3> HIDE DEF l
    <3>3. q'.tail \in Nat /\ 0 < q'.tail /\ q'.tail <= q.tail - n
      BY <1>1, <2>4, <2>10, <3>1, <3>2
    <3>4. \E i \in n .. Len(buf) - 1, rest \in Nat : FramesAt(buf, i, rest) # {}
      <4>1. found.last # n
        BY <1>1, <2>6, <2>8, <2>12
      <4> QED
        BY <2>7, <4>1
    <3> QED
      BY <1>7, <2>2, <2>10, <3>3, <3>4
  <2> QED
    BY <2>7, <2>11, <2>12
<1> QED
  BY <1>1, <1>6, <1>7

(* What is young now was young before the last message. *)
LEMMA YoungBefore ==
  ASSUME TypeOK, NEW m \in Message, received' = Append(received, m), UNCHANGED cut, Young'
  PROVE  /\ Young
         /\ BytesUpTo(Len(received)) + FrameLen[m] < QUEMAXSIZE
         /\ BytesUpTo(Len(received))' = BytesUpTo(Len(received)) + FrameLen[m]
         /\ received # <<>> =>
              BytesUpTo(Len(received)) < FrameLen[received[1]] + FrameLen[m]
<1> DEFINE x == received
           y == Append(x, m)
           N == Len(x)
<1>1. /\ x \in Seq(Message) /\ N \in Nat /\ Len(y) = N + 1 /\ y[N + 1] = m
      /\ \A k \in 1 .. N : y[k] = x[k]
      /\ DOMAIN x = 1 .. N /\ DOMAIN y = 1 .. N + 1
  BY DEF TypeOK
<1>2. /\ \A k \in 0 .. N : BytesOf(y, k) = BytesOf(x, k)
      /\ BytesOf(y, N + 1) = BytesOf(x, N) + FrameLen[m]
  BY <1>1, BytesAppend
<1>3. /\ cut = 0 /\ BytesOf(y, Len(y)) < QUEMAXSIZE
      /\ \A k \in DOMAIN y : BytesOf(y, k - 1) < FrameLen[y[1]] + FrameLen[y[k]]
  BY DEF Young, BytesUpTo
<1>4. BytesUpTo(Len(received))' = BytesOf(y, N + 1)
  BY <1>1 DEF BytesUpTo
<1> HIDE DEF x, y, N
<1>5. BytesOf(x, N) \in Nat /\ FrameLen[m] \in Nat
  BY <1>1, BytesAre, FrameIs DEF N
<1>6. BytesOf(x, N) + FrameLen[m] < QUEMAXSIZE /\ BytesOf(x, N) < QUEMAXSIZE
  BY <1>1, <1>2, <1>3, <1>5, QueueAssumption
<1>7. ASSUME NEW k \in DOMAIN x PROVE BytesOf(x, k - 1) < FrameLen[x[1]] + FrameLen[x[k]]
  <2>1. k \in DOMAIN y /\ k - 1 \in 0 .. N /\ k \in 1 .. N /\ 1 \in 1 .. N
    BY <1>1
  <2> QED
    BY <1>1, <1>2, <1>3, <2>1
<1>8. ASSUME x # <<>> PROVE BytesOf(x, N) < FrameLen[x[1]] + FrameLen[m]
  <2>1. N # 0
    BY <1>1, <1>8 DEF N
  <2>2. 1 \in 1 .. N /\ N + 1 \in DOMAIN y /\ (N + 1) - 1 = N /\ N \in 0 .. N
    BY <1>1, <2>1
  <2> QED
    BY <1>1, <1>2, <1>3, <2>2
<1> QED
  BY <1>2, <1>3, <1>4, <1>6, <1>7, <1>8 DEF Young, BytesUpTo, x, N

(* With a stream that stays young only the new frame is handled, and the ring
   is left as it was, a frame further on. *)
LEMMA ReceiveSettles ==
  ASSUME IInv, NEW m \in Message, ReceiveFrame(m), Young'
  PROVE  Settled'
<1> DEFINE n == FrameLen[m]
           B == q.tail
           b == QUEMAXSIZE - B
           full == Pushed(q, Bytes(m, FrameLen[m]))
           buf == Copied(full, Size(full))
<1>1. received' = Append(received, m) /\ cut' = cut /\ recvPackageHandle(Bytes(m, FrameLen[m]))
  BY DEF ReceiveFrame
<1>2. TypeOK /\ Young
  BY <1>1, YoungBefore DEF IInv
<1>3. Settled
  BY <1>2 DEF IInv
<1>4. /\ B = BytesUpTo(Len(received)) /\ B + n < QUEMAXSIZE
      /\ BytesUpTo(Len(received))' = B + n
      /\ received # <<>> => B < FrameLen[received[1]] + n
  BY <1>1, <1>2, <1>3, YoungBefore DEF Settled
<1>5. /\ n \in Nat /\ 3 <= n /\ QUEMAXSIZE \in Nat /\ B \in Nat
      /\ q \in Ring /\ q.head = q.tail /\ B < QUEMAXSIZE
  BY <1>2, <1>3, <1>4, FrameIs DEF TypeOK, Ring, Settled
<1> HIDE DEF full, buf, b
<1>6. \/ B + FrameLen[m] >= QUEMAXSIZE /\ Crash
      \/ /\ B + FrameLen[m] < QUEMAXSIZE
         /\ UNCHANGED crashed
         /\ q'.arr = full.arr
         /\ q'.head = B + FrameLen[m]
         /\ \/ handled' = Append(handled, m) /\ q'.tail = B + FrameLen[m]
            \/ /\ q'.tail \in Nat /\ 0 < q'.tail /\ q'.tail <= B - FrameLen[m]
               /\ \E i \in FrameLen[m] .. Len(buf) - 1, rest \in Nat : FramesAt(buf, i, rest) # {}
  BY <1>1, <1>2, <1>3, <1>5, YoungReceives DEF full, buf, b
<1>7. /\ b \in Nat /\ Len(buf) = QUEMAXSIZE - FrameLen[m]
      /\ \A i \in 0 .. FrameLen[m] - 1 : ByteAt(buf, i) = <<m, i + 1>>
      /\ \A i \in FrameLen[m] .. Len(buf) - 1 :
           /\ i < b  => ByteAt(buf, i) = q.arr[q.tail + i]
           /\ i >= b => ByteAt(buf, i) = q.arr[i - b]
  <2>1. /\ b = QUEMAXSIZE - q.tail
        /\ full = Pushed(q, Bytes(m, FrameLen[m])) /\ buf = Copied(full, Size(full))
    BY DEF full, buf, b
  <2>2. q \in Ring /\ q.head = q.tail /\ q.tail + FrameLen[m] < QUEMAXSIZE
    BY <1>4, <1>5
  <2> QED
    BY <2>1, <2>2, CopiedBytes
<1>8. ASSUME NEW i \in n .. Len(buf) - 1, NEW rest PROVE FramesAt(buf, i, rest) = {}
  <2>1. i < b => ByteAt(buf, i) = Zero
    <3>1. i < b => B + i \in 0 .. QUEMAXSIZE - 1 /\ B + i >= B
      <4>1. i \in Nat /\ b = QUEMAXSIZE - B
        BY <1>5, <1>7 DEF b
      <4> HIDE DEF B, n
      <4> QED
        BY <1>5, <4>1
    <3> QED
      BY <1>3, <1>7, <3>1 DEF Settled
  <2>2. i \in 0 .. Len(buf) - 1 /\ Len(buf) \in Nat
    BY <1>4, <1>5, <1>7
  <2>3. CASE received = <<>>
    <3>1. B = 0
      BY <1>4, <2>3, BytesAre DEF BytesUpTo, TypeOK, IInv
    <3>2. b = QUEMAXSIZE
      BY <1>5, <3>1 DEF b
    <3>3. Len(buf) < b + FrameLen[m] /\ i < b /\ b \in Nat
      BY <1>5, <1>7, <2>2, <3>2
    <3>4. i >= b => ByteAt(buf, i) = <<m, i - b + 1>>
      BY <2>2, <3>3
    <3> HIDE DEF n, B
    <3> QED
      BY <2>1, <2>2, <3>3, <3>4, NoOldFrame
  <2>4. CASE received # <<>>
    <3> DEFINE f == received[1]
    <3>1. f \in Message
      BY <1>2, <2>4 DEF TypeOK
    <3>2. FrameLen[f] \in Nat /\ Len(buf) < b + FrameLen[f]
      <4>1. B < FrameLen[f] + n
        BY <1>4, <2>4
      <4>2. FrameLen[f] \in Nat
        BY <3>1, FrameIs
      <4>3. Len(buf) = QUEMAXSIZE - n /\ b = QUEMAXSIZE - B
        BY <1>7 DEF b
      <4> HIDE DEF f, n, B
      <4> QED
        BY <1>5, <4>1, <4>2, <4>3
    <3>3. i >= b => ByteAt(buf, i) = <<f, i - b + 1>>
      <4>1. i >= b => i - b \in 0 .. FrameLen[f] - 1
        BY <1>7, <2>2, <3>2
      <4>2. i >= b => q.arr[i - b] = <<f, (i - b) + 1>>
        BY <1>3, <2>4, <4>1 DEF Settled
      <4> QED
        BY <1>7, <4>2
    <3> HIDE DEF f
    <3> QED
      BY <1>7, <2>1, <2>2, <3>1, <3>2, <3>3, NoOldFrame
  <2> QED
    BY <2>3, <2>4
<1>9. /\ ~crashed' /\ q'.arr = full.arr /\ q'.head = B + n
      /\ handled' = Append(handled, m) /\ q'.tail = B + n
  <2>1. ~(\E i \in FrameLen[m] .. Len(buf) - 1, rest \in Nat : FramesAt(buf, i, rest) # {})
    BY <1>8
  <2>2. ~(B + FrameLen[m] >= QUEMAXSIZE)
    BY <1>4, <1>5
  <2> QED
    BY <1>3, <1>6, <2>1, <2>2 DEF Settled
<1>10. /\ \A i \in 0 .. FrameLen[m] - 1 : full.arr[B + i] = <<m, i + 1>>
       /\ \A p \in 0 .. QUEMAXSIZE - 1 :
            p < B \/ p >= B + FrameLen[m] => full.arr[p] = q.arr[p]
  BY <1>4, <1>5, PushedBytes DEF full
<1>11. handled' = received'
  BY <1>1, <1>3, <1>9 DEF Settled
<1>12. ASSUME NEW p \in 0 .. QUEMAXSIZE - 1, p >= q'.tail PROVE q'.arr[p] = Zero
  <2>1. p >= B + FrameLen[m] /\ p >= B
    BY <1>5, <1>9, <1>12
  <2> QED
    BY <1>3, <1>9, <1>10, <2>1 DEF Settled
<1>13. /\ FrameLen[received'[1]] <= q'.tail
       /\ \A p \in 0 .. FrameLen[received'[1]] - 1 : q'.arr[p] = <<received'[1], p + 1>>
  <2>1. CASE received = <<>>
    <3>1. received'[1] = m
      BY <1>1, <2>1
    <3>2. B = 0
      BY <1>4, <2>1, BytesAre DEF BytesUpTo, TypeOK, IInv
    <3>3. \A p \in 0 .. FrameLen[m] - 1 : B + p = p
      BY <1>5, <3>2
    <3>4. \A p \in 0 .. FrameLen[m] - 1 : full.arr[p] = <<m, p + 1>>
      BY <1>10, <3>3
    <3> QED
      BY <1>5, <1>9, <3>1, <3>2, <3>4
  <2>2. CASE received # <<>>
    <3> DEFINE f == received[1]
    <3>1. received'[1] = f /\ f \in Message
      BY <1>1, <1>2, <2>2 DEF TypeOK
    <3>2. FrameLen[f] <= B /\ \A p \in 0 .. FrameLen[f] - 1 : q.arr[p] = <<f, p + 1>>
      BY <1>3, <2>2 DEF Settled
    <3>3. FrameLen[f] \in Nat
      BY <3>1, FrameIs
    <3> HIDE DEF f
    <3>4. ASSUME NEW p \in 0 .. FrameLen[f] - 1 PROVE full.arr[p] = <<f, p + 1>>
      <4>1. p \in 0 .. QUEMAXSIZE - 1 /\ p < B
        BY <1>5, <3>2, <3>3
      <4> QED
        BY <1>10, <3>2, <4>1
    <3> QED
      BY <1>5, <1>9, <3>1, <3>2, <3>3, <3>4
  <2> QED
    BY <2>1, <2>2
<1>14. q'.tail = BytesUpTo(Len(received))'
  BY <1>4, <1>9
<1> QED
  BY <1>9, <1>11, <1>12, <1>13, <1>14 DEF Settled

(* The initial state satisfies the invariant. *)
LEMMA InitIInv == Init => IInv
<1> SUFFICES ASSUME Init PROVE IInv
  OBVIOUS
<1>1. TypeOK
  BY InitTyped
<1>2. BytesUpTo(Len(received)) = 0
  <2>1. received \in Seq(Message) /\ Len(received) = 0
    BY DEF Init
  <2> QED
    BY <2>1, BytesAre DEF BytesUpTo
<1>3. Settled
  BY <1>2, QueueAssumption DEF Init, Settled
<1> QED
  BY <1>1, <1>3 DEF IInv

(* Every step keeps it. *)
LEMMA NextIInv == IInv /\ [Next]_vars => IInv'
<1> SUFFICES ASSUME IInv, [Next]_vars PROVE IInv'
  OBVIOUS
<1>1. TypeOK'
  BY NextTyped DEF IInv
<1>2. ASSUME Young' PROVE Settled'
  <2>1. ASSUME NEW m \in Message, ReceiveFrame(m) PROVE Settled'
    BY <1>2, <2>1, ReceiveSettles
  <2>2. ASSUME NEW m \in Message, ReceiveCut(m) PROVE Settled'
    <3>1. cut \in Nat /\ cut' = cut + 1
      BY <2>2 DEF IInv, TypeOK, ReceiveCut
    <3> QED
      BY <1>2, <3>1 DEF Young
  <2>3. CASE UNCHANGED vars
    <3>1. Young /\ Settled
      BY <1>2, <2>3 DEF vars, Young, BytesUpTo, IInv
    <3> QED
      BY <2>3, <3>1 DEF vars, Settled, BytesUpTo
  <2> QED
    BY <2>1, <2>2, <2>3 DEF Next
<1> QED
  BY <1>1, <1>2 DEF IInv

(* recvPackageHandle handles every whole frame once and in order, without a
   crash, as long as the bytes it copies by mistake reach no whole old frame
   and the ring has not come round; for any ring, frames and number of
   datagrams (package.c:193-255). *)
THEOREM YoungStreamIsExactlyOnce == Spec => []ExactlyOnceWhileYoung
<1>1. IInv => ExactlyOnceWhileYoung
  BY DEF IInv, Settled, ExactlyOnceWhileYoung
<1> QED
  BY <1>1, InitIInv, NextIInv, PTL DEF Spec

(* The step in which a frame is handled again. *)
LEMMA RepetitionIs ==
  ASSUME IInv, NEW m \in Message, ReceiveFrame(m), Repeats,
         NEW l \in Message, FrameLen[l] < 2 * FrameLen[m]
  PROVE  PushFaults(q', FrameLen[l])
<1> DEFINE n == FrameLen[m]
           B == q.tail
           b == QUEMAXSIZE - B
           full == Pushed(q, Bytes(m, FrameLen[m]))
           buf == Copied(full, Size(full))
<1>1. received' = Append(received, m) /\ recvPackageHandle(Bytes(m, FrameLen[m]))
  BY DEF ReceiveFrame
<1>2. TypeOK /\ Young /\ Settled
  BY DEF IInv, Repeats
<1>3. /\ n \in Nat /\ 3 <= n /\ 2 * n <= QUEMAXSIZE /\ QUEMAXSIZE \in Nat /\ B \in Nat
      /\ B < QUEMAXSIZE /\ FrameLen[l] \in Nat
  BY <1>2, FrameIs DEF TypeOK, Ring, Settled, Young
<1> HIDE DEF full, buf, b
<1>4. \/ B + FrameLen[m] >= QUEMAXSIZE /\ Crash
      \/ /\ B + FrameLen[m] < QUEMAXSIZE
         /\ UNCHANGED crashed
         /\ q'.arr = full.arr
         /\ q'.head = B + FrameLen[m]
         /\ \/ handled' = Append(handled, m) /\ q'.tail = B + FrameLen[m]
            \/ /\ q'.tail \in Nat /\ 0 < q'.tail /\ q'.tail <= B - FrameLen[m]
               /\ \E i \in FrameLen[m] .. Len(buf) - 1, rest \in Nat : FramesAt(buf, i, rest) # {}
  BY <1>1, <1>2, <1>3, YoungReceives DEF full, buf, b
<1>5. handled = received /\ received \in Seq(Message) /\ Len(received) \in Nat
      /\ Len(received') = Len(received) + 1 /\ Len(handled') > Len(received')
  BY <1>1, <1>2 DEF Settled, TypeOK, Repeats
<1>6. handled' # handled /\ handled' # Append(handled, m)
  BY <1>5, <1>1
<1>7. /\ q'.head = B + n /\ q'.tail \in Nat /\ 0 < q'.tail /\ q'.tail <= B - n
  BY <1>4, <1>6 DEF Crash
<1>8. Size(q') = QUEMAXSIZE + q'.tail - B - n
  BY <1>3, <1>7 DEF Size, Forward
<1>9. Accepts(q', FrameLen[l])
  BY <1>3, <1>7, <1>8 DEF Accepts, Remain
<1>10. PushRoom(q') < 0
  BY <1>3, <1>7 DEF PushRoom, Forward
<1> QED
  BY <1>9, <1>10 DEF PushFaults

(* Once a young stream has had a frame handled again, the next message that is
   not twice as long as the last crashes the process. *)
THEOREM RepetitionIsFatal == Spec => ReplayIsFatal
<1> DEFINE Fatal == Repeats =>
             \A m \in Message : FrameLen[m] < 2 * FrameLen[received'[Len(received')]]
                                  => PushFaults(q', FrameLen[m])
<1>1. IInv /\ [Next]_vars => [Fatal]_vars
  <2> SUFFICES ASSUME IInv, Next, Repeats,
                      NEW l \in Message, FrameLen[l] < 2 * FrameLen[received'[Len(received')]]
               PROVE  PushFaults(q', FrameLen[l])
    OBVIOUS
  <2>1. PICK m \in Message : ReceiveFrame(m) \/ ReceiveCut(m)
    BY DEF Next
  <2>2. ~ReceiveCut(m)
    BY DEF ReceiveCut, Repeats, IInv, TypeOK
  <2>3. received' = Append(received, m) /\ received \in Seq(Message)
    BY <2>1, <2>2 DEF ReceiveFrame, IInv, TypeOK
  <2>4. received'[Len(received')] = m
    BY <2>3
  <2> QED
    BY <2>1, <2>2, <2>4, RepetitionIs
<1> QED
  BY <1>1, InitIInv, NextIInv, PTL DEF Spec, ReplayIsFatal
=============================================================================
