-------------------------- MODULE TimerQueueProofs --------------------------
(* Theorems about TimerQueue: who holds the lock and what releases a stopped
   queue; that the list stays linked; that the events are kept in order, as in
   OrderedEvents; and that the timer is set for the first of them.

   First the lemmas about the linked list of cvector.c: whatever is pushed,
   inserted, popped and erased, size, ends, links and heap stay those of a
   sequence of nodes, and the operations do to the data what they do to a
   sequence.  A list is described by the sequence of the addresses of its
   nodes (Represents).  Llget, which walks the list, is unrolled by induction
   over sets of numbers: a set of numbers has a least one (Least), so what
   passes from each number to the next holds of all (UpTo). *)
EXTENDS TimerQueue, SequenceTheorems, FiniteSetTheorems,
        WellFoundedInduction, TLAPS

(* The order of the natural numbers as a relation. *)
LessThan == {p \in Nat \X Nat : p[1] < p[2]}

(* No set of natural numbers goes down for ever. *)
LEMMA LessThanWF == IsWellFoundedOn(LessThan, Nat)
  BY NatLessThanWellFounded DEF OpToRel, LessThan

(* A set of natural numbers has a least one. *)
LEMMA Least ==
  ASSUME NEW S, S \subseteq Nat, S # {}
  PROVE  \E m \in S : \A k \in S : m <= k
<1>1. \A k, m \in Nat : k < m => <<k, m>> \in LessThan
  BY DEF LessThan
<1>2. \E m \in S : \A k \in S : ~ (<<k, m>> \in LessThan)
  BY LessThanWF, WFMin
<1>3. PICK m \in S : \A k \in S : ~ (<<k, m>> \in LessThan)
  BY <1>2
<1>4. \A k \in S : ~(k < m)
  BY <1>1, <1>3
<1>5. \A k \in S : m <= k
  BY <1>4
<1> QED
  BY <1>5

(* What holds of 0 and passes from each number below b to the next holds of
   all numbers up to b. *)
LEMMA UpTo ==
  ASSUME NEW b \in Nat, NEW S, 0 \in S, \A n \in 0 .. b - 1 : n \in S => n + 1 \in S
  PROVE  0 .. b \subseteq S
<1>1. SUFFICES ASSUME ~(0 .. b \subseteq S) PROVE FALSE
  OBVIOUS
<1> DEFINE T == (0 .. b) \ S
<1>2. T \subseteq Nat /\ T # {}
  BY <1>1
<1>3. PICK m \in T : \A k \in T : m <= k
  BY <1>2, Least
<1>4. m # 0 /\ m - 1 \in 0 .. b - 1 /\ m - 1 \notin T
  BY <1>3
<1> QED
  BY <1>3, <1>4

-----------------------------------------------------------------------------
(* The addresses of the nodes of v, from its head, are s. *)
Represents(v, s) ==
  /\ v.size \in Nat
  /\ v = [size |-> v.size, head |-> v.head, tail |-> v.tail, cell |-> v.cell]
  /\ s \in [1 .. v.size -> Addr]
  /\ \A i, j \in 1 .. v.size : s[i] = s[j] => i = j
  /\ DOMAIN v.cell = {s[i] : i \in 1 .. v.size}
  /\ v.size = 0 => v = NewVector
  /\ v.size > 0 => v.head = s[1] /\ v.tail = s[v.size]
  /\ \A i \in 1 .. v.size :
       /\ v.cell[s[i]] = [data |-> v.cell[s[i]].data, pre |-> v.cell[s[i]].pre,
                          next |-> v.cell[s[i]].next]
       /\ v.cell[s[i]].pre = IF i = 1 THEN NULL ELSE s[i - 1]
       /\ i < v.size => v.cell[s[i]].next = s[i + 1]

(* cvector_llget goes along the nodes. *)
LEMMA LlgetIs ==
  ASSUME NEW v, NEW s, Represents(v, s), NEW k \in Nat
  PROVE  Llget(v, k) = IF k < v.size THEN s[k + 1] ELSE NULL
<1>0. /\ v.size \in Nat
      /\ v.size > 0 => v.head = s[1]
      /\ \A i \in 1 .. v.size : s[i] # NULL
      /\ \A i \in 1 .. v.size : i < v.size => v.cell[s[i]].next = s[i + 1]
  <2>1. \A i \in 1 .. v.size : s[i] \in Addr
    BY DEF Represents
  <2>2. \A a \in Addr : a # NULL
    BY DEF Addr, NULL
  <2> QED
    BY <2>1, <2>2 DEF Represents
<1>1. CASE k >= v.size
  BY <1>1 DEF Llget, Represents
<1>2. CASE k < v.size
  <2> DEFINE G(f) == [i \in 0 .. k |-> IF i = 0 THEN v.head
                                       ELSE IF f[i - 1] = NULL THEN NULL
                                       ELSE v.cell[f[i - 1]].next]
             e == [i \in 0 .. k |-> s[i + 1]]
             f == CHOOSE g : g = G(g)
  <2>1. e = G(e)
    <3>1. ASSUME NEW i \in 1 .. k
          PROVE  e[i] = IF e[i - 1] = NULL THEN NULL ELSE v.cell[e[i - 1]].next
      <4>1. i \in 1 .. v.size /\ i < v.size /\ i - 1 \in 0 .. k /\ (i - 1) + 1 = i
        BY <1>2 DEF Represents
      <4>2. e[i - 1] = s[i] /\ e[i] = s[i + 1]
        BY <4>1
      <4>3. s[i] # NULL /\ v.cell[s[i]].next = s[i + 1]
        BY <1>0, <4>1
      <4> QED
        BY <4>2, <4>3
    <3>2. e[0] = v.head
      BY <1>0, <1>2
    <3> HIDE DEF e
    <3>3. ASSUME NEW i \in 0 .. k PROVE e[i] = G(e)[i]
      <4>1. CASE i = 0
        BY <3>2, <4>1
      <4>2. CASE i \in 1 .. k
        BY <3>1, <4>2
      <4> QED
        BY <4>1, <4>2
    <3>4. e = [i \in 0 .. k |-> e[i]]
      BY DEF e
    <3> QED
      BY <3>3, <3>4
  <2>2. f = G(f)
    BY <2>1
  <2>3. Llget(v, k) = f[k]
    <3>1. ~(k >= v.size)
      BY <1>2 DEF Represents
    <3> QED
      BY <3>1, Zenon DEF Llget
  <2> DEFINE S == {i \in 0 .. k : f[i] = e[i]}
  <2> HIDE DEF f
  <2>4. 0 \in S
    <3>1. f[0] = v.head
      BY <2>2
    <3>2. e[0] = v.head
      BY <1>0, <1>2
    <3> QED
      BY <3>1, <3>2
  <2>5. ASSUME NEW i \in 0 .. k - 1, i \in S PROVE i + 1 \in S
    <3>1. i + 1 \in 0 .. k /\ i + 1 # 0 /\ (i + 1) - 1 = i
      OBVIOUS
    <3>2. f[i + 1] = IF f[i] = NULL THEN NULL ELSE v.cell[f[i]].next
      BY <2>2, <3>1
    <3>3. e[i + 1] = IF e[i] = NULL THEN NULL ELSE v.cell[e[i]].next
      BY <2>1, <3>1
    <3> QED
      BY <2>5, <3>1, <3>2, <3>3
  <2> HIDE DEF S
  <2>6. 0 .. k \subseteq S
    BY <2>4, <2>5, UpTo
  <2>7. f[k] = s[k + 1]
    BY <2>6 DEF S
  <2> QED
    BY <1>2, <2>3, <2>7
<1> QED
  BY <1>1, <1>2 DEF Represents

(* So its data are those of the nodes. *)
LEMMA DataIs ==
  ASSUME NEW v, NEW s, Represents(v, s)
  PROVE  Data(v) = [i \in 1 .. v.size |-> v.cell[s[i]].data]
<1>1. ASSUME NEW i \in 1 .. v.size PROVE Llget(v, i - 1) = s[i]
  <2>1. i - 1 \in Nat /\ i - 1 < v.size /\ (i - 1) + 1 = i
    BY DEF Represents
  <2> QED
    BY <2>1, LlgetIs
<1> QED
  BY <1>1 DEF Data

(* size, ends, links and heap of such a vector agree. *)
LEMMA RepresentsLinked ==
  ASSUME NEW v, NEW s, Represents(v, s)
  PROVE  WellLinked(v)
<1>1. v.size \in Nat
  BY DEF Represents
<1>2. ASSUME NEW i \in 0 .. v.size - 1
      PROVE  Llget(v, i) = s[i + 1] /\ i + 1 \in 1 .. v.size
  BY <1>1, LlgetIs
<1>3. DOMAIN v.cell = {Llget(v, i) : i \in 0 .. v.size - 1}
  <2>1. \A i \in 1 .. v.size : i - 1 \in 0 .. v.size - 1 /\ (i - 1) + 1 = i
    BY <1>1
  <2>2. {Llget(v, i) : i \in 0 .. v.size - 1} = {s[i] : i \in 1 .. v.size}
    BY <1>2, <2>1
  <2> QED
    BY <2>2 DEF Represents
<1>4. v.size > 0 => v.tail = Llget(v, v.size - 1)
  <2>1. v.size > 0 => v.size - 1 \in 0 .. v.size - 1 /\ (v.size - 1) + 1 = v.size
    BY <1>1
  <2> QED
    BY <1>2, <2>1 DEF Represents
<1>5. \A i, j \in 0 .. v.size - 1 : Llget(v, i) = Llget(v, j) => i = j
  <2>1. \A i, j \in 1 .. v.size : s[i] = s[j] => i = j
    BY DEF Represents
  <2>2. ASSUME NEW i \in 0 .. v.size - 1, NEW j \in 0 .. v.size - 1,
               Llget(v, i) = Llget(v, j)
        PROVE  i = j
    <3>1. i + 1 = j + 1
      BY <1>2, <2>1, <2>2
    <3> QED
      BY <3>1
  <2> QED
    BY <2>2
<1>6. ASSUME NEW i \in 0 .. v.size - 1
      PROVE  v.cell[Llget(v, i)].pre = IF i = 0 THEN NULL ELSE Llget(v, i - 1)
  <2>1. v.cell[s[i + 1]].pre = IF i = 0 THEN NULL ELSE s[i]
    <3>1. (i + 1 = 1 <=> i = 0) /\ (i + 1) - 1 = i
      OBVIOUS
    <3>2. v.cell[s[i + 1]].pre = IF i + 1 = 1 THEN NULL ELSE s[(i + 1) - 1]
      BY <1>2 DEF Represents
    <3> QED
      BY <3>1, <3>2
  <2>2. i # 0 => i - 1 \in 0 .. v.size - 1 /\ (i - 1) + 1 = i
    BY <1>1
  <2> QED
    BY <1>2, <2>1, <2>2
<1> QED
  BY <1>3, <1>4, <1>5, <1>6 DEF WellLinked, Represents

(* A new vector has no nodes. *)
LEMMA NewRepresents == Represents(NewVector, [i \in 1 .. 0 |-> NULL])
<1>1. 1 .. 0 = {} /\ DOMAIN NewVector.cell = {}
  BY DEF NewVector
<1> QED
  BY <1>1 DEF Represents, NewVector

-----------------------------------------------------------------------------
(* s with a behind its first i nodes, and s without the node behind them. *)
PutIn(s, n, i, a) ==
  [j \in 1 .. n + 1 |-> IF j <= i THEN s[j] ELSE IF j = i + 1 THEN a ELSE s[j - 1]]

CutOut(s, n, i) == [j \in 1 .. n - 1 |-> IF j <= i THEN s[j] ELSE s[j + 1]]

(* What u is when a node of data d at a has been linked into v behind the
   first i nodes; what next of a new last node is does not matter. *)
LinkedIn(u, v, s, i, a, d) ==
  /\ u = [size |-> v.size + 1, head |-> IF i = 0 THEN a ELSE v.head,
          tail |-> IF i = v.size THEN a ELSE v.tail, cell |-> u.cell]
  /\ DOMAIN u.cell = DOMAIN v.cell \cup {a}
  /\ \E x : /\ u.cell[a] = [data |-> d, pre |-> IF i = 0 THEN NULL ELSE s[i], next |-> x]
            /\ i < v.size => x = s[i + 1]
  /\ \A k \in 1 .. v.size :
       u.cell[s[k]] = [data |-> v.cell[s[k]].data,
                       pre  |-> IF k = i + 1 THEN a ELSE v.cell[s[k]].pre,
                       next |-> IF k = i THEN a ELSE v.cell[s[k]].next]

(* Such a vector has one node more. *)
LEMMA LinkIn ==
  ASSUME NEW v, NEW s, Represents(v, s), NEW i \in 0 .. v.size,
         NEW a \in Addr \ DOMAIN v.cell, NEW d, NEW u, LinkedIn(u, v, s, i, a, d)
  PROVE  /\ Represents(u, PutIn(s, v.size, i, a))
         /\ u.size = v.size + 1
<1> DEFINE n == v.size
           q == PutIn(s, n, i, a)
<1>1. /\ n \in Nat /\ i \in Nat /\ i <= n
      /\ s \in [1 .. n -> Addr]
      /\ \A j, k \in 1 .. n : s[j] = s[k] => j = k
      /\ DOMAIN v.cell = {s[j] : j \in 1 .. n}
  BY DEF Represents
<1>2. \A k \in 1 .. n : s[k] # a
  BY <1>1
<1>3. /\ u.size = n + 1 /\ u.head = (IF i = 0 THEN a ELSE v.head)
      /\ u.tail = (IF i = n THEN a ELSE v.tail)
      /\ u = [size |-> u.size, head |-> u.head, tail |-> u.tail, cell |-> u.cell]
  BY DEF LinkedIn
<1>4. q \in [1 .. n + 1 -> Addr]
  BY <1>1 DEF PutIn
<1>5. /\ \A j \in 1 .. i : j \in 1 .. n /\ q[j] = s[j]
      /\ q[i + 1] = a
      /\ \A j \in i + 2 .. n + 1 : j - 1 \in 1 .. n /\ q[j] = s[j - 1]
  BY <1>1 DEF PutIn
<1>6. \A j, k \in 1 .. n + 1 : q[j] = q[k] => j = k
  BY <1>1, <1>2 DEF PutIn
<1>7. DOMAIN u.cell = {q[j] : j \in 1 .. n + 1}
  <2>1. ASSUME NEW b \in DOMAIN u.cell PROVE \E j \in 1 .. n + 1 : b = q[j]
    <3>1. CASE b = a
      BY <1>1, <1>5, <3>1
    <3>2. CASE b # a
      <4>1. PICK j \in 1 .. n : b = s[j]
        BY <1>1, <3>2 DEF LinkedIn
      <4>2. CASE j <= i
        BY <1>1, <1>5, <4>1, <4>2
      <4>3. CASE j > i
        <5>1. j + 1 \in i + 2 .. n + 1 /\ (j + 1) - 1 = j /\ j + 1 \in 1 .. n + 1
          BY <1>1, <4>3
        <5> QED
          BY <1>5, <4>1, <5>1
      <4> QED
        BY <1>1, <4>2, <4>3
    <3> QED
      BY <3>1, <3>2
  <2>2. ASSUME NEW j \in 1 .. n + 1 PROVE q[j] \in DOMAIN u.cell
    <3>1. j \in 1 .. i \/ j = i + 1 \/ j \in i + 2 .. n + 1
      BY <1>1
    <3> QED
      BY <1>1, <1>5, <3>1 DEF LinkedIn
  <2> QED
    BY <2>1, <2>2
<1>8. ASSUME NEW j \in 1 .. n + 1
      PROVE  /\ u.cell[q[j]] = [data |-> u.cell[q[j]].data, pre |-> u.cell[q[j]].pre,
                                next |-> u.cell[q[j]].next]
             /\ u.cell[q[j]].pre = IF j = 1 THEN NULL ELSE q[j - 1]
             /\ j < n + 1 => u.cell[q[j]].next = q[j + 1]
  <2>1. CASE j \in 1 .. i
    <3>1. j \in 1 .. n /\ q[j] = s[j] /\ j # i + 1 /\ (j # 1 => q[j - 1] = s[j - 1])
      BY <1>1, <1>5, <2>1
    <3>2. u.cell[s[j]] = [data |-> v.cell[s[j]].data, pre |-> v.cell[s[j]].pre,
                          next |-> IF j = i THEN a ELSE v.cell[s[j]].next]
      BY <3>1 DEF LinkedIn
    <3>3. /\ v.cell[s[j]].pre = IF j = 1 THEN NULL ELSE s[j - 1]
          /\ j < n => v.cell[s[j]].next = s[j + 1]
      BY <3>1 DEF Represents
    <3>4. q[j + 1] = IF j = i THEN a ELSE s[j + 1]
      BY <1>1, <1>5, <2>1
    <3> QED
      BY <1>1, <2>1, <3>1, <3>2, <3>3, <3>4
  <2>2. CASE j = i + 1
    <3>1. PICK x :
            /\ u.cell[a] = [data |-> d, pre |-> IF i = 0 THEN NULL ELSE s[i], next |-> x]
            /\ i < n => x = s[i + 1]
      BY DEF LinkedIn
    <3>2. /\ q[j] = a /\ (j = 1 <=> i = 0) /\ (i # 0 => q[j - 1] = s[i])
      BY <1>1, <1>5, <2>2
    <3>3. j < n + 1 => i < n /\ q[j + 1] = s[i + 1]
      BY <1>1, <1>5, <2>2
    <3> QED
      BY <3>1, <3>2, <3>3
  <2>3. CASE j \in i + 2 .. n + 1
    <3>1. /\ j - 1 \in 1 .. n /\ q[j] = s[j - 1] /\ j # 1 /\ j - 1 # i
      BY <1>1, <1>5, <2>3
    <3>2. u.cell[s[j - 1]] = [data |-> v.cell[s[j - 1]].data,
                              pre |-> IF j - 1 = i + 1 THEN a ELSE v.cell[s[j - 1]].pre,
                              next |-> v.cell[s[j - 1]].next]
      BY <3>1 DEF LinkedIn
    <3>3. /\ v.cell[s[j - 1]].pre = IF j - 1 = 1 THEN NULL ELSE s[j - 1 - 1]
          /\ j - 1 < n => v.cell[s[j - 1]].next = s[j - 1 + 1]
      BY <3>1 DEF Represents
    <3>4. q[j - 1] = IF j - 1 = i + 1 THEN a ELSE s[j - 1 - 1]
      BY <1>1, <1>5, <2>3
    <3>5. j < n + 1 => q[j + 1] = s[j]
      BY <1>1, <1>5, <2>3
    <3>6. j - 1 = 1 => j - 1 = i + 1
      BY <1>1, <2>3
    <3> QED
      BY <1>1, <2>3, <3>1, <3>2, <3>3, <3>4, <3>5, <3>6
  <2> QED
    BY <1>1, <2>1, <2>2, <2>3
<1>9. u.head = q[1] /\ u.tail = q[n + 1]
  <2>1. v.size > 0 => v.head = s[1] /\ v.tail = s[v.size]
    BY DEF Represents
  <2>2. i = 0 => q[1] = a
    BY <1>5
  <2>3. i # 0 => q[1] = s[1] /\ n > 0
    BY <1>1, <1>5
  <2>4. q[n + 1] = IF i = n THEN a ELSE s[n]
    BY <1>1, <1>5
  <2>5. i # n => n > 0
    BY <1>1
  <2> QED
    BY <1>3, <2>1, <2>2, <2>3, <2>4, <2>5
<1> HIDE DEF q
<1>10. Represents(u, q)
  <2> DEFINE m == u.size
  <2>1. m = n + 1 /\ m \in Nat /\ m # 0
    BY <1>1, <1>3
  <2>2. /\ q \in [1 .. m -> Addr]
        /\ \A j, k \in 1 .. m : q[j] = q[k] => j = k
        /\ DOMAIN u.cell = {q[j] : j \in 1 .. m}
        /\ u.head = q[1] /\ u.tail = q[m]
    BY <1>3, <1>4, <1>6, <1>7, <1>9
  <2>3. \A j \in 1 .. m :
          /\ u.cell[q[j]] = [data |-> u.cell[q[j]].data, pre |-> u.cell[q[j]].pre,
                             next |-> u.cell[q[j]].next]
          /\ u.cell[q[j]].pre = IF j = 1 THEN NULL ELSE q[j - 1]
          /\ j < m => u.cell[q[j]].next = q[j + 1]
    BY <1>3, <1>8
  <2> QED
    BY <1>3, <2>1, <2>2, <2>3 DEF Represents
<1> QED
  BY <1>3, <1>10 DEF q

(* What u is when the node behind the first i has been taken out of v. *)
LinkedOut(u, v, s, i) ==
  /\ u = [size |-> v.size - 1, head |-> IF i = 0 THEN s[2] ELSE v.head,
          tail |-> IF i = v.size - 1 THEN s[v.size - 1] ELSE v.tail, cell |-> u.cell]
  /\ DOMAIN u.cell = DOMAIN v.cell \ {s[i + 1]}
  /\ \A k \in (1 .. v.size) \ {i + 1} :
       u.cell[s[k]] =
         [data |-> v.cell[s[k]].data,
          pre  |-> IF k = i + 2 THEN IF i = 0 THEN NULL ELSE s[i]
                   ELSE v.cell[s[k]].pre,
          next |-> IF k = i /\ i + 2 <= v.size THEN s[i + 2] ELSE v.cell[s[k]].next]

(* Such a vector has one node less. *)
LEMMA LinkOut ==
  ASSUME NEW v, NEW s, Represents(v, s), v.size >= 2, NEW i \in 0 .. v.size - 1,
         NEW u, LinkedOut(u, v, s, i)
  PROVE  /\ Represents(u, CutOut(s, v.size, i))
         /\ u.size = v.size - 1
<1> DEFINE n == v.size
           q == CutOut(s, n, i)
<1>1. /\ n \in Nat /\ i \in Nat /\ i <= n - 1 /\ n - 1 \in Nat
      /\ s \in [1 .. n -> Addr]
      /\ \A j, k \in 1 .. n : s[j] = s[k] => j = k
      /\ DOMAIN v.cell = {s[j] : j \in 1 .. n}
  BY DEF Represents
<1>3. /\ u.size = n - 1 /\ u.head = (IF i = 0 THEN s[2] ELSE v.head)
      /\ u.tail = (IF i = n - 1 THEN s[n - 1] ELSE v.tail)
      /\ u = [size |-> u.size, head |-> u.head, tail |-> u.tail, cell |-> u.cell]
  BY DEF LinkedOut
<1>4. q \in [1 .. n - 1 -> Addr]
  BY <1>1 DEF CutOut
<1>5. /\ \A j \in 1 .. i : j \in 1 .. n /\ j <= n - 1 /\ q[j] = s[j]
      /\ \A j \in i + 1 .. n - 1 : j + 1 \in 1 .. n /\ q[j] = s[j + 1]
  BY <1>1 DEF CutOut
<1>6. \A j, k \in 1 .. n - 1 : q[j] = q[k] => j = k
  BY <1>1 DEF CutOut
<1>7. DOMAIN u.cell = {q[j] : j \in 1 .. n - 1}
  <2>1. ASSUME NEW b \in DOMAIN u.cell PROVE \E j \in 1 .. n - 1 : b = q[j]
    <3>1. PICK j \in 1 .. n : b = s[j] /\ j # i + 1
      BY <1>1 DEF LinkedOut
    <3>2. CASE j <= i
      BY <1>1, <1>5, <3>1, <3>2
    <3>3. CASE j > i
      <4>1. j - 1 \in i + 1 .. n - 1 /\ (j - 1) + 1 = j /\ j - 1 \in 1 .. n - 1
        BY <1>1, <3>1, <3>3
      <4> QED
        BY <1>5, <3>1, <4>1
    <3> QED
      BY <1>1, <3>2, <3>3
  <2>2. ASSUME NEW j \in 1 .. n - 1 PROVE q[j] \in DOMAIN u.cell
    <3>1. CASE j \in 1 .. i
      <4>1. j \in 1 .. n /\ j # i + 1 /\ q[j] = s[j] /\ i + 1 \in 1 .. n
        BY <1>1, <1>5, <3>1
      <4> QED
        BY <1>1, <4>1 DEF LinkedOut
    <3>2. CASE j \in i + 1 .. n - 1
      <4>1. j + 1 \in 1 .. n /\ j + 1 # i + 1 /\ q[j] = s[j + 1] /\ i + 1 \in 1 .. n
        BY <1>1, <1>5, <3>2
      <4> QED
        BY <1>1, <4>1 DEF LinkedOut
    <3> QED
      BY <1>1, <3>1, <3>2
  <2> QED
    BY <2>1, <2>2
<1>8. ASSUME NEW j \in 1 .. n - 1
      PROVE  /\ u.cell[q[j]] = [data |-> u.cell[q[j]].data, pre |-> u.cell[q[j]].pre,
                                next |-> u.cell[q[j]].next]
             /\ u.cell[q[j]].pre = IF j = 1 THEN NULL ELSE q[j - 1]
             /\ j < n - 1 => u.cell[q[j]].next = q[j + 1]
  <2>1. CASE j \in 1 .. i
    <3>1. /\ j \in (1 .. n) \ {i + 1} /\ j # i + 2 /\ q[j] = s[j]
          /\ j # 1 => q[j - 1] = s[j - 1]
      BY <1>1, <1>5, <2>1
    <3>2. u.cell[s[j]] = [data |-> v.cell[s[j]].data, pre |-> v.cell[s[j]].pre,
                          next |-> IF j = i /\ i + 2 <= n THEN s[i + 2] ELSE v.cell[s[j]].next]
      BY <3>1 DEF LinkedOut
    <3>3. /\ v.cell[s[j]].pre = IF j = 1 THEN NULL ELSE s[j - 1]
          /\ j < n => v.cell[s[j]].next = s[j + 1]
      BY <3>1 DEF Represents
    <3>4. j < n - 1 => q[j + 1] = IF j = i THEN s[i + 2] ELSE s[j + 1]
      BY <1>1, <1>5, <2>1
    <3>5. j = i /\ j < n - 1 => i + 2 <= n
      BY <1>1
    <3>6. j < n - 1 => j < n
      BY <1>1
    <3> QED
      BY <3>1, <3>2, <3>3, <3>4, <3>5, <3>6
  <2>2. CASE j \in i + 1 .. n - 1
    <3>1. /\ j + 1 \in (1 .. n) \ {i + 1} /\ q[j] = s[j + 1] /\ j + 1 # i /\ j + 1 # 1
      BY <1>1, <1>5, <2>2
    <3>2. u.cell[s[j + 1]] =
            [data |-> v.cell[s[j + 1]].data,
             pre |-> IF j + 1 = i + 2 THEN IF i = 0 THEN NULL ELSE s[i]
                     ELSE v.cell[s[j + 1]].pre,
             next |-> v.cell[s[j + 1]].next]
      BY <3>1 DEF LinkedOut
    <3>3. /\ v.cell[s[j + 1]].pre = s[(j + 1) - 1]
          /\ j + 1 < n => v.cell[s[j + 1]].next = s[(j + 1) + 1]
      BY <3>1 DEF Represents
    <3>4. /\ (j + 1) - 1 = j
          /\ j + 1 = i + 2 => (j = 1 <=> i = 0) /\ j - 1 = i
          /\ j + 1 # i + 2 => j # 1 /\ q[j - 1] = s[j]
      <4>1. (j + 1) - 1 = j /\ (j + 1 = i + 2 => (j = 1 <=> i = 0) /\ j - 1 = i)
        BY <1>1, <2>2
      <4>2. j + 1 # i + 2 => j # 1 /\ j - 1 \in i + 1 .. n - 1 /\ (j - 1) + 1 = j
        BY <1>1, <2>2
      <4> QED
        BY <1>5, <4>1, <4>2
    <3>5. i # 0 => q[i] = s[i]
      BY <1>1, <1>5
    <3>6. j < n - 1 => j + 1 < n /\ q[j + 1] = s[(j + 1) + 1]
      BY <1>1, <1>5, <2>2
    <3> QED
      BY <3>1, <3>2, <3>3, <3>4, <3>5, <3>6
  <2> QED
    BY <1>1, <2>1, <2>2
<1>9. u.head = q[1] /\ u.tail = q[n - 1]
  <2>1. v.head = s[1] /\ v.tail = s[v.size]
    BY DEF Represents
  <2>2. q[1] = IF i = 0 THEN s[2] ELSE s[1]
    BY <1>1 DEF CutOut
  <2>3. q[n - 1] = IF i = n - 1 THEN s[n - 1] ELSE s[n]
    BY <1>1 DEF CutOut
  <2> QED
    BY <1>3, <2>1, <2>2, <2>3
<1> HIDE DEF q
<1>10. Represents(u, q)
  <2> DEFINE m == u.size
  <2>1. m = n - 1 /\ m \in Nat /\ m # 0
    BY <1>1, <1>3
  <2>2. /\ q \in [1 .. m -> Addr]
        /\ \A j, k \in 1 .. m : q[j] = q[k] => j = k
        /\ DOMAIN u.cell = {q[j] : j \in 1 .. m}
        /\ u.head = q[1] /\ u.tail = q[m]
    BY <1>3, <1>4, <1>6, <1>7, <1>9
  <2>3. \A j \in 1 .. m :
          /\ u.cell[q[j]] = [data |-> u.cell[q[j]].data, pre |-> u.cell[q[j]].pre,
                             next |-> u.cell[q[j]].next]
          /\ u.cell[q[j]].pre = IF j = 1 THEN NULL ELSE q[j - 1]
          /\ j < m => u.cell[q[j]].next = q[j + 1]
    BY <1>3, <1>8
  <2> QED
    BY <1>3, <2>1, <2>2, <2>3 DEF Represents
<1> QED
  BY <1>3, <1>10 DEF q

-----------------------------------------------------------------------------
(* The operations. *)

(* An allocation takes an address that is free. *)
LEMMA MallocFree ==
  ASSUME NEW v, NEW s, Represents(v, s), ~Exhausted(v)
  PROVE  Malloc(v) \in Addr \ DOMAIN v.cell
<1> DEFINE S == Addr \ DOMAIN v.cell
<1>1. S \subseteq Nat
  BY CvectorAssumption DEF Addr
<1>2. DOMAIN v.cell \subseteq Addr
  BY DEF Represents
<1>3. S # {}
  BY <1>2 DEF Exhausted
<1>4. \E a \in S : \A b \in S : a <= b
  BY <1>1, <1>3, Least
<1> QED
  BY <1>4 DEF Malloc

(* A vector's new last node. *)
LEMMA PushbackLinks ==
  ASSUME NEW v, NEW s, Represents(v, s), ~Exhausted(v), NEW d
  PROVE  LinkedIn(Pushback(v, d), v, s, v.size, Malloc(v), d)
<1> DEFINE n == v.size
           a == Malloc(v)
           node == [data |-> d, pre |-> v.tail, next |-> NULL]
           f == [b \in DOMAIN v.cell \cup {a} |->
                   IF b = a THEN node
                   ELSE IF v.size > 0 /\ b = v.tail
                     THEN [v.cell[b] EXCEPT !.next = a]
                     ELSE v.cell[b]]
           u == Pushback(v, d)
<1>1. u = [size |-> n + 1, head |-> IF n > 0 THEN v.head ELSE a, tail |-> a,
           cell |-> f]
  BY DEF Pushback
<1>2. n \in Nat /\ a \notin DOMAIN v.cell /\ NULL \notin DOMAIN v.cell
  <2>1. NULL \notin Addr
    BY DEF NULL, Addr
  <2>2. n \in Nat /\ DOMAIN v.cell \subseteq Addr
    BY DEF Represents
  <2>3. a \notin DOMAIN v.cell
    BY MallocFree
  <2> QED
    BY <2>1, <2>2, <2>3
<1> HIDE DEF u, a
<1>3. /\ DOMAIN u.cell = DOMAIN v.cell \cup {a} /\ u.cell[a] = node
      /\ \A b \in DOMAIN v.cell : u.cell[b] = IF n > 0 /\ b = v.tail
                                              THEN [v.cell[b] EXCEPT !.next = a]
                                              ELSE v.cell[b]
  BY <1>1, <1>2
<1>4. u = [size |-> n + 1, head |-> IF n = 0 THEN a ELSE v.head, tail |-> a, cell |-> u.cell]
  BY <1>1, <1>2
<1>5. v.tail = IF n = 0 THEN NULL ELSE s[n]
  BY <1>2 DEF Represents, NewVector
<1>6. ASSUME NEW k \in 1 .. n
      PROVE  u.cell[s[k]] = [data |-> v.cell[s[k]].data,
                             pre  |-> IF k = n + 1 THEN a ELSE v.cell[s[k]].pre,
                             next |-> IF k = n THEN a ELSE v.cell[s[k]].next]
  <2>1. s[k] \in DOMAIN v.cell /\ k # n + 1 /\ n > 0 /\ (s[k] = v.tail <=> k = n)
    BY <1>2, <1>5 DEF Represents
  <2>2. v.cell[s[k]] = [data |-> v.cell[s[k]].data, pre |-> v.cell[s[k]].pre,
                        next |-> v.cell[s[k]].next]
    BY DEF Represents
  <2>3. u.cell[s[k]] = IF k = n THEN [v.cell[s[k]] EXCEPT !.next = a] ELSE v.cell[s[k]]
    BY <1>3, <2>1
  <2>4. [v.cell[s[k]] EXCEPT !.next = a] =
          [data |-> v.cell[s[k]].data, pre |-> v.cell[s[k]].pre, next |-> a]
    BY <2>2
  <2> QED
    BY <2>1, <2>2, <2>3, <2>4
<1>7. LinkedIn(u, v, s, n, a, d)
  <2>1. \E x : /\ u.cell[a] = [data |-> d, pre |-> IF n = 0 THEN NULL ELSE s[n], next |-> x]
               /\ n < v.size => x = s[n + 1]
    <3>1. u.cell[a] = [data |-> d, pre |-> IF n = 0 THEN NULL ELSE s[n], next |-> NULL]
      BY <1>3, <1>5
    <3>2. ~(n < v.size)
      BY <1>2
    <3> QED
      BY <3>1, <3>2
  <2> QED
    BY <1>3, <1>4, <1>6, <2>1 DEF LinkedIn
<1> QED
  BY <1>7 DEF u, a

(* A node in front of the one at index. *)
LEMMA InsertLinks ==
  ASSUME NEW v, NEW s, Represents(v, s), ~Exhausted(v), NEW d,
         NEW index \in 0 .. v.size - 1
  PROVE  LinkedIn(Insert(v, index, d), v, s, index, Malloc(v), d)
<1> DEFINE n == v.size
           a == Malloc(v)
           r == s[index + 1]
           l == v.cell[r].pre
           node == [data |-> d, pre |-> l, next |-> r]
           u == Insert(v, index, d)
<1>1. /\ n \in Nat /\ index \in Nat /\ index < n /\ ~(index >= n)
      /\ index + 1 \in 1 .. n /\ (index + 1 = 1 <=> index = 0) /\ (index + 1) - 1 = index
  BY DEF Represents
<1>2. Llget(v, index) = r
  BY <1>1, LlgetIs
<1>3. u = [v EXCEPT
             !.size = n + 1,
             !.head = IF index = 0 THEN a ELSE v.head,
             !.cell = [b \in DOMAIN v.cell \cup {a} |->
                        IF b = a THEN node
                        ELSE IF b = r THEN [v.cell[b] EXCEPT !.pre = a]
                        ELSE IF index > 0 /\ b = l
                          THEN [v.cell[b] EXCEPT !.next = a]
                          ELSE v.cell[b]]]
  BY <1>1, <1>2 DEF Insert
<1>4. a \notin DOMAIN v.cell /\ NULL \notin DOMAIN v.cell
  <2>1. NULL \notin Addr
    BY DEF NULL, Addr
  <2>2. DOMAIN v.cell \subseteq Addr
    BY DEF Represents
  <2>3. a \notin DOMAIN v.cell
    BY MallocFree
  <2> QED
    BY <2>1, <2>2, <2>3
<1>5. l = IF index = 0 THEN NULL ELSE s[index]
  <2>1. v.cell[s[index + 1]].pre = IF index + 1 = 1 THEN NULL ELSE s[(index + 1) - 1]
    BY <1>1 DEF Represents
  <2> QED
    BY <1>1, <2>1
<1>6. v = [size |-> v.size, head |-> v.head, tail |-> v.tail, cell |-> v.cell]
  BY DEF Represents
<1> HIDE DEF u, a, l
<1>7. /\ u = [size |-> n + 1, head |-> IF index = 0 THEN a ELSE v.head, tail |-> v.tail,
              cell |-> u.cell]
      /\ u.cell = [b \in DOMAIN v.cell \cup {a} |->
                     IF b = a THEN node
                     ELSE IF b = r THEN [v.cell[b] EXCEPT !.pre = a]
                     ELSE IF index > 0 /\ b = l
                       THEN [v.cell[b] EXCEPT !.next = a]
                       ELSE v.cell[b]]
  BY <1>3, <1>6
<1>8. /\ DOMAIN u.cell = DOMAIN v.cell \cup {a} /\ u.cell[a] = node
      /\ \A b \in DOMAIN v.cell :
           u.cell[b] = IF b = r THEN [v.cell[b] EXCEPT !.pre = a]
                       ELSE IF index > 0 /\ b = l THEN [v.cell[b] EXCEPT !.next = a]
                       ELSE v.cell[b]
  BY <1>4, <1>7
<1>9. ASSUME NEW k \in 1 .. n
      PROVE  u.cell[s[k]] = [data |-> v.cell[s[k]].data,
                             pre  |-> IF k = index + 1 THEN a ELSE v.cell[s[k]].pre,
                             next |-> IF k = index THEN a ELSE v.cell[s[k]].next]
  <2>1. /\ s[k] \in DOMAIN v.cell
        /\ \A j \in 1 .. n : s[k] = s[j] <=> k = j
    BY DEF Represents
  <2>2. s[k] = r <=> k = index + 1
    BY <1>1, <2>1
  <2>3. index > 0 /\ s[k] = l <=> k = index
    <3>1. index > 0 => index \in 1 .. n /\ index # 0
      BY <1>1
    <3>2. index > 0 => (s[k] = l <=> k = index)
      BY <1>5, <2>1, <3>1
    <3>3. k = index => index > 0
      BY <1>1
    <3> QED
      BY <3>2, <3>3
  <2>4. v.cell[s[k]] = [data |-> v.cell[s[k]].data, pre |-> v.cell[s[k]].pre,
                        next |-> v.cell[s[k]].next]
    BY DEF Represents
  <2>5. /\ [v.cell[s[k]] EXCEPT !.next = a] =
             [data |-> v.cell[s[k]].data, pre |-> v.cell[s[k]].pre, next |-> a]
        /\ [v.cell[s[k]] EXCEPT !.pre = a] =
             [data |-> v.cell[s[k]].data, pre |-> a, next |-> v.cell[s[k]].next]
    BY <2>4
  <2>6. index # index + 1
    BY <1>1
  <2>7. CASE k = index + 1
    BY <1>8, <2>1, <2>2, <2>5, <2>6, <2>7
  <2>8. CASE k = index
    BY <1>8, <2>1, <2>2, <2>3, <2>5, <2>6, <2>8
  <2>9. CASE k # index + 1 /\ k # index
    BY <1>8, <2>1, <2>2, <2>3, <2>4, <2>9
  <2> QED
    BY <2>7, <2>8, <2>9
<1>10. LinkedIn(u, v, s, index, a, d)
  <2>1. index # n
    BY <1>1
  <2>2. u.cell[a] = [data |-> d, pre |-> IF index = 0 THEN NULL ELSE s[index],
                     next |-> s[index + 1]]
    BY <1>5, <1>8
  <2> QED
    BY <1>7, <1>8, <1>9, <2>1, <2>2 DEF LinkedIn
<1> QED
  BY <1>10 DEF u, a

(* The nodes of v, apart from each other, *)
LEMMA NodesApart ==
  ASSUME NEW v, NEW s, Represents(v, s)
  PROVE  \A k \in 1 .. v.size :
           /\ s[k] \in DOMAIN v.cell
           /\ \A j \in 1 .. v.size : s[k] = s[j] <=> k = j
<1>1. \A k \in 1 .. v.size : s[k] \in DOMAIN v.cell
  BY DEF Represents
<1>2. \A k, j \in 1 .. v.size : s[k] = s[j] <=> k = j
  BY DEF Represents
<1> QED
  BY <1>1, <1>2

(* and what they consist of. *)
LEMMA NodeFields ==
  ASSUME NEW v, NEW s, Represents(v, s)
  PROVE  \A k \in 1 .. v.size :
           v.cell[s[k]] = [data |-> v.cell[s[k]].data, pre |-> v.cell[s[k]].pre,
                           next |-> v.cell[s[k]].next]
  BY DEF Represents

(* Their links. *)
LEMMA NodeLinks ==
  ASSUME NEW v, NEW s, Represents(v, s)
  PROVE  \A k \in 1 .. v.size :
           /\ v.cell[s[k]].pre = IF k = 1 THEN NULL ELSE s[k - 1]
           /\ k < v.size => v.cell[s[k]].next = s[k + 1]
  BY DEF Represents

(* The fields of v, when it has nodes. *)
LEMMA FieldsOf ==
  ASSUME NEW v, NEW s, Represents(v, s), v.size # 0
  PROVE  /\ v.size \in Nat
         /\ v = [size |-> v.size, head |-> v.head, tail |-> v.tail, cell |-> v.cell]
         /\ v.head = s[1] /\ v.tail = s[v.size]
BY DEF Represents

(* The head out, *)
LEMMA PopheadLinks ==
  ASSUME NEW v, NEW s, Represents(v, s), v.size >= 2
  PROVE  LinkedOut(Pophead(v), v, s, 0)
<1> DEFINE n == v.size
           u == Pophead(v)
<1>1. /\ n \in Nat /\ n # 0 /\ n # 1 /\ 1 \in 1 .. n /\ 2 \in 1 .. n /\ 1 < n
      /\ 0 + 1 = 1 /\ 0 + 2 = 2 /\ 1 + 1 = 2 /\ 0 # n - 1
  BY DEF Represents
<1>0. v = [size |-> v.size, head |-> v.head, tail |-> v.tail, cell |-> v.cell]
  BY <1>1, FieldsOf
<1>2. v.cell[v.head].next = s[2] /\ v.head = s[1]
  <2>1. v.head = s[1]
    BY <1>1, FieldsOf
  <2>2. v.cell[s[1]].next = s[1 + 1]
    BY <1>1, NodeLinks
  <2> QED
    BY <1>1, <2>1, <2>2
<1>3. u = [v EXCEPT !.size = n - 1, !.head = s[2],
                    !.cell = [Free(v.cell, s[1]) EXCEPT ![s[2]].pre = NULL]]
  BY <1>1, <1>2 DEF Pophead
<1>4. u = [size |-> n - 1, head |-> s[2], tail |-> v.tail, cell |-> u.cell]
      /\ u.cell = [Free(v.cell, s[1]) EXCEPT ![s[2]].pre = NULL]
  BY <1>0, <1>3
<1> HIDE DEF u
<1>5. DOMAIN u.cell = DOMAIN v.cell \ {s[1]}
  BY <1>4 DEF Free
<1>6. ASSUME NEW k \in (1 .. n) \ {1}
      PROVE  u.cell[s[k]] = [data |-> v.cell[s[k]].data,
                             pre |-> IF k = 2 THEN NULL ELSE v.cell[s[k]].pre,
                             next |-> v.cell[s[k]].next]
  <2>1. s[k] \in DOMAIN v.cell \ {s[1]} /\ (s[k] = s[2] <=> k = 2)
    <3>1. s[k] \in DOMAIN v.cell /\ \A j \in 1 .. n : s[k] = s[j] <=> k = j
      BY NodesApart
    <3> QED
      BY <1>1, <3>1
  <2>2. s[2] \in DOMAIN v.cell \ {s[1]}
    <3>1. s[2] \in DOMAIN v.cell /\ \A j \in 1 .. n : s[2] = s[j] <=> 2 = j
      BY <1>1, NodesApart
    <3> QED
      BY <1>1, <3>1
  <2>3. u.cell[s[k]] = IF k = 2 THEN [v.cell[s[k]] EXCEPT !.pre = NULL] ELSE v.cell[s[k]]
    BY <1>4, <2>1, <2>2 DEF Free
  <2>4. v.cell[s[k]] = [data |-> v.cell[s[k]].data, pre |-> v.cell[s[k]].pre,
                        next |-> v.cell[s[k]].next]
    BY NodeFields
  <2>5. [v.cell[s[k]] EXCEPT !.pre = NULL] =
          [data |-> v.cell[s[k]].data, pre |-> NULL, next |-> v.cell[s[k]].next]
    BY <2>4
  <2> QED
    BY <2>3, <2>4, <2>5
<1>7. LinkedOut(u, v, s, 0)
  <2>1. \A k \in 1 .. n : k # 0
    OBVIOUS
  <2> QED
    BY <1>1, <1>4, <1>5, <1>6, <2>1 DEF LinkedOut
<1> QED
  BY <1>7 DEF u

(* the tail, *)
LEMMA PopbackLinks ==
  ASSUME NEW v, NEW s, Represents(v, s), v.size >= 2
  PROVE  LinkedOut(Popback(v), v, s, v.size - 1)
<1> DEFINE n == v.size
           u == Popback(v)
<1>1. /\ n \in Nat /\ n # 0 /\ n # 1 /\ n \in 1 .. n /\ n - 1 \in 1 .. n
      /\ (n - 1) + 1 = n /\ n - 1 # 0 /\ ~((n - 1) + 2 <= n) /\ n - 1 < n
  BY DEF Represents
<1>0. v = [size |-> v.size, head |-> v.head, tail |-> v.tail, cell |-> v.cell]
  BY <1>1, FieldsOf
<1>2. v.cell[v.tail].pre = s[n - 1] /\ v.tail = s[n]
  <2>1. v.tail = s[n]
    BY <1>1, FieldsOf
  <2>2. v.cell[s[n]].pre = s[n - 1]
    BY <1>1, NodeLinks
  <2> QED
    BY <2>1, <2>2
<1>3. u = [v EXCEPT !.size = n - 1, !.tail = s[n - 1], !.cell = Free(v.cell, s[n])]
  BY <1>1, <1>2 DEF Popback
<1>4. u = [size |-> n - 1, head |-> v.head, tail |-> s[n - 1], cell |-> u.cell]
      /\ u.cell = Free(v.cell, s[n])
  BY <1>0, <1>3
<1> HIDE DEF u
<1>5. DOMAIN u.cell = DOMAIN v.cell \ {s[n]}
  BY <1>4 DEF Free
<1>6. ASSUME NEW k \in (1 .. n) \ {n}
      PROVE  u.cell[s[k]] = [data |-> v.cell[s[k]].data, pre |-> v.cell[s[k]].pre,
                             next |-> v.cell[s[k]].next]
  <2>1. s[k] \in DOMAIN v.cell \ {s[n]}
    <3>1. s[k] \in DOMAIN v.cell /\ \A j \in 1 .. n : s[k] = s[j] <=> k = j
      BY NodesApart
    <3> QED
      BY <1>1, <3>1
  <2>2. u.cell[s[k]] = v.cell[s[k]]
    BY <1>4, <2>1 DEF Free
  <2> QED
    BY <2>2, NodeFields
<1>7. LinkedOut(u, v, s, n - 1)
  <2>1. \A k \in 1 .. n : k # (n - 1) + 2
    BY <1>1
  <2> QED
    BY <1>1, <1>4, <1>5, <1>6, <2>1 DEF LinkedOut
<1> QED
  BY <1>7 DEF u

(* and any other node. *)
LEMMA EraseLinks ==
  ASSUME NEW v, NEW s, Represents(v, s), v.size >= 2, NEW index \in 0 .. v.size - 1
  PROVE  LinkedOut(Erase(v, index), v, s, index)
<1> DEFINE n == v.size
           u == Erase(v, index)
<1>1. n \in Nat /\ n # 0 /\ ~(index >= n) /\ index \in Nat /\ index < n
  BY DEF Represents
<1>2. CASE index = 0
  <2>1. u = Pophead(v)
    BY <1>1, <1>2 DEF Erase
  <2> QED
    BY <1>2, <2>1, PopheadLinks
<1>3. CASE index = n - 1 /\ index # 0
  <2>1. u = Popback(v)
    BY <1>1, <1>3 DEF Erase
  <2> QED
    BY <1>3, <2>1, PopbackLinks
<1>4. CASE index # 0 /\ index # n - 1
  <2> DEFINE a == s[index + 1]
             l == s[index]
             r == s[index + 2]
  <2>1. /\ index \in 1 .. n /\ index + 1 \in 1 .. n /\ index + 2 \in 1 .. n
        /\ (index + 1) - 1 = index /\ (index + 1) + 1 = index + 2 /\ index + 1 # 1
        /\ index + 1 < n /\ index # index + 1 /\ index + 2 # index + 1 /\ index # index + 2
        /\ index + 2 <= n
    BY <1>1, <1>4
  <2>2. Llget(v, index) = a
    BY <1>1, LlgetIs
  <2>3. v.cell[a].pre = l /\ v.cell[a].next = r
    <3>1. /\ v.cell[a].pre = IF index + 1 = 1 THEN NULL ELSE s[(index + 1) - 1]
          /\ index + 1 < n => v.cell[a].next = s[(index + 1) + 1]
      BY <2>1, NodeLinks
    <3> QED
      BY <2>1, <3>1
  <2>4. u = [v EXCEPT !.size = n - 1,
                      !.cell = [Free(v.cell, a) EXCEPT ![l].next = r, ![r].pre = l]]
    BY <1>1, <1>4, <2>2, <2>3 DEF Erase
  <2>5. u = [size |-> n - 1, head |-> v.head, tail |-> v.tail, cell |-> u.cell]
        /\ u.cell = [Free(v.cell, a) EXCEPT ![l].next = r, ![r].pre = l]
    <3>1. v = [size |-> v.size, head |-> v.head, tail |-> v.tail, cell |-> v.cell]
      BY <1>1, FieldsOf
    <3> HIDE DEF l, r, a
    <3> QED
      BY <2>4, <3>1
  <2> HIDE DEF u
  <2>6. DOMAIN u.cell = DOMAIN v.cell \ {a}
    BY <2>5 DEF Free
  <2>7. ASSUME NEW k \in (1 .. n) \ {index + 1}
        PROVE  u.cell[s[k]] = [data |-> v.cell[s[k]].data,
                               pre |-> IF k = index + 2 THEN l ELSE v.cell[s[k]].pre,
                               next |-> IF k = index THEN r ELSE v.cell[s[k]].next]
    <3>1. /\ s[k] \in DOMAIN v.cell \ {a}
          /\ (s[k] = l <=> k = index) /\ (s[k] = r <=> k = index + 2)
      <4>1. s[k] \in DOMAIN v.cell /\ \A j \in 1 .. n : s[k] = s[j] <=> k = j
        BY NodesApart
      <4> QED
        BY <2>1, <4>1
    <3>2. l \in DOMAIN v.cell \ {a} /\ r \in DOMAIN v.cell \ {a} /\ l # r
      <4>1. l \in DOMAIN v.cell /\ \A j \in 1 .. n : l = s[j] <=> index = j
        BY <2>1, NodesApart
      <4>2. r \in DOMAIN v.cell /\ \A j \in 1 .. n : r = s[j] <=> index + 2 = j
        BY <2>1, NodesApart
      <4> QED
        BY <2>1, <4>1, <4>2
    <3> DEFINE f == Free(v.cell, a)
               g == [f EXCEPT ![l].next = r]
               h == [g EXCEPT ![r].pre = l]
    <3>3. u.cell = h
      BY <2>5
    <3>4. f[s[k]] = v.cell[s[k]] /\ DOMAIN f = DOMAIN v.cell \ {a}
      BY <3>1 DEF Free
    <3> HIDE DEF f
    <3>5. /\ DOMAIN g = DOMAIN f
          /\ g[s[k]] = IF k = index THEN [f[s[k]] EXCEPT !.next = r] ELSE f[s[k]]
      BY <3>1, <3>2, <3>4
    <3> HIDE DEF g
    <3>6. h[s[k]] = IF k = index + 2 THEN [g[s[k]] EXCEPT !.pre = l] ELSE g[s[k]]
      BY <3>1, <3>2, <3>4, <3>5
    <3>7. v.cell[s[k]] = [data |-> v.cell[s[k]].data, pre |-> v.cell[s[k]].pre,
                          next |-> v.cell[s[k]].next]
      BY NodeFields
    <3>8. /\ [v.cell[s[k]] EXCEPT !.next = r] =
               [data |-> v.cell[s[k]].data, pre |-> v.cell[s[k]].pre, next |-> r]
          /\ [v.cell[s[k]] EXCEPT !.pre = l] =
               [data |-> v.cell[s[k]].data, pre |-> l, next |-> v.cell[s[k]].next]
      BY <3>7
    <3> HIDE DEF h
    <3>9. index # index + 2
      BY <2>1
    <3> QED
      BY <3>3, <3>4, <3>5, <3>6, <3>7, <3>8, <3>9
  <2>8. LinkedOut(u, v, s, index)
    BY <1>4, <2>1, <2>5, <2>6, <2>7 DEF LinkedOut
  <2> QED
    BY <2>8 DEF u
<1> QED
  BY <1>2, <1>3, <1>4

-----------------------------------------------------------------------------
(* The data. *)

(* x with d behind its first i, and x without the one behind them. *)
With(x, n, i, d) ==
  [j \in 1 .. n + 1 |-> IF j <= i THEN x[j] ELSE IF j = i + 1 THEN d ELSE x[j - 1]]

Without(x, n, i) == [j \in 1 .. n - 1 |-> IF j <= i THEN x[j] ELSE x[j + 1]]

Linked(v) == \E s : Represents(v, s)

(* An insertion leaves a vector, and puts the datum where it belongs; without
   a free node it leaves the vector as it is. *)
LEMMA InsertData ==
  ASSUME NEW v, Linked(v), NEW index \in 0 .. v.size, NEW d
  PROVE  /\ Linked(Insert(v, index, d))
         /\ Exhausted(v) => Insert(v, index, d) = v
         /\ ~Exhausted(v) =>
              /\ Insert(v, index, d).size = v.size + 1
              /\ Data(Insert(v, index, d)) = With(Data(v), v.size, index, d)
<1> DEFINE n == v.size
           u == Insert(v, index, d)
<1>1. PICK s : Represents(v, s)
  BY DEF Linked
<1>2. n \in Nat /\ index \in Nat /\ index <= n
  BY <1>1 DEF Represents
<1>3. CASE Exhausted(v)
  <2>1. u = v
    BY <1>2, <1>3 DEF Insert, Pushback
  <2> QED
    BY <1>3, <2>1
<1>4. CASE ~Exhausted(v)
  <2> DEFINE a == Malloc(v)
             q == PutIn(s, n, index, a)
  <2>1. LinkedIn(u, v, s, index, a, d)
    <3>1. CASE index = n
      <4>1. u = Pushback(v, d)
        BY <1>2, <3>1 DEF Insert
      <4> QED
        BY <1>1, <1>4, <3>1, <4>1, PushbackLinks
    <3>2. CASE index \in 0 .. n - 1
      BY <1>1, <1>4, <3>2, InsertLinks
    <3> QED
      BY <1>2, <3>1, <3>2
  <2>2. a \in Addr \ DOMAIN v.cell
    BY <1>1, <1>4, MallocFree
  <2> HIDE DEF a, u
  <2>3. Represents(u, q) /\ u.size = n + 1
    BY <1>1, <2>1, <2>2, LinkIn
  <2>4. /\ Data(v) = [j \in 1 .. n |-> v.cell[s[j]].data]
        /\ Data(u) = [j \in 1 .. n + 1 |-> u.cell[q[j]].data]
    BY <1>1, <2>3, DataIs
  <2>5. /\ u.cell[a].data = d
        /\ \A k \in 1 .. n : u.cell[s[k]].data = v.cell[s[k]].data
    <3>1. PICK x : u.cell[a] = [data |-> d, pre |-> IF index = 0 THEN NULL ELSE s[index],
                                next |-> x]
      BY <2>1 DEF LinkedIn
    <3>2. ASSUME NEW k \in 1 .. n PROVE u.cell[s[k]].data = v.cell[s[k]].data
      <4>1. u.cell[s[k]] = [data |-> v.cell[s[k]].data,
                            pre  |-> IF k = index + 1 THEN a ELSE v.cell[s[k]].pre,
                            next |-> IF k = index THEN a ELSE v.cell[s[k]].next]
        BY <2>1 DEF LinkedIn
      <4> QED
        BY <4>1
    <3> QED
      BY <3>1, <3>2
  <2>6. ASSUME NEW j \in 1 .. n + 1
        PROVE  u.cell[q[j]].data = IF j <= index THEN Data(v)[j]
                                   ELSE IF j = index + 1 THEN d ELSE Data(v)[j - 1]
    <3>1. q[j] = IF j <= index THEN s[j] ELSE IF j = index + 1 THEN a ELSE s[j - 1]
      BY DEF PutIn
    <3>2. CASE j <= index
      <4>1. j \in 1 .. n
        BY <1>2, <3>2
      <4> QED
        BY <2>4, <2>5, <3>1, <3>2, <4>1
    <3>3. CASE j = index + 1
      BY <1>2, <2>5, <3>1, <3>3
    <3>4. CASE ~(j <= index) /\ j # index + 1
      <4>1. j - 1 \in 1 .. n
        BY <1>2, <3>4
      <4> QED
        BY <2>4, <2>5, <3>1, <3>4, <4>1
    <3> QED
      BY <3>2, <3>3, <3>4
  <2> HIDE DEF q
  <2>7. Data(u) = With(Data(v), n, index, d)
    BY <2>4, <2>6 DEF With
  <2> QED
    BY <1>4, <2>3, <2>7 DEF Linked, u
<1> QED
  BY <1>3, <1>4

(* A removal leaves a vector without that datum. *)
LEMMA EraseData ==
  ASSUME NEW v, Linked(v), NEW index \in 0 .. v.size - 1
  PROVE  /\ Linked(Erase(v, index))
         /\ Erase(v, index).size = v.size - 1
         /\ Data(Erase(v, index)) = Without(Data(v), v.size, index)
<1> DEFINE n == v.size
           u == Erase(v, index)
<1>1. PICK s : Represents(v, s)
  BY DEF Linked
<1>2. n \in Nat /\ index \in Nat /\ index < n /\ n # 0
  BY <1>1 DEF Represents
<1>3. CASE n = 1
  <2>0. index = 0 /\ ~(index >= n)
    BY <1>2, <1>3
  <2>1. u = NewVector
    <3>1. Pophead(v) = NewVector
      BY <1>3 DEF Pophead
    <3>2. Popback(v) = NewVector
      BY <1>3 DEF Popback
    <3> HIDE DEF n
    <3>3. ~(0 >= v.size) /\ v.size - 1 = 0 /\ index = 0
      BY <1>3, <2>0 DEF n
    <3> QED
      BY <3>1, <3>2, <3>3, Zenon DEF Erase
  <2>2. Linked(u) /\ u.size = 0
    BY <2>1, NewRepresents DEF Linked, NewVector
  <2>3. Data(u) = Without(Data(v), n, index)
    BY <1>3, <2>1 DEF Data, Without, NewVector
  <2> QED
    BY <1>3, <2>2, <2>3
<1>4. CASE n >= 2
  <2> DEFINE q == CutOut(s, n, index)
  <2>1. LinkedOut(u, v, s, index)
    BY <1>1, <1>4, EraseLinks
  <2> HIDE DEF u
  <2>2. Represents(u, q) /\ u.size = n - 1
    BY <1>1, <1>4, <2>1, LinkOut
  <2>3. /\ Data(v) = [j \in 1 .. n |-> v.cell[s[j]].data]
        /\ Data(u) = [j \in 1 .. n - 1 |-> u.cell[q[j]].data]
    BY <1>1, <2>2, DataIs
  <2>4. \A k \in (1 .. n) \ {index + 1} : u.cell[s[k]].data = v.cell[s[k]].data
    <3>1. ASSUME NEW k \in (1 .. n) \ {index + 1}
          PROVE  u.cell[s[k]].data = v.cell[s[k]].data
      <4>1. u.cell[s[k]] =
              [data |-> v.cell[s[k]].data,
               pre  |-> IF k = index + 2 THEN IF index = 0 THEN NULL ELSE s[index]
                        ELSE v.cell[s[k]].pre,
               next |-> IF k = index /\ index + 2 <= n THEN s[index + 2]
                        ELSE v.cell[s[k]].next]
        BY <2>1 DEF LinkedOut
      <4> QED
        BY <4>1
    <3> QED
      BY <3>1
  <2>5. ASSUME NEW j \in 1 .. n - 1
        PROVE  u.cell[q[j]].data = IF j <= index THEN Data(v)[j] ELSE Data(v)[j + 1]
    <3>1. q[j] = IF j <= index THEN s[j] ELSE s[j + 1]
      BY DEF CutOut
    <3>2. CASE j <= index
      <4>1. j \in (1 .. n) \ {index + 1}
        BY <1>2, <3>2
      <4> QED
        BY <2>3, <2>4, <3>1, <3>2, <4>1
    <3>3. CASE ~(j <= index)
      <4>1. j + 1 \in (1 .. n) \ {index + 1}
        BY <1>2, <3>3
      <4> QED
        BY <2>3, <2>4, <3>1, <3>3, <4>1
    <3> QED
      BY <3>2, <3>3
  <2> HIDE DEF q
  <2>6. Data(u) = Without(Data(v), n, index)
    BY <2>3, <2>5 DEF Without
  <2> QED
    BY <2>2, <2>6 DEF Linked, u
<1> QED
  BY <1>2, <1>3, <1>4

(* The size of a linked vector is a number. *)
LEMMA LinkedSize == \A v : Linked(v) => v.size \in Nat
  BY DEF Linked, Represents

(* What a vector has: a size, as many data, and a first one at its head. *)
LEMMA LinkedData ==
  ASSUME NEW v, Linked(v)
  PROVE  /\ v.size \in Nat
         /\ DOMAIN Data(v) = 1 .. v.size
         /\ Data(v) \in Seq({Data(v)[i] : i \in 1 .. v.size})
         /\ Len(Data(v)) = v.size
         /\ v.size > 0 => v.cell[v.head].data = Data(v)[1]
<1>1. PICK s : Represents(v, s)
  BY DEF Linked
<1>2. v.size \in Nat
  BY <1>1 DEF Represents
<1>3. DOMAIN Data(v) = 1 .. v.size
  BY DEF Data
<1>4. Data(v) \in [1 .. v.size -> {Data(v)[i] : i \in 1 .. v.size}]
  BY DEF Data
<1>5. Data(v) \in Seq({Data(v)[i] : i \in 1 .. v.size})
  BY <1>2, <1>4, SeqDef
<1>6. Len(Data(v)) = v.size
  BY <1>2, <1>3, <1>5, LenProperties
<1>7. v.size > 0 => v.cell[v.head].data = Data(v)[1]
  <2>1. v.size > 0 => v.head = s[1] /\ 1 \in 1 .. v.size
    BY <1>1, <1>2 DEF Represents
  <2>2. Data(v) = [i \in 1 .. v.size |-> v.cell[s[i]].data]
    BY <1>1, DataIs
  <2> QED
    BY <2>1, <2>2
<1> QED
  BY <1>2, <1>3, <1>5, <1>6, <1>7

(* Popping the head is erasing the first datum. *)
LEMMA PopheadData ==
  ASSUME NEW v, Linked(v), v.size > 0
  PROVE  /\ Linked(Pophead(v))
         /\ Pophead(v).size = v.size - 1
         /\ Data(Pophead(v)) = Without(Data(v), v.size, 0)
<1>1. v.size \in Nat /\ 0 \in 0 .. v.size - 1
  BY LinkedSize
<1>2. Pophead(v) = Erase(v, 0)
  <2>1. CASE v.size = 1
    <3>1. Pophead(v) = NewVector /\ Popback(v) = NewVector
      BY <2>1 DEF Pophead, Popback
    <3>2. ~(0 >= v.size) /\ v.size - 1 = 0
      BY <2>1
    <3> QED
      BY <3>1, <3>2, Zenon DEF Erase
  <2>2. CASE v.size # 1
    <3>1. ~(0 >= v.size) /\ v.size - 1 # 0
      BY <1>1, <2>2
    <3> QED
      BY <3>1 DEF Erase
  <2> QED
    BY <2>1, <2>2
<1> QED
  BY <1>1, <1>2, EraseData

(* The first datum can be replaced in place. *)
LEMMA HeadData ==
  ASSUME NEW v, Linked(v), v.size > 0, NEW d
  PROVE  LET u == [v EXCEPT !.cell[v.head].data = d]
         IN  /\ Linked(u)
             /\ u.size = v.size
             /\ Exhausted(u) <=> Exhausted(v)
             /\ Data(u) = [Data(v) EXCEPT ![1] = d]
<1> DEFINE n == v.size
           u == [v EXCEPT !.cell[v.head].data = d]
<1>1. PICK s : Represents(v, s)
  BY DEF Linked
<1>2. n \in Nat /\ n # 0 /\ 1 \in 1 .. n
  BY <1>1 DEF Represents
<1>3. /\ v = [size |-> v.size, head |-> v.head, tail |-> v.tail, cell |-> v.cell]
      /\ v.head = s[1]
  BY <1>1, <1>2, FieldsOf
<1>4. /\ u = [size |-> n, head |-> v.head, tail |-> v.tail, cell |-> u.cell]
      /\ u.cell = [v.cell EXCEPT ![v.head].data = d]
  BY <1>3
<1> HIDE DEF u
<1>5. /\ DOMAIN u.cell = DOMAIN v.cell
      /\ u.size = n /\ u.head = v.head /\ u.tail = v.tail
  BY <1>4
<1>6. ASSUME NEW k \in 1 .. n
      PROVE  u.cell[s[k]] = [data |-> IF k = 1 THEN d ELSE v.cell[s[k]].data,
                             pre |-> v.cell[s[k]].pre, next |-> v.cell[s[k]].next]
  <2>1. s[k] \in DOMAIN v.cell /\ (s[k] = s[1] <=> k = 1)
    BY <1>1, <1>2, NodesApart
  <2>2. v.cell[s[k]] = [data |-> v.cell[s[k]].data, pre |-> v.cell[s[k]].pre,
                        next |-> v.cell[s[k]].next]
    BY <1>1, NodeFields
  <2>3. u.cell[s[k]] = IF k = 1 THEN [v.cell[s[k]] EXCEPT !.data = d] ELSE v.cell[s[k]]
    BY <1>3, <1>4, <2>1
  <2>4. [v.cell[s[k]] EXCEPT !.data = d] =
          [data |-> d, pre |-> v.cell[s[k]].pre, next |-> v.cell[s[k]].next]
    BY <2>2
  <2> QED
    BY <2>2, <2>3, <2>4
<1>7. ASSUME NEW k \in 1 .. n
      PROVE  /\ u.cell[s[k]] = [data |-> u.cell[s[k]].data, pre |-> u.cell[s[k]].pre,
                                next |-> u.cell[s[k]].next]
             /\ u.cell[s[k]].data = IF k = 1 THEN d ELSE v.cell[s[k]].data
             /\ u.cell[s[k]].pre = v.cell[s[k]].pre
             /\ u.cell[s[k]].next = v.cell[s[k]].next
  <2> DEFINE b == IF k = 1 THEN d ELSE v.cell[s[k]].data
  <2>1. u.cell[s[k]] = [data |-> b, pre |-> v.cell[s[k]].pre, next |-> v.cell[s[k]].next]
    BY <1>6
  <2> HIDE DEF b
  <2>2. /\ u.cell[s[k]].data = b
        /\ u.cell[s[k]].pre = v.cell[s[k]].pre
        /\ u.cell[s[k]].next = v.cell[s[k]].next
    BY <2>1
  <2>3. u.cell[s[k]] = [data |-> u.cell[s[k]].data, pre |-> u.cell[s[k]].pre,
                        next |-> u.cell[s[k]].next]
    BY <2>1, <2>2
  <2> QED
    BY <2>2, <2>3 DEF b
<1>8. Represents(u, s)
  <2>1. /\ s \in [1 .. n -> Addr]
        /\ \A i, j \in 1 .. n : s[i] = s[j] => i = j
        /\ DOMAIN u.cell = {s[i] : i \in 1 .. n}
        /\ u.head = s[1] /\ u.tail = s[n]
    BY <1>1, <1>2, <1>5 DEF Represents
  <2>2. \A k \in 1 .. n :
          /\ u.cell[s[k]] = [data |-> u.cell[s[k]].data, pre |-> u.cell[s[k]].pre,
                             next |-> u.cell[s[k]].next]
          /\ u.cell[s[k]].pre = IF k = 1 THEN NULL ELSE s[k - 1]
          /\ k < n => u.cell[s[k]].next = s[k + 1]
    BY <1>1, <1>7, NodeLinks
  <2>3. u = [size |-> u.size, head |-> u.head, tail |-> u.tail, cell |-> u.cell]
    BY <1>4, <1>5
  <2> QED
    BY <1>2, <1>5, <2>1, <2>2, <2>3 DEF Represents
<1>9. Data(u) = [Data(v) EXCEPT ![1] = d]
  <2>1. /\ Data(v) = [i \in 1 .. n |-> v.cell[s[i]].data]
        /\ Data(u) = [i \in 1 .. n |-> u.cell[s[i]].data]
    BY <1>1, <1>5, <1>8, DataIs
  <2>2. \A i \in 1 .. n : Data(u)[i] = IF i = 1 THEN d ELSE Data(v)[i]
    <3>1. ASSUME NEW i \in 1 .. n PROVE Data(u)[i] = IF i = 1 THEN d ELSE Data(v)[i]
      <4>1. u.cell[s[i]].data = IF i = 1 THEN d ELSE v.cell[s[i]].data
        BY <1>7
      <4>2. Data(u)[i] = u.cell[s[i]].data /\ Data(v)[i] = v.cell[s[i]].data
        BY <2>1
      <4> QED
        BY <4>1, <4>2
    <3> QED
      BY <3>1
  <2>3. /\ Data(u) = [i \in 1 .. n |-> Data(u)[i]]
        /\ Data(v) = [i \in 1 .. n |-> Data(v)[i]]
    BY <2>1
  <2> HIDE DEF n
  <2> QED
    BY <1>2, <2>2, <2>3
<1>10. Linked(u) /\ u.size = v.size /\ (Exhausted(u) <=> Exhausted(v))
  BY <1>5, <1>8 DEF Linked, Exhausted
<1> QED
  BY <1>9, <1>10 DEF u

-----------------------------------------------------------------------------
(* InsertAt of SequencesExt is With, which counts from 0 as cvector.c does. *)
LEMMA WithIsInsertAt ==
  ASSUME NEW S, NEW x \in Seq(S), NEW e \in S, NEW i \in 0 .. Len(x)
  PROVE  InsertAt(x, i + 1, e) = With(x, Len(x), i, e)
<1> DEFINE n == Len(x)
           l == SubSeq(x, 1, (i + 1) - 1)
           r == SubSeq(x, i + 1, n)
           y == l \o <<e>>
           w == With(x, n, i, e)
<1>1. n \in Nat /\ i \in Nat /\ i <= n /\ (i + 1) - 1 = i /\ x \in [1 .. n -> S]
  BY LenProperties
<1>2. /\ l \in Seq(S) /\ Len(l) = i
      /\ \A k \in 1 .. i : l[k] = x[k]
  <2>1. \A k \in 1 .. i : x[k] \in S
    BY <1>1
  <2>2. /\ SubSeq(x, 1, i) \in Seq(S)
        /\ Len(SubSeq(x, 1, i)) = IF 1 <= i THEN i - 1 + 1 ELSE 0
        /\ \A k \in 1 .. i - 1 + 1 : SubSeq(x, 1, i)[k] = x[1 + k - 1]
    BY <1>1, <2>1, SubSeqProperties
  <2>3. l = SubSeq(x, 1, i)
    BY <1>1
  <2> HIDE DEF l
  <2> QED
    BY <1>1, <2>2, <2>3
<1>3. /\ r \in Seq(S) /\ Len(r) = n - i
      /\ \A k \in 1 .. n - i : r[k] = x[i + k]
  <2>1. \A k \in i + 1 .. n : x[k] \in S
    BY <1>1
  <2>2. /\ r \in Seq(S)
        /\ Len(r) = IF i + 1 <= n THEN n - (i + 1) + 1 ELSE 0
        /\ \A k \in 1 .. n - (i + 1) + 1 : r[k] = x[i + 1 + k - 1]
    BY <1>1, <2>1, SubSeqProperties
  <2> HIDE DEF r
  <2>3. ASSUME NEW k \in 1 .. n - i PROVE r[k] = x[i + k]
    <3>1. k \in 1 .. n - (i + 1) + 1 /\ i + 1 + k - 1 = i + k
      BY <1>1
    <3> QED
      BY <2>2, <3>1
  <2>4. Len(r) = n - i
    <3>1. Len(r) = IF i + 1 <= n THEN n - (i + 1) + 1 ELSE 0
      BY <2>2
    <3>2. i + 1 <= n => n - (i + 1) + 1 = n - i
      BY <1>1
    <3>3. ~(i + 1 <= n) => 0 = n - i
      <4>1. n \in Nat /\ i \in Nat /\ i <= n
        BY <1>1
      <4> HIDE DEF n
      <4>2. ~(i + 1 <= n) => i = n
        BY <4>1
      <4>3. n - n = 0
        BY <4>1
      <4> QED
        BY <4>2, <4>3
    <3> QED
      BY <3>1, <3>2, <3>3
  <2> QED
    BY <2>2, <2>3, <2>4
<1>4. <<e>> \in Seq(S) /\ Len(<<e>>) = 1 /\ <<e>>[1] = e
  OBVIOUS
<1> HIDE DEF l, r
<1>5. /\ y \in Seq(S) /\ Len(y) = i + 1
      /\ \A k \in 1 .. i + 1 : y[k] = IF k <= i THEN x[k] ELSE e
  <2>1. /\ y \in Seq(S) /\ Len(y) = Len(l) + Len(<<e>>)
        /\ \A k \in 1 .. Len(l) + Len(<<e>>) :
             y[k] = IF k <= Len(l) THEN l[k] ELSE <<e>>[k - Len(l)]
    BY <1>2, <1>4, ConcatProperties
  <2> HIDE DEF y
  <2> QED
    BY <1>1, <1>2, <1>4, <2>1
<1> HIDE DEF y
<1>6. /\ y \o r \in Seq(S) /\ Len(y \o r) = n + 1
      /\ \A k \in 1 .. n + 1 :
           (y \o r)[k] = IF k <= i + 1 THEN y[k] ELSE r[k - (i + 1)]
  <2>1. /\ y \o r \in Seq(S) /\ Len(y \o r) = Len(y) + Len(r)
        /\ \A k \in 1 .. Len(y) + Len(r) :
             (y \o r)[k] = IF k <= Len(y) THEN y[k] ELSE r[k - Len(y)]
    BY <1>3, <1>5, ConcatProperties
  <2> QED
    BY <1>1, <1>3, <1>5, <2>1
<1>7. ASSUME NEW k \in 1 .. n + 1
      PROVE  (y \o r)[k] = IF k <= i THEN x[k] ELSE IF k = i + 1 THEN e ELSE x[k - 1]
  <2>1. (y \o r)[k] = IF k <= i + 1 THEN y[k] ELSE r[k - (i + 1)]
    BY <1>6
  <2>2. CASE k <= i + 1
    <3>1. k \in 1 .. i + 1 /\ (~(k <= i) => k = i + 1)
      BY <1>1, <2>2
    <3> QED
      BY <1>5, <2>1, <2>2, <3>1
  <2>3. CASE ~(k <= i + 1)
    <3>1. k - (i + 1) \in 1 .. n - i /\ i + (k - (i + 1)) = k - 1
          /\ ~(k <= i) /\ k # i + 1
      BY <1>1, <2>3
    <3> QED
      BY <1>3, <2>1, <2>3, <3>1
  <2> QED
    BY <2>2, <2>3
<1>8. y \o r = w
  <2>1. y \o r = [k \in 1 .. n + 1 |-> (y \o r)[k]]
    BY <1>6, LenProperties
  <2> QED
    BY <1>7, <2>1 DEF With
<1> QED
  BY <1>8 DEF InsertAt, y, l, r

(* RemoveAt of SequencesExt is Without. *)
LEMMA WithoutIsRemoveAt ==
  ASSUME NEW S, NEW x \in Seq(S), NEW i \in 0 .. Len(x) - 1
  PROVE  RemoveAt(x, i + 1) = Without(x, Len(x), i)
<1> DEFINE n == Len(x)
           l == SubSeq(x, 1, (i + 1) - 1)
           r == SubSeq(x, (i + 1) + 1, n)
           w == Without(x, n, i)
<1>1. /\ n \in Nat /\ i \in Nat /\ i <= n - 1 /\ (i + 1) - 1 = i /\ (i + 1) + 1 = i + 2
      /\ x \in [1 .. n -> S]
  BY LenProperties
<1>2. /\ l \in Seq(S) /\ Len(l) = i
      /\ \A k \in 1 .. i : l[k] = x[k]
  <2>1. \A k \in 1 .. i : x[k] \in S
    BY <1>1
  <2>2. /\ SubSeq(x, 1, i) \in Seq(S)
        /\ Len(SubSeq(x, 1, i)) = IF 1 <= i THEN i - 1 + 1 ELSE 0
        /\ \A k \in 1 .. i - 1 + 1 : SubSeq(x, 1, i)[k] = x[1 + k - 1]
    BY <1>1, <2>1, SubSeqProperties
  <2>3. l = SubSeq(x, 1, i)
    BY <1>1
  <2> HIDE DEF l
  <2> QED
    BY <1>1, <2>2, <2>3
<1>3. /\ r \in Seq(S) /\ Len(r) = n - 1 - i
      /\ \A k \in 1 .. n - 1 - i : r[k] = x[i + 1 + k]
  <2>1. \A k \in i + 2 .. n : x[k] \in S
    BY <1>1
  <2>2. /\ SubSeq(x, i + 2, n) \in Seq(S)
        /\ Len(SubSeq(x, i + 2, n)) = IF i + 2 <= n THEN n - (i + 2) + 1 ELSE 0
        /\ \A k \in 1 .. n - (i + 2) + 1 : SubSeq(x, i + 2, n)[k] = x[i + 2 + k - 1]
    BY <1>1, <2>1, SubSeqProperties
  <2>3. r = SubSeq(x, i + 2, n)
    BY <1>1
  <2> HIDE DEF r
  <2>4. ASSUME NEW k \in 1 .. n - 1 - i PROVE r[k] = x[i + 1 + k]
    <3>1. k \in 1 .. n - (i + 2) + 1 /\ i + 2 + k - 1 = i + 1 + k
      BY <1>1
    <3> QED
      BY <2>2, <2>3, <3>1
  <2>5. Len(r) = n - 1 - i
    <3>1. Len(r) = IF i + 2 <= n THEN n - (i + 2) + 1 ELSE 0
      BY <2>2, <2>3
    <3>2. i + 2 <= n => n - (i + 2) + 1 = n - 1 - i
      BY <1>1
    <3>3. ~(i + 2 <= n) => 0 = n - 1 - i
      <4>1. n \in Nat /\ i \in Nat /\ i <= n - 1
        BY <1>1
      <4> HIDE DEF n
      <4>2. ~(i + 2 <= n) => i = n - 1
        BY <4>1
      <4>3. n - 1 - (n - 1) = 0
        BY <4>1
      <4> QED
        BY <4>2, <4>3
    <3> QED
      BY <3>1, <3>2, <3>3
  <2> QED
    BY <2>2, <2>3, <2>4, <2>5
<1> HIDE DEF l, r
<1>6. /\ l \o r \in Seq(S) /\ Len(l \o r) = n - 1
      /\ \A k \in 1 .. n - 1 : (l \o r)[k] = IF k <= i THEN l[k] ELSE r[k - i]
  <2>1. /\ l \o r \in Seq(S) /\ Len(l \o r) = Len(l) + Len(r)
        /\ \A k \in 1 .. Len(l) + Len(r) :
             (l \o r)[k] = IF k <= Len(l) THEN l[k] ELSE r[k - Len(l)]
    BY <1>2, <1>3, ConcatProperties
  <2> QED
    BY <1>1, <1>2, <1>3, <2>1
<1>7. \A k \in 1 .. n - 1 : (l \o r)[k] = IF k <= i THEN x[k] ELSE x[k + 1]
  BY <1>1, <1>2, <1>3, <1>6
<1>8. l \o r = w
  <2>1. l \o r = [k \in 1 .. n - 1 |-> (l \o r)[k]]
    BY <1>6, LenProperties
  <2> QED
    BY <1>7, <2>1 DEF Without
<1> QED
  BY <1>8 DEF RemoveAt, l, r

(* A linked vector passes the walk of WellLinked. *)
LEMMA LinkedIsWell == \A v : Linked(v) => WellLinked(v)
  BY RepresentsLinked DEF Linked

(* A vector is full when it has Cells nodes. *)
LEMMA FullIs ==
  ASSUME NEW v, Linked(v)
  PROVE  v.size <= Cells /\ (Exhausted(v) <=> v.size = Cells)
<1> DEFINE n == v.size
<1>1. PICK s : Represents(v, s)
  BY DEF Linked
<1>2. /\ n \in Nat /\ s \in [1 .. n -> Addr]
      /\ \A i, j \in 1 .. n : s[i] = s[j] => i = j
      /\ DOMAIN v.cell = {s[i] : i \in 1 .. n}
  BY <1>1 DEF Represents
<1>3. s \in Injection(1 .. n, Addr)
  BY <1>2 DEF Injection, IsInjective
<1>4. s \in Surjection(1 .. n, Addr) <=> DOMAIN v.cell = Addr
  BY <1>2 DEF Surjection
<1>5. /\ IsFiniteSet(Addr) /\ Cardinality(Addr) = Cells
      /\ Cardinality(1 .. n) = n
  <2>1. 1 \in Int /\ Cells \in Int /\ Cells \in Nat /\ n \in Int
    BY <1>2, CvectorAssumption
  <2>2. /\ IsFiniteSet(1 .. Cells)
        /\ Cardinality(1 .. Cells) = IF 1 > Cells THEN 0 ELSE Cells - 1 + 1
    BY <2>1, FS_Interval
  <2>3. Cardinality(1 .. n) = IF 1 > n THEN 0 ELSE n - 1 + 1
    BY <2>1, FS_Interval
  <2>4. Cardinality(1 .. n) = n
    BY <1>2, <2>3
  <2>5. Cardinality(1 .. Cells) = Cells
    BY <2>1, <2>2
  <2> QED
    BY <2>2, <2>4, <2>5 DEF Addr
<1>6. /\ Cardinality(1 .. n) <= Cardinality(Addr)
      /\ Cardinality(1 .. n) = Cardinality(Addr) <=> s \in Surjection(1 .. n, Addr)
  BY <1>3, <1>5, FS_Injection
<1> QED
  BY <1>4, <1>5, <1>6 DEF Exhausted

(* An insertion does to the data what it does to a sequence, *)
LEMMA InsertIsInsertAt ==
  ASSUME NEW v, Linked(v), NEW i \in 0 .. v.size, NEW d
  PROVE  /\ Linked(Insert(v, i, d))
         /\ Data(Insert(v, i, d)) = IF Exhausted(v) THEN Data(v)
                                    ELSE InsertAt(Data(v), i + 1, d)
<1> DEFINE D == {Data(v)[j] : j \in 1 .. v.size}
           S == D \cup {d}
<1>1. v.size \in Nat /\ Data(v) \in Seq(D) /\ Len(Data(v)) = v.size
  BY LinkedData
<1> HIDE DEF D
<1>2. D \subseteq S /\ d \in S
  OBVIOUS
<1> HIDE DEF S
<1>3. Data(v) \in Seq(S)
  BY <1>1, <1>2, SeqMonotonic
<1>4. i \in 0 .. Len(Data(v))
  BY <1>1
<1>5. InsertAt(Data(v), i + 1, d) = With(Data(v), Len(Data(v)), i, d)
  BY <1>2, <1>3, <1>4, WithIsInsertAt
<1>6. InsertAt(Data(v), i + 1, d) = With(Data(v), v.size, i, d)
  BY <1>1, <1>5
<1>7. Linked(Insert(v, i, d))
  BY InsertData
<1>8. CASE Exhausted(v)
  <2>1. Insert(v, i, d) = v
    BY <1>8, InsertData
  <2> QED
    BY <1>7, <1>8, <2>1
<1>9. CASE ~Exhausted(v)
  <2>1. Data(Insert(v, i, d)) = With(Data(v), v.size, i, d)
    BY <1>9, InsertData
  <2> QED
    BY <1>6, <1>7, <1>9, <2>1
<1> QED
  BY <1>8, <1>9

(* and so does a removal. *)
LEMMA EraseIsRemoveAt ==
  ASSUME NEW v, Linked(v), NEW i \in 0 .. v.size - 1
  PROVE  Linked(Erase(v, i)) /\ Data(Erase(v, i)) = RemoveAt(Data(v), i + 1)
<1> DEFINE D == {Data(v)[j] : j \in 1 .. v.size}
<1>1. v.size \in Nat /\ Data(v) \in Seq(D) /\ Len(Data(v)) = v.size
  BY LinkedData
<1> HIDE DEF D
<1>2. i \in 0 .. Len(Data(v)) - 1
  BY <1>1
<1>3. RemoveAt(Data(v), i + 1) = Without(Data(v), Len(Data(v)), i)
  BY <1>1, <1>2, WithoutIsRemoveAt
<1>4. Linked(Erase(v, i)) /\ Data(Erase(v, i)) = Without(Data(v), v.size, i)
  BY EraseData
<1> QED
  BY <1>1, <1>3, <1>4

(* Behind the last node there is nothing to remove. *)
LEMMA EraseBehind ==
  ASSUME NEW v, Linked(v)
  PROVE  Erase(v, v.size) = v
<1>1. CASE v.size = 0
  <2>1. Pophead(v) = v /\ Popback(v) = v
    BY <1>1 DEF Pophead, Popback
  <2> QED
    BY <1>1, <2>1, Zenon DEF Erase
<1>2. CASE v.size # 0
  <2>1. v.size \in Nat /\ v.size >= v.size /\ v.size # v.size - 1
    BY LinkedSize
  <2> QED
    BY <1>2, <2>1 DEF Erase
<1> QED
  BY <1>1, <1>2

-----------------------------------------------------------------------------
(* Whoever is in a critical section, in a call or in the handler, has the
   lock: it is never left or taken over from outside. *)
Exclusive == /\ \A t \in Thread : pc[t] \in Holding => lock = <<t, "call">>
             /\ \A t \in Thread : alarm[t] \in Handling => lock = <<t, "alarm">>

(* An event on its way into the queue has a time. *)
Timed == \A t \in Thread : pc[t] \in Adding => arg[t].out \in Nat

IInv == /\ now \in Nat
        /\ pc \in [Thread -> Holding \cup
                    {"idle", "checking", "lockToAdd", "lockToRemove"}]
        /\ alarm \in [Thread -> Handling \cup {"none", "lock"}]
        /\ DOMAIN arg = Thread
        /\ Exclusive
        /\ Timed

(* The initial state satisfies the invariant. *)
LEMMA InitIInv == Init => IInv
BY DEF Init, IInv, Exclusive, Timed, Holding, Handling, Adding

(* Every step of a call keeps the invariant. *)
LEMMA CallKeeps ==
  ASSUME IInv, NEW t \in Thread,
         BeginAdd(t) \/ BeginRemove(t) \/ CallStep(t)
  PROVE  IInv'
<1> USE TimerAssumption DEF Holding, Handling, Adding
<1>1. CASE BeginAdd(t)
  <2>1. PICK k \in Kind : arg' = [arg EXCEPT ![t] = EventOf(k, now + k.delay)]
    BY <1>1 DEF BeginAdd
  <2>2. arg'[t].out \in Nat
    BY <2>1 DEF IInv, EventOf
  <2> QED BY <1>1, <2>1, <2>2
          DEF BeginAdd, IInv, Exclusive, Timed, At, Goto
<1>2. CASE BeginRemove(t)
  BY <1>2 DEF BeginRemove, IInv, Exclusive, Timed, At, Goto
<1>3. CASE SeeNotChecking(t)
  BY <1>3 DEF SeeNotChecking, IInv, Exclusive, Timed, At, Goto
<1>4. CASE Acquire(t)
  BY <1>4 DEF Acquire, IInv, Exclusive, Timed, At, Goto
<1>5. CASE InsertEvent(t)
  BY <1>5 DEF InsertEvent, IInv, Exclusive, Timed, At, Goto
<1>6. CASE StartFromCall(t)
  BY <1>6 DEF StartFromCall, IInv, Exclusive, Timed, At, Goto
<1>7. CASE EraseEvent(t)
  BY <1>7 DEF EraseEvent, IInv, Exclusive, Timed, At, Goto
<1>8. CASE ReleaseCall(t)
  BY <1>8 DEF ReleaseCall, IInv, Exclusive, Timed, At, Goto
<1> QED BY <1>1, <1>2, <1>3, <1>4, <1>5, <1>6, <1>7, <1>8 DEF CallStep

(* Every step of the handler keeps the invariant. *)
LEMMA AlarmKeeps ==
  ASSUME IInv, NEW t \in Thread, Deliver(t) \/ AlarmStep(t)
  PROVE  IInv'
<1> USE DEF Holding, Handling, Adding
<1>1. CASE Deliver(t)
  BY <1>1 DEF Deliver, AlarmTo, IInv, Exclusive, Timed
<1>2. CASE AlarmLock(t)
  BY <1>2, TimerAssumption DEF AlarmLock, AlarmTo, IInv, Exclusive, Timed
<1>3. CASE AlarmFire(t)
  BY <1>3 DEF AlarmFire, AlarmTo, IInv, Exclusive, Timed
<1>4. CASE AlarmLeaveLoop(t)
  BY <1>4 DEF AlarmLeaveLoop, AlarmTo, IInv, Exclusive, Timed
<1>5. CASE AlarmArm(t)
  BY <1>5 DEF AlarmArm, AlarmTo, IInv, Exclusive, Timed
<1>6. CASE AlarmRelease(t)
  BY <1>6 DEF AlarmRelease, AlarmTo, IInv, Exclusive, Timed
<1> QED BY <1>1, <1>2, <1>3, <1>4, <1>5, <1>6 DEF AlarmStep

(* So does every step. *)
LEMMA NextKeeps == IInv /\ [Next]_vars => IInv'
<1> SUFFICES ASSUME IInv, [Next]_vars PROVE IInv'
  OBVIOUS
<1>1. CASE Tick
  BY <1>1 DEF Tick, IInv, Exclusive, Timed
<1>2. CASE Expire
  BY <1>2 DEF Expire, IInv, Exclusive, Timed
<1>3. CASE UNCHANGED vars
  BY <1>3 DEF vars, IInv, Exclusive, Timed
<1> QED BY <1>1, <1>2, <1>3, CallKeeps, AlarmKeeps DEF Next

(* Calls, handlers and their nesting exclude each other by the lock, for any
   number of threads (timer_queue.c: lock). *)
THEOREM Invariant == Spec => []IInv
<1>1. Init => IInv
  BY InitIInv
<1>2. IInv /\ [Next]_vars => IInv'
  BY NextKeeps
<1> QED BY <1>1, <1>2, PTL DEF Spec

-----------------------------------------------------------------------------
(* A call can add to a stopped queue or remove from it, but not set its
   timer. *)
LEMMA CallLeavesStopped ==
  ASSUME IInv, Stopped, NEW t \in Thread,
         BeginAdd(t) \/ BeginRemove(t) \/ CallStep(t)
  PROVE  Stopped'
<1> USE DEF Stopped, HandlerUnderWay, Adding
<1>1. CASE BeginAdd(t)
  <2>1. PICK k \in Kind : arg' = [arg EXCEPT ![t] = EventOf(k, now + k.delay)]
    BY <1>1 DEF BeginAdd
  <2>2. arg'[t].out = now + k.delay /\ k.delay \in Nat
    BY <2>1, TimerAssumption DEF IInv, EventOf
  <2>3. arg'[t].out >= next_outtime
    BY <2>2 DEF IInv
  <2> QED BY <1>1, <2>1, <2>3 DEF BeginAdd, IInv, At, Goto, queueVars
<1>2. CASE BeginRemove(t)
  BY <1>2 DEF BeginRemove, IInv, At, Goto, queueVars
<1>3. CASE SeeNotChecking(t)
  BY <1>3 DEF SeeNotChecking, IInv, At, Goto, queueVars
<1>4. CASE Acquire(t)
  BY <1>4 DEF Acquire, IInv, At, Goto, queueVars
<1>5. CASE InsertEvent(t)
  <2>1. ~ CutsIn(arg[t])
    BY <1>5 DEF InsertEvent, CutsIn, At, IInv, Timed
  <2> QED BY <1>5, <2>1 DEF InsertEvent, IInv, At, Goto
<1>6. CASE StartFromCall(t)
  BY <1>6 DEF StartFromCall, At
<1>7. CASE EraseEvent(t)
  BY <1>7 DEF EraseEvent, IInv, At, Goto
<1>8. CASE ReleaseCall(t)
  BY <1>8 DEF ReleaseCall, IInv, At, Goto, queueVars
<1> QED BY <1>1, <1>2, <1>3, <1>4, <1>5, <1>6, <1>7, <1>8 DEF CallStep

(* A stopped queue has no handler, no signal and no timer to bring one. *)
LEMMA StoppedStays ==
  ASSUME IInv, Stopped, [Next]_vars
  PROVE  Stopped'
<1>1. CASE Tick
  BY <1>1 DEF Tick, Stopped, HandlerUnderWay, IInv, queueVars
<1>2. CASE Expire
  BY <1>2, TimerAssumption DEF Expire, Stopped
<1>3. CASE \E t \in Thread : Deliver(t) \/ AlarmStep(t)
  BY <1>3 DEF Deliver, AlarmStep, AlarmLock, AlarmFire, AlarmLeaveLoop,
              AlarmArm, AlarmRelease, AlarmTo, Stopped, HandlerUnderWay
<1>4. CASE UNCHANGED vars
  BY <1>4 DEF vars, queueVars, Stopped, HandlerUnderWay
<1> QED BY <1>1, <1>2, <1>3, <1>4, CallLeavesStopped DEF Next

(* Under a waiting handler the call cannot go on to its unlock, and no other
   thread is in a critical section that it could unlock. *)
LEMMA LockedOutStays ==
  ASSUME IInv, NEW t \in Thread, SelfLocked(t), [Next]_vars
  PROVE  SelfLocked(t)'
<1> USE DEF SelfLocked
<1>1. lock # Unlocked
  BY TimerAssumption
<1>2. ASSUME NEW u \in Thread, BeginAdd(u) \/ BeginRemove(u) \/ CallStep(u)
      PROVE  SelfLocked(t)'
  <2>1. pc[u] = "unlock" => u = t
    BY DEF IInv, Exclusive, Holding
  <2>2. ~ Acquire(u) /\ ~ ReleaseCall(u)
    BY <1>1, <2>1 DEF Acquire, ReleaseCall, At
  <2> QED BY <1>2, <2>2 DEF BeginAdd, BeginRemove, CallStep, SeeNotChecking,
                            InsertEvent, StartFromCall, EraseEvent
<1>3. ASSUME NEW u \in Thread, Deliver(u) \/ AlarmStep(u)
      PROVE  SelfLocked(t)'
  <2>1. alarm[u] \notin Handling
    BY DEF IInv, Exclusive
  <2>2. Deliver(u)
    BY <1>1, <1>3, <2>1
       DEF AlarmStep, AlarmLock, AlarmFire, AlarmLeaveLoop, AlarmArm,
           AlarmRelease, AlarmTo, Handling
  <2> QED BY <2>2 DEF Deliver, AlarmTo, IInv
<1>4. CASE Tick \/ Expire \/ UNCHANGED vars
  BY <1>4 DEF Tick, Expire, vars
<1> QED BY <1>2, <1>3, <1>4 DEF Next

-----------------------------------------------------------------------------
(* What the queue holds. *)

(* A new event's place is in the queue or at its end. *)
LEMMA PlaceIn ==
  ASSUME NEW v, v.size \in Nat, NEW e
  PROVE  /\ Place(v, e) \in 0 .. v.size
         /\ \A i \in 0 .. v.size - 1 : e.out < Data(v)[i + 1].out =>
              /\ Place(v, e) <= i
              /\ e.out < Data(v)[Place(v, e) + 1].out
         /\ Place(v, e) = v.size \/ e.out < Data(v)[Place(v, e) + 1].out
<1> DEFINE L == {i \in 0 .. v.size - 1 : e.out < Data(v)[i + 1].out}
           p == Place(v, e)
<1>1. p = IF L = {} THEN v.size ELSE CHOOSE i \in L : \A j \in L : i <= j
  BY DEF Place
<1>2. CASE L = {}
  BY <1>1, <1>2
<1>3. CASE L # {}
  <2>1. L \subseteq Nat
    OBVIOUS
  <2> HIDE DEF L
  <2>2. \E i \in L : \A j \in L : i <= j
    BY <1>3, <2>1, Least
  <2>3. p \in L /\ \A j \in L : p <= j
    BY <1>1, <1>3, <2>2
  <2> HIDE DEF p
  <2>4. p \in 0 .. v.size - 1 /\ e.out < Data(v)[p + 1].out
    BY <2>3 DEF L
  <2>5. \A i \in 0 .. v.size - 1 : e.out < Data(v)[i + 1].out => p <= i
    BY <2>3 DEF L
  <2> QED
    BY <2>4, <2>5 DEF p
<1> QED
  BY <1>2, <1>3

(* What is removed is in the queue. *)
LEMMA RemovedIs ==
  ASSUME NEW v, NEW n, Matching(v, n) # {}
  PROVE  \E i \in Matching(v, n) :
           /\ \A j \in Matching(v, n) : i <= j
           /\ Removed(v, n) = Erase(v, i)
<1> DEFINE M == Matching(v, n)
           c == CHOOSE i \in M : \A j \in M : i <= j
<1>1. M \subseteq Nat
  BY DEF Matching
<1> HIDE DEF M
<1>2. \E i \in M : \A j \in M : i <= j
  BY <1>1, Least DEF M
<1>3. c \in M /\ \A j \in M : c <= j
  BY <1>2
<1>4. Removed(v, n) = Erase(v, c)
  BY Zenon DEF Removed, M
<1> QED
  BY <1>3, <1>4 DEF M

(* Whatever is inserted, removed or fired, the queue stays a vector. *)
LEMMA OrderInsertLinked ==
  ASSUME NEW v, Linked(v), NEW e
  PROVE  Linked(OrderInsert(v, e))
<1>1. Place(v, e) \in 0 .. v.size
  BY LinkedSize, PlaceIn
<1> QED
  BY <1>1, InsertIsInsertAt DEF OrderInsert

(* The queue is linked after the removal of a name (cvector_erase). *)
LEMMA RemovedLinked ==
  ASSUME NEW v, Linked(v), NEW n
  PROVE  Linked(Removed(v, n))
<1>1. CASE Matching(v, n) = {}
  BY <1>1 DEF Removed
<1>2. CASE Matching(v, n) # {}
  <2>1. PICK i \in Matching(v, n) : Removed(v, n) = Erase(v, i)
    BY <1>2, RemovedIs
  <2>2. i \in 0 .. v.size - 1
    BY DEF Matching
  <2> QED
    BY <2>1, <2>2, EraseIsRemoveAt
<1> QED
  BY <1>1, <1>2

(* What a round of the handler's loop leaves of the queue. *)
Fired(v) ==
  LET e     == Again(HeadEvent(v))
      moved == [v EXCEPT !.cell[v.head].data = e]
  IN  IF HeadEvent(v).periodic THEN Pophead(OrderInsert(moved, e))
                               ELSE Pophead(v)

(* It is what AlarmFire does in two steps. *)
LEMMA FireIs ==
  ASSUME NEW t \in Thread, AlarmFire(t)
  PROVE  /\ queue' = Fired(queue) /\ queue.size > 0 /\ HeadEvent(queue).out <= now
         /\ alarm[t] = "loop" /\ alarm' = [alarm EXCEPT ![t] = "loop"]
         /\ UNCHANGED <<now, start_flag, next_outtime, armed, lock, pending, pc, arg>>
BY DEF AlarmFire, AlarmTo, HeadDue, Fired, MovedOn

(* The queue is linked after an expiry, with or without a reinsertion. *)
LEMMA FiredLinked ==
  ASSUME NEW v, Linked(v), v.size > 0
  PROVE  Linked(Fired(v))
<1> DEFINE e == Again(HeadEvent(v))
           moved == [v EXCEPT !.cell[v.head].data = e]
           more == OrderInsert(moved, e)
<1>1. CASE HeadEvent(v).periodic
  <2>1. Linked(moved) /\ moved.size = v.size
    BY HeadData
  <2> HIDE DEF moved, e
  <2>2. /\ v.size \in Nat /\ Place(moved, e) \in 0 .. moved.size
    BY <2>1, LinkedSize, PlaceIn
  <2>3. Linked(more)
    BY <2>1, OrderInsertLinked
  <2>4. more.size > 0
    <3>1. more = Insert(moved, Place(moved, e), e)
      BY DEF OrderInsert
    <3>2. CASE Exhausted(moved)
      BY <2>1, <2>2, <3>1, <3>2, InsertData
    <3>3. CASE ~Exhausted(moved)
      <4>1. more.size = moved.size + 1
        BY <2>1, <2>2, <3>1, <3>3, InsertData
      <4> QED
        BY <2>1, <2>2, <4>1
    <3> QED
      BY <3>2, <3>3
  <2>5. Fired(v) = Pophead(more)
    BY <1>1 DEF Fired, moved, e
  <2> HIDE DEF more
  <2> QED
    BY <2>3, <2>4, <2>5, PopheadData
<1>2. CASE ~HeadEvent(v).periodic
  BY <1>2, PopheadData DEF Fired
<1> QED
  BY <1>1, <1>2

(* A step keeps the queue a vector. *)
LEMMA NextLinked == Linked(queue) /\ [Next]_vars => Linked(queue')
<1> SUFFICES ASSUME Linked(queue), [Next]_vars PROVE Linked(queue')
  OBVIOUS
<1>1. CASE queue' = queue
  BY <1>1
<1>2. ASSUME NEW t \in Thread, InsertEvent(t) PROVE Linked(queue')
  BY <1>2, OrderInsertLinked DEF InsertEvent
<1>3. ASSUME NEW t \in Thread, EraseEvent(t) PROVE Linked(queue')
  BY <1>3, RemovedLinked DEF EraseEvent
<1>4. ASSUME NEW t \in Thread, AlarmFire(t) PROVE Linked(queue')
  BY <1>4, FiredLinked, FireIs
<1>5. ASSUME NEW t \in Thread, BeginAdd(t) \/ BeginRemove(t) \/ CallStep(t),
             ~InsertEvent(t), ~EraseEvent(t)
      PROVE  queue' = queue
  BY <1>5 DEF BeginAdd, BeginRemove, CallStep, SeeNotChecking, Acquire, StartFromCall,
              ReleaseCall, queueVars
<1>6. ASSUME NEW t \in Thread, Deliver(t) \/ AlarmStep(t), ~AlarmFire(t)
      PROVE  queue' = queue
  BY <1>6 DEF Deliver, AlarmStep, AlarmLock, AlarmLeaveLoop, AlarmArm, AlarmRelease,
              queueVars
<1>7. CASE Tick \/ Expire \/ UNCHANGED vars
  BY <1>1, <1>7 DEF Tick, Expire, vars, queueVars
<1> QED
  BY <1>1, <1>2, <1>3, <1>4, <1>5, <1>6, <1>7 DEF Next

(* An empty vector is linked. *)
LEMMA InitLinked == Init => Linked(queue)
  BY NewRepresents DEF Init, Linked

(* The linked list of cvector.c is a sequence, in whatever order the calls and
   the handler insert, remove and pop: size, ends, links and heap agree, and
   what one more insertion or removal does to the data is what it does to a
   sequence. *)
THEOREM VectorStaysSequence == Spec => []VectorIsSequence
<1>1. Linked(queue) => VectorIsSequence
  <2> SUFFICES ASSUME Linked(queue) PROVE VectorIsSequence
    OBVIOUS
  <2>1. queue.size \in Nat
    BY LinkedSize
  <2>2. ASSUME NEW i \in 0 .. queue.size, i < queue.size
        PROVE  /\ WellLinked(Erase(queue, i))
               /\ Data(Erase(queue, i)) = RemoveAt(Data(queue), i + 1)
    <3>1. i \in 0 .. queue.size - 1
      BY <2>1, <2>2
    <3> QED
      BY <3>1, EraseIsRemoveAt, LinkedIsWell
  <2>3. WellLinked(Erase(queue, queue.size)) /\ WellLinked(queue)
    BY EraseBehind, LinkedIsWell
  <2>4. ASSUME NEW i \in 0 .. queue.size, NEW e
        PROVE  /\ WellLinked(Insert(queue, i, e))
               /\ Data(Insert(queue, i, e)) =
                    IF Exhausted(queue) THEN Data(queue)
                                        ELSE InsertAt(Data(queue), i + 1, e)
    BY InsertIsInsertAt, LinkedIsWell
  <2>5. \A i \in 0 .. queue.size : i < queue.size \/ i = queue.size
    BY <2>1
  <2>6. ASSUME NEW i \in 0 .. queue.size
        PROVE  /\ WellLinked(Erase(queue, i))
               /\ i < queue.size =>
                    Data(Erase(queue, i)) = RemoveAt(Data(queue), i + 1)
    <3>1. CASE i < queue.size
      BY <2>2, <3>1
    <3>2. CASE i = queue.size
      BY <2>1, <2>3, <3>2
    <3> QED
      BY <2>5, <3>1, <3>2
  <2> QED
    BY <2>3, <2>4, <2>6 DEF VectorIsSequence
<1>2. Init => Linked(queue)
  BY InitLinked
<1>3. Linked(queue) /\ [Next]_vars => Linked(queue)'
  BY NextLinked
<1> QED BY <1>1, <1>2, <1>3, PTL DEF Spec

-----------------------------------------------------------------------------
(* The queue as a sequence in order. *)

InOrder(x, n) == \A i, j \in 1 .. n : i <= j => x[i].out <= x[j].out

(* A vector of events in the order of their out times. *)
Waiting(v) == /\ Linked(v)
              /\ Data(v) \in [1 .. v.size -> Event]
              /\ InOrder(Data(v), v.size)

(* The fields of an event. *)
LEMMA EventFields ==
  ASSUME NEW e \in Event
  PROVE  /\ e.out \in 0 .. MaxTime + MaxDelay /\ e.out \in Nat
         /\ e.delay \in 0 .. MaxDelay /\ e.delay \in Nat
         /\ \E k \in Kind : e = EventOf(k, e.out) /\ e.delay = k.delay
<1>1. PICK k \in Kind, out \in 0 .. MaxTime + MaxDelay : e = EventOf(k, out)
  BY DEF Event
<1>2. e.out = out /\ e.delay = k.delay
  BY <1>1 DEF EventOf
<1>3. MaxDelay \in Nat /\ MaxTime \in Nat /\ k.delay \in 0 .. MaxDelay
  BY TimerAssumption
<1> QED
  BY <1>1, <1>2, <1>3

(* An event moved on by its delay is an event as long as it was due. *)
LEMMA AgainIs ==
  ASSUME NEW e \in Event, e.out <= MaxTime
  PROVE  Again(e) \in Event /\ Again(e).out = e.out + e.delay
                            /\ Again(e).delay = e.delay
<1>1. PICK k \in Kind : e = EventOf(k, e.out) /\ e.delay = k.delay
  BY EventFields
<1>2. Again(e) = EventOf(k, e.out + e.delay)
  BY <1>1 DEF Again, EventOf
<1>3. e.out + e.delay \in 0 .. MaxTime + MaxDelay
  BY EventFields, TimerAssumption
<1>4. Again(e) \in Event
  BY <1>2, <1>3 DEF Event
<1> QED
  BY <1>1, <1>2, <1>4 DEF EventOf

(* The place of e divides the queue into what is not later and what is, if the
   former come first. *)
LEMMA PlaceDivides ==
  ASSUME NEW v, v.size \in Nat, NEW e \in Event, Data(v) \in [1 .. v.size -> Event],
         \A i, j \in 1 .. v.size :
           i <= j /\ Data(v)[j].out <= e.out => Data(v)[i].out <= e.out
  PROVE  /\ Place(v, e) \in 0 .. v.size
         /\ \A i \in 1 .. v.size : Data(v)[i].out <= e.out <=> i <= Place(v, e)
<1> DEFINE n == v.size
           p == Place(v, e)
<1>1. /\ p \in 0 .. n
      /\ \A i \in 0 .. n - 1 : e.out < Data(v)[i + 1].out => p <= i
      /\ p = n \/ e.out < Data(v)[p + 1].out
  BY PlaceIn
<1> HIDE DEF p
<1>2. e.out \in Nat /\ \A i \in 1 .. n : Data(v)[i].out \in Nat
  BY EventFields
<1>3. ASSUME NEW i \in 1 .. n, i <= p, ~(Data(v)[i].out <= e.out) PROVE FALSE
  <2>1. i - 1 \in 0 .. n - 1 /\ (i - 1) + 1 = i
    BY <1>3
  <2>2. e.out < Data(v)[i].out
    BY <1>2, <1>3
  <2>3. p <= i - 1
    BY <1>1, <2>1, <2>2
  <2> QED
    BY <1>1, <1>3, <2>3
<1>4. ASSUME NEW i \in 1 .. n, ~(i <= p), Data(v)[i].out <= e.out PROVE FALSE
  <2>1. p # n /\ p + 1 \in 1 .. n /\ p + 1 <= i
    BY <1>1, <1>4
  <2>2. Data(v)[p + 1].out <= e.out
    BY <1>4, <2>1
  <2> QED
    BY <1>1, <1>2, <2>1, <2>2
<1> QED
  BY <1>1, <1>3, <1>4 DEF p

(* The instance of OrderedEvents brings its own copies of the library's
   operators. *)
LEMMA SameOperators ==
  /\ \A S : Ordered!Cardinality(S) = Cardinality(S)
  /\ \A s, i, e : Ordered!InsertAt(s, i, e) = InsertAt(s, i, e)
  /\ \A s, i : Ordered!RemoveAt(s, i) = RemoveAt(s, i)
<1>1. \A S : Ordered!Cardinality(S) = Cardinality(S)
  BY Zenon DEF Ordered!Cardinality, Cardinality
<1>2. \A s, i, e : Ordered!InsertAt(s, i, e) = InsertAt(s, i, e)
  BY DEF Ordered!InsertAt, InsertAt
<1>3. \A s, i : Ordered!RemoveAt(s, i) = RemoveAt(s, i)
  BY DEF Ordered!RemoveAt, RemoveAt
<1> QED
  BY <1>1, <1>2, <1>3

(* The abstract queue counts to the same place. *)
LEMMA PlaceCounts ==
  ASSUME NEW x, NEW n \in Nat, DOMAIN x = 1 .. n, NEW e, NEW p \in 0 .. n,
         \A i \in 1 .. n : x[i].out <= e.out <=> i <= p
  PROVE  Ordered!Place(x, e) = p + 1
<1>1. {i \in DOMAIN x : x[i].out <= e.out} = 1 .. p
  OBVIOUS
<1>2. Cardinality(1 .. p) = p
  <2>1. Cardinality(1 .. p) = IF 1 > p THEN 0 ELSE p - 1 + 1
    BY FS_Interval
  <2> QED
    BY <2>1
<1>3. Ordered!Place(x, e) = Cardinality({i \in DOMAIN x : x[i].out <= e.out}) + 1
  BY SameOperators DEF Ordered!Place
<1> QED
  BY <1>1, <1>2, <1>3

(* An event at its place keeps the order, *)
LEMMA WithInOrder ==
  ASSUME NEW n \in Nat, NEW x \in [1 .. n -> Event], InOrder(x, n),
         NEW e \in Event, NEW p \in 0 .. n,
         \A i \in 1 .. n : x[i].out <= e.out <=> i <= p
  PROVE  /\ With(x, n, p, e) \in [1 .. n + 1 -> Event]
         /\ InOrder(With(x, n, p, e), n + 1)
<1> DEFINE y == With(x, n, p, e)
<1>1. /\ y \in [1 .. n + 1 -> Event]
      /\ \A i \in 1 .. n + 1 :
           y[i] = IF i <= p THEN x[i] ELSE IF i = p + 1 THEN e ELSE x[i - 1]
  BY DEF With
<1>2. e.out \in Nat /\ \A i \in 1 .. n : x[i].out \in Nat
  BY EventFields
<1> HIDE DEF y
<1>3. \A i \in 1 .. n : ~(i <= p) => e.out <= x[i].out
  BY <1>2
<1>4. ASSUME NEW i \in 1 .. n + 1, NEW j \in 1 .. n + 1, i <= j
      PROVE  y[i].out <= y[j].out
  <2>1. CASE j <= p
    <3>1. i \in 1 .. n /\ j \in 1 .. n /\ i <= p
      BY <1>4, <2>1
    <3> QED
      BY <1>1, <1>4, <2>1, <3>1 DEF InOrder
  <2>2. CASE j = p + 1
    <3>1. CASE i <= p
      <4>1. i \in 1 .. n /\ ~(j <= p)
        BY <2>2, <3>1
      <4> QED
        BY <1>1, <2>2, <3>1, <4>1
    <3>2. CASE i = p + 1
      BY <1>1, <1>2, <2>2, <3>2
    <3> QED
      BY <1>4, <2>2, <3>1, <3>2
  <2>3. CASE j > p + 1
    <3>1. j - 1 \in 1 .. n /\ ~(j <= p) /\ j # p + 1 /\ ~(j - 1 <= p)
      BY <2>3
    <3>2. y[j] = x[j - 1]
      BY <1>1, <3>1
    <3>3. CASE i <= p
      <4>1. i \in 1 .. n /\ i <= j - 1
        BY <1>4, <2>3, <3>3
      <4> QED
        BY <1>1, <3>1, <3>2, <3>3, <4>1 DEF InOrder
    <3>4. CASE i = p + 1
      <4>1. y[i] = e
        BY <1>1, <3>4
      <4> QED
        BY <1>3, <3>1, <3>2, <4>1
    <3>5. CASE i > p + 1
      <4>1. i - 1 \in 1 .. n /\ i - 1 <= j - 1 /\ ~(i <= p) /\ i # p + 1
        BY <1>4, <3>5
      <4>2. y[i] = x[i - 1]
        BY <1>1, <4>1
      <4> QED
        BY <3>1, <3>2, <4>1, <4>2 DEF InOrder
    <3> QED
      BY <3>3, <3>4, <3>5
  <2> QED
    BY <2>1, <2>2, <2>3
<1> QED
  BY <1>1, <1>4 DEF InOrder, y

(* and so does the loss of one. *)
LEMMA WithoutInOrder ==
  ASSUME NEW n \in Nat \ {0}, NEW x \in [1 .. n -> Event], InOrder(x, n),
         NEW i \in 0 .. n - 1
  PROVE  /\ Without(x, n, i) \in [1 .. n - 1 -> Event]
         /\ InOrder(Without(x, n, i), n - 1)
<1> DEFINE y == Without(x, n, i)
<1>1. /\ y \in [1 .. n - 1 -> Event]
      /\ \A j \in 1 .. n - 1 : y[j] = IF j <= i THEN x[j] ELSE x[j + 1]
  BY DEF Without
<1> HIDE DEF y
<1>2. ASSUME NEW j \in 1 .. n - 1, NEW k \in 1 .. n - 1, j <= k
      PROVE  y[j].out <= y[k].out
  <2>1. j \in 1 .. n /\ k \in 1 .. n /\ j + 1 \in 1 .. n /\ k + 1 \in 1 .. n
        /\ j <= k + 1 /\ j + 1 <= k + 1 /\ (k <= i => j <= i)
    BY <1>2
  <2>2. CASE k <= i
    BY <1>1, <1>2, <2>1, <2>2 DEF InOrder
  <2>3. CASE ~(k <= i)
    BY <1>1, <2>1, <2>3 DEF InOrder
  <2> QED
    BY <2>2, <2>3
<1> QED
  BY <1>1, <1>2 DEF InOrder, y

(* The code's insertion is Put. *)
LEMMA InsertIsPut ==
  ASSUME NEW v, Waiting(v), NEW e \in Event
  PROVE  /\ Waiting(OrderInsert(v, e))
         /\ Data(OrderInsert(v, e)) = Ordered!Put(Data(v), e)
<1> DEFINE n == v.size
           x == Data(v)
           p == Place(v, e)
           u == OrderInsert(v, e)
<1>1. Linked(v) /\ x \in [1 .. n -> Event] /\ InOrder(x, n)
  BY DEF Waiting
<1>2. n \in Nat
  BY <1>1, LinkedSize
<1>3. \A i, j \in 1 .. n : i <= j /\ x[j].out <= e.out => x[i].out <= e.out
  <2>1. e.out \in Nat /\ \A i \in 1 .. n : x[i].out \in Nat
    BY <1>1, EventFields
  <2>2. \A i, j \in 1 .. n : i <= j => x[i].out <= x[j].out
    BY <1>1 DEF InOrder
  <2> HIDE DEF x, n
  <2> QED
    BY <2>1, <2>2
<1>4. /\ p \in 0 .. n
      /\ \A i \in 1 .. n : x[i].out <= e.out <=> i <= p
  BY <1>1, <1>2, <1>3, PlaceDivides
<1>5. u = Insert(v, p, e)
  BY DEF OrderInsert
<1> HIDE DEF p, u, x
<1>6. Linked(u) /\ Data(u) = IF Exhausted(v) THEN x ELSE InsertAt(x, p + 1, e)
  BY <1>1, <1>4, <1>5, InsertIsInsertAt DEF x
<1>7. Ordered!Place(x, e) = p + 1
  BY <1>1, <1>2, <1>4, PlaceCounts
<1>8. Ordered!Put(x, e) = IF Exhausted(v) THEN x ELSE InsertAt(x, p + 1, e)
  <2>1. Exhausted(v) <=> ~(Len(x) < Cells)
    <3>1. Len(x) = n
      BY <1>1, LinkedData DEF x
    <3>2. n <= Cells /\ (Exhausted(v) <=> n = Cells)
      BY <1>1, FullIs
    <3> QED
      BY <1>2, <3>1, <3>2, CvectorAssumption
  <2> QED
    BY <1>7, <2>1, SameOperators DEF Ordered!Put
<1>9. CASE Exhausted(v)
  <2>1. u = v
    BY <1>1, <1>4, <1>5, <1>9, InsertData
  <2> QED
    BY <1>6, <1>8, <1>9, <2>1 DEF x, u
<1>10. CASE ~Exhausted(v)
  <2>1. u.size = n + 1 /\ Data(u) = With(x, n, p, e)
    BY <1>1, <1>4, <1>5, <1>10, InsertData DEF x
  <2>2. With(x, n, p, e) \in [1 .. n + 1 -> Event] /\ InOrder(With(x, n, p, e), n + 1)
    BY <1>1, <1>2, <1>4, WithInOrder
  <2>3. Waiting(u)
    BY <1>6, <2>1, <2>2 DEF Waiting
  <2> QED
    BY <1>6, <1>8, <1>10, <2>3 DEF x, u
<1> QED
  BY <1>9, <1>10

(* Its removal is that of the first match. *)
LEMMA RemovedIsFirst ==
  ASSUME NEW v, Waiting(v), NEW n, Matching(v, n) # {}
  PROVE  /\ Waiting(Removed(v, n))
         /\ \E i \in DOMAIN Data(v) : Data(v)[i].name = n
         /\ Data(Removed(v, n)) =
              Ordered!RemoveFirstMatch(Data(v), LAMBDA e : e.name = n)
<1> DEFINE x == Data(v)
           I == {i \in 1 .. Len(x) : x[i].name = n}
<1>1. /\ Linked(v) /\ v.size \in Nat
      /\ x \in [1 .. v.size -> Event] /\ InOrder(x, v.size)
  BY LinkedSize DEF Waiting
<1>2. Len(x) = v.size /\ DOMAIN x = 1 .. v.size
  BY <1>1, LinkedData
<1>3. PICK m \in Matching(v, n) : /\ \A j \in Matching(v, n) : m <= j
                                  /\ Removed(v, n) = Erase(v, m)
  BY RemovedIs
<1>4. m \in 0 .. v.size - 1 /\ x[m + 1].name = n
  BY DEF Matching
<1> HIDE DEF x
<1>5. m + 1 \in I /\ \A i \in I : m + 1 <= i
  <2>1. m + 1 \in 1 .. Len(x)
    BY <1>1, <1>2, <1>4
  <2>2. ASSUME NEW i \in I PROVE m + 1 <= i
    <3>1. i - 1 \in 0 .. v.size - 1 /\ (i - 1) + 1 = i /\ x[i].name = n
      BY <1>1, <1>2
    <3>2. i - 1 \in Matching(v, n)
      BY <3>1 DEF Matching, x
    <3>3. m <= i - 1
      BY <1>3, <3>2
    <3> QED
      BY <1>4, <3>1, <3>3
  <2> QED
    BY <1>4, <2>1, <2>2
<1>6. Ordered!SelectInSeq(x, LAMBDA e : e.name = n) = m + 1
  <2>1. Ordered!SelectInSeq(x, LAMBDA e : e.name = n) =
          IF I # {} THEN Ordered!Min(I) ELSE 0
    BY DEF Ordered!SelectInSeq
  <2>2. I \subseteq Int
    OBVIOUS
  <2> HIDE DEF I
  <2>3. Ordered!Min(I) = CHOOSE i \in I : \A j \in I : i <= j
    BY DEF Ordered!Min
  <2>4. \A i \in I : (\A j \in I : i <= j) => i = m + 1
    BY <1>4, <1>5, <2>2
  <2> QED
    BY <1>5, <2>1, <2>3, <2>4
<1>7. Ordered!RemoveFirstMatch(x, LAMBDA e : e.name = n) = RemoveAt(x, m + 1)
  <2>1. \E i \in 1 .. Len(x) : x[i].name = n
    BY <1>5
  <2> QED
    BY <1>6, <2>1, SameOperators DEF Ordered!RemoveFirstMatch
<1>8. /\ Linked(Erase(v, m)) /\ Data(Erase(v, m)) = RemoveAt(x, m + 1)
      /\ Erase(v, m).size = v.size - 1 /\ Data(Erase(v, m)) = Without(x, v.size, m)
  BY <1>1, <1>4, EraseIsRemoveAt, EraseData DEF x
<1>9. /\ Without(x, v.size, m) \in [1 .. v.size - 1 -> Event]
      /\ InOrder(Without(x, v.size, m), v.size - 1)
  <2>1. v.size \in Nat \ {0}
    BY <1>1, <1>4
  <2> QED
    BY <1>1, <1>4, <2>1, WithoutInOrder
<1>10. Waiting(Removed(v, n))
  BY <1>3, <1>8, <1>9 DEF Waiting
<1>11. \E i \in DOMAIN x : x[i].name = n
  BY <1>2, <1>5
<1> QED
  BY <1>3, <1>7, <1>8, <1>10, <1>11 DEF x

(* A queue that is not empty, as a sequence. *)
LEMMA HeadAndTail ==
  ASSUME NEW v, Waiting(v), v.size > 0
  PROVE  LET x == Data(v)
             y == Without(x, v.size, 0)
         IN  /\ v.size \in Nat \ {0} /\ Len(x) = v.size
             /\ x \in Seq(Event) /\ x # <<>>
             /\ Head(x) = x[1] /\ HeadEvent(v) = x[1] /\ x[1] \in Event
             /\ Tail(x) = y
             /\ y \in Seq(Event) /\ Len(y) = v.size - 1
             /\ y \in [1 .. v.size - 1 -> Event]
             /\ InOrder(y, v.size - 1)
             /\ \A i \in 1 .. v.size - 1 : y[i] = x[i + 1]
<1> DEFINE n == v.size
           x == Data(v)
           y == Without(x, n, 0)
<1>1. /\ Linked(v) /\ n \in Nat \ {0} /\ x \in [1 .. n -> Event] /\ InOrder(x, n)
  BY LinkedSize DEF Waiting
<1>2. HeadEvent(v) = x[1] /\ Len(x) = n
  BY <1>1, LinkedData DEF HeadEvent
<1> HIDE DEF x
<1>3. x \in Seq(Event)
  BY <1>1, SeqDef
<1>4. x # <<>>
  <2>1. Len(<<>>) = 0
    OBVIOUS
  <2> QED
    BY <1>1, <1>2, <2>1
<1>5. /\ y \in [1 .. n - 1 -> Event] /\ InOrder(y, n - 1)
  BY <1>1, WithoutInOrder
<1>6. \A i \in 1 .. n - 1 : y[i] = x[i + 1]
  <2>1. \A i \in 1 .. n - 1 : ~(i <= 0)
    BY <1>1
  <2> QED
    BY <2>1 DEF Without
<1> HIDE DEF y
<1>7. Tail(x) = y
  <2>1. /\ Tail(x) \in Seq(Event) /\ Len(Tail(x)) = n - 1
        /\ \A i \in 1 .. n - 1 : Tail(x)[i] = x[i + 1]
    BY <1>2, <1>3, <1>4, HeadTailProperties
  <2>2. Tail(x) = [i \in 1 .. n - 1 |-> Tail(x)[i]]
    BY <2>1, LenProperties
  <2>3. y = [i \in 1 .. n - 1 |-> y[i]]
    BY <1>5
  <2> QED
    BY <1>6, <2>1, <2>2, <2>3
<1>8. y \in Seq(Event) /\ Len(y) = n - 1
  <2>1. n - 1 \in Nat
    BY <1>1
  <2>2. y \in Seq(Event)
    BY <1>5, <2>1, SeqDef
  <2> QED
    BY <1>5, <2>1, <2>2, LenProperties
<1>9. Head(x) = x[1] /\ x[1] \in Event
  BY <1>1, <1>3, <1>4
<1> QED
  BY <1>1, <1>2, <1>3, <1>4, <1>5, <1>6, <1>7, <1>8, <1>9 DEF x, y

(* The head moved on in place, inserted before it is popped, leaves the queue
   as the abstract one, which takes it out first. *)
LEMMA PeriodicFires ==
  ASSUME NEW v, Waiting(v), v.size > 0, HeadEvent(v).out <= MaxTime,
         HeadEvent(v).periodic
  PROVE  /\ Waiting(Fired(v))
         /\ Data(Fired(v)) =
              IF Len(Data(v)) < Cells
              THEN Ordered!Put(Tail(Data(v)), Again(HeadEvent(v)))
              ELSE Tail(Data(v))
<1> DEFINE n == v.size
           x == Data(v)
           y == Without(x, n, 0)
           e == Again(HeadEvent(v))
           w == [v EXCEPT !.cell[v.head].data = e]
           p == Place(w, e)
           u == OrderInsert(w, e)
<1>1. /\ n \in Nat \ {0} /\ Len(x) = n
      /\ Tail(x) = y
      /\ y \in Seq(Event) /\ Len(y) = n - 1
      /\ y \in [1 .. n - 1 -> Event]
      /\ InOrder(y, n - 1)
      /\ \A i \in 1 .. n - 1 : y[i] = x[i + 1]
  BY HeadAndTail
<1>2. Linked(v) /\ x \in [1 .. n -> Event] /\ InOrder(x, n)
  BY DEF Waiting
<1>3. e \in Event
  <2>1. HeadEvent(v) \in Event
    BY HeadAndTail
  <2> QED
    BY <2>1, AgainIs
<1>4. Linked(w) /\ w.size = n /\ (Exhausted(w) <=> Exhausted(v)) /\ Data(w) = [x EXCEPT ![1] = e]
  BY <1>2, HeadData
<1>5. Fired(v) = Pophead(u)
  BY DEF Fired
<1> HIDE DEF x, y, w, e
<1>6. Data(w) \in [1 .. n -> Event] /\ \A i \in 1 .. n : Data(w)[i] = IF i = 1 THEN e ELSE x[i]
  BY <1>1, <1>2, <1>3, <1>4
<1>7. e.out \in Nat /\ (\A i \in 1 .. n : x[i].out \in Nat)
  BY <1>2, <1>3, EventFields
<1>8. \A i, j \in 1 .. n : i <= j /\ Data(w)[j].out <= e.out => Data(w)[i].out <= e.out
  <2>1. ASSUME NEW i \in 1 .. n, NEW j \in 1 .. n, i <= j, Data(w)[j].out <= e.out
        PROVE  Data(w)[i].out <= e.out
    <3>1. CASE i = 1
      BY <1>6, <1>7, <3>1
    <3>2. CASE i # 1
      <4>1. j # 1
        BY <2>1, <3>2
      <4>2. x[i].out <= x[j].out /\ Data(w)[i] = x[i] /\ Data(w)[j] = x[j]
        BY <1>2, <1>6, <2>1, <3>2, <4>1 DEF InOrder
      <4> HIDE DEF n
      <4> QED
        BY <1>7, <2>1, <4>2
    <3> QED
      BY <3>1, <3>2
  <2> QED
    BY <2>1
<1>9. /\ p \in 0 .. n
      /\ \A i \in 1 .. n : Data(w)[i].out <= e.out <=> i <= p
  <2>1. w.size \in Nat
    BY <1>1, <1>4
  <2> QED
    BY <1>3, <1>4, <1>6, <1>8, <2>1, PlaceDivides
<1>10. u = Insert(w, p, e)
  BY DEF OrderInsert
<1> HIDE DEF p, u
<1>11. /\ p \in 1 .. n /\ p - 1 \in 0 .. n - 1 /\ (p - 1) + 1 = p
       /\ \A i \in 1 .. n - 1 : y[i].out <= e.out <=> i <= p - 1
  <2>1. 1 \in 1 .. n /\ Data(w)[1] = e /\ e.out <= e.out
    BY <1>1, <1>6, <1>7
  <2>2. 1 <= p
    BY <1>9, <2>1
  <2>3. ASSUME NEW i \in 1 .. n - 1 PROVE y[i].out <= e.out <=> i <= p - 1
    <3>1. i + 1 \in 1 .. n /\ i + 1 # 1 /\ (i + 1 <= p <=> i <= p - 1)
      BY <1>1, <1>9
    <3>2. Data(w)[i + 1] = y[i]
      BY <1>1, <1>6, <3>1
    <3> QED
      BY <1>9, <3>1, <3>2
  <2>4. p \in 1 .. n /\ p - 1 \in 0 .. n - 1 /\ (p - 1) + 1 = p
    BY <1>1, <1>9, <2>2
  <2> QED
    BY <2>3, <2>4
<1>12. n - 1 \in Nat
  BY <1>1
<1>13. CASE Exhausted(v)
  <2>1. u = w
    BY <1>4, <1>9, <1>10, <1>13, InsertData
  <2>2. w.size > 0
    BY <1>1, <1>4
  <2>3. /\ Linked(Pophead(w)) /\ Pophead(w).size = n - 1
        /\ Data(Pophead(w)) = Without(Data(w), n, 0)
    BY <1>4, <2>2, PopheadData
  <2>4. Without(Data(w), n, 0) = y
    <3>1. \A i \in 1 .. n - 1 : i + 1 \in 1 .. n /\ i + 1 # 1 /\ ~(i <= 0)
      BY <1>1
    <3> QED
      BY <1>6, <3>1 DEF Without, y
  <2>5. ~(Len(x) < Cells)
    BY <1>1, <1>2, <1>13, FullIs, CvectorAssumption
  <2>6. Waiting(Fired(v))
    BY <1>1, <1>5, <2>1, <2>3, <2>4 DEF Waiting
  <2>7. Data(Fired(v)) = Tail(x)
    BY <1>1, <1>5, <2>1, <2>3, <2>4
  <2> QED
    BY <2>5, <2>6, <2>7 DEF x
<1>14. CASE ~Exhausted(v)
  <2>1. /\ Linked(u) /\ u.size = n + 1 /\ Data(u) = With(Data(w), n, p, e)
    <3>1. ~Exhausted(w) /\ p \in 0 .. w.size
      BY <1>4, <1>9, <1>14
    <3>2. /\ Linked(Insert(w, p, e))
          /\ Insert(w, p, e).size = w.size + 1
          /\ Data(Insert(w, p, e)) = With(Data(w), w.size, p, e)
      BY <1>4, <3>1, InsertData
    <3> QED
      BY <1>4, <1>10, <3>2
  <2>2. u.size > 0
    BY <1>1, <2>1
  <2>3. /\ Linked(Pophead(u)) /\ Pophead(u).size = (n + 1) - 1
        /\ Data(Pophead(u)) = Without(With(Data(w), n, p, e), n + 1, 0)
    BY <2>1, <2>2, PopheadData
  <2>4. (n + 1) - 1 = n /\ (n - 1) + 1 = n
    BY <1>1
  <2>5. Without(With(Data(w), n, p, e), n + 1, 0) = With(y, n - 1, p - 1, e)
    <3> DEFINE a == With(Data(w), n, p, e)
               b == With(y, n - 1, p - 1, e)
    <3>1. ASSUME NEW i \in 1 .. n PROVE a[i + 1] = b[i]
      <4>1. /\ i + 1 \in 1 .. n + 1 /\ i \in 1 .. (n - 1) + 1
            /\ (i + 1 <= p <=> i <= p - 1) /\ (i + 1 = p + 1 <=> i = (p - 1) + 1)
            /\ (i + 1) - 1 = i
        BY <1>1, <1>9, <2>4
      <4>2. a[i + 1] = IF i + 1 <= p THEN Data(w)[i + 1]
                       ELSE IF i + 1 = p + 1 THEN e ELSE Data(w)[(i + 1) - 1]
        BY <4>1 DEF With
      <4>3. b[i] = IF i <= p - 1 THEN y[i] ELSE IF i = (p - 1) + 1 THEN e ELSE y[i - 1]
        BY <4>1 DEF With
      <4> HIDE DEF a, b
      <4>4. CASE i <= p - 1
        <5>1. i + 1 \in 1 .. n /\ i + 1 # 1 /\ i \in 1 .. n - 1
          BY <1>1, <1>11, <4>4
        <5>2. Data(w)[i + 1] = y[i]
          BY <1>1, <1>6, <5>1
        <5> QED
          BY <4>1, <4>2, <4>3, <4>4, <5>2
      <4>5. CASE i = (p - 1) + 1
        <5>1. ~(i <= p - 1)
          BY <1>11, <4>5
        <5> QED
          BY <4>1, <4>2, <4>3, <4>5, <5>1
      <4>6. CASE ~(i <= p - 1) /\ i # (p - 1) + 1
        <5>1. i # 1 /\ i - 1 \in 1 .. n - 1 /\ (i - 1) + 1 = i
          BY <1>1, <1>11, <4>6
        <5>2. Data(w)[i] = y[i - 1]
          BY <1>1, <1>6, <5>1
        <5> QED
          BY <4>1, <4>2, <4>3, <4>6, <5>2
      <4> QED
        BY <4>4, <4>5, <4>6
    <3>2. Without(a, n + 1, 0) = [i \in 1 .. n |-> a[i + 1]]
      <4>1. \A i \in 1 .. n : ~(i <= 0)
        BY <1>1
      <4> HIDE DEF a
      <4> QED
        BY <2>4, <4>1 DEF Without
    <3>3. b = [i \in 1 .. n |-> b[i]]
      BY <2>4 DEF With
    <3> HIDE DEF a, b
    <3>4. Without(a, n + 1, 0) = b
      BY <3>1, <3>2, <3>3
    <3> QED
      BY <3>4 DEF a, b
  <2>6. /\ With(y, n - 1, p - 1, e) \in [1 .. (n - 1) + 1 -> Event]
        /\ InOrder(With(y, n - 1, p - 1, e), (n - 1) + 1)
    BY <1>1, <1>3, <1>11, <1>12, WithInOrder
  <2>7. Waiting(Fired(v))
    BY <1>5, <2>3, <2>4, <2>5, <2>6 DEF Waiting
  <2>8. Ordered!Place(y, e) = p
    <3>1. Ordered!Place(y, e) = (p - 1) + 1
      <4> DEFINE k == n - 1
                 q == p - 1
      <4>1. k \in Nat /\ DOMAIN y = 1 .. k /\ q \in 0 .. k
        BY <1>1, <1>11, <1>12
      <4>2. \A i \in 1 .. k : y[i].out <= e.out <=> i <= q
        BY <1>11
      <4> HIDE DEF k, q
      <4>3. Ordered!Place(y, e) = q + 1
        BY <4>1, <4>2, PlaceCounts
      <4> QED
        BY <4>3 DEF q
    <3> QED
      BY <1>11, <3>1
  <2>9. Len(x) < Cells /\ Len(y) < Cells
    <3>1. n <= Cells /\ n # Cells
      BY <1>2, <1>14, FullIs
    <3> QED
      BY <1>1, <3>1, CvectorAssumption
  <2>10. Ordered!Put(y, e) = InsertAt(y, p, e)
    BY <2>8, <2>9, SameOperators DEF Ordered!Put
  <2>11. InsertAt(y, p, e) = With(y, n - 1, p - 1, e)
    <3>1. p - 1 \in 0 .. Len(y)
      BY <1>1, <1>11
    <3>2. InsertAt(y, (p - 1) + 1, e) = With(y, Len(y), p - 1, e)
      BY <1>1, <1>3, <3>1, WithIsInsertAt
    <3> QED
      BY <1>1, <1>11, <3>2
  <2>12. Data(Fired(v)) = Ordered!Put(Tail(x), e)
    BY <1>1, <1>5, <2>3, <2>5, <2>10, <2>11
  <2> QED
    BY <2>7, <2>9, <2>12 DEF x, e
<1> QED
  BY <1>13, <1>14

(* A round of the handler's loop is Fire. *)
LEMMA FiredIsFire ==
  ASSUME NEW v, Waiting(v), v.size > 0, HeadEvent(v).out <= MaxTime
  PROVE  /\ Waiting(Fired(v))
         /\ Data(Fired(v)) =
              IF Head(Data(v)).periodic /\ Len(Data(v)) < Cells
              THEN Ordered!Put(Tail(Data(v)), Ordered!Later(Head(Data(v))))
              ELSE Tail(Data(v))
<1>1. HeadEvent(v) = Head(Data(v))
  BY HeadAndTail
<1>2. Again(HeadEvent(v)) = Ordered!Later(Head(Data(v)))
  BY <1>1 DEF Again, Ordered!Later
<1>3. CASE HeadEvent(v).periodic
  BY <1>1, <1>2, <1>3, PeriodicFires
<1>4. CASE ~HeadEvent(v).periodic
  <2>1. Fired(v) = Pophead(v)
    BY <1>4 DEF Fired
  <2>2. /\ Linked(Pophead(v)) /\ Pophead(v).size = v.size - 1
        /\ Data(Pophead(v)) = Without(Data(v), v.size, 0)
    BY PopheadData DEF Waiting
  <2>3. /\ Tail(Data(v)) = Without(Data(v), v.size, 0)
        /\ Without(Data(v), v.size, 0) \in [1 .. v.size - 1 -> Event]
        /\ InOrder(Without(Data(v), v.size, 0), v.size - 1)
    BY HeadAndTail
  <2> QED
    BY <1>1, <1>4, <2>1, <2>2, <2>3 DEF Waiting
<1> QED
  BY <1>3, <1>4

-----------------------------------------------------------------------------
(* The queue is OrderedEvents. *)

(* What a call has in hand came from its caller and its reading of the clock. *)
ArgsTyped ==
  \A t \in Thread :
    /\ pc[t] \in Adding => arg[t] \in Event /\ arg[t].out - arg[t].delay <= now
    /\ pc[t] \in {"lockToRemove", "erase"} => arg[t] \in Name

QueueInv == /\ IInv
            /\ now \in Clock
            /\ ArgsTyped
            /\ Waiting(queue)

(* The queue begins empty, as that of OrderedEvents. *)
LEMMA InitQueue == Init => QueueInv /\ Ordered!Init
<1> SUFFICES ASSUME Init PROVE QueueInv /\ Ordered!Init
  OBVIOUS
<1>1. Linked(queue) /\ queue.size = 0
  BY InitLinked DEF Init, NewVector
<1>2. Waiting(queue)
  BY <1>1 DEF Waiting, InOrder, Data
<1>3. Data(queue) = <<>>
  <2>1. Data(queue) \in Seq({Data(queue)[i] : i \in 1 .. queue.size})
        /\ Len(Data(queue)) = 0
    BY <1>1, LinkedData
  <2> QED
    BY <2>1, EmptySeq
<1>4. now \in Clock /\ ArgsTyped
  BY TimerAssumption DEF Init, Clock, ArgsTyped, Adding
<1> QED
  BY <1>2, <1>3, <1>4, InitIInv DEF QueueInv, Init, Ordered!Init

(* The clock only goes on, so what was read stays in the past. *)
LEMMA ArgsKept ==
  ASSUME QueueInv, now' \in Nat, now <= now', NEW t \in Thread,
         pc[t]' = pc[t] \/ pc[t]' \notin Adding \cup {"lockToRemove", "erase"},
         arg[t]' = arg[t]
  PROVE  /\ pc[t]' \in Adding => arg[t]' \in Event /\ (arg[t].out - arg[t].delay <= now)'
         /\ pc[t]' \in {"lockToRemove", "erase"} => arg[t]' \in Name
<1>1. ASSUME pc[t]' \in Adding
      PROVE  arg[t]' \in Event /\ arg[t]'.out - arg[t]'.delay <= now'
  <2>1. arg[t] \in Event /\ arg[t].out - arg[t].delay <= now
    BY <1>1 DEF QueueInv, ArgsTyped
  <2>2. arg[t].out \in Nat /\ arg[t].delay \in Nat /\ now \in Nat
    BY <2>1, EventFields DEF QueueInv, IInv
  <2> QED
    BY <2>1, <2>2
<1> QED
  BY <1>1 DEF QueueInv, ArgsTyped, Adding

(* A call takes what it was given through to its critical section. *)
LEMMA ArgsCall ==
  ASSUME QueueInv, NEW t \in Thread, BeginAdd(t) \/ BeginRemove(t) \/ CallStep(t)
  PROVE  ArgsTyped'
<1>1. now' = now /\ now \in Nat /\ DOMAIN arg = Thread /\ DOMAIN pc = Thread
  <2>1. now' = now
    BY DEF BeginAdd, BeginRemove, CallStep, SeeNotChecking, Acquire, InsertEvent,
           StartFromCall, EraseEvent, ReleaseCall
  <2> QED
    BY <2>1 DEF QueueInv, IInv
<1>2. ASSUME NEW u \in Thread, u # t PROVE pc[u]' = pc[u] /\ arg[u]' = arg[u]
  BY <1>1, <1>2 DEF BeginAdd, BeginRemove, CallStep, SeeNotChecking, Acquire, InsertEvent,
              StartFromCall, EraseEvent, ReleaseCall, Goto
<1>3. ASSUME NEW u \in Thread, u # t
      PROVE  /\ pc[u]' \in Adding =>
                  arg[u]' \in Event /\ (arg[u].out - arg[u].delay <= now)'
             /\ pc[u]' \in {"lockToRemove", "erase"} => arg[u]' \in Name
  <2>1. now' \in Nat /\ now <= now'
    BY <1>1
  <2> QED
    BY <1>2, <1>3, <2>1, ArgsKept
<1>4. /\ pc[t]' \in Adding => arg[t]' \in Event /\ arg[t]'.out - arg[t]'.delay <= now'
      /\ pc[t]' \in {"lockToRemove", "erase"} => arg[t]' \in Name
  <2>1. CASE BeginAdd(t)
    <3>1. PICK k \in Kind : arg' = [arg EXCEPT ![t] = EventOf(k, now + k.delay)]
      BY <2>1 DEF BeginAdd
    <3> DEFINE e == EventOf(k, now + k.delay)
    <3>2. arg'[t] = e
      BY <1>1, <3>1
    <3>3. k.delay \in 0 .. MaxDelay /\ MaxDelay \in Nat /\ MaxTime \in Nat
      BY TimerAssumption
    <3>4. now \in 0 .. MaxTime
      BY DEF QueueInv, Clock
    <3>5. now + k.delay \in 0 .. MaxTime + MaxDelay /\ (now + k.delay) - k.delay <= now
      BY <3>3, <3>4
    <3>6. e \in Event /\ e.out = now + k.delay /\ e.delay = k.delay
      BY <3>5 DEF Event, EventOf
    <3>7. pc'[t] \in Adding
      BY <1>1, <2>1 DEF BeginAdd, Goto, Adding
    <3> HIDE DEF e
    <3> QED
      BY <1>1, <3>2, <3>5, <3>6, <3>7 DEF Adding
  <2>2. CASE BeginRemove(t)
    <3>1. arg'[t] \in Name /\ pc'[t] = "lockToRemove"
      BY <1>1, <2>2 DEF BeginRemove, Goto
    <3> QED
      BY <3>1 DEF Adding
  <2>3. CASE SeeNotChecking(t)
    <3>1. pc[t] = "checking" /\ pc'[t] = "lockToAdd" /\ arg' = arg
      BY <1>1, <2>3 DEF SeeNotChecking, At, Goto
    <3> QED
      BY <1>1, <3>1 DEF QueueInv, ArgsTyped, Adding
  <2>4. CASE Acquire(t)
    <3>1. /\ arg' = arg
          /\ \/ pc[t] = "lockToAdd" /\ pc'[t] = "insert"
             \/ pc[t] = "lockToRemove" /\ pc'[t] = "erase"
      BY <1>1, <2>4 DEF Acquire, At, Goto
    <3> QED
      BY <1>1, <3>1 DEF QueueInv, ArgsTyped, Adding
  <2>5. CASE InsertEvent(t) \/ StartFromCall(t) \/ EraseEvent(t) \/ ReleaseCall(t)
    <3>1. pc'[t] \in {"start", "unlock", "idle"}
      BY <1>1, <2>5 DEF InsertEvent, StartFromCall, EraseEvent, ReleaseCall, Goto
    <3> QED
      BY <3>1 DEF Adding
  <2> QED
    BY <2>1, <2>2, <2>3, <2>4, <2>5 DEF CallStep
<1> QED
  BY <1>3, <1>4 DEF ArgsTyped

(* Every step keeps the clock and the arguments in range. *)
LEMMA ArgsStep ==
  ASSUME QueueInv, [Next]_vars
  PROVE  now' \in Clock /\ ArgsTyped'
<1>1. ASSUME UNCHANGED <<pc, arg>>, now' \in Clock, now <= now'
      PROVE  ArgsTyped'
  <2>1. now' \in Nat
    BY <1>1, TimerAssumption DEF Clock
  <2> QED
    BY <1>1, <2>1, ArgsKept DEF ArgsTyped
<1>2. now \in Clock /\ now \in Nat /\ now <= now
  BY DEF QueueInv, IInv
<1>3. ASSUME NEW t \in Thread, BeginAdd(t) \/ BeginRemove(t) \/ CallStep(t)
      PROVE  now' \in Clock /\ ArgsTyped'
  <2>1. now' = now
    BY <1>3 DEF BeginAdd, BeginRemove, CallStep, SeeNotChecking, Acquire, InsertEvent,
           StartFromCall, EraseEvent, ReleaseCall
  <2> QED
    BY <1>2, <1>3, <2>1, ArgsCall
<1>4. ASSUME NEW t \in Thread, Deliver(t) \/ AlarmStep(t)
      PROVE  now' \in Clock /\ ArgsTyped'
  <2>1. UNCHANGED <<now, pc, arg>>
    BY <1>4 DEF Deliver, AlarmStep, AlarmLock, AlarmFire, AlarmLeaveLoop, AlarmArm,
                AlarmRelease, AlarmTo
  <2> QED
    BY <1>1, <1>2, <2>1
<1>5. CASE Tick
  <2>1. now' \in Clock /\ now <= now' /\ UNCHANGED <<pc, arg>>
    BY <1>2, <1>5, TimerAssumption DEF Tick, Clock
  <2> QED
    BY <1>1, <2>1
<1>6. CASE Expire \/ UNCHANGED vars
  <2>1. UNCHANGED <<now, pc, arg>>
    BY <1>6 DEF Expire, vars
  <2> QED
    BY <1>1, <1>2, <2>1
<1> QED
  BY <1>3, <1>4, <1>5, <1>6 DEF Next

(* A step is one of the abstract queue, or does not touch the events and the
   clock, and leaves the queue in order. *)
LEMMA StepIsOrdered ==
  ASSUME QueueInv, [Next]_vars
  PROVE  /\ Waiting(queue')
         /\ Ordered!Next \/ UNCHANGED <<now, Data(queue)>>
<1>0. Waiting(queue)
  BY DEF QueueInv
<1>1. CASE UNCHANGED <<now, queue>>
  <2>1. Data(queue)' = Data(queue)
    BY <1>1
  <2> QED
    BY <1>0, <1>1, <2>1
<1>2. ASSUME NEW t \in Thread, InsertEvent(t)
      PROVE  Waiting(queue') /\ Ordered!Next
  <2>1. /\ arg[t] \in Event /\ arg[t].out - arg[t].delay <= now
        /\ queue' = OrderInsert(queue, arg[t]) /\ now' = now
    BY <1>2 DEF InsertEvent, At, QueueInv, ArgsTyped, Adding
  <2>2. Waiting(queue') /\ Data(queue') = Ordered!Put(Data(queue), arg[t])
    BY <1>0, <2>1, InsertIsPut
  <2>3. Ordered!Add
    BY <2>1, <2>2 DEF Ordered!Add
  <2> QED
    BY <2>2, <2>3 DEF Ordered!Next
<1>3. ASSUME NEW t \in Thread, EraseEvent(t)
      PROVE  Waiting(queue') /\ (Ordered!Next \/ UNCHANGED <<now, Data(queue)>>)
  <2>1. arg[t] \in Name /\ queue' = Removed(queue, arg[t]) /\ now' = now
    BY <1>3 DEF EraseEvent, At, QueueInv, ArgsTyped
  <2>2. CASE Matching(queue, arg[t]) = {}
    <3>1. queue' = queue
      BY <2>1, <2>2 DEF Removed
    <3> QED
      BY <1>1, <2>1, <3>1
  <2>3. CASE Matching(queue, arg[t]) # {}
    <3> DEFINE n == arg[t]
    <3>1. /\ Waiting(queue')
          /\ \E i \in DOMAIN Data(queue) : Data(queue)[i].name = n
          /\ Data(queue') = Ordered!RemoveFirstMatch(Data(queue), LAMBDA e : e.name = n)
      BY <1>0, <2>1, <2>3, RemovedIsFirst
         DEF Ordered!RemoveFirstMatch, Ordered!SelectInSeq
    <3>2. Ordered!Drop
      BY <2>1, <3>1 DEF Ordered!Drop
    <3> QED
      BY <3>1, <3>2 DEF Ordered!Next
  <2> QED
    BY <2>2, <2>3
<1>4. ASSUME NEW t \in Thread, AlarmFire(t)
      PROVE  Waiting(queue') /\ Ordered!Next
  <2>1. /\ queue.size > 0 /\ HeadEvent(queue).out <= now
        /\ queue' = Fired(queue) /\ now' = now
    BY <1>4, FireIs
  <2>2. /\ HeadEvent(queue) = Head(Data(queue)) /\ Data(queue) # <<>>
        /\ HeadEvent(queue) \in Event
    BY <1>0, <2>1, HeadAndTail
  <2>3. HeadEvent(queue).out <= MaxTime
    <3>1. HeadEvent(queue).out \in Nat /\ now \in 0 .. MaxTime /\ MaxTime \in Nat
      BY <2>2, EventFields, TimerAssumption DEF QueueInv, Clock
    <3> QED
      BY <2>1, <3>1
  <2>4. /\ Waiting(queue')
        /\ Data(queue') =
             IF Head(Data(queue)).periodic /\ Len(Data(queue)) < Cells
             THEN Ordered!Put(Tail(Data(queue)), Ordered!Later(Head(Data(queue))))
             ELSE Tail(Data(queue))
    BY <1>0, <2>1, <2>3, FiredIsFire
  <2>5. Ordered!Fire
    BY <2>1, <2>2, <2>4 DEF Ordered!Fire
  <2> QED
    BY <2>4, <2>5 DEF Ordered!Next
<1>5. CASE Tick
  <2>1. now' \in Clock /\ now' > now /\ queue' = queue
    BY <1>5, TimerAssumption DEF Tick, Clock, QueueInv, IInv, queueVars
  <2>2. Data(queue)' = Data(queue)
    BY <2>1
  <2>3. Ordered!Tick
    BY <2>1, <2>2 DEF Ordered!Tick
  <2> QED
    BY <1>0, <2>1, <2>3 DEF Ordered!Next
<1>6. ASSUME NEW t \in Thread, BeginAdd(t) \/ BeginRemove(t) \/ CallStep(t),
             ~InsertEvent(t), ~EraseEvent(t)
      PROVE  UNCHANGED <<now, queue>>
  BY <1>6 DEF BeginAdd, BeginRemove, CallStep, SeeNotChecking, Acquire, StartFromCall,
              ReleaseCall, queueVars
<1>7. ASSUME NEW t \in Thread, Deliver(t) \/ AlarmStep(t), ~AlarmFire(t)
      PROVE  UNCHANGED <<now, queue>>
  BY <1>7 DEF Deliver, AlarmStep, AlarmTo, AlarmLock, AlarmLeaveLoop, AlarmArm,
              AlarmRelease, queueVars
<1>8. CASE Expire \/ UNCHANGED vars
  BY <1>1, <1>8 DEF Expire, vars, queueVars
<1> QED
  BY <1>1, <1>2, <1>3, <1>4, <1>5, <1>6, <1>7, <1>8 DEF Next

(* The queue of timer_queue.c is the ordered queue it promises, for any
   threads, events and capacity: whatever the order of the calls' clock
   readings, insertions, removals and the handler's rounds, each step of it is
   a put, a drop, a fire or a tick of OrderedEvents. *)
THEOREM ImplementsOrderedEvents == Spec => EventsInOrder
<1>1. Init => QueueInv
  BY InitQueue
<1>2. QueueInv /\ [Next]_vars => QueueInv'
  BY NextKeeps, ArgsStep, StepIsOrdered DEF QueueInv
<1>3. Init => Ordered!Init
  BY InitQueue
<1>4. QueueInv /\ [Next]_vars => [Ordered!Next]_<<now, Data(queue)>>
  BY StepIsOrdered
<1> QED BY <1>1, <1>2, <1>3, <1>4, PTL DEF Spec, EventsInOrder, Ordered!Spec

(* Put adds its event and drops none. *)
LEMMA PutKeeps ==
  ASSUME NEW x \in Seq(Event), Len(x) < Cells, NEW e \in Event
  PROVE  /\ Len(Ordered!Put(x, e)) = Len(x) + 1
         /\ \E i \in 1 .. Len(x) + 1 : Ordered!Put(x, e)[i] = e
         /\ \A j \in 1 .. Len(x) : \E i \in 1 .. Len(x) + 1 : Ordered!Put(x, e)[i] = x[j]
<1> DEFINE n == Len(x)
           S == {i \in DOMAIN x : x[i].out <= e.out}
           p == Cardinality(S)
           y == Ordered!Put(x, e)
<1>1. n \in Nat /\ DOMAIN x = 1 .. n
  OBVIOUS
<1>2. p \in 0 .. n
  <2>1. IsFiniteSet(1 .. n) /\ Cardinality(1 .. n) = n
    <3>1. Cardinality(1 .. n) = IF 1 > n THEN 0 ELSE n - 1 + 1
      BY <1>1, FS_Interval
    <3> QED
      BY <1>1, <3>1, FS_Interval
  <2>2. S \subseteq 1 .. n
    BY <1>1
  <2>3. IsFiniteSet(S) /\ Cardinality(S) <= Cardinality(1 .. n)
    BY <2>1, <2>2, FS_Subset
  <2>4. Cardinality(S) \in Nat
    BY <2>3, FS_CardinalityType
  <2> QED
    BY <1>1, <2>1, <2>3, <2>4
<1>3. y = InsertAt(x, p + 1, e)
  BY SameOperators DEF Ordered!Put, Ordered!Place
<1> HIDE DEF S, p
<1>4. y = With(x, n, p, e)
  BY <1>2, <1>3, WithIsInsertAt
<1> HIDE DEF y, n
<1>5. y = [j \in 1 .. n + 1 |-> IF j <= p THEN x[j] ELSE IF j = p + 1 THEN e ELSE x[j - 1]]
  BY <1>4 DEF With
<1>6. Len(y) = n + 1
  <2>1. n + 1 \in Nat
    BY <1>1
  <2>2. y \in Seq({y[j] : j \in 1 .. n + 1})
    BY <1>5, <2>1
  <2> QED
    BY <1>5, <2>1, <2>2
<1>7. p + 1 \in 1 .. n + 1 /\ y[p + 1] = e
  BY <1>1, <1>2, <1>5
<1>8. ASSUME NEW j \in 1 .. n PROVE \E i \in 1 .. n + 1 : y[i] = x[j]
  <2>1. CASE j <= p
    <3>1. j \in 1 .. n + 1 /\ y[j] = x[j]
      BY <1>1, <1>2, <1>5, <2>1
    <3> QED
      BY <3>1
  <2>2. CASE ~(j <= p)
    <3>1. j + 1 \in 1 .. n + 1 /\ y[j + 1] = x[j]
      BY <1>1, <1>2, <1>5, <2>2
    <3> QED
      BY <3>1
  <2> QED
    BY <2>1, <2>2
<1> QED
  BY <1>6, <1>7, <1>8 DEF n, y

(* A round keeps an event that is always due, and the room to put it. *)
LEMMA RoundKeepsDue ==
  ASSUME NEW v, Waiting(v), v.size > 0, HeadEvent(v).out <= MaxTime, ~Exhausted(v),
         NEW k \in 1 .. v.size, AlwaysDue(Data(v)[k])
  PROVE  /\ Waiting(Fired(v)) /\ ~Exhausted(Fired(v))
         /\ \E i \in 1 .. Fired(v).size : Data(Fired(v))[i] = Data(v)[k]
<1> DEFINE x == Data(v)
           w == Fired(v)
           y == Tail(x)
           n == v.size
           e == Ordered!Later(Head(x))
<1>1. /\ n \in Nat \ {0} /\ Len(x) = n /\ y \in Seq(Event) /\ Len(y) = n - 1
      /\ Head(x) = x[1] /\ HeadEvent(v) = x[1] /\ x[1] \in Event
      /\ \A i \in 1 .. n - 1 : y[i] = x[i + 1]
  BY HeadAndTail
<1>2. n < Cells /\ Cells \in Nat
  <2>1. Linked(v)
    BY DEF Waiting
  <2>2. n <= Cells /\ n # Cells
    BY <2>1, FullIs
  <2> QED
    BY <1>1, <2>2, CvectorAssumption
<1>3. /\ Waiting(w)
      /\ Data(w) = IF Head(x).periodic /\ Len(x) < Cells THEN Ordered!Put(y, e) ELSE y
  BY FiredIsFire
<1>4. /\ Linked(w) /\ w.size \in Nat /\ Len(Data(w)) = w.size
      /\ w.size <= Cells /\ (Exhausted(w) <=> w.size = Cells)
  BY <1>3, LinkedData, FullIs DEF Waiting
<1>5. e \in Event /\ (k = 1 => Head(x).periodic /\ e = x[1])
  <2>1. e = Again(x[1]) /\ e \in Event
    BY <1>1, AgainIs DEF Again, Ordered!Later
  <2>2. CASE k = 1
    <3>1. x[1].periodic /\ x[1].delay = 0
      BY <2>2 DEF AlwaysDue
    <3>2. PICK c \in Kind : x[1] = EventOf(c, x[1].out) /\ x[1].out \in Nat
      BY <1>1, EventFields
    <3>3. Again(x[1]) = [x[1] EXCEPT !.out = x[1].out + x[1].delay]
      BY DEF Again
    <3>4. x[1].out + x[1].delay = x[1].out
      BY <3>1, <3>2
    <3>5. Again(x[1]) = x[1]
      BY <3>2, <3>3, <3>4 DEF EventOf
    <3> QED
      BY <1>1, <2>1, <3>1, <3>5
  <2> QED
    BY <2>1, <2>2
<1>6. k # 1 => k - 1 \in 1 .. n - 1 /\ y[k - 1] = x[k]
  BY <1>1
<1> HIDE DEF w, y, e, x, n
<1>7. CASE Head(x).periodic
  <2>1. Data(w) = Ordered!Put(y, e)
    BY <1>1, <1>2, <1>3, <1>7
  <2>2. Len(y) < Cells
    BY <1>1, <1>2
  <2>3. /\ Len(Data(w)) = Len(y) + 1
        /\ \E i \in 1 .. Len(y) + 1 : Data(w)[i] = e
        /\ \A j \in 1 .. Len(y) : \E i \in 1 .. Len(y) + 1 : Data(w)[i] = y[j]
    <3>1. /\ Len(Ordered!Put(y, e)) = Len(y) + 1
          /\ \E i \in 1 .. Len(y) + 1 : Ordered!Put(y, e)[i] = e
          /\ \A j \in 1 .. Len(y) : \E i \in 1 .. Len(y) + 1 : Ordered!Put(y, e)[i] = y[j]
      <4>1. y \in Seq(Event) /\ e \in Event
        BY <1>1, <1>5
      <4> QED
        BY <2>2, <4>1, PutKeeps
    <3> QED
      BY <2>1, <3>1
  <2>4. w.size = n
    BY <1>1, <1>4, <2>3
  <2>5. \E i \in 1 .. w.size : Data(w)[i] = x[k]
    <3>1. CASE k = 1
      BY <1>1, <1>4, <1>5, <2>3, <3>1
    <3>2. CASE k # 1
      BY <1>1, <1>4, <1>6, <2>3, <3>2
    <3> QED
      BY <3>1, <3>2
  <2> QED
    BY <1>2, <1>3, <1>4, <2>4, <2>5 DEF w, x, n
<1>8. CASE ~Head(x).periodic
  <2>1. Data(w) = y /\ w.size = n - 1
    BY <1>1, <1>3, <1>4, <1>8
  <2>2. k # 1
    BY <1>5, <1>8
  <2>3. w.size # Cells
    BY <1>1, <1>2, <2>1
  <2> QED
    BY <1>3, <1>4, <1>6, <2>1, <2>2, <2>3 DEF w, x, n
<1> QED
  BY <1>7, <1>8

(* An event that is due makes the first one due. *)
LEMMA DueIsHeadDue ==
  ASSUME Waiting(queue), NEW k \in 1 .. queue.size, AlwaysDue(Data(queue)[k]), now \in Nat
  PROVE  HeadDue
<1>1. /\ queue.size \in Nat \ {0} /\ HeadEvent(queue) = Data(queue)[1]
      /\ 1 \in 1 .. queue.size
  <2>1. queue.size \in Nat
    BY LinkedSize DEF Waiting
  <2>2. queue.size > 0
    BY <2>1
  <2> QED
    BY <2>1, <2>2, HeadAndTail
<1>2. Data(queue)[1].out <= Data(queue)[k].out
  BY <1>1 DEF Waiting, InOrder
<1>3. Data(queue)[1].out \in Nat /\ Data(queue)[k].out \in Nat
  BY <1>1, EventFields DEF Waiting
<1>4. Data(queue)[k].out <= now
  BY DEF AlwaysDue
<1> QED
  BY <1>1, <1>2, <1>3, <1>4 DEF HeadDue

(* The handler in the loop keeps everybody else from the queue, and does not
   leave before nothing is due. *)
LEMMA EndlessStays ==
  ASSUME QueueInv, NEW t \in Thread, Endless(t), [Next]_vars
  PROVE  Endless(t)'
<1>1. /\ lock = <<t, "alarm">> /\ alarm[t] = "loop" /\ ~Exhausted(queue)
      /\ IInv /\ Waiting(queue) /\ now \in Nat
  BY DEF QueueInv, IInv, Exclusive, Endless, Handling
<1>2. PICK k \in 1 .. queue.size : AlwaysDue(Data(queue)[k])
  BY DEF Endless
<1>3. lock # Unlocked
  BY <1>1, TimerAssumption
<1>4. HeadDue
  BY <1>1, <1>2, DueIsHeadDue
<1>5. ASSUME UNCHANGED queue, alarm'[t] = "loop", now' \in Nat, now' >= now
      PROVE  Endless(t)'
  <2>1. AlwaysDue(Data(queue)[k])'
    <3>1. Data(queue)[k] \in Event
      BY <1>1 DEF Waiting
    <3>2. Data(queue)[k].out \in Nat
      BY <3>1, EventFields
    <3> QED
      BY <1>1, <1>2, <1>5, <3>2 DEF AlwaysDue
  <2> QED
    BY <1>1, <1>2, <1>5, <2>1 DEF Endless
<1>6. ASSUME NEW u \in Thread, BeginAdd(u) \/ BeginRemove(u) \/ CallStep(u)
      PROVE  UNCHANGED <<now, queue, alarm>>
  <2>1. pc[u] \notin Holding
    BY <1>1 DEF IInv, Exclusive
  <2> QED
    BY <1>6, <2>1 DEF BeginAdd, BeginRemove, CallStep, SeeNotChecking, Acquire, InsertEvent,
       StartFromCall, EraseEvent, ReleaseCall, At, Holding, queueVars
<1>7. ASSUME NEW u \in Thread, Deliver(u)
      PROVE  UNCHANGED <<now, queue>> /\ alarm'[t] = "loop"
  BY <1>1, <1>7 DEF Deliver, AlarmTo, queueVars, IInv
<1>8. ASSUME NEW u \in Thread, AlarmStep(u)
      PROVE  u = t /\ AlarmFire(t)
  <2>1. alarm[u] \in Handling => u = t
    BY <1>1 DEF IInv, Exclusive
  <2> QED
    BY <1>1, <1>3, <1>4, <1>8, <2>1 DEF AlarmStep, AlarmLock, AlarmFire, AlarmLeaveLoop, AlarmArm,
       AlarmRelease, AlarmTo, Handling
<1>9. ASSUME AlarmFire(t) PROVE Endless(t)'
  <2>1. /\ queue' = Fired(queue) /\ queue.size > 0 /\ HeadEvent(queue).out <= now
        /\ alarm' = [alarm EXCEPT ![t] = "loop"] /\ now' = now
    BY <1>9, FireIs
  <2>2. HeadEvent(queue).out <= MaxTime
    <3>1. HeadEvent(queue) \in Event
      BY <1>1, <2>1, HeadAndTail
    <3>2. HeadEvent(queue).out \in Nat /\ now \in 0 .. MaxTime /\ MaxTime \in Nat
      BY <3>1, EventFields, TimerAssumption DEF QueueInv, Clock
    <3> QED
      BY <2>1, <3>2
  <2>3. /\ ~Exhausted(Fired(queue))
        /\ \E i \in 1 .. Fired(queue).size : Data(Fired(queue))[i] = Data(queue)[k]
    BY <1>1, <1>2, <2>1, <2>2, RoundKeepsDue
  <2>4. ~Exhausted(queue')
        /\ \E i \in 1 .. queue'.size : Data(queue')[i] = Data(queue)[k]
    BY <2>1, <2>3
  <2>5. alarm'[t] = "loop"
    BY <1>1, <2>1 DEF IInv
  <2>6. Data(queue)[k].periodic /\ Data(queue)[k].delay = 0 /\ Data(queue)[k].out <= now'
    BY <1>2, <2>1 DEF AlwaysDue
  <2> QED
    BY <2>4, <2>5, <2>6 DEF Endless, AlwaysDue
<1>10. CASE Tick \/ Expire \/ UNCHANGED vars
  <2>1. UNCHANGED <<queue, alarm>> /\ now' \in Nat /\ now' >= now
    BY <1>1, <1>10 DEF Tick, Expire, vars, queueVars
  <2> QED
    BY <1>1, <1>5, <2>1
<1> QED
  BY <1>1, <1>5, <1>6, <1>7, <1>8, <1>9, <1>10 DEF Next

(* A timer that was disarmed with zero, a handler that waits for the lock of
   the call below it, or one that finds an event of period zero due, is the end
   of the timer queue: no number of later calls, threads or ticks brings it
   back (stimer_queue_start, stimer_queue_check). *)
THEOREM NeverRecovers == Spec => NoRecovery
<1>1. Init => QueueInv
  BY InitQueue
<1>2. QueueInv /\ [Next]_vars => QueueInv'
  BY NextKeeps, ArgsStep, StepIsOrdered DEF QueueInv
<1>3. QueueInv /\ [Next]_vars =>
        [/\ Stopped => Stopped'
         /\ \A t \in Thread : /\ SelfLocked(t) => SelfLocked(t)'
                              /\ Endless(t) => Endless(t)']_vars
  BY StoppedStays, LockedOutStays, EndlessStays DEF QueueInv
<1> QED BY <1>1, <1>2, <1>3, PTL DEF Spec, NoRecovery

-----------------------------------------------------------------------------
(* The timer. *)

(* No event of the vector is due before out. *)
NoneBefore(v, out) == \A i \in 1 .. v.size : out <= Data(v)[i].out

(* Nor is one after the insertion of an event that is not earlier. *)
LEMMA InsertNoneBefore ==
  ASSUME NEW v, Linked(v), NEW out, NoneBefore(v, out), NEW e, out <= e.out
  PROVE  NoneBefore(OrderInsert(v, e), out)
<1> DEFINE n == v.size
           p == Place(v, e)
           u == OrderInsert(v, e)
<1>1. n \in Nat /\ p \in 0 .. n
  BY LinkedSize, PlaceIn
<1>2. u = Insert(v, p, e)
  BY DEF OrderInsert
<1> HIDE DEF p, u
<1>3. CASE Exhausted(v)
  <2>1. u = v
    BY <1>1, <1>2, <1>3, InsertData
  <2> QED
    BY <2>1 DEF u
<1>4. CASE ~Exhausted(v)
  <2>1. u.size = n + 1 /\ Data(u) = With(Data(v), n, p, e)
    BY <1>1, <1>2, <1>4, InsertData
  <2>2. ASSUME NEW i \in 1 .. n + 1 PROVE out <= With(Data(v), n, p, e)[i].out
    <3>1. With(Data(v), n, p, e)[i] = IF i <= p THEN Data(v)[i]
                                      ELSE IF i = p + 1 THEN e ELSE Data(v)[i - 1]
      BY DEF With
    <3>2. CASE i <= p
      <4>1. i \in 1 .. n
        BY <1>1, <3>2
      <4> QED
        BY <3>1, <3>2, <4>1 DEF NoneBefore
    <3>3. CASE i = p + 1
      BY <1>1, <3>1, <3>3
    <3>4. CASE ~(i <= p) /\ i # p + 1
      <4>1. i - 1 \in 1 .. n
        BY <1>1, <3>4
      <4> QED
        BY <3>1, <3>4, <4>1 DEF NoneBefore
    <3> QED
      BY <3>2, <3>3, <3>4
  <2>3. NoneBefore(u, out)
    BY <2>1, <2>2 DEF NoneBefore
  <2> QED
    BY <2>3 DEF u
<1> QED
  BY <1>3, <1>4

(* Taking an event out brings no earlier one in. *)
LEMMA WithoutNoneBefore ==
  ASSUME NEW v, v.size \in Nat, NEW out, NoneBefore(v, out), NEW i \in 0 .. v.size - 1,
         NEW u, u.size = v.size - 1, Data(u) = Without(Data(v), v.size, i)
  PROVE  NoneBefore(u, out)
<1> SUFFICES ASSUME NEW j \in 1 .. v.size - 1 PROVE out <= Data(u)[j].out
  BY DEF NoneBefore
<1>1. Data(u)[j] = IF j <= i THEN Data(v)[j] ELSE Data(v)[j + 1]
  BY DEF Without
<1>2. j \in 1 .. v.size /\ j + 1 \in 1 .. v.size
  OBVIOUS
<1> QED
  BY <1>1, <1>2 DEF NoneBefore

(* The same for a removal by name. *)
LEMMA RemovedNoneBefore ==
  ASSUME NEW v, Linked(v), NEW out, NoneBefore(v, out), NEW n
  PROVE  NoneBefore(Removed(v, n), out)
<1>1. CASE Matching(v, n) = {}
  BY <1>1 DEF Removed
<1>2. CASE Matching(v, n) # {}
  <2>1. PICK i \in Matching(v, n) : Removed(v, n) = Erase(v, i)
    BY <1>2, RemovedIs
  <2>2. i \in 0 .. v.size - 1 /\ v.size \in Nat
    BY LinkedSize DEF Matching
  <2>3. /\ Erase(v, i).size = v.size - 1
        /\ Data(Erase(v, i)) = Without(Data(v), v.size, i)
    BY <2>2, EraseData
  <2> QED
    BY <2>1, <2>2, <2>3, WithoutNoneBefore
<1> QED
  BY <1>1, <1>2

(* The same for an expiry: a periodic event comes back later. *)
LEMMA FiredNoneBefore ==
  ASSUME NEW v, Waiting(v), v.size > 0, NEW out \in Nat, NoneBefore(v, out)
  PROVE  NoneBefore(Fired(v), out)
<1>1. Linked(v) /\ v.size \in Nat /\ v.size \in Nat \ {0}
  BY LinkedSize DEF Waiting
<1>2. ASSUME NEW u, Linked(u), u.size > 0, NoneBefore(u, out)
      PROVE  NoneBefore(Pophead(u), out)
  <2>1. u.size \in Nat /\ 0 \in 0 .. u.size - 1
    BY <1>2, LinkedSize
  <2>2. Pophead(u).size = u.size - 1 /\ Data(Pophead(u)) = Without(Data(u), u.size, 0)
    BY <1>2, PopheadData
  <2> QED
    BY <1>2, <2>1, <2>2, WithoutNoneBefore
<1>3. CASE ~HeadEvent(v).periodic
  <2>1. Fired(v) = Pophead(v)
    BY <1>3 DEF Fired
  <2> QED
    BY <1>1, <1>2, <2>1
<1>4. CASE HeadEvent(v).periodic
  <2> DEFINE e == Again(HeadEvent(v))
             w == [v EXCEPT !.cell[v.head].data = e]
             u == OrderInsert(w, e)
  <2>1. HeadEvent(v) = Data(v)[1] /\ Data(v)[1] \in Event
    BY HeadAndTail
  <2>2. out <= e.out
    <3>1. out <= Data(v)[1].out
      BY <1>1 DEF NoneBefore
    <3>2. /\ \E k \in Kind : Data(v)[1] = EventOf(k, Data(v)[1].out)
          /\ Data(v)[1].out \in Nat /\ Data(v)[1].delay \in Nat
      BY <2>1, EventFields
    <3>3. e.out = Data(v)[1].out + Data(v)[1].delay
      BY <2>1, <3>2 DEF Again, EventOf
    <3> HIDE DEF e
    <3> QED
      BY <3>1, <3>2, <3>3
  <2>3. Linked(w) /\ w.size = v.size /\ Data(w) = [Data(v) EXCEPT ![1] = e]
    BY <1>1, HeadData
  <2>4. Fired(v) = Pophead(u)
    BY <1>4 DEF Fired
  <2> HIDE DEF e, w
  <2>5. NoneBefore(w, out)
    <3>1. ASSUME NEW i \in 1 .. v.size PROVE out <= Data(w)[i].out
      <4>1. DOMAIN Data(v) = 1 .. v.size
        BY DEF Data
      <4>2. Data(w)[i] = IF i = 1 THEN e ELSE Data(v)[i]
        BY <2>3, <4>1
      <4>3. CASE i = 1
        BY <2>2, <4>2, <4>3
      <4>4. CASE i # 1
        BY <4>2, <4>4 DEF NoneBefore
      <4> QED
        BY <4>3, <4>4
    <3> QED
      BY <2>3, <3>1 DEF NoneBefore
  <2>6. Linked(u) /\ NoneBefore(u, out)
    BY <2>2, <2>3, <2>5, OrderInsertLinked, InsertNoneBefore
  <2>7. u.size > 0
    <3>1. w.size \in Nat /\ Place(w, e) \in 0 .. w.size
      BY <2>3, LinkedSize, PlaceIn
    <3>2. Exhausted(w) => Insert(w, Place(w, e), e) = w
      BY <2>3, <3>1, InsertData
    <3>3. ~Exhausted(w) => Insert(w, Place(w, e), e).size = w.size + 1
      BY <2>3, <3>1, InsertData
    <3> QED
      BY <1>1, <2>3, <3>1, <3>2, <3>3 DEF OrderInsert
  <2> HIDE DEF u
  <2> QED
    BY <1>2, <2>4, <2>6, <2>7
<1> QED
  BY <1>3, <1>4

(* The timer is set for next_outtime, the signal is on its way, or the handler
   has yet to come to stimer_queue_start. *)
TimerSet == \/ armed = Zeroed
            \/ armed \in Nat /\ armed <= Later(next_outtime, now)
            \/ pending
            \/ \E t \in Thread : alarm[t] \in {"lock", "loop", "arm"}

(* Unless a call is about to set the timer, start_flag and next_outtime tell
   what is in the queue, and the timer goes with them. *)
Cover == /\ (\A t \in Thread : pc[t] # "start") =>
              /\ queue.size > 0 => start_flag = 1
              /\ NoneBefore(queue, next_outtime)
              /\ start_flag = 1 => TimerSet
         /\ \A t \in Thread : pc[t] = "start" => start_flag = 1

TimerInv == /\ QueueInv
            /\ start_flag \in {0, 1}
            /\ next_outtime \in Nat
            /\ armed \in Nat \cup {Off, Zeroed}
            /\ Cover

(* The initial state satisfies the invariant of the timer. *)
LEMMA InitTimer == Init => TimerInv
<1>1. Init => Cover
  BY DEF Init, Cover, NoneBefore, NewVector
<1> QED
  BY <1>1, InitQueue DEF Init, TimerInv

(* stimer_queue_start brings all of them up to date. *)
LEMMA StartCovers ==
  ASSUME TimerInv, StartTimer, UNCHANGED <<now, queue>>
  PROVE  /\ start_flag' \in {0, 1} /\ next_outtime' \in Nat /\ armed' \in Nat \cup {Off, Zeroed}
         /\ NoneBefore(queue', next_outtime')
         /\ queue.size > 0 => /\ start_flag' = start_flag
                              /\ \/ armed' = Zeroed
                                 \/ armed' \in Nat /\ armed' <= Later(next_outtime', now')
         /\ ~(queue.size > 0) => start_flag' = 0
<1>0. Waiting(queue) /\ now \in Nat
  BY DEF TimerInv, QueueInv, IInv
<1>1. queue.size \in Nat
  BY <1>0, LinkedSize DEF Waiting
<1>2. CASE queue.size = 0
  <2>1. NoneBefore(queue', next_outtime')
    BY <1>2 DEF NoneBefore
  <2> QED
    BY <1>2, <2>1 DEF StartTimer, TimerInv
<1>3. CASE queue.size > 0
  <2> DEFINE x == Data(queue)
             h == HeadEvent(queue)
  <2>1. h = x[1] /\ h \in Event /\ queue.size # 0
    BY <1>0, <1>3, HeadAndTail
  <2>2. h.out \in Nat
    BY <2>1, EventFields
  <2>3. /\ armed' = TimerFor(h.out) /\ next_outtime' = h.out
        /\ start_flag' = start_flag
    BY <2>1 DEF StartTimer
  <2>4. NoneBefore(queue, h.out)
    <3>1. \A i \in 1 .. queue.size : 1 \in 1 .. queue.size /\ 1 <= i
      BY <1>1
    <3>2. \A i, j \in 1 .. queue.size : i <= j => x[i].out <= x[j].out
      BY <1>0 DEF Waiting, InOrder
    <3> QED
      BY <2>1, <3>1, <3>2 DEF NoneBefore
  <2> HIDE DEF h, x
  <2>5. \/ armed' = Zeroed
        \/ armed' \in Nat /\ armed' <= Later(h.out, now)
    <3>1. CASE h.out < now
      BY <1>0, <2>2, <2>3, <3>1 DEF TimerFor, Later
    <3>2. CASE h.out = now
      BY <1>0, <2>2, <2>3, <3>2 DEF TimerFor
    <3>3. CASE h.out > now
      BY <1>0, <2>2, <2>3, <3>3 DEF TimerFor, Later
    <3> QED
      BY <1>0, <2>2, <3>1, <3>2, <3>3
  <2>6. /\ start_flag' \in {0, 1} /\ next_outtime' \in Nat
        /\ armed' \in Nat \cup {Off, Zeroed}
    BY <2>2, <2>3, <2>5 DEF TimerInv
  <2>7. NoneBefore(queue', next_outtime')
    BY <2>3, <2>4
  <2>8. \/ armed' = Zeroed
        \/ armed' \in Nat /\ armed' <= Later(next_outtime', now')
    BY <2>3, <2>5
  <2>9. start_flag' = start_flag
    BY <2>3
  <2> QED
    BY <1>3, <2>6, <2>7, <2>8, <2>9
<1> QED
  BY <1>1, <1>2, <1>3

(* The types of the timer's variables are kept, and their relation by what
   does not touch them. *)
LEMMA StillCovers ==
  ASSUME TimerInv, UNCHANGED <<now, queue, start_flag, next_outtime, armed, pending, alarm>>,
         \A t \in Thread : pc'[t] = "start" <=> pc[t] = "start"
  PROVE  /\ start_flag' \in {0, 1} /\ next_outtime' \in Nat
         /\ armed' \in Nat \cup {Off, Zeroed}
         /\ Cover'
<1>1. TimerSet' <=> TimerSet
  BY DEF TimerSet
<1>2. NoneBefore(queue', next_outtime') <=> NoneBefore(queue, next_outtime)
  OBVIOUS
<1> QED
  BY <1>1, <1>2 DEF TimerInv, Cover

Covered == /\ start_flag' \in {0, 1} /\ next_outtime' \in Nat
           /\ armed' \in Nat \cup {Off, Zeroed}
           /\ Cover'

(* Every step of a call keeps it. *)
LEMMA CallCovers ==
  ASSUME TimerInv, NEW t \in Thread, BeginAdd(t) \/ BeginRemove(t) \/ CallStep(t)
  PROVE  Covered
<1>0. DOMAIN pc = Thread /\ Waiting(queue) /\ Linked(queue) /\ next_outtime \in Nat
      /\ start_flag \in {0, 1}
  BY DEF TimerInv, QueueInv, IInv, Waiting
<1>1. CASE BeginAdd(t) \/ BeginRemove(t) \/ SeeNotChecking(t) \/ Acquire(t) \/ ReleaseCall(t)
  <2>1. \A u \in Thread : pc'[u] = "start" <=> pc[u] = "start"
    BY <1>0, <1>1 DEF BeginAdd, BeginRemove, SeeNotChecking, Acquire, ReleaseCall, At, Goto
  <2>2. UNCHANGED <<now, queue, start_flag, next_outtime, armed, pending, alarm>>
    BY <1>1 DEF BeginAdd, BeginRemove, SeeNotChecking, Acquire, ReleaseCall, queueVars
  <2> QED
    BY <2>1, <2>2, StillCovers DEF Covered
<1>2. CASE InsertEvent(t)
  <2> DEFINE e == arg[t]
  <2>1. /\ pc[t] = "insert" /\ start_flag' = 1 /\ queue' = OrderInsert(queue, e)
        /\ UNCHANGED <<now, next_outtime, armed, pending, alarm>>
        /\ pc' = [pc EXCEPT ![t] = IF start_flag = 0 \/ CutsIn(e) THEN "start" ELSE "unlock"]
    BY <1>2 DEF InsertEvent, At, Goto
  <2>2. CASE pc'[t] = "start"
    <3>1. Cover'
      BY <2>1, <2>2 DEF Cover
    <3> QED
      BY <2>1, <3>1 DEF Covered, TimerInv
  <2>3. CASE pc'[t] # "start"
    <3>1. start_flag = 1 /\ ~CutsIn(e) /\ pc'[t] = "unlock"
      BY <1>0, <2>1, <2>3
    <3>2. next_outtime <= e.out
      <4>1. e.out \in Nat
        BY <2>1 DEF TimerInv, QueueInv, IInv, Timed, Adding
      <4> HIDE DEF e
      <4> QED
        BY <1>0, <3>1, <4>1 DEF CutsIn
    <3>3. ASSUME \A u \in Thread : pc'[u] # "start"
          PROVE  /\ NoneBefore(queue', next_outtime')
                 /\ TimerSet'
      <4>1. \A u \in Thread : pc[u] # "start"
        BY <1>0, <2>1, <3>3
      <4>2. NoneBefore(queue, next_outtime) /\ TimerSet
        BY <3>1, <4>1 DEF TimerInv, Cover
      <4>3. NoneBefore(queue', next_outtime)
        BY <1>0, <2>1, <3>2, <4>2, InsertNoneBefore
      <4>4. TimerSet'
        BY <2>1, <4>2 DEF TimerSet
      <4> QED
        BY <2>1, <4>3, <4>4
    <3>4. Cover'
      BY <2>1, <3>3 DEF Cover
    <3> QED
      BY <2>1, <3>4 DEF Covered, TimerInv
  <2> QED
    BY <2>2, <2>3
<1>3. CASE StartFromCall(t)
  <2>1. /\ pc[t] = "start" /\ StartTimer /\ pc' = [pc EXCEPT ![t] = "unlock"]
        /\ UNCHANGED <<now, queue, pending, alarm>>
    BY <1>3 DEF StartFromCall, At, Goto
  <2>2. start_flag = 1
    BY <2>1 DEF TimerInv, Cover
  <2>3. /\ start_flag' \in {0, 1} /\ next_outtime' \in Nat /\ armed' \in Nat \cup {Off, Zeroed}
        /\ NoneBefore(queue', next_outtime')
        /\ queue.size > 0 => start_flag' = start_flag /\ TimerSet'
        /\ ~(queue.size > 0) => start_flag' = 0
    BY <2>1, StartCovers DEF TimerSet
  <2>4. \A u \in Thread : pc'[u] # "start" \/ u # t
    BY <1>0, <2>1
  <2>5. ASSUME NEW u \in Thread, pc'[u] = "start" PROVE FALSE
    <3>1. pc[u] = "start" /\ u # t
      BY <1>0, <2>1, <2>5
    <3>2. lock = <<u, "call">> /\ lock = <<t, "call">>
      BY <2>1, <3>1 DEF TimerInv, QueueInv, IInv, Exclusive, Holding
    <3> QED
      BY <3>1, <3>2
  <2>6. Cover'
    BY <2>1, <2>2, <2>3, <2>5 DEF Cover
  <2> QED
    BY <2>3, <2>6 DEF Covered
<1>4. CASE EraseEvent(t)
  <2>1. /\ pc[t] = "erase" /\ queue' = Removed(queue, arg[t])
        /\ UNCHANGED <<now, start_flag, next_outtime, armed, pending, alarm>>
        /\ pc' = [pc EXCEPT ![t] = "unlock"]
    BY <1>4 DEF EraseEvent, At, Goto
  <2>2. \A u \in Thread : pc'[u] = "start" <=> pc[u] = "start"
    BY <1>0, <2>1
  <2>3. NoneBefore(queue, next_outtime) => NoneBefore(queue', next_outtime')
    BY <1>0, <2>1, RemovedNoneBefore
  <2>4. queue'.size > 0 => queue.size > 0
    <3>1. Matching(queue, arg[t]) # {} => queue.size > 0
      <4>1. queue.size \in Nat
        BY <1>0, LinkedSize
      <4> QED
        BY <4>1 DEF Matching
    <3>2. Matching(queue, arg[t]) = {} => queue' = queue
      BY <2>1 DEF Removed
    <3> QED
      BY <3>1, <3>2
  <2>5. TimerSet' <=> TimerSet
    BY <2>1 DEF TimerSet
  <2>6. Cover'
    BY <2>1, <2>2, <2>3, <2>4, <2>5 DEF Cover, TimerInv
  <2> QED
    BY <2>1, <2>6 DEF Covered, TimerInv
<1> QED
  BY <1>1, <1>2, <1>3, <1>4 DEF CallStep

(* Every step of the handler keeps it. *)
LEMMA AlarmCovers ==
  ASSUME TimerInv, NEW t \in Thread, Deliver(t) \/ AlarmStep(t)
  PROVE  Covered
<1>0. /\ Waiting(queue) /\ next_outtime \in Nat /\ pc' = pc /\ now' = now
      /\ DOMAIN alarm = Thread
  BY DEF TimerInv, QueueInv, IInv, Deliver, AlarmStep, AlarmLock, AlarmFire, AlarmLeaveLoop,
         AlarmArm, AlarmRelease, AlarmTo
<1>1. CASE Deliver(t) \/ AlarmLock(t) \/ AlarmLeaveLoop(t)
  <2>1. UNCHANGED <<queue, start_flag, next_outtime, armed>>
    BY <1>1 DEF Deliver, AlarmLock, AlarmLeaveLoop, queueVars
  <2>2. alarm'[t] \in {"lock", "loop", "arm"}
    BY <1>0, <1>1 DEF Deliver, AlarmLock, AlarmLeaveLoop, AlarmTo
  <2>3. TimerSet'
    BY <2>2 DEF TimerSet
  <2>4. NoneBefore(queue', next_outtime') <=> NoneBefore(queue, next_outtime)
    BY <2>1
  <2>5. Cover'
    BY <1>0, <2>1, <2>3, <2>4 DEF Cover, TimerInv
  <2> QED
    BY <2>1, <2>5 DEF Covered, TimerInv
<1>2. CASE AlarmFire(t)
  <2>1. /\ UNCHANGED <<start_flag, next_outtime, armed, pending>>
        /\ queue' = Fired(queue) /\ queue.size > 0
        /\ alarm'[t] = "loop"
    BY <1>0, <1>2, FireIs
  <2>2. TimerSet'
    BY <2>1 DEF TimerSet
  <2>3. NoneBefore(queue, next_outtime) => NoneBefore(queue', next_outtime')
    BY <1>0, <2>1, FiredNoneBefore
  <2>4. Cover'
    BY <1>0, <2>1, <2>2, <2>3 DEF Cover, TimerInv
  <2> QED
    BY <2>1, <2>4 DEF Covered, TimerInv
<1>3. CASE AlarmArm(t)
  <2>1. StartTimer /\ UNCHANGED <<queue, pending>> /\ alarm[t] = "arm"
    BY <1>3 DEF AlarmArm, AlarmTo
  <2>2. ASSUME NEW u \in Thread, pc[u] = "start" PROVE FALSE
    <3>1. lock = <<u, "call">> /\ lock = <<t, "alarm">>
      BY <2>1, <2>2 DEF TimerInv, QueueInv, IInv, Exclusive, Holding, Handling
    <3> QED
      BY <3>1
  <2>3. queue.size > 0 => start_flag = 1
    BY <2>2 DEF TimerInv, Cover
  <2>4. /\ start_flag' \in {0, 1} /\ next_outtime' \in Nat /\ armed' \in Nat \cup {Off, Zeroed}
        /\ NoneBefore(queue', next_outtime')
        /\ queue.size > 0 => start_flag' = start_flag /\ TimerSet'
        /\ ~(queue.size > 0) => start_flag' = 0
    BY <1>0, <2>1, StartCovers DEF TimerSet
  <2>5. Cover'
    BY <1>0, <2>1, <2>2, <2>3, <2>4 DEF Cover
  <2> QED
    BY <2>4, <2>5 DEF Covered
<1>4. CASE AlarmRelease(t)
  <2>1. /\ UNCHANGED <<queue, start_flag, next_outtime, armed, pending>>
        /\ alarm[t] = "release" /\ alarm' = [alarm EXCEPT ![t] = "none"]
    BY <1>4 DEF AlarmRelease, AlarmTo, queueVars
  <2>2. TimerSet => TimerSet'
    <3>1. \A u \in Thread : alarm[u] \in {"lock", "loop", "arm"} => alarm'[u] = alarm[u]
      BY <1>0, <2>1
    <3> QED
      BY <1>0, <2>1, <3>1 DEF TimerSet
  <2>3. NoneBefore(queue', next_outtime') <=> NoneBefore(queue, next_outtime)
    BY <2>1
  <2>4. Cover'
    BY <1>0, <2>1, <2>2, <2>3 DEF Cover, TimerInv
  <2> QED
    BY <2>1, <2>4 DEF Covered, TimerInv
<1> QED
  BY <1>1, <1>2, <1>3, <1>4 DEF AlarmStep

(* Every step keeps the invariant of the timer. *)
LEMMA NextCovers == TimerInv /\ [Next]_vars => TimerInv'
<1> SUFFICES ASSUME TimerInv, [Next]_vars PROVE TimerInv'
  OBVIOUS
<1>1. QueueInv'
  BY NextKeeps, ArgsStep, StepIsOrdered DEF QueueInv, TimerInv
<1>2. CASE Tick
  <2>1. /\ UNCHANGED <<queue, start_flag, next_outtime, armed, pending, alarm, pc>>
        /\ now' = now + 1 /\ now \in Nat /\ next_outtime \in Nat
    BY <1>2 DEF Tick, queueVars, TimerInv, QueueInv, IInv
  <2>2. ASSUME armed \in Nat, armed <= Later(next_outtime, now)
        PROVE  armed <= Later(next_outtime, now')
    BY <2>1, <2>2 DEF Later
  <2>3. TimerSet => TimerSet'
    BY <2>1, <2>2 DEF TimerSet
  <2>4. NoneBefore(queue', next_outtime') <=> NoneBefore(queue, next_outtime)
    BY <2>1
  <2>5. Cover'
    BY <2>1, <2>3, <2>4 DEF Cover, TimerInv
  <2> QED
    BY <1>1, <2>1, <2>5 DEF TimerInv
<1>3. CASE Expire
  <2>1. UNCHANGED <<now, queue, start_flag, next_outtime, alarm, pc>> /\ pending' /\ armed' = Off
    BY <1>3 DEF Expire
  <2>2. TimerSet'
    BY <2>1 DEF TimerSet
  <2>3. NoneBefore(queue', next_outtime') <=> NoneBefore(queue, next_outtime)
    BY <2>1
  <2>4. Cover'
    BY <2>1, <2>2, <2>3 DEF Cover, TimerInv
  <2> QED
    BY <1>1, <2>1, <2>4 DEF TimerInv
<1>4. CASE UNCHANGED vars
  <2>1. Covered
    BY <1>4, StillCovers DEF vars, queueVars, Covered
  <2> QED
    BY <1>1, <2>1 DEF Covered, TimerInv
<1>5. ASSUME NEW t \in Thread, \/ BeginAdd(t) \/ BeginRemove(t) \/ CallStep(t)
                              \/ Deliver(t) \/ AlarmStep(t)
      PROVE  TimerInv'
  <2>1. Covered
    BY <1>5, CallCovers, AlarmCovers
  <2> QED
    BY <1>1, <2>1 DEF Covered, TimerInv
<1> QED
  BY <1>2, <1>3, <1>4, <1>5 DEF Next

(* Whenever the lock is free and events wait, start_flag and next_outtime know
   of the first, and the timer is set for it in time, the signal is on its way
   or the timer was disarmed with zero, however calls and handlers interleave
   (stimer_queue_start, the test on next_outtime in the adds). *)
THEOREM TimerCovers == Spec => []TimerCoversHead
<1>1. TimerInv => TimerCoversHead
  <2> SUFFICES ASSUME TimerInv, lock = Unlocked, queue.size > 0
               PROVE  /\ start_flag = 1 /\ next_outtime <= HeadEvent(queue).out
                      /\ \/ HandlerUnderWay
                         \/ armed = Zeroed
                         \/ armed \in Nat /\ armed <= Later(HeadEvent(queue).out, now)
    BY DEF TimerCoversHead
  <2>1. ASSUME NEW t \in Thread, pc[t] = "start" PROVE FALSE
    <3>1. lock = <<t, "call">>
      BY <2>1 DEF TimerInv, QueueInv, IInv, Exclusive, Holding
    <3> QED
      BY <3>1, TimerAssumption
  <2>2. start_flag = 1 /\ NoneBefore(queue, next_outtime) /\ TimerSet
    BY <2>1 DEF TimerInv, Cover
  <2>3. /\ HeadEvent(queue) = Data(queue)[1] /\ Data(queue)[1] \in Event
        /\ queue.size \in Nat \ {0}
    BY HeadAndTail DEF TimerInv, QueueInv
  <2>4. next_outtime <= HeadEvent(queue).out
    BY <2>2, <2>3 DEF NoneBefore
  <2>5. HeadEvent(queue).out \in Nat /\ next_outtime \in Nat /\ now \in Nat
    BY <2>3, EventFields DEF TimerInv, QueueInv, IInv
  <2>6. ASSUME armed \in Nat, armed <= Later(next_outtime, now)
        PROVE  armed <= Later(HeadEvent(queue).out, now)
    BY <2>4, <2>5, <2>6 DEF Later
  <2> QED
    BY <2>2, <2>4, <2>6 DEF TimerSet, HandlerUnderWay
<1>2. Init => TimerInv
  BY InitTimer
<1>3. TimerInv /\ [Next]_vars => TimerInv'
  BY NextCovers
<1> QED BY <1>1, <1>2, <1>3, PTL DEF Spec

-----------------------------------------------------------------------------
(* The types that the invariants above do not give. *)
Typed == /\ queue_checking \in {0, 1}
         /\ lock \in {Unlocked} \cup (Thread \X {"call", "alarm"})
         /\ pending \in BOOLEAN
         /\ arg \in [Thread -> Event \cup Name \cup {None}]
         /\ calls \in 0 .. MaxCalls

(* Every step keeps the types. *)
LEMMA NextTyped ==
  ASSUME QueueInv, Typed, [Next]_vars
  PROVE  Typed'
<1> USE DEF Typed
<1>1. ASSUME NEW t \in Thread, BeginAdd(t) PROVE Typed'
  <2>1. PICK k \in Kind : arg' = [arg EXCEPT ![t] = EventOf(k, now + k.delay)]
    BY <1>1 DEF BeginAdd
  <2>2. now + k.delay \in 0 .. MaxTime + MaxDelay
    BY TimerAssumption DEF QueueInv, Clock
  <2>3. EventOf(k, now + k.delay) \in Event
    BY <2>2 DEF Event
  <2> HIDE DEF Event, EventOf
  <2>4. arg' \in [Thread -> Event \cup Name \cup {None}]
    BY <2>1, <2>3
  <2>5. calls' \in 0 .. MaxCalls
    BY <1>1, TimerAssumption DEF BeginAdd
  <2> QED
    BY <1>1, <2>4, <2>5 DEF BeginAdd, queueVars
<1>2. ASSUME NEW t \in Thread, BeginRemove(t) PROVE Typed'
  BY <1>2, TimerAssumption DEF BeginRemove, queueVars
<1>3. ASSUME NEW t \in Thread, CallStep(t) PROVE Typed'
  BY <1>3 DEF CallStep, SeeNotChecking, Acquire, InsertEvent, StartFromCall, EraseEvent,
              ReleaseCall, queueVars
<1>4. ASSUME NEW t \in Thread, Deliver(t) \/ AlarmStep(t) PROVE Typed'
  <2>1. pending' = pending \/ pending' = FALSE
    BY <1>4, Zenon DEF Deliver, AlarmStep, AlarmLock, AlarmFire, AlarmLeaveLoop, AlarmArm,
                       AlarmRelease
  <2>2. pending' \in BOOLEAN
    BY <2>1
  <2>3. /\ arg' = arg /\ calls' = calls
        /\ queue_checking' \in {queue_checking, 0, 1}
        /\ lock' \in {lock, Unlocked, <<t, "alarm">>}
    BY <1>4 DEF Deliver, AlarmStep, AlarmTo, AlarmLock, AlarmFire, AlarmLeaveLoop, AlarmArm,
                AlarmRelease, queueVars
  <2> QED
    BY <2>2, <2>3
<1>5. CASE Tick \/ Expire \/ UNCHANGED vars
  BY <1>5 DEF Tick, Expire, vars, queueVars
<1> QED
  BY <1>1, <1>2, <1>3, <1>4, <1>5 DEF Next

(* The variables keep their types: the vector never has more nodes than there
   are, and what waits in it or is on its way is an event in the range of the
   clock. *)
THEOREM TypeCorrect == Spec => []TypeOK
<1>1. TimerInv /\ Typed => TypeOK
  <2> SUFFICES ASSUME TimerInv, Typed PROVE TypeOK
    OBVIOUS
  <2>1. queue.size \in 0 .. Cells
    <3>1. queue.size \in Nat /\ queue.size <= Cells
      BY LinkedSize, FullIs DEF TimerInv, QueueInv, Waiting
    <3> QED
      BY <3>1, CvectorAssumption
  <2>2. \A i \in 1 .. queue.size : Data(queue)[i] \in Event
    BY DEF TimerInv, QueueInv, Waiting
  <2> QED
    BY <2>1, <2>2 DEF TypeOK, TimerInv, QueueInv, IInv, Typed
<1>2. Init => TimerInv /\ Typed
  <2> SUFFICES ASSUME Init PROVE Typed
    BY InitTimer
  <2>1. pending \in BOOLEAN
    BY DEF Init
  <2>2. arg \in [Thread -> Event \cup Name \cup {None}]
    BY DEF Init
  <2>3. calls \in 0 .. MaxCalls
    BY TimerAssumption DEF Init
  <2> QED
    BY <2>1, <2>2, <2>3 DEF Init, Typed
<1>3. TimerInv /\ Typed /\ [Next]_vars => TimerInv' /\ Typed'
  BY NextCovers, NextTyped DEF TimerInv
<1> QED BY <1>1, <1>2, <1>3, PTL DEF Spec
=============================================================================
