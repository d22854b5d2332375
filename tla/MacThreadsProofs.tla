-------------------------- MODULE MacThreadsProofs --------------------------
(***************************************************************************)
(* Proofs about MacThreads for any number of users, waves, rows and        *)
(* requests.  Two threads never do their work: the RLC thread waits for    *)
(* the mutex that it holds, which no other thread ever releases, and the   *)
(* RACH thread looks at its queue and leaves it as it is.  So main and the *)
(* RRC thread have the table to themselves, and the rows of a wave that    *)
(* one of them works on at a time are whole but for the swap or the        *)
(* filling that it is in the middle of.                                    *)
(***************************************************************************)
EXTENDS MacThreads, FiniteSetTheorems, TLAPS

Typed ==
  /\ DOMAIN pc = Thread /\ pc = [t \in Thread |-> pc[t]]
  /\ DOMAIN owner = Mutex /\ owner = [m \in Mutex |-> owner[m]]

(* Where the two threads can be, and who has the RLC thread's mutex. *)
Waiting ==
  /\ pc["RACH"] \in {"none", "look"}
  /\ pc["RLC"] \in {"none", "lock", "relock"}
  /\ pc["RLC"] = "relock" => owner["mutex"] = "RLC"

IInv == Typed /\ Waiting

(* All that a step of main or of the RRC thread does to these two. *)
Elsewhere ==
  /\ \/ UNCHANGED pc
     \/ \E t \in {"main", "RRC"} : \E place : Goto(t, place)
  /\ \/ UNCHANGED owner
     \/ \E o : owner' = [owner EXCEPT !["Global_MAC_Lock"] = o]

(* main begins, and no mutex is locked. *)
LEMMA InitInvariant == Init => IInv
  BY DEF Init, IInv, Typed, Waiting, Thread, Mutex

(* Such a step leaves the two threads where they are. *)
LEMMA ElsewhereKeeps == IInv /\ Elsewhere => IInv'
<1> SUFFICES ASSUME IInv, Elsewhere PROVE IInv'
  OBVIOUS
<1>1. /\ DOMAIN pc' = Thread /\ pc' = [t \in Thread |-> pc'[t]]
      /\ pc'["RACH"] = pc["RACH"] /\ pc'["RLC"] = pc["RLC"]
  BY DEF IInv, Typed, Elsewhere, Goto, Thread
<1>2. /\ DOMAIN owner' = Mutex /\ owner' = [m \in Mutex |-> owner'[m]]
      /\ owner'["mutex"] = owner["mutex"]
  BY DEF IInv, Typed, Elsewhere, Mutex
<1> QED
  BY <1>1, <1>2 DEF IInv, Typed, Waiting

(* The steps of main before its loop, and those of a subframe. *)
LEMMA MainSteps ==
  ASSUME IInv, Topology \/ Inject \/ Poll \/ ServeRow \/ LookForData
  PROVE  Elsewhere
  BY DEF Topology, Inject, Poll, ServeRow, LookForData, Elsewhere, Shared, Goto

(* The RACH thread is never at the lock: only main locks and unlocks. *)
LEMMA LockSteps ==
  ASSUME IInv, NEW t \in {"main", "RACH"}, Lock(t) \/ Unlock(t)
  PROVE  Elsewhere
<1>1. t = "main"
  BY DEF IInv, Waiting, Lock, Unlock
<1> QED
  BY <1>1 DEF Lock, Unlock, Acquire, Goto, Elsewhere

(* Nor is it in RAMSG_process, so that an access is the RRC thread's. *)
LEMMA AccessSteps ==
  ASSUME IInv, NEW t \in Access, Find(t) \/ Claim(t) \/ Name(t) \/ Queue(t)
  PROVE  Elsewhere
<1>1. t = "RRC"
  BY DEF IInv, Waiting, Find, Claim, Name, Queue, Access
<1>2. CASE Find(t)
  BY <1>1, <1>2 DEF Find, Shared, Goto, Elsewhere
<1>3. CASE Claim(t) \/ Name(t) \/ Queue(t)
  BY <1>1, <1>3 DEF Claim, Name, Queue, Goto, Elsewhere
<1> QED
  BY <1>2, <1>3

(* A sort is main's or the RRC thread's too. *)
LEMMA SortSteps ==
  ASSUME IInv, NEW t \in Access \cup {"main"}, SortStep(t)
  PROVE  Elsewhere
<1>1. t \in {"main", "RRC"}
  BY DEF IInv, Waiting, SortStep, Rank, Compare, Save, Move, Restore, Access
<1>2. ASSUME NEW cut, Advance(t, cut) PROVE \E place : Goto(t, place)
  BY <1>2 DEF Advance
<1>3. CASE Rank(t) \/ Save(t) \/ Move(t)
  BY <1>1, <1>3 DEF Rank, Save, Move, Shared, Goto, Elsewhere
<1>4. CASE Compare(t)
  <2>1. \E place : Goto(t, place)
    BY <1>2, <1>4 DEF Compare
  <2> QED
    BY <1>1, <1>4, <2>1 DEF Compare, Shared, Elsewhere
<1>5. CASE Restore(t)
  <2>1. \E place : Goto(t, place)
    BY <1>2, <1>5 DEF Restore
  <2> QED
    BY <1>1, <1>5, <2>1 DEF Restore, Elsewhere
<1> QED
  BY <1>3, <1>4, <1>5 DEF SortStep

(* The threads are created where they begin. *)
LEMMA CreateStep == IInv /\ CreateThreads => IInv'
<1> SUFFICES ASSUME IInv, CreateThreads PROVE IInv'
  OBVIOUS
<1>1. pc' = [t \in Thread |-> CASE t = "main" -> "topology" [] t = "RACH" -> "look"
                                [] t = "RRC" -> "idle" [] t = "RLC" -> "lock"]
  BY DEF CreateThreads, Thread
<1>2. UNCHANGED owner
  BY DEF CreateThreads, Shared
<1> QED
  BY <1>1, <1>2 DEF IInv, Typed, Waiting, Thread

(* The pop returns the length of a record, which is not QUEUE_OK. *)
LEMMA LookStep == IInv /\ RACHLook => IInv'
<1> SUFFICES ASSUME IInv, RACHLook PROVE IInv'
  OBVIOUS
<1>1. Pop.result # QUEUE_OK
  BY ThreadsAssumption DEF Pop, QUEUE_OK
<1>2. Goto("RACH", "look") /\ UNCHANGED owner
  BY <1>1 DEF RACHLook
<1> QED
  BY <1>2 DEF IInv, Typed, Waiting, Goto, Thread

(* The second lock finds the mutex held, by this thread. *)
LEMMA RLCStep == IInv /\ RLCLock => IInv'
<1> SUFFICES ASSUME IInv, RLCLock PROVE IInv'
  OBVIOUS
<1>1. owner["mutex"] = Nobody /\ owner' = [owner EXCEPT !["mutex"] = "RLC"]
  BY DEF RLCLock, Acquire
<1>2. pc["RLC"] = "lock" /\ pc' = [pc EXCEPT !["RLC"] = "relock"]
  BY <1>1 DEF RLCLock, Goto, IInv, Waiting, Nobody
<1> QED
  BY <1>1, <1>2 DEF IInv, Typed, Waiting, Thread, Mutex

(* Every step keeps the invariant. *)
LEMMA StepInvariant == IInv /\ [Next]_vars => IInv'
<1> SUFFICES ASSUME IInv, [Next]_vars PROVE IInv'
  OBVIOUS
<1>1. ASSUME NEW u \in UE, NEW w \in Wave, ReceiveRAMSG(u, w) PROVE Elsewhere
  BY <1>1 DEF ReceiveRAMSG, Goto, Elsewhere
<1>2. CASE UNCHANGED vars
  BY <1>2 DEF vars, IInv, Typed, Waiting
<1>3. CASE Next
  BY <1>1, <1>3, ElsewhereKeeps, MainSteps, LockSteps, AccessSteps, SortSteps,
     CreateStep, LookStep, RLCStep DEF Next
<1> QED
  BY <1>2, <1>3

(* The request that Inject_Users_Into_MAC has queued is never served. *)
THEOREM RACHServesNobody == Spec => []RACHNeverServes
<1>1. IInv => RACHNeverServes
  BY DEF IInv, Waiting, RACHNeverServes
<1> QED
  BY <1>1, InitInvariant, StepInvariant, PTL DEF Spec

(* RecvPackage_from_Sat_RLC never comes to its receive loop. *)
THEOREM RLCReceivesNothing == Spec => []RLCNeverReceives
<1>1. IInv => RLCNeverReceives
  BY DEF IInv, Waiting, RLCNeverReceives
<1> QED
  BY <1>1, InitInvariant, StepInvariant, PTL DEF Spec
-----------------------------------------------------------------------------
(* Coherence of the table.  A thread is in the rows of a wave while it fills,
   sorts or serves them. *)
Busy == Accessing \cup Serving

Has(t, w) == pc[t] \in Busy /\ WaveOf(t) = w

Other(t) == IF t = "main" THEN "RRC" ELSE "main"

Comparing == {"compare", "save", "move", "restore"}
Swapping  == {"save", "move", "restore"}
Filling   == {"name", "queue"}

(* A sort begins with the first pass, and leaves the row below for the swap. *)
InPass(place, l) ==
  /\ place = "rank" => l.pass = 1
  /\ place \in Comparing => l.row <= PER_WAVE_MAX_NUM - l.pass

(* The types of what main and the RRC thread use. *)
ThreadsTyped ==
  /\ pc["main"] \in {"create", "topology", "inject", "lock", "poll", "unlock"}
                    \cup Serving
  /\ pc["RRC"] \in {"none", "idle"} \cup Accessing
  /\ pc["main"] = "create" => pc["RRC"] = "none"
  /\ table \in [Wave -> [Slot -> Row]]
  /\ poll \in Wave
  /\ DOMAIN request = Access
  /\ pc["RRC"] \in Accessing => request["RRC"] \in Request
  /\ loop \in [Thread -> Loop]
  /\ \A t \in {"main", "RRC"} : InPass(pc[t], loop[t])
  /\ admitted \in [UE \X Wave -> Nat]
  /\ raced \subseteq Wave

(* Rows r without the swap or the filling that a thread is in the middle of:
   the saved row is back, or the row that is filled is free. *)
Undone(place, l, r) ==
  IF place = "restore" THEN [r EXCEPT ![l.row] = l.temp]
  ELSE IF place \in Filling THEN [r EXCEPT ![l.row] = [r[l.row] EXCEPT !.State = 0]]
  ELSE r

(* What a thread at place has found out about rows r and done to them. *)
Stage(place, l, r, ue) ==
  /\ place \in {"find", "claim"} \cup Filling =>
       \A i \in Slot : i < l.row => r[i].State = 1
  /\ place = "claim" => r[l.row].State = 0
  /\ place \in Filling => r[l.row].State = 1
  /\ place = "queue" => r[l.row].U_RNTI = ue
  /\ place = "data" => r[l.row].State = 1
  /\ place \in Swapping => r[l.row + 1].State = 1
  /\ place = "move" => l.temp = r[l.row]
  /\ place = "restore" => r[l.row] = r[l.row + 1] /\ l.temp.State = 1

UsedBy(r, u) == {i \in Slot : r[i].State = 1 /\ r[i].U_RNTI = u}

(* Rows r are coherent, with n[u] of them for user u. *)
Whole(r, n) ==
  /\ \A i, j \in Slot : i < j /\ r[j].State = 1 => r[i].State = 1
  /\ \A i \in Slot : r[i].State = 1 =>
       r[i].U_RNTI \in UE /\ r[i].User_DataQueue_ptr = r[i].U_RNTI
  /\ \A u \in UE : Cardinality(UsedBy(r, u)) = n[u]

Count(w) == [u \in UE |-> admitted[<<u, w>>]]

(* Thread t, if it is in the rows of wave w, keeps them whole but for the swap
   or the filling that it is in the middle of. *)
Fit(t, w) ==
  IF Has(t, w)
  THEN /\ Stage(pc[t], loop[t], table[w], request["RRC"].ue)
       /\ Whole(Undone(pc[t], loop[t], table[w]), Count(w))
  ELSE Whole(table[w], Count(w))

(* One thread at most is in the rows of wave w, and it keeps them. *)
Settled(w) == \E t \in {"main", "RRC"} : ~Has(Other(t), w) /\ Fit(t, w)

(* Where an access meets a subframe the wave is raced; the other waves are
   settled, and only in a raced one a NULL pointer is followed. *)
Coherence ==
  /\ \A w \in Wave : Met(w) => w \in raced
  /\ \A w \in Wave \ raced : Settled(w)
  /\ crashed => raced # {}

TableInv == IInv /\ ThreadsTyped /\ Coherence

(* There are two rows at least. *)
LEMMA Numbers == PER_WAVE_MAX_NUM \in Nat /\ PER_WAVE_MAX_NUM >= 2
  BY ThreadsAssumption

(* The rows of a wave are a finite set. *)
LEMMA SlotFinite == IsFiniteSet(Slot)
  BY Numbers, FS_Interval DEF Slot

(* A free row is a row, and a new loop is a loop. *)
LEMMA IdleIsLoop == FreeRow \in Row /\ Idle \in Loop
  BY Numbers DEF FreeRow, Row, Idle, Loop, Slot

-----------------------------------------------------------------------------
(* Rows *)

(* Two rows in use that change places stay whole together. *)
LEMMA SwapWhole ==
  ASSUME NEW r \in [Slot -> Row], NEW n, Whole(r, n),
         NEW k \in Slot, k + 1 \in Slot, r[k].State = 1, r[k + 1].State = 1,
         NEW s, s = [i \in Slot |-> IF i = k THEN r[k + 1]
                                    ELSE IF i = k + 1 THEN r[k] ELSE r[i]]
  PROVE  Whole(s, n)
<1>1. \A i \in Slot : s[i].State = r[i].State
  OBVIOUS
<1>2. ASSUME NEW u \in UE PROVE Cardinality(UsedBy(s, u)) = n[u]
  <2> DEFINE R == UsedBy(r, u)
             S == UsedBy(s, u)
             f == [i \in R |-> IF i = k THEN k + 1 ELSE IF i = k + 1 THEN k ELSE i]
  <2>1. k # k + 1 /\ k \in Int
    BY Numbers DEF Slot
  <2>2. f \in [R -> S]
    BY <2>1 DEF UsedBy
  <2>3. \A i, j \in R : f[i] = f[j] => i = j
    BY <2>1
  <2>4. ASSUME NEW j \in S PROVE \E i \in R : f[i] = j
    <3>1. j \in Slot /\ s[j].State = 1 /\ s[j].U_RNTI = u
      BY DEF UsedBy
    <3>2. CASE j = k
      BY <2>1, <3>1, <3>2 DEF UsedBy
    <3>3. CASE j = k + 1
      BY <2>1, <3>1, <3>3 DEF UsedBy
    <3>4. CASE j # k /\ j # k + 1
      BY <2>1, <3>1, <3>4 DEF UsedBy
    <3> QED
      BY <3>2, <3>3, <3>4
  <2>5. f \in Bijection(R, S)
    BY <2>2, <2>3, <2>4 DEF Bijection, Injection, Surjection, IsInjective
  <2>6. IsFiniteSet(R)
    <3>1. R \in SUBSET Slot
      BY DEF UsedBy
    <3> QED
      BY <3>1, SlotFinite, FS_Subset
  <2>7. Cardinality(S) = Cardinality(R)
    BY <2>5, <2>6, FS_Bijection DEF ExistsBijection
  <2> QED
    BY <2>7 DEF Whole
<1>3. \A i, j \in Slot : i < j /\ s[j].State = 1 => s[i].State = 1
  BY <1>1 DEF Whole
<1>4. \A i \in Slot : s[i].State = 1 =>
        s[i].U_RNTI \in UE /\ s[i].User_DataQueue_ptr = s[i].U_RNTI
  BY DEF Whole
<1> QED
  BY <1>2, <1>3, <1>4 DEF Whole

(* The first free row filled for a user gives the user one row more. *)
LEMMA FillWhole ==
  ASSUME NEW r \in [Slot -> Row], NEW n \in [UE -> Nat], Whole(r, n),
         NEW k \in Slot, r[k].State = 0, \A i \in Slot : i < k => r[i].State = 1,
         NEW ue \in UE, NEW s \in [Slot -> Row],
         \A i \in Slot : i # k => s[i] = r[i],
         s[k].State = 1, s[k].U_RNTI = ue, s[k].User_DataQueue_ptr = ue,
         NEW m, m = [n EXCEPT ![ue] = n[ue] + 1]
  PROVE  Whole(s, m)
<1>1. \A j \in Slot : k < j => r[j].State # 1
  BY DEF Whole
<1>2. \A i, j \in Slot : i < j /\ s[j].State = 1 => s[i].State = 1
  BY <1>1 DEF Slot
<1>3. \A i \in Slot : s[i].State = 1 =>
        s[i].U_RNTI \in UE /\ s[i].User_DataQueue_ptr = s[i].U_RNTI
  BY DEF Whole
<1>4. ASSUME NEW u \in UE PROVE Cardinality(UsedBy(s, u)) = m[u]
  <2>1. IsFiniteSet(UsedBy(r, u))
    <3>1. UsedBy(r, u) \in SUBSET Slot
      BY DEF UsedBy
    <3> QED
      BY <3>1, SlotFinite, FS_Subset
  <2>2. Cardinality(UsedBy(r, u)) = n[u]
    BY DEF Whole
  <2>3. CASE u = ue
    <3>1. UsedBy(s, u) = UsedBy(r, u) \cup {k} /\ k \notin UsedBy(r, u)
      BY <2>3 DEF UsedBy
    <3>2. ASSUME NEW R, IsFiniteSet(R), k \notin R
          PROVE  Cardinality(R \cup {k}) = Cardinality(R) + 1
      BY <3>2, FS_AddElement
    <3>3. Cardinality(UsedBy(s, u)) = Cardinality(UsedBy(r, u)) + 1
      BY <2>1, <3>1, <3>2
    <3> QED
      BY <2>2, <2>3, <3>3
  <2>4. CASE u # ue
    <3>1. UsedBy(s, u) = UsedBy(r, u)
      BY <2>4 DEF UsedBy
    <3> QED
      BY <2>2, <2>4, <3>1
  <2> QED
    BY <2>3, <2>4
<1> QED
  BY <1>2, <1>3, <1>4 DEF Whole
-----------------------------------------------------------------------------
(* One step of a thread on its own rows. *)

(* After a comparison or a swap a thread compares again or is through with the
   sort; its loop is one, within its pass. *)
LEMMA AdvanceGoes ==
  ASSUME IInv, ThreadsTyped, NEW t \in {"main", "RRC"}, NEW cut, Advance(t, cut),
         pc[t] \in Comparing
  PROVE  /\ \E place \in {"compare", Done(t)} : Goto(t, place)
         /\ \E l \in Loop : /\ loop' = [loop EXCEPT ![t] = l]
                            /\ l.row <= PER_WAVE_MAX_NUM - l.pass
<1>1. /\ loop[t] \in Loop /\ loop[t].row <= PER_WAVE_MAX_NUM - loop[t].pass
      /\ t \in DOMAIN loop
  BY DEF ThreadsTyped, Thread, InPass
<1>2. /\ loop[t].row \in 1 .. PER_WAVE_MAX_NUM
      /\ loop[t].pass \in 1 .. PER_WAVE_MAX_NUM
  BY <1>1 DEF Loop, Slot
<1>3. Idle \in Loop /\ Idle.row <= PER_WAVE_MAX_NUM - Idle.pass
  BY Numbers, IdleIsLoop DEF Idle
<1>4. CASE loop[t].row < PER_WAVE_MAX_NUM - loop[t].pass /\ ~cut
  <2> DEFINE l == [loop[t] EXCEPT !.row = loop[t].row + 1]
  <2>1. l \in Loop /\ l.row <= PER_WAVE_MAX_NUM - l.pass
    BY <1>1, <1>2, <1>4, Numbers DEF Loop, Slot
  <2>2. loop' = [loop EXCEPT ![t] = l] /\ Goto(t, "compare")
    BY <1>1, <1>4 DEF Advance, At
  <2> QED
    BY <2>1, <2>2
<1>5. CASE ~(loop[t].row < PER_WAVE_MAX_NUM - loop[t].pass /\ ~cut)
            /\ loop[t].pass < PER_WAVE_MAX_NUM - 1
  <2> DEFINE l == [loop[t] EXCEPT !.row = 1, !.pass = loop[t].pass + 1]
  <2>1. l \in Loop /\ l.row <= PER_WAVE_MAX_NUM - l.pass
    <3>1. loop[t].pass + 1 \in 1 .. PER_WAVE_MAX_NUM /\ 1 \in Slot
      BY <1>2, <1>5, Numbers DEF Slot
    <3>2. l.row = 1 /\ l.pass = loop[t].pass + 1
      BY <1>1 DEF Loop
    <3>3. l \in Loop
      BY <1>1, <3>1 DEF Loop
    <3> QED
      BY <1>2, <1>5, <3>2, <3>3, Numbers
  <2>2. loop' = [loop EXCEPT ![t] = l] /\ Goto(t, "compare")
    BY <1>1, <1>5 DEF Advance, At
  <2> QED
    BY <2>1, <2>2
<1>6. CASE ~(loop[t].row < PER_WAVE_MAX_NUM - loop[t].pass /\ ~cut)
            /\ ~(loop[t].pass < PER_WAVE_MAX_NUM - 1)
  <2> DEFINE l == [Idle EXCEPT !.sort = "level"]
  <2>1. l \in Loop /\ l.row <= PER_WAVE_MAX_NUM - l.pass
    BY <1>3 DEF Loop
  <2>2. \/ loop' = [loop EXCEPT ![t] = l] /\ Goto(t, "compare")
        \/ loop' = [loop EXCEPT ![t] = Idle] /\ Goto(t, Done(t))
    BY <1>6 DEF Advance, At
  <2> QED
    BY <1>3, <2>1, <2>2
<1> QED
  BY <1>4, <1>5, <1>6

(* The rows of a wave, with the swap or the filling undone, are whole, and the
   thread at place knows of them what it has to know. *)
Holds(place, l, r, ue, n) == Stage(place, l, r, ue) /\ Whole(Undone(place, l, r), n)

Going(t) == IF t = "main" THEN Serving \cup {"lock", "poll", "unlock"}
            ELSE Accessing \cup {"idle"}

(* Thread t goes on in its rows: to place, with its loops l and rows r. *)
Works(t, place, l, r) ==
  /\ pc[t] \in Busy /\ place \in Going(t)
  /\ Goto(t, place)
  /\ l \in Loop /\ loop' = [loop EXCEPT ![t] = l]
  /\ InPass(place, l)
  /\ r \in [Slot -> Row] /\ table' = [table EXCEPT ![WaveOf(t)] = r]
  /\ UNCHANGED <<poll, request>>
  /\ admitted' \in [UE \X Wave -> Nat]
  /\ \A a \in UE \X Wave : a[2] # WaveOf(t) => admitted'[a] = admitted[a]
  /\ Holds(pc[t], loop[t], Rows(t), request["RRC"].ue, Count(WaveOf(t))) =>
       Holds(place, l, r, request["RRC"].ue, Count(WaveOf(t))')

(* Thread t, in no rows, goes to place, which may be where it begins with the
   rows of a wave. *)
Enters(t, place) ==
  /\ pc[t] \notin Busy \cup {"none"} /\ place \in Going(t) \cup {"inject"}
  /\ Goto(t, place)
  /\ place \in Busy => place \in {"rank", "find"}
  /\ place = "inject" => t = "main"
  /\ \/ loop' = [loop EXCEPT ![t] = Idle]
     \/ place \notin Busy /\ UNCHANGED loop
  /\ UNCHANGED <<table, admitted>>
  /\ t = "main" => UNCHANGED request /\ poll' \in Wave
  /\ t = "RRC" => /\ UNCHANGED poll
                  /\ DOMAIN request' = Access /\ request'["RRC"] \in Request

(* What a step of t leaves alone: the other thread, and every wave but the one
   whose rows t has. *)
Apart(t) ==
  /\ pc'[Other(t)] = pc[Other(t)]
  /\ loop'[Other(t)] = loop[Other(t)]
  /\ t = "main" => UNCHANGED request
  /\ t = "RRC" => UNCHANGED poll
  /\ \A v \in Wave : ~Has(t, v) => table'[v] = table[v] /\ Count(v)' = Count(v)

(* Such steps keep the types, and what the thread does to its wave. *)
Keeps(t) == ThreadsTyped' /\ Apart(t) /\ \A w \in Wave : Fit(t, w) => Fit(t, w)'

(* The wave that a busy thread works on is one. *)
LEMMA WaveTyped ==
  ASSUME ThreadsTyped, NEW t \in {"main", "RRC"}, pc[t] \in Busy
  PROVE  /\ WaveOf(t) \in Wave /\ Has(t, WaveOf(t))
         /\ Rows(t) \in [Slot -> Row] /\ Rows(t) = table[WaveOf(t)]
         /\ loop[t] \in Loop /\ loop[t].row \in Slot
         /\ t = "main" => pc[t] \in Serving
         /\ t = "RRC" => pc[t] \in Accessing /\ request[t].ue \in UE
<1>1. t = "main" => pc[t] \in Serving /\ WaveOf(t) \in Wave
  BY DEF ThreadsTyped, Busy, Accessing, Sorting, WaveOf
<1>2. t = "RRC" => pc[t] \in Accessing /\ WaveOf(t) \in Wave /\ request[t].ue \in UE
  BY DEF ThreadsTyped, Busy, Serving, WaveOf, Request
<1>3. loop[t] \in Loop /\ loop[t].row \in Slot
  BY DEF ThreadsTyped, Thread, Loop
<1> QED
  BY <1>1, <1>2, <1>3 DEF ThreadsTyped, Rows, Has

(* Off the places of a swap or a filling the rows are as they are, and outside
   of a wave's rows nothing has to be known. *)
LEMMA HoldsOutside ==
  ASSUME NEW place, NEW l, NEW r, NEW ue, NEW n, place \notin Busy
  PROVE  Holds(place, l, r, ue, n) <=> Whole(r, n)
  BY DEF Holds, Stage, Undone, Busy, Accessing, Serving, Sorting, Filling, Swapping

(* For the wave that t is about, fit and held are the same. *)
LEMMA FitHolds ==
  ASSUME NEW t, NEW w, WaveOf(t) = w
  PROVE  Fit(t, w) <=> Holds(pc[t], loop[t], table[w], request["RRC"].ue, Count(w))
<1>1. CASE pc[t] \in Busy
  BY <1>1 DEF Fit, Has, Holds
<1>2. CASE pc[t] \notin Busy
  BY <1>2, HoldsOutside DEF Fit, Has
<1> QED
  BY <1>1, <1>2

(* Going on in its rows, a thread keeps them. *)
LEMMA WorksKeeps ==
  ASSUME IInv, ThreadsTyped, raced' \subseteq Wave, NEW t \in {"main", "RRC"},
         NEW place, NEW l, NEW r, Works(t, place, l, r)
  PROVE  Keeps(t)
<1>1. /\ WaveOf(t) \in Wave /\ Rows(t) = table[WaveOf(t)]
      /\ t = "RRC" => pc[t] \in Accessing
  BY WaveTyped DEF Works
<1>2. /\ pc'[t] = place /\ \A s \in Thread \ {t} : pc'[s] = pc[s]
      /\ Other(t) \in Thread \ {t} /\ t \in Thread
  BY DEF IInv, Typed, Works, Goto, Thread, Other
<1>3. /\ loop' \in [Thread -> Loop] /\ loop'[t] = l
      /\ \A s \in Thread \ {t} : loop'[s] = loop[s]
  BY <1>2 DEF ThreadsTyped, Works
<1>4. /\ table' \in [Wave -> [Slot -> Row]] /\ table'[WaveOf(t)] = r
      /\ \A v \in Wave : v # WaveOf(t) => table'[v] = table[v]
  BY <1>1 DEF ThreadsTyped, Works
<1>5. WaveOf(t)' = WaveOf(t) /\ UNCHANGED <<poll, request>>
  BY DEF Works, WaveOf
<1>6. ThreadsTyped'
  <2>1. /\ pc'["main"] \in {"create", "topology", "inject", "lock", "poll", "unlock"}
                           \cup Serving
        /\ pc'["RRC"] \in {"none", "idle"} \cup Accessing
        /\ pc'["main"] = "create" => pc'["RRC"] = "none"
    BY <1>2 DEF ThreadsTyped, Works, Going, Thread, Busy, Accessing, Serving, Sorting
  <2>2. pc'["RRC"] \in Accessing => request'["RRC"] \in Request
    BY <1>1, <1>2, <1>5 DEF ThreadsTyped, Thread
  <2>3. \A s \in {"main", "RRC"} : InPass(pc'[s], loop'[s])
    BY <1>2, <1>3 DEF ThreadsTyped, Works, Thread
  <2> QED
    BY <1>3, <1>4, <1>5, <2>1, <2>2, <2>3 DEF ThreadsTyped, Works
<1>7. \A v \in Wave : v # WaveOf(t) => table'[v] = table[v] /\ Count(v)' = Count(v)
  BY <1>4 DEF Works, Count
<1>8. Apart(t)
  BY <1>2, <1>3, <1>5, <1>7 DEF Apart, Has, Works
<1>9. ASSUME NEW w \in Wave, Fit(t, w) PROVE Fit(t, w)'
  <2>1. CASE w = WaveOf(t)
    <3>1. Holds(pc[t], loop[t], Rows(t), request["RRC"].ue, Count(WaveOf(t)))
      BY <1>1, <1>9, <2>1, FitHolds
    <3>2. Holds(place, l, r, request["RRC"].ue, Count(WaveOf(t))')
      BY <3>1 DEF Works
    <3>3. Holds(pc[t], loop[t], table[w], request["RRC"].ue, Count(w))'
      BY <1>2, <1>3, <1>4, <1>5, <2>1, <3>2 DEF Holds
    <3>4. CASE place \in Busy
      BY <1>2, <1>5, <2>1, <3>3, <3>4 DEF Fit, Has, Holds
    <3>5. CASE place \notin Busy
      <4>1. Undone(place, l, r) = r
        BY <3>5 DEF Undone, Busy, Accessing, Sorting, Filling
      <4>2. Whole(r, Count(w)')
        BY <1>5, <2>1, <3>2, <4>1 DEF Holds
      <4> QED
        BY <1>2, <1>4, <2>1, <3>5, <4>2 DEF Fit, Has
    <3> QED
      BY <3>4, <3>5
  <2>2. CASE w # WaveOf(t)
    <3>1. ~Has(t, w) /\ ~Has(t, w)'
      BY <1>5, <2>2 DEF Has
    <3>2. table'[w] = table[w] /\ Count(w)' = Count(w)
      BY <1>7, <2>2
    <3> QED
      BY <1>9, <3>1, <3>2 DEF Fit
  <2> QED
    BY <2>1, <2>2
<1> QED
  BY <1>6, <1>8, <1>9 DEF Keeps

(* A thread that begins with the rows of a wave finds them as they are. *)
LEMMA EntersKeeps ==
  ASSUME IInv, ThreadsTyped, raced' \subseteq Wave, NEW t \in {"main", "RRC"},
         NEW place, Enters(t, place)
  PROVE  Keeps(t)
<1>1. /\ pc'[t] = place /\ \A s \in Thread \ {t} : pc'[s] = pc[s]
      /\ Other(t) \in Thread \ {t} /\ t \in Thread
  BY DEF IInv, Typed, Enters, Goto, Thread, Other
<1>2. /\ loop' \in [Thread -> Loop]
      /\ place \in Busy => loop'[t] = Idle
      /\ \A s \in Thread \ {t} : loop'[s] = loop[s]
  BY <1>1, IdleIsLoop DEF ThreadsTyped, Enters
<1>3. ThreadsTyped'
  <2>1. /\ pc'["main"] \in {"create", "topology", "inject", "lock", "poll", "unlock"}
                           \cup Serving
        /\ pc'["RRC"] \in {"none", "idle"} \cup Accessing
        /\ pc'["main"] = "create" => pc'["RRC"] = "none"
    BY <1>1 DEF ThreadsTyped, Enters, Going, Thread, Serving
  <2>2. /\ pc'["RRC"] \in Accessing => request'["RRC"] \in Request
        /\ DOMAIN request' = Access
    BY <1>1 DEF ThreadsTyped, Enters, Thread
  <2>3. \A s \in {"main", "RRC"} : InPass(pc'[s], loop'[s])
    BY <1>1, <1>2 DEF InPass, Idle, ThreadsTyped, Enters, Thread, Comparing, Busy, Accessing, Sorting
  <2>4. poll' \in Wave
    BY DEF ThreadsTyped, Enters
  <2> QED
    BY <1>2, <2>1, <2>2, <2>3, <2>4 DEF ThreadsTyped, Enters
<1>4. \A v \in Wave : table'[v] = table[v] /\ Count(v)' = Count(v)
  BY DEF Enters, Count
<1>5. Apart(t)
  BY <1>1, <1>2, <1>4 DEF Apart, Enters
<1>6. ASSUME NEW w \in Wave, Fit(t, w) PROVE Fit(t, w)'
  <2>1. Whole(table[w], Count(w))
    BY <1>6 DEF Fit, Has, Enters
  <2>2. Whole(table'[w], Count(w)')
    BY <1>4, <2>1
  <2>3. CASE place \in {"rank", "find"}
    <3>1. loop'[t] = Idle /\ Idle.row = 1
      <4>1. place \in Busy
        BY <2>3 DEF Busy, Accessing, Serving
      <4>2. Idle.row = 1
        BY DEF Idle
      <4> QED
        BY <1>2, <4>1, <4>2
    <3>2. Undone(place, loop'[t], table'[w]) = table'[w]
      BY <2>3 DEF Undone, Filling
    <3>3. Stage(place, loop'[t], table'[w], request'["RRC"].ue)
      BY <2>3, <3>1, Numbers DEF Stage, Filling, Swapping, Slot
    <3> QED
      BY <1>1, <2>2, <3>2, <3>3 DEF Fit
  <2>4. CASE place \notin Busy
    BY <1>1, <2>2, <2>4 DEF Fit, Has
  <2> QED
    BY <2>3, <2>4 DEF Enters
<1> QED
  BY <1>3, <1>5, <1>6 DEF Keeps

-----------------------------------------------------------------------------
(* What the steps do to the rows. *)

(* What a free row has in it is nobody's. *)
LEMMA FreeWhole ==
  ASSUME NEW r, NEW n, Whole(r, n), NEW s,
         \A i \in Slot : s[i] = r[i] \/ (s[i].State = 0 /\ r[i].State = 0)
  PROVE  Whole(s, n)
<1>1. ASSUME NEW u \in UE PROVE UsedBy(s, u) = UsedBy(r, u)
  BY DEF UsedBy
<1>2. \A i \in Slot : s[i].State = 1 => s[i] = r[i] /\ r[i].State = 1
  OBVIOUS
<1>3. \A i \in Slot : r[i].State = 1 => s[i].State = 1
  OBVIOUS
<1>4. \A i, j \in Slot : i < j /\ s[j].State = 1 => s[i].State = 1
  BY <1>2, <1>3 DEF Whole
<1>5. \A i \in Slot : s[i].State = 1 =>
        s[i].U_RNTI \in UE /\ s[i].User_DataQueue_ptr = s[i].U_RNTI
  BY <1>2 DEF Whole
<1> QED
  BY <1>1, <1>4, <1>5 DEF Whole

(* Between rows in use a swap in either sort moves the whole row. *)
LEMMA MovedWhole ==
  ASSUME NEW t, NEW from \in Row, NEW to \in Row, from.State = to.State
  PROVE  Moved(t, from, to) = from
BY DEF Moved, Row

(* SetRow changes one row of the wave that t works on. *)
LEMMA SetRowRows ==
  ASSUME ThreadsTyped, NEW t \in {"main", "RRC"}, pc[t] \in Busy,
         NEW k \in Slot, NEW row \in Row, SetRow(t, k, row)
  PROVE  /\ [Rows(t) EXCEPT ![k] = row] \in [Slot -> Row]
         /\ table' = [table EXCEPT ![WaveOf(t)] = [Rows(t) EXCEPT ![k] = row]]
<1>1. WaveOf(t) \in Wave /\ Rows(t) \in [Slot -> Row] /\ Rows(t) = table[WaveOf(t)]
  BY WaveTyped
<1> QED
  BY <1>1 DEF ThreadsTyped, SetRow

(* A step that leaves the rows as they are, at places where nothing has to be
   undone. *)
LEMMA StillWorks ==
  ASSUME ThreadsTyped, NEW t \in {"main", "RRC"}, NEW place, NEW l \in Loop,
         pc[t] \in Busy, place \in Going(t), Goto(t, place),
         {pc[t], place} \cap ({"restore"} \cup Filling) = {},
         loop' = [loop EXCEPT ![t] = l],
         InPass(place, l),
         UNCHANGED <<table, poll, request, admitted>>,
         /\ Stage(pc[t], loop[t], Rows(t), request["RRC"].ue)
         /\ Whole(Rows(t), Count(WaveOf(t)))
         => Stage(place, l, Rows(t), request["RRC"].ue)
  PROVE  Works(t, place, l, Rows(t))
<1>1. WaveOf(t) \in Wave /\ Rows(t) \in [Slot -> Row] /\ Rows(t) = table[WaveOf(t)]
  BY WaveTyped
<1>2. table' = [table EXCEPT ![WaveOf(t)] = Rows(t)]
  BY <1>1 DEF ThreadsTyped
<1>3. Count(WaveOf(t))' = Count(WaveOf(t))
  BY DEF Count, WaveOf
<1>4. /\ Undone(pc[t], loop[t], Rows(t)) = Rows(t)
      /\ Undone(place, l, Rows(t)) = Rows(t)
  BY DEF Undone
<1>5. Holds(pc[t], loop[t], Rows(t), request["RRC"].ue, Count(WaveOf(t))) =>
        Holds(place, l, Rows(t), request["RRC"].ue, Count(WaveOf(t))')
  BY <1>3, <1>4 DEF Holds
<1> QED
  BY <1>1, <1>2, <1>5 DEF Works, ThreadsTyped

(* The search for a free row, which looks past rows in use. *)
LEMMA FindWorks ==
  ASSUME IInv, ThreadsTyped, Find("RRC")
  PROVE  \E place, l, r : Works("RRC", place, l, r)
<1> DEFINE t == "RRC"
           k == loop[t].row
<1>1. /\ pc[t] = "find" /\ pc[t] \in Busy /\ WaveOf(t) \in Wave
      /\ Rows(t) \in [Slot -> Row] /\ loop[t] \in Loop /\ k \in Slot
      /\ k \in Nat
  BY WaveTyped, Numbers DEF Find, Busy, Accessing, Slot
<1>2. pc = [pc EXCEPT ![t] = pc[t]]
  BY DEF IInv, Typed, Thread
<1>3. UNCHANGED <<table, poll, request, admitted>>
  BY DEF Find, Shared
<1>4. CASE Rows(t)[k].State = 0
  <2>1. Goto(t, "claim") /\ loop' = [loop EXCEPT ![t] = loop[t]]
    BY <1>4 DEF Find, At, ThreadsTyped
  <2>2. "claim" \in Going(t) /\ {pc[t], "claim"} \cap ({"restore"} \cup Filling) = {}
    BY <1>1 DEF Going, Accessing, Filling
  <2>3. Stage(pc[t], loop[t], Rows(t), request["RRC"].ue) =>
          Stage("claim", loop[t], Rows(t), request["RRC"].ue)
    BY <1>1, <1>4 DEF Stage, Filling, Swapping
  <2>4. Works(t, "claim", loop[t], Rows(t))
    BY <1>1, <1>3, <2>1, <2>2, <2>3, StillWorks DEF InPass, Comparing
  <2> QED
    BY <2>4
<1>5. CASE Rows(t)[k].State # 0 /\ k < PER_WAVE_MAX_NUM
  <2> DEFINE l == [loop[t] EXCEPT !.row = k + 1]
  <2>1. l \in Loop /\ l.row = k + 1
    BY <1>1, <1>5, Numbers DEF Loop, Slot
  <2>2. Goto(t, "find") /\ loop' = [loop EXCEPT ![t] = l]
    BY <1>1, <1>2, <1>5 DEF Find, At, Goto
  <2>3. "find" \in Going(t) /\ {pc[t], "find"} \cap ({"restore"} \cup Filling) = {}
    BY <1>1 DEF Going, Accessing, Filling
  <2>4. Rows(t)[k].State = 1
    BY <1>1, <1>5 DEF Row
  <2>5. Stage(pc[t], loop[t], Rows(t), request["RRC"].ue) =>
          Stage("find", l, Rows(t), request["RRC"].ue)
    BY <1>1, <2>1, <2>4 DEF Stage, Filling, Swapping, Slot
  <2>6. Works(t, "find", l, Rows(t))
    BY <1>1, <1>3, <2>1, <2>2, <2>3, <2>5, StillWorks DEF InPass, Comparing
  <2> QED
    BY <2>6
<1>6. CASE Rows(t)[k].State # 0 /\ ~(k < PER_WAVE_MAX_NUM)
  <2> DEFINE l == [Idle EXCEPT !.sort = "level"]
  <2>1. l \in Loop /\ l.row <= PER_WAVE_MAX_NUM - l.pass
    BY IdleIsLoop, Numbers DEF Loop, Idle
  <2>2. Goto(t, "compare") /\ loop' = [loop EXCEPT ![t] = l]
    BY <1>6 DEF Find, At
  <2>3. /\ "compare" \in Going(t)
        /\ {pc[t], "compare"} \cap ({"restore"} \cup Filling) = {}
    BY <1>1 DEF Going, Accessing, Sorting, Filling
  <2>4. Stage("compare", l, Rows(t), request["RRC"].ue)
    BY DEF Stage, Filling, Swapping
  <2>5. Works(t, "compare", l, Rows(t))
    BY <1>1, <1>3, <2>1, <2>2, <2>3, <2>4, StillWorks DEF InPass, Comparing
  <2> QED
    BY <2>5
<1> QED
  BY <1>4, <1>5, <1>6

(* A free row that is claimed, and the one whose user is named, counts as free
   while its thread has it. *)
LEMMA ClaimWorks ==
  ASSUME IInv, ThreadsTyped, Claim("RRC") \/ Name("RRC")
  PROVE  \E place, l, r : Works("RRC", place, l, r)
<1> DEFINE t == "RRC"
           k == loop[t].row
           ue == request["RRC"].ue
           place == IF Claim(t) THEN "name" ELSE "queue"
           row == IF Claim(t) THEN [Rows(t)[k] EXCEPT !.State = 1]
                  ELSE [Rows(t)[k] EXCEPT !.U_RNTI = ue]
           r == Rows(t)
           s == [r EXCEPT ![k] = row]
<1>1. /\ pc[t] = IF Claim(t) THEN "claim" ELSE "name"
      /\ pc[t] \in Busy /\ WaveOf(t) \in Wave
      /\ r \in [Slot -> Row] /\ loop[t] \in Loop /\ k \in Slot
      /\ ue \in UE
  BY WaveTyped DEF Claim, Name, Busy, Accessing
<1>2. row \in Row
  BY <1>1 DEF Row
<1>3. SetRow(t, k, row) /\ Goto(t, place)
  BY DEF Claim, Name, At
<1>4. /\ loop' = [loop EXCEPT ![t] = loop[t]]
      /\ UNCHANGED <<poll, request, admitted>>
  BY DEF Claim, Name, ThreadsTyped
<1>5. s \in [Slot -> Row] /\ table' = [table EXCEPT ![WaveOf(t)] = s]
  BY <1>1, <1>2, <1>3, SetRowRows
<1>6. ASSUME Stage(pc[t], loop[t], r, ue) PROVE Stage(place, loop[t], s, ue)
  <2>1. \A i \in Slot : i < k => r[i].State = 1 /\ s[i] = r[i]
    BY <1>1, <1>6, Numbers DEF Stage, Filling, Slot
  <2>2. s[k].State = 1
    BY <1>1, <1>6 DEF Stage, Filling, Row
  <2>3. place = "queue" => s[k].U_RNTI = ue
    BY <1>1 DEF Row
  <2> QED
    BY <2>1, <2>2, <2>3 DEF Stage, Filling, Swapping
<1>7. ASSUME NEW n, Holds(pc[t], loop[t], r, ue, n) PROVE Holds(place, loop[t], s, ue, n)
  <2> DEFINE p == Undone(pc[t], loop[t], r)
             q == Undone(place, loop[t], s)
  <2>1. /\ p[k].State = 0 /\ q[k].State = 0
        /\ \A i \in Slot : i # k => p[i] = r[i] /\ q[i] = r[i]
    BY <1>1, <1>2, <1>5, <1>7 DEF Holds, Stage, Undone, Filling, Row
  <2>2. \A i \in Slot : q[i] = p[i] \/ (q[i].State = 0 /\ p[i].State = 0)
    BY <2>1
  <2>3. Whole(p, n)
    BY <1>7 DEF Holds
  <2>4. Whole(q, n)
    BY <2>2, <2>3, FreeWhole
  <2> QED
    BY <1>6, <1>7, <2>4 DEF Holds
<1>8. Count(WaveOf(t))' = Count(WaveOf(t))
  BY <1>4 DEF Count, WaveOf
<1>9. Holds(pc[t], loop[t], r, ue, Count(WaveOf(t))) =>
        Holds(place, loop[t], s, ue, Count(WaveOf(t))')
  BY <1>7, <1>8
<1>10. place \in Going(t) /\ place \notin Comparing \cup {"rank"}
  BY DEF Going, Accessing, Comparing
<1>11. Works(t, place, loop[t], s)
  BY <1>1, <1>3, <1>4, <1>5, <1>9, <1>10 DEF Works, ThreadsTyped, InPass
<1> QED
  BY <1>11

(* The queue pointer comes last: the row is its user's. *)
LEMMA QueueWorks ==
  ASSUME IInv, ThreadsTyped, Queue("RRC")
  PROVE  \E place, l, r : Works("RRC", place, l, r)
<1> DEFINE t == "RRC"
           k == loop[t].row
           ue == request["RRC"].ue
           w == WaveOf(t)
           r == Rows(t)
           row == [r[k] EXCEPT !.User_DataQueue_ptr = ue]
           s == [r EXCEPT ![k] = row]
<1>1. /\ pc[t] = "queue" /\ pc[t] \in Busy /\ w \in Wave
      /\ r \in [Slot -> Row] /\ loop[t] \in Loop /\ k \in Slot
      /\ ue \in UE
  BY WaveTyped DEF Queue, Busy, Accessing
<1>2. row \in Row
  BY <1>1 DEF Row
<1>3. SetRow(t, k, row) /\ Goto(t, "rank") /\ loop' = [loop EXCEPT ![t] = Idle]
      /\ UNCHANGED <<poll, request>> /\ WaveOf(t)' = WaveOf(t)
  BY DEF Queue, At, WaveOf
<1>4. s \in [Slot -> Row] /\ table' = [table EXCEPT ![w] = s]
  BY <1>1, <1>2, <1>3, SetRowRows
<1>5. admitted' = [admitted EXCEPT ![<<ue, w>>] = admitted[<<ue, w>>] + 1]
  BY DEF Queue
<1>6. /\ admitted' \in [UE \X Wave -> Nat]
      /\ \A a \in UE \X Wave : a # <<ue, w>> => admitted'[a] = admitted[a]
      /\ admitted'[<<ue, w>>] = admitted[<<ue, w>>] + 1
  <2>1. <<ue, w>> \in UE \X Wave /\ admitted \in [UE \X Wave -> Nat]
    BY <1>1 DEF ThreadsTyped
  <2> QED
    BY <1>5, <2>1
<1>7. /\ Count(w) \in [UE -> Nat]
      /\ Count(w)' = [Count(w) EXCEPT ![ue] = Count(w)[ue] + 1]
  BY <1>1, <1>3, <1>6 DEF Count, ThreadsTyped
<1>8. ASSUME Holds(pc[t], loop[t], r, ue, Count(w)) PROVE Holds("rank", Idle, s, ue, Count(w)')
  <2> DEFINE p == Undone(pc[t], loop[t], r)
  <2>1. /\ p \in [Slot -> Row] /\ p[k].State = 0 /\ \A i \in Slot : i # k => p[i] = r[i]
    BY <1>1 DEF Undone, Filling, Row
  <2>2. /\ \A i \in Slot : i < k => p[i].State = 1
        /\ s[k].State = 1 /\ s[k].U_RNTI = ue /\ s[k].User_DataQueue_ptr = ue
        /\ \A i \in Slot : i # k => s[i] = p[i]
    BY <1>1, <1>8, <2>1, Numbers DEF Holds, Stage, Filling, Row, Slot
  <2>3. Whole(p, Count(w))
    BY <1>8 DEF Holds
  <2> HIDE DEF p, s, r, k, ue
  <2>4. ASSUME NEW n \in [UE -> Nat], Whole(p, n)
        PROVE  Whole(s, [n EXCEPT ![ue] = n[ue] + 1])
    BY <1>1, <1>4, <2>1, <2>2, <2>4, FillWhole
  <2>5. Whole(s, Count(w)')
    BY <1>7, <2>3, <2>4
  <2> QED
    BY <2>5 DEF Holds, Stage, Undone, Filling, Swapping
<1>9. "rank" \in Going(t) /\ "rank" \notin Comparing
  BY DEF Going, Accessing, Sorting, Comparing
<1>10. Works(t, "rank", Idle, s)
  BY <1>1, <1>3, <1>4, <1>6, <1>8, <1>9, IdleIsLoop DEF Works, InPass, Idle
<1> QED
  BY <1>10

(* The ranks are worked out row by row. *)
LEMMA RankWorks ==
  ASSUME IInv, ThreadsTyped, NEW t \in {"main", "RRC"}, Rank(t)
  PROVE  \E place, l, r : Works(t, place, l, r)
<1> DEFINE k == loop[t].row
<1>1. /\ pc[t] = "rank" /\ pc[t] \in Busy /\ loop[t] \in Loop /\ k \in Slot
      /\ t \in DOMAIN loop /\ loop[t].pass = 1
  BY WaveTyped DEF Rank, Busy, Serving, ThreadsTyped, Thread, InPass
<1>2. pc = [pc EXCEPT ![t] = pc[t]]
  BY DEF IInv, Typed, Thread
<1>3. UNCHANGED <<table, poll, request, admitted>>
  BY DEF Rank, Shared
<1>4. ASSUME NEW place \in {"rank", "compare"}
      PROVE  /\ place \in Going(t)
             /\ {pc[t], place} \cap ({"restore"} \cup Filling) = {}
             /\ \A l : Stage(place, l, Rows(t), request["RRC"].ue)
  BY <1>1 DEF Going, Serving, Accessing, Sorting, Filling, Stage, Swapping
<1>5. CASE k < PER_WAVE_MAX_NUM
  <2> DEFINE l == [loop[t] EXCEPT !.row = k + 1]
  <2>1. l \in Loop /\ l.pass = 1
    BY <1>1, <1>5, Numbers DEF Loop, Slot
  <2>2. Goto(t, "rank") /\ loop' = [loop EXCEPT ![t] = l]
    BY <1>1, <1>2, <1>5 DEF Rank, At, Goto
  <2>3. Works(t, "rank", l, Rows(t))
    BY <1>1, <1>3, <1>4, <2>1, <2>2, StillWorks DEF InPass, Comparing
  <2> QED
    BY <2>3
<1>6. CASE ~(k < PER_WAVE_MAX_NUM)
  <2> DEFINE l == [loop[t] EXCEPT !.row = 1]
  <2>1. l \in Loop
    BY <1>1, Numbers DEF Loop, Slot
  <2>2. Goto(t, "compare") /\ loop' = [loop EXCEPT ![t] = l]
    BY <1>1, <1>6 DEF Rank, At
  <2>3. l.row <= PER_WAVE_MAX_NUM - l.pass
    BY <1>1, Numbers DEF Loop
  <2>4. Works(t, "compare", l, Rows(t))
    BY <1>1, <1>3, <1>4, <2>1, <2>2, <2>3, StillWorks DEF InPass
  <2> QED
    BY <2>4
<1> QED
  BY <1>5, <1>6

(* Where a comparison or a swap leads, nothing has to be known. *)
LEMMA AdvancePlaces ==
  ASSUME NEW t \in {"main", "RRC"}, NEW place \in {"compare", Done(t)}
  PROVE  /\ place \in Going(t) /\ place \notin {"restore"} \cup Filling
         /\ place \in Comparing => place = "compare"
         /\ place # "rank"
         /\ \A l, r, ue : Stage(place, l, r, ue) /\ Undone(place, l, r) = r
<1>1. place \in {"compare", "serve", "idle"}
      /\ (place = "serve" => t = "main") /\ (place = "idle" => t = "RRC")
  BY DEF Done
<1> QED
  BY <1>1 DEF Going, Serving, Accessing, Sorting, Filling, Swapping, Stage, Undone,
     Comparing

(* A swap begins at a lower row in use; the rows stay as they are. *)
LEMMA CompareWorks ==
  ASSUME IInv, ThreadsTyped, NEW t \in {"main", "RRC"}, Compare(t)
  PROVE  \E place, l, r : Works(t, place, l, r)
<1> DEFINE k == loop[t].row
<1>1. /\ pc[t] = "compare" /\ pc[t] \in Busy /\ loop[t] \in Loop /\ k \in Slot
      /\ k <= PER_WAVE_MAX_NUM - loop[t].pass
  BY WaveTyped DEF Compare, Busy, Serving, ThreadsTyped, InPass, Comparing
<1>2. UNCHANGED <<table, poll, request, admitted>>
  BY DEF Compare, Shared
<1>3. pc[t] \notin {"restore"} \cup Filling
  BY <1>1 DEF Filling
<1>4. CASE Rows(t)[k + 1].State = 1 /\ Goto(t, "save") /\ UNCHANGED loop
  <2>1. /\ "save" \in Going(t) /\ {pc[t], "save"} \cap ({"restore"} \cup Filling) = {}
    BY <1>1 DEF Going, Serving, Accessing, Sorting, Filling
  <2>2. Stage("save", loop[t], Rows(t), request["RRC"].ue)
    BY <1>4 DEF Stage, Filling, Swapping
  <2>3. loop' = [loop EXCEPT ![t] = loop[t]]
    BY <1>4 DEF ThreadsTyped
  <2>4. Works(t, "save", loop[t], Rows(t))
    BY <1>1, <1>2, <1>4, <2>1, <2>2, <2>3, StillWorks DEF InPass
  <2> QED
    BY <2>4
<1>5. CASE \E cut : Advance(t, cut)
  <2>1. PICK place \in {"compare", Done(t)}, l \in Loop :
          /\ Goto(t, place) /\ loop' = [loop EXCEPT ![t] = l]
          /\ l.row <= PER_WAVE_MAX_NUM - l.pass
    BY <1>1, <1>5, AdvanceGoes DEF Comparing
  <2>2. /\ place \in Going(t) /\ {pc[t], place} \cap ({"restore"} \cup Filling) = {}
        /\ Stage(place, l, Rows(t), request["RRC"].ue)
    BY <1>3, AdvancePlaces
  <2>3. Works(t, place, l, Rows(t))
    BY <1>1, <1>2, <2>1, <2>2, AdvancePlaces, StillWorks DEF InPass, Going, Done
  <2> QED
    BY <2>3
<1> QED
  BY <1>4, <1>5 DEF Compare, At

(* The upper row is saved. *)
LEMMA SaveWorks ==
  ASSUME IInv, ThreadsTyped, NEW t \in {"main", "RRC"}, Save(t)
  PROVE  \E place, l, r : Works(t, place, l, r)
<1> DEFINE k == loop[t].row
           l == [loop[t] EXCEPT !.temp = Rows(t)[k]]
<1>1. /\ pc[t] = "save" /\ pc[t] \in Busy /\ loop[t] \in Loop /\ k \in Slot
      /\ Rows(t) \in [Slot -> Row] /\ k <= PER_WAVE_MAX_NUM - loop[t].pass
  BY WaveTyped DEF Save, Busy, Serving, ThreadsTyped, InPass, Comparing
<1>2. /\ l \in Loop /\ l.row = k /\ l.pass = loop[t].pass /\ l.temp = Rows(t)[k]
  BY <1>1 DEF Loop
<1>3. /\ UNCHANGED <<table, poll, request, admitted>>
      /\ Goto(t, "move") /\ loop' = [loop EXCEPT ![t] = l]
  BY <1>1 DEF Save, Shared, At
<1>4. "move" \in Going(t) /\ {pc[t], "move"} \cap ({"restore"} \cup Filling) = {}
  BY <1>1 DEF Going, Serving, Accessing, Sorting, Filling
<1>5. Stage(pc[t], loop[t], Rows(t), request["RRC"].ue) =>
        Stage("move", l, Rows(t), request["RRC"].ue)
  BY <1>1, <1>2 DEF Stage, Filling, Swapping
<1>6. Works(t, "move", l, Rows(t))
  BY <1>1, <1>2, <1>3, <1>4, <1>5, StillWorks DEF InPass
<1> QED
  BY <1>6

(* The two rows of a swap. *)
LEMMA SwapRows ==
  ASSUME ThreadsTyped, NEW t \in {"main", "RRC"}, pc[t] \in Swapping
  PROVE  /\ loop[t].row \in Slot /\ loop[t].row + 1 \in Slot
         /\ loop[t].row # loop[t].row + 1 /\ loop[t].row < loop[t].row + 1
<1>1. loop[t] \in Loop
  BY DEF ThreadsTyped, Thread
<1>2. loop[t].row <= PER_WAVE_MAX_NUM - loop[t].pass
  BY DEF ThreadsTyped, Swapping, InPass, Comparing
<1>3. loop[t].row \in 1 .. PER_WAVE_MAX_NUM /\ loop[t].pass \in 1 .. PER_WAVE_MAX_NUM
  BY <1>1 DEF Loop, Slot
<1> QED
  BY <1>2, <1>3, Numbers DEF Slot

(* The lower row is copied over the upper one, which is saved. *)
LEMMA MoveWorks ==
  ASSUME IInv, ThreadsTyped, NEW t \in {"main", "RRC"}, Move(t)
  PROVE  \E place, l, r : Works(t, place, l, r)
<1> DEFINE k == loop[t].row
           r == Rows(t)
           row == Moved(t, r[k + 1], r[k])
           s == [r EXCEPT ![k] = row]
           ue == request["RRC"].ue
<1>1. /\ pc[t] = "move" /\ pc[t] \in Busy /\ loop[t] \in Loop
      /\ WaveOf(t) \in Wave /\ r \in [Slot -> Row]
      /\ k <= PER_WAVE_MAX_NUM - loop[t].pass
  BY WaveTyped DEF Move, Busy, Serving, ThreadsTyped, InPass, Comparing
<1>2. k \in Slot /\ k + 1 \in Slot /\ k # k + 1 /\ k < k + 1
  BY <1>1, SwapRows DEF Swapping
<1>3. row \in Row
  BY <1>1, <1>2 DEF Moved, Row
<1>4. SetRow(t, k, row) /\ Goto(t, "restore") /\ UNCHANGED <<poll, request, admitted>>
      /\ loop' = [loop EXCEPT ![t] = loop[t]]
  BY DEF Move, At, ThreadsTyped
<1>5. s \in [Slot -> Row] /\ table' = [table EXCEPT ![WaveOf(t)] = s]
  BY <1>1, <1>2, <1>3, <1>4, SetRowRows
<1>6. Count(WaveOf(t))' = Count(WaveOf(t))
  BY <1>4 DEF Count, WaveOf
<1>7. ASSUME NEW n, Holds("move", loop[t], r, ue, n) PROVE Holds("restore", loop[t], s, ue, n)
  <2>1. Whole(r, n) /\ r[k + 1].State = 1 /\ loop[t].temp = r[k]
    BY <1>7 DEF Holds, Stage, Undone, Swapping, Filling
  <2>2. r[k].State = 1
    BY <1>2, <2>1 DEF Whole
  <2>3. row = r[k + 1]
    BY <1>1, <1>2, <2>1, <2>2, MovedWhole
  <2>4. s[k] = r[k + 1] /\ s[k + 1] = r[k + 1] /\ [s EXCEPT ![k] = r[k]] = r
    BY <1>1, <1>2, <2>3
  <2> HIDE DEF s
  <2>5. Undone("restore", loop[t], s) = r
    BY <2>1, <2>4 DEF Undone
  <2>6. Stage("restore", loop[t], s, ue)
    BY <2>1, <2>2, <2>4 DEF Stage, Swapping, Filling
  <2> QED
    BY <2>1, <2>5, <2>6 DEF Holds
<1>8. "restore" \in Going(t)
  BY DEF Going, Serving, Accessing, Sorting
<1>9. Works(t, "restore", loop[t], s)
  BY <1>1, <1>4, <1>5, <1>6, <1>7, <1>8 DEF Works, ThreadsTyped, InPass
<1> QED
  BY <1>9

(* The saved row becomes the lower one, and the two have changed places. *)
LEMMA RestoreWorks ==
  ASSUME IInv, ThreadsTyped, NEW t \in {"main", "RRC"}, Restore(t)
  PROVE  \E place, l, r : Works(t, place, l, r)
<1> DEFINE k == loop[t].row
           temp == loop[t].temp
           r == Rows(t)
           row == Moved(t, temp, r[k + 1])
           s == [r EXCEPT ![k + 1] = row]
           ue == request["RRC"].ue
<1>1. /\ pc[t] = "restore" /\ pc[t] \in Busy /\ loop[t] \in Loop /\ temp \in Row
      /\ WaveOf(t) \in Wave /\ r \in [Slot -> Row]
  BY WaveTyped DEF Restore, Busy, Serving, Loop
<1>2. k \in Slot /\ k + 1 \in Slot /\ k # k + 1 /\ k < k + 1
  BY <1>1, SwapRows DEF Swapping
<1>3. row \in Row
  BY <1>1, <1>2 DEF Moved, Row
<1>4. SetRow(t, k + 1, row) /\ Advance(t, FALSE) /\ UNCHANGED <<poll, request, admitted>>
  BY DEF Restore, At
<1>5. s \in [Slot -> Row] /\ table' = [table EXCEPT ![WaveOf(t)] = s]
  BY <1>1, <1>2, <1>3, <1>4, SetRowRows
<1>6. Count(WaveOf(t))' = Count(WaveOf(t))
  BY <1>4 DEF Count, WaveOf
<1>7. PICK place \in {"compare", Done(t)}, l \in Loop :
        /\ Goto(t, place) /\ loop' = [loop EXCEPT ![t] = l]
        /\ l.row <= PER_WAVE_MAX_NUM - l.pass
  BY <1>1, <1>4, AdvanceGoes DEF Comparing
<1>8. ASSUME NEW n, Holds("restore", loop[t], r, ue, n) PROVE Holds(place, l, s, ue, n)
  <2> DEFINE q == [r EXCEPT ![k] = temp]
  <2>1. /\ Whole(q, n) /\ r[k + 1].State = 1 /\ r[k] = r[k + 1] /\ temp.State = 1
    BY <1>8 DEF Holds, Stage, Undone, Swapping, Filling
  <2>2. row = temp
    BY <1>1, <1>2, <2>1, MovedWhole
  <2>3. /\ q \in [Slot -> Row] /\ q[k] = temp /\ q[k + 1] = r[k + 1]
        /\ \A i \in Slot : i # k /\ i # k + 1 => s[i] = q[i]
        /\ s[k] = q[k + 1] /\ s[k + 1] = q[k]
    BY <1>1, <1>2, <1>5, <2>1, <2>2
  <2> HIDE DEF q, s, k, temp, row
  <2>4. s = [i \in Slot |-> IF i = k THEN q[k + 1] ELSE IF i = k + 1 THEN q[k] ELSE q[i]]
    BY <1>2, <1>5, <2>3
  <2>5. Whole(s, n)
    BY <1>2, <2>1, <2>3, <2>4, SwapWhole
  <2> QED
    BY <2>5, AdvancePlaces DEF Holds
<1>9. Works(t, place, l, s)
  BY <1>1, <1>4, <1>5, <1>6, <1>7, <1>8, AdvancePlaces DEF Works, ThreadsTyped, InPass
<1> QED
  BY <1>9

(* The rows are served up to the first free one. *)
LEMMA ServeWorks ==
  ASSUME IInv, ThreadsTyped, ServeRow \/ LookForData
  PROVE  \E place, l, r : Works("main", place, l, r)
<1> DEFINE t == "main"
           k == loop[t].row
<1>1. /\ pc[t] \in {"serve", "data"} /\ pc[t] \in Busy /\ loop[t] \in Loop
      /\ k \in Slot /\ Rows(t) \in [Slot -> Row] /\ t \in DOMAIN loop
  BY WaveTyped DEF ServeRow, LookForData, Busy, Serving, ThreadsTyped, Thread
<1>2. UNCHANGED <<table, poll, request, admitted>>
  BY DEF ServeRow, LookForData, Shared
<1>3. PICK place \in {"serve", "data", "unlock"}, l \in Loop :
        /\ Goto(t, place) /\ loop' = [loop EXCEPT ![t] = l]
        /\ place = "data" => l = loop[t] /\ Rows(t)[k].State # 0
  <2>1. CASE ServeRow
    <3>1. UNCHANGED loop
      BY <2>1 DEF ServeRow
    <3>2. loop' = [loop EXCEPT ![t] = loop[t]]
      BY <3>1 DEF ThreadsTyped
    <3> QED
      BY <1>1, <2>1, <3>2 DEF ServeRow, At
  <2>2. CASE LookForData /\ k = PER_WAVE_MAX_NUM
    <3>1. loop' = [loop EXCEPT ![t] = loop[t]] /\ Goto(t, "unlock")
      BY <2>2 DEF LookForData, At, ThreadsTyped
    <3> QED
      BY <1>1, <3>1
  <2>3. CASE LookForData /\ k # PER_WAVE_MAX_NUM
    <3> DEFINE m == [loop[t] EXCEPT !.row = k + 1]
    <3>1. m \in Loop
      BY <1>1, <2>3, Numbers DEF Loop, Slot
    <3>2. loop' = [loop EXCEPT ![t] = m] /\ Goto(t, "serve")
      BY <1>1, <2>3 DEF LookForData, At
    <3> QED
      BY <3>1, <3>2
  <2> QED
    BY <2>1, <2>2, <2>3
<1>4. /\ place \in Going(t) /\ {pc[t], place} \cap ({"restore"} \cup Filling) = {}
      /\ InPass(place, l)
  BY <1>1 DEF Going, Serving, Filling, InPass, Comparing
<1>5. Stage(place, l, Rows(t), request["RRC"].ue)
  <2>1. place = "data" => Rows(t)[l.row].State = 1
    BY <1>1, <1>3 DEF Row
  <2> QED
    BY <2>1 DEF Stage, Filling, Swapping
<1>6. Works(t, place, l, Rows(t))
  BY <1>1, <1>2, <1>3, <1>4, <1>5, StillWorks
<1> QED
  BY <1>6

(* Outside of its rows main goes through its setup, locks and unlocks, and
   turns to the next wave. *)
LEMMA MainEnters ==
  ASSUME IInv, ThreadsTyped,
         Topology \/ Inject \/ Poll \/ Lock("main") \/ Unlock("main")
  PROVE  \E place : Enters("main", place)
<1>1. UNCHANGED <<table, admitted, request>>
  BY DEF Topology, Inject, Poll, Lock, Unlock, Shared
<1>2. poll' \in Wave
  <2>1. CASE Poll
    BY <2>1, ThreadsAssumption DEF Poll, Wave, ThreadsTyped
  <2>2. CASE ~Poll
    BY <2>2 DEF Topology, Inject, Lock, Unlock, Shared, ThreadsTyped
  <2> QED
    BY <2>1, <2>2
<1>3. pc["main"] \notin Busy \cup {"none"}
  BY DEF Topology, Inject, Poll, Lock, Unlock, Busy, Accessing, Serving, Sorting
<1>4. PICK place \in {"inject", "lock", "poll", "rank"} :
        /\ Goto("main", place)
        /\ \/ loop' = [loop EXCEPT !["main"] = Idle]
           \/ place \in {"inject", "lock"} /\ UNCHANGED loop
  <2>1. CASE Topology \/ Inject \/ Unlock("main")
    BY <2>1 DEF Topology, Inject, Unlock, Shared
  <2>2. CASE Poll \/ Lock("main")
    BY <2>2 DEF Poll, Lock
  <2> QED
    BY <2>1, <2>2
<1>5. /\ place \in Going("main") \cup {"inject"}
      /\ place \in Busy => place = "rank"
      /\ place \in {"inject", "lock"} => place \notin Busy
  BY DEF Going, Serving, Busy, Accessing, Sorting
<1> QED
  BY <1>1, <1>2, <1>3, <1>4, <1>5 DEF Enters

(* The RRC thread turns to the wave of the request it has received. *)
LEMMA ReceiveEnters ==
  ASSUME IInv, ThreadsTyped, NEW u \in UE, NEW w \in Wave, ReceiveRAMSG(u, w)
  PROVE  Enters("RRC", "find")
<1>1. pc["RRC"] \notin Busy \cup {"none"}
  BY DEF ReceiveRAMSG, Busy, Accessing, Serving, Sorting
<1>2. "find" \in Going("RRC")
  BY DEF Going, Accessing
<1>3. request' = [request EXCEPT !["RRC"] = [ue |-> u, wave |-> w]]
      /\ "RRC" \in DOMAIN request /\ DOMAIN request = Access
  BY DEF ReceiveRAMSG, ThreadsTyped, Access
<1>4. DOMAIN request' = Access /\ request'["RRC"] \in Request
  BY <1>3 DEF Request
<1> QED
  BY <1>1, <1>2, <1>4 DEF ReceiveRAMSG, Enters

-----------------------------------------------------------------------------
(* The invariant. *)

(* An access meets a subframe where both have the rows of one wave. *)
LEMMA MetHas ==
  ASSUME IInv, ThreadsTyped, NEW w \in Wave
  PROVE  Met(w) <=> Has("main", w) /\ Has("RRC", w)
<1>1. pc["main"] \in Serving <=> pc["main"] \in Busy
  BY DEF ThreadsTyped, Busy, Accessing, Serving, Sorting
<1>2. pc["RRC"] \in Accessing <=> pc["RRC"] \in Busy
  BY DEF ThreadsTyped, Busy, Accessing, Serving, Sorting
<1>3. pc["RACH"] \notin Accessing
  BY DEF IInv, Waiting, Accessing, Sorting
<1> QED
  BY <1>1, <1>2, <1>3 DEF Met, Has, WaveOf, Access

(* A wave that is not raced stays settled: the thread in its rows keeps them,
   and another one that comes to them makes it raced. *)
LEMMA SettledKept ==
  ASSUME IInv, IInv', ThreadsTyped, NEW t \in {"main", "RRC"}, Keeps(t),
         NEW w \in Wave, Settled(w), ~Met(w)'
  PROVE  Settled(w)'
<1>1. ~(Has("main", w)' /\ Has("RRC", w)')
  <2>1. ThreadsTyped'
    BY DEF Keeps
  <2> QED
    BY <2>1, MetHas, PTL
<1>2. PICK o \in {"main", "RRC"} : ~Has(Other(o), w) /\ Fit(o, w)
  BY DEF Settled
<1>3. Other(t) \in {"main", "RRC"} /\ Other(Other(t)) = t /\ Other(t) # t
  BY DEF Other
<1>4. /\ Apart(t)
      /\ Fit(t, w) => Fit(t, w)'
      /\ Has(Other(t), w)' <=> Has(Other(t), w)
  BY <1>3 DEF Keeps, Apart, Has, WaveOf, Other
<1>5. CASE ~Has(Other(t), w) /\ Fit(t, w)
  BY <1>4, <1>5 DEF Settled
<1>6. CASE ~(~Has(Other(t), w) /\ Fit(t, w))
  <2>1. o = Other(t) /\ ~Has(t, w) /\ Fit(Other(t), w)
    BY <1>2, <1>3, <1>6 DEF Other
  <2>2. Has(Other(t), w)
    BY <1>6, <2>1 DEF Fit
  <2>3. ~Has(t, w)'
    BY <1>1, <1>4, <2>2 DEF Other
  <2>4. table'[w] = table[w] /\ Count(w)' = Count(w)
    BY <1>4, <2>1 DEF Apart
  <2>5. pc'[Other(t)] = pc[Other(t)] /\ loop'[Other(t)] = loop[Other(t)]
    BY <1>4 DEF Apart
  <2>6. Fit(Other(t), w)'
    <3>1. CASE t = "main"
      <4>1. request' = request
        BY <1>4, <3>1 DEF Apart
      <4> QED
        BY <1>4, <2>1, <2>2, <2>4, <2>5, <4>1 DEF Fit
    <3>2. CASE t = "RRC"
      <4>1. Other(t) = "main" /\ pc["main"] # "queue"
        BY <2>2, <3>2, WaveTyped DEF Has, Serving, Other
      <4>2. Stage(pc["main"], loop["main"], table[w], request["RRC"].ue)
            => Stage(pc["main"], loop["main"], table[w], request'["RRC"].ue)
        BY <4>1 DEF Stage
      <4> QED
        BY <1>4, <2>1, <2>2, <2>4, <2>5, <4>1, <4>2 DEF Fit
    <3> QED
      BY <3>1, <3>2
  <2> QED
    BY <1>3, <2>3, <2>6 DEF Settled
<1> QED
  BY <1>5, <1>6

(* The step of one thread in or out of its rows. *)
ThreadStep(t) ==
  \E place : \/ \E l, r : Works(t, place, l, r)
             \/ Enters(t, place)

(* What the other steps change is not in the rows: the threads are created,
   the RACH thread looks, the RLC thread waits. *)
Aside ==
  /\ UNCHANGED <<table, poll, request, loop, admitted>>
  /\ \/ UNCHANGED <<pc["main"], pc["RRC"]>>
     \/ CreateThreads

(* Every step is one of these. *)
LEMMA Steps ==
  ASSUME IInv, ThreadsTyped, Next
  PROVE  Aside \/ \E t \in {"main", "RRC"} : ThreadStep(t)
<1>1. CASE CreateThreads \/ RACHLook \/ RLCLock
  <2>1. UNCHANGED <<table, poll, request, loop, admitted>>
    BY <1>1 DEF CreateThreads, RACHLook, RLCLock, Shared
  <2>2. CreateThreads \/ \E t \in {"RACH", "RLC"} : \E place : Goto(t, place)
    BY <1>1 DEF RACHLook, RLCLock
  <2>3. CreateThreads \/ UNCHANGED <<pc["main"], pc["RRC"]>>
    BY <2>2 DEF Goto, IInv, Typed, Thread
  <2> QED
    BY <2>1, <2>3 DEF Aside
<1>2. CASE Topology \/ Inject \/ Poll \/ \E t \in {"main", "RACH"} : Lock(t) \/ Unlock(t)
  <2>1. ~Lock("RACH") /\ ~Unlock("RACH")
    BY DEF IInv, Waiting, Lock, Unlock
  <2> QED
    BY <1>2, <2>1, MainEnters DEF ThreadStep
<1>3. CASE ServeRow \/ LookForData
  BY <1>3, ServeWorks DEF ThreadStep
<1>4. CASE \E u \in UE, w \in Wave : ReceiveRAMSG(u, w)
  BY <1>4, ReceiveEnters DEF ThreadStep
<1>5. CASE \E t \in Access : Find(t) \/ Claim(t) \/ Name(t) \/ Queue(t)
  <2>1. Find("RRC") \/ Claim("RRC") \/ Name("RRC") \/ Queue("RRC")
    BY <1>5 DEF IInv, Waiting, Access, Find, Claim, Name, Queue
  <2> QED
    BY <2>1, FindWorks, ClaimWorks, QueueWorks DEF ThreadStep
<1>6. CASE \E t \in Access \cup {"main"} : SortStep(t)
  <2>1. PICK t \in {"main", "RRC"} : SortStep(t)
    BY <1>6 DEF IInv, Waiting, Access, SortStep, Rank, Compare, Save, Move, Restore
  <2> QED
    BY <2>1, RankWorks, CompareWorks, SaveWorks, MoveWorks, RestoreWorks
    DEF SortStep, ThreadStep
<1> QED
  BY <1>1, <1>2, <1>3, <1>4, <1>5, <1>6 DEF Next

(* A wave's rows stay as they are aside. *)
LEMMA AsideKeeps ==
  ASSUME IInv, IInv', ThreadsTyped, Aside, raced' \subseteq Wave
  PROVE  /\ ThreadsTyped'
         /\ \A w \in Wave : Settled(w) => Settled(w)'
<1>1. ASSUME NEW w \in Wave PROVE Count(w)' = Count(w)
  BY DEF Aside, Count
<1>2. CASE UNCHANGED <<pc["main"], pc["RRC"]>>
  <2>1. ThreadsTyped'
    BY <1>2 DEF Aside, ThreadsTyped
  <2>2. \A w \in Wave, t \in {"main", "RRC"} :
          Has(t, w)' = Has(t, w) /\ Fit(t, w)' = Fit(t, w)
    BY <1>1, <1>2 DEF Aside, Has, Fit, WaveOf
  <2>3. \A t \in {"main", "RRC"} : Other(t) \in {"main", "RRC"}
    BY DEF Other
  <2> QED
    BY <2>1, <2>2, <2>3 DEF Settled
<1>3. CASE CreateThreads
  <2>1. /\ pc["main"] = "create" /\ pc["RRC"] = "none"
        /\ pc'["main"] = "topology" /\ pc'["RRC"] = "idle"
    BY <1>3 DEF CreateThreads, ThreadsTyped
  <2>2. ThreadsTyped'
    BY <2>1 DEF Aside, ThreadsTyped, InPass, Comparing, Accessing, Sorting
  <2>3. \A w \in Wave, t \in {"main", "RRC"} : ~Has(t, w) /\ ~Has(t, w)'
    BY <2>1 DEF Has, Busy, Accessing, Serving, Sorting
  <2>4. \A w \in Wave : table'[w] = table[w]
    BY DEF Aside
  <2>5. \A t \in {"main", "RRC"} : Other(t) \in {"main", "RRC"}
    BY DEF Other
  <2> QED
    BY <1>1, <2>2, <2>3, <2>4, <2>5 DEF Settled, Fit
<1> QED
  BY <1>2, <1>3 DEF Aside

(* The rows that are ranked, and those that are looked at for data, have the
   queue of their user, unless their wave is raced. *)
LEMMA PointerIsSet ==
  ASSUME TableInv, NEW t \in {"main", "RRC"}, pc[t] \in {"rank", "data"},
         WaveOf(t) \notin raced,
         pc[t] = "rank" => Rows(t)[At(t)].State = 1
  PROVE  Rows(t)[At(t)].User_DataQueue_ptr # NoUE
<1> DEFINE w == WaveOf(t)
           r == Rows(t)
           k == loop[t].row
<1>1. /\ w \in Wave /\ Has(t, w) /\ r = table[w] /\ k \in Slot
  BY WaveTyped DEF TableInv, Busy, Serving
<1>2. Fit(t, w)
  <2>1. PICK o \in {"main", "RRC"} : ~Has(Other(o), w) /\ Fit(o, w)
    BY <1>1 DEF TableInv, Coherence, Settled
  <2>2. o # t => Other(o) = t
    BY DEF Other
  <2> QED
    BY <1>1, <2>1, <2>2
<1>3. /\ Stage(pc[t], loop[t], r, request["RRC"].ue)
      /\ Whole(Undone(pc[t], loop[t], r), Count(w))
  BY <1>1, <1>2 DEF Fit
<1>4. r[k].State = 1 /\ Undone(pc[t], loop[t], r) = r
  BY <1>3 DEF At, Stage, Undone, Filling
<1>5. r[k].U_RNTI \in UE /\ r[k].User_DataQueue_ptr = r[k].U_RNTI
  BY <1>1, <1>3, <1>4 DEF Whole
<1> QED
  BY <1>5, ThreadsAssumption DEF At

(* So nothing crashes without a race. *)
LEMMA CrashStep ==
  ASSUME TableInv, Next, crashed'
  PROVE  raced # {}
<1>1. ~crashed
  BY DEF Next
<1>2. LookForData \/ \E t \in {"main", "RRC"} : Rank(t)
  <2>1. ASSUME NEW t, Find(t) \/ Claim(t) \/ Name(t) \/ Queue(t) \/ Lock(t) \/ Unlock(t)
                      \/ Compare(t) \/ Save(t) \/ Move(t) \/ Restore(t)
        PROVE  UNCHANGED crashed
    BY <2>1 DEF Find, Claim, Name, Queue, Lock, Unlock, Compare, Save, Move, Restore
  <2>2. ~CreateThreads /\ ~Topology /\ ~Inject /\ ~Poll /\ ~ServeRow /\ ~RACHLook
        /\ ~RLCLock
    BY <1>1 DEF CreateThreads, Topology, Inject, Poll, ServeRow, RACHLook, RLCLock
  <2>3. ~\E u \in UE, w \in Wave : ReceiveRAMSG(u, w)
    BY <1>1 DEF ReceiveRAMSG
  <2>4. ~Rank("RACH")
    BY DEF TableInv, IInv, Waiting, Rank
  <2> QED
    BY <1>1, <2>1, <2>2, <2>3, <2>4 DEF Next, SortStep, Access
<1>3. CASE LookForData
  <2>1. pc["main"] = "data" /\ Rows("main")[At("main")].User_DataQueue_ptr = NoUE
    BY <1>3 DEF LookForData
  <2> QED
    BY <2>1, PointerIsSet
<1>4. CASE \E t \in {"main", "RRC"} : Rank(t)
  <2>1. PICK t \in {"main", "RRC"} : Rank(t)
    BY <1>4
  <2>2. /\ pc[t] = "rank" /\ Rows(t)[At(t)].State = 1
        /\ Rows(t)[At(t)].User_DataQueue_ptr = NoUE
    BY <2>1 DEF Rank
  <2> QED
    BY <2>2, PointerIsSet
<1> QED
  BY <1>2, <1>3, <1>4

(* At the start every row is free and nobody has got one. *)
LEMMA InitTable == Init => TableInv
<1> SUFFICES ASSUME Init PROVE TableInv
  OBVIOUS
<1>1. IInv
  BY InitInvariant
<1>2. pc["main"] = "create" /\ pc["RRC"] = "none"
  BY DEF Init
<1>3. ThreadsTyped
  <2>1. table \in [Wave -> [Slot -> Row]] /\ loop \in [Thread -> Loop]
    BY IdleIsLoop DEF Init
  <2>2. poll \in Wave /\ DOMAIN request = Access /\ raced \subseteq Wave
    BY ThreadsAssumption DEF Init, Wave
  <2>3. admitted \in [UE \X Wave -> Nat]
    BY DEF Init
  <2> QED
    BY <1>2, <2>1, <2>2, <2>3 DEF ThreadsTyped, InPass, Comparing, Accessing, Sorting
<1>4. \A t \in {"main", "RRC"}, w \in Wave : ~Has(t, w)
  BY <1>2 DEF Has, Busy, Accessing, Serving, Sorting
<1>5. ASSUME NEW w \in Wave PROVE Whole(table[w], Count(w))
  <2>1. \A i \in Slot : table[w][i] = FreeRow
    BY DEF Init
  <2>2. \A i \in Slot : table[w][i].State = 0
    BY <2>1 DEF FreeRow
  <2>3. \A u \in UE : UsedBy(table[w], u) = {}
    BY <2>2 DEF UsedBy
  <2>4. \A u \in UE : Count(w)[u] = 0
    BY DEF Init, Count
  <2>5. Cardinality({}) = 0
    BY FS_EmptySet
  <2> QED
    BY <2>2, <2>3, <2>4, <2>5 DEF Whole
<1>6. Coherence
  <2>1. \A w \in Wave : ~Met(w)
    BY <1>1, <1>3, <1>4, MetHas
  <2>2. \A w \in Wave : Settled(w)
    BY <1>4, <1>5 DEF Settled, Fit, Other
  <2> QED
    BY <2>1, <2>2 DEF Coherence, Init
<1> QED
  BY <1>1, <1>3, <1>6 DEF TableInv

(* Every step keeps what the threads have made of the table. *)
LEMMA StepTable == TableInv /\ [Next]_vars => TableInv'
<1> SUFFICES ASSUME TableInv, [Next]_vars PROVE TableInv'
  OBVIOUS
<1>1. IInv /\ ThreadsTyped /\ Coherence /\ IInv'
  BY StepInvariant DEF TableInv
<1>2. CASE UNCHANGED vars
  <2>1. ThreadsTyped'
    BY <1>1, <1>2 DEF vars, ThreadsTyped
  <2>2. \A w \in Wave : Met(w)' = Met(w)
    BY <1>2 DEF vars, Met
  <2>3. \A w \in Wave : Settled(w)' = Settled(w)
    BY <1>2 DEF vars, Settled, Has, Fit, WaveOf, Count
  <2>4. Coherence'
    BY <1>1, <1>2, <2>2, <2>3 DEF vars, Coherence
  <2> QED
    BY <1>1, <2>1, <2>4 DEF TableInv
<1>3. CASE Next
  <2>1. raced' = raced \cup {w \in Wave : Met(w)'}
    BY <1>3 DEF Next
  <2>2. raced' \subseteq Wave
    BY <1>1, <2>1 DEF ThreadsTyped
  <2>3. /\ ThreadsTyped'
        /\ \A w \in Wave : Settled(w) /\ ~Met(w)' => Settled(w)'
    <3>1. CASE Aside
      BY <1>1, <2>2, <3>1, AsideKeeps
    <3>2. CASE \E t \in {"main", "RRC"} : ThreadStep(t)
      <4>1. PICK t \in {"main", "RRC"} : ThreadStep(t)
        BY <3>2
      <4>2. Keeps(t)
        BY <1>1, <2>2, <4>1, WorksKeeps, EntersKeeps DEF ThreadStep
      <4> QED
        BY <1>1, <4>2, SettledKept DEF Keeps
    <3> QED
      BY <1>1, <1>3, <3>1, <3>2, Steps
  <2>4. crashed' => raced' # {}
    BY <1>3, <2>1, CrashStep
  <2>5. Coherence'
    BY <1>1, <2>1, <2>3, <2>4 DEF Coherence
  <2> QED
    BY <1>1, <2>3, <2>5 DEF TableInv
<1> QED
  BY <1>2, <1>3

(* Where nobody is in the middle of the rows they are coherent. *)
LEMMA QuietIsWhole ==
  ASSUME TableInv, NEW w \in Wave \ raced, Quiet(w)
  PROVE  Coherent(w)
<1>1. PICK t \in {"main", "RRC"} : Fit(t, w)
  BY DEF TableInv, Coherence, Settled
<1>2. Whole(table[w], Count(w))
  <2>1. CASE ~Has(t, w)
    BY <1>1, <2>1 DEF Fit
  <2>2. CASE Has(t, w)
    <3>1. t = "main" /\ pc["main"] \in {"serve", "data"}
      BY <2>2, WaveTyped DEF TableInv, Has, Quiet, WaveOf, Access, Serving, Sorting
    <3>2. Undone(pc[t], loop[t], table[w]) = table[w]
      BY <3>1 DEF Undone, Filling
    <3> QED
      BY <1>1, <2>2, <3>2 DEF Fit
  <2> QED
    BY <2>1, <2>2
<1>3. \A u \in UE : RowsOf(u, w) = UsedBy(table[w], u)
  BY DEF RowsOf, UsedBy
<1>4. \A u \in UE : Count(w)[u] = admitted[u, w]
  BY DEF Count
<1> QED
  BY <1>2, <1>3, <1>4 DEF Whole, Coherent

(* A wave whose rows no access and no subframe had at the same time has lost,
   doubled and mixed up no user, whatever the steps of its accesses and
   subframes were. *)
THEOREM TableIsCoherent == Spec => []CoherentUnlessRaced
<1>1. TableInv => CoherentUnlessRaced
  BY QuietIsWhole DEF CoherentUnlessRaced
<1> QED
  BY <1>1, InitTable, StepTable, PTL DEF Spec

(* No NULL queue pointer is followed before an access has met a subframe. *)
THEOREM NoCrashWithoutRace == Spec => []CrashNeedsRace
<1>1. TableInv => CrashNeedsRace
  BY DEF TableInv, Coherence, CrashNeedsRace
<1> QED
  BY <1>1, InitTable, StepTable, PTL DEF Spec
=============================================================================
