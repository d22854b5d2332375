----------------------------- MODULE MacThreads -----------------------------
(***************************************************************************)
(* The threads that main.c starts and the two mutexes between them: the    *)
(* main loop (a subframe under Global_MAC_Lock), the RACH thread, the RRC  *)
(* thread, which runs RAMSG_process without the lock, and the RLC thread,  *)
(* which locks its own mutex twice.  Here the steps of an access and of a  *)
(* subframe on wave_ueser_mapPtrArray interleave; MacAccess and Scheduler  *)
(* have what each does when it runs alone.  No downlink data ever arrives  *)
(* (RLCNeverReceives), so every user buffer is empty.                      *)
(***************************************************************************)
EXTENDS Integers, FiniteSets

CONSTANTS UE,                (* the users whose requests arrive *)
          NoUE,              (* U_RNTI 0 or 0xFFFFFFFF, a NULL queue pointer *)
          WAVE_NUM,          (* waves, numbered from 0, all polled *)
          PER_WAVE_MAX_NUM,  (* rows of one wave, 10 *)
          RecordLen,         (* sizeof(type_RAMSG_s) *)
          MaxRequests        (* bound on the accesses of one user to one wave *)

ASSUME ThreadsAssumption ==
  /\ NoUE \notin UE
  /\ WAVE_NUM \in Nat \ {0}
  /\ PER_WAVE_MAX_NUM \in Nat /\ PER_WAVE_MAX_NUM >= 2
  /\ RecordLen \in Nat \ {0}
  /\ MaxRequests \in Nat

VARIABLES pc,        (* where each thread is *)
          owner,     (* the holder of each mutex *)
          table,     (* wave_ueser_mapPtrArray *)
          poll,      (* poll_wave_index *)
          waiting,   (* records in Queue_RACH_Req: 0 or 1, see RecordQueue *)
          request,   (* the request a thread's RAMSG_process works on *)
          loop,      (* the locals of a thread's loops over rows *)
          admitted,  (* ghost: accesses that filled a row, by user and wave *)
          raced,     (* ghost: waves where an access met a subframe *)
          crashed    (* a NULL queue pointer was followed *)

vars == <<pc, owner, table, poll, waiting, request, loop, admitted, raced,
          crashed>>

-----------------------------------------------------------------------------
Wave == 0 .. WAVE_NUM - 1
Slot == 1 .. PER_WAVE_MAX_NUM

Thread == {"main", "RACH", "RRC", "RLC"}
Access == {"RACH", "RRC"}              (* the threads that run RAMSG_process *)
Mutex  == {"Global_MAC_Lock", "mutex"}
Nobody == "nobody"
QUEUE_OK == 0

(* A row of UserInfo_Block; User_DataQueue_ptr stands for the user whose
   buffer it points to. *)
Row == [State : {0, 1}, U_RNTI : UE \cup {NoUE},
        User_DataQueue_ptr : UE \cup {NoUE}]

FreeRow == [State |-> 0, U_RNTI |-> NoUE, User_DataQueue_ptr |-> NoUE]

Request == [ue : UE, wave : Wave]

(* The locals of a thread's loops: the sort that runs, its pass, the row, and
   the row saved for a swap. *)
Loop == [sort : {"priority", "level"}, pass : 1 .. PER_WAVE_MAX_NUM,
         row : Slot, temp : Row]

Idle == [sort |-> "priority", pass |-> 1, row |-> 1, temp |-> FreeRow]

Sorting == {"rank", "compare", "save", "move", "restore"}

Place ==
  [main : {"create", "topology", "inject", "lock", "poll", "serve", "data",
           "unlock"} \cup Sorting,
   RACH : {"none", "look", "lock", "find", "claim", "name", "queue", "unlock"}
            \cup Sorting,
   RRC  : {"none", "idle", "find", "claim", "name", "queue"} \cup Sorting,
   RLC  : {"none", "lock", "relock", "receive"}]

TypeOK ==
  /\ pc \in Place
  /\ owner \in [Mutex -> Thread \cup {Nobody}]
  /\ table \in [Wave -> [Slot -> Row]]
  /\ poll \in Wave
  /\ waiting \in {0, 1}
  /\ request \in [Access -> Request]
  /\ loop \in [Thread -> Loop]
  /\ admitted \in [UE \X Wave -> 0 .. MaxRequests]
  /\ raced \subseteq Wave
  /\ crashed \in BOOLEAN

(* The wave whose rows a thread works on. *)
WaveOf(t) == IF t = "main" THEN poll ELSE request[t].wave

Rows(t) == table[WaveOf(t)]

At(t) == loop[t].row

Init ==
  /\ pc = [main |-> "create", RACH |-> "none", RRC |-> "none", RLC |-> "none"]
  /\ owner = [m \in Mutex |-> Nobody]
  /\ table = [w \in Wave |-> [i \in Slot |-> FreeRow]]
  /\ poll = 0
  /\ waiting = 0
  /\ request = [t \in Access |-> CHOOSE r \in Request : TRUE]
  /\ loop = [t \in Thread |-> Idle]
  /\ admitted = [a \in UE \X Wave |-> 0]
  /\ raced = {}
  /\ crashed = FALSE

-----------------------------------------------------------------------------
Goto(t, place) == pc' = [pc EXCEPT ![t] = place]

SetRow(t, i, row) == table' = [table EXCEPT ![WaveOf(t)][i] = row]

(* What a thread leaves alone when it moves in its own loops only. *)
Shared == <<owner, table, poll, waiting, request, admitted>>

-----------------------------------------------------------------------------
(* main *)

(* pthread_create of the RACH, the RRC and the RLC thread. *)
CreateThreads ==
  /\ pc["main"] = "create"
  /\ pc' = [main |-> "topology", RACH |-> "look", RRC |-> "idle",
            RLC |-> "lock"]
  /\ UNCHANGED <<Shared, loop, crashed>>

(* Init_Topology, Init_Interference_Matrix, Generate_Users_And_Match: they
   write what no other action here reads. *)
Topology ==
  /\ pc["main"] = "topology"
  /\ Goto("main", "inject")
  /\ UNCHANGED <<Shared, loop, crashed>>

(* Inject_Users_Into_MAC: the second push is refused, and it stops.  The
   slot clock that main starts and stops next is in FrameClock. *)
Inject ==
  /\ pc["main"] = "inject"
  /\ waiting' = 1
  /\ Goto("main", "lock")
  /\ UNCHANGED <<owner, table, poll, request, loop, admitted, crashed>>

(* poll_wave_index_renew_MLRA without demand: the next wave.  It looks at a
   queue pointer before it follows it. *)
Poll ==
  /\ pc["main"] = "poll"
  /\ poll' = (poll + 1) % WAVE_NUM
  /\ Goto("main", "rank")
  /\ loop' = [loop EXCEPT !["main"] = Idle]
  /\ UNCHANGED <<owner, table, waiting, request, admitted, crashed>>

(* The rows are served up to the first one with State 0. *)
ServeRow ==
  /\ pc["main"] = "serve"
  /\ Goto("main", IF Rows("main")[At("main")].State = 0 THEN "unlock" ELSE "data")
  /\ UNCHANGED <<Shared, loop, crashed>>

(* User_DataQueue_ptr->size == 0: the row is passed over. *)
LookForData ==
  /\ pc["main"] = "data"
  /\ crashed' = (Rows("main")[At("main")].User_DataQueue_ptr = NoUE)
  /\ IF At("main") = PER_WAVE_MAX_NUM
     THEN Goto("main", "unlock") /\ UNCHANGED loop
     ELSE Goto("main", "serve") /\ loop' = [loop EXCEPT !["main"].row = @ + 1]
  /\ UNCHANGED Shared

-----------------------------------------------------------------------------
(* Mutexes: default ones, which a thread that holds them waits for too. *)

Acquire(t, m) == owner[m] = Nobody /\ owner' = [owner EXCEPT ![m] = t]

(* pthread_mutex_lock(&Global_MAC_Lock), by main and by the RACH thread. *)
Lock(t) ==
  /\ pc[t] = "lock"
  /\ Acquire(t, "Global_MAC_Lock")
  /\ Goto(t, IF t = "main" THEN "poll" ELSE "find")
  /\ loop' = [loop EXCEPT ![t] = Idle]
  /\ UNCHANGED <<table, poll, waiting, request, admitted, crashed>>

Unlock(t) ==
  /\ pc[t] = "unlock"
  /\ owner' = [owner EXCEPT !["Global_MAC_Lock"] = Nobody]
  /\ Goto(t, IF t = "main" THEN "lock" ELSE "look")
  /\ UNCHANGED <<table, poll, waiting, request, loop, admitted, crashed>>

(* Mutant: the mutex that the RLC thread gets is Global_MAC_Lock. *)
RLCLockGlobal ==
  /\ pc["RLC"] \in {"lock", "relock"}
  /\ Acquire("RLC", "Global_MAC_Lock")
  /\ Goto("RLC", IF pc["RLC"] = "lock" THEN "relock" ELSE "receive")
  /\ UNCHANGED <<table, poll, waiting, request, loop, admitted, crashed>>

(* Mutant: a recursive mutex. *)
RLCLockRecursive ==
  /\ pc["RLC"] \in {"lock", "relock"}
  /\ owner["mutex"] \in {Nobody, "RLC"}
  /\ owner' = [owner EXCEPT !["mutex"] = "RLC"]
  /\ Goto("RLC", IF pc["RLC"] = "lock" THEN "relock" ELSE "receive")
  /\ UNCHANGED <<table, poll, waiting, request, loop, admitted, crashed>>

(* RecvPackage_from_Sat_RLC locks, tests its argument, and locks again before
   its receive loop, which PackageReceive has. *)
RLCLock ==
  /\ pc["RLC"] \in {"lock", "relock"}
  /\ Acquire("RLC", "mutex")
  /\ Goto("RLC", IF pc["RLC"] = "lock" THEN "relock" ELSE "receive")
  /\ UNCHANGED <<table, poll, waiting, request, loop, admitted, crashed>>

-----------------------------------------------------------------------------
(* Requests *)

(* Mutant: the pop removes, and its result is the length asked for. *)
PopRemoves == [result |-> QUEUE_OK, left |-> 0]

(* App_queue_pop with mask 0x01 on a queue with one record: it copies, leaves
   the record, and returns its length. *)
Pop == [result |-> RecordLen, left |-> waiting]

(* One turn of Thread_RACH_Process: a request is served if the pop returned
   QUEUE_OK. *)
RACHLook ==
  /\ pc["RACH"] = "look"
  /\ waiting > 0
  /\ waiting' = Pop.left
  /\ Goto("RACH", IF Pop.result = QUEUE_OK THEN "lock" ELSE "look")
  /\ UNCHANGED <<owner, table, poll, request, loop, admitted, crashed>>

(* The RRC thread receives a RAMSG: TYPE_RAMSG_Handle calls RAMSG_process.
   One that the idle lists refuse changes nothing here; a wave that is full
   may be asked at any time. *)
ReceiveRAMSG(u, w) ==
  /\ pc["RRC"] = "idle"
  /\ admitted[u, w] < MaxRequests \/ \A i \in Slot : table[w][i].State = 1
  /\ request' = [request EXCEPT !["RRC"] = [ue |-> u, wave |-> w]]
  /\ loop' = [loop EXCEPT !["RRC"] = Idle]
  /\ Goto("RRC", "find")
  /\ UNCHANGED <<owner, table, poll, waiting, admitted, crashed>>

-----------------------------------------------------------------------------
(* RAMSG_process *)

(* What follows the sorts: the RACH thread unlocks, the RRC thread receives. *)
Done(t) == CASE t = "main" -> "serve" [] t = "RACH" -> "unlock" [] t = "RRC" -> "idle"

(* One look of the search for a row with State 0; without one the wave is
   sorted by level and the collision is counted. *)
Find(t) ==
  /\ pc[t] = "find"
  /\ IF Rows(t)[At(t)].State = 0
     THEN Goto(t, "claim") /\ UNCHANGED loop
     ELSE IF At(t) < PER_WAVE_MAX_NUM
     THEN loop' = [loop EXCEPT ![t].row = @ + 1] /\ UNCHANGED pc
     ELSE loop' = [loop EXCEPT ![t] = [Idle EXCEPT !.sort = "level"]]
            /\ Goto(t, "compare")
  /\ UNCHANGED <<Shared, crashed>>

(* CCH_resource_allocation, and State is set first. *)
Claim(t) ==
  /\ pc[t] = "claim"
  /\ SetRow(t, At(t), [Rows(t)[At(t)] EXCEPT !.State = 1])
  /\ Goto(t, "name")
  /\ UNCHANGED <<owner, poll, waiting, request, loop, admitted, crashed>>

(* U_RNTI, and the fields between it and the queue pointer. *)
Name(t) ==
  /\ pc[t] = "name"
  /\ SetRow(t, At(t), [Rows(t)[At(t)] EXCEPT !.U_RNTI = request[t].ue])
  /\ Goto(t, "queue")
  /\ UNCHANGED <<owner, poll, waiting, request, loop, admitted, crashed>>

(* Mutant: the queue pointer is left as the row has it. *)
QueueLeft(t) ==
  /\ pc[t] = "queue"
  /\ admitted' = [admitted EXCEPT ![<<request[t].ue, WaveOf(t)>>] = @ + 1]
  /\ loop' = [loop EXCEPT ![t] = Idle]
  /\ Goto(t, "rank")
  /\ UNCHANGED <<owner, table, poll, waiting, request, crashed>>

(* The queue pointer comes last, then per_wave_usernum, and the two
   sorts. *)
Queue(t) ==
  /\ pc[t] = "queue"
  /\ SetRow(t, At(t), [Rows(t)[At(t)] EXCEPT !.User_DataQueue_ptr = request[t].ue])
  /\ admitted' = [admitted EXCEPT ![<<request[t].ue, WaveOf(t)>>] = @ + 1]
  /\ loop' = [loop EXCEPT ![t] = Idle]
  /\ Goto(t, "rank")
  /\ UNCHANGED <<owner, poll, waiting, request, crashed>>

-----------------------------------------------------------------------------
(* sortLevel_MLRA and sortLevel, compare and swap by compare and swap. *)

(* calculate_user_priority of one row follows the row's queue pointer. *)
Rank(t) ==
  /\ pc[t] = "rank"
  /\ LET row == Rows(t)[At(t)]
     IN  crashed' = (row.State = 1 /\ row.User_DataQueue_ptr = NoUE)
  /\ IF At(t) < PER_WAVE_MAX_NUM
     THEN loop' = [loop EXCEPT ![t].row = @ + 1] /\ UNCHANGED pc
     ELSE loop' = [loop EXCEPT ![t].row = 1] /\ Goto(t, "compare")
  /\ UNCHANGED Shared

(* After a comparison: the next one of this pass, the next pass, the sort
   by level, or the end.  cut: the pass is left early. *)
Advance(t, cut) ==
  IF At(t) < PER_WAVE_MAX_NUM - loop[t].pass /\ ~cut
  THEN loop' = [loop EXCEPT ![t].row = @ + 1] /\ Goto(t, "compare")
  ELSE IF loop[t].pass < PER_WAVE_MAX_NUM - 1
  THEN /\ loop' = [loop EXCEPT ![t].row = 1, ![t].pass = @ + 1]
       /\ Goto(t, "compare")
  ELSE IF loop[t].sort = "priority" /\ t # "main"
  THEN /\ loop' = [loop EXCEPT ![t] = [Idle EXCEPT !.sort = "level"]]
       /\ Goto(t, "compare")
  ELSE loop' = [loop EXCEPT ![t] = Idle] /\ Goto(t, Done(t))

(* The lower row goes in front of the free ones; rows in use change places by
   priorities or levels, any of which the two rows may have.  sortLevel leaves
   a pass at the first row with State 0. *)
Compare(t) ==
  /\ pc[t] = "compare"
  /\ LET upper == Rows(t)[At(t)]
         lower == Rows(t)[At(t) + 1]
     IN  \/ /\ lower.State = 1
            /\ Goto(t, "save") /\ UNCHANGED loop
         \/ /\ lower.State = 1 => (upper.State = 1 \/ loop[t].sort = "level")
            /\ Advance(t, lower.State = 0 /\ loop[t].sort = "level")
  /\ UNCHANGED <<Shared, crashed>>

(* What a swap moves: the whole row, or in sortLevel the fields of the user,
   with State left in its place. *)
Moved(t, from, to) ==
  IF loop[t].sort = "priority" THEN from ELSE [from EXCEPT !.State = to.State]

Save(t) ==
  /\ pc[t] = "save"
  /\ loop' = [loop EXCEPT ![t].temp = Rows(t)[At(t)]]
  /\ Goto(t, "move")
  /\ UNCHANGED <<Shared, crashed>>

Move(t) ==
  /\ pc[t] = "move"
  /\ SetRow(t, At(t), Moved(t, Rows(t)[At(t) + 1], Rows(t)[At(t)]))
  /\ Goto(t, "restore")
  /\ UNCHANGED <<owner, poll, waiting, request, loop, admitted, crashed>>

(* Mutant: the swap puts the row back where it was. *)
RestoreNothing(t) ==
  /\ pc[t] = "restore"
  /\ Advance(t, FALSE)
  /\ UNCHANGED <<Shared, crashed>>

Restore(t) ==
  /\ pc[t] = "restore"
  /\ SetRow(t, At(t) + 1, Moved(t, loop[t].temp, Rows(t)[At(t) + 1]))
  /\ Advance(t, FALSE)
  /\ UNCHANGED <<owner, poll, waiting, request, admitted, crashed>>

-----------------------------------------------------------------------------
(* An access works on the rows of the wave that a subframe works on. *)
Serving == {"rank", "compare", "save", "move", "restore", "serve", "data"}
Accessing == {"find", "claim", "name", "queue"} \cup Sorting

Met(w) == /\ pc["main"] \in Serving /\ poll = w
          /\ \E t \in Access : pc[t] \in Accessing /\ request[t].wave = w

SortStep(t) == Rank(t) \/ Compare(t) \/ Save(t) \/ Move(t) \/ Restore(t)

Next ==
  /\ ~crashed
  /\ \/ CreateThreads \/ Topology \/ Inject
     \/ Poll \/ ServeRow \/ LookForData
     \/ \E t \in {"main", "RACH"} : Lock(t) \/ Unlock(t)
     \/ RACHLook
     \/ RLCLock
     \/ \E u \in UE, w \in Wave : ReceiveRAMSG(u, w)
     \/ \E t \in Access : Find(t) \/ Claim(t) \/ Name(t) \/ Queue(t)
     \/ \E t \in Access \cup {"main"} : SortStep(t)
  /\ raced' = raced \cup {w \in Wave : Met(w)'}

(* The kernel runs the main thread whenever it can run.  Which of two threads
   gets a mutex is not promised, and requests need not come. *)
MainStep ==
  /\ ~crashed
  /\ \/ CreateThreads \/ Topology \/ Inject \/ Lock("main") \/ Poll
     \/ SortStep("main") \/ ServeRow \/ LookForData \/ Unlock("main")
  /\ raced' = raced \cup {w \in Wave : Met(w)'}

Spec == Init /\ [][Next]_vars /\ WF_vars(MainStep)

-----------------------------------------------------------------------------
(* Nobody is in the middle of the rows of wave w. *)
Quiet(w) ==
  /\ \A t \in Access : pc[t] \in Accessing => request[t].wave # w
  /\ pc["main"] \in Sorting => poll # w

RowsOf(u, w) == {i \in Slot : table[w][i].State = 1 /\ table[w][i].U_RNTI = u}

(* Rows in use stand in front, have the queue of their own user, and a user
   has as many as it got. *)
Coherent(w) ==
  /\ \A i, j \in Slot : (i < j /\ table[w][j].State = 1) => table[w][i].State = 1
  /\ \A i \in Slot : table[w][i].State = 1 =>
       table[w][i].User_DataQueue_ptr = table[w][i].U_RNTI
  /\ \A u \in UE : Cardinality(RowsOf(u, w)) = admitted[u, w]

(***************************************************************************)
(* The swap and fill steps of one thread after the other keep the table:   *)
(* a wave whose rows no access and no subframe had at the same time has    *)
(* lost, doubled and mixed up no user.                                     *)
(***************************************************************************)
CoherentUnlessRaced == \A w \in Wave \ raced : Quiet(w) => Coherent(w)

(***************************************************************************)
(* calculate_user_priority and the serve loop follow the queue pointer of  *)
(* every row in use without a look at it.  Only an access in the middle of *)
(* a subframe, or the damage of an earlier one, makes that pointer NULL.   *)
(***************************************************************************)
CrashNeedsRace == crashed => raced # {}

(* The RACH thread compares a length with QUEUE_OK: the request that
   Inject_Users_Into_MAC has queued is never served. *)
RACHNeverServes == pc["RACH"] \in {"none", "look"}

(* The RLC thread waits for the mutex that it holds: no packet arrives. *)
RLCNeverReceives == pc["RLC"] # "receive"

(***************************************************************************)
(* Every wave is served again and again: the spinning RACH thread, the RLC *)
(* thread that waits for ever and the accesses without the lock hold up no *)
(* subframe.  A crash ends it.                                             *)
(***************************************************************************)
SubframesGoOn ==
  \A w \in Wave : []<>(pc["main"] = "unlock" /\ poll = w) \/ <>crashed

(* "MAC layer global mutex, protects wave_ueser_mapPtrArray and other shared
   resources": the table is whole whenever nobody is in the middle of it. *)
LockProtectsTable == \A w \in Wave : Quiet(w) => Coherent(w)
=============================================================================
