----------------------------- MODULE TimerQueue -----------------------------
(***************************************************************************)
(* timer_queue.c: one queue of events over one interval timer.  Threads    *)
(* call add, add_us and remove; the timer's signal runs stimer_queue_check *)
(* on top of whichever thread the kernel picks, also on one that holds the *)
(* queue's lock.  A step is what happens between two points where another  *)
(* thread, the signal or the clock can come in.  Callbacks are left out:   *)
(* those the program registers do not use the timer queue.                 *)
(***************************************************************************)
EXTENDS Cvector, SequencesExt

CONSTANTS Thread,
          Name,       (* names of events *)
          Kind,       (* name, periodic and delay of what threads add *)
          MaxDelay,   (* bound on delays, in ticks of the clock *)
          MaxTime,    (* bound on the clock *)
          MaxCalls,   (* bound on the calls of add, add_us and remove *)
          Unlocked,   (* the lock is free *)
          None,       (* no argument *)
          Off,        (* no timer, or it has expired *)
          Zeroed      (* disarmed by setitimer with it_value zero *)

ASSUME TimerAssumption == /\ MaxDelay \in Nat \ {0}
                          /\ MaxTime \in Nat
                          /\ \A k \in Kind :
                               /\ k.name \in Name /\ k.periodic \in BOOLEAN
                               /\ k.delay \in 0 .. MaxDelay
                          /\ MaxCalls \in Nat
                          /\ Off \notin Nat
                          /\ Zeroed \notin Nat
                          /\ Off # Zeroed
                          /\ Unlocked \notin Thread \X {"call", "alarm"}

VARIABLES now,             (* gettimeofday *)
          queue,           (* the events *)
          start_flag,
          next_outtime,    (* what the timer was last set for *)
          queue_checking,
          lock,            (* Unlocked or <<thread, "call" or "alarm">> *)
          armed,           (* when the timer expires *)
          pending,         (* SIGALRM waits for delivery *)
          pc,              (* where a thread's call is *)
          arg,             (* the event it adds or the name it removes *)
          alarm,           (* where the handler on top of a thread is *)
          calls            (* calls so far *)

queueVars == <<queue, start_flag, next_outtime, queue_checking, armed>>
vars == <<now, queueVars, lock, pending, pc, arg, alarm, calls>>

Clock == 0 .. MaxTime

EventOf(k, out) == [name |-> k.name, periodic |-> k.periodic,
                    delay |-> k.delay, out |-> out]

Event == {EventOf(k, out) : k \in Kind, out \in 0 .. MaxTime + MaxDelay}

Holding  == {"insert", "erase", "start", "unlock"}
Adding   == {"checking", "lockToAdd", "insert"}
Handling == {"loop", "arm", "release"}

TypeOK ==
  /\ now \in Clock
  /\ queue.size \in 0 .. Cells
  /\ \A i \in 1 .. queue.size : Data(queue)[i] \in Event
  /\ start_flag \in {0, 1}
  /\ next_outtime \in Nat
  /\ queue_checking \in {0, 1}
  /\ lock \in {Unlocked} \cup (Thread \X {"call", "alarm"})
  /\ armed \in Nat \cup {Off, Zeroed}
  /\ pending \in BOOLEAN
  /\ pc \in [Thread -> Holding \cup
              {"idle", "checking", "lockToAdd", "lockToRemove"}]
  /\ arg \in [Thread -> Event \cup Name \cup {None}]
  /\ alarm \in [Thread -> Handling \cup {"none", "lock"}]
  /\ calls \in 0 .. MaxCalls

(* stimer_queue_init; the memory of next_outtime is zero. *)
Init == /\ now = 0
        /\ queue = NewVector
        /\ start_flag = 0
        /\ next_outtime = 0
        /\ queue_checking = 0
        /\ lock = Unlocked
        /\ armed = Off
        /\ pending = FALSE
        /\ pc = [t \in Thread |-> "idle"]
        /\ arg = [t \in Thread |-> None]
        /\ alarm = [t \in Thread |-> "none"]
        /\ calls = 0

-----------------------------------------------------------------------------
(* The queue in order. *)

(* Mutant: the new event goes in front of those of the same time. *)
PlaceInFront(v, e) ==
  Cardinality({i \in 1 .. v.size : Data(v)[i].out < e.out})

(* The index of the first event that is later than e, or the size. *)
Place(v, e) ==
  LET Later == {i \in 0 .. v.size - 1 : e.out < Data(v)[i + 1].out}
  IN  IF Later = {} THEN v.size
                    ELSE CHOOSE i \in Later : \A j \in Later : i <= j

OrderInsert(v, e) == Insert(v, Place(v, e), e)

HeadEvent(v) == v.cell[v.head].data

Again(e) == [e EXCEPT !.out = e.out + e.delay]

MovedOn(v) == [v EXCEPT !.cell[v.head].data = Again(HeadEvent(v))]

Matching(v, n) == {i \in 0 .. v.size - 1 : Data(v)[i + 1].name = n}

Removed(v, n) ==
  IF Matching(v, n) = {} THEN v
  ELSE Erase(v, CHOOSE i \in Matching(v, n) :
                  \A j \in Matching(v, n) : i <= j)

-----------------------------------------------------------------------------
(* stimer_queue_start.  it_value is one microsecond for an event that is
   overdue, which is less than a tick, and zero, which disarms, for one that
   is due now. *)
TimerFor(out) == CASE out < now -> now
                   [] out = now -> Zeroed
                   [] OTHER     -> out

(* Mutant: next_outtime is not brought up to date. *)
StartForgets ==
  /\ IF queue.size = 0
       THEN start_flag' = 0 /\ UNCHANGED armed
       ELSE armed' = TimerFor(HeadEvent(queue).out) /\ UNCHANGED start_flag
  /\ UNCHANGED next_outtime

StartTimer ==
  IF queue.size = 0
    THEN start_flag' = 0 /\ UNCHANGED <<armed, next_outtime>>
    ELSE /\ armed' = TimerFor(HeadEvent(queue).out)
         /\ next_outtime' = HeadEvent(queue).out
         /\ UNCHANGED start_flag

-----------------------------------------------------------------------------
(* The calls.  A thread under the handler does not go on with its call. *)

Goto(t, label) == pc' = [pc EXCEPT ![t] = label]

At(t, label) == pc[t] = label /\ alarm[t] = "none"

(* stimer_queue_add_us and stimer_queue_add read the clock first; only the
   former waits for queue_checking. *)
BeginAdd(t) ==
  /\ At(t, "idle")
  /\ calls < MaxCalls
  /\ calls' = calls + 1
  /\ \E k \in Kind : arg' = [arg EXCEPT ![t] = EventOf(k, now + k.delay)]
  /\ \E label \in {"checking", "lockToAdd"} : Goto(t, label)
  /\ UNCHANGED <<now, queueVars, lock, pending, alarm>>

BeginRemove(t) ==
  /\ At(t, "idle")
  /\ calls < MaxCalls
  /\ calls' = calls + 1
  /\ \E n \in Name : arg' = [arg EXCEPT ![t] = n]
  /\ Goto(t, "lockToRemove")
  /\ UNCHANGED <<now, queueVars, lock, pending, alarm>>

SeeNotChecking(t) ==
  /\ At(t, "checking")
  /\ queue_checking = 0
  /\ Goto(t, "lockToAdd")
  /\ UNCHANGED <<now, queueVars, lock, pending, arg, alarm, calls>>

Acquire(t) ==
  /\ \/ At(t, "lockToAdd") /\ Goto(t, "insert")
     \/ At(t, "lockToRemove") /\ Goto(t, "erase")
  /\ lock = Unlocked
  /\ lock' = <<t, "call">>
  /\ UNCHANGED <<now, queueVars, pending, arg, alarm, calls>>

(* Mutant: an event of the same time cuts in as well. *)
CutsInWhenEqual(e) == e.out <= next_outtime

CutsIn(e) == e.out < next_outtime

InsertEvent(t) ==
  /\ At(t, "insert")
  /\ queue' = OrderInsert(queue, arg[t])
  /\ start_flag' = 1
  /\ Goto(t, IF start_flag = 0 \/ CutsIn(arg[t]) THEN "start" ELSE "unlock")
  /\ UNCHANGED <<now, next_outtime, queue_checking, armed,
                 lock, pending, arg, alarm, calls>>

StartFromCall(t) ==
  /\ At(t, "start")
  /\ StartTimer
  /\ Goto(t, "unlock")
  /\ UNCHANGED <<now, queue, queue_checking, lock, pending, arg, alarm, calls>>


EraseEvent(t) ==
  /\ At(t, "erase")
  /\ queue' = Removed(queue, arg[t])
  /\ Goto(t, "unlock")
  /\ UNCHANGED <<now, start_flag, next_outtime, queue_checking, armed,
                 lock, pending, arg, alarm, calls>>

ReleaseCall(t) ==
  /\ At(t, "unlock")
  /\ lock' = Unlocked
  /\ arg' = [arg EXCEPT ![t] = None]
  /\ Goto(t, "idle")
  /\ UNCHANGED <<now, queueVars, pending, alarm, calls>>

CallStep(t) == \/ SeeNotChecking(t) \/ Acquire(t) \/ InsertEvent(t)
               \/ StartFromCall(t) \/ EraseEvent(t) \/ ReleaseCall(t)

-----------------------------------------------------------------------------
(* The clock, the timer, and stimer_queue_check on top of a thread. *)

Tick == /\ now < MaxTime
        /\ now' = now + 1
        /\ UNCHANGED <<queueVars, lock, pending, pc, arg, alarm, calls>>

Expire == /\ armed \in Nat
          /\ armed <= now
          /\ armed' = Off
          /\ pending' = TRUE
          /\ UNCHANGED <<now, queue, start_flag, next_outtime,
                         queue_checking, lock, pc, arg, alarm, calls>>

AlarmTo(t, from, to) == /\ alarm[t] = from
                        /\ alarm' = [alarm EXCEPT ![t] = to]
                        /\ UNCHANGED <<now, pc, arg, calls>>

(* The signal is blocked in a thread whose handler runs. *)
Deliver(t) == /\ AlarmTo(t, "none", "lock")
              /\ pending
              /\ pending' = FALSE
              /\ UNCHANGED <<queueVars, lock>>

AlarmLock(t) == /\ AlarmTo(t, "lock", "loop")
                /\ lock = Unlocked
                /\ lock' = <<t, "alarm">>
                /\ queue_checking' = 1
                /\ UNCHANGED <<queue, start_flag, next_outtime, armed, pending>>

HeadDue == queue.size > 0 /\ HeadEvent(queue).out <= now

(* One round of the loop: a periodic event is moved on in place at the head,
   compared with itself as well, and popped there after the insertion. *)
AlarmFire(t) == /\ AlarmTo(t, "loop", "loop")
                /\ HeadDue
                /\ \/ /\ HeadEvent(queue).periodic
                      /\ \E v \in {MovedOn(queue)} :
                         \E w \in {OrderInsert(v, Again(HeadEvent(queue)))} :
                           queue' = Pophead(w)
                   \/ /\ ~HeadEvent(queue).periodic
                      /\ queue' = Pophead(queue)
                /\ UNCHANGED <<start_flag, next_outtime, queue_checking,
                               armed, lock, pending>>

AlarmLeaveLoop(t) == /\ AlarmTo(t, "loop", "arm")
                     /\ ~ HeadDue
                     /\ queue_checking' = 0
                     /\ UNCHANGED <<queue, start_flag, next_outtime, armed,
                                    lock, pending>>

(* Mutant: the handler does not set the timer for the next event. *)
AlarmDoesNotArm(t) == /\ AlarmTo(t, "arm", "release")
                      /\ UNCHANGED <<queueVars, lock, pending>>

AlarmArm(t) == /\ AlarmTo(t, "arm", "release")
               /\ StartTimer
               /\ UNCHANGED <<queue, queue_checking, lock, pending>>

AlarmRelease(t) == /\ AlarmTo(t, "release", "none")
                   /\ lock' = Unlocked
                   /\ UNCHANGED <<queueVars, pending>>

AlarmStep(t) == \/ AlarmLock(t) \/ AlarmFire(t) \/ AlarmLeaveLoop(t)
                \/ AlarmArm(t) \/ AlarmRelease(t)

Next == \/ \E t \in Thread : \/ BeginAdd(t) \/ BeginRemove(t)
                             \/ CallStep(t)
                             \/ Deliver(t) \/ AlarmStep(t)
        \/ Tick
        \/ Expire

(* Threads that can go on do, time passes, and the kernel delivers. *)
Fairness == /\ \A t \in Thread : WF_vars(CallStep(t)) /\ WF_vars(AlarmStep(t))
            /\ WF_vars(\E t \in Thread : Deliver(t))
            /\ WF_vars(Tick)
            /\ WF_vars(Expire)

Spec == Init /\ [][Next]_vars /\ Fairness

-----------------------------------------------------------------------------
(* The vector is a sequence: after any mix of insertions at any place,
   removals by name and pops, its size, ends, links and heap agree, and a
   further insertion or removal anywhere does to its data what it would do to
   a sequence, or nothing when the heap is exhausted (cvector.c). *)
VectorIsSequence ==
  /\ WellLinked(queue)
  /\ \A i \in 0 .. queue.size :
       /\ WellLinked(Erase(queue, i))
       /\ i < queue.size =>
            Data(Erase(queue, i)) = RemoveAt(Data(queue), i + 1)
       /\ \A e \in {EventOf(k, now) : k \in Kind} :
            /\ WellLinked(Insert(queue, i, e))
            /\ Data(Insert(queue, i, e)) =
                 IF Exhausted(queue) THEN Data(queue)
                                     ELSE InsertAt(Data(queue), i + 1, e)

(* Seen from outside the queue is OrderedEvents: adds in any order of their
   clock readings, removals and the handler's pop after reinsertion keep the
   order, and nothing fires early or is lost. *)
Ordered == INSTANCE OrderedEvents
             WITH events <- Data(queue), Capacity <- Cells

EventsInOrder == Ordered!Spec

HandlerUnderWay == pending \/ \E t \in Thread : alarm[t] # "none"

Later(x, y) == IF x > y THEN x ELSE y

(* Whenever the lock is free and events wait, the timer is set, no later than
   the first of them or at once, or the handler is coming, or the timer was
   disarmed with zero (stimer_queue_start, and the test on next_outtime). *)
TimerCoversHead ==
  lock = Unlocked /\ queue.size > 0 =>
    /\ start_flag = 1 /\ next_outtime <= HeadEvent(queue).out
    /\ \/ HandlerUnderWay
       \/ armed = Zeroed
       \/ armed \in Nat /\ armed <= Later(HeadEvent(queue).out, now)

(* The timer was disarmed with zero, and nobody who could set it is left. *)
Stopped == /\ armed = Zeroed
           /\ ~ HandlerUnderWay
           /\ start_flag = 1
           /\ next_outtime \in 0 .. now
           /\ \A t \in Thread :
                /\ pc[t] # "start"
                /\ pc[t] \in Adding =>
                     arg[t].out >= next_outtime

(* The handler on top of a call that holds the lock waits for it for ever. *)
SelfLocked(t) == lock = <<t, "call">> /\ alarm[t] = "lock"

(* The handler finds an event due again after it has put it back, with room
   to put it: main.c:84 may pass a period of zero. *)
AlwaysDue(e) == e.periodic /\ e.delay = 0 /\ e.out <= now

Endless(t) == /\ alarm[t] = "loop"
              /\ ~ Exhausted(queue)
              /\ \E i \in 1 .. queue.size : AlwaysDue(Data(queue)[i])

(* Nothing in the code brings the queue back from any of the three.  A stopped
   timer is not set by any later add or remove, since start_flag says that it
   runs and no new event is before next_outtime; nobody else releases a lock
   whose holder lies under the waiting handler; and a handler with an event
   that is always due goes round for ever, through whatever fires beside it. *)
NoRecovery == [][/\ Stopped => Stopped'
                 /\ \A t \in Thread : /\ SelfLocked(t) => SelfLocked(t)'
                                      /\ Endless(t) => Endless(t)']_vars

LockedOut == \E t \in Thread : SelfLocked(t) \/ Endless(t)


Waits == queue.size > 0 /\ HeadEvent(queue).out <= MaxTime

(* The only ways an event is not fired or removed in the end: the timer was
   disarmed with zero, the handler is locked out, or it fires an event of
   period zero again and again. *)
EventsFire == Waits ~> ~ Waits \/ armed = Zeroed \/ LockedOut
=============================================================================
