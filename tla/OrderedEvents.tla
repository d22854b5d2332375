--------------------------- MODULE OrderedEvents ---------------------------
(***************************************************************************)
(* What a timer queue promises: events wait in the order of their out      *)
(* times, those with equal times in the order they were put, and leave     *)
(* from the front, never before their time.  A periodic event that leaves  *)
(* is put again one delay later.  Capacity events fit; others are refused. *)
(***************************************************************************)
EXTENDS Integers, Sequences, SequencesExt

CONSTANTS Event,     (* records with name, periodic, delay and out *)
          Name,
          Capacity,
          Clock      (* the times there are *)

VARIABLES now, events

(* Behind every event that is not later. *)
Place(s, e) == Cardinality({i \in DOMAIN s : s[i].out <= e.out}) + 1

Put(s, e) == IF Len(s) < Capacity THEN InsertAt(s, Place(s, e), e) ELSE s

Later(e) == [e EXCEPT !.out = e.out + e.delay]

Init == now = 0 /\ events = <<>>

Add == \E e \in Event : /\ e.out - e.delay <= now
                        /\ events' = Put(events, e)
                        /\ UNCHANGED now

(* A full queue has no room for the second copy of a periodic event. *)
Fire == /\ events # <<>>
        /\ Head(events).out <= now
        /\ events' = IF Head(events).periodic /\ Len(events) < Capacity
                       THEN Put(Tail(events), Later(Head(events)))
                       ELSE Tail(events)
        /\ UNCHANGED now

Drop == \E n \in Name :
          /\ \E i \in DOMAIN events : events[i].name = n
          /\ events' = RemoveFirstMatch(events, LAMBDA e : e.name = n)
          /\ UNCHANGED now

Tick == /\ now' \in {t \in Clock : t > now}
        /\ UNCHANGED events

Next == Add \/ Fire \/ Drop \/ Tick

Spec == Init /\ [][Next]_<<now, events>>
=============================================================================
