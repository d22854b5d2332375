------------------------------ MODULE AppQueue ------------------------------
(***************************************************************************)
(* The byte ring of App_queue.c, as operators on a ring value.  A ring is  *)
(* its array and its two pointers, kept as offsets from arr.  The writer   *)
(* moves head and the reader moves tail, while the size formulas of the    *)
(* code take head for the reading side.  The operators below keep those    *)
(* formulas, so a caller sees what the C caller sees: a size that is too   *)
(* large, a push that is refused, or a memcpy with a negative length       *)
(* (PushFaults, PopFaults), after which the program is undefined.          *)
(***************************************************************************)
EXTENDS Integers, Sequences

CONSTANTS QUEMAXSIZE,  (* sizeof arr, 2000 in App_queue.h *)
          Cell         (* what one place of arr can hold *)

ASSUME QueueAssumption == QUEMAXSIZE \in Nat \ {0}

Ring == [arr : [0 .. QUEMAXSIZE - 1 -> Cell],
         head : 0 .. QUEMAXSIZE,
         tail : 0 .. QUEMAXSIZE]

(* Mutant: App_queue_init forgets tail. *)
ResetHeadOnly(q) == [q EXCEPT !.head = 0]

(* App_queue_init: the content of arr is left as it was. *)
Reset(q) == [arr |-> q.arr, head |-> 0, tail |-> 0]

Forward(q) == q.head <= q.tail

Size(q) == IF Forward(q) THEN q.tail - q.head
                         ELSE QUEMAXSIZE + (q.tail - q.head)

Remain(q) == QUEMAXSIZE - Size(q)

IsEmpty(q) == q.head = q.tail

-----------------------------------------------------------------------------
(* App_queue_push of n bytes: refused, faulting, or written. *)

(* Mutant: a message that fills what remains is taken. *)
AcceptsLastByte(q, n) == n <= Remain(q)

Accepts(q, n) == n < Remain(q)

(* remain_head_size *)
PushRoom(q) == (IF Forward(q) THEN QUEMAXSIZE ELSE q.tail) - q.head

PushFaults(q, n) == /\ Accepts(q, n)
                    /\ PushRoom(q) < 0

HeadAfter(q, n) == IF PushRoom(q) > n THEN q.head + n ELSE n - PushRoom(q)

(* The place of arr that lies k bytes after offset p. *)
At(p, k) == IF p + k < QUEMAXSIZE THEN p + k ELSE p + k - QUEMAXSIZE

(* How far place p of arr lies after offset from. *)
Past(from, p) == IF p >= from THEN p - from ELSE p - from + QUEMAXSIZE

Pushed(q, data) ==
  [arr  |-> [p \in 0 .. QUEMAXSIZE - 1 |->
               IF Past(q.head, p) < Len(data)
                 THEN data[Past(q.head, p) + 1]
                 ELSE q.arr[p]],
   head |-> HeadAfter(q, Len(data)),
   tail |-> q.tail]

-----------------------------------------------------------------------------
(* App_queue_pop of at most max bytes: mask 0x01 copies, 0x02 removes. *)

PopLen(q, max) == IF max < Size(q) THEN max ELSE Size(q)

(* head_size *)
PopRun(q) == (IF Forward(q) THEN q.head ELSE QUEMAXSIZE) - q.tail

PopFaults(q, max) == PopRun(q) < PopLen(q, max) /\ PopRun(q) < 0

Copied(q, max) ==
  [k \in 1 .. PopLen(q, max) |-> q.arr[At(q.tail, k - 1)]]

TailAfter(q, max) == IF PopRun(q) >= PopLen(q, max)
                       THEN q.tail + PopLen(q, max)
                       ELSE PopLen(q, max) - PopRun(q)

Removed(q, max) == [q EXCEPT !.tail = TailAfter(q, max)]
=============================================================================
