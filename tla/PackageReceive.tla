--------------------------- MODULE PackageReceive ---------------------------
(***************************************************************************)
(* recvPackageHandle of package.c on one App_queue: the way every datagram *)
(* of the RRC and the RLC socket enters MAC-U.  A datagram is pushed, the  *)
(* queue is copied out, frames are searched in the copy and handled, and   *)
(* what was consumed is removed.  A byte of the model is a frame's head, a *)
(* payload byte or a frame's tail: <<m, 1>> stands for msg_head of message *)
(* m and <<m, FrameLen[m]>> for its msg_tail.  FRAME_HEAD and FRAME_TAIL   *)
(* are the ordinary byte values 0 and 1; streams in which a payload or     *)
(* unwritten memory happens to read as another frame are left out.         *)
(***************************************************************************)
EXTENDS AppQueue

CONSTANTS Message,       (* the messages the peers send *)
          FrameLen,      (* FrameLen[m]: bytes of m's frame *)
          Zero,          (* a byte nobody has written *)
          Garbled,       (* a frame put together from different messages *)
          MaxDatagrams   (* bound on the datagrams received *)

FrameCell == UNION {{m} \X (1 .. FrameLen[m]) : m \in Message}

(* A datagram has at most the 512 bytes of the receive buffer, so at least two
   fit in arr. *)
ASSUME ReceiveAssumption ==
  /\ \A m \in Message : FrameLen[m] \in Nat /\ 3 <= FrameLen[m]
                                           /\ 2 * FrameLen[m] <= QUEMAXSIZE
  /\ Cell = FrameCell \cup {Zero}
  /\ Zero \notin FrameCell
  /\ Garbled \notin Message
  /\ MaxDatagrams \in Nat

VARIABLES q,         (* Client_Queue *)
          crashed,   (* a memcpy was given a negative length *)
          handled,   (* the frames given to RecvHandle, in order *)
          received,  (* ghost: the messages that arrived whole, in order *)
          cut        (* ghost: how many datagrams arrived cut short *)

vars == <<q, crashed, handled, received, cut>>

(* sizeof(msg_head) + sizeof(msg_tail) *)
Overhead == 2

Bytes(m, n) == [k \in 1 .. n |-> <<m, k>>]

TailBytes == {<<m, FrameLen[m]>> : m \in Message}

TypeOK == /\ q \in Ring
          /\ crashed \in BOOLEAN
          /\ handled \in Seq(Message \cup {Garbled})
          /\ received \in Seq(Message)
          /\ cut \in 0 .. MaxDatagrams

Init == /\ q = [arr |-> [p \in 0 .. QUEMAXSIZE - 1 |-> Zero],
                head |-> 0, tail |-> 0]
        /\ crashed = FALSE
        /\ handled = <<>>
        /\ received = <<>>
        /\ cut = 0

-----------------------------------------------------------------------------
(* The scan of the copied bytes. *)

(* buffer is zeroed, so behind the copy there is nothing to recognise. *)
ByteAt(buf, i) == IF i < Len(buf) THEN buf[i + 1] ELSE Zero

(* Mutant: msg_tail is looked for one byte early. *)
FramesEarly(buf, i, rest) ==
  {m \in Message : /\ ByteAt(buf, i) = <<m, 1>>
                   /\ FrameLen[m] <= rest
                   /\ ByteAt(buf, i + FrameLen[m] - 2) \in TailBytes}

(* The message whose head and length stand at i, with some frame's tail where
   that length says, and the frame no longer than what is left. *)
FramesAt(buf, i, rest) ==
  {m \in Message : /\ ByteAt(buf, i) = <<m, 1>>
                   /\ FrameLen[m] <= rest
                   /\ ByteAt(buf, i + FrameLen[m] - 1) \in TailBytes}

FrameRead(buf, i, m) ==
  IF \A k \in 1 .. FrameLen[m] : ByteAt(buf, i + k - 1) = <<m, k>>
    THEN m ELSE Garbled

(* Mutant: j is set by the first frame only. *)
FoundFirst(buf, s, i, m) ==
  [frames |-> Append(s.frames, FrameRead(buf, i, m)),
   next   |-> i + FrameLen[m],
   rest   |-> s.rest - FrameLen[m],
   last   |-> IF s.last = 0 THEN i + FrameLen[m] ELSE s.last]

(* A frame of m found at i: it is handled, and i moves on behind it. *)
Found(buf, s, i, m) ==
  [frames |-> Append(s.frames, FrameRead(buf, i, m)),
   next   |-> i + FrameLen[m],
   rest   |-> s.rest - FrameLen[m],
   last   |-> i + FrameLen[m]]

(***************************************************************************)
(* The loop over i: the frames so far, where the next one can begin,       *)
(* remainQueueSize (rest), which a skipped byte leaves alone, and j, the   *)
(* end of the last frame.  The break is a place from which no turn does    *)
(* anything.                                                               *)
(***************************************************************************)
Start(n) == [frames |-> <<>>, next |-> 0, rest |-> n, last |-> 0]

Look(buf, s, i) ==
  IF i < s.next \/ Overhead >= s.rest \/ FramesAt(buf, i, s.rest) = {}
    THEN s
    ELSE Found(buf, s, i, CHOOSE m \in FramesAt(buf, i, s.rest) : TRUE)

Scan(buf) ==
  LET after[i \in 0 .. Len(buf)] ==
        IF i = 0 THEN Start(Len(buf)) ELSE Look(buf, after[i - 1], i - 1)
  IN  after[Len(buf)]

-----------------------------------------------------------------------------
(* The queue after the push, or after init and a second push if the first was
   refused. *)
Pushes(data) == IF Accepts(q, Len(data)) THEN q ELSE Reset(q)

Crash == /\ crashed' = TRUE
         /\ UNCHANGED <<q, handled>>

Search(ring) ==
  \/ /\ PopFaults(ring, Size(ring))
     /\ Crash
  \/ /\ ~PopFaults(ring, Size(ring))
     /\ LET found == Scan(Copied(ring, Size(ring)))
        IN  /\ handled' = handled \o found.frames
            /\ q' = IF found.last = 0 THEN ring ELSE Removed(ring, found.last)
     /\ UNCHANGED crashed

recvPackageHandle(data) ==
  LET ring == Pushes(data)
  IN  \/ /\ PushFaults(ring, Len(data))
         /\ Crash
      \/ /\ ~PushFaults(ring, Len(data))
         /\ Search(Pushed(ring, data))

Datagrams == Len(received) + cut

(* A datagram with one whole frame. *)
ReceiveFrame(m) == /\ recvPackageHandle(Bytes(m, FrameLen[m]))
                   /\ received' = Append(received, m)
                   /\ UNCHANGED cut

(* A datagram longer than the receive buffer: its end is lost. *)
ReceiveCut(m) == \E n \in 1 .. FrameLen[m] - 1 :
                   /\ recvPackageHandle(Bytes(m, n))
                   /\ cut' = cut + 1
                   /\ UNCHANGED received

Next == /\ ~crashed
        /\ Datagrams < MaxDatagrams
        /\ \E m \in Message : ReceiveFrame(m) \/ ReceiveCut(m)

Spec == Init /\ [][Next]_vars

-----------------------------------------------------------------------------
(* The bytes of the first k of the messages msgs, and of those that arrived. *)
BytesOf(msgs, k) ==
  LET sum[i \in 0 .. Len(msgs)] ==
        IF i = 0 THEN 0 ELSE sum[i - 1] + FrameLen[msgs[i]]
  IN  sum[k]

BytesUpTo(k) == BytesOf(received, k)

(***************************************************************************)
(* Size is as wrong as QUEMAXSIZE minus the message, so the copy runs over *)
(* the end of arr into its start.  The stream is young while that reaches  *)
(* no whole old frame and the ring has not come round.                     *)
(***************************************************************************)
Young == /\ cut = 0
         /\ BytesUpTo(Len(received)) < QUEMAXSIZE
         /\ \A k \in DOMAIN received :
              BytesUpTo(k - 1) < FrameLen[received[1]] + FrameLen[received[k]]

(* A young stream is received exactly once and in order, without a crash:
   recvPackageHandle hands every frame it pushed to RecvHandle. *)
ExactlyOnceWhileYoung == Young => ~crashed /\ handled = received

(***************************************************************************)
(* The step with which a young stream ends, a frame being handled twice,   *)
(* lets the reader overtake the writer's last frames.  The process does    *)
(* not survive another message: the next push is given a negative room,    *)
(* unless the message is twice as long as the last one, is refused and so  *)
(* brings App_queue_init.                                                  *)
(***************************************************************************)
Repeats == /\ Young
           /\ cut' = cut
           /\ Len(handled') > Len(received')

ReplayIsFatal ==
  [][Repeats =>
       \A m \in Message : FrameLen[m] < 2 * FrameLen[received'[Len(received')]]
                            => PushFaults(q', FrameLen[m])]_vars
=============================================================================
