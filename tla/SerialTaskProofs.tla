-------------------------- MODULE SerialTaskProofs --------------------------
(***************************************************************************)
(* For every Size >= 2 and every set of bytes, the circular buffer of      *)
(* Joystick.c implements the first-in first-out queue ByteFifo, whatever   *)
(* the interleaving of the receive interrupt with Serial_Task.             *)
(*                                                                         *)
(* On top of that: whatever the buffer overruns, the controller state is   *)
(* one of the host's messages and they are applied in order.  The          *)
(* inductive invariant places the parser in the host's stream: which byte  *)
(* it parses next, which stretch of the stream is queued and how many      *)
(* bytes the line being received lacks.                                    *)
(***************************************************************************)
EXTENDS SerialTask, LineParserProofs

\* The ring's variables keep their types: the indices stay inside buffer[]
\* in the interrupt and in Serial_Task.
THEOREM RingTypeCorrect == RingSpec => []RingTypeOK
<1> USE SizeAssumption, ZeroAssumption DEF RingTypeOK, Index, Inc
<1>1. RingInit => RingTypeOK
  BY DEF RingInit
<1>2. RingTypeOK /\ [RingNext]_ringVars => RingTypeOK'
  <2> SUFFICES ASSUME RingTypeOK, [RingNext]_ringVars PROVE RingTypeOK'
    OBVIOUS
  <2>1. ASSUME NEW ch \in Byte, USART1_RX(ch) PROVE RingTypeOK'
    BY <2>1 DEF USART1_RX
  <2>2. CASE Test
    BY <2>2 DEF Test
  <2>3. CASE Read
    BY <2>3 DEF Read
  <2>4. CASE Advance
    BY <2>4 DEF Advance
  <2>5. CASE UNCHANGED ringVars
    BY <2>5 DEF ringVars
  <2> QED
    BY <2>1, <2>2, <2>3, <2>4, <2>5 DEF RingNext
<1> QED
  BY <1>1, <1>2, PTL DEF RingSpec

\* What is used of the queue: a sequence of Count bytes, read off the ring
\* from First on.
QueueFacts ==
    /\ First \in Index
    /\ Count \in 0 .. Size
    /\ pc # "read" => Count <= Size - 1
    /\ pc = "read" => Count >= 1
    /\ Queue \in Seq(Byte)
    /\ Len(Queue) = Count
    /\ \A k \in 1 .. Count : Queue[k] = buffer[Slot(First, k - 1)]

\* A well-typed ring always stands for such a queue.
LEMMA QueueIsSeq == RingTypeOK => QueueFacts
<1> SUFFICES ASSUME RingTypeOK PROVE QueueFacts
  OBVIOUS
<1> USE SizeAssumption
<1>1. First \in Index
  BY DEF RingTypeOK, First, Inc, Index
<1>2. /\ Count \in 0 .. Size
      /\ pc # "read" => Count <= Size - 1
      /\ pc = "read" => Count >= 1
  BY <1>1 DEF RingTypeOK, Count, Dist, Index, First
<1>3. \A k \in 1 .. Count : Slot(First, k - 1) \in Index
  BY <1>1, <1>2 DEF Slot, Index
<1>4. \A k \in 1 .. Count : buffer[Slot(First, k - 1)] \in Byte
  BY <1>3 DEF RingTypeOK
<1>5. Queue \in Seq(Byte) /\ Len(Queue) = Count
  <2> DEFINE Cell(k) == buffer[Slot(First, k - 1)]
  <2>1. \A k \in 1 .. Count : Cell(k) \in Byte
    BY <1>4
  <2> HIDE DEF Cell
  <2>2. [k \in 1 .. Count |-> Cell(k)] \in Seq(Byte)
    BY <2>1, <1>2, IsASeq
  <2>3. Len([k \in 1 .. Count |-> Cell(k)]) = Count
    BY <2>2, <1>2, LenProperties
  <2> QED
    BY <2>2, <2>3, Zenon DEF Queue, Cell
<1> QED
  BY <1>1, <1>2, <1>5 DEF Queue, QueueFacts

\* The receive interrupt appends its byte to the queue.  Only a full ring is
\* wiped out: Size bytes are lost, among them the new one unless Serial_Task
\* has passed the test of its loop and not read yet.
LEMMA InterruptEffect ==
  ASSUME RingTypeOK, RingTypeOK', QueueFacts, QueueFacts',
         NEW ch \in Byte, USART1_RX(ch)
  PROVE  /\ pc' = pc /\ c' = c
         /\ \/ Len(Queue) <= Size - 1 /\ Queue' = Append(Queue, ch)
            \/ pc = "read" /\ Len(Queue) = Size /\ Queue' = <<ch>>
            \/ pc # "read" /\ Len(Queue) = Size - 1 /\ Queue' = <<>>
<1> USE SizeAssumption
<1>1. /\ First' = First
      /\ First \in Index
      /\ c' = c
      /\ buffer' = [buffer EXCEPT ![buffer_head] = ch]
      /\ buffer_head' = Inc(buffer_head)
      /\ pc' = pc /\ buffer_tail' = buffer_tail
  BY DEF USART1_RX, First, QueueFacts
<1>2. CASE Count < Size - 1 \/ (pc = "read" /\ Count = Size - 1)
  <2>1. Count' = Count + 1
    BY <1>1, <1>2 DEF Count, Dist, First, Inc, Index, RingTypeOK
  <2>2. \A k \in 1 .. Count : Queue'[k] = Queue[k]
    <3> SUFFICES ASSUME NEW k \in 1 .. Count PROVE Queue'[k] = Queue[k]
      OBVIOUS
    <3>1. Slot(First, k - 1) \in Index /\ Slot(First, k - 1) # buffer_head
      BY <1>1, <1>2 DEF Slot, Count, Dist, First, Inc, Index, RingTypeOK
    <3>2. Queue[k] = buffer[Slot(First, k - 1)]
      BY DEF QueueFacts
    <3>3. k \in 1 .. Count'
      BY <2>1 DEF QueueFacts
    <3>4. Queue'[k] = buffer'[Slot(First, k - 1)]
      BY <1>1, <3>3, Zenon DEF QueueFacts, Slot
    <3>5. buffer'[Slot(First, k - 1)] = buffer[Slot(First, k - 1)]
      BY <1>1, <3>1 DEF RingTypeOK
    <3> QED
      BY <3>2, <3>4, <3>5
  <2>3. Queue'[Count + 1] = ch
    <3>1. Slot(First, Count) = buffer_head
      BY <1>1, <1>2 DEF Slot, Count, Dist, First, Inc, Index, RingTypeOK
    <3> QED
      BY <1>1, <2>1, <3>1 DEF QueueFacts, RingTypeOK, Slot
  <2>4. Queue' = Append(Queue, ch)
    <3>1. /\ Append(Queue, ch) \in Seq(Byte)
          /\ Len(Append(Queue, ch)) = Count + 1
          /\ \A k \in 1 .. Count : Append(Queue, ch)[k] = Queue[k]
          /\ Append(Queue, ch)[Count + 1] = ch
      BY AppendProperties DEF QueueFacts
    <3>2. \A k \in 1 .. Count + 1 : Queue'[k] = Append(Queue, ch)[k]
      BY <2>2, <2>3, <3>1 DEF QueueFacts
    <3> QED
      BY <2>1, <3>1, <3>2, SeqEqual DEF QueueFacts
  <2> QED
    BY <1>1, <1>2, <2>4 DEF QueueFacts
<1>3. CASE ~(Count < Size - 1 \/ (pc = "read" /\ Count = Size - 1))
  <2>1. Len(Queue) = IF pc = "read" THEN Size ELSE Size - 1
    BY <1>3 DEF QueueFacts
  <2>2. CASE pc = "read"
    <3>1. Count' = 1 /\ Slot(First, 0) = buffer_head
      BY <1>1, <1>3, <2>2 DEF Count, Dist, First, Inc, Index, RingTypeOK, Slot
    <3>2. Queue'[1] = ch
      BY <1>1, <3>1, SMTT(30) DEF QueueFacts, RingTypeOK, Slot
    <3>3. <<ch>> \in Seq(Byte) /\ Len(<<ch>>) = 1 /\ <<ch>>[1] = ch
      OBVIOUS
    <3>4. Queue' = <<ch>>
      BY <3>1, <3>2, <3>3, SeqEqual DEF QueueFacts
    <3> QED
      BY <1>1, <2>1, <2>2, <3>4
  <2>3. CASE pc # "read"
    <3>1. Count' = 0
      BY <1>1, <1>3, <2>3 DEF Count, Dist, First, Inc, Index, RingTypeOK
    <3>2. Queue' = <<>>
      BY <3>1, EmptySeq DEF QueueFacts
    <3> QED
      BY <1>1, <2>1, <2>3, <3>2
  <2> QED
    BY <2>2, <2>3
<1> QED
  BY <1>2, <1>3

\* In terms of the queue's promise: the interrupt puts its byte or, with at
\* least Size - 1 bytes waiting, loses what is queued.
LEMMA InterruptIsPutOrLose ==
  ASSUME RingTypeOK, RingTypeOK', QueueFacts, QueueFacts',
         NEW ch \in Byte, USART1_RX(ch)
  PROVE  Fifo!Put(ch) \/ Fifo!Lose(ch)
BY InterruptEffect, SizeAssumption DEF Fifo!Put, Fifo!Lose

\* Reading buffer[buffer_tail] takes the oldest byte of the queue.
LEMMA ReadIsGet ==
  ASSUME RingTypeOK, RingTypeOK', QueueFacts, QueueFacts', Read
  PROVE  Fifo!Get
<1> USE SizeAssumption
<1>1. /\ pc = "read" /\ pc' = "advance"
      /\ First = buffer_tail /\ First' = Inc(buffer_tail)
      /\ buffer' = buffer /\ buffer_head' = buffer_head
      /\ c' = buffer[buffer_tail]
  BY DEF Read, First
<1>2. Count >= 1 /\ Count \in Nat /\ Count' = Count - 1
  <2>1. Count >= 1 /\ Count \in Nat
    BY <1>1 DEF QueueFacts
  <2>2. Count' = Dist(Inc(buffer_tail), buffer_head)
    BY <1>1 DEF Count
  <2>3. CASE buffer_head = buffer_tail
    BY <1>1, <2>1, <2>2, <2>3 DEF Count, Dist, Inc, Index, RingTypeOK
  <2>4. CASE buffer_head # buffer_tail
    BY <1>1, <2>1, <2>2, <2>4 DEF Count, Dist, Inc, Index, RingTypeOK
  <2> QED
    BY <2>1, <2>3, <2>4
<1>3. c' = Queue[1]
  <2>1. 1 \in 1 .. Count /\ Slot(First, 1 - 1) = buffer_tail
    BY <1>1, <1>2 DEF Slot, Index, RingTypeOK
  <2>2. Queue[1] = buffer[Slot(First, 1 - 1)]
    BY <2>1 DEF QueueFacts
  <2> QED
    BY <1>1, <2>1, <2>2
<1>4. \A k \in 1 .. Count - 1 : Slot(First', k - 1) = Slot(First, k)
  BY <1>1, <1>2 DEF Slot, Inc, Index, RingTypeOK, QueueFacts
<1>5. \A k \in 1 .. Count - 1 : Queue'[k] = Queue[k + 1]
  <2> SUFFICES ASSUME NEW k \in 1 .. Count - 1 PROVE Queue'[k] = Queue[k + 1]
    OBVIOUS
  <2>1. Queue'[k] = buffer[Slot(First', k - 1)]
    BY <1>1, <1>2 DEF QueueFacts, Slot
  <2>2. k + 1 \in 1 .. Count /\ (k + 1) - 1 = k
    BY <1>2
  <2>3. Queue[k + 1] = buffer[Slot(First, k)]
    BY <2>2 DEF QueueFacts
  <2> QED
    BY <1>4, <2>1, <2>3
<1>6. /\ Queue # <<>>
      /\ Head(Queue) = Queue[1]
      /\ Tail(Queue) \in Seq(Byte)
      /\ Len(Tail(Queue)) = Count - 1
      /\ \A k \in 1 .. Count - 1 : Tail(Queue)[k] = Queue[k + 1]
  BY <1>2, HeadTailProperties DEF QueueFacts
<1>7. Queue' = Tail(Queue)
  BY <1>2, <1>5, <1>6, SeqEqual DEF QueueFacts
<1> QED
  BY <1>3, <1>6, <1>7 DEF Fifo!Get

\* The test of the loop and the increment of buffer_tail change no queue.
LEMMA TestAdvanceStutter ==
  ASSUME RingTypeOK, Test \/ Advance
  PROVE  UNCHANGED <<Queue, c>>
<1> USE SizeAssumption
<1>1. First' = First /\ Count' = Count /\ buffer' = buffer /\ c' = c
  BY DEF Test, Advance, First, Count, Dist, Inc, Index, RingTypeOK
<1> QED
  BY <1>1 DEF Queue, Slot

\* The circular buffer implements the byte queue: for every Size >= 2, bytes
\* reach Serial_Task once and in order, and are lost only when an interrupt
\* finds at least Size - 1 of them waiting.
THEOREM RingImplementsFifo == RingSpec => RingIsFifo
<1>1. RingInit => Fifo!FifoInit
  <2> SUFFICES ASSUME RingInit PROVE Fifo!FifoInit
    OBVIOUS
  <2>1. RingTypeOK
    BY SizeAssumption, ZeroAssumption DEF RingInit, RingTypeOK, Index
  <2>2. QueueFacts /\ Count = 0 /\ c \in Byte
    BY <2>1, QueueIsSeq DEF RingInit, Count, Dist, First, RingTypeOK
  <2>3. Queue = <<>>
    BY <2>2, EmptySeq DEF QueueFacts
  <2> QED
    BY <2>2, <2>3 DEF Fifo!FifoInit
<1>2. /\ RingTypeOK /\ QueueFacts
      /\ RingTypeOK' /\ QueueFacts'
      /\ [RingNext]_ringVars
      => [Fifo!FifoNext]_(Fifo!fifoVars)
  <2> SUFFICES ASSUME RingTypeOK, QueueFacts, RingTypeOK', QueueFacts',
                      [RingNext]_ringVars
               PROVE  Fifo!FifoNext \/ UNCHANGED <<Queue, c>>
    BY DEF Fifo!fifoVars
  <2>1. ASSUME NEW ch \in Byte, USART1_RX(ch) PROVE Fifo!FifoNext
    BY <2>1, InterruptIsPutOrLose DEF Fifo!FifoNext
  <2>2. CASE Read
    BY <2>2, ReadIsGet DEF Fifo!FifoNext
  <2>3. CASE Test \/ Advance
    BY <2>3, TestAdvanceStutter
  <2>4. CASE UNCHANGED ringVars
    BY <2>4 DEF ringVars, Queue, Count, First, Dist, Slot, Inc
  <2> QED
    BY <2>1, <2>2, <2>3, <2>4 DEF RingNext
<1> QED
  BY <1>1, <1>2, RingTypeCorrect, QueueIsSeq, PTL
     DEF RingSpec, RingIsFifo, Fifo!FifoSpec

-----------------------------------------------------------------------------
\* The stream of the host: messages of Digits digits and a line end.

\* The message that byte t of the stream belongs to, counted from 0, and
\* its place in the message.
Row(t) == t \div MsgLen
Col(t) == t % MsgLen

\* A message has at least one digit and its line end.
LEMMA MsgLenType == MsgLen \in Nat /\ MsgLen >= 2
BY DigitsAssumption DEF MsgLen

\* Division with remainder.
LEMMA DivMod ==
    ASSUME NEW d \in Nat, d >= 1, NEW t \in Nat
    PROVE  /\ t \div d \in Nat /\ t % d \in 0 .. d - 1
           /\ t = ((t \div d) * d) + (t % d)
OBVIOUS

\* Quotient and remainder are unique.
LEMMA DivModUnique ==
    ASSUME NEW d \in Nat, d >= 1, NEW q \in Nat, NEW r \in 0 .. d - 1
    PROVE  ((q * d) + r) \div d = q /\ ((q * d) + r) % d = r
OBVIOUS

\* A byte of the stream is a message and a place in it.
LEMMA PosType ==
    ASSUME NEW t \in Nat
    PROVE  /\ Row(t) \in Nat /\ Col(t) \in 0 .. Digits
           /\ t = Row(t) * MsgLen + Col(t)
<1>1. MsgLen - 1 = Digits
  BY DigitsAssumption DEF MsgLen
<1>2. PICK w : w = MsgLen
  OBVIOUS
<1>3. w \in Nat /\ w >= 1
  BY <1>2, MsgLenType
<1>4. /\ t \div w \in Nat /\ t % w \in 0 .. w - 1
      /\ t = ((t \div w) * w) + (t % w)
  BY <1>3, DivMod, Zenon
<1> QED
  BY <1>1, <1>2, <1>4 DEF Row, Col

\* The types of message and place.
LEMMA PosRange ==
    ASSUME NEW t \in Nat
    PROVE  Row(t) \in Nat /\ Col(t) \in 0 .. Digits
BY PosType

\* Message and place of a byte given by both.
LEMMA PosUnique ==
    ASSUME NEW q \in Nat, NEW r \in 0 .. Digits
    PROVE  Row(q * MsgLen + r) = q /\ Col(q * MsgLen + r) = r
<1>1. MsgLen - 1 = Digits
  BY DigitsAssumption DEF MsgLen
<1> QED
  BY <1>1, MsgLenType, DivModUnique DEF Row, Col

\* The next byte is in the same message, or the first of the next one
\* after a line end.
LEMMA PosNext ==
    ASSUME NEW t \in Nat
    PROVE  /\ Col(t) < Digits => Row(t + 1) = Row(t) /\ Col(t + 1) = Col(t) + 1
           /\ Col(t) = Digits => Row(t + 1) = Row(t) + 1 /\ Col(t + 1) = 0
<1>1. PICK q, r : q = Row(t) /\ r = Col(t)
  OBVIOUS
<1>2. q \in Nat /\ r \in 0 .. Digits /\ t = q * MsgLen + r
  BY <1>1, PosType
<1>3. CASE r < Digits
  <2>1. t + 1 = q * MsgLen + (r + 1) /\ r + 1 \in 0 .. Digits
    BY <1>2, <1>3, MsgLenType, DigitsAssumption
  <2> QED
    BY <1>1, <1>2, <1>3, <2>1, PosUnique
<1>4. CASE r = Digits
  <2>1. t + 1 = (q + 1) * MsgLen + 0 /\ 0 \in 0 .. Digits /\ q + 1 \in Nat
    BY <1>2, <1>4, MsgLenType, DigitsAssumption DEF MsgLen
  <2>2. Row(t + 1) = q + 1 /\ Col(t + 1) = 0
    BY <2>1, PosUnique
  <2> QED
    BY <1>1, <1>4, <2>2, DigitsAssumption
<1> QED
  BY <1>1, <1>2, <1>3, <1>4, DigitsAssumption

\* An order of multiples is one of the factors.
LEMMA ProductOrder ==
    ASSUME NEW m \in Nat, NEW p \in Nat, NEW d \in Nat, m * d < (p + 1) * d
    PROVE  m <= p
OBVIOUS

\* A later byte is not in an earlier message.
LEMMA PosMono ==
    ASSUME NEW s \in Nat, NEW t \in Nat, s <= t
    PROVE  Row(s) <= Row(t)
<1>1. PICK q, r : q = Row(s) /\ r = Row(t)
  OBVIOUS
<1>2. q \in Nat /\ r \in Nat
  BY <1>1, PosType
<1>3. q * MsgLen <= s
  BY <1>1, <1>2, PosType, MsgLenType
<1>4. t < (r + 1) * MsgLen
  <2>1. t = r * MsgLen + Col(t) /\ Col(t) \in 0 .. Digits
    BY <1>1, PosType
  <2>2. MsgLen = Digits + 1
    BY DEF MsgLen
  <2> QED
    BY <1>2, <2>1, <2>2, DigitsAssumption
<1>5. q * MsgLen < (r + 1) * MsgLen
  <2>1. q * MsgLen \in Nat /\ (r + 1) * MsgLen \in Nat
    BY <1>2, MsgLenType
  <2> QED
    BY <1>3, <1>4, <2>1
<1> QED
  BY <1>1, <1>2, <1>5, ProductOrder, MsgLenType

\* The byte after a digit is in the same message.
LEMMA PosInside ==
    ASSUME NEW t \in Nat, Col(t) # Digits
    PROVE  Row(t + 1) = Row(t) /\ Col(t + 1) = Col(t) + 1 /\ Col(t) \in Nat
<1>1. Col(t) \in 0 .. Digits
  BY PosRange
<1>2. Col(t) < Digits /\ Col(t) \in Nat
  BY <1>1, DigitsAssumption
<1> QED
  BY <1>2, PosNext, Zenon

\* PosMono for the positions that occur below.
LEMMA PosLater ==
    ASSUME NEW t \in Nat, NEW d \in Nat
    PROVE  /\ Row(t) \in Nat /\ Row(t + d) \in Nat /\ Row(t) <= Row(t + d)
           /\ Row(t + 1) \in Nat /\ Row((t + d) + 1) \in Nat
           /\ Row(t + 1) <= Row((t + d) + 1)
<1>1. /\ t + d \in Nat /\ t + 1 \in Nat /\ (t + d) + 1 \in Nat
      /\ t <= t + d /\ t + 1 <= (t + d) + 1
  OBVIOUS
<1> QED
  BY <1>1, PosRange, PosMono, Zenon

\* A gap behind which the place in the message is the same as without it
\* is a number of whole messages.
LEMMA GapWhole ==
    ASSUME NEW t \in Nat, NEW u \in Nat, NEW d \in Nat, t = u * MsgLen + Col(t) + d
    PROVE  d % MsgLen = 0
<1>1. PICK q, r, w : q = Row(t) /\ r = Col(t) /\ w = MsgLen
  OBVIOUS
<1>2. q \in Nat /\ r \in Nat /\ t = q * w + r /\ w \in Nat /\ w >= 2
  BY <1>1, PosType, MsgLenType, DigitsAssumption
<1>3. t = u * w + r + d
  BY <1>1
<1>4. d = q * w - u * w
  BY <1>2, <1>3
<1>5. u <= q
  <2>1. u * w < (q + 1) * w
    BY <1>2, <1>4
  <2> QED
    BY <1>2, <2>1, ProductOrder
<1>6. d = ((q - u) * w) + 0 /\ q - u \in Nat
  BY <1>2, <1>4, <1>5
<1>7. d % w = 0
  <2>1. w >= 1 /\ 0 \in 0 .. w - 1
    BY <1>2
  <2>2. PICK p : p = q - u
    OBVIOUS
  <2>3. ((p * w) + 0) % w = 0
    BY <1>2, <1>6, <2>1, <2>2, DivModUnique, Zenon
  <2> QED
    BY <1>6, <2>2, <2>3
<1> QED
  BY <1>1, <1>7

\* Every byte of the stream belongs to a message of the host.
LEMMA PosSent ==
    ASSUME NEW t \in Nat, t < Messages * MsgLen
    PROVE  Row(t) + 1 \in 1 .. Messages
<1>1. PICK q : q = Row(t)
  OBVIOUS
<1>2. q \in Nat /\ q * MsgLen <= t
  BY <1>1, PosType, MsgLenType
<1>3. Messages \in Nat /\ Messages >= 1
  BY MessagesAssumption
<1>4. Messages - 1 \in Nat /\ q * MsgLen < ((Messages - 1) + 1) * MsgLen
  BY <1>2, <1>3, MsgLenType
<1>5. q <= Messages - 1
  BY <1>2, <1>4, ProductOrder, MsgLenType
<1> QED
  BY <1>1, <1>2, <1>3, <1>5

\* The parser reads a digit of bridge.py as the value it was written for.
LEMMA HexCharVal ==
    ASSUME NEW v \in 1 .. 15
    PROVE  HexVal(HexChar(v)) = v /\ HexChar(v) \notin {CR, LF} /\ HexChar(v) \in 0 .. 255
BY DEF HexVal, HexChar, CR, LF

\* What the parser sees of a byte of the stream: a line end in the last
\* place, the digit of the message in the others.
LEMMA StreamDigit ==
    ASSUME NEW t \in Nat, t < Messages * MsgLen
    PROVE  /\ StreamByte(t) \in 0 .. 255
           /\ Col(t) = Digits => StreamByte(t) = LF
           /\ Col(t) # Digits => /\ HexVal(StreamByte(t)) = Row(t) + 1
                                 /\ StreamByte(t) \notin {CR, LF}
<1>1. Row(t) + 1 \in 1 .. 15
  BY PosSent, MessagesAssumption
<1> QED
  BY <1>1, HexCharVal DEF StreamByte, Row, Col, LF

-----------------------------------------------------------------------------
\* What one character does to a right line and to the controller state.

\* The line holds the digits of the message byte t belongs to, up to t.
Whole(ln, t) ==
    /\ Len(ln) = Col(t)
    /\ \A k \in 1 .. Len(ln) : ln[k] = Row(t) + 1

\* If the line is as long as the message up to byte t, it holds its digits,
\* but for one when the line failed in this message (h).
Near(ln, h, t) ==
    Len(ln) = Col(t) =>
        \E i \in Int : \A k \in 1 .. Len(ln) :
            ln[k] = Row(t) + 1 \/ (k = i /\ h = Row(t) + 1)

\* The controller state is message m, but for one digit when the line
\* failed in it.
PadNear(pd, h, m) ==
    \E i \in Int : \A k \in Position : pd[k] = m \/ (k = i /\ m = h /\ m > 0)

\* The controller state is such a message, at the latest the one byte t
\* ends, and an earlier one if t may still complete its message.
PadFrom(pd, ln, h, t) ==
    \E m \in Nat :
        /\ PadNear(pd, h, m)
        /\ m <= Row(t + 1)
        /\ Len(ln) = Col(t) => m <= Row(t)

\* A byte of the stream ends the line or adds the digit of its message.
LEMMA LineAfterStream ==
    ASSUME NEW ln \in Seq(Nibble), NEW t \in Nat, t < Messages * MsgLen
    PROVE  /\ Col(t) = Digits => LineAfter(ln, StreamByte(t)) = <<>>
           /\ Col(t) # Digits =>
                 /\ LineAfter(ln, StreamByte(t)) = Append(ln, Row(t) + 1)
                 /\ Row(t) + 1 \in Nibble
                 /\ StreamByte(t) \notin {CR, LF}
<1>1. Row(t) + 1 \in 1 .. 15
  BY PosSent, MessagesAssumption, SMTT(30)
<1> QED
  BY <1>1, StreamDigit, SMTT(30) DEF LineAfter, Nibble, NoDigit, LF

\* A line that holds the digits of its message does so but for none.
LEMMA WholeNear ==
    ASSUME NEW ln \in Seq(Nibble), NEW h, NEW t \in Nat, Whole(ln, t)
    PROVE  Near(ln, h, t)
<1>1. \A k \in 1 .. Len(ln) : ln[k] = Row(t) + 1
  BY DEF Whole
<1> QED
  BY <1>1 DEF Near

\* After the line end of a message the empty line is right.
LEMMA EmptyWhole ==
    ASSUME NEW t \in Nat, Col(t) = Digits
    PROVE  Whole(<<>>, t + 1)
BY PosNext DEF Whole

\* Byte t of the stream takes a right line to a right line.
LEMMA WholeNext ==
    ASSUME NEW ln \in Seq(Nibble), NEW t \in Nat, t < Messages * MsgLen, Whole(ln, t)
    PROVE  Whole(LineAfter(ln, StreamByte(t)), t + 1)
<1>1. CASE Col(t) = Digits
  BY <1>1, LineAfterStream, EmptyWhole
<1>2. CASE Col(t) # Digits
  <2>1. PICK v : v = Row(t) + 1
    OBVIOUS
  <2>2. v \in Nibble /\ LineAfter(ln, StreamByte(t)) = Append(ln, v)
    BY <1>2, <2>1, LineAfterStream
  <2>3. /\ Len(Append(ln, v)) = Len(ln) + 1
        /\ Append(ln, v)[Len(ln) + 1] = v
        /\ \A k \in 1 .. Len(ln) : Append(ln, v)[k] = ln[k]
    BY <2>2, AppendProperties
  <2>4. Row(t + 1) + 1 = v /\ Col(t + 1) = Len(ln) + 1
    BY <1>2, <2>1, PosInside DEF Whole
  <2>5. \A k \in 1 .. Len(ln) + 1 : Append(ln, v)[k] = v
    BY <2>1, <2>3 DEF Whole
  <2> QED
    BY <2>2, <2>3, <2>4, <2>5 DEF Whole
<1> QED
  BY <1>1, <1>2

\* The same for a line with a wrong digit or of the wrong length.
LEMMA NearNext ==
    ASSUME NEW ln \in Seq(Nibble), NEW h, NEW t \in Nat, t < Messages * MsgLen,
           Near(ln, h, t)
    PROVE  Near(LineAfter(ln, StreamByte(t)), h, t + 1)
<1>1. CASE Col(t) = Digits
  <2>1. <<>> \in Seq(Nibble) /\ t + 1 \in Nat
    BY EmptySeq
  <2>2. Near(<<>>, h, t + 1)
    BY <1>1, <2>1, EmptyWhole, WholeNear, Zenon
  <2> QED
    BY <1>1, <2>2, LineAfterStream
<1>2. CASE Col(t) # Digits
  <2>1. PICK v : v = Row(t) + 1
    OBVIOUS
  <2>2. v \in Nibble /\ LineAfter(ln, StreamByte(t)) = Append(ln, v)
    BY <1>2, <2>1, LineAfterStream
  <2>3. /\ Len(Append(ln, v)) = Len(ln) + 1
        /\ Append(ln, v)[Len(ln) + 1] = v
        /\ \A k \in 1 .. Len(ln) : Append(ln, v)[k] = ln[k]
    BY <2>2, AppendProperties
  <2>4. Row(t + 1) + 1 = v /\ Col(t + 1) = Col(t) + 1 /\ Col(t) \in Nat
    BY <1>2, <2>1, PosInside
  <2> SUFFICES ASSUME Len(ln) + 1 = Col(t + 1)
               PROVE  \E i \in Int : \A k \in 1 .. Len(ln) + 1 :
                          Append(ln, v)[k] = v \/ (k = i /\ h = v)
    BY <2>2, <2>3, <2>4, Zenon DEF Near
  <2>5. PICK i \in Int : \A k \in 1 .. Len(ln) : ln[k] = v \/ (k = i /\ h = v)
    BY <2>1, <2>4 DEF Near
  <2>6. \A k \in 1 .. Len(ln) + 1 : Append(ln, v)[k] = v \/ (k = i /\ h = v)
    BY <2>3, <2>5
  <2> QED
    BY <2>6, SMTT(30)
<1> QED
  BY <1>1, <1>2

\* A byte of the stream leaves the controller state a message of the host:
\* a line of the right length at a line end is a message.
LEMMA PadNext ==
    ASSUME NEW ln \in Seq(Nibble), NEW pd \in [Position -> Nibble], NEW h \in Nat,
           NEW t \in Nat, t < Messages * MsgLen,
           Near(ln, h, t), PadFrom(pd, ln, h, t)
    PROVE  PadFrom(PadAfter(ln, pd, StreamByte(t)), LineAfter(ln, StreamByte(t)), h, t + 1)
<1>1. PICK m \in Nat : /\ PadNear(pd, h, m)
                      /\ m <= Row(t + 1)
                      /\ Len(ln) = Col(t) => m <= Row(t)
  BY DEF PadFrom
<1>2. /\ Row(t) \in Nat /\ Row(t + 1) \in Nat /\ Row((t + 1) + 1) \in Nat
      /\ Row(t + 1) <= Row((t + 1) + 1)
  BY PosLater
<1>3. CASE Col(t) = Digits /\ Len(ln) = Digits
  <2>1. PICK v : v = Row(t) + 1
    OBVIOUS
  <2>2. v \in Nat /\ v = Row(t + 1) /\ v > 0
    BY <1>2, <1>3, <2>1, PosNext
  <2>3. PICK i \in Int : \A k \in 1 .. Len(ln) : ln[k] = v \/ (k = i /\ h = v)
    BY <1>3, <2>1 DEF Near
  <2>4. PadAfter(ln, pd, StreamByte(t)) = [k \in Position |-> ln[k + 1]]
    BY <1>3, StreamDigit DEF PadAfter, LF, CR
  <2>5. \A k \in Position : k + 1 \in 1 .. Len(ln) /\ (k + 1 = i => k = i - 1)
    BY <1>3, DigitsAssumption DEF Position
  <2>6. \A k \in Position : [kk \in Position |-> ln[kk + 1]][k] = v
                              \/ (k = i - 1 /\ v = h /\ v > 0)
    BY <2>2, <2>3, <2>5
  <2>7. PadNear(PadAfter(ln, pd, StreamByte(t)), h, v)
    BY <2>4, <2>6 DEF PadNear
  <2> QED
    BY <1>2, <2>2, <2>7 DEF PadFrom
<1>4. CASE Col(t) # Digits \/ Len(ln) # Digits
  <2>1. PadAfter(ln, pd, StreamByte(t)) = pd
    BY <1>4, StreamDigit DEF PadAfter
  <2> QED
    BY <1>1, <1>2, <2>1 DEF PadFrom
<1> QED
  BY <1>3, <1>4

\* A gap in the stream leaves the controller state a message of the host
\* when it shows in the length of the line.
LEMMA GapPad ==
    ASSUME NEW ln \in Seq(Nibble), NEW pd, NEW h, NEW t \in Nat, NEW d \in Nat,
           PadFrom(pd, ln, h, t), d = 0 \/ Len(ln) # Col(t + d)
    PROVE  PadFrom(pd, ln, h, t + d)
<1>1. CASE d = 0
  <2>1. t + d = t
    BY <1>1
  <2> QED
    BY <2>1
<1>2. CASE Len(ln) # Col(t + d)
  <2>1. PICK m \in Nat : PadNear(pd, h, m) /\ m <= Row(t + 1)
    BY DEF PadFrom
  <2>2. Row(t + 1) \in Nat /\ Row((t + d) + 1) \in Nat /\ Row(t + 1) <= Row((t + d) + 1)
    BY PosLater, Zenon
  <2>3. m <= Row((t + d) + 1)
    BY <2>1, <2>2
  <2> QED
    BY <1>2, <2>1, <2>3 DEF PadFrom
<1> QED
  BY <1>1, <1>2

\* A failure of the line weakens what is asked of the controller state.
LEMMA PadHit ==
    ASSUME NEW ln \in Seq(Nibble), NEW pd, NEW h \in Nat, NEW t \in Nat,
           PadFrom(pd, ln, 0, t)
    PROVE  PadFrom(pd, ln, h, t)
<1>1. \A m \in Nat : PadNear(pd, 0, m) => PadNear(pd, h, m)
  BY DEF PadNear
<1> QED
  BY <1>1 DEF PadFrom

-----------------------------------------------------------------------------
\* What a lost, changed or invented byte does.

\* A line end on a complete line applies the message.
LEMMA WholeApplied ==
    ASSUME NEW ln \in Seq(Nibble), NEW pd \in [Position -> Nibble], NEW h \in Nat,
           NEW f \in Nat, NEW x, Whole(ln, f), x \in {CR, LF}, Len(ln) = Digits
    PROVE  /\ PadNear(PadAfter(ln, pd, x), h, Row(f) + 1)
           /\ Row(f + 1) = Row(f) + 1 /\ Col(f) = Digits /\ Col(f + 1) = 0
<1>1. PICK v : v = Row(f) + 1
  OBVIOUS
<1>2. \A k \in Position : k + 1 \in 1 .. Len(ln)
  BY DigitsAssumption DEF Position
<1>3. \A k \in Position : [kk \in Position |-> ln[kk + 1]][k] = v
  BY <1>1, <1>2 DEF Whole
<1>4. PadNear(PadAfter(ln, pd, x), h, v)
  BY <1>3 DEF PadNear, PadAfter
<1>5. Col(f) = Digits
  BY DEF Whole
<1> QED
  BY <1>1, <1>4, <1>5, PosNext

\* A right line has the wrong length for the next byte.
LEMMA Outside ==
    ASSUME NEW ln \in Seq(Nibble), NEW f \in Nat, Whole(ln, f)
    PROVE  Len(ln) # Col(f + 1)
<1>1. CASE Col(f) = Digits
  BY <1>1, PosNext, DigitsAssumption DEF Whole
<1>2. CASE Col(f) # Digits
  BY <1>2, PosInside DEF Whole
<1> QED
  BY <1>1, <1>2

\* A lost byte shows in the length of the line until the next line end.
LEMMA LostByte ==
    ASSUME NEW ln \in Seq(Nibble), NEW h \in Nat, NEW f \in Nat, Whole(ln, f)
    PROVE  /\ Near(ln, h, f + 1)
           /\ \A pd : PadFrom(pd, ln, h, f) => PadFrom(pd, ln, h, f + 1)
<1>1. Len(ln) # Col(f + 1)
  BY Outside
<1> QED
  BY <1>1, GapPad DEF Near

\* An invented byte ends the line early, makes it too long or is ignored.
LEMMA InventedByte ==
    ASSUME NEW ln \in Seq(Nibble), NEW f \in Nat, NEW x \in 0 .. 255, Whole(ln, f)
    PROVE  /\ Near(LineAfter(ln, x), Row(f) + 1, f)
           /\ \A pd \in [Position -> Nibble] :
                 PadFrom(pd, ln, Row(f) + 1, f) =>
                    PadFrom(PadAfter(ln, pd, x), LineAfter(ln, x), Row(f) + 1, f)
<1>1. PICK h : h = Row(f) + 1
  OBVIOUS
<1>2. h \in Nat /\ Row(f + 1) \in Nat /\ Row(f) \in Nat /\ Col(f) \in Nat
  <2>0. f + 1 \in Nat
    OBVIOUS
  <2>1. Row(f + 1) \in Nat /\ Row(f) \in Nat /\ Col(f) \in 0 .. Digits
    BY <2>0, PosRange, Zenon
  <2> QED
    BY <1>1, <2>1, DigitsAssumption
<1>3. CASE x \in {CR, LF}
  <2>1. LineAfter(ln, x) = <<>>
    BY <1>3 DEF LineAfter
  <2>2. Near(<<>>, h, f)
    BY DEF Near
  <2>3. ASSUME NEW pd \in [Position -> Nibble], PadFrom(pd, ln, h, f)
        PROVE  PadFrom(PadAfter(ln, pd, x), <<>>, h, f)
    <3>1. CASE Len(ln) = Digits
      <4>1. PadNear(PadAfter(ln, pd, x), h, h) /\ Row(f + 1) = h /\ Col(f) = Digits
        BY <1>1, <1>2, <1>3, <3>1, WholeApplied, Zenon
      <4>2. h <= Row(f + 1) /\ Col(f) # 0 /\ Len(<<>>) = 0
        BY <1>2, <4>1, DigitsAssumption
      <4> QED
        BY <1>2, <4>1, <4>2 DEF PadFrom
    <3>2. CASE Len(ln) # Digits
      <4>1. PadAfter(ln, pd, x) = pd
        BY <3>2 DEF PadAfter
      <4> QED
        BY <2>3, <4>1 DEF PadFrom, Whole
    <3> QED
      BY <3>1, <3>2
  <2> QED
    BY <1>1, <2>1, <2>2, <2>3
<1>4. CASE x \notin {CR, LF}
  <2>1. \A pd : PadAfter(ln, pd, x) = pd
    BY <1>4 DEF PadAfter
  <2>2. CASE HexVal(x) = NoDigit
    <3>1. LineAfter(ln, x) = ln
      BY <1>4, <2>2 DEF LineAfter
    <3> QED
      BY <1>1, <1>2, <2>1, <3>1, WholeNear
  <2>3. CASE HexVal(x) # NoDigit
    <3>1. LineAfter(ln, x) = Append(ln, HexVal(x)) /\ HexVal(x) \in Nibble
      BY <1>4, <2>3, HexValType, Zenon DEF LineAfter
    <3>2. Len(LineAfter(ln, x)) # Col(f)
      BY <1>2, <3>1, AppendProperties DEF Whole
    <3>3. Near(LineAfter(ln, x), h, f)
      BY <3>2 DEF Near
    <3>4. \A pd : PadFrom(pd, ln, h, f) => PadFrom(pd, LineAfter(ln, x), h, f)
      BY <3>2 DEF PadFrom
    <3> QED
      BY <1>1, <2>1, <3>3, <3>4
  <2> QED
    BY <2>2, <2>3
<1> QED
  BY <1>3, <1>4

\* A changed byte costs a digit of its message or the right length.
LEMMA ChangedByte ==
    ASSUME NEW ln \in Seq(Nibble), NEW f \in Nat, NEW x \in 0 .. 255, Whole(ln, f)
    PROVE  /\ Near(LineAfter(ln, x), Row(f) + 1, f + 1)
           /\ \A pd \in [Position -> Nibble] :
                 PadFrom(pd, ln, Row(f) + 1, f) =>
                    PadFrom(PadAfter(ln, pd, x), LineAfter(ln, x), Row(f) + 1, f + 1)
<1>1. PICK h : h = Row(f) + 1
  OBVIOUS
<1>2. /\ h \in Nat /\ Row(f + 1) \in Nat /\ Row(f) \in Nat /\ Col(f) \in Nat
      /\ Row((f + 1) + 1) \in Nat /\ Row(f + 1) <= Row((f + 1) + 1)
  <2>1. Row(f) \in Nat /\ Col(f) \in 0 .. Digits
    BY PosRange
  <2>2. h \in Nat /\ Row(f) \in Nat /\ Col(f) \in Nat
    BY <1>1, <2>1, DigitsAssumption
  <2> QED
    BY <2>2, PosLater
<1>3. \A pd, ln2 : (\E m \in Nat : PadNear(pd, h, m) /\ m <= Row(f + 1)) => PadFrom(pd, ln2, h, f + 1)
  BY <1>2 DEF PadFrom
<1>4. \A pd : PadFrom(pd, ln, h, f) => \E m \in Nat : PadNear(pd, h, m) /\ m <= Row(f + 1)
  BY DEF PadFrom
<1>5. ASSUME NEW pd \in [Position -> Nibble], PadFrom(pd, ln, h, f)
      PROVE  PadFrom(PadAfter(ln, pd, x), LineAfter(ln, x), h, f + 1)
  <2>1. CASE x \in {CR, LF} /\ Len(ln) = Digits
    <3>1. PadNear(PadAfter(ln, pd, x), h, h) /\ Row(f + 1) = h
      BY <1>1, <1>2, <2>1, WholeApplied, Zenon
    <3>2. h <= Row(f + 1)
      BY <1>2, <3>1
    <3> QED
      BY <1>2, <1>3, <3>1, <3>2
  <2>2. CASE ~(x \in {CR, LF} /\ Len(ln) = Digits)
    <3>1. PadAfter(ln, pd, x) = pd
      BY <2>2 DEF PadAfter
    <3> QED
      BY <1>3, <1>4, <1>5, <3>1
  <2> QED
    BY <2>1, <2>2
<1>6. Near(LineAfter(ln, x), h, f + 1)
  <2>1. CASE x \in {CR, LF}
    BY <2>1 DEF LineAfter, Near
  <2>2. CASE x \notin {CR, LF} /\ HexVal(x) = NoDigit
    BY <2>2, Outside DEF LineAfter, Near
  <2>3. CASE x \notin {CR, LF} /\ HexVal(x) # NoDigit
    <3>1. PICK v \in Nibble : LineAfter(ln, x) = Append(ln, v)
      BY <2>3, HexValType, Zenon DEF LineAfter
    <3>2. /\ Len(Append(ln, v)) = Len(ln) + 1
          /\ \A k \in 1 .. Len(ln) : Append(ln, v)[k] = ln[k]
      BY AppendProperties
    <3>3. CASE Col(f) = Digits
      BY <3>1, <3>2, <3>3, PosNext, DigitsAssumption DEF Near
    <3>4. CASE Col(f) # Digits
      <4>1. Row(f + 1) + 1 = h /\ Col(f + 1) = Len(ln) + 1
        BY <1>1, <3>4, PosInside DEF Whole
      <4>2. \A k \in 1 .. Len(ln) + 1 : Append(ln, v)[k] = h \/ k = Len(ln) + 1
        BY <1>1, <3>2 DEF Whole
      <4>3. PICK i \in Int : i = Len(ln) + 1
        OBVIOUS
      <4>4. Near(Append(ln, v), h, f + 1)
        BY <3>2, <4>1, <4>2, <4>3, Zenon DEF Near
      <4> QED
        BY <3>1, <4>4
    <3> QED
      BY <3>3, <3>4
  <2> QED
    BY <2>1, <2>2, <2>3
<1> QED
  BY <1>1, <1>5, <1>6

\* A complete line is from a later message than the controller state: no
\* digit goes down, but for one when the line has failed.
LEMMA InOrder ==
    ASSUME NEW ln \in Seq(Nibble), NEW pd \in [Position -> Nibble], NEW h \in Nat,
           NEW t \in Nat, Near(ln, h, t), PadFrom(pd, ln, h, t),
           Len(ln) = Digits, Col(t) = Digits
    PROVE  \E j \in Position : \A k \in Position :
               k # j \/ h = 0 => ln[k + 1] >= pd[k]
<1> USE DigitsAssumption
<1>1. PICK v : v = Row(t) + 1
  OBVIOUS
<1>0. Row(t) \in Nat
  BY PosRange
<1>2. v \in Nat /\ v > 0 /\ Row(t) < v
  BY <1>0, <1>1
<1>3. PICK i \in Int : \A k \in 1 .. Len(ln) : ln[k] = v \/ (k = i /\ h = v)
  BY <1>1 DEF Near
<1>4. PICK m \in Nat : PadNear(pd, h, m) /\ m <= Row(t)
  BY DEF PadFrom
<1>5. m < v
  BY <1>0, <1>2, <1>4
<1>6. PICK p \in Int : \A k \in Position : pd[k] = m \/ (k = p /\ m = h /\ m > 0)
  BY <1>4 DEF PadNear
<1>7. \A k \in Position : k + 1 \in 1 .. Len(ln) /\ (k + 1 = i => k = i - 1) /\ k \in Int
  BY DEF Position
<1>8. CASE h = v
  <2>1. \A k \in Position : k # i - 1 => ln[k + 1] >= pd[k]
    BY <1>2, <1>3, <1>5, <1>6, <1>7, <1>8
  <2>2. 0 \in Position
    BY DEF Position
  <2> QED
    BY <1>2, <1>8, <2>1, <2>2
<1>9. CASE h # v
  <2>1. \A k \in Position : k # p \/ h = 0 => ln[k + 1] >= pd[k]
    BY <1>2, <1>3, <1>5, <1>6, <1>7, <1>9
  <2>2. 0 \in Position
    BY DEF Position
  <2> QED
    BY <2>1, <2>2
<1> QED
  BY <1>8, <1>9

-----------------------------------------------------------------------------
\* The queue as a stretch of the stream.

\* The byte Serial_Task has read and not yet processed.
InHand == IF pc = "advance" THEN 1 ELSE 0

\* The types, with what the parser keeps by itself.
TaskTypeInv ==
    /\ RingTypeOK
    /\ ParserInv
    /\ fed \in Nat /\ fed <= Messages * MsgLen
    /\ wiped \in Nat
    /\ hit \in Nat

\* The queue q is the stream from byte s on.
Sent(q, s) == \A k \in 1 .. Len(q) : q[k] = StreamByte(s + (k - 1))

\* Without a failure of the line: t is the next byte to parse, the queue is
\* a stretch of the stream that ends with the last byte received, and g
\* wipes lie between the byte in hand and the queue.
QueueAt(t, g) ==
    /\ fed = t + InHand + g * Size + Len(Queue)
    /\ pc = "advance" => c = StreamByte(t)
    /\ pc # "advance" => g = 0
    /\ Sent(Queue, t + InHand + g * Size)

\* The next byte of the stream prolongs such a queue.
LEMMA SentAppend ==
    ASSUME NEW q \in Seq(Byte), NEW s \in Nat, NEW ch \in Byte, Sent(q, s),
           ch = StreamByte(s + Len(q))
    PROVE  Sent(Append(q, ch), s) /\ Len(Append(q, ch)) = Len(q) + 1
<1>1. /\ Len(Append(q, ch)) = Len(q) + 1
      /\ Append(q, ch)[Len(q) + 1] = ch
      /\ \A k \in 1 .. Len(q) : Append(q, ch)[k] = q[k]
  BY AppendProperties
<1>2. ASSUME NEW k \in 1 .. Len(q) + 1
      PROVE  Append(q, ch)[k] = StreamByte(s + (k - 1))
  <2>1. CASE k = Len(q) + 1
    <3>1. s + (k - 1) = s + Len(q)
      BY <2>1
    <3> QED
      BY <1>1, <2>1, <3>1
  <2>2. CASE k \in 1 .. Len(q)
    BY <1>1, <2>2 DEF Sent
  <2> QED
    BY <2>1, <2>2
<1> QED
  BY <1>1, <1>2 DEF Sent

\* Taking a byte from such a queue.
LEMMA SentTail ==
    ASSUME NEW q \in Seq(Byte), NEW s \in Nat, Sent(q, s), q # <<>>
    PROVE  /\ Head(q) = StreamByte(s)
           /\ Sent(Tail(q), s + 1)
           /\ Len(Tail(q)) = Len(q) - 1
           /\ Len(q) >= 1
<1>1. /\ Len(q) \in Nat /\ Len(q) >= 1 /\ Head(q) = q[1]
      /\ Len(Tail(q)) = Len(q) - 1
      /\ \A k \in 1 .. Len(q) - 1 : Tail(q)[k] = q[k + 1]
  BY HeadTailProperties, EmptySeq
<1>2. Head(q) = StreamByte(s)
  <2>1. 1 \in 1 .. Len(q) /\ s + (1 - 1) = s
    BY <1>1
  <2> QED
    BY <1>1, <2>1 DEF Sent
<1>3. ASSUME NEW k \in 1 .. Len(q) - 1
      PROVE  Tail(q)[k] = StreamByte((s + 1) + (k - 1))
  <2>1. k + 1 \in 1 .. Len(q) /\ s + ((k + 1) - 1) = (s + 1) + (k - 1)
    BY <1>1
  <2>2. q[k + 1] = StreamByte(s + ((k + 1) - 1))
    BY <2>1 DEF Sent
  <2> QED
    BY <1>1, <2>1, <2>2
<1> QED
  BY <1>1, <1>2, <1>3 DEF Sent

\* The bytes of the stream are bytes.
LEMMA StreamIsByte ==
    ASSUME NEW k \in Nat, k < Messages * MsgLen
    PROVE  StreamByte(k) \in Byte /\ StreamByte(k) \in 0 .. 255
<1>1. Messages * MsgLen \in Nat
  BY MessagesAssumption, MsgLenType
<1>2. k \in 0 .. Messages * MsgLen - 1
  BY <1>1
<1> QED
  BY <1>2, ByteAssumption, Zenon

\* The interrupt prolongs the queue or wipes it out; a wipe takes exactly
\* Size bytes out of the stream, before or behind the byte in hand.
LEMMA QueueReceive ==
    ASSUME TaskTypeInv, QueueFacts, QueueFacts', RingTypeOK',
           fed < Messages * MsgLen, USART1_RX(StreamByte(fed)), fed' = fed + 1,
           NEW t \in Nat, NEW g \in Nat, QueueAt(t, g)
    PROVE  \/ QueueAt(t, g)' /\ ~(Len(Queue') < Len(Queue))
           \/ QueueAt(t + Size, 0)' /\ Len(Queue') < Len(Queue) /\ g = 0
           \/ QueueAt(t, g + 1)' /\ Len(Queue') < Len(Queue)
<1> USE SizeAssumption
<1>1. PICK d : d = g * Size
  OBVIOUS
<1>2. d \in Nat /\ (g + 1) * Size = d + Size /\ 0 * Size = 0 /\ (g = 0 => d = 0)
  BY <1>1
<1>3. PICK a : a = InHand
  OBVIOUS
<1>4. a \in 0 .. 1 /\ (pc = "advance" <=> a = 1) /\ fed \in Nat
  BY <1>3 DEF InHand, TaskTypeInv
<1>5. StreamByte(fed) \in Byte
  BY <1>4, StreamIsByte
<1>6. RingTypeOK
  BY DEF TaskTypeInv
<1>7. /\ pc' = pc /\ c' = c
      /\ \/ Len(Queue) <= Size - 1 /\ Queue' = Append(Queue, StreamByte(fed))
         \/ pc = "read" /\ Len(Queue) = Size /\ Queue' = <<StreamByte(fed)>>
         \/ pc # "read" /\ Len(Queue) = Size - 1 /\ Queue' = <<>>
  BY <1>5, <1>6, InterruptEffect
<1>8. InHand' = a
  BY <1>3, <1>7 DEF InHand
<1>9. PICK n : n = Len(Queue)
  BY Zenon
<1>10. n \in Nat /\ Queue \in Seq(Byte)
  BY <1>9 DEF QueueFacts
<1>11. /\ fed = t + a + d + n
       /\ pc = "advance" => c = StreamByte(t)
       /\ pc # "advance" => g = 0
       /\ Sent(Queue, t + a + d)
  BY <1>1, <1>3, <1>9 DEF QueueAt
<1>12. CASE Queue' = Append(Queue, StreamByte(fed))
  <2>1. t + a + d \in Nat /\ fed = (t + a + d) + n
    BY <1>2, <1>4, <1>10, <1>11
  <2>2. Sent(Queue', t + a + d) /\ Len(Queue') = n + 1
    BY <1>5, <1>9, <1>10, <1>11, <1>12, <2>1, SentAppend, Zenon
  <2>3. fed' = t + a + d + Len(Queue') /\ ~(Len(Queue') < n)
    BY <1>2, <1>4, <1>10, <1>11, <2>2
  <2> QED
    BY <1>1, <1>7, <1>8, <1>9, <1>11, <2>2, <2>3 DEF QueueAt
<1>13. CASE pc = "read" /\ Len(Queue) = Size /\ Queue' = <<StreamByte(fed)>>
  <2>1. Len(Queue') = 1 /\ Queue'[1] = StreamByte(fed)
    BY <1>13
  <2>2. /\ g = 0 /\ fed = t + Size /\ (t + Size) + a + 0 * Size = fed
        /\ fed' = (t + Size) + a + 0 * Size + Len(Queue') /\ Len(Queue') < n
    BY <1>2, <1>4, <1>9, <1>10, <1>11, <1>13, <2>1
  <2>3. Sent(Queue', fed)
    BY <1>4, <2>1 DEF Sent
  <2> QED
    BY <1>7, <1>8, <1>9, <1>13, <2>2, <2>3 DEF QueueAt
<1>14. CASE pc # "read" /\ Len(Queue) = Size - 1 /\ Queue' = <<>>
  <2>1. Len(Queue') = 0 /\ \A s : Sent(Queue', s)
    BY <1>14 DEF Sent
  <2>2. CASE pc = "advance"
    <3>1. fed' = t + a + (g + 1) * Size + Len(Queue') /\ Len(Queue') < n
      BY <1>2, <1>4, <1>9, <1>10, <1>11, <1>14, <2>1, SMTT(30)
    <3> QED
      BY <1>7, <1>8, <1>9, <1>11, <2>1, <2>2, <3>1, SMTT(30) DEF QueueAt
  <2>3. CASE pc # "advance"
    <3>1. g = 0 /\ fed' = (t + Size) + a + 0 * Size + Len(Queue') /\ Len(Queue') < n
      BY <1>2, <1>4, <1>9, <1>10, <1>11, <1>14, <2>1, <2>3
    <3> QED
      BY <1>7, <1>8, <1>9, <2>1, <2>3, <3>1 DEF QueueAt
  <2> QED
    BY <2>2, <2>3
<1> QED
  BY <1>7, <1>12, <1>13, <1>14

\* The test of the loop changes neither the queue nor the byte in hand.
LEMMA QueueTest ==
    ASSUME TaskTypeInv, Test, fed' = fed, NEW t \in Nat, NEW g \in Nat, QueueAt(t, g)
    PROVE  QueueAt(t, g)'
<1>1. Queue' = Queue /\ c' = c
  BY TestAdvanceStutter DEF TaskTypeInv
<1>2. InHand' = InHand /\ pc # "advance" /\ pc' # "advance"
  BY DEF Test, InHand
<1> QED
  BY <1>1, <1>2 DEF QueueAt

\* Reading takes the next byte of the stream.
LEMMA QueueRead ==
    ASSUME TaskTypeInv, QueueFacts, QueueFacts', RingTypeOK', Read, fed' = fed,
           NEW t \in Nat, NEW g \in Nat, QueueAt(t, g)
    PROVE  QueueAt(t, g)'
<1>1. Queue # <<>> /\ c' = Head(Queue) /\ Queue' = Tail(Queue)
  BY ReadIsGet DEF TaskTypeInv, Fifo!Get
<1>2. InHand = 0 /\ InHand' = 1 /\ pc # "advance" /\ pc' = "advance" /\ g = 0 /\ 0 * Size = 0
  BY SizeAssumption DEF Read, InHand, QueueAt
<1>3. Queue \in Seq(Byte) /\ Len(Queue) \in Nat
  BY DEF QueueFacts
<1>4. Sent(Queue, t) /\ fed = t + Len(Queue)
  BY <1>2, <1>3 DEF QueueAt
<1>5. /\ c' = StreamByte(t)
      /\ Sent(Queue', t + 1)
      /\ Len(Queue') = Len(Queue) - 1
      /\ Len(Queue) >= 1
  BY <1>1, <1>3, <1>4, SentTail
<1>6. fed' = t + 1 + 0 * Size + Len(Queue') /\ t + 1 + 0 * Size = t + 1
  BY <1>2, <1>3, <1>4, <1>5
<1> QED
  BY <1>2, <1>5, <1>6 DEF QueueAt

\* Once the byte in hand is parsed, the queue is next.
LEMMA QueueAdvance ==
    ASSUME TaskTypeInv, QueueFacts, Advance, fed' = fed,
           NEW t \in Nat, NEW g \in Nat, QueueAt(t, g)
    PROVE  QueueAt(t + 1 + g * Size, 0)' /\ t < fed /\ c = StreamByte(t)
<1>1. Queue' = Queue
  BY TestAdvanceStutter DEF TaskTypeInv
<1>2. InHand = 1 /\ InHand' = 0 /\ pc = "advance" /\ pc' # "advance"
  BY DEF Advance, InHand
<1>3. PICK d : d = g * Size
  OBVIOUS
<1>4. d \in Nat /\ 0 * Size = 0 /\ Len(Queue) \in Nat
  BY <1>3, SizeAssumption DEF QueueFacts
<1>5. /\ fed = t + 1 + d + Len(Queue)
      /\ c = StreamByte(t)
      /\ Sent(Queue, t + 1 + d)
  BY <1>2, <1>3 DEF QueueAt
<1>6. fed = t + 1 + d + 0 + 0 * Size + Len(Queue) /\ t + 1 + d + 0 + 0 * Size = t + 1 + d /\ t < fed
  BY <1>4, <1>5
<1> QED
  BY <1>1, <1>2, <1>3, <1>5, <1>6 DEF QueueAt

-----------------------------------------------------------------------------
\* The invariant while the line has not failed.

\* j wipes fell into the line being received: before byte t it lacks j * Size
\* bytes.  Without a wipe it is right.
LineAt(ln, t, j) ==
    /\ \E u \in Nat : t = u * MsgLen + Len(ln) + j * Size
    /\ j = 0 => Whole(ln, t)

\* No number of wipes up to w takes whole messages.
NoSplice(w) == \A j \in 1 .. w : (j * Size) % MsgLen # 0

\* What holds of Serial_Task while the line has not failed.
CleanAt(t, g) ==
    /\ QueueAt(t, g)
    /\ \E j \in Nat : j + g <= wiped /\ LineAt(line, t, j)
    /\ NoSplice(wiped) /\ ~oob => PadFrom(pad, line, 0, t)
    /\ wiped = 0 => ~oob

\* The part of the inductive invariant for a line that has not failed.
Clean == hit = 0 => \E t, g \in Nat : CleanAt(t, g)

\* A wipe in the line shows in its length.
LEMMA GapShows ==
    ASSUME NEW ln \in Seq(Nibble), NEW t \in Nat, NEW j \in Nat, NEW w \in Nat,
           LineAt(ln, t, j), j >= 1, j <= w, NoSplice(w)
    PROVE  Len(ln) # Col(t)
<1> SUFFICES ASSUME Len(ln) = Col(t) PROVE FALSE
  OBVIOUS
<1>1. PICK d : d = j * Size
  OBVIOUS
<1>2. d \in Nat
  BY <1>1, SizeAssumption
<1>3. PICK u \in Nat : t = u * MsgLen + Col(t) + d
  BY <1>1 DEF LineAt
<1>4. d % MsgLen = 0
  BY <1>2, <1>3, GapWhole
<1> QED
  BY <1>1, <1>4 DEF NoSplice

\* So a line of the right length is right.
LEMMA LineNear ==
    ASSUME NEW ln \in Seq(Nibble), NEW t \in Nat, NEW j \in Nat, NEW w \in Nat,
           LineAt(ln, t, j), j <= w, NoSplice(w)
    PROVE  Near(ln, 0, t)
<1>1. CASE j = 0
  BY <1>1, WholeNear DEF LineAt
<1>2. CASE j >= 1
  BY <1>2, GapShows DEF Near
<1> QED
  BY <1>1, <1>2

\* One more wipe in front of the next byte.
LEMMA LineGap ==
    ASSUME NEW ln \in Seq(Nibble), NEW t \in Nat, NEW j \in Nat, LineAt(ln, t, j)
    PROVE  LineAt(ln, t + Size, j + 1)
<1>1. PICK d : d = j * Size
  OBVIOUS
<1>2. d \in Nat /\ (j + 1) * Size = d + Size /\ j + 1 # 0 /\ Size \in Nat /\ Len(ln) \in Nat
  BY <1>1, SizeAssumption
<1>3. PICK u \in Nat : t = u * MsgLen + Len(ln) + d
  BY <1>1 DEF LineAt
<1>4. t + Size = u * MsgLen + Len(ln) + (j + 1) * Size
  <2>1. PICK p \in Nat : p = u * MsgLen
    BY MsgLenType
  <2>2. t + Size = p + Len(ln) + (d + Size)
    BY <1>2, <1>3, <2>1
  <2> QED
    BY <1>2, <2>1, <2>2, Zenon
<1> QED
  BY <1>2, <1>4 DEF LineAt

\* A byte of the stream, with g wipes behind it: a line end forgets the
\* wipes before it.
LEMMA LineNext ==
    ASSUME NEW ln \in Seq(Nibble), NEW t \in Nat, t < Messages * MsgLen,
           NEW j \in Nat, NEW g \in Nat, LineAt(ln, t, j)
    PROVE  /\ LineAfter(ln, StreamByte(t)) \in Seq(Nibble)
           /\ \E i \in {g, j + g} : LineAt(LineAfter(ln, StreamByte(t)), t + 1 + g * Size, i)
<1>1. PICK d, e, w : d = j * Size /\ e = g * Size /\ w = MsgLen
  OBVIOUS
<1>2. /\ d \in Nat /\ e \in Nat /\ w \in Nat /\ (j + g) * Size = d + e
      /\ (g = 0 => e = 0) /\ Len(ln) \in Nat
  BY <1>1, SizeAssumption, MsgLenType
<1>3. CASE Col(t) = Digits
  <2>1. LineAfter(ln, StreamByte(t)) = <<>>
    BY <1>3, LineAfterStream
  <2>2. PICK u : u = Row(t) + 1
    OBVIOUS
  <2>3. Col(t + 1) = 0 /\ Row(t + 1) = u
    BY <1>3, <2>2, PosNext
  <2>4. t + 1 \in Nat
    OBVIOUS
  <2>5. u \in Nat /\ t + 1 = u * w + 0
    BY <1>1, <2>3, <2>4, PosType
  <2>6. t + 1 + e = u * w + Len(<<>>) + e
    <3>1. u * w \in Nat
      BY <1>2, <2>5
    <3> QED
      BY <1>2, <2>5, <3>1
  <2>7. g = 0 => Whole(<<>>, t + 1 + e)
    <3>1. g = 0 => t + 1 + e = t + 1
      BY <1>2
    <3> QED
      BY <1>3, <3>1, EmptyWhole
  <2>8. LineAt(<<>>, t + 1 + e, g)
    BY <1>1, <2>5, <2>6, <2>7 DEF LineAt
  <2> QED
    BY <1>1, <2>1, <2>8, EmptySeq
<1>4. CASE Col(t) # Digits
  <2>1. PICK v \in Nibble : LineAfter(ln, StreamByte(t)) = Append(ln, v)
    BY <1>4, LineAfterStream
  <2>2. Append(ln, v) \in Seq(Nibble) /\ Len(Append(ln, v)) = Len(ln) + 1
    BY AppendProperties
  <2>3. PICK u \in Nat : t = u * w + Len(ln) + d
    BY <1>1 DEF LineAt
  <2>4. t + 1 + e = u * w + Len(Append(ln, v)) + (j + g) * Size
    <3>1. u * w \in Nat
      BY <1>2
    <3> QED
      BY <1>2, <2>2, <2>3, <3>1
  <2>5. ASSUME j + g = 0 PROVE Whole(Append(ln, v), t + 1 + e)
    <3>1. j = 0 /\ t + 1 + e = t + 1
      BY <1>2, <2>5
    <3> QED
      BY <2>1, <3>1, WholeNext, Zenon DEF LineAt
  <2>6. LineAt(Append(ln, v), t + 1 + e, j + g)
    BY <1>1, <2>3, <2>4, <2>5 DEF LineAt
  <2> QED
    BY <1>1, <2>1, <2>2, <2>6
<1> QED
  BY <1>3, <1>4

\* The interrupt keeps CleanAt for some byte and number of wipes.
LEMMA CleanReceive ==
    ASSUME TaskTypeInv, QueueFacts, QueueFacts', RingTypeOK',
           fed < Messages * MsgLen, Interrupt(StreamByte(fed)), fed' = fed + 1,
           NEW t \in Nat, NEW g \in Nat, CleanAt(t, g)
    PROVE  \E t2, g2 \in Nat : CleanAt(t2, g2)'
<1> USE SizeAssumption
<1>1. /\ USART1_RX(StreamByte(fed)) /\ QueueAt(t, g)
      /\ line' = line /\ pad' = pad /\ oob' = oob
  BY DEF Interrupt, parserVars, CleanAt
<1>2. line \in Seq(Nibble) /\ wiped \in Nat /\ t + Size \in Nat /\ g + 1 \in Nat /\ 0 \in Nat
  BY DEF TaskTypeInv, ParserInv, ParserTypeOK
<1>3. wiped' = IF Len(Queue') < Len(Queue) THEN wiped + 1 ELSE wiped
  BY DEF Interrupt
<1>4. PICK j \in Nat : j + g <= wiped /\ LineAt(line, t, j)
  BY DEF CleanAt
<1>5. NoSplice(wiped + 1) => NoSplice(wiped)
  BY <1>2 DEF NoSplice
<1>6. NoSplice(wiped) /\ ~oob => PadFrom(pad, line, 0, t)
  BY DEF CleanAt
<1>7. CASE QueueAt(t, g)' /\ ~(Len(Queue') < Len(Queue))
  <2>1. wiped' = wiped
    BY <1>3, <1>7
  <2> QED
    BY <1>1, <1>7, <2>1 DEF CleanAt
<1>8. CASE QueueAt(t + Size, 0)' /\ Len(Queue') < Len(Queue) /\ g = 0
  <2>1. wiped' = wiped + 1 /\ wiped' # 0 /\ j + 1 <= wiped + 1 /\ (j + 1) + 0 <= wiped + 1 /\ j + 1 >= 1
        /\ j + 1 \in Nat /\ wiped + 1 \in Nat
    BY <1>2, <1>3, <1>4, <1>8
  <2>2. LineAt(line, t + Size, j + 1)
    BY <1>2, <1>4, LineGap
  <2>3. ASSUME NoSplice(wiped + 1), ~oob PROVE PadFrom(pad, line, 0, t + Size)
    <3>1. Len(line) # Col(t + Size)
      BY <1>2, <2>1, <2>2, <2>3, GapShows
    <3> QED
      BY <1>2, <1>5, <1>6, <2>3, <3>1, GapPad, SMTT(30)
  <2>4. \E i \in Nat : i + 0 <= wiped' /\ LineAt(line', t + Size, i)
    BY <1>1, <2>1, <2>2
  <2>5. NoSplice(wiped') /\ ~oob' => PadFrom(pad', line', 0, t + Size)
    BY <1>1, <2>1, <2>3
  <2>6. CleanAt(t + Size, 0)'
    BY <1>8, <2>1, <2>4, <2>5, Zenon DEF CleanAt
  <2> QED
    BY <1>2, <2>6, Zenon
<1>9. CASE QueueAt(t, g + 1)' /\ Len(Queue') < Len(Queue)
  <2>1. wiped' = wiped + 1 /\ wiped' # 0 /\ j + (g + 1) <= wiped + 1
    BY <1>2, <1>3, <1>4, <1>9
  <2>2. \E i \in Nat : i + (g + 1) <= wiped' /\ LineAt(line', t, i)
    BY <1>1, <1>4, <2>1
  <2>3. NoSplice(wiped') /\ ~oob' => PadFrom(pad', line', 0, t)
    BY <1>1, <1>5, <1>6, <2>1, Zenon
  <2>4. CleanAt(t, g + 1)'
    BY <1>9, <2>1, <2>2, <2>3, Zenon DEF CleanAt
  <2> QED
    BY <1>2, <2>4, Zenon
<1> QED
  BY <1>1, <1>7, <1>8, <1>9, QueueReceive, Zenon

\* Parsing the byte in hand keeps CleanAt: what is applied is a message,
\* and without a wipe no digit leaves b[].
LEMMA CleanProcess ==
    ASSUME TaskTypeInv, QueueFacts, Process, NEW t \in Nat, NEW g \in Nat, CleanAt(t, g)
    PROVE  \E t2, g2 \in Nat : CleanAt(t2, g2)'
<1> USE SizeAssumption
<1>1. Parse(c) /\ Advance /\ fed' = fed /\ wiped' = wiped
  BY DEF Process, histVars
<1>2. /\ line \in Seq(Nibble) /\ pad \in [Position -> Nibble] /\ wiped \in Nat
      /\ fed \in Nat /\ fed <= Messages * MsgLen /\ ParserInv
  BY DEF TaskTypeInv, ParserInv, ParserTypeOK
<1>3. PICK s : s = t + 1 + g * Size
  OBVIOUS
<1>4. QueueAt(s, 0)' /\ t < fed /\ c = StreamByte(t)
  BY <1>1, <1>3, QueueAdvance DEF CleanAt
<1>5. t < Messages * MsgLen
  <2>1. Messages * MsgLen \in Nat
    BY MessagesAssumption, MsgLenType, SMTT(30)
  <2> QED
    BY <1>2, <1>4, <2>1
<1>6. /\ line' = LineAfter(line, c)
      /\ ~oob' => ~oob /\ pad' = PadAfter(line, pad, c)
      /\ oob' /\ ~oob => Len(line) = Digits /\ c \notin {CR, LF}
  BY <1>1, <1>2, <1>4, <1>5, ParseEffect, StreamIsByte, Zenon
<1>7. PICK j \in Nat : j + g <= wiped /\ LineAt(line, t, j)
  BY DEF CleanAt
<1>8. PICK i \in {g, j + g} : LineAt(line', s, i)
  BY <1>3, <1>4, <1>5, <1>6, <1>2, <1>7, LineNext
<1>9. /\ i \in Nat /\ i + 0 <= wiped /\ i <= wiped /\ j <= wiped /\ line' \in Seq(Nibble)
      /\ s \in Nat /\ i >= g
  <2>1. line' \in Seq(Nibble)
    BY <1>4, <1>5, <1>6, <1>2, <1>7, LineNext
  <2>2. g * Size \in Nat
    OBVIOUS
  <2> QED
    BY <1>2, <1>3, <1>7, <1>8, <2>1, <2>2
<1>10. NoSplice(wiped') /\ ~oob' => PadFrom(pad', line', 0, s)
  <2> SUFFICES ASSUME NoSplice(wiped), ~oob' PROVE PadFrom(pad', line', 0, s)
    BY <1>1
  <2>1. PadFrom(pad, line, 0, t) /\ pad' = PadAfter(line, pad, c)
    BY <1>6, Zenon DEF CleanAt
  <2>2. Near(line, 0, t)
    BY <1>2, <1>7, <1>9, LineNear
  <2>3. PadFrom(pad', line', 0, t + 1)
    BY <1>2, <1>4, <1>5, <1>6, <2>1, <2>2, PadNext
  <2>4. PICK d \in Nat : d = g * Size
    OBVIOUS
  <2>5. s = (t + 1) + d
    BY <1>3, <2>4
  <2>6. d = 0 \/ Len(line') # Col(s)
    <3>1. CASE g = 0
      BY <2>4, <3>1
    <3>2. CASE g # 0
      <4>1. i >= 1
        BY <1>9, <3>2
      <4> QED
        BY <1>2, <1>8, <1>9, <4>1, GapShows
    <3> QED
      BY <3>1, <3>2
  <2>7. t + 1 \in Nat
    OBVIOUS
  <2> QED
    BY <1>9, <2>3, <2>5, <2>6, <2>7, GapPad, Zenon
<1>11. ASSUME wiped' = 0, oob' PROVE FALSE
  <2>1. j = 0 /\ ~oob
    <3>1. wiped = 0
      BY <1>1, <1>11
    <3>2. j = 0
      BY <1>7, <3>1
    <3> QED
      BY <3>1, <3>2 DEF CleanAt
  <2>2. Whole(line, t)
    BY <1>7, <2>1 DEF LineAt
  <2>3. Len(line) = Digits /\ c \notin {CR, LF}
    BY <1>6, <1>11, <2>1, Zenon
  <2>4. Col(t) = Digits
    BY <2>2, <2>3 DEF Whole
  <2> QED
    BY <1>4, <1>5, <2>3, <2>4, StreamDigit
<1>12. \E k \in Nat : k + 0 <= wiped' /\ LineAt(line', s, k)
  BY <1>1, <1>8, <1>9
<1>13. CleanAt(s, 0)'
  BY <1>4, <1>10, <1>11, <1>12, Zenon DEF CleanAt
<1> QED
  BY <1>9, <1>13, Zenon

\* Every step keeps Clean.
LEMMA CleanStep ==
    ASSUME TaskTypeInv, TaskTypeInv', Clean, [TaskNext]_taskVars
    PROVE  Clean'
<1> USE SizeAssumption
<1>1. QueueFacts /\ QueueFacts' /\ RingTypeOK'
  BY QueueIsSeq, PTL DEF TaskTypeInv
<1> SUFFICES ASSUME hit' = 0 PROVE \E t, g \in Nat : CleanAt(t, g)'
  BY DEF Clean
<1>2. CASE Receive
  <2>1. PICK t \in Nat, g \in Nat : CleanAt(t, g)
    BY <1>2 DEF Receive, Clean
  <2> QED
    BY <1>1, <1>2, <2>1, CleanReceive DEF Receive
<1>3. CASE ByteLost \/ ByteChanged \/ ByteInvented
  <2>1. Fails
    BY <1>3 DEF ByteLost, ByteChanged, ByteInvented
  <2>2. (fed \div MsgLen) + 1 \in Nat /\ (fed \div MsgLen) + 1 > 0
    <3>1. Row(fed) \in Nat
      BY PosRange DEF TaskTypeInv
    <3> QED
      BY <3>1 DEF Row
  <2> QED
    BY <2>1, <2>2 DEF Fails
<1>4. CASE TestLoop
  <2>1. PICK t \in Nat, g \in Nat : CleanAt(t, g)
    BY <1>4 DEF TestLoop, Clean, histVars
  <2>2. /\ Test /\ fed' = fed /\ line' = line /\ pad' = pad /\ oob' = oob /\ wiped' = wiped
    BY <1>4 DEF TestLoop, parserVars, histVars
  <2>3. QueueAt(t, g)'
    BY <2>1, <2>2, QueueTest DEF CleanAt
  <2> QED
    BY <2>1, <2>2, <2>3 DEF CleanAt
<1>5. CASE ReadByte
  <2>1. PICK t \in Nat, g \in Nat : CleanAt(t, g)
    BY <1>5 DEF ReadByte, Clean, histVars
  <2>2. /\ Read /\ fed' = fed /\ line' = line /\ pad' = pad /\ oob' = oob /\ wiped' = wiped
    BY <1>5 DEF ReadByte, parserVars, histVars
  <2>3. QueueAt(t, g)'
    BY <1>1, <2>1, <2>2, QueueRead DEF CleanAt
  <2> QED
    BY <2>1, <2>2, <2>3 DEF CleanAt
<1>6. CASE Process
  <2>1. PICK t \in Nat, g \in Nat : CleanAt(t, g)
    BY <1>6 DEF Process, Clean, histVars
  <2> QED
    BY <1>1, <1>6, <2>1, CleanProcess
<1>7. CASE UNCHANGED taskVars
  <2>1. PICK t \in Nat, g \in Nat : CleanAt(t, g)
    BY <1>7, SMTT(30) DEF taskVars, Clean, histVars
  <2>2. /\ Queue' = Queue /\ InHand' = InHand /\ pc' = pc /\ c' = c /\ fed' = fed
        /\ line' = line /\ pad' = pad /\ oob' = oob /\ wiped' = wiped
    BY <1>7 DEF taskVars, ringVars, parserVars, histVars, Queue, Count, First, Dist, Slot, Inc, InHand
  <2>3. QueueAt(t, g)'
    BY <2>1, <2>2 DEF CleanAt, QueueAt
  <2> QED
    BY <2>1, <2>2, <2>3 DEF CleanAt
<1> QED
  BY <1>2, <1>3, <1>4, <1>5, <1>6, <1>7 DEF TaskNext

-----------------------------------------------------------------------------
\* The invariant after the line has failed.

\* Byte k received when the line failed at byte f: e = 1 for a lost byte,
\* 0 for one changed to x, -1 for an invented x.
Rec(f, e, x, k) ==
    IF k < f THEN StreamByte(k)
    ELSE IF k = f /\ e <= 0 THEN x ELSE StreamByte(k + e)

\* The line and the controller state before received byte n: right up to
\* the failure, after it right but for what one byte can do.
FaultLine(ln, n, f, e, h) ==
    /\ n <= f => Whole(ln, n)
    /\ n > f => Near(ln, h, n + e)

FaultPad(pd, ln, n, f, e, h) ==
    /\ n <= f => PadFrom(pd, ln, h, n)
    /\ n > f => PadFrom(pd, ln, h, n + e)

\* The bytes still in hand or queued are of the stream.
InStream(n, f, e) ==
    /\ n < f => n < Messages * MsgLen
    /\ n > f \/ (n = f /\ e = 1) => n + e < Messages * MsgLen

\* Parsing received byte n, whatever the failure was.
LEMMA FaultNext ==
    ASSUME NEW ln \in Seq(Nibble), NEW n \in Nat, NEW f \in Nat, NEW e \in -1 .. 1,
           NEW x \in 0 .. 255, NEW ch, ch = Rec(f, e, x, n), NEW h \in Nat, h = Row(f) + 1,
           InStream(n, f, e), FaultLine(ln, n, f, e, h)
    PROVE  /\ FaultLine(LineAfter(ln, ch), n + 1, f, e, h)
           /\ \A pd \in [Position -> Nibble] :
                 FaultPad(pd, ln, n, f, e, h) =>
                    FaultPad(PadAfter(ln, pd, ch), LineAfter(ln, ch), n + 1, f, e, h)
<1>1. CASE n < f
  <2>1. ch = StreamByte(n) /\ n < Messages * MsgLen /\ n <= f /\ n + 1 <= f /\ ~(n + 1 > f)
    BY <1>1 DEF Rec, InStream
  <2>2. Whole(ln, n) /\ Near(ln, h, n)
    BY <2>1, WholeNear DEF FaultLine
  <2>3. Whole(LineAfter(ln, ch), n + 1)
    BY <2>1, <2>2, WholeNext, SMTT(30)
  <2>4. ASSUME NEW pd \in [Position -> Nibble], PadFrom(pd, ln, h, n)
        PROVE  PadFrom(PadAfter(ln, pd, ch), LineAfter(ln, ch), h, n + 1)
    BY <2>1, <2>2, <2>4, PadNext
  <2> QED
    BY <2>1, <2>3, <2>4, Zenon DEF FaultLine, FaultPad
<1>2. CASE n = f /\ e = 0
  <2>1. ch = x /\ n + 1 > f /\ ~(n + 1 <= f) /\ (n + 1) + e = f + 1 /\ n = f /\ n <= f
    BY <1>2 DEF Rec
  <2>2. Whole(ln, f)
    BY <2>1, SMTT(30) DEF FaultLine
  <2>3. Near(LineAfter(ln, ch), h, f + 1)
    BY <2>1, <2>2, ChangedByte, Zenon
  <2>4. ASSUME NEW pd \in [Position -> Nibble], PadFrom(pd, ln, h, f)
        PROVE  PadFrom(PadAfter(ln, pd, ch), LineAfter(ln, ch), h, f + 1)
    BY <2>1, <2>2, <2>4, ChangedByte, Zenon
  <2> QED
    BY <2>1, <2>3, <2>4, Zenon DEF FaultLine, FaultPad
<1>3. CASE n = f /\ e = -1
  <2>1. ch = x /\ n + 1 > f /\ ~(n + 1 <= f) /\ (n + 1) + e = f /\ n = f /\ n <= f
    BY <1>3 DEF Rec
  <2>2. Whole(ln, f)
    BY <2>1 DEF FaultLine
  <2>3. Near(LineAfter(ln, ch), h, f)
    BY <2>1, <2>2, InventedByte, Zenon
  <2>4. ASSUME NEW pd \in [Position -> Nibble], PadFrom(pd, ln, h, f)
        PROVE  PadFrom(PadAfter(ln, pd, ch), LineAfter(ln, ch), h, f)
    BY <2>1, <2>2, <2>4, InventedByte, Zenon
  <2> QED
    BY <2>1, <2>3, <2>4, Zenon DEF FaultLine, FaultPad
<1>4. CASE n = f /\ e = 1
  <2>1. /\ ch = StreamByte(f + 1) /\ n + 1 > f /\ ~(n + 1 <= f) /\ n = f /\ n <= f
        /\ (n + 1) + e = (f + 1) + 1 /\ f + 1 < Messages * MsgLen /\ f + 1 \in Nat
    BY <1>4 DEF Rec, InStream
  <2>2. Whole(ln, f)
    BY <2>1 DEF FaultLine
  <2>3. Near(ln, h, f + 1)
    BY <2>2, LostByte
  <2>4. Near(LineAfter(ln, ch), h, (f + 1) + 1)
    BY <2>1, <2>3, NearNext
  <2>5. ASSUME NEW pd \in [Position -> Nibble], PadFrom(pd, ln, h, f)
        PROVE  PadFrom(PadAfter(ln, pd, ch), LineAfter(ln, ch), h, (f + 1) + 1)
    <3>1. PadFrom(pd, ln, h, f + 1)
      BY <2>2, <2>5, LostByte
    <3> QED
      BY <2>1, <2>3, <3>1, PadNext
  <2> QED
    BY <2>1, <2>4, <2>5, Zenon DEF FaultLine, FaultPad
<1>5. CASE n > f
  <2>1. PICK t : t = n + e
    OBVIOUS
  <2>2. /\ t \in Nat /\ ch = StreamByte(t) /\ t < Messages * MsgLen
        /\ n + 1 > f /\ ~(n + 1 <= f) /\ (n + 1) + e = t + 1
    BY <1>5, <2>1 DEF Rec, InStream
  <2>3. Near(ln, h, t)
    BY <1>5, <2>1 DEF FaultLine
  <2>4. Near(LineAfter(ln, ch), h, t + 1)
    BY <2>2, <2>3, NearNext
  <2>5. ASSUME NEW pd \in [Position -> Nibble], PadFrom(pd, ln, h, t)
        PROVE  PadFrom(PadAfter(ln, pd, ch), LineAfter(ln, ch), h, t + 1)
    BY <2>2, <2>3, <2>5, PadNext
  <2> QED
    BY <1>5, <2>1, <2>2, <2>4, <2>5, Zenon DEF FaultLine, FaultPad
<1>6. \/ n < f
      \/ n = f /\ e = 0
      \/ n = f /\ e = -1
      \/ n = f /\ e = 1
      \/ n > f
  OBVIOUS
<1> QED
  BY <1>1, <1>2, <1>3, <1>4, <1>5, <1>6, Zenon

\* A line end that applies a line after a failure ends a message.
LEMMA FaultApplied ==
    ASSUME NEW ln \in Seq(Nibble), NEW pd, NEW n \in Nat, NEW f \in Nat, NEW e \in -1 .. 1,
           NEW x \in 0 .. 255, Rec(f, e, x, n) \in {CR, LF}, NEW h \in Nat,
           InStream(n, f, e), FaultLine(ln, n, f, e, h), FaultPad(pd, ln, n, f, e, h),
           Len(ln) = Digits
    PROVE  \E t \in Nat : Near(ln, h, t) /\ PadFrom(pd, ln, h, t) /\ Col(t) = Digits
<1>1. CASE n <= f
  <2>1. Whole(ln, n) /\ PadFrom(pd, ln, h, n)
    BY <1>1 DEF FaultLine, FaultPad
  <2> QED
    BY <2>1, WholeNear DEF Whole
<1>2. CASE n > f
  <2>1. PICK t : t = n + e
    OBVIOUS
  <2>2. t \in Nat /\ Rec(f, e, x, n) = StreamByte(t) /\ t < Messages * MsgLen
    BY <1>2, <2>1 DEF Rec, InStream
  <2>3. Near(ln, h, t) /\ PadFrom(pd, ln, h, t)
    BY <1>2, <2>1 DEF FaultLine, FaultPad
  <2>4. Col(t) = Digits
    BY <2>2, StreamDigit
  <2> QED
    BY <2>2, <2>3, <2>4
<1> QED
  BY <1>1, <1>2

\* The queue q holds the received bytes from number s on.
RecAt(q, f, e, x, s) == \A k \in 1 .. Len(q) : q[k] = Rec(f, e, x, s + (k - 1))

\* The queue and the byte in hand after a failure, no wipe before it.
FaultQueue(n, f, e, x) ==
    /\ fed = n + InHand + Len(Queue) + e
    /\ f < n + InHand + Len(Queue) \/ (f = n + InHand + Len(Queue) /\ e = 1)
    /\ pc = "advance" => c = Rec(f, e, x, n)
    /\ RecAt(Queue, f, e, x, n + InHand)

\* What holds of Serial_Task after the line has failed.
FaultAt(n, f, e, x) ==
    /\ hit = Row(f) + 1
    /\ FaultQueue(n, f, e, x)
    /\ FaultLine(line, n, f, e, hit)
    /\ ~oob => FaultPad(pad, line, n, f, e, hit)

\* The part of the inductive invariant for a line that has failed.
Fault ==
    hit # 0 /\ wiped = 0 => \E n, f \in Nat, e \in -1 .. 1, x \in Byte : FaultAt(n, f, e, x)

\* The next received byte prolongs such a queue.
LEMMA RecAppend ==
    ASSUME NEW q \in Seq(Byte), NEW s \in Nat, NEW ch \in Byte,
           NEW f, NEW e, NEW x, RecAt(q, f, e, x, s), ch = Rec(f, e, x, s + Len(q))
    PROVE  RecAt(Append(q, ch), f, e, x, s) /\ Len(Append(q, ch)) = Len(q) + 1
<1>1. /\ Len(Append(q, ch)) = Len(q) + 1
      /\ Append(q, ch)[Len(q) + 1] = ch
      /\ \A k \in 1 .. Len(q) : Append(q, ch)[k] = q[k]
  BY AppendProperties, SMTT(30)
<1>2. ASSUME NEW k \in 1 .. Len(q) + 1
      PROVE  Append(q, ch)[k] = Rec(f, e, x, s + (k - 1))
  <2>1. CASE k = Len(q) + 1
    <3>1. s + (k - 1) = s + Len(q)
      BY <2>1
    <3> QED
      BY <1>1, <2>1, <3>1
  <2>2. CASE k \in 1 .. Len(q)
    BY <1>1, <2>2 DEF RecAt
  <2> QED
    BY <2>1, <2>2
<1> QED
  BY <1>1, <1>2, SMTT(30) DEF RecAt

\* Taking a byte from such a queue.
LEMMA RecTail ==
    ASSUME NEW q \in Seq(Byte), NEW s \in Nat, NEW f, NEW e, NEW x,
           RecAt(q, f, e, x, s), q # <<>>
    PROVE  /\ Head(q) = Rec(f, e, x, s)
           /\ RecAt(Tail(q), f, e, x, s + 1)
           /\ Len(Tail(q)) = Len(q) - 1
           /\ Len(q) >= 1
<1>1. /\ Len(q) \in Nat /\ Len(q) >= 1 /\ Head(q) = q[1]
      /\ Len(Tail(q)) = Len(q) - 1
      /\ \A k \in 1 .. Len(q) - 1 : Tail(q)[k] = q[k + 1]
  BY HeadTailProperties, EmptySeq
<1>2. Head(q) = Rec(f, e, x, s)
  <2>1. 1 \in 1 .. Len(q) /\ s + (1 - 1) = s
    BY <1>1
  <2> QED
    BY <1>1, <2>1 DEF RecAt
<1>3. ASSUME NEW k \in 1 .. Len(q) - 1
      PROVE  Tail(q)[k] = Rec(f, e, x, (s + 1) + (k - 1))
  <2>1. k + 1 \in 1 .. Len(q) /\ s + ((k + 1) - 1) = (s + 1) + (k - 1)
    BY <1>1
  <2>2. q[k + 1] = Rec(f, e, x, s + ((k + 1) - 1))
    BY <2>1 DEF RecAt
  <2> QED
    BY <1>1, <2>1, <2>2
<1> QED
  BY <1>1, <1>2, <1>3 DEF RecAt

\* An interrupt that wipes nothing out appends its byte.
LEMMA NoWipe ==
    ASSUME TaskTypeInv, QueueFacts, QueueFacts', RingTypeOK',
           NEW ch \in Byte, Interrupt(ch), wiped' = 0
    PROVE  /\ wiped = 0 /\ Queue' = Append(Queue, ch)
           /\ pc' = pc /\ c' = c /\ InHand' = InHand
           /\ line' = line /\ pad' = pad /\ oob' = oob
<1>1. wiped \in Nat /\ RingTypeOK
  BY DEF TaskTypeInv
<1>2. ~(Len(Queue') < Len(Queue)) /\ wiped = 0
  BY <1>1 DEF Interrupt
<1>3. /\ pc' = pc /\ c' = c
      /\ \/ Len(Queue) <= Size - 1 /\ Queue' = Append(Queue, ch)
         \/ pc = "read" /\ Len(Queue) = Size /\ Queue' = <<ch>>
         \/ pc # "read" /\ Len(Queue) = Size - 1 /\ Queue' = <<>>
  BY <1>1, InterruptEffect DEF Interrupt
<1>4. Queue' = Append(Queue, ch)
  <2>1. ASSUME Len(Queue) = Size, Queue' = <<ch>> PROVE FALSE
    <3>1. Len(Queue') = 1
      BY <2>1
    <3> QED
      BY <1>2, <2>1, <3>1, SizeAssumption
  <2>2. ASSUME Len(Queue) = Size - 1, Queue' = <<>> PROVE FALSE
    <3>1. Len(Queue') = 0
      BY <2>2
    <3> QED
      BY <1>2, <2>2, <3>1, SizeAssumption
  <2> QED
    BY <1>3, <2>1, <2>2, Zenon
<1> QED
  BY <1>2, <1>3, <1>4 DEF Interrupt, parserVars, InHand

\* The interrupt after a failure.
LEMMA FaultReceive ==
    ASSUME TaskTypeInv, QueueFacts, QueueFacts', RingTypeOK',
           fed < Messages * MsgLen, Interrupt(StreamByte(fed)), fed' = fed + 1,
           hit' = hit, wiped' = 0,
           NEW n \in Nat, NEW f \in Nat, NEW e \in -1 .. 1, NEW x \in Byte,
           FaultAt(n, f, e, x)
    PROVE  FaultAt(n, f, e, x)'
<1>1. PICK ch : ch = StreamByte(fed)
  OBVIOUS
<1>2. ch \in Byte /\ fed \in Nat
  BY <1>1, StreamIsByte DEF TaskTypeInv
<1>3. /\ Queue' = Append(Queue, ch)
      /\ pc' = pc /\ c' = c /\ InHand' = InHand
      /\ line' = line /\ pad' = pad /\ oob' = oob
  BY <1>1, <1>2, NoWipe
<1>4. PICK s : s = n + InHand
  OBVIOUS
<1>5. s \in Nat /\ Queue \in Seq(Byte) /\ Len(Queue) \in Nat
  BY <1>4 DEF InHand, QueueFacts
<1>6. /\ fed = s + Len(Queue) + e
      /\ f < s + Len(Queue) \/ (f = s + Len(Queue) /\ e = 1)
      /\ RecAt(Queue, f, e, x, s)
      /\ pc = "advance" => c = Rec(f, e, x, n)
  BY <1>4 DEF FaultAt, FaultQueue
<1>7. ch = Rec(f, e, x, s + Len(Queue))
  BY <1>1, <1>5, <1>6 DEF Rec
<1>8. RecAt(Queue', f, e, x, s) /\ Len(Queue') = Len(Queue) + 1
  BY <1>2, <1>3, <1>5, <1>6, <1>7, RecAppend
<1>9. fed' = s + Len(Queue') + e /\ f < s + Len(Queue')
  BY <1>5, <1>6, <1>8
<1>10. FaultQueue(n, f, e, x)'
  BY <1>3, <1>4, <1>6, <1>8, <1>9 DEF FaultQueue
<1> QED
  BY <1>3, <1>10, Zenon DEF FaultAt

\* The test of the loop after a failure.
LEMMA FaultTest ==
    ASSUME TaskTypeInv, Test, fed' = fed,
           NEW n \in Nat, NEW f \in Nat, NEW e \in -1 .. 1, NEW x \in Byte,
           FaultQueue(n, f, e, x)
    PROVE  FaultQueue(n, f, e, x)'
<1>1. Queue' = Queue /\ c' = c
  BY TestAdvanceStutter DEF TaskTypeInv
<1>2. InHand' = InHand /\ pc # "advance" /\ pc' # "advance"
  BY DEF Test, InHand
<1> QED
  BY <1>1, <1>2 DEF FaultQueue

\* Reading a byte after a failure.
LEMMA FaultRead ==
    ASSUME TaskTypeInv, QueueFacts, QueueFacts', RingTypeOK', Read, fed' = fed,
           NEW n \in Nat, NEW f \in Nat, NEW e \in -1 .. 1, NEW x \in Byte,
           FaultQueue(n, f, e, x)
    PROVE  FaultQueue(n, f, e, x)'
<1>1. Queue # <<>> /\ c' = Head(Queue) /\ Queue' = Tail(Queue)
  BY ReadIsGet DEF TaskTypeInv, Fifo!Get
<1>2. InHand = 0 /\ InHand' = 1 /\ pc' = "advance"
  BY DEF Read, InHand
<1>3. Queue \in Seq(Byte) /\ Len(Queue) \in Nat
  BY DEF QueueFacts
<1>4. /\ RecAt(Queue, f, e, x, n) /\ fed = n + Len(Queue) + e
      /\ f < n + Len(Queue) \/ (f = n + Len(Queue) /\ e = 1)
  BY <1>2, <1>3 DEF FaultQueue
<1>5. /\ c' = Rec(f, e, x, n)
      /\ RecAt(Queue', f, e, x, n + 1)
      /\ Len(Queue') = Len(Queue) - 1
      /\ Len(Queue) >= 1
  BY <1>1, <1>3, <1>4, RecTail
<1>6. /\ fed' = n + 1 + Len(Queue') + e
      /\ f < n + 1 + Len(Queue') \/ (f = n + 1 + Len(Queue') /\ e = 1)
  BY <1>3, <1>4, <1>5
<1> QED
  BY <1>2, <1>5, <1>6 DEF FaultQueue

\* Parsed bytes leave the queue after a failure.
LEMMA FaultAdvance ==
    ASSUME TaskTypeInv, QueueFacts, Advance, fed' = fed,
           NEW n \in Nat, NEW f \in Nat, NEW e \in -1 .. 1, NEW x \in Byte,
           FaultQueue(n, f, e, x)
    PROVE  /\ FaultQueue(n + 1, f, e, x)'
           /\ InStream(n, f, e)
           /\ c = Rec(f, e, x, n)
<1>1. Queue' = Queue
  BY TestAdvanceStutter DEF TaskTypeInv
<1>2. InHand = 1 /\ InHand' = 0 /\ pc = "advance" /\ pc' # "advance"
  BY DEF Advance, InHand
<1>3. PICK q : q = Len(Queue)
  BY Zenon
<1>4. q \in Nat
  BY <1>3 DEF QueueFacts
<1>5. /\ RecAt(Queue, f, e, x, n + 1) /\ fed = n + 1 + q + e
      /\ f < n + 1 + q \/ (f = n + 1 + q /\ e = 1)
      /\ c = Rec(f, e, x, n)
  BY <1>2, <1>3 DEF FaultQueue
<1>6. /\ fed = (n + 1) + 0 + q + e /\ (n + 1) + 0 = n + 1
      /\ f < (n + 1) + 0 + q \/ (f = (n + 1) + 0 + q /\ e = 1)
  BY <1>4, <1>5
<1>7. InStream(n, f, e)
  <2>1. PICK z \in Nat : z = Messages * MsgLen
    BY MessagesAssumption, MsgLenType
  <2>2. fed <= z
    BY <2>1 DEF TaskTypeInv
  <2>3. n < f => n < z
    BY <1>4, <1>5, <2>2
  <2>4. n > f \/ (n = f /\ e = 1) => n + e < z
    BY <1>4, <1>5, <2>2
  <2> QED
    BY <2>1, <2>3, <2>4 DEF InStream
<1> QED
  BY <1>1, <1>2, <1>3, <1>5, <1>6, <1>7 DEF FaultQueue

\* Parsing the byte in hand after a failure.
LEMMA FaultProcess ==
    ASSUME TaskTypeInv, QueueFacts, Process,
           NEW n \in Nat, NEW f \in Nat, NEW e \in -1 .. 1, NEW x \in Byte,
           FaultAt(n, f, e, x)
    PROVE  FaultAt(n + 1, f, e, x)'
<1>1. Parse(c) /\ Advance /\ fed' = fed /\ hit' = hit
  BY DEF Process, histVars
<1>2. /\ line \in Seq(Nibble) /\ pad \in [Position -> Nibble] /\ ParserInv
      /\ hit \in Nat /\ x \in 0 .. 255 /\ c \in 0 .. 255
  BY ByteAssumption DEF TaskTypeInv, ParserInv, ParserTypeOK, RingTypeOK
<1>3. /\ FaultQueue(n + 1, f, e, x)' /\ InStream(n, f, e) /\ c = Rec(f, e, x, n)
  BY <1>1, FaultAdvance, SMTT(30) DEF FaultAt
<1>4. /\ line' = LineAfter(line, c)
      /\ ~oob' => ~oob /\ pad' = PadAfter(line, pad, c)
  BY <1>1, <1>2, ParseEffect, Zenon
<1>5. hit = Row(f) + 1 /\ FaultLine(line, n, f, e, hit)
  BY DEF FaultAt
<1>6. FaultLine(LineAfter(line, c), n + 1, f, e, hit)
  BY <1>2, <1>3, <1>5, FaultNext, ZenonT(40)
<1>7. FaultPad(pad, line, n, f, e, hit) =>
          FaultPad(PadAfter(line, pad, c), LineAfter(line, c), n + 1, f, e, hit)
  BY <1>2, <1>3, <1>5, FaultNext, Zenon
<1>8. ~oob' => FaultPad(pad', line', n + 1, f, e, hit)
  BY <1>4, <1>7, Zenon DEF FaultAt
<1> QED
  BY <1>1, <1>3, <1>4, <1>5, <1>6, <1>8, Zenon DEF FaultAt

\* What Clean says while nothing was wiped out.
LEMMA CleanView ==
    ASSUME TaskTypeInv, QueueFacts, Clean, hit = 0, wiped = 0
    PROVE  \E t \in Nat :
               /\ fed = t + InHand + Len(Queue)
               /\ pc = "advance" => c = StreamByte(t)
               /\ Sent(Queue, t + InHand)
               /\ Whole(line, t) /\ ~oob /\ PadFrom(pad, line, 0, t)
<1>1. PICK t \in Nat, g \in Nat : CleanAt(t, g)
  BY DEF Clean
<1>2. PICK j \in Nat : j + g <= 0 /\ LineAt(line, t, j)
  BY <1>1 DEF CleanAt
<1>3. j = 0 /\ g = 0 /\ 0 * Size = 0 /\ Len(Queue) \in Nat /\ InHand \in Nat
  BY <1>2, SizeAssumption DEF QueueFacts, InHand
<1>4. NoSplice(wiped)
  BY DEF NoSplice
<1>5. ~oob /\ PadFrom(pad, line, 0, t)
  BY <1>1, <1>4, Zenon DEF CleanAt
<1>6. Whole(line, t)
  BY <1>2, <1>3 DEF LineAt
<1>7. QueueAt(t, 0)
  BY <1>1, <1>3 DEF CleanAt
<1>8. /\ fed = t + InHand + Len(Queue)
      /\ pc = "advance" => c = StreamByte(t)
      /\ Sent(Queue, t + InHand)
  BY <1>3, <1>7 DEF QueueAt
<1> QED
  BY <1>5, <1>6, <1>8

\* A lost, changed or invented byte leads from Clean to FaultAt.
LEMMA FaultStart ==
    ASSUME TaskTypeInv, QueueFacts, QueueFacts', RingTypeOK', Clean, wiped' = 0,
           ByteLost \/ ByteChanged \/ ByteInvented
    PROVE  \E n, f \in Nat, e \in -1 .. 1, x \in Byte : FaultAt(n, f, e, x)'
<1>1. Fails
  BY DEF ByteLost, ByteChanged, ByteInvented
<1>2. hit = 0 /\ fed \in Nat /\ wiped \in Nat /\ line \in Seq(Nibble)
  BY <1>1 DEF Fails, TaskTypeInv, ParserInv, ParserTypeOK
<1>3. Row(fed) \in Nat
  BY <1>2, PosRange, Zenon
<1>4. hit' = Row(fed) + 1 /\ hit' \in Nat
  BY <1>1, <1>3 DEF Fails, Row
<1>5. PICK e \in -1 .. 1, x \in Byte :
          /\ wiped = 0 /\ pc' = pc /\ c' = c /\ InHand' = InHand
          /\ line' = line /\ pad' = pad /\ oob' = oob
          /\ \/ e = 1 /\ Queue' = Queue /\ fed' = fed + 1
             \/ e = 0 /\ Queue' = Append(Queue, x) /\ fed' = fed + 1
             \/ e = -1 /\ Queue' = Append(Queue, x) /\ fed' = fed
  <2>1. CASE ByteLost
    <3>1. /\ pc' = pc /\ c' = c /\ InHand' = InHand /\ Queue' = Queue
          /\ line' = line /\ pad' = pad /\ oob' = oob /\ wiped' = wiped /\ fed' = fed + 1
      BY <2>1 DEF ByteLost, ringVars, parserVars, InHand, Queue, Count, First, Dist, Slot, Inc
    <3>2. 1 \in -1 .. 1 /\ Zero \in Byte
      BY ZeroAssumption
    <3> QED
      BY <3>1, <3>2, Zenon
  <2>2. CASE ByteChanged
    <3>1. PICK x \in Byte : Interrupt(x) /\ fed' = fed + 1
      BY <2>2, ByteAssumption DEF ByteChanged
    <3>2. 0 \in -1 .. 1
      OBVIOUS
    <3> QED
      BY <3>1, <3>2, NoWipe, Zenon
  <2>3. CASE ByteInvented
    <3>1. PICK x \in Byte : Interrupt(x) /\ fed' = fed
      BY <2>3, ByteAssumption DEF ByteInvented
    <3>2. -1 \in -1 .. 1
      OBVIOUS
    <3> QED
      BY <3>1, <3>2, NoWipe, Zenon
  <2> QED
    BY <2>1, <2>2, <2>3
<1>6. PICK t \in Nat :
          /\ fed = t + InHand + Len(Queue)
          /\ pc = "advance" => c = StreamByte(t)
          /\ Sent(Queue, t + InHand)
          /\ Whole(line, t) /\ ~oob /\ PadFrom(pad, line, 0, t)
  BY <1>2, <1>5, CleanView
<1>7. PICK s, f : s = t + InHand /\ f = fed
  BY SMTT(30)
<1>8. /\ s \in Nat /\ s >= t /\ Queue \in Seq(Byte) /\ Len(Queue) \in Nat
      /\ f \in Nat /\ f = s + Len(Queue) /\ t <= f
      /\ pc = "advance" => s > t
  BY <1>2, <1>6, <1>7 DEF InHand, QueueFacts
<1>9. pc = "advance" => c = Rec(f, e, x, t)
  BY <1>6, <1>8 DEF Rec
<1>10. RecAt(Queue, f, e, x, s)
  <2> SUFFICES ASSUME NEW k \in 1 .. Len(Queue)
               PROVE  Queue[k] = Rec(f, e, x, s + (k - 1))
    BY DEF RecAt
  <2>1. Queue[k] = StreamByte(s + (k - 1)) /\ s + (k - 1) < f
    BY <1>6, <1>7, <1>8, SMTT(30) DEF Sent
  <2> QED
    BY <2>1 DEF Rec
<1>11. /\ RecAt(Queue', f, e, x, s)
       /\ fed' = s + Len(Queue') + e
       /\ f < s + Len(Queue') \/ (f = s + Len(Queue') /\ e = 1)
  <2>1. CASE e = 1 /\ Queue' = Queue /\ fed' = fed + 1
    BY <1>7, <1>8, <1>10, <2>1, Zenon
  <2>2. CASE e \in {0, -1} /\ Queue' = Append(Queue, x) /\ fed' = f + 1 + e
    <3>1. x = Rec(f, e, x, s + Len(Queue))
      BY <1>8, <2>2 DEF Rec
    <3>2. RecAt(Queue', f, e, x, s) /\ Len(Queue') = Len(Queue) + 1
      BY <1>8, <1>10, <2>2, <3>1, RecAppend
    <3> QED
      BY <1>8, <2>2, <3>2
  <2> QED
    BY <1>2, <1>5, <1>7, <1>8, <2>1, <2>2, SMTT(30)
<1>12. FaultQueue(t, f, e, x)'
  BY <1>5, <1>7, <1>9, <1>11, SMTT(30) DEF FaultQueue
<1>13. FaultLine(line', t, f, e, hit')
  BY <1>5, <1>6, <1>8 DEF FaultLine
<1>14. FaultPad(pad', line', t, f, e, hit')
  <2>1. PadFrom(pad, line, hit', t)
    BY <1>2, <1>4, <1>6, PadHit
  <2> QED
    BY <1>5, <1>8, <2>1, SMTT(30) DEF FaultPad
<1>15. FaultAt(t, f, e, x)'
  BY <1>4, <1>7, <1>12, <1>13, <1>14, Zenon DEF FaultAt
<1> QED
  BY <1>8, <1>15, Zenon

\* Every step keeps Fault.
LEMMA FaultStep ==
    ASSUME TaskTypeInv, TaskTypeInv', Clean, Fault, [TaskNext]_taskVars
    PROVE  Fault'
<1>1. QueueFacts /\ QueueFacts' /\ RingTypeOK' /\ wiped \in Nat
  BY QueueIsSeq, PTL DEF TaskTypeInv
<1> SUFFICES ASSUME hit' # 0, wiped' = 0
             PROVE  \E n, f \in Nat, e \in -1 .. 1, x \in Byte : FaultAt(n, f, e, x)'
  BY DEF Fault
<1>2. CASE ByteLost \/ ByteChanged \/ ByteInvented
  BY <1>1, <1>2, FaultStart
<1>3. CASE Receive
  <2>1. hit' = hit /\ wiped = 0
    BY <1>1, <1>3 DEF Receive, Interrupt
  <2>2. PICK n \in Nat, f \in Nat, e \in -1 .. 1, x \in Byte : FaultAt(n, f, e, x)
    BY <2>1 DEF Fault
  <2>3. FaultAt(n, f, e, x)'
    BY <1>1, <1>3, <2>1, <2>2, FaultReceive DEF Receive
  <2> QED
    BY <2>3
<1>4. CASE TestLoop
  <2>1. /\ Test /\ hit' = hit /\ wiped' = wiped /\ fed' = fed
        /\ line' = line /\ pad' = pad /\ oob' = oob
    BY <1>4 DEF TestLoop, histVars, parserVars
  <2>2. PICK n \in Nat, f \in Nat, e \in -1 .. 1, x \in Byte : FaultAt(n, f, e, x)
    BY <2>1 DEF Fault
  <2>3. FaultQueue(n, f, e, x)'
    BY <2>1, <2>2, FaultTest DEF FaultAt
  <2>4. FaultAt(n, f, e, x)'
    BY <2>1, <2>2, <2>3, Zenon DEF FaultAt
  <2> QED
    BY <2>4
<1>5. CASE ReadByte
  <2>1. /\ Read /\ hit' = hit /\ wiped' = wiped /\ fed' = fed
        /\ line' = line /\ pad' = pad /\ oob' = oob
    BY <1>5 DEF ReadByte, histVars, parserVars
  <2>2. PICK n \in Nat, f \in Nat, e \in -1 .. 1, x \in Byte : FaultAt(n, f, e, x)
    BY <2>1 DEF Fault
  <2>3. FaultQueue(n, f, e, x)'
    BY <1>1, <2>1, <2>2, FaultRead DEF FaultAt
  <2>4. FaultAt(n, f, e, x)'
    BY <2>1, <2>2, <2>3, Zenon DEF FaultAt
  <2> QED
    BY <2>4
<1>6. CASE Process
  <2>1. hit' = hit /\ wiped' = wiped
    BY <1>6 DEF Process, histVars
  <2>2. PICK n \in Nat, f \in Nat, e \in -1 .. 1, x \in Byte : FaultAt(n, f, e, x)
    BY <2>1 DEF Fault
  <2>3. FaultAt(n + 1, f, e, x)'
    BY <1>1, <1>6, <2>2, FaultProcess
  <2>4. n + 1 \in Nat
    BY SMTT(30)
  <2> QED
    BY <2>3, <2>4, Zenon
<1>7. CASE UNCHANGED taskVars
  <2>1. /\ Queue' = Queue /\ InHand' = InHand /\ pc' = pc /\ c' = c /\ fed' = fed
        /\ line' = line /\ pad' = pad /\ oob' = oob /\ wiped' = wiped /\ hit' = hit
    BY <1>7 DEF taskVars, ringVars, parserVars, histVars, Queue, Count, First, Dist, Slot, Inc, InHand
  <2>2. PICK n \in Nat, f \in Nat, e \in -1 .. 1, x \in Byte : FaultAt(n, f, e, x)
    BY <2>1 DEF Fault
  <2>3. FaultQueue(n, f, e, x)'
    BY <2>1, <2>2 DEF FaultAt, FaultQueue
  <2>4. FaultAt(n, f, e, x)'
    BY <2>1, <2>2, <2>3, Zenon DEF FaultAt
  <2> QED
    BY <2>4
<1> QED
  BY <1>2, <1>3, <1>4, <1>5, <1>6, <1>7 DEF TaskNext

-----------------------------------------------------------------------------
\* The inductive invariant and what follows from it.

\* The inductive invariant of Serial_Task with its interrupt.
TaskInv == TaskTypeInv /\ Clean /\ Fault

\* It holds initially.
LEMMA TaskInitInv ==
    ASSUME TaskInit
    PROVE  TaskInv
<1>1. Blank \in [Position -> Nibble] /\ \A k \in Position : Blank[k] = 0
  BY DEF Blank, Nibble
<1>2. /\ line = <<>> /\ line \in Seq(Nibble) /\ Len(line) = 0
      /\ pad = Blank /\ b = Blank /\ good = Blank /\ l = 0 /\ oob = FALSE
      /\ fed = 0 /\ wiped = 0 /\ hit = 0
  BY EmptySeq DEF TaskInit, ParserInit
<1>3. ParserInv
  BY ParserInitInv DEF TaskInit
<1>4. RingTypeOK
  BY SizeAssumption, ZeroAssumption DEF TaskInit, RingInit, RingTypeOK, Index
<1>5. TaskTypeInv
  <2>1. Messages * MsgLen \in Nat
    BY MessagesAssumption, MsgLenType
  <2>2. 0 <= Messages * MsgLen /\ 0 \in Nat
    BY <2>1
  <2> QED
    BY <1>2, <1>3, <1>4, <2>2, Zenon DEF TaskTypeInv
<1>6. Queue = <<>> /\ Len(Queue) = 0 /\ InHand = 0 /\ pc = "test"
  <2>1. QueueFacts /\ Count = 0
    BY <1>4, QueueIsSeq, SizeAssumption DEF TaskInit, RingInit, Count, Dist, First
  <2>2. Queue = <<>>
    BY <2>1, EmptySeq DEF QueueFacts
  <2> QED
    BY <2>1, <2>2 DEF QueueFacts, InHand, TaskInit, RingInit
<1>7. 0 * Size = 0 /\ 0 * MsgLen = 0
  BY SizeAssumption, MsgLenType
<1>8. QueueAt(0, 0)
  <2>1. Sent(Queue, 0)
    BY <1>6 DEF Sent
  <2> QED
    BY <1>2, <1>6, <1>7, <2>1 DEF QueueAt
<1>9. Row(0) = 0 /\ Col(0) = 0 /\ Row(1) \in Nat
  <2>1. 0 \in 0 .. Digits /\ 0 = 0 * MsgLen + 0 /\ 1 \in Nat
    BY <1>7, DigitsAssumption
  <2>2. Row(0 * MsgLen + 0) = 0 /\ Col(0 * MsgLen + 0) = 0
    BY <2>1, PosUnique
  <2> QED
    BY <2>1, <2>2, PosRange
<1>10. Whole(line, 0)
  BY <1>2, <1>9 DEF Whole
<1>11. LineAt(line, 0, 0)
  BY <1>2, <1>7, <1>10 DEF LineAt
<1>12. PadFrom(pad, line, 0, 0)
  <2>1. PadNear(pad, 0, 0)
    BY <1>1, <1>2 DEF PadNear
  <2> QED
    BY <1>9, <2>1 DEF PadFrom
<1>13. CleanAt(0, 0)
  <2>1. 0 + 0 <= wiped /\ 0 \in Nat
    BY <1>2
  <2> QED
    BY <1>2, <1>8, <1>11, <1>12, <2>1, Zenon DEF CleanAt
<1>14. Clean /\ Fault
  BY <1>2, <1>13 DEF Clean, Fault
<1> QED
  BY <1>5, <1>14 DEF TaskInv

\* Every step keeps the types.
LEMMA TaskTypeStep ==
    ASSUME TaskTypeInv, [TaskNext]_taskVars
    PROVE  TaskTypeInv'
<1>1. RingTypeOK /\ ParserInv /\ fed \in Nat /\ wiped \in Nat /\ hit \in Nat
  BY DEF TaskTypeInv
<1>2. PICK z \in Nat : z = Messages * MsgLen
  BY MessagesAssumption, MsgLenType
<1>3. fed <= z
  BY <1>2 DEF TaskTypeInv
<1>4. ASSUME NEW ch \in Byte, Interrupt(ch) PROVE RingTypeOK' /\ wiped' \in Nat
  <2>1. RingTypeOK'
    BY <1>1, <1>4, SizeAssumption, SMTT(30) DEF Interrupt, USART1_RX, RingTypeOK, Index, Inc
  <2> QED
    BY <1>1, <1>4, <2>1 DEF Interrupt
<1>5. ASSUME UNCHANGED parserVars PROVE ParserInv'
  BY <1>1, <1>5 DEF parserVars, ParserInv, ParserTypeOK, PadIsLastGoodLine, LineStored
<1>6. ASSUME Fails PROVE hit' \in Nat /\ fed < z
  <2>1. Row(fed) \in Nat
    BY <1>1, PosRange
  <2> QED
    BY <1>2, <1>6, <2>1 DEF Fails, Row
<1>7. CASE Receive
  <2>1. StreamByte(fed) \in Byte /\ fed < z /\ fed' = fed + 1 /\ hit' = hit
    BY <1>1, <1>2, <1>7, StreamIsByte DEF Receive
  <2>2. RingTypeOK' /\ wiped' \in Nat /\ ParserInv'
    BY <1>4, <1>5, <1>7, <2>1 DEF Receive, Interrupt
  <2>3. fed' \in Nat /\ fed' <= z
    BY <1>1, <2>1
  <2> QED
    BY <1>1, <1>2, <2>1, <2>2, <2>3 DEF TaskTypeInv
<1>8. CASE ByteLost
  <2>1. fed < z /\ fed' = fed + 1 /\ hit' \in Nat /\ wiped' = wiped
    BY <1>6, <1>8 DEF ByteLost
  <2>2. RingTypeOK'
    BY <1>1, <1>8 DEF ByteLost, ringVars, RingTypeOK
  <2>3. ParserInv'
    BY <1>5, <1>8 DEF ByteLost
  <2>4. fed' \in Nat /\ fed' <= z
    BY <1>1, <2>1
  <2> QED
    BY <1>1, <1>2, <2>1, <2>2, <2>3, <2>4 DEF TaskTypeInv
<1>9. CASE ByteChanged
  <2>1. fed < z /\ fed' = fed + 1 /\ hit' \in Nat
    BY <1>6, <1>9 DEF ByteChanged
  <2>2. PICK ch \in Byte : Interrupt(ch)
    BY <1>9, ByteAssumption DEF ByteChanged
  <2>3. RingTypeOK' /\ wiped' \in Nat /\ ParserInv'
    BY <1>4, <1>5, <2>2 DEF Interrupt
  <2>4. fed' \in Nat /\ fed' <= z
    BY <1>1, <2>1
  <2> QED
    BY <1>2, <2>1, <2>3, <2>4 DEF TaskTypeInv
<1>10. CASE ByteInvented
  <2>1. fed' = fed /\ hit' \in Nat
    BY <1>6, <1>10 DEF ByteInvented
  <2>2. PICK ch \in Byte : Interrupt(ch)
    BY <1>10, ByteAssumption, SMTT(30) DEF ByteInvented
  <2>3. RingTypeOK' /\ wiped' \in Nat /\ ParserInv'
    BY <1>4, <1>5, <2>2 DEF Interrupt
  <2> QED
    BY <1>1, <1>2, <1>3, <2>1, <2>3 DEF TaskTypeInv
<1>11. CASE TestLoop \/ ReadByte
  <2>1. fed' = fed /\ hit' = hit /\ wiped' = wiped /\ UNCHANGED parserVars
    BY <1>11 DEF TestLoop, ReadByte, histVars
  <2>2. RingTypeOK'
    BY <1>1, <1>11 DEF TestLoop, ReadByte, Test, Read, RingTypeOK
  <2> QED
    BY <1>1, <1>2, <1>3, <1>5, <2>1, <2>2, SMTT(30) DEF TaskTypeInv
<1>12. CASE Process
  <2>1. fed' = fed /\ hit' = hit /\ wiped' = wiped /\ Parse(c) /\ Advance
    BY <1>12 DEF Process, histVars
  <2>2. RingTypeOK'
    BY <1>1, <2>1, SizeAssumption DEF Advance, RingTypeOK, Index, Inc
  <2>3. c \in 0 .. 255
    BY <1>1, ByteAssumption, SMTT(30) DEF RingTypeOK
  <2>4. ParserInv'
    BY <1>1, <2>1, <2>3, ParseEffect, Zenon
  <2> QED
    BY <1>1, <1>2, <1>3, <2>1, <2>2, <2>4 DEF TaskTypeInv
<1>13. CASE UNCHANGED taskVars
  <2>1. fed' = fed /\ hit' = hit /\ wiped' = wiped /\ UNCHANGED parserVars /\ UNCHANGED ringVars
    BY <1>13 DEF taskVars, histVars
  <2>2. RingTypeOK'
    BY <1>1, <2>1 DEF ringVars, RingTypeOK
  <2> QED
    BY <1>1, <1>2, <1>3, <1>5, <2>1, <2>2 DEF TaskTypeInv
<1> QED
  BY <1>7, <1>8, <1>9, <1>10, <1>11, <1>12, <1>13 DEF TaskNext

\* The inductive invariant holds in every reachable state, whatever the
\* interleaving of the interrupt with Serial_Task, the overruns and the one
\* failure of the line.
THEOREM TaskInvariance == TaskSpec => []TaskInv
<1>1. TaskInit => TaskInv
  BY TaskInitInv
<1>2. TaskInv /\ [TaskNext]_taskVars => TaskInv'
  BY TaskTypeStep, CleanStep, FaultStep DEF TaskInv
<1> QED
  BY <1>1, <1>2, PTL DEF TaskSpec

\* The controller state is a message of the bytes received so far.
LEMMA AppliedView ==
    ASSUME TaskInv, SpliceFree, ~oob
    PROVE  \E t \in Nat : t <= fed /\ PadFrom(pad, line, hit, t)
<1>1. QueueFacts /\ hit \in Nat /\ wiped \in Nat
  BY QueueIsSeq DEF TaskInv, TaskTypeInv
<1>2. PICK a, q : a = InHand /\ q = Len(Queue)
  BY Zenon
<1>3. a \in Nat /\ q \in Nat
  BY <1>1, <1>2 DEF InHand, QueueFacts
<1>4. CASE hit = 0
  <2>1. PICK t \in Nat, g \in Nat : CleanAt(t, g)
    BY <1>4 DEF TaskInv, Clean
  <2>2. NoSplice(wiped)
    BY DEF SpliceFree, NoSplice
  <2>3. PICK d \in Nat : d = g * Size
    BY SizeAssumption
  <2>4. fed = t + a + d + q
    BY <1>2, <2>1, <2>3 DEF CleanAt, QueueAt
  <2>5. t <= fed
    BY <1>3, <2>3, <2>4
  <2>6. PadFrom(pad, line, hit, t)
    BY <1>4, <2>1, <2>2, Zenon DEF CleanAt
  <2> QED
    BY <2>5, <2>6
<1>5. CASE hit # 0
  <2>1. wiped = 0
    BY <1>5 DEF SpliceFree
  <2>2. PICK n \in Nat, f \in Nat, e \in -1 .. 1, x \in Byte : FaultAt(n, f, e, x)
    BY <1>5, <2>1 DEF TaskInv, Fault
  <2>3. FaultPad(pad, line, n, f, e, hit)
    BY <2>2, Zenon DEF FaultAt
  <2>4. fed = n + a + q + e /\ (f < n + a + q \/ (f = n + a + q /\ e = 1))
    BY <1>2, <2>2 DEF FaultAt, FaultQueue
  <2>5. CASE n <= f
    <3>1. n <= fed
      BY <1>3, <2>4, <2>5
    <3> QED
      BY <2>3, <2>5, <3>1 DEF FaultPad
  <2>6. CASE n > f
    <3>1. n + e \in Nat /\ n + e <= fed
      BY <1>3, <2>4, <2>6
    <3> QED
      BY <2>3, <2>6, <3>1 DEF FaultPad
  <2> QED
    BY <2>5, <2>6
<1> QED
  BY <1>4, <1>5

\* For every size of buffer[] and of a message: the controller state
\* Serial_Task reports is blank or one message of the host, never digits of
\* two, whatever the buffer loses; a failing line costs it at most one digit.
THEOREM AppliedCorrect == TaskSpec => []AppliedWasSent
<1>1. TaskInv => AppliedWasSent
  <2> SUFFICES ASSUME TaskInv, SpliceFree, ~oob
               PROVE  \E m \in 0 .. (fed + 1) \div MsgLen, i \in Position :
                          \A k \in Position : pad[k] = m \/ (k = i /\ m = hit /\ m > 0)
    BY DEF AppliedWasSent
  <2>1. PICK t \in Nat : t <= fed /\ PadFrom(pad, line, hit, t)
    BY AppliedView
  <2>2. PICK m \in Nat : PadNear(pad, hit, m) /\ m <= Row(t + 1)
    BY <2>1 DEF PadFrom
  <2>3. t + 1 \in Nat /\ fed + 1 \in Nat /\ t + 1 <= fed + 1
    BY <2>1 DEF TaskInv, TaskTypeInv
  <2>4. Row(t + 1) <= Row(fed + 1) /\ Row(t + 1) \in Nat /\ Row(fed + 1) \in Nat
    BY <2>3, PosMono, PosRange, Zenon
  <2>5. m \in 0 .. Row(fed + 1)
    BY <2>2, <2>4
  <2>6. m \in 0 .. (fed + 1) \div MsgLen
    BY <2>5 DEF Row
  <2>7. PICK i \in Int : \A k \in Position : pad[k] = m \/ (k = i /\ m = hit /\ m > 0)
    BY <2>2 DEF PadNear
  <2>8. PICK p \in Position : i \in Position => p = i
    <3>1. 0 \in Position
      BY DigitsAssumption DEF Position
    <3> QED
      BY <3>1
  <2>9. \A k \in Position : pad[k] = m \/ (k = p /\ m = hit /\ m > 0)
    BY <2>7, <2>8
  <2> QED
    BY <2>6, <2>9
<1> QED
  BY <1>1, TaskInvariance, PTL

\* While the buffer has not overrun and the line has not failed,
\* Serial_Task stays inside b[] (Joystick.c:88).
THEOREM NoOverflowCorrect == TaskSpec => []NoOverrunNoOverflow
<1>1. TaskInv => NoOverrunNoOverflow
  BY Zenon DEF TaskInv, Clean, CleanAt, NoOverrunNoOverflow
<1> QED
  BY <1>1, TaskInvariance, PTL

\* A parsed byte never brings an older message back.
LEMMA ProcessInOrder ==
    ASSUME TaskInv, Process, SpliceFree, ~oob'
    PROVE  \E j \in Position : \A k \in Position : k # j \/ hit = 0 => pad'[k] >= pad[k]
<1>1. /\ QueueFacts /\ hit \in Nat /\ wiped \in Nat /\ fed \in Nat /\ fed <= Messages * MsgLen
      /\ line \in Seq(Nibble) /\ pad \in [Position -> Nibble] /\ ParserInv
      /\ c \in 0 .. 255 /\ TaskTypeInv
  BY QueueIsSeq, ByteAssumption
     DEF TaskInv, TaskTypeInv, ParserInv, ParserTypeOK, RingTypeOK
<1>2. Parse(c) /\ Advance /\ fed' = fed
  BY DEF Process
<1>3. ~oob /\ pad' = PadAfter(line, pad, c)
  BY <1>1, <1>2, ParseEffect, Zenon
<1>4. CASE ~(c \in {CR, LF} /\ Len(line) = Digits)
  <2>1. pad' = pad
    BY <1>3, <1>4 DEF PadAfter
  <2>2. \A k \in Position : pad[k] \in Nat
    BY <1>1, SMTT(30) DEF Nibble
  <2>3. 0 \in Position
    BY DigitsAssumption DEF Position
  <2> QED
    BY <2>1, <2>2, <2>3
<1>5. CASE c \in {CR, LF} /\ Len(line) = Digits
  <2>1. PICK t \in Nat : Near(line, hit, t) /\ PadFrom(pad, line, hit, t) /\ Col(t) = Digits
    <3>1. CASE hit = 0
      <4>1. PICK t \in Nat, g \in Nat : CleanAt(t, g)
        BY <3>1, SMTT(30) DEF TaskInv, Clean
      <4>2. t < fed /\ c = StreamByte(t)
        BY <1>1, <1>2, <4>1, QueueAdvance DEF CleanAt
      <4>3. t < Messages * MsgLen
        <5>1. Messages * MsgLen \in Nat
          BY MessagesAssumption, MsgLenType
        <5> QED
          BY <1>1, <4>2, <5>1
      <4>4. Col(t) = Digits
        BY <1>5, <4>2, <4>3, StreamDigit
      <4>5. NoSplice(wiped)
        BY DEF SpliceFree, NoSplice
      <4>6. PadFrom(pad, line, 0, t)
        BY <1>3, <4>1, <4>5, Zenon DEF CleanAt
      <4>7. PICK j \in Nat : j + g <= wiped /\ LineAt(line, t, j)
        BY <4>1 DEF CleanAt
      <4>8. j <= wiped
        BY <1>1, <4>7
      <4>9. Near(line, 0, t)
        BY <1>1, <4>5, <4>7, <4>8, LineNear
      <4> QED
        BY <3>1, <4>4, <4>6, <4>9
    <3>2. CASE hit # 0
      <4>1. wiped = 0
        BY <3>2 DEF SpliceFree
      <4>2. PICK n \in Nat, f \in Nat, e \in -1 .. 1, x \in Byte : FaultAt(n, f, e, x)
        BY <3>2, <4>1, SMTT(30) DEF TaskInv, Fault
      <4>3. InStream(n, f, e) /\ c = Rec(f, e, x, n)
        BY <1>1, <1>2, <4>2, FaultAdvance DEF FaultAt
      <4>4. FaultLine(line, n, f, e, hit) /\ FaultPad(pad, line, n, f, e, hit)
        BY <1>3, <4>2, Zenon DEF FaultAt
      <4>5. x \in 0 .. 255
        BY ByteAssumption
      <4>6. Rec(f, e, x, n) \in {CR, LF} /\ Len(line) = Digits
        BY <1>5, <4>3
      <4>7. PICK ln, pd, h : ln = line /\ pd = pad /\ h = hit
        OBVIOUS
      <4>8. ln \in Seq(Nibble) /\ h \in Nat /\ Len(ln) = Digits
        BY <1>1, <4>6, <4>7
      <4>9. FaultLine(ln, n, f, e, h) /\ FaultPad(pd, ln, n, f, e, h)
        BY <4>4, <4>7, SMTT(30)
      <4>10. \E t \in Nat : Near(ln, h, t) /\ PadFrom(pd, ln, h, t) /\ Col(t) = Digits
        BY <4>3, <4>5, <4>6, <4>8, <4>9, FaultApplied, Zenon
      <4> QED
        BY <4>7, <4>10
    <3> QED
      BY <3>1, <3>2
  <2>2. PICK j \in Position : \A k \in Position : k # j \/ hit = 0 => line[k + 1] >= pad[k]
    BY <1>1, <1>5, <2>1, InOrder, SMTT(30)
  <2>3. \A k \in Position : pad'[k] = line[k + 1]
    BY <1>3, <1>5 DEF PadAfter
  <2> QED
    BY <2>2, <2>3, SMTT(30)
<1> QED
  BY <1>4, <1>5, SMTT(30)

\* Serial_Task applies states in the order the host sent them, for every
\* size of buffer[] and of a message, across overruns and a failing line.
THEOREM InOrderCorrect == TaskSpec => AppliedInOrder
<1>1. TaskInv /\ [TaskNext]_taskVars =>
        [ (SpliceFree /\ ~oob)' =>
            \E j \in Position : \A k \in Position :
                k # j \/ hit = 0 => pad'[k] >= pad[k] ]_taskVars
  <2> SUFFICES ASSUME TaskInv, TaskNext, SpliceFree', ~oob'
               PROVE  \E j \in Position : \A k \in Position :
                         k # j \/ hit = 0 => pad'[k] >= pad[k]
    OBVIOUS
  <2>1. CASE Process
    <3>1. SpliceFree
      BY <2>1 DEF Process, histVars, SpliceFree
    <3> QED
      BY <2>1, <3>1, ProcessInOrder
  <2>2. CASE ~Process
    <3>1. pad' = pad
      BY <2>2 DEF TaskNext, Receive, ByteLost, ByteChanged, ByteInvented, Interrupt,
                  TestLoop, ReadByte, parserVars
    <3>2. \A k \in Position : pad[k] \in Nat
      BY SMTT(30) DEF TaskInv, TaskTypeInv, ParserInv, ParserTypeOK, Nibble
    <3>3. 0 \in Position
      BY DigitsAssumption DEF Position
    <3> QED
      BY <3>1, <3>2, <3>3, SMTT(30)
  <2> QED
    BY <2>1, <2>2
<1> QED
  BY <1>1, TaskInvariance, PTL DEF TaskSpec, AppliedInOrder

\* Inside Serial_Task too, the circular buffer implements the byte queue.
THEOREM TaskImplementsFifo == TaskSpec => RingIsFifo
<1>1. TaskInit => RingInit
  BY DEF TaskInit
<1>2. TaskInv /\ [TaskNext]_taskVars => [RingNext]_ringVars
  <2> SUFFICES ASSUME TaskInv, TaskNext PROVE RingNext \/ UNCHANGED ringVars
    BY DEF taskVars
  <2>1. CASE Receive
    <3>1. StreamByte(fed) \in Byte
      BY <2>1, StreamIsByte DEF Receive, TaskInv, TaskTypeInv
    <3> QED
      BY <2>1, <3>1 DEF Receive, Interrupt, RingNext
  <2>2. CASE ByteLost
    BY <2>2 DEF ByteLost
  <2>3. CASE ByteChanged \/ ByteInvented
    BY <2>3, ByteAssumption DEF ByteChanged, ByteInvented, Interrupt, RingNext
  <2>4. CASE TestLoop \/ ReadByte \/ Process
    BY <2>4 DEF TestLoop, ReadByte, Process, RingNext
  <2> QED
    BY <2>1, <2>2, <2>3, <2>4 DEF TaskNext
<1>3. TaskSpec => RingSpec
  BY <1>1, <1>2, TaskInvariance, PTL DEF TaskSpec, RingSpec
<1> QED
  BY <1>3, RingImplementsFifo, PTL

\* Fed by the circular buffer, the parser applies exactly the lines of
\* Digits digits as long as it stays inside b[].
THEOREM TaskPadCorrect == TaskSpec => [](ParserInv /\ PadIsLastGoodLine)
<1>1. TaskInv => ParserInv /\ PadIsLastGoodLine
  BY DEF TaskInv, TaskTypeInv, ParserInv
<1> QED
  BY <1>1, TaskInvariance, PTL

=============================================================================
