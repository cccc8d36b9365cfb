----------------------------- MODULE SerialTask -----------------------------
(***************************************************************************)
(* Serial_Task with the receive interrupt: the circular buffer             *)
(* (SerialRing) feeds the line parser (LineParser), and the host sends     *)
(* state messages the way bridge.py encodes them, without waiting.  The    *)
(* firmware may fall behind by any amount, so the buffer may overrun at    *)
(* any byte.  Once in a run the line itself may fail: a byte is lost,      *)
(* changed or invented.                                                    *)
(*                                                                         *)
(* Message number m carries the digit m in every place: a state put        *)
(* together from the digits of two messages shows.                         *)
(***************************************************************************)
EXTENDS SerialRing, LineParser

CONSTANTS Messages,  \* bound: messages the host sends, at most 15
          Noise      \* the bytes a failing line may deliver

ASSUME MessagesAssumption == Messages \in 1 .. 15

VARIABLES fed,      \* bytes of the stream received so far
          wiped,    \* history: interrupts that wiped out the queue
          wipedAt,  \* history: the byte received by the last of them
          hit       \* history: the message in which the line failed, or 0

histVars == <<wiped, wipedAt, hit>>
taskVars == <<ringVars, parserVars, fed, histVars>>

\* binascii.hexlify writes lower-case digits.
HexChar(v) == IF v < 10 THEN 48 + v ELSE 87 + v

MsgLen == Digits + 1

StreamByte(k) ==
    IF k % MsgLen = Digits THEN LF ELSE HexChar((k \div MsgLen) + 1)

ASSUME ByteAssumption ==
    /\ Byte \subseteq 0 .. 255
    /\ Noise \subseteq Byte
    /\ \A k \in 0 .. Messages * MsgLen - 1 : StreamByte(k) \in Byte

TaskInit ==
    /\ RingInit
    /\ ParserInit
    /\ fed = 0
    /\ wiped = 0
    /\ wipedAt = -1
    /\ hit = 0

\* The interrupt takes byte ch; what it does to the queue is recorded.
Interrupt(ch) ==
    /\ USART1_RX(ch)
    /\ IF Len(Queue') < Len(Queue)
       THEN wiped' = wiped + 1 /\ wipedAt' = fed
       ELSE UNCHANGED <<wiped, wipedAt>>
    /\ UNCHANGED parserVars

Receive ==
    /\ fed < Messages * MsgLen
    /\ Interrupt(StreamByte(fed))
    /\ fed' = fed + 1
    /\ UNCHANGED hit

\* The line fails once, at any byte of any message.
Fails ==
    /\ fed < Messages * MsgLen
    /\ hit = 0
    /\ hit' = (fed \div MsgLen) + 1

ByteLost ==
    /\ Fails
    /\ fed' = fed + 1
    /\ UNCHANGED <<ringVars, parserVars, wiped, wipedAt>>

ByteChanged ==
    /\ Fails
    /\ \E ch \in Noise \ {StreamByte(fed)} : Interrupt(ch)
    /\ fed' = fed + 1

ByteInvented ==
    /\ Fails
    /\ \E ch \in Noise : Interrupt(ch)
    /\ UNCHANGED fed

\* The rest of the loop body: parse c, then buffer_tail++.
Process ==
    /\ Parse(c)
    /\ Advance
    /\ UNCHANGED <<fed, histVars>>

TestLoop == Test /\ UNCHANGED <<parserVars, fed, histVars>>
ReadByte == Read /\ UNCHANGED <<parserVars, fed, histVars>>

TaskNext ==
    \/ Receive
    \/ ByteLost \/ ByteChanged \/ ByteInvented
    \/ TestLoop \/ ReadByte \/ Process

\* Bytes on the wire arrive, and main calls Serial_Task again and again.
TaskFairness ==
    /\ WF_taskVars(Receive)
    /\ WF_taskVars(TestLoop)
    /\ WF_taskVars(ReadByte)
    /\ WF_taskVars(Process)

TaskSpec == TaskInit /\ [][TaskNext]_taskVars /\ TaskFairness

-----------------------------------------------------------------------------

\* Each wipe takes Size bytes out of the stream.  While no number of wipes so
\* far adds up to whole messages, the line around the gap has the wrong
\* length.  With 256 bytes and messages of 15 that takes 15 wipes.  A byte
\* lost or invented by the line may make up for what a wipe is short of, so
\* only one of the two is allowed for.
SpliceFree ==
    /\ hit # 0 => wiped = 0
    /\ \A j \in 1 .. wiped : (j * Size) % MsgLen # 0

\* The controller state is blank or a message of which all digits were sent,
\* never digits of two messages, even when the buffer overruns in the middle
\* of a message (Joystick.c:46, 62).  A failing line costs at most one wrong
\* digit, in the message it hit: the length is the only test of a line, so a
\* changed digit is applied.
AppliedWasSent ==
    SpliceFree /\ ~oob =>
        \E m \in 0 .. (fed + 1) \div MsgLen, i \in Position :
            \A k \in Position : pad[k] = m \/ (k = i /\ m = hit /\ m > 0)

\* States are applied in the order they were sent: an overrun or a failing
\* line can skip some, it never brings an old one back (one digit may be
\* wrong once the line has failed).
AppliedInOrder ==
    [][ (SpliceFree /\ ~oob)' =>
            \E j \in Position : \A k \in Position :
                k # j \/ hit = 0 => pad'[k] >= pad[k] ]_taskVars

\* While the buffer has not overrun and the line has not failed, no line is
\* longer than a message and b[l/2] stays inside b[7] (Joystick.c:88).
NoOverrunNoOverflow == wiped = 0 /\ hit = 0 => ~oob

\* After the host's last message its state is the controller state for good,
\* unless the buffer overran after the line end before that message, the line
\* failed in that message, or an overlong line left b[]: one line end is
\* enough to recover from an overrun and from a lost, changed or invented byte.
LastStateWins ==
    <>[](\/ pad = [k \in Position |-> Messages]
         \/ wipedAt >= (Messages - 1) * MsgLen - 1
         \/ hit = Messages
         \/ oob)

=============================================================================
