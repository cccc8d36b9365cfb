----------------------------- MODULE SerialRing -----------------------------
(***************************************************************************)
(* The circular buffer of the firmware (Joystick.c): the receive interrupt *)
(* USART1_RX_vect writes buffer[buffer_head++], the loop of Serial_Task    *)
(* reads buffer[buffer_tail] and advances buffer_tail after it has         *)
(* processed the byte.  The interrupt may fire between any two steps of    *)
(* the loop, so the test of the loop, the read and the increment are three *)
(* steps.  The interrupt itself is not interrupted and is one step.        *)
(*                                                                         *)
(* Size is 256 in the code, where the indices are uint8_t and wrap by      *)
(* themselves.                                                             *)
(***************************************************************************)
EXTENDS Integers, Sequences

CONSTANTS Byte,   \* the byte values on the line
          Zero,   \* the value a cell of buffer[] starts with (.bss is zeroed)
          Size    \* sizeof(buffer)

ASSUME SizeAssumption == Size \in Nat /\ Size >= 2
ASSUME ZeroAssumption == Zero \in Byte

VARIABLES buffer, buffer_head, buffer_tail,
          pc,     \* where Serial_Task is in its loop
          c,      \* its local variable c
          tx      \* what the last interrupt printed: "X" or nothing

ringVars == <<buffer, buffer_head, buffer_tail, pc, c, tx>>

Index == 0 .. Size - 1

\* ++ on a uint8_t index
Inc(i) == IF i = Size - 1 THEN 0 ELSE i + 1

RingInit ==
    /\ buffer = [i \in Index |-> Zero]
    /\ buffer_head = 0
    /\ buffer_tail = 0
    /\ pc = "test"
    /\ c = Zero
    /\ tx = "none"

\* buffer_tail - 1 is an int: for buffer_tail = 0 it is -1, not Size - 1.
ReportsOverrun == buffer_head = buffer_tail - 1

USART1_RX(ch) ==
    /\ tx' = IF ReportsOverrun THEN "X" ELSE "none"
    /\ buffer' = [buffer EXCEPT ![buffer_head] = ch]
    /\ buffer_head' = Inc(buffer_head)
    /\ UNCHANGED <<buffer_tail, pc, c>>

\* Mutant: the loop is entered without the test
TestAlways ==
    /\ pc = "test"
    /\ pc' = "read"
    /\ UNCHANGED <<buffer, buffer_head, buffer_tail, c, tx>>

\* while(buffer_tail != buffer_head): the loop is entered, or the task
\* returns to main and is called again later.
Test ==
    /\ pc = "test"
    /\ buffer_tail # buffer_head
    /\ pc' = "read"
    /\ UNCHANGED <<buffer, buffer_head, buffer_tail, c, tx>>

Read ==
    /\ pc = "read"
    /\ c' = buffer[buffer_tail]
    /\ pc' = "advance"
    /\ UNCHANGED <<buffer, buffer_head, buffer_tail, tx>>

Advance ==
    /\ pc = "advance"
    /\ buffer_tail' = Inc(buffer_tail)
    /\ pc' = "test"
    /\ UNCHANGED <<buffer, buffer_head, c, tx>>

RingNext ==
    \/ \E ch \in Byte : USART1_RX(ch)
    \/ Test
    \/ Read
    \/ Advance

RingSpec == RingInit /\ [][RingNext]_ringVars

-----------------------------------------------------------------------------
\* The queue the ring stands for.

\* Position k places after position i, for k <= Size
Slot(i, k) == IF i + k < Size THEN i + k ELSE i + k - Size

\* Distance from i forward to j
Dist(i, j) == IF j >= i THEN j - i ELSE j - i + Size

\* The oldest byte not yet taken: once c holds the byte, its cell is free.
First == IF pc = "advance" THEN Inc(buffer_tail) ELSE buffer_tail

\* Between Test and Read the loop knows that there is a byte, so equal
\* indices then mean a full ring and not an empty one.
Count == IF pc = "read" /\ buffer_head = buffer_tail
         THEN Size
         ELSE Dist(First, buffer_head)

Queue == [k \in 1 .. Count |-> buffer[Slot(First, k - 1)]]

Fifo == INSTANCE ByteFifo
        WITH queue <- Queue, taken <- c, Capacity <- Size - 1

RingTypeOK ==
    /\ buffer \in [Index -> Byte]
    /\ buffer_head \in Index
    /\ buffer_tail \in Index
    /\ pc \in {"test", "read", "advance"}
    /\ c \in Byte
    /\ tx \in {"none", "X"}

\* The ring implements the first-in first-out queue for every interleaving
\* of the interrupt with Serial_Task: bytes come out once, in order, and are
\* lost only when at least Size - 1 of them are waiting.
RingIsFifo == Fifo!FifoSpec

\* Joystick.c:44-45 prints X as "overrun": an interrupt that wipes out the
\* queue while Serial_Task is not looking at it tells the host so.
OverrunIsReported ==
    [][ (pc = "test" /\ Len(Queue) > 0 /\ Len(Queue') < Len(Queue) /\ buffer_head' # buffer_head)
        => tx' = "X" ]_ringVars

=============================================================================
