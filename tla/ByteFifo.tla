------------------------------ MODULE ByteFifo ------------------------------
(***************************************************************************)
(* What the circular buffer of Joystick.c promises to its two users: a     *)
(* first-in first-out queue of bytes between the receive interrupt and     *)
(* Serial_Task.  A byte is appended; only when the queue holds at least    *)
(* Capacity bytes may a new byte wipe it out, and then everything queued   *)
(* is lost at once (the new byte may or may not survive).  Nothing is      *)
(* ever duplicated, reordered or invented.                                 *)
(***************************************************************************)
EXTENDS Naturals, Sequences

CONSTANTS Byte,      \* the byte values on the line
          Capacity   \* how many bytes are kept for certain

VARIABLES queue,     \* the bytes received and not yet taken
          taken      \* the byte Serial_Task took last

fifoVars == <<queue, taken>>

FifoInit ==
    /\ queue = <<>>
    /\ taken \in Byte

Put(ch) ==
    /\ Len(queue) <= Capacity
    /\ queue' = Append(queue, ch)
    /\ UNCHANGED taken

Lose(ch) ==
    /\ Len(queue) >= Capacity
    /\ queue' \in {<<>>, <<ch>>}
    /\ UNCHANGED taken

Get ==
    /\ queue # <<>>
    /\ taken' = Head(queue)
    /\ queue' = Tail(queue)

FifoNext ==
    \/ \E ch \in Byte : Put(ch) \/ Lose(ch)
    \/ Get

FifoSpec == FifoInit /\ [][FifoNext]_fifoVars

=============================================================================
