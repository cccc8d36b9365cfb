------------------------------ MODULE Encoding ------------------------------
(* The arithmetic of controller_states (bridge.py): how a stick position and  *)
(* the d-pad become the bytes of a state message, and bytes hex digits.       *)
EXTENDS Integers, Sequences

Int16 == {x \in Int : -32768 <= x /\ x <= 32767}  \* SDL_GameControllerGetAxis
Byte == 0 .. 255

axis_deadzone == 10000
trigger_deadzone == 0

Abs(x) == IF x < 0 THEN -x ELSE x

\* Mutants: the range has 257 values; the dead zone is not applied
AxisByteRounds(x) == ((IF Abs(x) < axis_deadzone THEN 0 ELSE x + 128) \div 256) + 128
AxisByteNoZone(x) == (x \div 256) + 128

\* Python's >> 8 rounds towards minus infinity, as \div does.
AxisByte(x) == ((IF Abs(x) < axis_deadzone THEN 0 ELSE x) \div 256) + 128

\* Indexed by the d-pad bits UP 1, RIGHT 2, DOWN 4, LEFT 8; there is no entry
\* for all four together, and Python raises IndexError.
hatcodes == <<8, 0, 2, 1, 4, 8, 3, 8, 6, 7, 8, 8, 5, 8, 8>>

\* The high and the low half of a byte (hexlify), or of '>H' (pack).
High(n, base) == n \div base
Low(n, base) == n % base

HexChar(n) == IF n < 10 THEN 48 + n ELSE 87 + n

-----------------------------------------------------------------------------

\* What a stick byte should be: the centre in the dead zone, and otherwise the
\* 1/256 of the range the position lies in, from 0 to 255.
StickByte(x, v) ==
    /\ v \in Byte
    /\ IF Abs(x) < axis_deadzone
         THEN v = 128
         ELSE 256 * (v - 128) <= x /\ x < 256 * (v - 127)
=============================================================================
