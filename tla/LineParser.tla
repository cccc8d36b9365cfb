----------------------------- MODULE LineParser -----------------------------
(***************************************************************************)
(* The body of the loop of Serial_Task (Joystick.c): one received          *)
(* character goes into the line being assembled, and a line end applies    *)
(* the line to the controller state when it holds exactly Digits           *)
(* hexadecimal digits.                                                     *)
(*                                                                         *)
(* b[] is kept by nibbles: nibble 2i is the high half of byte b[i] and     *)
(* nibble 2i+1 the low half, so that digit number l lands in nibble l.     *)
(* pad is the controller state HAT2, buttons, LX2, LY2, RX2, RY2 in the    *)
(* order of the bytes of b it is copied from.                              *)
(*                                                                         *)
(* A digit beyond the last one is written outside b[], which is undefined  *)
(* behaviour: the nibble may land in pad, in l or in an object outside     *)
(* this module.  Nothing is claimed about the state after such a write;    *)
(* oob records that it happened.                                           *)
(***************************************************************************)
EXTENDS Integers, Sequences

CONSTANTS Digits,   \* digits of a state message: 14, two per byte of b[7]
          LMod      \* l is a uint8_t: 256

ASSUME DigitsAssumption == Digits \in Nat /\ Digits >= 1
ASSUME LModAssumption == LMod \in Nat /\ LMod > Digits

VARIABLES l, b,     \* the static locals of Serial_Task
          pad,      \* the controller state reported over USB
          line,     \* history: the digits since the last line end
          good,     \* history: the last line of exactly Digits digits
          oob       \* history: a digit was written outside b[]

parserVars == <<l, b, pad, line, good, oob>>

Nibble == 0 .. 15
Position == 0 .. Digits - 1
Blank == [k \in Position |-> 0]

CR == 13
LF == 10
NoDigit == 255

HexVal(ch) ==
    IF ch \in 48 .. 57 THEN ch - 48
    ELSE IF ch \in 97 .. 102 THEN (ch - 97) + 10
    ELSE IF ch \in 65 .. 70 THEN (ch - 65) + 10
    ELSE NoDigit

\* += 1 on the uint8_t l
NextL == IF l + 1 = LMod THEN 0 ELSE l + 1

\* |= on one bit of a nibble, and on the nibble
OrBit(x, y, w) == IF (x \div w) % 2 = 1 \/ (y \div w) % 2 = 1 THEN w ELSE 0
Or(x, y) == OrBit(x, y, 1) + OrBit(x, y, 2) + OrBit(x, y, 4) + OrBit(x, y, 8)

ParserInit ==
    /\ l = 0
    /\ b = Blank
    /\ pad = Blank
    /\ line = <<>>
    /\ good = Blank
    /\ oob = FALSE

\* Mutants: b[] is not cleared, l is not reset, a line of any length applies
LineEndKeepsB ==
    /\ pad' = IF l = Digits THEN b ELSE pad
    /\ l' = 0
    /\ good' = IF Len(line) = Digits THEN [k \in Position |-> line[k + 1]] ELSE good
    /\ line' = <<>>
    /\ UNCHANGED <<b, oob>>

LineEndKeepsL ==
    /\ pad' = IF l = Digits THEN b ELSE pad
    /\ b' = Blank
    /\ good' = IF Len(line) = Digits THEN [k \in Position |-> line[k + 1]] ELSE good
    /\ line' = <<>>
    /\ UNCHANGED <<l, oob>>

LineEndAnyLength ==
    /\ pad' = b
    /\ l' = 0
    /\ b' = Blank
    /\ good' = IF Len(line) = Digits THEN [k \in Position |-> line[k + 1]] ELSE good
    /\ line' = <<>>
    /\ UNCHANGED oob

\* '\r' or '\n': apply a line of the right length, start a new one.
LineEnd ==
    /\ pad' = IF l = Digits THEN b ELSE pad
    /\ l' = 0
    /\ b' = Blank
    /\ good' = IF Len(line) = Digits THEN [k \in Position |-> line[k + 1]] ELSE good
    /\ line' = <<>>
    /\ UNCHANGED oob

\* A digit that b[] has room for.
StoreDigit(v) ==
    /\ l < Digits
    /\ b' = [b EXCEPT ![l] = Or(@, v)]
    /\ l' = NextL
    /\ UNCHANGED <<pad, oob>>

\* A digit beyond the end of b[]: b[l/2] is some other object.
StoreDigitOutside(v) ==
    /\ l >= Digits
    /\ oob' = TRUE
    /\ \/ l' = NextL /\ UNCHANGED pad
       \/ \E k \in Position :
             /\ k % 2 = l % 2
             /\ pad' = [pad EXCEPT ![k] = Or(@, v)]
             /\ l' = NextL
       \/ l' \in 0 .. LMod - 1 /\ UNCHANGED pad
    /\ UNCHANGED b

HexDigit(v) ==
    /\ StoreDigit(v) \/ StoreDigitOutside(v)
    /\ line' = Append(line, v)
    /\ UNCHANGED good

\* One pass of the loop of Serial_Task over the character ch.
Parse(ch) ==
    \/ ch \in {CR, LF} /\ LineEnd
    \/ ch \notin {CR, LF} /\ HexVal(ch) # NoDigit /\ HexDigit(HexVal(ch))
    \/ ch \notin {CR, LF} /\ HexVal(ch) = NoDigit /\ UNCHANGED parserVars

\* The parser on its own, fed with anything: what it does does not depend on
\* who writes on the serial line.
ParserNext == \E ch \in 0 .. 255 : Parse(ch)

ParserSpec == ParserInit /\ [][ParserNext]_parserVars

-----------------------------------------------------------------------------

ParserTypeOK ==
    /\ l \in 0 .. LMod - 1
    /\ b \in [Position -> Nibble]
    /\ pad \in [Position -> Nibble]
    /\ line \in Seq(Nibble)
    /\ good \in [Position -> Nibble]
    /\ oob \in BOOLEAN

\* The controller state is what the last line of exactly Digits digits said,
\* whatever shorter lines, empty lines, \r\n pairs and ignored characters
\* came before, between and after its digits (Joystick.c:61-91), as long as
\* no digit was written outside b[].
PadIsLastGoodLine == ~oob => pad = good

\* What the parser has stored of the current line.
LineStored ==
    ~oob => /\ Len(line) <= Digits
            /\ l = Len(line)
            /\ \A k \in Position : b[k] = IF k < l THEN line[k + 1] ELSE 0

\* Only a line that has grown beyond Digits digits makes Serial_Task write
\* outside b[] (Joystick.c:88), whatever was received before that line.
OverflowNeedsLongLine ==
    [][ oob' /\ ~oob => Len(line') > Digits ]_parserVars

\* The inductive invariant: types, PadIsLastGoodLine and what b[] holds of
\* the line that is being received (Joystick.c:88-89).
ParserInv == ParserTypeOK /\ PadIsLastGoodLine /\ LineStored

=============================================================================
