-------------------------- MODULE LineParserProofs --------------------------
(***************************************************************************)
(* For every number of digits per message, every width of l that can count *)
(* them and every input, the parser of Serial_Task applies exactly the     *)
(* lines of Digits digits, as long as it stays inside b[].                 *)
(***************************************************************************)
EXTENDS LineParser, SequenceTheorems, TLAPS

\* |= of a digit into a blank nibble stores the digit.
LEMMA OrBlank == \A v \in Nibble : Or(0, v) = v
  BY DEF Nibble, Or, OrBit

\* |= of two nibbles is a nibble.
LEMMA OrType == \A x, y \in Nibble : Or(x, y) \in Nibble
  BY DEF Nibble, Or, OrBit

\* The value of a character is a nibble or the mark of an ignored character.
LEMMA HexValType == \A ch \in 0 .. 255 : HexVal(ch) \in Nibble \cup {NoDigit}
  BY DEF HexVal, Nibble, NoDigit

\* A line end applies the line when it is complete and starts a new one.
LEMMA LineEndInv ==
  ASSUME ParserInv, LineEnd
  PROVE  ParserInv'
<1> USE DigitsAssumption, LModAssumption
<1>1. Blank \in [Position -> Nibble]
  BY DEF Blank, Position, Nibble
<1>2. [k \in Position |-> line[k + 1]] \in [Position -> Nibble] \/ Len(line) # Digits
  BY DEF ParserInv, ParserTypeOK, Position
<1>3. ParserTypeOK'
  BY <1>1, <1>2 DEF LineEnd, ParserInv, ParserTypeOK, Position
<1>4. PadIsLastGoodLine'
  <2> SUFFICES ASSUME ~oob PROVE pad' = good'
    BY DEF LineEnd, PadIsLastGoodLine
  <2>1. CASE l = Digits
    <3>1. Len(line) = Digits
      BY <2>1 DEF ParserInv, LineStored
    <3>2. b = [k \in Position |-> line[k + 1]]
      BY <2>1 DEF ParserInv, LineStored, ParserTypeOK, Position
    <3> QED
      BY <2>1, <3>1, <3>2 DEF LineEnd
  <2>2. CASE l # Digits
    BY <2>2 DEF LineEnd, ParserInv, LineStored, PadIsLastGoodLine
  <2> QED
    BY <2>1, <2>2
<1>5. LineStored'
  BY DEF LineEnd, LineStored, Blank, Position
<1> QED
  BY <1>3, <1>4, <1>5 DEF ParserInv

\* A digit is stored in its place, or written outside b[] and recorded so.
LEMMA HexDigitInv ==
  ASSUME ParserInv, NEW v \in Nibble, HexDigit(v)
  PROVE  ParserInv'
<1> USE DigitsAssumption, LModAssumption
<1>1. /\ line' = Append(line, v) /\ good' = good
      /\ line' \in Seq(Nibble) /\ Len(line') = Len(line) + 1
      /\ line'[Len(line) + 1] = v
      /\ \A k \in 1 .. Len(line) : line'[k] = line[k]
  BY AppendProperties DEF HexDigit, ParserInv, ParserTypeOK
<1>2. CASE StoreDigit(v)
  <2>1. l \in Position /\ l' = l + 1
    BY <1>2 DEF StoreDigit, NextL, ParserInv, ParserTypeOK, Position
  <2>2. ParserTypeOK'
    BY <1>1, <1>2, <2>1, OrType DEF StoreDigit, ParserInv, ParserTypeOK, Position
  <2>3. PadIsLastGoodLine'
    BY <1>1, <1>2 DEF StoreDigit, ParserInv, PadIsLastGoodLine
  <2>4. LineStored'
    <3> SUFFICES ASSUME ~oob PROVE LineStored'
      BY <1>2 DEF StoreDigit, LineStored
    <3>1. l = Len(line) /\ b[l] = 0
      BY <2>1 DEF ParserInv, LineStored, Position
    <3>2. b'[l] = v
      BY <1>2, <2>1, <3>1, OrBlank DEF StoreDigit, ParserInv, ParserTypeOK
    <3>3. \A k \in Position : k # l => b'[k] = b[k]
      BY <1>2, <2>1 DEF StoreDigit, ParserInv, ParserTypeOK
    <3>4. \A k \in Position : b'[k] = IF k < l + 1 THEN line'[k + 1] ELSE 0
      BY <1>1, <2>1, <3>1, <3>2, <3>3 DEF ParserInv, ParserTypeOK, LineStored, Position
    <3> QED
      BY <1>1, <2>1, <3>1, <3>4 DEF LineStored, Position
  <2> QED
    BY <2>2, <2>3, <2>4 DEF ParserInv
<1>3. CASE StoreDigitOutside(v)
  <2>1. ParserTypeOK'
    <3>1. l' \in 0 .. LMod - 1
      <4>1. NextL \in 0 .. LMod - 1
        BY DEF NextL, ParserInv, ParserTypeOK
      <4> QED
        BY <1>3, <4>1 DEF StoreDigitOutside
    <3>2. pad' \in [Position -> Nibble]
      <4>1. CASE pad' = pad
        BY <4>1 DEF ParserInv, ParserTypeOK
      <4>2. ASSUME NEW k \in Position, pad' = [pad EXCEPT ![k] = Or(@, v)]
            PROVE  pad' \in [Position -> Nibble]
        <5>1. pad \in [Position -> Nibble] /\ Or(pad[k], v) \in Nibble
          BY <4>2, OrType DEF ParserInv, ParserTypeOK
        <5> QED
          BY <4>2, <5>1
      <4> QED
        BY <1>3, <4>1, <4>2 DEF StoreDigitOutside
    <3>3. b' = b /\ oob' = TRUE
      BY <1>3 DEF StoreDigitOutside
    <3> QED
      BY <1>1, <3>1, <3>2, <3>3 DEF ParserInv, ParserTypeOK
  <2> QED
    BY <1>3, <2>1 DEF StoreDigitOutside, ParserInv, PadIsLastGoodLine, LineStored
<1> QED
  BY <1>2, <1>3 DEF HexDigit

\* The invariant holds before the first character.
LEMMA ParserInitInv ==
  ASSUME ParserInit
  PROVE  ParserInv
<1>1. Blank \in [Position -> Nibble] /\ \A k \in Position : Blank[k] = 0
  BY DEF Blank, Nibble
<1>2. line \in Seq(Nibble) /\ Len(line) = 0
  BY EmptySeq DEF ParserInit
<1>3. l \in 0 .. LMod - 1
  BY DigitsAssumption, LModAssumption DEF ParserInit
<1>4. LineStored
  BY <1>1, <1>2, DigitsAssumption DEF ParserInit, LineStored, Position
<1> QED
  BY <1>1, <1>2, <1>3, <1>4, Zenon
     DEF ParserInit, ParserInv, ParserTypeOK, PadIsLastGoodLine

\* One pass of the loop of Serial_Task keeps the invariant.
LEMMA ParseInv ==
  ASSUME ParserInv, NEW ch \in 0 .. 255, Parse(ch)
  PROVE  ParserInv'
<1>1. CASE LineEnd
  BY <1>1, LineEndInv
<1>2. CASE HexVal(ch) # NoDigit /\ HexDigit(HexVal(ch))
  BY <1>2, HexDigitInv, HexValType
<1>3. CASE UNCHANGED parserVars
  BY <1>3 DEF parserVars, ParserInv, ParserTypeOK, PadIsLastGoodLine, LineStored
<1> QED
  BY <1>1, <1>2, <1>3 DEF Parse

\* The parser keeps its invariant whatever it is fed.
THEOREM ParserInvariance == ParserSpec => []ParserInv
<1>1. ParserInit => ParserInv
  BY ParserInitInv
<1>2. ParserInv /\ [ParserNext]_parserVars => ParserInv'
  <2> SUFFICES ASSUME ParserInv, [ParserNext]_parserVars PROVE ParserInv'
    OBVIOUS
  <2>1. CASE ParserNext
    BY <2>1, ParseInv DEF ParserNext
  <2>2. CASE UNCHANGED parserVars
    BY <2>2 DEF parserVars, ParserInv, ParserTypeOK, PadIsLastGoodLine, LineStored
  <2> QED
    BY <2>1, <2>2
<1> QED
  BY <1>1, <1>2, PTL DEF ParserSpec

\* Serial_Task applies exactly the lines of Digits digits: the controller
\* state is the last of them, in every reachable state in which no digit was
\* written outside b[].
THEOREM PadCorrect == ParserSpec => []PadIsLastGoodLine
<1>1. ParserInv => PadIsLastGoodLine
  BY DEF ParserInv
<1> QED
  BY <1>1, ParserInvariance, PTL

\* Serial_Task leaves b[] only for a line of more than Digits digits.
THEOREM OverflowCorrect == ParserSpec => OverflowNeedsLongLine
<1>1. /\ ParserInv /\ [ParserNext]_parserVars
      => [oob' /\ ~oob => Len(line') > Digits]_parserVars
  <2> SUFFICES ASSUME ParserInv, ParserNext, oob', ~oob
               PROVE  Len(line') > Digits
    OBVIOUS
  <2>1. PICK ch \in 0 .. 255 : Parse(ch)
    BY DEF ParserNext
  <2>2. HexVal(ch) \in Nibble /\ HexDigit(HexVal(ch)) /\ StoreDigitOutside(HexVal(ch))
    BY <2>1, HexValType
       DEF Parse, LineEnd, HexDigit, StoreDigit, parserVars
  <2>3. l = Len(line) /\ l >= Digits
    BY <2>2 DEF ParserInv, LineStored, StoreDigitOutside
  <2>4. Len(line') = Len(line) + 1
    BY <2>2, AppendProperties DEF HexDigit, ParserInv, ParserTypeOK
  <2> QED
    BY <2>3, <2>4, DigitsAssumption DEF ParserInv, ParserTypeOK
<1> QED
  BY <1>1, ParserInvariance, PTL DEF ParserSpec, OverflowNeedsLongLine

-----------------------------------------------------------------------------

\* What one character does to the line and, at a line end, to the controller
\* state (Joystick.c:61-91), inside b[].
LineAfter(ln, ch) ==
    IF ch \in {CR, LF} THEN <<>>
    ELSE IF HexVal(ch) = NoDigit THEN ln ELSE Append(ln, HexVal(ch))

PadAfter(ln, pd, ch) ==
    IF ch \in {CR, LF} /\ Len(ln) = Digits THEN [k \in Position |-> ln[k + 1]] ELSE pd

\* One pass of the loop of Serial_Task: its invariant is kept, and while no
\* digit is written outside b[] it does to line and controller state what
\* LineAfter and PadAfter say.  Only a digit after a full line leaves b[].
LEMMA ParseEffect ==
    ASSUME ParserInv, NEW ch \in 0 .. 255, Parse(ch)
    PROVE  /\ ParserInv'
           /\ line' = LineAfter(line, ch)
           /\ ~oob' => ~oob /\ pad' = PadAfter(line, pad, ch)
           /\ oob' /\ ~oob => Len(line) = Digits /\ ch \notin {CR, LF}
<1> USE DigitsAssumption
<1>1. ParserInv'
  BY ParseInv
<1>2. ~oob => PadIsLastGoodLine /\ PadIsLastGoodLine' /\ LineStored
  BY <1>1 DEF ParserInv
<1>3. CASE ch \in {CR, LF}
  <2>1. LineEnd
    BY <1>3 DEF Parse
  <2>2. ~oob => pad' = PadAfter(line, pad, ch)
    BY <1>2, <1>3, <2>1 DEF LineEnd, PadIsLastGoodLine, PadAfter
  <2>3. line' = LineAfter(line, ch) /\ oob' = oob
    BY <1>3, <2>1 DEF LineEnd, LineAfter
  <2> QED
    BY <1>1, <2>2, <2>3, Zenon
<1>4. CASE ch \notin {CR, LF} /\ HexVal(ch) # NoDigit
  <2>1. HexDigit(HexVal(ch))
    BY <1>4 DEF Parse, parserVars
  <2>2. line' = LineAfter(line, ch)
    BY <1>4, <2>1 DEF HexDigit, LineAfter
  <2>3. CASE StoreDigit(HexVal(ch))
    <3>1. pad' = pad /\ oob' = oob
      BY <2>3 DEF StoreDigit
    <3>2. PadAfter(line, pad, ch) = pad
      BY <1>4 DEF PadAfter
    <3> QED
      BY <1>1, <2>2, <3>1, <3>2, Zenon
  <2>4. CASE StoreDigitOutside(HexVal(ch))
    <3>1. oob' = TRUE /\ l >= Digits
      BY <2>4 DEF StoreDigitOutside
    <3>2. ~oob => Len(line) = Digits
      BY <1>2, <3>1 DEF LineStored, ParserInv, ParserTypeOK
    <3> QED
      BY <1>1, <1>4, <2>2, <3>1, <3>2, Zenon
  <2> QED
    BY <2>1, <2>3, <2>4 DEF HexDigit
<1>5. CASE ch \notin {CR, LF} /\ HexVal(ch) = NoDigit
  <2>1. line' = line /\ pad' = pad /\ oob' = oob
    BY <1>5 DEF Parse, parserVars
  <2>2. line' = LineAfter(line, ch) /\ PadAfter(line, pad, ch) = pad
    BY <1>5, <2>1 DEF LineAfter, PadAfter
  <2> QED
    BY <1>1, <2>1, <2>2, Zenon
<1> QED
  BY <1>3, <1>4, <1>5
=============================================================================
