------------------------------ MODULE WireProofs ------------------------------
(***************************************************************************)
(* A gamepad state arrives as it was, for every state SDL can report and   *)
(* any number of messages.                                                 *)
(*                                                                         *)
(* First the arithmetic: every stick position has its byte, every button   *)
(* its bit, every byte its two digits.  Then the invariant: the line that  *)
(* Serial_Task has assembled and the characters still on the wire are      *)
(* together the digits of the last message (Underway), so that its line    *)
(* end always finds exactly Digits digits.                                 *)
(***************************************************************************)
EXTENDS Wire, LineParserProofs, TLAPS

-----------------------------------------------------------------------------
\* The arithmetic of a stick.

\* What SDL reports for an axis.
LEMMA Int16Bounds ==
  ASSUME NEW x, x \in Int16
  PROVE  x \in Int /\ -32768 <= x /\ x <= 32767
  BY DEF Int16

\* The quotient by 256, by its defining inequalities.
LEMMA Div256 ==
  ASSUME NEW x \in Int
  PROVE  \E q \in Int : q = x \div 256 /\ 256 * q <= x /\ x < 256 * q + 256
  <1>1. PICK q \in Int : q = x \div 256
    OBVIOUS
  <1>2. 256 * q <= x /\ x < 256 * q + 256
    BY <1>1
  <1> QED
    BY <1>1, <1>2

\* Every position SDL can report becomes a stick byte of the right 1/256 of
\* the range: struct.pack's 'B' never sees a value outside 0..255, and no
\* rounding moves a stick by a step (bridge.py:133).
THEOREM AxisFits == \A x : x \in Int16 => StickByte(x, AxisByte(x))
  <1> SUFFICES ASSUME NEW x, x \in Int16 PROVE StickByte(x, AxisByte(x))
    OBVIOUS
  <1>0. x \in Int /\ -32768 <= x /\ x <= 32767
    BY Int16Bounds
  <1>1. CASE Abs(x) < axis_deadzone
    <2>1. AxisByte(x) = (0 \div 256) + 128
      BY <1>1 DEF AxisByte
    <2>2. AxisByte(x) = 128
      BY <2>1
    <2> QED
      BY <1>1, <2>2 DEF StickByte, Byte
  <1>2. CASE ~(Abs(x) < axis_deadzone)
    <2>1. AxisByte(x) = (x \div 256) + 128
      BY <1>2 DEF AxisByte
    <2>2. PICK q \in Int : q = x \div 256 /\ 256 * q <= x /\ x < 256 * q + 256
      BY <1>0, Div256
    <2>3. -128 <= q /\ q <= 127
      BY <1>0, <2>2
    <2>4. AxisByte(x) = q + 128
      BY <2>1, <2>2
    <2>5. StickByte(x, q + 128)
      BY <1>0, <1>2, <2>2, <2>3 DEF StickByte, Byte
    <2> QED
      BY <2>4, <2>5
  <1> QED
    BY <1>1, <1>2

\* A stick pushed further never reports a smaller byte, the edges of the dead
\* zone included (bridge.py:133).
THEOREM AxisMonotone ==
  \A x, y : x \in Int16 /\ y \in Int16 /\ x <= y => AxisByte(x) <= AxisByte(y)
  <1> SUFFICES ASSUME NEW x, NEW y, x \in Int16, y \in Int16, x <= y
               PROVE  AxisByte(x) <= AxisByte(y)
    OBVIOUS
  <1>0. x \in Int /\ y \in Int
    BY Int16Bounds
  <1>1. StickByte(x, AxisByte(x)) /\ StickByte(y, AxisByte(y))
    BY AxisFits
  <1>2. PICK v \in Byte : v = AxisByte(x)
    BY <1>1 DEF StickByte
  <1>3. PICK w \in Byte : w = AxisByte(y)
    BY <1>1 DEF StickByte
  <1>4. StickByte(x, v) /\ StickByte(y, w)
    BY <1>1, <1>2, <1>3
  <1>5. v <= w
    BY <1>0, <1>4 DEF StickByte, Abs, axis_deadzone, Byte
  <1> QED
    BY <1>2, <1>3, <1>5

-----------------------------------------------------------------------------
\* Bits of a number.

Four(x, y, z, u) == x + 2 * y + 4 * z + 8 * u

\* A quotient is known from a multiple and a rest.
LEMMA DivUnique ==
    ASSUME NEW d \in Nat, d >= 1, NEW q \in Nat, NEW r \in 0 .. d - 1
    PROVE  ((d * q) + r) \div d = q
OBVIOUS

\* n is k whole times w, and a rest
Times(n, w, k) == \E r \in 0 .. w - 1 : n = (w * k) + r

\* x is the last bit of k, and h the bits above it
Halves(k, x, h) == x \in 0 .. 1 /\ h \in Nat /\ k = x + 2 * h

\* One bit of n, and where the next one is.
LEMMA NextBit ==
    ASSUME NEW w \in Nat \ {0}, NEW n, NEW k, NEW x, NEW h,
           Times(n, w, k), Halves(k, x, h)
    PROVE  (n \div w) % 2 = x /\ Times(n, 2 * w, h)
<1> USE DEF Halves
<1>1. PICK r \in 0 .. w - 1 : n = (w * k) + r
  BY DEF Times
<1>2. k \in Nat /\ k % 2 = x /\ w >= 1
  OBVIOUS
<1>3. n \div w = k
  BY <1>1, <1>2, DivUnique
<1>4. CASE x = 0
  <2>1. n = ((2 * w) * h) + r /\ r \in 0 .. (2 * w) - 1
    BY <1>1, <1>4
  <2> QED
    BY <1>2, <1>3, <2>1 DEF Times
<1>5. CASE x = 1
  <2>1. PICK q : q = r + w
    OBVIOUS
  <2>2. n = ((2 * w) * h) + q /\ q \in 0 .. (2 * w) - 1
    BY <1>1, <1>5, <2>1
  <2> QED
    BY <1>2, <1>3, <2>2 DEF Times
<1> QED
  BY <1>4, <1>5

\* x, y, z and u are the last four bits of k, and h the bits above them
Splits(k, x, y, z, u, h) ==
    /\ x \in 0 .. 1 /\ y \in 0 .. 1 /\ z \in 0 .. 1 /\ u \in 0 .. 1 /\ h \in Nat
    /\ k = Four(x, y, z, u) + 16 * h

\* Four bits of n, and where the next ones are.
LEMMA FourBits ==
    ASSUME NEW w \in Nat \ {0}, NEW n, NEW k, NEW h,
           NEW x, NEW y, NEW z, NEW u,
           Times(n, w, k), Splits(k, x, y, z, u, h)
    PROVE  /\ (n \div w) % 2 = x
           /\ (n \div (2 * w)) % 2 = y
           /\ (n \div (4 * w)) % 2 = z
           /\ (n \div (8 * w)) % 2 = u
           /\ Times(n, 16 * w, h)
<1>1. PICK h1, h2, h3 :
         Halves(h3, u, h) /\ Halves(h2, z, h3) /\ Halves(h1, y, h2) /\ Halves(k, x, h1)
  <2>1. PICK h1 \in Nat, h2 \in Nat, h3 \in Nat :
           h3 = u + 2 * h /\ h2 = z + 2 * h3 /\ h1 = y + 2 * h2 /\ k = x + 2 * h1
    BY DEF Splits, Four
  <2> QED
    BY <2>1 DEF Splits, Halves
<1>2. PICK v \in Nat \ {0} : v = 2 * w
  OBVIOUS
<1>3. PICK t \in Nat \ {0} : t = 2 * v
  OBVIOUS
<1>4. PICK s \in Nat \ {0} : s = 2 * t
  OBVIOUS
<1>5. (n \div w) % 2 = x /\ Times(n, v, h1)
  BY <1>1, <1>2, NextBit
<1>6. (n \div v) % 2 = y /\ Times(n, t, h2)
  BY <1>1, <1>3, <1>5, NextBit
<1>7. (n \div t) % 2 = z /\ Times(n, s, h3)
  BY <1>1, <1>4, <1>6, NextBit
<1>8. (n \div s) % 2 = u /\ Times(n, 2 * s, h)
  BY <1>1, <1>7, NextBit
<1>9. t = 4 * w /\ s = 8 * w /\ 2 * s = 16 * w
  BY <1>2, <1>3, <1>4
<1> QED
  BY <1>2, <1>5, <1>6, <1>7, <1>8, <1>9

\* Four bits are a nibble.
LEMMA FourType ==
    ASSUME NEW x \in 0 .. 1, NEW y \in 0 .. 1, NEW z \in 0 .. 1, NEW u \in 0 .. 1
    PROVE  Four(x, y, z, u) \in 0 .. 15
BY DEF Four

-----------------------------------------------------------------------------
\* The buttons and the hat of a gamepad state.

Held(p, s) == IF s \in p.held THEN 1 ELSE 0
Pulled(p, t) == IF Abs(p.trigger[t]) > trigger_deadzone THEN 1 ELSE 0
Pressed(p, d) == IF d \in p.dpad THEN 1 ELSE 0

\* The bits of buttonmapping, four at a time: bits 6, 7 and 8 are never set.
LEMMA ButtonNibbles ==
    ASSUME NEW p \in Gamepad
    PROVE  Bits(buttonmapping, p.held) =
              Four(Held(p, "X"), Held(p, "A"), Held(p, "B"), Held(p, "Y"))
              + 16 * Four(Held(p, "LEFTSHOULDER"), Held(p, "RIGHTSHOULDER"), 0, 0)
              + 256 * Four(0, Held(p, "START"), Held(p, "LEFTSTICK"), Held(p, "RIGHTSTICK"))
              + 4096 * Four(Held(p, "GUIDE"), Held(p, "BACK"), 0, 0)
<1>1. PICK m : m = buttonmapping
  OBVIOUS
<1>2. /\ Len(m) = 14
      /\ m[1] = "X" /\ m[2] = "A" /\ m[3] = "B" /\ m[4] = "Y"
      /\ m[5] = "LEFTSHOULDER" /\ m[6] = "RIGHTSHOULDER" /\ m[7] = "INVALID"
      /\ m[8] = "INVALID" /\ m[9] = "INVALID" /\ m[10] = "START" /\ m[11] = "LEFTSTICK"
      /\ m[12] = "RIGHTSTICK" /\ m[13] = "GUIDE" /\ m[14] = "BACK"
  BY <1>1 DEF buttonmapping
<1>3. "INVALID" \notin p.held
  BY DEF Gamepad, SdlButtons
<1> DEFINE bit(n) == IF n \in 1 .. Len(m) /\ m[n] \in p.held THEN 1 ELSE 0
<1>4. /\ bit(1) = Held(p, "X") /\ bit(2) = Held(p, "A")
      /\ bit(3) = Held(p, "B") /\ bit(4) = Held(p, "Y")
  BY <1>2 DEF Held
<1>5. /\ bit(5) = Held(p, "LEFTSHOULDER") /\ bit(6) = Held(p, "RIGHTSHOULDER")
      /\ bit(7) = 0 /\ bit(8) = 0
  BY <1>2, <1>3 DEF Held
<1>6. /\ bit(9) = 0 /\ bit(10) = Held(p, "START")
      /\ bit(11) = Held(p, "LEFTSTICK") /\ bit(12) = Held(p, "RIGHTSTICK")
  BY <1>2, <1>3 DEF Held
<1>7. /\ bit(13) = Held(p, "GUIDE") /\ bit(14) = Held(p, "BACK")
      /\ bit(15) = 0 /\ bit(16) = 0
  BY <1>2, <1>3 DEF Held
<1>8. Bits(m, p.held) = Four(bit(1), bit(2), bit(3), bit(4))
                        + 16 * Four(bit(5), bit(6), bit(7), bit(8))
                        + 256 * Four(bit(9), bit(10), bit(11), bit(12))
                        + 4096 * Four(bit(13), bit(14), bit(15), bit(16))
  BY DEF Bits, Four
<1> HIDE DEF bit
<1> QED
  BY <1>1, <1>4, <1>5, <1>6, <1>7, <1>8

\* The d-pad is one nibble, in the order of hatmapping.
LEMMA HatNibble ==
    ASSUME NEW p \in Gamepad
    PROVE  HatIndex(p) = Four(Pressed(p, "UP"), Pressed(p, "RIGHT"),
                              Pressed(p, "DOWN"), Pressed(p, "LEFT"))
<1>1. PICK m : m = hatmapping
  OBVIOUS
<1>2. /\ Len(m) = 4
      /\ m[1] = "UP" /\ m[2] = "RIGHT" /\ m[3] = "DOWN" /\ m[4] = "LEFT"
  BY <1>1 DEF hatmapping
<1> DEFINE bit(n) == IF n \in 1 .. Len(m) /\ m[n] \in p.dpad THEN 1 ELSE 0
<1>4. /\ bit(1) = Pressed(p, "UP") /\ bit(2) = Pressed(p, "RIGHT")
      /\ bit(3) = Pressed(p, "DOWN") /\ bit(4) = Pressed(p, "LEFT")
  BY <1>2 DEF Pressed
<1>5. /\ bit(5) = 0 /\ bit(6) = 0 /\ bit(7) = 0 /\ bit(8) = 0
      /\ bit(9) = 0 /\ bit(10) = 0 /\ bit(11) = 0 /\ bit(12) = 0
      /\ bit(13) = 0 /\ bit(14) = 0 /\ bit(15) = 0 /\ bit(16) = 0
  BY <1>2
<1>8. Bits(m, p.dpad) = Four(bit(1), bit(2), bit(3), bit(4))
                        + 16 * Four(bit(5), bit(6), bit(7), bit(8))
                        + 256 * Four(bit(9), bit(10), bit(11), bit(12))
                        + 4096 * Four(bit(13), bit(14), bit(15), bit(16))
  BY DEF Bits, Four
<1> HIDE DEF bit
<1>9. PICK f : f = Four(bit(1), bit(2), bit(3), bit(4))
  OBVIOUS
<1>10. Four(0, 0, 0, 0) = 0
  BY DEF Four
<1>11. Bits(m, p.dpad) = f + 16 * 0 + 256 * 0 + 4096 * 0
  BY <1>5, <1>8, <1>9, <1>10
<1>12. f \in Int
  BY <1>4, <1>9 DEF Four, Pressed
<1> QED
  BY <1>1, <1>4, <1>9, <1>11, <1>12 DEF HatIndex

NibbleA(p) == Four(Held(p, "X"), Held(p, "A"), Held(p, "B"), Held(p, "Y"))
NibbleB(p) == Four(Held(p, "LEFTSHOULDER"), Held(p, "RIGHTSHOULDER"),
                   Pulled(p, "LEFT"), Pulled(p, "RIGHT"))
NibbleC(p) == Four(0, Held(p, "START"), Held(p, "LEFTSTICK"), Held(p, "RIGHTSTICK"))
NibbleD(p) == Four(Held(p, "GUIDE"), Held(p, "BACK"), 0, 0)

\* A bit is 0 or 1.
LEMMA HeldType == \A p, s : Held(p, s) \in 0 .. 1 /\ Pulled(p, s) \in 0 .. 1
                            /\ Pressed(p, s) \in 0 .. 1
BY DEF Held, Pulled, Pressed

\* The four nibbles of the buttons.
LEMMA NibbleTypes ==
    ASSUME NEW p
    PROVE  /\ NibbleA(p) \in 0 .. 15 /\ NibbleB(p) \in 0 .. 15
           /\ NibbleC(p) \in 0 .. 15 /\ NibbleD(p) \in 0 .. 15
<1>1. 0 \in 0 .. 1
  OBVIOUS
<1> QED
  BY <1>1, HeldType, FourType DEF NibbleA, NibbleB, NibbleC, NibbleD

\* The triggers take the free bits 6 and 7 of the second nibble.
LEMMA ButtonsValue ==
    ASSUME NEW p \in Gamepad
    PROVE  Buttons(p) = NibbleA(p) + 16 * NibbleB(p) + 256 * NibbleC(p) + 4096 * NibbleD(p)
<1>1. PICK f : f = Four(Held(p, "LEFTSHOULDER"), Held(p, "RIGHTSHOULDER"), 0, 0)
  OBVIOUS
<1>2. f \in Int /\ NibbleB(p) = f + 4 * Pulled(p, "LEFT") + 8 * Pulled(p, "RIGHT")
  <2>1. PICK x \in Int, y \in Int, z \in Int, u \in Int :
            /\ x = Held(p, "LEFTSHOULDER") /\ y = Held(p, "RIGHTSHOULDER")
            /\ z = Pulled(p, "LEFT") /\ u = Pulled(p, "RIGHT")
    BY HeldType
  <2> QED
    BY <1>1, <2>1 DEF Four, NibbleB
<1>3. PICK a \in Int, c \in Int, d \in Int :
          a = NibbleA(p) /\ c = NibbleC(p) /\ d = NibbleD(p)
  BY NibbleTypes
<1>4. Bits(buttonmapping, p.held) = a + 16 * f + 256 * c + 4096 * d
  BY <1>1, <1>3, ButtonNibbles DEF NibbleA, NibbleC, NibbleD
<1>5. PICK z \in Int, u \in Int : z = Pulled(p, "LEFT") /\ u = Pulled(p, "RIGHT")
  BY HeldType
<1>6. /\ (IF Abs(p.trigger["LEFT"]) > trigger_deadzone THEN 64 ELSE 0) = 64 * z
      /\ (IF Abs(p.trigger["RIGHT"]) > trigger_deadzone THEN 128 ELSE 0) = 128 * u
  BY <1>5 DEF Pulled
<1>7. Buttons(p) = (a + 16 * f + 256 * c + 4096 * d) + 64 * z + 128 * u
  BY <1>4, <1>6 DEF Buttons
<1> QED
  BY <1>2, <1>3, <1>5, <1>7

\* The lowest bit is where n begins.
LEMMA TimesIntro ==
    ASSUME NEW n \in Nat
    PROVE  Times(n, 1, n)
<1>1. 0 \in 0 .. 1 - 1 /\ n = (1 * n) + 0
  OBVIOUS
<1> QED
  BY <1>1 DEF Times

\* Four nibbles make a word that struct.pack takes for an H.
LEMMA WordType ==
    ASSUME NEW i \in 0 .. 15, NEW j \in 0 .. 15, NEW k \in 0 .. 15, NEW m \in 0 .. 15
    PROVE  /\ 0 <= i + 16 * j + 256 * k + 4096 * m
           /\ i + 16 * j + 256 * k + 4096 * m <= 65535
           /\ m + 16 * 0 = m
           /\ k + 16 * m \in Nat /\ j + 16 * (k + 16 * m) \in Nat
           /\ i + 16 * j + 256 * k + 4096 * m = i + 16 * (j + 16 * (k + 16 * m))
BY SMT

\* The buttons, one nibble after the other.
LEMMA ButtonSplits ==
    ASSUME NEW p \in Gamepad
    PROVE  /\ Buttons(p) \in Nat /\ Buttons(p) <= 65535
           /\ \E h1, h2, h3 :
                /\ Splits(Buttons(p), Held(p, "X"), Held(p, "A"), Held(p, "B"),
                              Held(p, "Y"), h1)
                /\ Splits(h1, Held(p, "LEFTSHOULDER"), Held(p, "RIGHTSHOULDER"),
                              Pulled(p, "LEFT"), Pulled(p, "RIGHT"), h2)
                /\ Splits(h2, 0, Held(p, "START"), Held(p, "LEFTSTICK"),
                              Held(p, "RIGHTSTICK"), h3)
                /\ Splits(h3, Held(p, "GUIDE"), Held(p, "BACK"), 0, 0, 0)
<1>1. PICK i \in 0 .. 15, j \in 0 .. 15, k \in 0 .. 15, m \in 0 .. 15 :
          i = NibbleA(p) /\ j = NibbleB(p) /\ k = NibbleC(p) /\ m = NibbleD(p)
  BY NibbleTypes, Zenon
<1>2. Buttons(p) = i + 16 * j + 256 * k + 4096 * m
  BY <1>1, ButtonsValue
<1>3. PICK h2 \in Nat : h2 = k + 16 * m
  BY WordType
<1>4. PICK h1 \in Nat : h1 = j + 16 * h2
  OBVIOUS
<1>5. Buttons(p) \in Nat /\ Buttons(p) <= 65535 /\ Buttons(p) = i + 16 * h1
  BY <1>2, <1>3, <1>4, WordType
<1>6. m = m + 16 * 0 /\ m \in Nat /\ 0 \in 0 .. 1 /\ 0 \in Nat
  OBVIOUS
<1>7. Splits(m, Held(p, "GUIDE"), Held(p, "BACK"), 0, 0, 0)
  BY <1>1, <1>6, HeldType DEF Splits, NibbleD
<1>8. Splits(h2, 0, Held(p, "START"), Held(p, "LEFTSTICK"), Held(p, "RIGHTSTICK"), m)
  BY <1>1, <1>3, <1>6, HeldType DEF Splits, NibbleC
<1>9. Splits(h1, Held(p, "LEFTSHOULDER"), Held(p, "RIGHTSHOULDER"),
                 Pulled(p, "LEFT"), Pulled(p, "RIGHT"), h2)
  BY <1>1, <1>4, HeldType DEF Splits, NibbleB
<1>10. Splits(Buttons(p), Held(p, "X"), Held(p, "A"), Held(p, "B"), Held(p, "Y"), h1)
  BY <1>1, <1>5, HeldType DEF Splits, NibbleA
<1> QED
  BY <1>5, <1>7, <1>8, <1>9, <1>10

\* Bit for bit, the word of the buttons is what is held.
LEMMA ButtonBits ==
    ASSUME NEW p \in Gamepad, NEW n, n = Buttons(p)
    PROVE  /\ (n \div 1) % 2 = Held(p, "X") /\ (n \div 2) % 2 = Held(p, "A")
           /\ (n \div 4) % 2 = Held(p, "B") /\ (n \div 8) % 2 = Held(p, "Y")
           /\ (n \div 16) % 2 = Held(p, "LEFTSHOULDER")
           /\ (n \div 32) % 2 = Held(p, "RIGHTSHOULDER")
           /\ (n \div 64) % 2 = Pulled(p, "LEFT") /\ (n \div 128) % 2 = Pulled(p, "RIGHT")
           /\ (n \div 256) % 2 = 0 /\ (n \div 512) % 2 = Held(p, "START")
           /\ (n \div 1024) % 2 = Held(p, "LEFTSTICK")
           /\ (n \div 2048) % 2 = Held(p, "RIGHTSTICK")
           /\ (n \div 4096) % 2 = Held(p, "GUIDE") /\ (n \div 8192) % 2 = Held(p, "BACK")
<1>1. n \in Nat
  BY ButtonSplits
<1>2. PICK h1, h2, h3 :
        /\ Splits(n, Held(p, "X"), Held(p, "A"), Held(p, "B"), Held(p, "Y"), h1)
        /\ Splits(h1, Held(p, "LEFTSHOULDER"), Held(p, "RIGHTSHOULDER"),
                      Pulled(p, "LEFT"), Pulled(p, "RIGHT"), h2)
        /\ Splits(h2, 0, Held(p, "START"), Held(p, "LEFTSTICK"), Held(p, "RIGHTSTICK"), h3)
        /\ Splits(h3, Held(p, "GUIDE"), Held(p, "BACK"), 0, 0, 0)
  BY ButtonSplits, SMT
<1>3. /\ 1 \in Nat \ {0} /\ 16 \in Nat \ {0} /\ 256 \in Nat \ {0} /\ 4096 \in Nat \ {0}
      /\ 2 * 1 = 2 /\ 4 * 1 = 4 /\ 8 * 1 = 8 /\ 16 * 1 = 16
      /\ 2 * 16 = 32 /\ 4 * 16 = 64 /\ 8 * 16 = 128 /\ 16 * 16 = 256
      /\ 2 * 256 = 512 /\ 4 * 256 = 1024 /\ 8 * 256 = 2048 /\ 16 * 256 = 4096
      /\ 2 * 4096 = 8192
  OBVIOUS
<1>4. Times(n, 1, n)
  BY <1>1, TimesIntro
<1>5. /\ (n \div 1) % 2 = Held(p, "X") /\ (n \div (2 * 1)) % 2 = Held(p, "A")
      /\ (n \div (4 * 1)) % 2 = Held(p, "B") /\ (n \div (8 * 1)) % 2 = Held(p, "Y")
      /\ Times(n, 16 * 1, h1)
  BY <1>2, <1>3, <1>4, FourBits, SMT
<1>6. /\ (n \div 16) % 2 = Held(p, "LEFTSHOULDER")
      /\ (n \div (2 * 16)) % 2 = Held(p, "RIGHTSHOULDER")
      /\ (n \div (4 * 16)) % 2 = Pulled(p, "LEFT")
      /\ (n \div (8 * 16)) % 2 = Pulled(p, "RIGHT")
      /\ Times(n, 16 * 16, h2)
  <2>1. Times(n, 16, h1)
    BY <1>3, <1>5, SMT
  <2> QED
    BY <1>2, <1>3, <2>1, FourBits, SMT
<1>7. /\ (n \div 256) % 2 = 0 /\ (n \div (2 * 256)) % 2 = Held(p, "START")
      /\ (n \div (4 * 256)) % 2 = Held(p, "LEFTSTICK")
      /\ (n \div (8 * 256)) % 2 = Held(p, "RIGHTSTICK")
      /\ Times(n, 16 * 256, h3)
  <2>1. Times(n, 256, h2)
    BY <1>3, <1>6, SMT
  <2> QED
    BY <1>2, <1>3, <2>1, FourBits, SMT
<1>8. /\ (n \div 4096) % 2 = Held(p, "GUIDE")
      /\ (n \div (2 * 4096)) % 2 = Held(p, "BACK")
  <2>1. Times(n, 4096, h3)
    BY <1>3, <1>7, SMT
  <2> QED
    BY <1>2, <1>3, <2>1, FourBits, SMT
<1> QED
  BY <1>3, <1>5, <1>6, <1>7, <1>8, SMT

-----------------------------------------------------------------------------
\* The characters of a state message.

\* The firmware reads a digit as hexlify wrote it.
LEMMA HexRound ==
    ASSUME NEW n \in 0 .. 15
    PROVE  /\ HexVal(HexChar(n)) = n /\ HexChar(n) \in 0 .. 255
           /\ HexChar(n) \notin {CR, LF} /\ n \in Nibble /\ n # NoDigit
BY DEF HexVal, HexChar, CR, LF, NoDigit, Nibble

\* A byte is the sum of its two digits.
LEMMA ByteHalves ==
    ASSUME NEW v \in Byte
    PROVE  /\ High(v, 16) \in 0 .. 15 /\ Low(v, 16) \in 0 .. 15
           /\ 16 * High(v, 16) + Low(v, 16) = v
BY DEF Byte, High, Low

Digit(r, k) ==
    IF k % 2 = 1 THEN High(r[(k + 1) \div 2], 16) ELSE Low(r[(k + 1) \div 2], 16)

\* A state message: 14 hexadecimal digits and a line end
IsMessage(m) ==
    /\ m \in Seq(0 .. 255) /\ Len(m) = 15 /\ m[15] = LF
    /\ \A k \in 1 .. 14 : m[k] \notin {CR, LF} /\ HexVal(m[k]) \in Nibble

\* A function on 1 .. n is a sequence.
LEMMA FunctionIsSeq ==
    ASSUME NEW S, NEW n \in Nat, NEW f \in [1 .. n -> S]
    PROVE  f \in Seq(S) /\ Len(f) = n
<1>1. f \in Seq(S)
  <2>1. f \in UNION {[1 .. k -> S] : k \in Nat}
    OBVIOUS
  <2> QED
    BY <2>1, SeqDef, Zenon
<1>2. DOMAIN f = 1 .. n /\ Len(f) \in Nat /\ DOMAIN f = 1 .. Len(f)
  BY <1>1
<1> QED
  BY <1>1, <1>2

\* hexlify of seven bytes, digit by digit.
LEMMA LineFacts ==
    ASSUME NEW r, Len(r) = 7, \A i \in 1 .. 7 : r[i] \in Byte
    PROVE  IsMessage(Line(r)) /\ \A k \in 1 .. 14 : HexVal(Line(r)[k]) = Digit(r, k)
<1>1. \A k \in 1 .. 14 : Digit(r, k) \in 0 .. 15
  <2> SUFFICES ASSUME NEW k \in 1 .. 14 PROVE Digit(r, k) \in 0 .. 15
    OBVIOUS
  <2>1. (k + 1) \div 2 \in 1 .. 7
    OBVIOUS
  <2> QED
    BY <2>1, ByteHalves DEF Digit
<1>2. PICK d : d = [k \in 1 .. 14 |-> HexChar(Digit(r, k))]
  BY Zenon
<1>3. \A k \in 1 .. 14 : /\ d[k] \in 0 .. 255 /\ d[k] \notin {CR, LF}
                         /\ HexVal(d[k]) \in Nibble /\ HexVal(d[k]) = Digit(r, k)
  <2> SUFFICES ASSUME NEW k \in 1 .. 14
               PROVE  /\ d[k] \in 0 .. 255 /\ d[k] \notin {CR, LF}
                      /\ HexVal(d[k]) \in Nibble /\ HexVal(d[k]) = Digit(r, k)
    OBVIOUS
  <2>1. d[k] = HexChar(Digit(r, k))
    BY <1>2
  <2>2. Digit(r, k) \in 0 .. 15
    BY <1>1
  <2> QED
    BY <2>1, <2>2, HexRound, SMTT(30)
<1>0. PICK S : S = 0 .. 255
  BY Zenon
<1>4. PICK n \in Nat : n = 14
  OBVIOUS
<1>5. d \in Seq(S) /\ Len(d) = n
  <2>1. d \in [1 .. n -> S]
    BY <1>2, <1>3, <1>0, <1>4, Zenon
  <2> QED
    BY <2>1, FunctionIsSeq, Zenon
<1>6. Line(r) = d \o <<LF>>
  <2>1. 2 * Len(r) = 14
    OBVIOUS
  <2>2. [k \in 1 .. 2 * Len(r) |->
            LET byte == r[(k + 1) \div 2]
            IN  HexChar(IF k % 2 = 1 THEN High(byte, 16) ELSE Low(byte, 16))] = d
    BY <1>2, <2>1 DEF Digit
  <2> QED
    BY <2>2, Zenon DEF Line
<1>7. PICK m : m = d \o <<LF>>
  BY Zenon
<1>8. /\ m \in Seq(S) /\ Len(m) = 15 /\ m[15] = LF
      /\ \A k \in 1 .. 14 : m[k] = d[k]
  <2>1. PICK e : e = <<LF>>
    BY Zenon
  <2>2. e \in Seq(S) /\ Len(e) = 1 /\ e[1] = LF
    BY <1>0, <2>1 DEF LF
  <2>3. /\ m \in Seq(S) /\ Len(m) = Len(d) + Len(e)
        /\ \A i \in 1 .. Len(d) + Len(e) :
              m[i] = IF i <= Len(d) THEN d[i] ELSE e[i - Len(d)]
    BY <1>5, <1>7, <2>1, <2>2, ConcatProperties
  <2> QED
    BY <1>4, <1>5, <2>2, <2>3
<1>9. m = Line(r)
  BY <1>6, <1>7, SMTT(30)
<1>10. IsMessage(m) /\ \A k \in 1 .. 14 : HexVal(m[k]) = Digit(r, k)
  BY <1>3, <1>0, <1>8 DEF IsMessage
<1> QED
  BY <1>9, <1>10, Zenon

\* Every code of the table of hats is a nibble.
LEMMA HatType ==
    ASSUME NEW i \in 1 .. 15
    PROVE  hatcodes[i] \in 0 .. 8
BY DEF hatcodes

StateBytes(p) ==
    Pack(hatcodes[HatIndex(p) + 1], Buttons(p),
         [i \in 1 .. 4 |-> AxisByte(p.axis[axismapping[i]])])

\* The four stick bytes are bytes.
LEMMA AxisTypes ==
    ASSUME NEW p \in Gamepad
    PROVE  /\ p.axis["LEFTX"] \in Int16 /\ p.axis["LEFTY"] \in Int16
           /\ p.axis["RIGHTX"] \in Int16 /\ p.axis["RIGHTY"] \in Int16
<1>1. p.axis \in [{Sticks[i] : i \in 1 .. 4} -> Int16]
  BY DEF Gamepad
<1>2. /\ Sticks[1] = "LEFTX" /\ Sticks[2] = "LEFTY"
      /\ Sticks[3] = "RIGHTX" /\ Sticks[4] = "RIGHTY"
  BY DEF Sticks
<1>3. /\ "LEFTX" \in {Sticks[i] : i \in 1 .. 4} /\ "LEFTY" \in {Sticks[i] : i \in 1 .. 4}
      /\ "RIGHTX" \in {Sticks[i] : i \in 1 .. 4} /\ "RIGHTY" \in {Sticks[i] : i \in 1 .. 4}
  BY <1>2
<1> QED
  BY <1>1, <1>3

\* The seven bytes of a state are bytes.
LEMMA StateByteFacts ==
    ASSUME NEW p \in Gamepad, HatIndex(p) + 1 \in 1 .. 15, NEW r, r = StateBytes(p)
    PROVE  /\ Len(r) = 7 /\ \A i \in 1 .. 7 : r[i] \in Byte
           /\ r[1] = hatcodes[HatIndex(p) + 1]
           /\ 256 * r[2] + r[3] = Buttons(p)
           /\ r[4] = AxisByte(p.axis["LEFTX"]) /\ r[5] = AxisByte(p.axis["LEFTY"])
           /\ r[6] = AxisByte(p.axis["RIGHTX"]) /\ r[7] = AxisByte(p.axis["RIGHTY"])
<1>1. PICK h \in Byte : h = hatcodes[HatIndex(p) + 1]
  BY HatType DEF Byte
<1>2. PICK n \in Nat : n = Buttons(p) /\ n <= 65535
  BY ButtonSplits
<1>3. High(n, 256) \in Byte /\ Low(n, 256) \in Byte /\ 256 * High(n, 256) + Low(n, 256) = n
  <2>1. PICK q \in Int : q = n \div 256 /\ 256 * q <= n /\ n < 256 * q + 256
    BY Div256
  <2>2. q \in 0 .. 255
    BY <1>2, <2>1
  <2>3. Low(n, 256) \in 0 .. 255 /\ Low(n, 256) = n - 256 * q
    BY <2>1 DEF Low
  <2> QED
    BY <2>1, <2>2, <2>3 DEF High, Byte
<1>4. /\ p.axis["LEFTX"] \in Int16 /\ p.axis["LEFTY"] \in Int16
      /\ p.axis["RIGHTX"] \in Int16 /\ p.axis["RIGHTY"] \in Int16
  BY AxisTypes
<1>5. PICK x1 \in Byte, x2 \in Byte, x3 \in Byte, x4 \in Byte :
          /\ x1 = AxisByte(p.axis["LEFTX"]) /\ x2 = AxisByte(p.axis["LEFTY"])
          /\ x3 = AxisByte(p.axis["RIGHTX"]) /\ x4 = AxisByte(p.axis["RIGHTY"])
  BY <1>4, AxisFits DEF StickByte
<1>6. PICK x : x = [i \in 1 .. 4 |-> AxisByte(p.axis[axismapping[i]])]
  BY Zenon
<1>7. x[1] = x1 /\ x[2] = x2 /\ x[3] = x3 /\ x[4] = x4
  <2>1. /\ axismapping[1] = "LEFTX" /\ axismapping[2] = "LEFTY"
        /\ axismapping[3] = "RIGHTX" /\ axismapping[4] = "RIGHTY"
    BY DEF axismapping, Sticks
  <2> QED
    BY <1>5, <1>6, <2>1
<1>8. r = <<h, High(n, 256), Low(n, 256), x1, x2, x3, x4>>
  BY <1>1, <1>2, <1>6, <1>7 DEF StateBytes, Pack
<1>9. /\ Len(r) = 7 /\ r[1] = h /\ r[2] = High(n, 256) /\ r[3] = Low(n, 256)
      /\ r[4] = x1 /\ r[5] = x2 /\ r[6] = x3 /\ r[7] = x4
  BY <1>8
<1>10. \A i \in 1 .. 7 : r[i] \in Byte
  <2> SUFFICES ASSUME NEW i \in 1 .. 7 PROVE r[i] \in Byte
    OBVIOUS
  <2>1. i = 1 \/ i = 2 \/ i = 3 \/ i = 4 \/ i = 5 \/ i = 6 \/ i = 7
    OBVIOUS
  <2> QED
    BY <2>1, <1>3, <1>9
<1> QED
  BY <1>1, <1>2, <1>3, <1>5, <1>9, <1>10

\* A state message is a message, and its digits are those of its bytes.
LEMMA MessageFacts ==
    ASSUME NEW p \in Gamepad, HatIndex(p) + 1 \in 1 .. 15
    PROVE  /\ IsMessage(StateMessage(p))
           /\ \A k \in 1 .. 14 : HexVal(StateMessage(p)[k]) = Digit(StateBytes(p), k)
<1>1. PICK r : r = StateBytes(p)
  OBVIOUS
<1>2. StateMessage(p) = Line(r)
  BY <1>1 DEF StateMessage, StateBytes
<1> QED
  BY <1>1, <1>2, StateByteFacts, LineFacts

-----------------------------------------------------------------------------
\* A message on its way: the inductive invariant.

\* The hat of gamepad state p has a code: not all four directions are held
HasCode(p) == HatIndex(p) + 1 \in DOMAIN hatcodes

\* The line holds the digits of message m up to what is still on the wire.
Underway(m, w, ln) ==
    /\ Len(ln) + Len(w) = 15
    /\ \A k \in 1 .. Len(w) : w[k] = m[Len(ln) + k]
    /\ \A k \in 1 .. Len(ln) : ln[k] = HexVal(m[k])

\* The inductive invariant.
WireInv ==
    /\ ParserInv
    /\ oob = FALSE
    /\ gamepad \in Gamepad
    /\ wire \in Seq(0 .. 255)
    /\ wire # <<>> => /\ status = "running"
                      /\ HasCode(gamepad)
                      /\ Underway(StateMessage(gamepad), wire, line)
    /\ wire = <<>> => line = <<>>
    /\ Sent => /\ HasCode(gamepad)
               /\ \A k \in Position : pad[k] = HexVal(StateMessage(gamepad)[k + 1])

\* A message just written is underway, and nothing of it is parsed.
LEMMA UnderwayStart ==
    ASSUME NEW m, IsMessage(m)
    PROVE  Underway(m, m, <<>>)
BY DEF IsMessage, Underway

\* The next character of a message is a digit of it, or its line end.
LEMMA UnderwayNext ==
    ASSUME NEW m, IsMessage(m), NEW w \in Seq(0 .. 255), w # <<>>,
           NEW ln \in Seq(Nibble), Underway(m, w, ln)
    PROVE  /\ Head(w) \in 0 .. 255 /\ Tail(w) \in Seq(0 .. 255) /\ Len(ln) <= 14
           /\ Len(ln) < 14 => /\ Head(w) \notin {CR, LF} /\ HexVal(Head(w)) # NoDigit
                              /\ Tail(w) # <<>>
                              /\ Underway(m, Tail(w), Append(ln, HexVal(Head(w))))
           /\ Len(ln) = 14 => /\ Head(w) = LF /\ Tail(w) = <<>>
                              /\ \A k \in 0 .. 13 : ln[k + 1] = HexVal(m[k + 1])
<1>1. /\ Len(w) \in Nat /\ Len(w) >= 1 /\ Len(ln) \in Nat
      /\ Head(w) = w[1] /\ Head(w) \in 0 .. 255 /\ Tail(w) \in Seq(0 .. 255)
      /\ Len(Tail(w)) = Len(w) - 1
      /\ \A k \in 1 .. Len(w) - 1 : Tail(w)[k] = w[k + 1]
  BY HeadTailProperties
<1>2. Len(ln) <= 14 /\ Head(w) = m[Len(ln) + 1]
  BY <1>1 DEF Underway
<1>3. ASSUME Len(ln) < 14
      PROVE  /\ Head(w) \notin {CR, LF} /\ HexVal(Head(w)) # NoDigit /\ Tail(w) # <<>>
             /\ Underway(m, Tail(w), Append(ln, HexVal(Head(w))))
  <2>0. Len(ln) + 1 \in 1 .. 14
    BY <1>1, <1>3
  <2>1. PICK v \in Nibble : v = HexVal(Head(w)) /\ v = HexVal(m[Len(ln) + 1])
    BY <1>2, <2>0, SMTT(30) DEF IsMessage
  <2>2. Head(w) \notin {CR, LF}
    BY <1>2, <2>0, SMTT(30) DEF IsMessage
  <2>3. v # NoDigit
    BY DEF Nibble, NoDigit
  <2>4. PICK a \in Seq(Nibble) : a = Append(ln, v)
    BY AppendProperties, Zenon
  <2>5. /\ Len(a) = Len(ln) + 1 /\ a[Len(ln) + 1] = v
        /\ \A k \in 1 .. Len(ln) : a[k] = ln[k]
    BY <2>4, AppendProperties
  <2>6. PICK t : t = Tail(w)
    BY Zenon
  <2>7. Len(a) + Len(t) = 15
    BY <1>1, <2>5, <2>6 DEF Underway
  <2>8. \A k \in 1 .. Len(t) : t[k] = m[Len(a) + k]
    <3> SUFFICES ASSUME NEW k \in 1 .. Len(t) PROVE t[k] = m[Len(a) + k]
      BY SMTT(30)
    <3>1. k \in 1 .. Len(w) - 1 /\ k + 1 \in 1 .. Len(w)
      BY <1>1, <2>6
    <3>2. t[k] = w[k + 1] /\ w[k + 1] = m[Len(ln) + (k + 1)]
      BY <1>1, <2>6, <3>1 DEF Underway
    <3>3. Len(ln) + (k + 1) = Len(a) + k
      BY <1>1, <2>5
    <3> QED
      BY <3>2, <3>3
  <2>9. \A k \in 1 .. Len(a) : a[k] = HexVal(m[k])
    <3> SUFFICES ASSUME NEW k \in 1 .. Len(a) PROVE a[k] = HexVal(m[k])
      OBVIOUS
    <3>1. k \in 1 .. Len(ln) \/ k = Len(ln) + 1
      BY <1>1, <2>5
    <3> QED
      BY <2>1, <2>5, <3>1 DEF Underway
  <2>10. Len(t) # 0
    BY <1>1, <1>3, <2>5, <2>7
  <2>11. t # <<>>
    BY <2>10
  <2>12. Underway(m, t, a)
    BY <2>7, <2>8, <2>9 DEF Underway
  <2> QED
    BY <2>1, <2>2, <2>3, <2>4, <2>6, <2>11, <2>12, Zenon
<1>4. ASSUME Len(ln) = 14
      PROVE  /\ Head(w) = LF /\ Tail(w) = <<>>
             /\ \A k \in 0 .. 13 : ln[k + 1] = HexVal(m[k + 1])
  <2>1. Len(Tail(w)) = 0
    BY <1>1, <1>4 DEF Underway
  <2>2. Tail(w) = <<>>
    BY <1>1, <2>1, EmptySeq, Zenon
  <2>3. Head(w) = LF
    BY <1>2, <1>4 DEF IsMessage
  <2>4. \A k \in 0 .. 13 : ln[k + 1] = HexVal(m[k + 1])
    BY <1>4 DEF Underway
  <2> QED
    BY <2>2, <2>3, <2>4, SMTT(30)
<1> QED
  BY <1>1, <1>2, <1>3, <1>4, Zenon

\* The nibbles of b[7].
LEMMA IsDigits == Position = 0 .. 13
BY WireAssumption DEF Position

\* bridge.py writes a message only when the line is empty.
LEMMA ControllerInv ==
    ASSUME WireInv, NEW p \in Inputs, ControllerState(p)
    PROVE  WireInv'
<1>1. /\ wire = <<>> /\ line = <<>> /\ UNCHANGED parserVars
      /\ p \in Gamepad
  BY InputsAssumption DEF WireInv, ControllerState
<1>2. ParserInv' /\ oob' = FALSE /\ line' = <<>> /\ pad' = pad
  BY <1>1 DEF WireInv, ParserInv, ParserTypeOK, PadIsLastGoodLine, LineStored, parserVars
<1>3. CASE HasCode(p)
  <2>1. wire' = StateMessage(p) /\ gamepad' = p /\ status' = "running"
    BY <1>3 DEF ControllerState, HasCode
  <2>2. HatIndex(p) + 1 \in 1 .. 15
    BY <1>3 DEF HasCode, hatcodes
  <2>3. PICK m : m = StateMessage(p)
    OBVIOUS
  <2>4. IsMessage(m)
    BY <1>1, <2>2, <2>3, MessageFacts
  <2>5. m \in Seq(0 .. 255) /\ m # <<>>
    <3>1. m \in Seq(0 .. 255) /\ Len(m) = 15
      BY <2>4 DEF IsMessage
    <3>2. Len(<<>>) = 0 /\ 15 # 0
      OBVIOUS
    <3> QED
      BY <3>1, <3>2, Zenon
  <2>6. Underway(m, m, <<>>)
    BY <2>4, UnderwayStart
  <2> QED
    BY <1>1, <1>2, <1>3, <2>1, <2>3, <2>5, <2>6, Zenon DEF WireInv, Sent
<1>4. CASE ~HasCode(p)
  <2>1. wire' = wire /\ gamepad' = gamepad /\ status' = "ended"
    BY <1>4 DEF ControllerState, HasCode
  <2>2. ~Sent'
    BY <2>1 DEF Sent
  <2>3. gamepad \in Gamepad /\ wire \in Seq(0 .. 255)
    BY DEF WireInv
  <2> QED
    BY <1>1, <1>2, <2>1, <2>2, <2>3, Zenon DEF WireInv
<1> QED
  BY <1>3, <1>4

\* The parser takes a character of the message.
LEMMA ParseNextInv ==
    ASSUME WireInv, ParseNext
    PROVE  WireInv'
<1>1. PICK m, w, ln, pd : m = StateMessage(gamepad) /\ w = wire /\ ln = line /\ pd = pad
  BY Zenon
<1>2. /\ ParserInv /\ oob = FALSE /\ gamepad \in Gamepad /\ w \in Seq(0 .. 255) /\ w # <<>>
      /\ status = "running" /\ HasCode(gamepad) /\ Underway(m, w, ln)
  BY <1>1 DEF WireInv, ParseNext
<1>3. /\ Parse(Head(w)) /\ wire' = Tail(w) /\ gamepad' = gamepad /\ status' = status
  BY <1>1 DEF ParseNext
<1>4. IsMessage(m) /\ ln \in Seq(Nibble)
  <2>1. HatIndex(gamepad) + 1 \in 1 .. 15
    BY <1>2 DEF HasCode, hatcodes
  <2> QED
    BY <1>1, <1>2, <2>1, MessageFacts DEF ParserInv, ParserTypeOK
<1>5. /\ Head(w) \in 0 .. 255 /\ Tail(w) \in Seq(0 .. 255) /\ Len(ln) <= 14
      /\ Len(ln) < 14 => /\ Head(w) \notin {CR, LF} /\ HexVal(Head(w)) # NoDigit
                         /\ Tail(w) # <<>>
                         /\ Underway(m, Tail(w), Append(ln, HexVal(Head(w))))
      /\ Len(ln) = 14 => /\ Head(w) = LF /\ Tail(w) = <<>>
                         /\ \A k \in 0 .. 13 : ln[k + 1] = HexVal(m[k + 1])
  BY <1>2, <1>4, UnderwayNext, Zenon
<1>6. /\ ParserInv' /\ line' = LineAfter(ln, Head(w))
      /\ ~oob' => pad' = PadAfter(ln, pd, Head(w))
      /\ oob' => Len(ln) = Digits /\ Head(w) \notin {CR, LF}
  BY <1>1, <1>2, <1>3, <1>5, ParseEffect, Zenon
<1>7. StateMessage(gamepad') = m /\ (HasCode(gamepad))'
  BY <1>1, <1>2, <1>3 DEF HasCode
<1>8. PICK n \in Nat : n = Len(ln) /\ n <= 14
  BY <1>4, <1>5
<1>9. CASE Len(ln) < 14
  <2>1. ~oob'
    <3>0. n < 14
      BY <1>8, <1>9, Zenon
    <3>1. n # Digits
      BY <3>0, WireAssumption
    <3> QED
      BY <1>6, <1>8, <3>1, Zenon
  <2>2. line' = Append(ln, HexVal(Head(w)))
    BY <1>5, <1>6, <1>9 DEF LineAfter
  <2>3. wire' # <<>> /\ Underway(m, wire', line')
    BY <1>3, <1>5, <1>9, <2>2
  <2>4. oob' = FALSE
    BY <1>6, <2>1 DEF ParserInv, ParserTypeOK
  <2> QED
    BY <1>2, <1>3, <1>5, <1>6, <1>7, <2>3, <2>4, Zenon DEF WireInv, Sent
<1>10. CASE Len(ln) = 14
  <2>1. ~oob' /\ line' = <<>>
    BY <1>5, <1>6, <1>10 DEF LineAfter
  <2>2. pad' = [k \in Position |-> ln[k + 1]]
    BY <1>5, <1>6, <1>10, <2>1, WireAssumption DEF PadAfter
  <2>3. \A k \in Position : pad'[k] = HexVal(m[k + 1])
    BY <1>5, <1>10, <2>2, IsDigits
  <2>4. oob' = FALSE
    BY <1>6, <2>1 DEF ParserInv, ParserTypeOK
  <2>5. wire' = <<>>
    BY <1>3, <1>5, <1>10
  <2> QED
    BY <1>2, <1>3, <1>5, <1>6, <1>7, <2>1, <2>3, <2>4, <2>5, Zenon DEF WireInv, Sent
<1>11. n < 14 \/ n = 14
  BY <1>8
<1> QED
  BY <1>8, <1>9, <1>10, <1>11, Zenon

\* The message that is being parsed is the one last sent, and every message
\* finds the parser at the beginning of a line.
THEOREM WireInvariance == WireSpec => []WireInv
<1>1. WireInit => WireInv
  <2> SUFFICES ASSUME WireInit PROVE WireInv
    OBVIOUS
  <2>1. ParserInv /\ oob = FALSE /\ line = <<>>
    BY ParserInitInv, Zenon DEF WireInit, ParserInit
  <2>2. Idle \in Gamepad
    BY DEF Idle, Gamepad, Int16
  <2>3. wire = <<>> /\ ~Sent /\ gamepad \in Gamepad
    BY <2>2 DEF WireInit, Sent
  <2>4. wire \in Seq(0 .. 255)
    BY <2>3
  <2> QED
    BY <2>1, <2>3, <2>4 DEF WireInv
<1>2. WireInv /\ [WireNext]_wireVars => WireInv'
  <2> SUFFICES ASSUME WireInv, [WireNext]_wireVars PROVE WireInv'
    OBVIOUS
  <2>1. CASE \E p \in Inputs : ControllerState(p)
    BY <2>1, ControllerInv
  <2>2. CASE ParseNext
    BY <2>2, ParseNextInv
  <2>3. CASE UNCHANGED wireVars
    BY <2>3 DEF wireVars, parserVars, WireInv, Sent, ParserInv, ParserTypeOK,
                PadIsLastGoodLine, LineStored
  <2> QED
    BY <2>1, <2>2, <2>3 DEF WireNext
<1> QED
  BY <1>1, <1>2, PTL DEF WireSpec

-----------------------------------------------------------------------------
\* The report.

\* The bytes of the report are those the message was made of.
LEMMA PadBytes ==
    ASSUME NEW r, NEW i \in 0 .. 6, r[i + 1] \in Byte,
           \A k \in 0 .. 13 : pad[k] = Digit(r, k + 1)
    PROVE  PadByte(i) = r[i + 1]
<1>1. 2 * i \in 0 .. 13 /\ 2 * i + 1 \in 0 .. 13
  OBVIOUS
<1>2. ((2 * i) + 1) % 2 = 1 /\ (((2 * i) + 1) + 1) \div 2 = i + 1
  OBVIOUS
<1>3. ((2 * i + 1) + 1) % 2 # 1 /\ (((2 * i + 1) + 1) + 1) \div 2 = i + 1
  OBVIOUS
<1>4. pad[2 * i] = High(r[i + 1], 16)
  BY <1>1, <1>2 DEF Digit
<1>5. pad[2 * i + 1] = Low(r[i + 1], 16)
  BY <1>1, <1>3 DEF Digit
<1> QED
  BY <1>4, <1>5, ByteHalves DEF PadByte

\* The report is the state that was sent, once its message is parsed.
LEMMA ReportFacts ==
    ASSUME WireInv, Sent
    PROVE  /\ gamepad \in Gamepad /\ HatIndex(gamepad) + 1 \in 1 .. 15
           /\ Report.HAT = hatcodes[HatIndex(gamepad) + 1]
           /\ Report.Button = Buttons(gamepad)
           /\ Report.LX = AxisByte(gamepad.axis["LEFTX"])
           /\ Report.LY = AxisByte(gamepad.axis["LEFTY"])
           /\ Report.RX = AxisByte(gamepad.axis["RIGHTX"])
           /\ Report.RY = AxisByte(gamepad.axis["RIGHTY"])
<1>1. PICK p : p = gamepad
  OBVIOUS
<1>2. p \in Gamepad /\ HatIndex(p) + 1 \in 1 .. 15
  BY <1>1 DEF WireInv, HasCode, hatcodes
<1>3. PICK r : r = StateBytes(p)
  OBVIOUS
<1>4. /\ Len(r) = 7 /\ \A i \in 1 .. 7 : r[i] \in Byte
      /\ r[1] = hatcodes[HatIndex(p) + 1]
      /\ 256 * r[2] + r[3] = Buttons(p)
      /\ r[4] = AxisByte(p.axis["LEFTX"]) /\ r[5] = AxisByte(p.axis["LEFTY"])
      /\ r[6] = AxisByte(p.axis["RIGHTX"]) /\ r[7] = AxisByte(p.axis["RIGHTY"])
  BY <1>2, <1>3, StateByteFacts
<1>5. \A k \in 0 .. 13 : pad[k] = Digit(r, k + 1)
  <2>1. \A k \in 0 .. 13 : pad[k] = HexVal(StateMessage(p)[k + 1])
    BY <1>1, IsDigits, SMTT(30) DEF WireInv
  <2>2. \A k \in 1 .. 14 : HexVal(StateMessage(p)[k]) = Digit(r, k)
    BY <1>2, <1>3, MessageFacts
  <2> QED
    BY <2>1, <2>2
<1>6. \A i \in 0 .. 6 : PadByte(i) = r[i + 1]
  BY <1>4, <1>5, PadBytes
<1>7. /\ PadByte(0) = r[1] /\ PadByte(1) = r[2] /\ PadByte(2) = r[3] /\ PadByte(3) = r[4]
      /\ PadByte(4) = r[5] /\ PadByte(5) = r[6] /\ PadByte(6) = r[7]
  BY <1>6
<1>8. /\ Report.HAT = r[1] /\ Report.Button = 256 * r[2] + r[3] /\ Report.LX = r[4]
      /\ Report.LY = r[5] /\ Report.RX = r[6] /\ Report.RY = r[7]
  BY <1>7 DEF Report
<1> QED
  BY <1>1, <1>2, <1>4, <1>8

\* Whatever the player does, the wire carries hex digits and line ends, and no
\* state message makes the firmware write outside b[] (Joystick.c:88).
THEOREM WireTypeCorrect == WireSpec => []WireTypeOK
<1>1. WireInv => WireTypeOK
  <2> SUFFICES ASSUME WireInv PROVE WireTypeOK
    OBVIOUS
  <2>1. ParserTypeOK /\ ~oob
    BY DEF WireInv, ParserInv
  <2>2. \A k \in DOMAIN wire : wire[k] = LF \/ HexVal(wire[k]) # NoDigit
    <3> SUFFICES ASSUME NEW k \in DOMAIN wire
                 PROVE  wire[k] = LF \/ HexVal(wire[k]) # NoDigit
      OBVIOUS
    <3>1. PICK w, ln, p, m : w = wire /\ ln = line /\ p = gamepad /\ m = StateMessage(p)
      BY Zenon
    <3>2. w \in Seq(0 .. 255) /\ ln \in Seq(Nibble)
      BY <3>1 DEF WireInv, ParserInv, ParserTypeOK
    <3>3. k \in 1 .. Len(w) /\ w # <<>>
      BY <3>1, <3>2, LenProperties, EmptySeq
    <3>4. HasCode(p) /\ p \in Gamepad /\ Underway(m, w, ln)
      BY <3>1, <3>3 DEF WireInv
    <3>5. IsMessage(m)
      <4>1. HatIndex(p) + 1 \in 1 .. 15
        BY <3>4 DEF HasCode, hatcodes
      <4> QED
        BY <3>1, <3>4, <4>1, MessageFacts
    <3>6. PICK j : j = Len(ln) + k
      OBVIOUS
    <3>7. w[k] = m[j] /\ j \in 1 .. 15
      <4>1. PICK c \in Nat, d \in Nat : c = Len(ln) /\ d = Len(w) /\ c + d = 15
        BY <3>2, <3>4 DEF Underway
      <4>2. k \in Nat /\ 1 <= k /\ k <= d /\ j = c + k
        BY <3>3, <3>6, <4>1
      <4>3. j \in 1 .. 15
        <5>1. c + d = 15
          BY <4>1
        <5>2. c + k \in 1 .. 15
          BY <4>2, <5>1
        <5> QED
          BY <4>2, <5>2
      <4>4. w[k] = m[j]
        BY <3>3, <3>4, <3>6 DEF Underway
      <4> QED
        BY <4>3, <4>4
    <3>8. j = 15 \/ j \in 1 .. 14
      BY <3>7
    <3>9. m[j] = LF \/ HexVal(m[j]) # NoDigit
      BY <3>5, <3>8, SMTT(30) DEF IsMessage, Nibble, NoDigit
    <3> QED
      BY <3>1, <3>7, <3>9, Zenon
  <2> QED
    BY <2>1, <2>2, Zenon DEF WireTypeOK
<1> QED
  BY <1>1, WireInvariance, PTL

\* The bit of a button that is on the gamepad.
LEMMA OneHeld ==
    ASSUME NEW p \in Gamepad, NEW s \in SdlButtons
    PROVE  (\E x \in p.held : ConsoleButton[x] = ConsoleButton[s]) <=> Held(p, s) = 1
<1>1. \A x, y \in SdlButtons : ConsoleButton[x] = ConsoleButton[y] => x = y
  BY DEF SdlButtons, ConsoleButton
<1>2. p.held \subseteq SdlButtons
  BY DEF Gamepad
<1> QED
  BY <1>1, <1>2 DEF Held

\* SELECT has no button on the gamepad.
LEMMA NoneHeld ==
    ASSUME NEW p \in Gamepad
    PROVE  \A x \in p.held : ConsoleButton[x] \notin {"SELECT", "ZL", "ZR"}
<1>1. p.held \subseteq SdlButtons
  BY DEF Gamepad
<1> QED
  BY <1>1 DEF SdlButtons, ConsoleButton

\* A trigger that is not at rest is pulled.
LEMMA TriggerPulled ==
    ASSUME NEW p \in Gamepad, NEW t \in Triggers
    PROVE  Pulled(p, t) = 1 <=> p.trigger[t] # 0
<1>1. p.trigger[t] \in Int
  BY DEF Gamepad, Int16
<1> QED
  BY <1>1 DEF Pulled, Abs, trigger_deadzone

Shows(p, name) ==
    \/ \E s \in p.held : ConsoleButton[s] = name
    \/ name = "ZL" /\ p.trigger["LEFT"] # 0
    \/ name = "ZR" /\ p.trigger["RIGHT"] # 0

\* The bit shows what ButtonsArrive asks for.
LEMMA ShowsHeld ==
    ASSUME NEW p \in Gamepad, NEW s \in SdlButtons
    PROVE  Shows(p, ConsoleButton[s]) <=> Held(p, s) = 1
<1>1. ConsoleButton[s] # "ZL" /\ ConsoleButton[s] # "ZR"
  BY DEF SdlButtons, ConsoleButton
<1> QED
  BY <1>1, OneHeld DEF Shows

\* The names of JoystickButtons_t.
LEMMA ButtonNames ==
    DOMAIN JoystickButtons =
        {"Y", "B", "A", "X", "L", "R", "ZL",
         "ZR", "SELECT", "START", "LCLICK", "RCLICK", "HOME", "CAPTURE"}
BY SMTT(30) DEF JoystickButtons

\* All fourteen buttons of the console.
LEMMA ButtonsShown ==
    ASSUME NEW p \in Gamepad, NEW n, n = Buttons(p), NEW name \in DOMAIN JoystickButtons
    PROVE  (n \div JoystickButtons[name]) % 2 = 1 <=> Shows(p, name)
<1>1. name \in {"Y", "B", "A", "X", "L", "R", "ZL",
                "ZR", "SELECT", "START", "LCLICK", "RCLICK", "HOME", "CAPTURE"}
  BY ButtonNames
<1>2. /\ JoystickButtons["Y"] = 1 /\ JoystickButtons["B"] = 2
      /\ JoystickButtons["A"] = 4 /\ JoystickButtons["X"] = 8
      /\ JoystickButtons["L"] = 16 /\ JoystickButtons["R"] = 32
      /\ JoystickButtons["ZL"] = 64 /\ JoystickButtons["ZR"] = 128
      /\ JoystickButtons["SELECT"] = 256 /\ JoystickButtons["START"] = 512
      /\ JoystickButtons["LCLICK"] = 1024 /\ JoystickButtons["RCLICK"] = 2048
      /\ JoystickButtons["HOME"] = 4096 /\ JoystickButtons["CAPTURE"] = 8192
  BY DEF JoystickButtons
<1>3. /\ "X" \in SdlButtons /\ ConsoleButton["X"] = "Y"
      /\ "A" \in SdlButtons /\ ConsoleButton["A"] = "B"
      /\ "B" \in SdlButtons /\ ConsoleButton["B"] = "A"
      /\ "Y" \in SdlButtons /\ ConsoleButton["Y"] = "X"
      /\ "LEFTSHOULDER" \in SdlButtons /\ ConsoleButton["LEFTSHOULDER"] = "L"
      /\ "RIGHTSHOULDER" \in SdlButtons /\ ConsoleButton["RIGHTSHOULDER"] = "R"
      /\ "START" \in SdlButtons /\ ConsoleButton["START"] = "START"
      /\ "LEFTSTICK" \in SdlButtons /\ ConsoleButton["LEFTSTICK"] = "LCLICK"
      /\ "RIGHTSTICK" \in SdlButtons /\ ConsoleButton["RIGHTSTICK"] = "RCLICK"
      /\ "GUIDE" \in SdlButtons /\ ConsoleButton["GUIDE"] = "HOME"
      /\ "BACK" \in SdlButtons /\ ConsoleButton["BACK"] = "CAPTURE"
  BY DEF SdlButtons, ConsoleButton
<1>4. /\ Shows(p, "Y") <=> Held(p, "X") = 1
      /\ Shows(p, "B") <=> Held(p, "A") = 1
      /\ Shows(p, "A") <=> Held(p, "B") = 1
      /\ Shows(p, "X") <=> Held(p, "Y") = 1
      /\ Shows(p, "L") <=> Held(p, "LEFTSHOULDER") = 1
      /\ Shows(p, "R") <=> Held(p, "RIGHTSHOULDER") = 1
      /\ Shows(p, "START") <=> Held(p, "START") = 1
      /\ Shows(p, "LCLICK") <=> Held(p, "LEFTSTICK") = 1
      /\ Shows(p, "RCLICK") <=> Held(p, "RIGHTSTICK") = 1
      /\ Shows(p, "HOME") <=> Held(p, "GUIDE") = 1
      /\ Shows(p, "CAPTURE") <=> Held(p, "BACK") = 1
  BY <1>3, ShowsHeld
<1>5. /\ Shows(p, "ZL") <=> Pulled(p, "LEFT") = 1
      /\ Shows(p, "ZR") <=> Pulled(p, "RIGHT") = 1
      /\ ~Shows(p, "SELECT")
  <2>1. "LEFT" \in Triggers /\ "RIGHT" \in Triggers
    BY DEF Triggers
  <2> QED
    BY <2>1, NoneHeld, TriggerPulled DEF Shows
<1> QED
  BY <1>1, <1>2, <1>4, <1>5, ButtonBits, SMTT(30)

\* For every gamepad state, not only those of a run: once its message has been
\* parsed the report presses exactly the buttons the player holds, under the
\* names bridge.py and Joystick.h give to the bits.
THEOREM ButtonsCorrect == WireSpec => []ButtonsArrive
<1>1. WireInv => ButtonsArrive
  <2> SUFFICES ASSUME WireInv, Sent,
                      NEW name \in DOMAIN JoystickButtons
               PROVE  (Report.Button \div JoystickButtons[name]) % 2 = 1
                        <=> Shows(gamepad, name)
    BY Zenon DEF ButtonsArrive, Shows
  <2>1. gamepad \in Gamepad /\ Report.Button = Buttons(gamepad)
    BY ReportFacts
  <2> QED
    BY <2>1, ButtonsShown
<1> QED
  BY <1>1, WireInvariance, PTL

\* The code of the hat at each index of hatcodes.
LEMMA HatTable ==
    ASSUME NEW x \in 0 .. 1, NEW y \in 0 .. 1, NEW z \in 0 .. 1, NEW u \in 0 .. 1,
           Four(x, y, z, u) # 15
    PROVE  LET h == hatcodes[Four(x, y, z, u) + 1] IN
           /\ h \in 0 .. 8
           /\ (x = 1 /\ z = 1) \/ (y = 1 /\ u = 1) => h = 8
           /\ x = 1 /\ z = 0 /\ y = 0 /\ u = 0 => h = 0
           /\ x = 1 /\ z = 0 /\ y = 1 /\ u = 0 => h = 1
           /\ x = 0 /\ z = 0 /\ y = 1 /\ u = 0 => h = 2
           /\ x = 0 /\ z = 1 /\ y = 1 /\ u = 0 => h = 3
           /\ x = 0 /\ z = 1 /\ y = 0 /\ u = 0 => h = 4
           /\ x = 0 /\ z = 1 /\ y = 0 /\ u = 1 => h = 5
           /\ x = 0 /\ z = 0 /\ y = 0 /\ u = 1 => h = 6
           /\ x = 1 /\ z = 0 /\ y = 0 /\ u = 1 => h = 7
           /\ x = 0 /\ z = 0 /\ y = 0 /\ u = 0 => h = 8
BY DEF Four, hatcodes

\* The directions each code stands for.
LEMMA HatDirs ==
    ASSUME NEW x \in 0 .. 1, NEW y \in 0 .. 1, NEW z \in 0 .. 1, NEW u \in 0 .. 1,
           Four(x, y, z, u) # 15, ~((x = 1 /\ z = 1) \/ (y = 1 /\ u = 1)),
           NEW h, h = hatcodes[Four(x, y, z, u) + 1], NEW d, d = HatDirections[h + 1]
    PROVE  ("UP" \in d <=> x = 1) /\ ("RIGHT" \in d <=> y = 1)
           /\ ("DOWN" \in d <=> z = 1) /\ ("LEFT" \in d <=> u = 1)
           /\ d \subseteq {"UP", "RIGHT", "DOWN", "LEFT"}
BY HatTable DEF HatDirections

\* The code of the hat is the direction held, case by case.
LEMMA HatShown ==
    ASSUME NEW p \in Gamepad, NEW h, h = hatcodes[HatIndex(p) + 1],
           HatIndex(p) + 1 \in 1 .. 15
    PROVE  /\ h + 1 \in 1 .. 9
           /\ HatDirections[h + 1] =
                IF \E o \in Opposites : o \subseteq p.dpad THEN {} ELSE p.dpad
<1>1. PICK D : D = p.dpad
  OBVIOUS
<1>2. D \subseteq {"UP", "RIGHT", "DOWN", "LEFT"}
  BY <1>1 DEF Gamepad
<1>3. (\E o \in Opposites : o \subseteq D) <=>
         ("UP" \in D /\ "DOWN" \in D) \/ ("LEFT" \in D /\ "RIGHT" \in D)
  BY DEF Opposites
<1>4. PICK x \in 0 .. 1, y \in 0 .. 1, z \in 0 .. 1, u \in 0 .. 1 :
          /\ x = Pressed(p, "UP") /\ y = Pressed(p, "RIGHT")
          /\ z = Pressed(p, "DOWN") /\ u = Pressed(p, "LEFT")
  BY HeldType
<1>5. HatIndex(p) = Four(x, y, z, u)
  BY <1>4, HatNibble
<1>6. Four(x, y, z, u) # 15
  BY <1>5
<1>7. /\ x = 1 <=> "UP" \in D
      /\ y = 1 <=> "RIGHT" \in D
      /\ z = 1 <=> "DOWN" \in D
      /\ u = 1 <=> "LEFT" \in D
  BY <1>1, <1>4 DEF Pressed
<1>8. h = hatcodes[Four(x, y, z, u) + 1] /\ h \in 0 .. 8
  BY <1>5, <1>6, HatTable
<1>9. CASE (x = 1 /\ z = 1) \/ (y = 1 /\ u = 1)
  <2>1. h = 8
    BY <1>6, <1>8, <1>9, HatTable
  <2>2. HatDirections[8 + 1] = {}
    BY DEF HatDirections
  <2> QED
    BY <1>1, <1>3, <1>7, <1>9, <2>1, <2>2, SMTT(30)
<1>10. CASE ~((x = 1 /\ z = 1) \/ (y = 1 /\ u = 1))
  <2>1. PICK d : d = HatDirections[h + 1]
    OBVIOUS
  <2>2. /\ ("UP" \in d <=> x = 1) /\ ("RIGHT" \in d <=> y = 1)
        /\ ("DOWN" \in d <=> z = 1) /\ ("LEFT" \in d <=> u = 1)
        /\ d \subseteq {"UP", "RIGHT", "DOWN", "LEFT"}
    BY <1>6, <1>8, <1>10, <2>1, HatDirs
  <2>3. d = D
    <3>1. \A e \in {"UP", "RIGHT", "DOWN", "LEFT"} : e \in d <=> e \in D
      BY <1>7, <2>2
    <3>2. \A e : e \in d <=> e \in D
      BY <1>2, <2>2, <3>1, Zenon
    <3> QED
      BY <3>2, Zenon
  <2> QED
    BY <1>1, <1>3, <1>7, <1>8, <1>10, <2>1, <2>3
<1> QED
  BY <1>9, <1>10

\* For every gamepad state, the hat shows the direction held and its centre for
\* opposite directions, and every stick the position it was read at.
THEOREM DirectionsCorrect == WireSpec => []DirectionsArrive
<1>1. WireInv => DirectionsArrive
  <2> SUFFICES ASSUME WireInv, Sent PROVE DirectionsArrive
    BY DEF DirectionsArrive
  <2>1. PICK p : p = gamepad
    OBVIOUS
  <2>2. /\ p \in Gamepad /\ HatIndex(p) + 1 \in 1 .. 15
        /\ Report.HAT = hatcodes[HatIndex(p) + 1]
        /\ Report.LX = AxisByte(p.axis["LEFTX"]) /\ Report.LY = AxisByte(p.axis["LEFTY"])
        /\ Report.RX = AxisByte(p.axis["RIGHTX"]) /\ Report.RY = AxisByte(p.axis["RIGHTY"])
    BY <2>1, ReportFacts
  <2>3. /\ Report.HAT + 1 \in 1 .. 9
        /\ HatDirections[Report.HAT + 1] =
             IF \E o \in Opposites : o \subseteq p.dpad THEN {} ELSE p.dpad
    BY <2>2, HatShown
  <2>4. DOMAIN HatDirections = 1 .. 9
    BY DEF HatDirections
  <2>5. /\ StickByte(p.axis["LEFTX"], Report.LX) /\ StickByte(p.axis["LEFTY"], Report.LY)
        /\ StickByte(p.axis["RIGHTX"], Report.RX) /\ StickByte(p.axis["RIGHTY"], Report.RY)
    BY <2>2, AxisTypes, AxisFits
  <2> QED
    BY <2>1, <2>3, <2>4, <2>5, Zenon DEF DirectionsArrive
<1> QED
  BY <1>1, WireInvariance, PTL

===============================================================================
