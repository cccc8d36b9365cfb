-------------------------------- MODULE Wire --------------------------------
(* A gamepad's state from SDL to the console: controller_states (bridge.py)   *)
(* packs it into a line of hex digits, Serial_Task (Joystick.c, LineParser)   *)
(* takes the line apart character by character, and GetNextReport puts the    *)
(* result in the USB report.  No character is lost here; see Link for that.   *)
EXTENDS LineParser, Encoding

CONSTANT Inputs     \* gamepad states: [held, dpad, trigger, axis]

ASSUME WireAssumption == Digits = 14    \* b[] has 7 bytes

SdlButtons == {"X", "A", "B", "Y", "LEFTSHOULDER", "RIGHTSHOULDER", "START",
               "LEFTSTICK", "RIGHTSTICK", "GUIDE", "BACK"}
Triggers == {"LEFT", "RIGHT"}
Sticks == <<"LEFTX", "LEFTY", "RIGHTX", "RIGHTY">>

Gamepad == [held : SUBSET SdlButtons,
            dpad : SUBSET {"UP", "RIGHT", "DOWN", "LEFT"},
            trigger : [Triggers -> Int16],
            axis : [{Sticks[i] : i \in 1..4} -> Int16]]

ASSUME InputsAssumption == \A p \in Inputs : p \in Gamepad

VARIABLES gamepad,  \* what the player holds, as last read by controller_states
          wire,     \* the characters written to the port and not yet parsed
          status    \* of bridge.py: "starting", "running" or "ended"

wireVars == <<parserVars, gamepad, wire, status>>

Idle == [held |-> {}, dpad |-> {}, trigger |-> [t \in Triggers |-> 0],
         axis |-> [a \in {Sticks[i] : i \in 1..4} |-> 0]]

WireInit ==
    /\ ParserInit
    /\ gamepad = Idle
    /\ wire = <<>>
    /\ status = "starting"

buttonmapping == <<"X", "A", "B", "Y", "LEFTSHOULDER", "RIGHTSHOULDER",
                   "INVALID", "INVALID", "INVALID", "START", "LEFTSTICK",
                   "RIGHTSTICK", "GUIDE", "BACK">>
axismapping == Sticks
hatmapping == <<"UP", "RIGHT", "DOWN", "LEFT">>

\* sum([... << n for n, b in enumerate(mapping)]), four bits at a time; the
\* mappings have at most 14 entries
Bits(mapping, down) ==
    LET Bit(n) == IF n \in 1 .. Len(mapping) /\ mapping[n] \in down THEN 1 ELSE 0
        Four(n) == Bit(n) + 2 * Bit(n + 1) + 4 * Bit(n + 2) + 8 * Bit(n + 3)
    IN  Four(1) + 16 * Four(5) + 256 * Four(9) + 4096 * Four(13)

\* The triggers are bits 6 and 7, where buttonmapping has no button.
Buttons(p) ==
    Bits(buttonmapping, p.held)
    + (IF Abs(p.trigger["LEFT"]) > trigger_deadzone THEN 64 ELSE 0)
    + (IF Abs(p.trigger["RIGHT"]) > trigger_deadzone THEN 128 ELSE 0)

HatIndex(p) == Bits(hatmapping, p.dpad)

\* Mutant: '<BHBBBB'
PackLittle(hat, buttons, axis) ==
    <<hat, Low(buttons, 256), High(buttons, 256), axis[1], axis[2], axis[3], axis[4]>>

\* struct.pack('>BHBBBB', hat, buttons, *axis)
Pack(hat, buttons, axis) ==
    <<hat, High(buttons, 256), Low(buttons, 256), axis[1], axis[2], axis[3], axis[4]>>

\* binascii.hexlify(rawbytes) + b'\n'
Line(rawbytes) ==
    [k \in 1 .. 2 * Len(rawbytes) |->
        LET byte == rawbytes[(k + 1) \div 2]
        IN  HexChar(IF k % 2 = 1 THEN High(byte, 16) ELSE Low(byte, 16))]
    \o <<LF>>

\* What controller_states yields for a gamepad state
StateMessage(p) ==
    Line(Pack(hatcodes[HatIndex(p) + 1], Buttons(p),
              [i \in 1..4 |-> AxisByte(p.axis[axismapping[i]])]))

\* One turn of the loop of controller_states, and the write of its message.
\* InputStack.__next__ takes the IndexError of hatcodes for the end of input.
ControllerState(p) ==
    /\ status # "ended" /\ wire = <<>>
    /\ IF HatIndex(p) + 1 \in DOMAIN hatcodes
         THEN /\ wire' = StateMessage(p)
              /\ gamepad' = p
              /\ status' = "running"
         ELSE status' = "ended" /\ UNCHANGED <<gamepad, wire>>
    /\ UNCHANGED parserVars

\* Serial_Task parses the next character.
ParseNext ==
    /\ wire # <<>>
    /\ Parse(Head(wire))
    /\ wire' = Tail(wire)
    /\ UNCHANGED <<gamepad, status>>

WireNext == (\E p \in Inputs : ControllerState(p)) \/ ParseNext

WireSpec == WireInit /\ [][WireNext]_wireVars

\* b[i], as Serial_Task copies it to the state and GetNextReport to the report.
PadByte(i) == 16 * pad[2 * i] + pad[2 * i + 1]

Report == [HAT |-> PadByte(0), Button |-> 256 * PadByte(1) + PadByte(2),
           LX |-> PadByte(3), LY |-> PadByte(4), RX |-> PadByte(5),
           RY |-> PadByte(6)]

-----------------------------------------------------------------------------
(* The labels the two programs give to the bits *)

\* JoystickButtons_t and HAT_* of Joystick.h.
JoystickButtons == [Y |-> 1, B |-> 2, A |-> 4, X |-> 8, L |-> 16, R |-> 32,
                    ZL |-> 64, ZR |-> 128, SELECT |-> 256, START |-> 512,
                    LCLICK |-> 1024, RCLICK |-> 2048, HOME |-> 4096,
                    CAPTURE |-> 8192]
HatDirections == <<{"UP"}, {"UP", "RIGHT"}, {"RIGHT"}, {"DOWN", "RIGHT"},
                   {"DOWN"}, {"DOWN", "LEFT"}, {"LEFT"}, {"UP", "LEFT"}, {}>>

\* The button of the console each gamepad button stands for, by the comments
\* beside buttonmapping (bridge.py:75-90).
ConsoleButton == [X |-> "Y", A |-> "B", B |-> "A", Y |-> "X",
                  LEFTSHOULDER |-> "L", RIGHTSHOULDER |-> "R",
                  START |-> "START", LEFTSTICK |-> "LCLICK",
                  RIGHTSTICK |-> "RCLICK", GUIDE |-> "HOME", BACK |-> "CAPTURE"]

Opposites == {{"UP", "DOWN"}, {"LEFT", "RIGHT"}}

Sent == wire = <<>> /\ status = "running"

\* The wire carries hex digits and a line end, and no state message makes the
\* firmware write outside b[] (Joystick.c:88).
WireTypeOK ==
    /\ ParserTypeOK
    /\ \A k \in DOMAIN wire : wire[k] = LF \/ HexVal(wire[k]) # NoDigit
    /\ ~oob

\* Once a message has been parsed the report presses exactly the buttons the
\* player holds, under the names bridge.py and Joystick.h give to the 14 bits:
\* neither the order of the two button bytes nor that of their digits is lost
\* on the way.
ButtonsArrive ==
    Sent =>
      \A name \in DOMAIN JoystickButtons :
        (Report.Button \div JoystickButtons[name]) % 2 = 1
          <=> \/ \E s \in gamepad.held : ConsoleButton[s] = name
              \/ name = "ZL" /\ gamepad.trigger["LEFT"] # 0
              \/ name = "ZR" /\ gamepad.trigger["RIGHT"] # 0

\* The hat shows the direction held, and its centre when opposite directions
\* are held together; every stick shows the position it was read at.
DirectionsArrive ==
    Sent =>
      /\ Report.HAT + 1 \in DOMAIN HatDirections
      /\ HatDirections[Report.HAT + 1] =
           IF \E o \in Opposites : o \subseteq gamepad.dpad THEN {}
                                                            ELSE gamepad.dpad
      /\ StickByte(gamepad.axis["LEFTX"], Report.LX)
      /\ StickByte(gamepad.axis["LEFTY"], Report.LY)
      /\ StickByte(gamepad.axis["RIGHTX"], Report.RX)
      /\ StickByte(gamepad.axis["RIGHTY"], Report.RY)
=============================================================================
