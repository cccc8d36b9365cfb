-------------------------------- MODULE Link --------------------------------
(***************************************************************************)
(* The whole chain at the level of state messages: bridge.py writes a      *)
(* message and waits for a U; the serial line delivers the message into    *)
(* the circular buffer of the firmware; the main loop of the firmware runs *)
(* HID_Task, USB_USBTask and Serial_Task in turn; the console polls the IN *)
(* endpoint, resets the bus and suspends it.                               *)
(*                                                                         *)
(* Messages are numbered in the order bridge.py writes them.  The line is  *)
(* first-in first-out, so its contents are the numbers above arrived up to *)
(* sent; the circular buffer holds what came after number drained, and     *)
(* ring is the part of it that is undamaged.  SerialTask shows, byte by    *)
(* byte, what is assumed here of a message: it is applied as a whole or    *)
(* not at all.                                                             *)
(***************************************************************************)
EXTENDS Integers

CONSTANTS MaxSent,    \* bound: messages bridge.py sends before its input ends
          RingMsgs,   \* whole messages the circular buffer holds: 17
          RxCap,      \* unread bytes the PC keeps, before it drops more
          MaxFaults,  \* bound: bytes lost or damaged on the line
          MaxResets   \* bound: times the console resets or suspends the bus

ASSUME LinkAssumption ==
    /\ MaxSent \in Nat
    /\ RingMsgs \in Nat \ {0}
    /\ RxCap \in Nat \ {0}
    /\ MaxFaults \in Nat
    /\ MaxResets \in Nat

VARIABLES
    bpc,          \* bridge.py: "start", "send", "wait" or "done"
    sent,         \* messages written to the serial port
    arrived,      \* the last message that left the line
    drained,      \* the last message that left the circular buffer
    ring,         \* the undamaged messages in the circular buffer
    fpc,          \* where main() is: "hid", "write", "print", "usb", "serial"
    pad,          \* the message HAT2, buttons, ... come from
    USB_DeviceState,  \* "Configured", "Unattached" while suspended, or
                      \* "Default" for every other state
    bank,         \* the report in the IN endpoint, as a set of 0 or 1 messages
    seen,         \* the state the console saw last
    unreadU,      \* U bytes bridge.py has not read
    unreadX,      \* X bytes bridge.py has not read
    faults, resets,
    us,           \* history: U bytes printed, up to MaxSent
    missed        \* history: the last message lost on its way to the parser

linkVars == <<bpc, sent, arrived, drained, ring, fpc, pad, USB_DeviceState, bank, seen,
              unreadU, unreadX, faults, resets, us, missed>>

bridgePart == <<bpc, sent>>
linePart == <<arrived, drained, ring, missed>>
devicePart == <<fpc, pad, USB_DeviceState, bank, resets>>
answerPart == <<unreadU, unreadX, us>>

LinkInit ==
    /\ bpc = "start" /\ sent = 0
    /\ arrived = 0 /\ drained = 0 /\ ring = {} /\ missed = 0
    /\ fpc = "hid" /\ pad = 0 /\ USB_DeviceState = "Default" /\ bank = {} /\ seen = 0
    /\ unreadU = 0 /\ unreadX = 0 /\ us = 0
    /\ faults = 0 /\ resets = 0

-----------------------------------------------------------------------------
\* bridge.py

\* The port is open, the controller is found: the main loop begins.  The
\* firmware has been answering all the while.
Start ==
    /\ bpc = "start"
    /\ bpc' = "send"
    /\ UNCHANGED <<sent, linePart, devicePart, answerPart, seen, faults>>

Send ==
    /\ bpc = "send"
    /\ sent < MaxSent
    /\ sent' = sent + 1
    /\ bpc' = "wait"
    /\ UNCHANGED <<linePart, devicePart, answerPart, seen, faults>>

\* The input ends, or the user interrupts.
Stop ==
    /\ bpc # "done"
    /\ bpc' = "done"
    /\ UNCHANGED <<sent, linePart, devicePart, answerPart, seen, faults>>

\* Mutant: the read does not consume the byte
ReadUKeeps ==
    /\ bpc = "wait"
    /\ unreadU > 0
    /\ bpc' = "send"
    /\ UNCHANGED <<sent, linePart, devicePart, answerPart, seen, faults>>

ReadU ==
    /\ bpc = "wait"
    /\ unreadU > 0
    /\ unreadU' = unreadU - 1
    /\ bpc' = "send"
    /\ UNCHANGED <<sent, linePart, devicePart, unreadX, us, seen, faults>>

\* Mutant: X ends the wait as U does
ReadXEnds ==
    /\ bpc = "wait"
    /\ unreadX > 0
    /\ unreadX' = unreadX - 1
    /\ bpc' = "send"
    /\ UNCHANGED <<sent, linePart, devicePart, unreadU, us, seen, faults>>

ReadX ==
    /\ bpc = "wait"
    /\ unreadX > 0
    /\ unreadX' = unreadX - 1
    /\ UNCHANGED <<bridgePart, linePart, devicePart, unreadU, us, seen, faults>>

-----------------------------------------------------------------------------
\* The serial line and the receive interrupt

Waiting == arrived - drained

\* The message completes in the circular buffer.
Arrive ==
    /\ arrived < sent
    /\ Waiting < RingMsgs
    /\ arrived' = arrived + 1
    /\ ring' = ring \cup {arrived + 1}
    /\ UNCHANGED <<drained, missed, bridgePart, devicePart, answerPart, seen, faults>>

\* The buffer is full: the interrupt wipes it out in the middle of the
\* message, and may or may not report it.  What an earlier wipe left of a
\* message takes room too, so that one message less may be enough.
Overrun ==
    /\ arrived < sent
    /\ Waiting >= RingMsgs - 1
    /\ arrived' = arrived + 1
    /\ drained' = arrived + 1
    /\ ring' = {}
    /\ missed' = arrived + 1
    /\ \/ UNCHANGED unreadX
       \/ unreadU + unreadX < RxCap /\ unreadX' = unreadX + 1
    /\ UNCHANGED <<bridgePart, devicePart, unreadU, us, seen, faults>>

\* A digit of the message is lost: its line has the wrong length and is not
\* applied.  The other messages are not affected.
Damage ==
    /\ arrived < sent
    /\ Waiting < RingMsgs
    /\ faults < MaxFaults
    /\ faults' = faults + 1
    /\ arrived' = arrived + 1
    /\ missed' = arrived + 1
    /\ UNCHANGED <<drained, ring, bridgePart, devicePart, answerPart, seen>>

\* An answer is lost.
LoseU ==
    /\ unreadU > 0
    /\ faults < MaxFaults
    /\ faults' = faults + 1
    /\ unreadU' = unreadU - 1
    /\ UNCHANGED <<bridgePart, linePart, devicePart, unreadX, us, seen>>

-----------------------------------------------------------------------------
\* The firmware's main loop

\* The PC keeps RxCap unread bytes.
PrintU ==
    /\ unreadU' = IF unreadU + unreadX < RxCap THEN unreadU + 1 ELSE unreadU
    /\ us' = IF us < MaxSent THEN us + 1 ELSE us

\* HID_Task up to Endpoint_IsINReady.
HID_Test ==
    /\ fpc = "hid"
    /\ fpc' = IF USB_DeviceState = "Configured" /\ bank = {} THEN "write" ELSE "usb"
    /\ UNCHANGED <<bridgePart, linePart, pad, USB_DeviceState, bank, resets, answerPart,
                   seen, faults>>

\* The report is written and handed over.  After a reset it goes to the control
\* endpoint instead, and with the clock frozen it may be lost (UsbDevice has
\* the steps in between).
HID_Write ==
    /\ fpc = "write"
    /\ fpc' = "print"
    /\ bank' \in CASE USB_DeviceState = "Configured" -> {{pad}}
                  [] USB_DeviceState = "Unattached" -> {{pad}, bank}
                  [] OTHER -> {bank}
    /\ UNCHANGED <<bridgePart, linePart, pad, USB_DeviceState, resets, answerPart, seen, faults>>

\* Mutant: U only for a report the console has not seen yet
HID_PrintNews ==
    /\ fpc = "print"
    /\ fpc' = "usb"
    /\ IF pad # seen THEN PrintU ELSE UNCHANGED <<unreadU, us>>
    /\ UNCHANGED <<bridgePart, linePart, pad, USB_DeviceState, bank, resets, unreadX, seen, faults>>

\* The U is printed whatever became of the report.
HID_Print ==
    /\ fpc = "print"
    /\ fpc' = "usb"
    /\ PrintU
    /\ UNCHANGED <<bridgePart, linePart, pad, USB_DeviceState, bank, resets, unreadX, seen, faults>>

\* USB_USBTask serves at most one control request, unless suspended; the
\* console configures the device with one.
USB_USBTask ==
    /\ fpc = "usb"
    /\ fpc' = "serial"
    /\ USB_DeviceState' \in IF USB_DeviceState = "Unattached" THEN {"Unattached"}
                             ELSE {USB_DeviceState, "Configured"}
    /\ bank' = IF USB_DeviceState' # USB_DeviceState THEN {} ELSE bank
    /\ UNCHANGED <<bridgePart, linePart, pad, resets, answerPart, seen, faults>>

\* Mutants: the first message wins; an empty buffer clears the state
Serial_TaskFirst ==
    /\ fpc = "serial"
    /\ fpc' = "hid"
    /\ IF ring = {}
       THEN UNCHANGED pad
       ELSE pad' \in ring /\ \A m \in ring : pad' <= m
    /\ ring' = {}
    /\ drained' = arrived
    /\ UNCHANGED <<bridgePart, arrived, missed, USB_DeviceState, bank, resets, answerPart, seen, faults>>

Serial_TaskClears ==
    /\ fpc = "serial"
    /\ fpc' = "hid"
    /\ IF ring = {}
       THEN pad' = 0
       ELSE pad' \in ring /\ \A m \in ring : m <= pad'
    /\ ring' = {}
    /\ drained' = arrived
    /\ UNCHANGED <<bridgePart, arrived, missed, USB_DeviceState, bank, resets, answerPart, seen, faults>>

\* Serial_Task works through everything the buffer holds; the last undamaged
\* message is the controller state.
Serial_Task ==
    /\ fpc = "serial"
    /\ fpc' = "hid"
    /\ IF ring = {}
       THEN UNCHANGED pad
       ELSE pad' \in ring /\ \A m \in ring : m <= pad'
    /\ ring' = {}
    /\ drained' = arrived
    /\ UNCHANGED <<bridgePart, arrived, missed, USB_DeviceState, bank, resets, answerPart, seen, faults>>

-----------------------------------------------------------------------------
\* The console

Poll ==
    /\ bank # {} /\ USB_DeviceState # "Unattached"
    /\ seen' \in bank
    /\ bank' = {}
    /\ UNCHANGED <<bridgePart, linePart, fpc, pad, USB_DeviceState, resets, answerPart, faults>>

Reset ==
    /\ resets < MaxResets
    /\ resets' = resets + 1
    /\ USB_DeviceState' = "Default"
    /\ bank' = {}
    /\ UNCHANGED <<bridgePart, linePart, fpc, pad, answerPart, seen, faults>>

Suspend ==
    /\ USB_DeviceState = "Configured"
    /\ resets < MaxResets
    /\ resets' = resets + 1
    /\ USB_DeviceState' = "Unattached"
    /\ UNCHANGED <<bridgePart, linePart, fpc, pad, bank, answerPart, seen, faults>>

\* The wake-up interrupt finds the configuration number still set.
WakeUp ==
    /\ USB_DeviceState = "Unattached"
    /\ USB_DeviceState' = "Configured"
    /\ UNCHANGED <<bridgePart, linePart, fpc, pad, bank, resets, answerPart, seen, faults>>

Configures == USB_USBTask /\ USB_DeviceState' = "Configured"

LinkNext ==
    \/ Start \/ Send \/ Stop \/ ReadU \/ ReadX
    \/ Arrive \/ Overrun \/ Damage \/ LoseU
    \/ HID_Test \/ HID_Write \/ HID_Print \/ USB_USBTask \/ Serial_Task
    \/ Poll \/ Reset \/ Suspend \/ WakeUp

\* bridge.py keeps running, the line delivers, main() loops for ever, and the
\* console configures the device, polls it and wakes it up.  Nobody has to
\* reset, suspend, lose or stop.
LinkFairness ==
    /\ WF_linkVars(Start \/ Send \/ ReadU \/ ReadX)
    /\ WF_linkVars(Arrive \/ Overrun)
    /\ WF_linkVars(HID_Test \/ HID_Write \/ HID_Print \/ USB_USBTask \/ Serial_Task)
    /\ SF_linkVars(Configures)
    /\ WF_linkVars(Poll) /\ WF_linkVars(WakeUp)

LinkSafety == LinkInit /\ [][LinkNext]_linkVars
LinkSpec == LinkSafety /\ LinkFairness

-----------------------------------------------------------------------------

LinkTypeOK ==
    /\ bpc \in {"start", "send", "wait", "done"}
    /\ sent \in 0 .. MaxSent
    /\ arrived \in Nat /\ drained \in Nat /\ missed \in Nat
    /\ ring \in SUBSET Nat
    /\ fpc \in {"hid", "write", "print", "usb", "serial"}
    /\ pad \in Nat
    /\ USB_DeviceState \in {"Default", "Configured", "Unattached"}
    /\ bank \in SUBSET Nat
    /\ seen \in Nat
    /\ unreadU \in Nat /\ unreadX \in Nat /\ us \in 0 .. MaxSent
    /\ faults \in 0 .. MaxFaults /\ resets \in 0 .. MaxResets

\* Everything is in the order it was written: the console has seen no state
\* newer than the IN endpoint holds, that holds none newer than the
\* controller state, and so on back to bridge.py.
Pipeline ==
    /\ \A r \in bank : seen <= r /\ r <= pad
    /\ \A m \in ring : drained < m /\ m <= arrived
    /\ seen <= pad /\ pad <= drained /\ drained <= arrived /\ arrived <= sent

\* bridge.py never gets ahead: it has written at most one message more than
\* the firmware has begun reports (bridge.py:415-419, Joystick.c:232),
\* although each U answers a report and not a message.
FlowControl == sent <= us + 1

\* The strengthening that makes FlowControl inductive.
TurnsCounted ==
    us < MaxSent =>
        sent + unreadU + (IF bpc \in {"start", "send"} THEN 1 ELSE 0) <= us + 1

\* The inductive invariant of the chain: types, every place between bridge.py
\* and the console in the order of writing, and every U of the firmware
\* (Joystick.c:232) that is unread or read paid for by a report it began.
LinkInv == LinkTypeOK /\ Pipeline /\ FlowControl /\ TurnsCounted

Stream == INSTANCE StateStream WITH written <- sent, shown <- seen

\* The chain implements the forward-moving stream of states: the console
\* never sees a state that was not written and never an older one after a
\* newer one, whatever is lost, wiped out, reset or suspended.
LinkIsStream == Stream!StreamSpec

\* bridge.py never waits for ever: a lost U, an overrun, a reset or a suspend
\* only delays it, because the firmware answers every report.
BridgeNotStuck == bpc = "wait" ~> bpc # "wait"

\* Once bridge.py is done, the console ends up with its last state, unless
\* that very message was lost on the way.
LastStateSeen == <>[](bpc = "done" => seen = sent \/ missed = sent)

=============================================================================
