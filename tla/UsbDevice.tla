------------------------------ MODULE UsbDevice ------------------------------
(***************************************************************************)
(* The USB half of the firmware: the main loop of Joystick.c (HID_Task and *)
(* USB_USBTask) register access by register access, against LUFA's         *)
(* USB_GEN interrupt and a console that enumerates the device, polls it,   *)
(* drops transfers, resets the bus and suspends it.  Serial_Task, the      *)
(* third task of the loop, touches none of this state (see SerialTask).    *)
(*                                                                         *)
(* Endpoint operations go to the endpoint UENUM selects.  The end-of-reset *)
(* interrupt selects the control endpoint and does not restore the old     *)
(* choice, so a reset between a selection and its use sends what follows   *)
(* to the control endpoint.                                                *)
(*                                                                         *)
(* What the controller itself does is not in the repository.  Where its    *)
(* outcome matters and is not certain it is a choice: a reset may or may   *)
(* not keep the report endpoints allocated, a SETUP may or may not flush   *)
(* the banks of the control endpoint, and freezing the clock may or may    *)
(* not make the endpoint registers ignore what is written to them.         *)
(***************************************************************************)
EXTENDS Integers, Sequences

CONSTANT MaxEvents   \* bound: resets, suspends, aborts, additional requests, short reports

ASSUME BoundAssumption == MaxEvents \in Nat

VARIABLES
    DeviceState, ConfigurationNumber,   \* USB_DeviceState, USB_Device_...
    waking, frozen,         \* wake-up interrupt enabled, USB clock frozen,
    dead,                   \*   and the registers with it
    UENUM,                  \* the selected endpoint
    UDADDR,                 \* the address and its enable bit
    ctl, inp, outp,         \* control (0), IN (1) and OUT (2) endpoint
    pc, back, PrevEndpoint, \* next statement; caller of USB_USBTask
    req,                    \* USB_ControlRequest
    stream, len, conf,      \* arguments and loop variables
    phase, hreq, stage,     \* the console: what it is doing, and its transfer
    haddr,                  \* the address it uses
    events,                 \* how many of them, for the bound
    handed,                 \* history: this HID_Task handed over a report,
    disturbed,              \*   the bus was reset or suspended during it
    slept,                  \* history: the bus was suspended,
    upset,                  \*   or reset in use, or a transfer was dropped,
    addressHit              \*   a reset fell into SetAddress

device  == <<DeviceState, ConfigurationNumber>>
irq     == <<waking, frozen, dead>>
regs    == <<UENUM, UDADDR, ctl, inp, outp>>
main    == <<pc, back, PrevEndpoint, req, stream, len, conf>>
console == <<phase, hreq, stage, haddr>>
pass    == <<handed, disturbed>>
hits    == <<slept, upset, addressHit>>
history == <<pass, hits>>
usbVars == <<device, irq, regs, main, console, events, history>>

\* The requests told apart: GetDescriptor; GetStatus of the device and
\* GetConfiguration; SetAddress; SetConfiguration to 1 and 0; SetFeature,
\* ClearFeature and GetStatus for the halt of the IN endpoint; HID GetReport
\* and SetReport; any other.
Request == {"descriptor", "status", "address", "config1", "config0",
            "halt", "unhalt", "halted", "getreport", "setreport", "other"}
ToHost == {"descriptor", "status", "halted", "getreport"}

\* Bytes are counted in halves of a report; a descriptor is one packet.
Report == 2

Bank == [on : BOOLEAN, fill : 0 .. Report, full : BOOLEAN, halted : BOOLEAN]
OutBank == [on : BOOLEAN, data : 0 .. Report, full : BOOLEAN]
Control == [ok : BOOLEAN, setup : Request \cup {"none"},
            in : Request \cup {"free", "report"}, out : {"free", "full", "short"},
            stall : BOOLEAN]
Address == [address : {0, 1}, enabled : BOOLEAN]

State == {"Unattached", "Powered", "Default", "Addressed", "Configured"}

HidPc == {"hid", "selectOut", "testOut", "clearOut", "selectIn", "testIn",
          "wait", "stream", "send", "printU"}
TaskPc == {"task", "select0", "setup", "handle", "final", "restore"}
RequestPc == {"answer", "status", "address", "addressWait", "addressEnable",
              "addressState", "number", "configState", "confSelect",
              "confWrite", "confBack", "featureSelect", "feature",
              "featureBack", "featureClear", "write", "writeEnd", "clearOUT", "read", "readEnd", "clearIN"}

\* No counter, length or register leaves its range: the length of a stream
\* does not run below 0 on any way through Endpoint_Read/Write_Stream_LE.
UsbTypeOK ==
    /\ DeviceState \in State
    /\ ConfigurationNumber \in {0, 1}
    /\ waking \in BOOLEAN /\ frozen \in BOOLEAN /\ dead \in BOOLEAN
    /\ UENUM \in 0 .. 2 /\ PrevEndpoint \in 0 .. 2
    /\ UDADDR \in Address /\ ctl \in Control /\ inp \in Bank /\ outp \in OutBank
    /\ pc \in HidPc \cup TaskPc \cup RequestPc
    /\ back \in {"hid", "wait"}
    /\ req \in Request
    /\ stream \in {"in", "out"} /\ len \in 0 .. Report /\ conf \in 1 .. 3
    /\ phase \in {"off", "run"} \cup Request
    /\ hreq \in Request /\ stage \in {"idle", "data", "status"}
    /\ haddr \in {0, 1}
    /\ events \in 0 .. MaxEvents
    /\ handed \in BOOLEAN /\ disturbed \in BOOLEAN
    /\ slept \in BOOLEAN /\ upset \in BOOLEAN /\ addressHit \in BOOLEAN

Off == [on |-> FALSE, fill |-> 0, full |-> FALSE, halted |-> FALSE]
OffOut == [on |-> FALSE, data |-> 0, full |-> FALSE]
Flushed == [ok |-> TRUE, setup |-> "none", in |-> "free", out |-> "free",
            stall |-> FALSE]

\* SetupHardware and USB_Init: the control endpoint is configured, the
\* suspend and reset interrupts are enabled, the device attaches.
UsbInit ==
    /\ DeviceState = "Unattached" /\ ConfigurationNumber = 0
    /\ waking = FALSE /\ frozen = FALSE /\ dead = FALSE
    /\ UENUM = 0 /\ UDADDR = [address |-> 0, enabled |-> FALSE]
    /\ ctl = Flushed /\ inp = Off /\ outp = OffOut
    /\ pc = "hid" /\ back = "hid" /\ PrevEndpoint = 0
    /\ req = "other" /\ stream = "in" /\ len = 0 /\ conf = 1
    /\ phase = "off" /\ hreq = "other" /\ stage = "idle" /\ haddr = 0
    /\ events = 0
    /\ handed = FALSE /\ disturbed = FALSE
    /\ slept = FALSE /\ upset = FALSE /\ addressHit = FALSE

-----------------------------------------------------------------------------
\* Registers.

Written(new, old) == IF dead THEN old ELSE new

Endpoint_SelectEndpoint(e) ==
    /\ UENUM' = Written(e, UENUM)
    /\ UNCHANGED <<UDADDR, ctl, inp, outp>>

Endpoint_IsINReady ==
    \/ UENUM = 0 /\ ctl.in = "free"
    \/ UENUM = 1 /\ inp.on /\ ~inp.full

Endpoint_IsOUTReceived ==
    \/ UENUM = 0 /\ ctl.out # "free"
    \/ UENUM = 2 /\ outp.full

Endpoint_IsReadWriteAllowed ==
    \/ UENUM = 1 /\ inp.on /\ ~inp.full
    \/ UENUM = 2 /\ outp.data > 0

Endpoint_IsSETUPReceived == UENUM = 0 /\ ctl.setup # "none"

\* The bank of the selected endpoint goes to the console; packet says what a
\* control packet answers.
Endpoint_ClearIN(packet) ==
    /\ ctl' = IF UENUM = 0 /\ ctl.in = "free"
                THEN Written([ctl EXCEPT !.in = packet], ctl) ELSE ctl
    /\ inp' = IF UENUM = 1 /\ inp.on
                THEN Written([inp EXCEPT !.full = TRUE], inp) ELSE inp
    /\ UNCHANGED <<UENUM, UDADDR, outp>>

Endpoint_ClearOUT ==
    /\ ctl' = IF UENUM = 0
                THEN Written([ctl EXCEPT !.out = "free"], ctl) ELSE ctl
    /\ outp' = IF UENUM = 2
                 THEN Written([outp EXCEPT !.full = FALSE, !.data = 0], outp)
                 ELSE outp
    /\ UNCHANGED <<UENUM, UDADDR, inp>>

Endpoint_ClearSETUP ==
    /\ ctl' = IF UENUM = 0
                THEN Written([ctl EXCEPT !.setup = "none"], ctl) ELSE ctl
    /\ UNCHANGED <<UENUM, UDADDR, inp, outp>>

\* Most statements of main change only the next statement and the registers.
Goto(label) ==
    /\ pc' = label
    /\ UNCHANGED <<back, PrevEndpoint, req, stream, len, conf>>

\* A stream function has returned, and its arguments are gone.
Return(label) ==
    /\ pc' = label /\ stream' = "in" /\ len' = 0
    /\ UNCHANGED <<back, PrevEndpoint, req, conf>>

Others == UNCHANGED <<irq, console, events>>

-----------------------------------------------------------------------------
\* HID_Task.

HidBegin ==
    /\ pc = "hid"
    /\ Goto(IF DeviceState = "Configured" THEN "selectOut" ELSE "task")
    /\ handed' = FALSE /\ disturbed' = frozen
    /\ UNCHANGED <<device, regs, hits>> /\ Others

SelectOut ==
    /\ pc = "selectOut"
    /\ Endpoint_SelectEndpoint(2)
    /\ Goto("testOut")
    /\ UNCHANGED <<device, history>> /\ Others

\* A packet with data is read, an empty one only acknowledged.
TestOut ==
    /\ pc = "testOut"
    /\ \/ ~Endpoint_IsOUTReceived /\ Goto("selectIn")
       \/ Endpoint_IsOUTReceived /\ ~Endpoint_IsReadWriteAllowed /\ Goto("clearOut")
       \/ /\ Endpoint_IsOUTReceived /\ Endpoint_IsReadWriteAllowed
          /\ pc' = "wait" /\ stream' = "out" /\ len' = Report
          /\ UNCHANGED <<back, PrevEndpoint, req, conf>>
    /\ UNCHANGED <<device, regs, history>> /\ Others

ClearOut ==
    /\ pc = "clearOut"
    /\ Endpoint_ClearOUT
    /\ Return("selectIn")
    /\ UNCHANGED <<device, history>> /\ Others

SelectIn ==
    /\ pc = "selectIn"
    /\ Endpoint_SelectEndpoint(1)
    /\ Goto("testIn")
    /\ UNCHANGED <<device, history>> /\ Others

\* Mutant: the report is written without asking whether there is room
TestInAlways ==
    /\ pc = "testIn"
    /\ pc' = "wait" /\ stream' = "in" /\ len' = Report
    /\ UNCHANGED <<back, PrevEndpoint, req, conf>>
    /\ UNCHANGED <<device, regs, history>> /\ Others

TestIn ==
    /\ pc = "testIn"
    /\ \/ ~Endpoint_IsINReady /\ Goto("task")
       \/ /\ Endpoint_IsINReady
          /\ pc' = "wait" /\ stream' = "in" /\ len' = Report
          /\ UNCHANGED <<back, PrevEndpoint, req, conf>>
    /\ UNCHANGED <<device, regs, history>> /\ Others

\* Where the stream functions return to; their result is not looked at.
StreamDone == IF stream = "in" THEN "send" ELSE "clearOut"

\* Endpoint_WaitUntilReady.  The control endpoint counts as an OUT endpoint.
\* An endpoint that is not ready makes the function return an error: when
\* the device is unattached, when the endpoint is stalled, or when
\* USB_STREAM_TIMEOUT_MS have passed.
WaitUntilReady ==
    /\ pc = "wait"
    /\ LET ready == IF UENUM = 1 THEN Endpoint_IsINReady ELSE Endpoint_IsOUTReceived
       IN  Goto(IF ready THEN "stream" ELSE StreamDone)
    /\ UNCHANGED <<device, regs, history>> /\ Others

\* Mutant: the loop ends one byte early
StreamShort ==
    /\ pc = "stream"
    /\ \/ len <= 1 /\ Goto(StreamDone) /\ UNCHANGED regs
       \/ /\ len > 1 /\ Endpoint_IsReadWriteAllowed
          /\ inp' = IF UENUM = 1 /\ inp.fill < Report
                      THEN Written([inp EXCEPT !.fill = @ + 1], inp) ELSE inp
          /\ outp' = IF UENUM = 2
                       THEN Written([outp EXCEPT !.data = @ - 1], outp) ELSE outp
          /\ len' = len - 1
          /\ UNCHANGED <<UENUM, UDADDR, ctl, pc, back, PrevEndpoint, req, stream, conf>>
       \/ /\ len > 1 /\ ~Endpoint_IsReadWriteAllowed
          /\ IF stream = "in" THEN Endpoint_ClearIN("report") ELSE Endpoint_ClearOUT
          /\ pc' = "task" /\ back' = "wait"
          /\ UNCHANGED <<PrevEndpoint, req, stream, len, conf>>
    /\ UNCHANGED <<device, history>> /\ Others

\* Mutant: the length is tested after the byte
StreamOneMore ==
    /\ pc = "stream"
    /\ \/ len = 0 /\ Goto(StreamDone) /\ UNCHANGED regs
       \/ /\ Endpoint_IsReadWriteAllowed
          /\ inp' = IF UENUM = 1 /\ inp.fill < Report
                      THEN Written([inp EXCEPT !.fill = @ + 1], inp) ELSE inp
          /\ outp' = IF UENUM = 2
                       THEN Written([outp EXCEPT !.data = @ - 1], outp) ELSE outp
          /\ len' = len - 1
          /\ UNCHANGED <<UENUM, UDADDR, ctl, pc, back, PrevEndpoint, req, stream, conf>>
       \/ /\ len > 0 /\ ~Endpoint_IsReadWriteAllowed
          /\ IF stream = "in" THEN Endpoint_ClearIN("report") ELSE Endpoint_ClearOUT
          /\ pc' = "task" /\ back' = "wait"
          /\ UNCHANGED <<PrevEndpoint, req, stream, len, conf>>
    /\ UNCHANGED <<device, history>> /\ Others

\* The loop of Endpoint_Read_Stream_LE and Endpoint_Write_Stream_LE: a byte
\* is moved, or the bank is handed over, USB_USBTask runs and the function
\* waits for the next bank.
Stream ==
    /\ pc = "stream"
    /\ \/ len = 0 /\ Goto(StreamDone) /\ UNCHANGED regs
       \/ /\ len > 0 /\ Endpoint_IsReadWriteAllowed
          /\ inp' = IF UENUM = 1 /\ inp.fill < Report
                      THEN Written([inp EXCEPT !.fill = @ + 1], inp) ELSE inp
          /\ outp' = IF UENUM = 2
                       THEN Written([outp EXCEPT !.data = @ - 1], outp) ELSE outp
          /\ len' = len - 1
          /\ UNCHANGED <<UENUM, UDADDR, ctl, pc, back, PrevEndpoint, req, stream, conf>>
       \/ /\ len > 0 /\ ~Endpoint_IsReadWriteAllowed
          /\ IF stream = "in" THEN Endpoint_ClearIN("report") ELSE Endpoint_ClearOUT
          /\ pc' = "task" /\ back' = "wait"
          /\ UNCHANGED <<PrevEndpoint, req, stream, len, conf>>
    /\ UNCHANGED <<device, history>> /\ Others

Send ==
    /\ pc = "send"
    /\ Endpoint_ClearIN("report")
    /\ handed' = (UENUM = 1 /\ ~inp.full /\ inp'.full)
    /\ Goto("printU")
    /\ UNCHANGED <<device, disturbed, hits>> /\ Others

PrintU ==
    /\ pc = "printU"
    /\ Return("task")
    /\ handed' = FALSE
    /\ UNCHANGED <<device, regs, disturbed, hits>> /\ Others

HidStep ==
    \/ HidBegin \/ SelectOut \/ TestOut \/ ClearOut \/ SelectIn \/ TestIn
    \/ WaitUntilReady \/ Stream \/ Send \/ PrintU

-----------------------------------------------------------------------------
\* USB_USBTask and USB_Device_ProcessControlRequest.

TaskBegin ==
    /\ pc = "task"
    /\ IF DeviceState = "Unattached"
       THEN pc' = back /\ back' = "hid" /\ UNCHANGED PrevEndpoint
       ELSE pc' = "select0" /\ PrevEndpoint' = UENUM /\ UNCHANGED back
    /\ UNCHANGED <<req, stream, len, conf, device, regs, history>> /\ Others

Select0 ==
    /\ pc = "select0"
    /\ Endpoint_SelectEndpoint(0)
    /\ Goto("setup")
    /\ UNCHANGED <<device, history>> /\ Others

\* The header of the request is read.
TestSetup ==
    /\ pc = "setup"
    /\ IF Endpoint_IsSETUPReceived
       THEN /\ pc' = "handle" /\ req' = ctl.setup
            /\ UNCHANGED <<back, PrevEndpoint, stream, len, conf>>
       ELSE Goto("restore")
    /\ UNCHANGED <<device, regs, history>> /\ Others

\* EVENT_USB_Device_ControlRequest takes the two HID requests without looking
\* at the endpoint again; the others are dispatched if the SETUP is still
\* there.  The handlers of these requests begin with Endpoint_ClearSETUP.
Handle ==
    /\ pc = "handle"
    /\ req \in {"getreport", "setreport"} \/ Endpoint_IsSETUPReceived
    /\ req \in {"getreport", "setreport", "descriptor", "status", "config0", "config1"}
    /\ Endpoint_ClearSETUP
    /\ Goto(CASE req \in {"getreport", "descriptor"} -> "write"
             [] req = "setreport" -> "read"
             [] req = "status" -> "answer"
             [] req \in {"config0", "config1"} -> "number")
    /\ UNCHANGED <<device, history>> /\ Others

HandleLater ==
    /\ pc = "handle"
    /\ Endpoint_IsSETUPReceived
    /\ \/ req = "address" /\ Goto("address")
       \/ req \in {"halt", "unhalt", "halted"} /\ Goto("featureSelect")
       \/ req = "other" /\ Goto("final")
    /\ UNCHANGED <<device, regs, history>> /\ Others

HandleGone ==
    /\ pc = "handle"
    /\ req \notin {"getreport", "setreport"} /\ ~Endpoint_IsSETUPReceived
    /\ Goto("final")
    /\ UNCHANGED <<device, regs, history>> /\ Others

\* A SETUP that is waiting at the end - the one nobody handled, or one that
\* has arrived since - is dropped and stalled.
Final ==
    /\ pc = "final"
    /\ ctl' = IF Endpoint_IsSETUPReceived
                THEN Written([ctl EXCEPT !.setup = "none", !.stall = TRUE], ctl)
                ELSE ctl
    /\ Goto("restore")
    /\ UNCHANGED <<UENUM, UDADDR, inp, outp, device, history>> /\ Others

Restore ==
    /\ pc = "restore"
    /\ Endpoint_SelectEndpoint(PrevEndpoint)
    /\ pc' = back /\ back' = "hid" /\ PrevEndpoint' = 0
    /\ UNCHANGED <<req, stream, len, conf, device, history>> /\ Others

TaskStep ==
    \/ TaskBegin \/ Select0 \/ TestSetup \/ Handle \/ HandleLater \/ HandleGone
    \/ Final \/ Restore

-----------------------------------------------------------------------------
\* The requests.

\* What follows Endpoint_ClearStatusStage in the handler of the request.
AfterStatus ==
    CASE req = "address" -> "addressWait"
      [] req \in {"config0", "config1"} -> "configState"
      [] OTHER -> "final"

\* Endpoint_ClearStatusStage waits without a limit, unless unattached.
ClearStatusStage ==
    /\ pc = "status"
    /\ \/ req \in ToHost /\ Endpoint_IsOUTReceived /\ Endpoint_ClearOUT
       \/ req \notin ToHost /\ Endpoint_IsINReady /\ Endpoint_ClearIN(req)
       \/ /\ DeviceState = "Unattached"
          /\ IF req \in ToHost THEN ~Endpoint_IsOUTReceived ELSE ~Endpoint_IsINReady
          /\ UNCHANGED regs
    /\ Goto(AfterStatus)
    /\ UNCHANGED <<device, history>> /\ Others

\* GetStatus and GetConfiguration: the answer is written without waiting.
Answer ==
    /\ pc = "answer"
    /\ Endpoint_ClearIN(req)
    /\ Goto("status")
    /\ UNCHANGED <<device, history>> /\ Others

\* USB_Device_SetAddress.
SetAddress ==
    /\ pc = "address"
    /\ UDADDR' = Written([UDADDR EXCEPT !.address = 1], UDADDR)
    /\ ctl' = Written([ctl EXCEPT !.setup = "none"], ctl)
    /\ Goto("status")
    /\ UNCHANGED <<UENUM, inp, outp, device, history>> /\ Others

\* while (!(Endpoint_IsINReady())): nothing else ends this loop.
AddressWait ==
    /\ pc = "addressWait"
    /\ Endpoint_IsINReady
    /\ Goto("addressEnable")
    /\ UNCHANGED <<device, regs, history>> /\ Others

AddressEnable ==
    /\ pc = "addressEnable"
    /\ UDADDR' = Written([UDADDR EXCEPT !.enabled = TRUE], UDADDR)
    /\ Goto("addressState")
    /\ UNCHANGED <<UENUM, ctl, inp, outp, device, history>> /\ Others

AddressState ==
    /\ pc = "addressState"
    /\ DeviceState' = "Addressed"
    /\ Goto("final")
    /\ UNCHANGED <<ConfigurationNumber, regs, history>> /\ Others

\* USB_Device_SetConfiguration.
SetNumber ==
    /\ pc = "number"
    /\ ConfigurationNumber' = IF req = "config1" THEN 1 ELSE 0
    /\ Goto("status")
    /\ UNCHANGED <<DeviceState, regs, history>> /\ Others

\* The number is read again: a reset may have set it to 0.  Configuration 0
\* of an addressed device is Configured, too.
ConfigState ==
    /\ pc = "configState"
    /\ DeviceState' = IF ConfigurationNumber = 1 \/ UDADDR.enabled
                      THEN "Configured" ELSE "Powered"
    /\ Goto("confSelect")
    /\ UNCHANGED <<ConfigurationNumber, regs, history>> /\ Others

\* EVENT_USB_Device_ConfigurationChanged: the loop of
\* Endpoint_ConfigureEndpoint_Prv for the OUT endpoint, 2, and for the IN
\* endpoint, 1, which configures the allocated endpoint above it, 2, again.
Configured == <<2, 1, 2>>

ConfSelect ==
    /\ pc = "confSelect"
    /\ Endpoint_SelectEndpoint(Configured[conf])
    /\ Goto("confWrite")
    /\ UNCHANGED <<device, history>> /\ Others

\* The registers written are those of the endpoint selected by then; a reset
\* among the writes is like one before them.  In the last turn they are
\* written with what was read from them, before a reset or after it.  The
\* function returns early when Endpoint_IsConfigured says no.
ConfWrite ==
    /\ pc = "confWrite"
    /\ \E kept \in IF conf = 3 /\ ctl.ok THEN BOOLEAN ELSE {FALSE} :
          ctl' = IF UENUM = 0 THEN Written([Flushed EXCEPT !.ok = kept], ctl) ELSE ctl
    /\ inp' = IF UENUM = 1 THEN Written([Off EXCEPT !.on = TRUE], inp) ELSE inp
    /\ outp' = IF UENUM = 2 /\ (conf = 1 \/ outp.on)
               THEN Written([OffOut EXCEPT !.on = TRUE], outp) ELSE outp
    /\ \/ conf = 3 /\ pc' = "confBack" /\ conf' = 1
       \/ conf < 3 /\ pc' = "confSelect" /\ conf' = conf + 1
       \/ conf > 1 /\ dead /\ pc' = "final" /\ conf' = 1
    /\ UNCHANGED <<back, PrevEndpoint, req, stream, len>>
    /\ UNCHANGED <<UENUM, UDADDR, device, history>> /\ Others

\* Endpoint_SelectEndpoint(Number): the rest of the request runs with the IN
\* endpoint selected.
ConfBack ==
    /\ pc = "confBack"
    /\ Endpoint_SelectEndpoint(1)
    /\ Goto("final")
    /\ UNCHANGED <<device, history>> /\ Others

\* USB_Device_ClearSetFeature for the halt of the IN endpoint, and
\* USB_Device_GetStatus, which selects it only to read the bit.
FeatureSelect ==
    /\ pc = "featureSelect"
    /\ Endpoint_SelectEndpoint(1)
    /\ Goto(IF req = "halted" THEN "featureBack" ELSE "feature")
    /\ UNCHANGED <<device, history>> /\ Others

\* The stall is that of the selected endpoint, the FIFO reset that of
\* endpoint 1.
Feature ==
    /\ pc = "feature"
    /\ ctl' = IF UENUM = 0
                THEN Written([ctl EXCEPT !.stall = (req = "halt")], ctl) ELSE ctl
    /\ inp' = CASE UENUM = 1 /\ inp.on /\ req = "halt" ->
                      Written([inp EXCEPT !.halted = TRUE], inp)
                [] UENUM = 1 /\ inp.on /\ req = "unhalt" ->
                      Written([Off EXCEPT !.on = TRUE], inp)
                [] UENUM # 1 /\ req = "unhalt" ->
                      Written([inp EXCEPT !.fill = 0, !.full = FALSE], inp)
                [] OTHER -> inp
    /\ Goto("featureBack")
    /\ UNCHANGED <<UENUM, UDADDR, outp, device, history>> /\ Others

FeatureBack ==
    /\ pc = "featureBack"
    /\ Endpoint_SelectEndpoint(0)
    /\ Goto("featureClear")
    /\ UNCHANGED <<device, history>> /\ Others

FeatureClear ==
    /\ pc = "featureClear"
    /\ Endpoint_ClearSETUP
    /\ Goto(IF req = "halted" THEN "answer" ELSE "status")
    /\ UNCHANGED <<device, history>> /\ Others

\* Endpoint_Write_Control_PStream_LE (GetDescriptor) and ..._Stream_LE
\* (GetReport), with data of one packet: both loops end when the device is
\* unattached or another SETUP has arrived.
WriteControl ==
    /\ pc = "write"
    /\ \/ /\ DeviceState = "Unattached" \/ Endpoint_IsSETUPReceived
          /\ Goto("clearOUT") /\ UNCHANGED regs
       \/ /\ DeviceState # "Unattached" /\ ~Endpoint_IsSETUPReceived
          /\ Endpoint_IsOUTReceived
          /\ Goto("writeEnd") /\ UNCHANGED regs
       \/ /\ DeviceState # "Unattached" /\ ~Endpoint_IsSETUPReceived
          /\ ~Endpoint_IsOUTReceived /\ Endpoint_IsINReady
          /\ Endpoint_ClearIN(req)
          /\ Goto("writeEnd")
    /\ UNCHANGED <<device, history>> /\ Others

WriteControlEnd ==
    /\ pc = "writeEnd"
    /\ \/ Endpoint_IsOUTReceived
       \/ DeviceState = "Unattached"
       \/ Endpoint_IsSETUPReceived
    /\ Goto("clearOUT")
    /\ UNCHANGED <<device, regs, history>> /\ Others

\* Mutant: GetDescriptor and GetReport end with Endpoint_ClearIN
ClearOUTAsIN ==
    /\ pc = "clearOUT"
    /\ Endpoint_ClearIN(req)
    /\ Goto("final")
    /\ UNCHANGED <<device, history>> /\ Others

\* The handlers end with Endpoint_ClearOUT whatever the stream returned.
ClearOUT ==
    /\ pc = "clearOUT"
    /\ Endpoint_ClearOUT
    /\ Goto("final")
    /\ UNCHANGED <<device, history>> /\ Others

\* Endpoint_Read_Control_Stream_LE (SetReport): what it reads is as long as
\* its buffer, and after a shorter packet it waits for the rest.
ReadControl ==
    /\ pc = "read"
    /\ \/ /\ DeviceState = "Unattached" \/ Endpoint_IsSETUPReceived
          /\ Goto("clearIN") /\ UNCHANGED regs
       \/ /\ DeviceState # "Unattached" /\ ~Endpoint_IsSETUPReceived
          /\ Endpoint_IsOUTReceived
          /\ Endpoint_ClearOUT
          /\ Goto(IF UENUM = 0 /\ ctl.out = "short" THEN "read" ELSE "readEnd")
    /\ UNCHANGED <<device, history>> /\ Others

\* The wait for the status stage does not look for another SETUP.
ReadControlEnd ==
    /\ pc = "readEnd"
    /\ Endpoint_IsINReady \/ DeviceState = "Unattached"
    /\ Goto("clearIN")
    /\ UNCHANGED <<device, regs, history>> /\ Others

ClearIN ==
    /\ pc = "clearIN"
    /\ Endpoint_ClearIN(req)
    /\ Goto("final")
    /\ UNCHANGED <<device, history>> /\ Others

RequestStep ==
    \/ ClearStatusStage \/ Answer
    \/ SetAddress \/ AddressWait \/ AddressEnable \/ AddressState
    \/ SetNumber \/ ConfigState \/ ConfSelect \/ ConfWrite \/ ConfBack
    \/ FeatureSelect \/ Feature \/ FeatureBack \/ FeatureClear
    \/ WriteControl \/ WriteControlEnd \/ ClearOUT
    \/ ReadControl \/ ReadControlEnd \/ ClearIN

MainStep == HidStep \/ TaskStep \/ RequestStep

-----------------------------------------------------------------------------
\* ISR(USB_GEN_vect), with what the controller does at the event.

\* End of reset: the address, every packet and perhaps the allocation of the
\* report endpoints are gone; the control endpoint is configured and stays
\* selected; the suspend interrupt waits for the next wake-up.
EndOfReset ==
    /\ ~frozen
    /\ DeviceState' = "Default" /\ ConfigurationNumber' = 0
    /\ waking' = TRUE
    /\ UENUM' = 0 /\ UDADDR' = [address |-> 0, enabled |-> FALSE]
    /\ ctl' = Flushed
    /\ \E kept \in BOOLEAN : /\ inp' = [Off EXCEPT !.on = kept /\ inp.on]
                            /\ outp' = [OffOut EXCEPT !.on = kept /\ outp.on]
    /\ disturbed' = TRUE
    /\ addressHit' = (addressHit \/ (req = "address" /\
           pc \in {"address", "status", "addressWait", "addressEnable"}))
    /\ UNCHANGED <<frozen, dead, main, handed, slept>>

\* Suspend: with the limited VBUS detection of this chip, Unattached.
SuspendBus ==
    /\ ~waking
    /\ DeviceState' = "Unattached"
    /\ waking' = TRUE /\ frozen' = TRUE /\ dead' \in BOOLEAN
    /\ disturbed' = TRUE /\ slept' = TRUE /\ upset' = TRUE
    /\ UNCHANGED <<ConfigurationNumber, regs, main, handed, addressHit>>

\* Main waits for the console.
Waiting ==
    /\ DeviceState # "Unattached" \/ pc = "addressWait"
    /\ \/ pc = "status" /\ IF req \in ToHost THEN ~Endpoint_IsOUTReceived ELSE ~Endpoint_IsINReady
       \/ pc \in {"addressWait", "readEnd"} /\ ~Endpoint_IsINReady
       \/ pc \in {"write", "writeEnd", "read"} /\ ~Endpoint_IsSETUPReceived /\ ~Endpoint_IsOUTReceived
          /\ (pc = "write" => ~Endpoint_IsINReady)

\* Mutant: the configuration is forgotten
WakeUpForgets ==
    /\ waking
    /\ phase = "off" => pc \notin RequestPc \/ Waiting
    /\ waking' = FALSE /\ frozen' = FALSE /\ dead' = FALSE
    /\ DeviceState' = IF UDADDR.enabled THEN "Addressed" ELSE "Powered"
    /\ UNCHANGED <<ConfigurationNumber, regs, main, console, events, history>>

\* The first activity on the bus after a reset or a suspend.  A port the
\* console has given up stays idle longer than main needs to leave a wait.
WakeUp ==
    /\ waking
    /\ phase = "off" => pc \notin RequestPc \/ Waiting
    /\ waking' = FALSE /\ frozen' = FALSE /\ dead' = FALSE
    /\ DeviceState' = IF ConfigurationNumber = 1 THEN "Configured"
                      ELSE IF UDADDR.enabled THEN "Addressed" ELSE "Powered"
    /\ UNCHANGED <<ConfigurationNumber, regs, main, console, events, history>>

-----------------------------------------------------------------------------
\* The console.

\* The device hears what is sent to its address and a working endpoint.
Hears ==
    /\ ~frozen /\ ctl.ok
    /\ haddr = IF UDADDR.enabled THEN UDADDR.address ELSE 0

Event == events < MaxEvents /\ events' = events + 1

\* Requests the console insists on; the others it gives up when stalled.
\* A request it has dropped it sends again.
Needed == {"descriptor", "address", "config1", "unhalt"}
Optional == {"status", "halted", "getreport", "setreport", "config0", "halt", "other"}

AfterRequest(r) ==
    CASE r = "descriptor" -> "address"
      [] r = "address" -> "config1"
      [] r = "config0" -> "config1"
      [] r = "halt" -> "unhalt"
      [] OTHER -> "run"

AfterStall(r) == IF r \in Needed THEN r ELSE AfterRequest(r)

\* A SETUP is accepted whatever is waiting.
SendSetup(r) ==
    /\ stage = "idle" /\ Hears
    /\ ctl' \in {[ctl EXCEPT !.setup = r, !.stall = FALSE],
                 [Flushed EXCEPT !.setup = r]}
    /\ hreq' = r
    /\ stage' = IF r \in ToHost \cup {"setreport"} THEN "data" ELSE "status"
    /\ UNCHANGED <<haddr, device, irq, UENUM, UDADDR, inp, outp, main, history>>

HostSetup == phase \in Request /\ SendSetup(phase) /\ UNCHANGED <<phase, events>>

HostRequest ==
    /\ phase = "run" /\ Event
    /\ \E r \in Optional : SendSetup(r) /\ phase' = r

\* The next stage, or the end of the transfer.
StageDone ==
    IF stage = "data"
    THEN stage' = "status" /\ UNCHANGED <<phase, haddr>>
    ELSE /\ stage' = "idle" /\ phase' = AfterRequest(hreq)
         /\ haddr' = IF hreq = "address" THEN 1 ELSE haddr

\* The console takes a packet of the control endpoint, or sends one to it.
CanTake == (stage = "data" /\ hreq \in ToHost) \/ (stage = "status" /\ hreq \notin ToHost)
CanSend == (stage = "data" /\ hreq \notin ToHost) \/ (stage = "status" /\ hreq \in ToHost)

HostIn ==
    /\ CanTake /\ Hears /\ ctl.setup = "none" /\ ~ctl.stall /\ ctl.in # "free"
    /\ ctl' = [ctl EXCEPT !.in = "free"]
    /\ StageDone
    /\ UNCHANGED <<hreq, device, irq, UENUM, UDADDR, inp, outp, main, events, history>>

\* A SetReport shorter than the report is an additional event.
HostOut ==
    /\ CanSend /\ Hears /\ ctl.setup = "none" /\ ~ctl.stall /\ ctl.out = "free"
    /\ \/ ctl' = [ctl EXCEPT !.out = "full"] /\ UNCHANGED events
       \/ stage = "data" /\ ctl' = [ctl EXCEPT !.out = "short"] /\ Event
    /\ StageDone
    /\ UNCHANGED <<hreq, device, irq, UENUM, UDADDR, inp, outp, main, history>>

\* The transfer fails: stalled by the device, or dropped by the console.
TransferFails(then) ==
    /\ stage # "idle"
    /\ stage' = "idle" /\ phase' = then
    /\ UNCHANGED <<hreq, haddr, device, irq, regs, main, pass, slept, addressHit>>

HostStalled ==
    /\ Hears /\ ctl.setup = "none" /\ ctl.stall
    /\ TransferFails(AfterStall(hreq)) /\ UNCHANGED <<events, upset>>

HostAbort ==
    /\ Event /\ upset' = TRUE
    /\ TransferFails(hreq)

\* The report endpoints are polled beside the control transfers.
Polling == phase \notin {"off", "descriptor", "address", "config1"} /\ Hears

HostPoll ==
    /\ Polling /\ inp.full /\ ~inp.halted
    /\ inp' = [inp EXCEPT !.fill = 0, !.full = FALSE]
    /\ UNCHANGED <<device, irq, UENUM, UDADDR, ctl, outp, main, console, events, history>>

\* Reports of the wrong length are additional transfers, too.
HostReport ==
    /\ Polling /\ outp.on /\ ~outp.full
    /\ \E n \in 0 .. Report :
          /\ IF n = Report THEN UNCHANGED events ELSE Event
          /\ outp' = [outp EXCEPT !.full = TRUE, !.data = n]
    /\ UNCHANGED <<device, irq, UENUM, UDADDR, ctl, inp, main, console, history>>

\* The console finds the device, or resets it for a reason of its own.
Attach ==
    /\ phase = "off"
    /\ EndOfReset
    /\ phase' = "descriptor" /\ stage' = "idle" /\ haddr' = 0
    /\ UNCHANGED <<hreq, events, upset>>

BusReset ==
    /\ phase # "off" /\ Event
    /\ EndOfReset /\ upset' = TRUE
    /\ phase' = "descriptor" /\ stage' = "idle" /\ haddr' = 0
    /\ UNCHANGED hreq

\* The console sleeps, and goes on later where it was.
Suspend ==
    /\ phase # "off" /\ Event
    /\ SuspendBus
    /\ UNCHANGED console

\* The console gets no further: the device does not hear it, or has nothing
\* left to do and has not answered.
Deaf ==
    /\ phase # "off"
    /\ pc = "hid" \/ Waiting
    /\ \/ ~Hears
       \/ /\ stage # "idle" /\ ~ctl.stall
          /\ ~(CanTake /\ ctl.in # "free" /\ ctl.setup = "none")
          /\ ~(CanSend /\ ctl.out = "free" /\ ctl.setup = "none")
          /\ pc = "hid" => ctl.setup = "none"
       \/ phase = "run" /\ stage = "idle" /\ ~inp.on

\* Then the console gives the port up: the bus goes idle, which the device
\* takes for a suspend.  Later it starts again.
GiveUp ==
    /\ Deaf /\ ~frozen
    /\ SuspendBus
    /\ phase' = "off" /\ stage' = "idle"
    /\ UNCHANGED <<hreq, haddr, events>>

BusStep == WakeUp \/ Attach \/ BusReset \/ Suspend \/ GiveUp

HostStep ==
    \/ HostSetup \/ HostRequest \/ HostIn \/ HostOut \/ HostStalled \/ HostAbort
    \/ HostPoll \/ HostReport

UsbNext == MainStep \/ BusStep \/ HostStep

\* The main loop runs, interrupts are taken, and the console goes on with
\* what it has begun.  Nothing says that it disturbs the bus.
UsbFairness ==
    /\ WF_usbVars(MainStep) /\ SF_usbVars(WakeUp)
    /\ WF_usbVars(Attach) /\ SF_usbVars(GiveUp)
    /\ WF_usbVars(HostSetup) /\ WF_usbVars(HostIn) /\ WF_usbVars(HostOut)
    /\ WF_usbVars(HostStalled) /\ WF_usbVars(HostPoll)

UsbSpec == UsbInit /\ [][UsbNext]_usbVars /\ UsbFairness

-----------------------------------------------------------------------------

\* HID_Task prints a U whenever Endpoint_IsINReady held, whatever became of
\* the report.  Unless the bus was reset or suspended during this very call,
\* a report was handed to the IN endpoint before its U.
EveryUHasReport ==
    pc = "printU" => handed \/ disturbed

\* Endpoint_Write_Stream_LE runs byte by byte, and USB_USBTask may run inside
\* it: but a console that does not suspend the bus never gets a part of a
\* report, resets and reconfigurations included.
WholeReports == [][HostPoll => inp.fill = Report \/ slept]_usbVars

\* The control endpoint has one bank for all requests, and handlers do not
\* wait until the answer was taken.  A console that sends one request after
\* the other still gets an answer only to the request it sent.
OwnAnswers == [][HostIn => ctl.in = hreq \/ upset]_usbVars

\* Whatever the console does for a while, it gets reports again: the endless
\* waits of the handlers (Endpoint_ClearStatusStage, the loop of
\* USB_Device_SetAddress) do not keep main from HID_Task for good.  Two
\* cases are left out: a reset inside SetAddress, after which the device may
\* take the next address too early, and registers that ignore writes while
\* the clock is frozen, with which a report stream may go on for ever on the
\* control endpoint.
ReportsFlow == []<><<HostPoll>>_usbVars \/ <>(addressHit \/ dead)

=============================================================================
