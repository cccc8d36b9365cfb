--------------------------- MODULE UsbDeviceProofs ---------------------------
(***************************************************************************)
(* Every U has its report, reports are whole, and a console that is left   *)
(* alone gets only the answers to its own requests, for any number of      *)
(* resets, suspends, dropped transfers and requests.                       *)
(*                                                                         *)
(* UsbInv says which endpoint is selected at each statement.  As long as   *)
(* the bus is not disturbed the write stream works on the free bank of the *)
(* IN endpoint; after a reset it works on the control endpoint and never   *)
(* comes back to a bank it has begun to fill.                              *)
(*                                                                         *)
(* AnswerInv adds the types of the other variables and, for a console that *)
(* was not upset, whose request the control endpoint and main have in hand.*)
(***************************************************************************)
EXTENDS UsbDevice, TLAPS

\* The report is being written.
InStream == stream = "in" /\ pc \in {"wait", "stream", "send"}

\* Statements that expect the control endpoint.
OnControl == (RequestPc \cup {"setup", "handle"})
             \ {"confSelect", "confWrite", "confBack", "feature", "featureBack"}

BankType == /\ inp \in Bank
            /\ len \in 0 .. Report
            /\ back \in {"hid", "wait"} /\ stream \in {"in", "out"}

ClockInv == /\ dead => frozen
            /\ frozen => disturbed /\ slept
            /\ pc \in HidPc => back = "hid"
            /\ pc = "send" => stream = "in"

\* A HID_Task during which the bus was left alone.
CalmInv ==
    /\ ~disturbed /\ pc = "testIn" => UENUM = 1
    /\ ~disturbed /\ InStream => UENUM = 1 /\ inp.on /\ ~inp.full
    /\ ~disturbed /\ back = "wait" => stream = "out"
    /\ EveryUHasReport

\* A device that was never suspended, but perhaps reset.
BankInv ==
    /\ pc \in OnControl => UENUM = 0
    /\ back = "wait" => IF pc = "task" THEN UENUM # 1 ELSE PrevEndpoint # 1
    /\ stream = "out" /\ pc \in {"wait", "stream"} => UENUM # 1
    /\ IF InStream /\ UENUM = 1
       THEN /\ inp.on /\ ~inp.full
            /\ inp.fill + len = Report
            /\ pc = "send" => len = 0
       ELSE inp.fill = IF inp.full THEN Report ELSE 0

\* Which endpoint is selected, and what is in the bank of the IN endpoint,
\* at each statement of HID_Task and USB_USBTask: the inductive invariant.
UsbInv == BankType /\ ClockInv /\ CalmInv /\ (~slept => BankInv)

-----------------------------------------------------------------------------
\* What the controller and main do to the bank of the IN endpoint.
LEMMA Emptied ==
    ASSUME NEW b \in Bank
    PROVE  LET e == [b EXCEPT !.fill = 0, !.full = FALSE]
           IN  e \in Bank /\ e.fill = 0 /\ e.full = FALSE /\ e.on = b.on
<1>1. 0 \in 0 .. Report
  BY DEF Report
<1> QED
  BY <1>1, Zenon DEF Bank

\* An endpoint configured again has an empty bank.
LEMMA Switched ==
    ASSUME NEW x \in BOOLEAN
    PROVE  LET e == [Off EXCEPT !.on = x]
           IN  e \in Bank /\ e.fill = 0 /\ e.full = FALSE
<1>1. Off \in Bank
  BY DEF Off, Bank, Report
<1> QED
  BY <1>1, Zenon DEF Bank, Off

\* A halt leaves the bank alone.
LEMMA Halted ==
    ASSUME NEW b \in Bank
    PROVE  LET e == [b EXCEPT !.halted = TRUE]
           IN  e \in Bank /\ e.fill = b.fill /\ e.full = b.full
BY Zenon DEF Bank

\* TXINI and FIFOCON cleared: the bank is the console's.
LEMMA Handed ==
    ASSUME NEW b \in Bank
    PROVE  LET e == [b EXCEPT !.full = TRUE]
           IN  e \in Bank /\ e.fill = b.fill /\ e.full = TRUE /\ e.on = b.on
BY Zenon DEF Bank

\* A byte is written to the bank.
LEMMA Filled ==
    ASSUME NEW b \in Bank, b.fill < Report
    PROVE  LET e == [b EXCEPT !.fill = @ + 1]
           IN  e \in Bank /\ e.fill = b.fill + 1 /\ e.full = b.full /\ e.on = b.on
<1>1. b.fill + 1 \in 0 .. Report
  BY DEF Bank, Report
<1> QED
  BY <1>1, Zenon DEF Bank

\* The end of a reset leaves an empty bank.
LEMMA Reset ==
    ASSUME EndOfReset, inp \in Bank
    PROVE  inp' \in Bank /\ inp'.fill = 0 /\ inp'.full = FALSE
<1>1. PICK kept \in BOOLEAN : inp' = [Off EXCEPT !.on = kept /\ inp.on]
  BY DEF EndOfReset
<1>2. (kept /\ inp.on) \in BOOLEAN
  OBVIOUS
<1> QED
  BY <1>1, <1>2, Switched, Zenon

\* Endpoint_ClearIN on the IN endpoint hands over what is in the bank.
Handover ==
    /\ inp' \in Bank /\ inp'.fill = inp.fill /\ inp'.on = inp.on
    /\ UENUM' = UENUM
    /\ UENUM # 1 => inp' = inp
    /\ UENUM = 1 /\ inp.on /\ ~dead => inp'.full = TRUE
    /\ inp'.full = inp.full \/ inp'.full = TRUE

\* What Endpoint_ClearIN does, whichever endpoint is selected.
LEMMA Cleared ==
    ASSUME NEW packet, Endpoint_ClearIN(packet), inp \in Bank
    PROVE  Handover
<1>1. CASE UENUM = 1 /\ inp.on /\ ~dead
  <2>1. inp' = [inp EXCEPT !.full = TRUE] /\ UENUM' = UENUM
    BY <1>1 DEF Endpoint_ClearIN, Written
  <2> QED
    BY <1>1, <2>1, Handed, Zenon DEF Handover
<1>2. CASE ~(UENUM = 1 /\ inp.on /\ ~dead)
  <2>1. inp' = inp /\ UENUM' = UENUM
    BY <1>2 DEF Endpoint_ClearIN, Written
  <2> QED
    BY <1>2, <2>1 DEF Handover
<1> QED
  BY <1>1, <1>2

\* HID_Task.
LEMMA HidKeeps == UsbInv /\ HidStep => UsbInv'
<1> SUFFICES ASSUME UsbInv, HidStep PROVE UsbInv'
  OBVIOUS
<1> USE DEF UsbInv, BankType, ClockInv, CalmInv, BankInv, EveryUHasReport, InStream,
        OnControl, HidPc, TaskPc, RequestPc, Report, device, irq, regs, main, console, pass,
        hits, history
<1>1. CASE HidBegin
  BY <1>1 DEF HidBegin, Goto, Others, Configured
<1>2. CASE SelectOut
  BY <1>2 DEF SelectOut, Goto, Others, Endpoint_SelectEndpoint, Written
<1>3. CASE TestOut
  BY <1>3 DEF TestOut, Goto, Others, Endpoint_IsOUTReceived, Endpoint_IsReadWriteAllowed
<1>4. CASE ClearOut
  BY <1>4 DEF ClearOut, Return, Others, Endpoint_ClearOUT, Written
<1>5. CASE SelectIn
  BY <1>5 DEF SelectIn, Goto, Others, Endpoint_SelectEndpoint, Written
<1>6. CASE TestIn
  BY <1>6 DEF TestIn, Goto, Others, Endpoint_IsINReady
<1>7. CASE WaitUntilReady
  BY <1>7 DEF WaitUntilReady, Goto, Others, Endpoint_IsINReady, Endpoint_IsOUTReceived,
           StreamDone
<1>8. CASE Stream
  <2>1. CASE len = 0 /\ Goto(StreamDone) /\ UNCHANGED regs
    BY <1>8, <2>1 DEF Stream, Goto, StreamDone, Others
  <2>2. CASE len > 0 /\ Endpoint_IsReadWriteAllowed /\ pc' = pc
    <3>1. \/ inp' = inp
          \/ /\ UENUM = 1 /\ inp' \in Bank /\ inp'.fill = inp.fill + 1
             /\ inp'.full = inp.full /\ inp'.on = inp.on
      BY <1>8, <2>2, Filled, Zenon DEF Stream, Written, Goto, StreamDone
    <3>2. (UENUM = 1 /\ ~dead /\ inp.fill < Report) => inp'.fill = inp.fill + 1
      BY <1>8, <2>2, Filled, Zenon DEF Stream, Written, Goto, StreamDone
    <3>3. BankType'
      BY <1>8, <2>2, <3>1 DEF Stream, Goto, StreamDone
    <3>4. ClockInv' /\ CalmInv'
      BY <1>8, <2>2, <3>1 DEF Stream, Others, Goto, StreamDone
    <3>5. ~slept' => BankInv'
      <4> SUFFICES ASSUME ~slept' PROVE BankInv'
        OBVIOUS
      <4>1. /\ ~slept /\ ~dead /\ BankInv
            /\ inp' \in Bank /\ len' = len - 1 /\ UENUM' = UENUM
            /\ pc = "stream" /\ pc' = "stream"
        BY <1>8, <2>2, <3>3 DEF Stream, Others, Goto, StreamDone
      <4>2. CASE InStream /\ UENUM = 1
        BY <1>8, <2>2, <3>1, <3>2, <4>1, <4>2 DEF Stream, Others, Bank, Goto, StreamDone
      <4>3. CASE ~(InStream /\ UENUM = 1)
        BY <1>8, <2>2, <3>1, <4>1, <4>3 DEF Stream, Others, Bank, Goto, StreamDone
      <4> QED
        BY <4>2, <4>3
    <3> QED
      BY <3>3, <3>4, <3>5 DEF UsbInv
  <2>3. CASE len > 0 /\ ~Endpoint_IsReadWriteAllowed /\ pc' = "task"
    <3>1. inp' = inp \/ Endpoint_ClearIN("report")
      BY <1>8, <2>3 DEF Stream, Endpoint_ClearOUT, Goto, StreamDone
    <3>2. inp' = inp \/ Handover
      BY <3>1, Cleared
    <3>3. BankType'
      BY <1>8, <2>3, <3>2 DEF Stream, Handover, Goto, StreamDone
    <3>4. ClockInv' /\ CalmInv'
      BY <1>8, <2>3, <3>2 DEF Stream, Others, Handover, Endpoint_IsReadWriteAllowed,
                              Endpoint_ClearOUT, Goto, StreamDone
    <3>5. ~slept' => BankInv'
      BY <1>8, <2>3, <3>2 DEF Stream, Others, Handover, Endpoint_IsReadWriteAllowed,
                              Endpoint_ClearOUT, Endpoint_ClearIN, Goto, StreamDone
    <3> QED
      BY <3>3, <3>4, <3>5 DEF UsbInv
  <2> QED
    BY <1>8, <2>1, <2>2, <2>3 DEF Stream, Goto
<1>9. CASE Send
  <2>1. Handover
    BY <1>9, Cleared DEF Send
  <2>2. BankType'
    BY <1>9, <2>1 DEF Send, Goto, Handover
  <2>3. ~disturbed => UENUM = 1 /\ ~inp.full /\ inp'.full = TRUE
    BY <1>9, <2>1 DEF Send, Handover, StreamDone
  <2>4. ~disturbed => handed'
    BY <1>9, <2>3, Zenon DEF Send
  <2>5. ClockInv' /\ CalmInv'
    BY <1>9, <2>4 DEF Send, Goto, Others
  <2>6. ~slept => inp'.fill = IF inp'.full THEN Report ELSE 0
    <3>1. CASE UENUM = 1 /\ stream = "in"
      BY <1>9, <2>1, <3>1 DEF Send, Handover, Bank
    <3>2. CASE ~(UENUM = 1 /\ stream = "in")
      BY <1>9, <2>1, <3>2 DEF Send, Handover
    <3> QED
      BY <3>1, <3>2
  <2>7. ~slept' => BankInv'
    BY <1>9, <2>1, <2>6 DEF Send, Goto, Others, Handover
  <2> QED
    BY <2>2, <2>5, <2>7 DEF UsbInv
<1>10. CASE PrintU
  BY <1>10 DEF PrintU, Return, Others
<1> QED
  BY <1>1, <1>2, <1>3, <1>4, <1>5, <1>6, <1>7, <1>8, <1>9, <1>10, Zenon DEF HidStep

\* USB_USBTask up to the dispatch of a request.
LEMMA TaskKeeps == UsbInv /\ TaskStep => UsbInv'
<1> SUFFICES ASSUME UsbInv, TaskStep PROVE UsbInv'
  OBVIOUS
<1> USE DEF UsbInv, BankType, ClockInv, CalmInv, BankInv, EveryUHasReport, InStream,
        OnControl, HidPc, TaskPc, RequestPc, Report, device, irq, regs, main, console, pass,
        hits, history
<1>1. CASE TaskBegin
  BY <1>1 DEF TaskBegin, Others
<1>2. CASE Select0
  BY <1>2 DEF Select0, Goto, Others, Endpoint_SelectEndpoint, Written
<1>3. CASE TestSetup
  BY <1>3 DEF TestSetup, Goto, Others, Endpoint_IsSETUPReceived
<1>4. CASE Handle
  BY <1>4 DEF Handle, Goto, Others, Endpoint_IsSETUPReceived, Endpoint_ClearSETUP, Written
<1>5. CASE HandleLater
  BY <1>5 DEF HandleLater, Goto, Others, Endpoint_IsSETUPReceived
<1>6. CASE HandleGone
  BY <1>6 DEF HandleGone, Goto, Others, Endpoint_IsSETUPReceived
<1>7. CASE Final
  BY <1>7 DEF Final, Goto, Others, Endpoint_IsSETUPReceived, Written
<1>8. CASE Restore
  BY <1>8 DEF Restore, Others, Endpoint_SelectEndpoint, Written
<1> QED
  BY <1>1, <1>2, <1>3, <1>4, <1>5, <1>6, <1>7, <1>8, Zenon DEF TaskStep

\* The handlers of the requests.
LEMMA RequestKeeps == UsbInv /\ RequestStep => UsbInv'
<1> SUFFICES ASSUME UsbInv, RequestStep PROVE UsbInv'
  OBVIOUS
<1> USE DEF UsbInv, BankType, ClockInv, CalmInv, BankInv, EveryUHasReport, InStream,
        OnControl, HidPc, TaskPc, RequestPc, Report, device, irq, regs, main, console, pass,
        hits, history
<1>1. CASE ClearStatusStage
  <2>1. inp' = inp \/ Endpoint_ClearIN(req)
    BY <1>1 DEF ClearStatusStage, Goto, Others, Endpoint_IsINReady,
             Endpoint_IsOUTReceived, Written, Endpoint_ClearOUT, AfterStatus
  <2>2. inp' = inp \/ Handover
    BY <2>1, Cleared
  <2>3. BankType'
    BY <1>1, <2>2 DEF Handover, ClearStatusStage, Goto, Others, Endpoint_IsINReady,
             Endpoint_IsOUTReceived, Endpoint_ClearIN, Written, Endpoint_ClearOUT,
             AfterStatus
  <2>4. ClockInv' /\ CalmInv'
    BY <1>1, <2>2 DEF Handover, ClearStatusStage, Goto, Others, Endpoint_IsINReady,
             Endpoint_IsOUTReceived, Endpoint_ClearIN, Written, Endpoint_ClearOUT,
             AfterStatus
  <2>5. ~slept' => BankInv'
    BY <1>1, <2>2 DEF Handover, ClearStatusStage, Goto, Others, Endpoint_IsINReady,
             Endpoint_IsOUTReceived, Endpoint_ClearIN, Written, Endpoint_ClearOUT,
             AfterStatus
  <2> QED
    BY <2>3, <2>4, <2>5 DEF UsbInv
<1>2. CASE Answer
  <2>1. inp' = inp \/ Endpoint_ClearIN(req)
    BY <1>2 DEF Answer, Goto, Others, Written
  <2>2. inp' = inp \/ Handover
    BY <2>1, Cleared
  <2>3. BankType'
    BY <1>2, <2>2, Zenon DEF Handover, Answer, Goto, Others, Endpoint_ClearIN, Written
  <2>4. ClockInv' /\ CalmInv'
    BY <1>2, <2>2 DEF Handover, Answer, Goto, Others, Endpoint_ClearIN, Written
  <2>5. ~slept' => BankInv'
    BY <1>2, <2>2 DEF Handover, Answer, Goto, Others, Endpoint_ClearIN, Written
  <2> QED
    BY <2>3, <2>4, <2>5 DEF UsbInv
<1>3. CASE SetAddress
  BY <1>3 DEF SetAddress, Goto, Others, Written
<1>4. CASE AddressWait
  BY <1>4 DEF AddressWait, Goto, Others, Endpoint_IsINReady
<1>5. CASE AddressEnable
  BY <1>5 DEF AddressEnable, Goto, Others, Written
<1>6. CASE AddressState
  BY <1>6 DEF AddressState, Goto, Others
<1>7. CASE SetNumber
  BY <1>7 DEF SetNumber, Goto, Others
<1>8. CASE ConfigState
  BY <1>8 DEF ConfigState, Goto, Others, Configured
<1>9. CASE ConfSelect
  BY <1>9 DEF ConfSelect, Goto, Others, Endpoint_SelectEndpoint, Written
<1>10. CASE ConfWrite
  <2>1. inp' = inp \/ inp' = [Off EXCEPT !.on = TRUE]
    BY <1>10 DEF ConfWrite, Written
  <2>2. inp' = inp \/ (inp' \in Bank /\ inp'.fill = 0 /\ inp'.full = FALSE)
    BY <2>1, Switched, Zenon
  <2>3. BankType'
    BY <1>10, <2>2 DEF ConfWrite
  <2>4. ClockInv' /\ CalmInv'
    BY <1>10, <2>2 DEF ConfWrite, Others
  <2>5. ~slept' => BankInv'
    BY <1>10, <2>2 DEF ConfWrite, Others
  <2> QED
    BY <2>3, <2>4, <2>5 DEF UsbInv
<1>11. CASE ConfBack
  BY <1>11 DEF ConfBack, Goto, Others, Endpoint_SelectEndpoint, Written
<1>12. CASE FeatureSelect
  BY <1>12 DEF FeatureSelect, Goto, Others, Endpoint_SelectEndpoint, Written
<1>13. CASE Feature
  <2>1. \/ inp' = inp
        \/ inp' = [inp EXCEPT !.halted = TRUE]
        \/ inp' = [Off EXCEPT !.on = TRUE]
        \/ inp' = [inp EXCEPT !.fill = 0, !.full = FALSE]
    BY <1>13 DEF Feature, Written
  <2>2. /\ inp' \in Bank
        /\ \/ inp'.fill = inp.fill /\ inp'.full = inp.full
           \/ inp'.fill = 0 /\ inp'.full = FALSE
    BY <2>1, Halted, Switched, Emptied, Zenon
  <2>3. BankType'
    BY <1>13, <2>2 DEF Feature, Goto
  <2>4. ClockInv' /\ CalmInv'
    BY <1>13, <2>2 DEF Feature, Goto, Others
  <2>5. ~slept' => BankInv'
    BY <1>13, <2>2 DEF Feature, Goto, Others
  <2> QED
    BY <2>3, <2>4, <2>5 DEF UsbInv
<1>14. CASE FeatureBack
  BY <1>14 DEF FeatureBack, Goto, Others, Endpoint_SelectEndpoint, Written
<1>15. CASE FeatureClear
  BY <1>15 DEF FeatureClear, Goto, Others, Endpoint_ClearSETUP, Written
<1>16. CASE WriteControl
  <2>1. inp' = inp \/ Endpoint_ClearIN(req)
    BY <1>16 DEF WriteControl, Goto, Others, Endpoint_IsINReady, Endpoint_IsOUTReceived,
             Endpoint_IsSETUPReceived, Written
  <2>2. inp' = inp \/ Handover
    BY <2>1, Cleared
  <2>3. BankType'
    BY <1>16, <2>2 DEF Handover, WriteControl, Goto, Others, Endpoint_IsINReady,
             Endpoint_IsOUTReceived, Endpoint_IsSETUPReceived, Endpoint_ClearIN, Written
  <2>4. ClockInv' /\ CalmInv'
    BY <1>16, <2>2 DEF Handover, WriteControl, Goto, Others, Endpoint_IsINReady,
             Endpoint_IsOUTReceived, Endpoint_IsSETUPReceived, Endpoint_ClearIN, Written
  <2>5. ~slept' => BankInv'
    BY <1>16, <2>2 DEF Handover, WriteControl, Goto, Others, Endpoint_IsINReady,
             Endpoint_IsOUTReceived, Endpoint_IsSETUPReceived, Endpoint_ClearIN, Written
  <2> QED
    BY <2>3, <2>4, <2>5 DEF UsbInv
<1>17. CASE WriteControlEnd
  BY <1>17 DEF WriteControlEnd, Goto, Others, Endpoint_IsOUTReceived,
           Endpoint_IsSETUPReceived
<1>18. CASE ClearOUT
  BY <1>18 DEF ClearOUT, Goto, Others, Endpoint_ClearOUT, Written
<1>19. CASE ReadControl
  BY <1>19 DEF ReadControl, Goto, Others, Endpoint_IsOUTReceived,
           Endpoint_IsSETUPReceived, Endpoint_ClearOUT, Written
<1>20. CASE ReadControlEnd
  BY <1>20 DEF ReadControlEnd, Goto, Others, Endpoint_IsINReady
<1>21. CASE ClearIN
  <2>1. inp' = inp \/ Endpoint_ClearIN(req)
    BY <1>21 DEF ClearIN, Goto, Others, Written
  <2>2. inp' = inp \/ Handover
    BY <2>1, Cleared
  <2>3. BankType'
    BY <1>21, <2>2, Zenon DEF Handover, ClearIN, Goto, Others, Endpoint_ClearIN, Written
  <2>4. ClockInv' /\ CalmInv'
    BY <1>21, <2>2 DEF Handover, ClearIN, Goto, Others, Endpoint_ClearIN, Written
  <2>5. ~slept' => BankInv'
    BY <1>21, <2>2, SMTT(30) DEF Handover, ClearIN, Goto, Others, Endpoint_ClearIN, Written
  <2> QED
    BY <2>3, <2>4, <2>5 DEF UsbInv
<1> QED
  BY <1>1, <1>2, <1>3, <1>4, <1>5, <1>6, <1>7, <1>8, <1>9, <1>10,
     <1>11, <1>12, <1>13, <1>14, <1>15, <1>16, <1>17, <1>18, <1>19, <1>20,
     <1>21, Zenon DEF RequestStep

\* The interrupt.
LEMMA BusKeeps == UsbInv /\ BusStep => UsbInv'
<1> SUFFICES ASSUME UsbInv, BusStep PROVE UsbInv'
  OBVIOUS
<1> USE DEF UsbInv, BankType, ClockInv, CalmInv, BankInv, EveryUHasReport, InStream,
        OnControl, HidPc, TaskPc, RequestPc, Report, device, irq, regs, main, console, pass,
        hits, history
<1>1. CASE WakeUp
  BY <1>1 DEF WakeUp, Configured
<1>2. CASE Attach
  <2>1. inp' \in Bank /\ inp'.fill = 0 /\ inp'.full = FALSE
    BY <1>2, Reset, Zenon DEF Attach
  <2>2. BankType'
    BY <1>2, <2>1 DEF Attach, EndOfReset, Off, OffOut, Flushed
  <2>3. ClockInv' /\ CalmInv'
    BY <1>2, <2>1 DEF Attach, EndOfReset, Off, OffOut, Flushed
  <2>4. ~slept' => BankInv'
    BY <1>2, <2>1 DEF Attach, EndOfReset, Off, OffOut, Flushed
  <2> QED
    BY <2>2, <2>3, <2>4 DEF UsbInv
<1>3. CASE BusReset
  <2>1. inp' \in Bank /\ inp'.fill = 0 /\ inp'.full = FALSE
    BY <1>3, Reset, Zenon DEF BusReset
  <2>2. BankType'
    BY <1>3, <2>1 DEF BusReset, EndOfReset, Off, OffOut, Flushed
  <2>3. ClockInv' /\ CalmInv'
    BY <1>3, <2>1 DEF BusReset, EndOfReset, Off, OffOut, Flushed
  <2>4. ~slept' => BankInv'
    BY <1>3, <2>1 DEF BusReset, EndOfReset, Off, OffOut, Flushed
  <2> QED
    BY <2>2, <2>3, <2>4 DEF UsbInv
<1>4. CASE Suspend
  BY <1>4 DEF Suspend, SuspendBus
<1>5. CASE GiveUp
  BY <1>5 DEF GiveUp, SuspendBus
<1> QED
  BY <1>1, <1>2, <1>3, <1>4, <1>5 DEF BusStep

\* The console.
LEMMA HostKeeps == UsbInv /\ HostStep => UsbInv'
<1> SUFFICES ASSUME UsbInv, HostStep PROVE UsbInv'
  OBVIOUS
<1> USE DEF UsbInv, BankType, ClockInv, CalmInv, BankInv, EveryUHasReport, InStream,
        OnControl, HidPc, TaskPc, RequestPc, Report, device, irq, regs, main, console, pass,
        hits, history
<1>1. CASE HostSetup
  BY <1>1 DEF HostSetup, SendSetup, Flushed
<1>2. CASE HostRequest
  BY <1>2 DEF HostRequest, SendSetup, Flushed
<1>3. CASE HostIn
  BY <1>3 DEF HostIn, StageDone
<1>4. CASE HostOut
  BY <1>4 DEF HostOut, StageDone
<1>5. CASE HostStalled
  BY <1>5 DEF HostStalled, TransferFails
<1>6. CASE HostAbort
  BY <1>6 DEF HostAbort, TransferFails
<1>7. CASE HostPoll
  <2>1. inp' \in Bank /\ inp'.fill = 0 /\ inp'.full = FALSE /\ inp'.on = inp.on
    BY <1>7, Emptied, Zenon DEF HostPoll
  <2>2. BankType'
    BY <1>7, <2>1 DEF HostPoll
  <2>3. ClockInv' /\ CalmInv'
    BY <1>7, <2>1 DEF HostPoll
  <2>4. ~slept' => BankInv'
    BY <1>7, <2>1 DEF HostPoll
  <2> QED
    BY <2>2, <2>3, <2>4 DEF UsbInv
<1>8. CASE HostReport
  BY <1>8 DEF HostReport
<1> QED
  BY <1>1, <1>2, <1>3, <1>4, <1>5, <1>6, <1>7, <1>8, Zenon DEF HostStep

\* After SetupHardware the bank is empty and nothing is being written.
LEMMA UsbInitInv == UsbInit => UsbInv
BY DEF UsbInit, UsbInv, BankType, ClockInv, CalmInv, BankInv, EveryUHasReport, InStream,
       OnControl, HidPc, RequestPc, Report, Off, Bank

\* Every step keeps the invariant.
LEMMA UsbNextInv == UsbInv /\ [UsbNext]_usbVars => UsbInv'
<1> SUFFICES ASSUME UsbInv, [UsbNext]_usbVars PROVE UsbInv'
  OBVIOUS
<1>1. CASE UNCHANGED usbVars
  BY <1>1 DEF usbVars, device, irq, regs, main, console, pass, hits, history, UsbInv,
              BankType, ClockInv, CalmInv, BankInv, EveryUHasReport, InStream
<1>2. CASE UsbNext
  BY <1>2, HidKeeps, TaskKeeps, RequestKeeps, BusKeeps, HostKeeps DEF UsbNext, MainStep
<1> QED
  BY <1>1, <1>2

\* The bank of the IN endpoint and the selected endpoint are as UsbInv says, at
\* every statement of the main loop and after every interrupt.
THEOREM UsbInvariance == UsbSpec => []UsbInv
BY UsbInitInv, UsbNextInv, PTL DEF UsbSpec

\* HID_Task prints no U for a report it did not hand over, unless the bus was
\* reset or suspended during the call, whatever happened before.
THEOREM UCorrect == UsbSpec => []EveryUHasReport
<1>1. UsbInv => EveryUHasReport
  BY DEF UsbInv, CalmInv
<1> QED
  BY <1>1, UsbInvariance, PTL

\* However often the bus is reset and the device configured again inside the
\* write stream of HID_Task, the console gets no part of a report.
THEOREM ReportsCorrect == UsbSpec => []WholeReports
<1>1. UsbInv => [HostPoll => inp.fill = Report \/ slept]_usbVars
  BY DEF UsbInv, BankInv, InStream, HostPoll
<1> QED
  BY <1>1, UsbInvariance, PTL DEF WholeReports

-----------------------------------------------------------------------------
\* The types of the other variables.

\* A control endpoint that was configured again is a control endpoint.
LEMMA FlushedType == Flushed \in Control
BY DEF Control, Flushed

\* The writes to the control endpoint that carry no request keep its type,
LEMMA ControlUpdates ==
    ASSUME NEW c \in Control
    PROVE  /\ [c EXCEPT !.in = "free"] \in Control
           /\ [c EXCEPT !.out = "free"] \in Control
           /\ \A x \in {"full", "short"} : [c EXCEPT !.out = x] \in Control
           /\ [c EXCEPT !.setup = "none"] \in Control
           /\ [c EXCEPT !.setup = "none", !.stall = TRUE] \in Control
BY Zenon DEF Control

\*   a packet handed to the console,
LEMMA ControlPacket ==
    ASSUME NEW c \in Control, NEW p \in Request \cup {"report"}
    PROVE  [c EXCEPT !.in = p] \in Control
BY Zenon DEF Control

\*   a SETUP that arrives,
LEMMA ControlSetup ==
    ASSUME NEW c \in Control, NEW r \in Request
    PROVE  /\ [c EXCEPT !.setup = r] \in Control
           /\ [c EXCEPT !.setup = r, !.stall = FALSE] \in Control
BY Zenon DEF Control

\*   and the stall and the configuration.
LEMMA ControlFlag ==
    ASSUME NEW c \in Control, NEW x \in BOOLEAN
    PROVE  [c EXCEPT !.stall = x] \in Control /\ [c EXCEPT !.ok = x] \in Control
BY Zenon DEF Control

\* Writes to UDADDR.
LEMMA AddressUpdates ==
    ASSUME NEW a \in Address
    PROVE  /\ [a EXCEPT !.address = 1] \in Address
           /\ [a EXCEPT !.enabled = TRUE] \in Address
           /\ [address |-> 0, enabled |-> FALSE] \in Address
BY Zenon DEF Address

\* Reading, acknowledging and receiving a packet of the OUT endpoint.
LEMMA OutUpdates ==
    ASSUME NEW o \in OutBank
    PROVE  /\ [o EXCEPT !.full = FALSE, !.data = 0] \in OutBank
           /\ o.data > 0 => [o EXCEPT !.data = @ - 1] \in OutBank
           /\ \A n \in 0 .. Report : [o EXCEPT !.full = TRUE, !.data = n] \in OutBank
<1>1. 0 \in 0 .. Report /\ (o.data > 0 => o.data - 1 \in 0 .. Report)
  BY DEF OutBank, Report
<1> QED
  BY <1>1, Zenon DEF OutBank

\* The OUT endpoint configured again, or lost in a reset.
LEMMA OutSwitched ==
    ASSUME NEW x \in BOOLEAN
    PROVE  [OffOut EXCEPT !.on = x] \in OutBank
<1>1. OffOut \in OutBank
  BY DEF OutBank, OffOut, Report
<1> QED
  BY <1>1, Zenon DEF OutBank

\* The registers and the control and OUT endpoints
RegisterType ==
    /\ UENUM \in 0 .. 2
    /\ UDADDR \in Address /\ ctl \in Control /\ outp \in OutBank

MainType ==
    /\ pc \in HidPc \cup TaskPc \cup RequestPc
    /\ PrevEndpoint \in 0 .. 2
    /\ req \in Request /\ conf \in 1 .. 3

ConsoleType ==
    /\ phase \in {"off", "run"} \cup Request
    /\ hreq \in Request /\ stage \in {"idle", "data", "status"}
    /\ haddr \in {0, 1}
    /\ events \in 0 .. MaxEvents

FlagType ==
    /\ DeviceState \in State /\ ConfigurationNumber \in {0, 1}
    /\ waking \in BOOLEAN /\ frozen \in BOOLEAN /\ dead \in BOOLEAN
    /\ handed \in BOOLEAN /\ disturbed \in BOOLEAN
    /\ slept \in BOOLEAN /\ upset \in BOOLEAN /\ addressHit \in BOOLEAN

RestType == RegisterType /\ MainType /\ ConsoleType /\ FlagType

\* Every access to the registers keeps their types: selecting an endpoint,
LEMMA SelectType ==
    ASSUME RegisterType, NEW e \in 0 .. 2, Endpoint_SelectEndpoint(e)
    PROVE  RegisterType'
BY DEF RegisterType, Endpoint_SelectEndpoint, Written

\*   sending a packet,
LEMMA ClearINType ==
    ASSUME RegisterType, NEW p \in Request \cup {"report"}, Endpoint_ClearIN(p)
    PROVE  RegisterType'
<1>1. ctl' = ctl \/ ctl' = [ctl EXCEPT !.in = p]
  BY DEF Endpoint_ClearIN, Written
<1>2. ctl' \in Control
  BY <1>1, ControlPacket DEF RegisterType
<1> QED
  BY <1>2 DEF RegisterType, Endpoint_ClearIN

\*   freeing the OUT bank,
LEMMA ClearOUTType ==
    ASSUME RegisterType, Endpoint_ClearOUT
    PROVE  RegisterType'
<1>1. ctl' = ctl \/ ctl' = [ctl EXCEPT !.out = "free"]
  BY DEF Endpoint_ClearOUT, Written
<1>2. ctl' \in Control
  BY <1>1, ControlUpdates, Zenon DEF RegisterType
<1>3. outp' = outp \/ outp' = [outp EXCEPT !.full = FALSE, !.data = 0]
  BY DEF Endpoint_ClearOUT, Written
<1>4. outp' \in OutBank
  BY <1>3, OutUpdates, Zenon DEF RegisterType
<1> QED
  BY <1>2, <1>4 DEF RegisterType, Endpoint_ClearOUT

\*   taking a SETUP,
LEMMA ClearSETUPType ==
    ASSUME RegisterType, Endpoint_ClearSETUP
    PROVE  RegisterType'
<1>1. ctl' = ctl \/ ctl' = [ctl EXCEPT !.setup = "none"]
  BY DEF Endpoint_ClearSETUP, Written
<1>2. ctl' \in Control
  BY <1>1, ControlUpdates, Zenon DEF RegisterType
<1> QED
  BY <1>2 DEF RegisterType, Endpoint_ClearSETUP

\* The end of a reset and a SETUP keep the types, too.
LEMMA EndOfResetType ==
    ASSUME RegisterType, EndOfReset
    PROVE  RegisterType'
<1>1. PICK kept \in BOOLEAN : outp' = [OffOut EXCEPT !.on = kept /\ outp.on]
  BY DEF EndOfReset
<1>2. (kept /\ outp.on) \in BOOLEAN
  OBVIOUS
<1>3. outp' \in OutBank
  BY <1>1, <1>2, OutSwitched, Zenon
<1>4. UDADDR' \in Address /\ ctl' \in Control /\ UENUM' \in 0 .. 2
  <2>1. UDADDR' = [address |-> 0, enabled |-> FALSE] /\ ctl' = Flushed /\ UENUM' = 0
    BY DEF EndOfReset
  <2> QED
    BY <2>1, FlushedType DEF Address
<1> QED
  BY <1>3, <1>4 DEF RegisterType

\*   and the console writing one.
LEMMA SendSetupType ==
    ASSUME RegisterType, NEW r \in Request, SendSetup(r)
    PROVE  RegisterType'
<1>1. ctl \in Control /\ Flushed \in Control
  BY FlushedType DEF RegisterType
<1>2. \/ ctl' = [ctl EXCEPT !.setup = r, !.stall = FALSE]
      \/ ctl' = [Flushed EXCEPT !.setup = r]
  BY DEF SendSetup
<1>3. ctl' \in Control
  BY <1>1, <1>2, ControlSetup, Zenon
<1> QED
  BY <1>3 DEF SendSetup, RegisterType

\* HID_Task.
LEMMA HidTypes == UsbInv /\ RestType /\ HidStep => RestType'
<1> SUFFICES ASSUME UsbInv, RestType, HidStep PROVE RestType'
  OBVIOUS
<1> USE DEF RestType, MainType, ConsoleType, FlagType, UsbInv, BankType, HidPc,
        TaskPc, RequestPc, State, Request, device, irq, regs, main, console, pass, hits,
        history
<1>1. CASE HidBegin
  <2>1. RegisterType' /\ MainType' /\ ConsoleType'
    BY <1>1 DEF HidBegin, Goto, Others, RegisterType
  <2>2. FlagType'
    BY <1>1, ZenonT(40) DEF HidBegin, Others
  <2> QED
    BY <2>1, <2>2
<1>2. CASE SelectOut
  <2>1. RegisterType'
    BY <1>2, SelectType DEF SelectOut
  <2>2. MainType' /\ ConsoleType' /\ FlagType'
    BY <1>2 DEF SelectOut, Goto, Others
  <2> QED
    BY <2>1, <2>2
<1>3. CASE TestOut
  BY <1>3 DEF TestOut, Goto, Others, RegisterType
<1>4. CASE ClearOut
  <2>1. RegisterType'
    BY <1>4, ClearOUTType DEF ClearOut
  <2>2. MainType' /\ ConsoleType' /\ FlagType'
    BY <1>4 DEF ClearOut, Return, Others
  <2> QED
    BY <2>1, <2>2
<1>5. CASE SelectIn
  <2>1. RegisterType'
    BY <1>5, SelectType DEF SelectIn
  <2>2. MainType' /\ ConsoleType' /\ FlagType'
    BY <1>5 DEF SelectIn, Goto, Others
  <2> QED
    BY <2>1, <2>2
<1>6. CASE TestIn
  BY <1>6 DEF TestIn, Goto, Others, RegisterType
<1>7. CASE WaitUntilReady
  BY <1>7 DEF WaitUntilReady, Goto, StreamDone, Others, RegisterType
<1>8. CASE Stream
  <2>1. RegisterType'
    <3>1. CASE UNCHANGED regs
      BY <3>1 DEF RegisterType
    <3>2. CASE Endpoint_ClearIN("report") \/ Endpoint_ClearOUT
      BY <3>2, ClearINType, ClearOUTType
    <3>3. CASE /\ Endpoint_IsReadWriteAllowed /\ UNCHANGED <<UENUM, UDADDR, ctl>>
               /\ outp' = IF UENUM = 2
                          THEN Written([outp EXCEPT !.data = @ - 1], outp) ELSE outp
      <4>1. outp' = outp \/ (outp.data > 0 /\ outp' = [outp EXCEPT !.data = @ - 1])
        BY <3>3 DEF Written, Endpoint_IsReadWriteAllowed
      <4>2. outp' \in OutBank
        BY <4>1, OutUpdates, Zenon DEF RegisterType
      <4> QED
        BY <3>3, <4>2 DEF RegisterType
    <3> QED
      BY <1>8, <3>1, <3>2, <3>3 DEF Stream
  <2>2. MainType' /\ ConsoleType' /\ FlagType'
    BY <1>8 DEF Stream, Goto, StreamDone, Others
  <2> QED
    BY <2>1, <2>2
<1>9. CASE Send
  <2>1. RegisterType'
    BY <1>9, ClearINType DEF Send
  <2>2. MainType' /\ ConsoleType'
    BY <1>9 DEF Send, Goto, Others
  <2>3. handed' \in BOOLEAN
    BY <1>9, Zenon DEF Send
  <2>4. FlagType'
    BY <1>9, <2>3 DEF Send, Others
  <2> QED
    BY <2>1, <2>2, <2>4
<1>10. CASE PrintU
  <2>1. RegisterType' /\ MainType' /\ ConsoleType'
    BY <1>10 DEF PrintU, Return, Others, RegisterType
  <2>2. FlagType'
    BY <1>10, ZenonT(40) DEF PrintU, Others
  <2> QED
    BY <2>1, <2>2
<1> QED
  BY <1>1, <1>2, <1>3, <1>4, <1>5, <1>6, <1>7, <1>8, <1>9, <1>10 DEF HidStep

\* USB_USBTask up to the dispatch of a request.
LEMMA TaskTypes == UsbInv /\ RestType /\ TaskStep => RestType'
<1> SUFFICES ASSUME UsbInv, RestType, TaskStep PROVE RestType'
  OBVIOUS
<1> USE DEF RestType, MainType, ConsoleType, FlagType, UsbInv, BankType, HidPc,
        TaskPc, RequestPc, State, Request, device, irq, regs, main, console, pass, hits,
        history
<1>1. CASE TaskBegin
  BY <1>1 DEF TaskBegin, Others, RegisterType
<1>2. CASE Select0
  <2>1. RegisterType'
    BY <1>2, SelectType DEF Select0
  <2>2. MainType' /\ ConsoleType' /\ FlagType'
    BY <1>2 DEF Select0, Goto, Others
  <2> QED
    BY <2>1, <2>2
<1>3. CASE TestSetup
  <2>1. Endpoint_IsSETUPReceived => ctl.setup \in Request
    BY DEF RegisterType, Control, Endpoint_IsSETUPReceived
  <2> QED
    BY <1>3, <2>1 DEF TestSetup, Goto, Others, RegisterType
<1>4. CASE Handle
  <2>1. RegisterType'
    BY <1>4, ClearSETUPType DEF Handle
  <2>2. MainType' /\ ConsoleType' /\ FlagType'
    BY <1>4 DEF Handle, Goto, Others
  <2> QED
    BY <2>1, <2>2
<1>5. CASE HandleLater
  BY <1>5 DEF HandleLater, Goto, Others, RegisterType
<1>6. CASE HandleGone
  BY <1>6 DEF HandleGone, Goto, Others, RegisterType
<1>7. CASE Final
  <2>1. ctl' = ctl \/ ctl' = [ctl EXCEPT !.setup = "none", !.stall = TRUE]
    BY <1>7 DEF Final, Written
  <2>2. ctl' \in Control
    BY <2>1, ControlUpdates, Zenon DEF RegisterType
  <2> QED
    BY <1>7, <2>2 DEF Final, Goto, Others, RegisterType
<1>8. CASE Restore
  <2>1. RegisterType'
    BY <1>8, SelectType DEF Restore
  <2> QED
    BY <1>8, <2>1 DEF Restore, Others
<1> QED
  BY <1>1, <1>2, <1>3, <1>4, <1>5, <1>6, <1>7, <1>8 DEF TaskStep

\* The handlers of the requests.
LEMMA RequestTypes == UsbInv /\ RestType /\ RequestStep => RestType'
<1> SUFFICES ASSUME UsbInv, RestType, RequestStep PROVE RestType'
  OBVIOUS
<1> USE DEF RestType, MainType, ConsoleType, FlagType, UsbInv, BankType, HidPc,
        TaskPc, RequestPc, State, Request, device, irq, regs, main, console, pass, hits,
        history
<1>1. CASE ClearStatusStage
  <2>1. CASE UNCHANGED regs
    BY <1>1, <2>1 DEF ClearStatusStage, Goto, AfterStatus, Others, RegisterType
  <2>2. CASE Endpoint_ClearIN(req) \/ Endpoint_ClearOUT
    <3>1. RegisterType'
      BY <2>2, ClearINType, ClearOUTType
    <3> QED
      BY <1>1, <3>1 DEF ClearStatusStage, Goto, AfterStatus, Others
  <2> QED
    BY <1>1, <2>1, <2>2 DEF ClearStatusStage
<1>2. CASE Answer
  <2>1. RegisterType'
    BY <1>2, ClearINType DEF Answer
  <2>2. MainType' /\ ConsoleType' /\ FlagType'
    BY <1>2 DEF Answer, Goto, Others
  <2> QED
    BY <2>1, <2>2
<1>3. CASE SetAddress
  <2>1. /\ UDADDR' = UDADDR \/ UDADDR' = [UDADDR EXCEPT !.address = 1]
        /\ ctl' = ctl \/ ctl' = [ctl EXCEPT !.setup = "none"]
    BY <1>3 DEF SetAddress, Written
  <2>2. UDADDR' \in Address /\ ctl' \in Control
    BY <2>1, ControlUpdates, AddressUpdates, Zenon DEF RegisterType
  <2> QED
    BY <1>3, <2>2 DEF SetAddress, Goto, Others, RegisterType
<1>4. CASE AddressWait
  BY <1>4 DEF AddressWait, Goto, Others, RegisterType
<1>5. CASE AddressEnable
  <2>1. UDADDR' = UDADDR \/ UDADDR' = [UDADDR EXCEPT !.enabled = TRUE]
    BY <1>5 DEF AddressEnable, Written
  <2>2. UDADDR' \in Address
    BY <2>1, AddressUpdates, Zenon DEF RegisterType
  <2> QED
    BY <1>5, <2>2 DEF AddressEnable, Goto, Others, RegisterType
<1>6. CASE AddressState
  BY <1>6 DEF AddressState, Goto, Others, RegisterType
<1>7. CASE SetNumber
  BY <1>7 DEF SetNumber, Goto, Others, RegisterType
<1>8. CASE ConfigState
  BY <1>8 DEF ConfigState, Goto, Others, RegisterType
<1>9. CASE ConfSelect
  <2>1. Configured[conf] \in 0 .. 2
    BY DEF Configured
  <2>2. RegisterType'
    BY <1>9, <2>1, SelectType DEF ConfSelect
  <2> QED
    BY <1>9, <2>2 DEF ConfSelect, Goto, Others
<1>10. CASE ConfWrite
  <2>1. PICK kept \in BOOLEAN : ctl' = ctl \/ ctl' = [Flushed EXCEPT !.ok = kept]
    BY <1>10, Zenon DEF ConfWrite, Written
  <2>2. outp' = outp \/ outp' = [OffOut EXCEPT !.on = TRUE]
    BY <1>10 DEF ConfWrite, Written
  <2>3. ctl' \in Control
    BY <2>1, FlushedType, ControlFlag, Zenon DEF RegisterType
  <2>4. outp' \in OutBank
    BY <2>2, OutSwitched, Zenon DEF RegisterType
  <2> QED
    BY <1>10, <2>3, <2>4 DEF ConfWrite, Others, RegisterType
<1>11. CASE ConfBack
  <2>1. RegisterType'
    BY <1>11, SelectType DEF ConfBack
  <2>2. MainType' /\ ConsoleType' /\ FlagType'
    BY <1>11 DEF ConfBack, Goto, Others
  <2> QED
    BY <2>1, <2>2
<1>12. CASE FeatureSelect
  <2>1. RegisterType'
    BY <1>12, SelectType DEF FeatureSelect
  <2>2. MainType' /\ ConsoleType' /\ FlagType'
    BY <1>12 DEF FeatureSelect, Goto, Others
  <2> QED
    BY <2>1, <2>2
<1>13. CASE Feature
  <2>1. PICK x \in BOOLEAN : ctl' = ctl \/ ctl' = [ctl EXCEPT !.stall = x]
    BY <1>13, Zenon DEF Feature, Written
  <2>2. ctl' \in Control
    BY <2>1, ControlFlag, Zenon DEF RegisterType
  <2> QED
    BY <1>13, <2>2 DEF Feature, Goto, Others, RegisterType
<1>14. CASE FeatureBack
  <2>1. RegisterType'
    BY <1>14, SelectType DEF FeatureBack
  <2>2. MainType' /\ ConsoleType' /\ FlagType'
    BY <1>14 DEF FeatureBack, Goto, Others
  <2> QED
    BY <2>1, <2>2
<1>15. CASE FeatureClear
  <2>1. RegisterType'
    BY <1>15, ClearSETUPType DEF FeatureClear
  <2>2. MainType' /\ ConsoleType' /\ FlagType'
    BY <1>15 DEF FeatureClear, Goto, Others
  <2> QED
    BY <2>1, <2>2
<1>16. CASE WriteControl
  <2>1. RegisterType'
    <3>1. CASE UNCHANGED regs
      BY <3>1 DEF RegisterType
    <3> QED
      BY <1>16, <3>1, ClearINType DEF WriteControl
  <2>2. MainType' /\ ConsoleType' /\ FlagType'
    BY <1>16 DEF WriteControl, Goto, Others
  <2> QED
    BY <2>1, <2>2
<1>17. CASE WriteControlEnd
  BY <1>17 DEF WriteControlEnd, Goto, Others, RegisterType
<1>18. CASE ClearOUT
  <2>1. RegisterType'
    BY <1>18, ClearOUTType DEF ClearOUT
  <2>2. MainType' /\ ConsoleType' /\ FlagType'
    BY <1>18 DEF ClearOUT, Goto, Others
  <2> QED
    BY <2>1, <2>2
<1>19. CASE ReadControl
  <2>1. RegisterType'
    <3>1. CASE UNCHANGED regs
      BY <3>1 DEF RegisterType
    <3> QED
      BY <1>19, <3>1, ClearOUTType DEF ReadControl
  <2>2. MainType' /\ ConsoleType' /\ FlagType'
    BY <1>19 DEF ReadControl, Goto, Others
  <2> QED
    BY <2>1, <2>2
<1>20. CASE ReadControlEnd
  BY <1>20 DEF ReadControlEnd, Goto, Others, RegisterType
<1>21. CASE ClearIN
  <2>1. RegisterType'
    BY <1>21, ClearINType DEF ClearIN
  <2>2. MainType' /\ ConsoleType' /\ FlagType'
    BY <1>21, SMTT(30) DEF ClearIN, Goto, Others
  <2> QED
    BY <2>1, <2>2
<1> QED
  BY <1>1, <1>2, <1>3, <1>4, <1>5, <1>6, <1>7, <1>8, <1>9, <1>10, <1>11, <1>12,
     <1>13, <1>14, <1>15, <1>16, <1>17, <1>18, <1>19, <1>20,
     <1>21, Zenon DEF RequestStep

\* The interrupt.
LEMMA BusTypes == UsbInv /\ RestType /\ BusStep => RestType'
<1> SUFFICES ASSUME UsbInv, RestType, BusStep PROVE RestType'
  OBVIOUS
<1> USE DEF RestType, MainType, ConsoleType, FlagType, UsbInv, BankType, HidPc,
        TaskPc, RequestPc, State, Request, device, irq, regs, main, console, pass, hits,
        history
<1>1. CASE WakeUp
  <2>1. RegisterType' /\ MainType' /\ ConsoleType'
    BY <1>1 DEF WakeUp, RegisterType
  <2>2. FlagType'
    BY <1>1, Zenon DEF WakeUp
  <2> QED
    BY <2>1, <2>2
<1>2. CASE Attach
  <2>1. RegisterType'
    BY <1>2, EndOfResetType DEF Attach
  <2>2. MainType' /\ ConsoleType'
    BY <1>2, BoundAssumption DEF Attach, EndOfReset
  <2>3. FlagType'
    BY <1>2, Zenon DEF Attach, EndOfReset
  <2> QED
    BY <2>1, <2>2, <2>3
<1>3. CASE BusReset
  <2>1. RegisterType'
    BY <1>3, EndOfResetType DEF BusReset
  <2>2. MainType' /\ ConsoleType'
    BY <1>3, BoundAssumption DEF BusReset, EndOfReset, Event
  <2>3. FlagType'
    BY <1>3, Zenon DEF BusReset, EndOfReset
  <2> QED
    BY <2>1, <2>2, <2>3
<1>4. CASE Suspend
  <2>1. RegisterType' /\ MainType' /\ ConsoleType'
    BY <1>4, BoundAssumption DEF Suspend, SuspendBus, RegisterType, Event
  <2>2. FlagType'
    BY <1>4, Zenon DEF Suspend, SuspendBus
  <2> QED
    BY <2>1, <2>2
<1>5. CASE GiveUp
  <2>1. RegisterType' /\ MainType' /\ ConsoleType'
    BY <1>5 DEF GiveUp, SuspendBus, RegisterType
  <2>2. FlagType'
    BY <1>5, Zenon DEF GiveUp, SuspendBus
  <2> QED
    BY <2>1, <2>2
<1> QED
  BY <1>1, <1>2, <1>3, <1>4, <1>5 DEF BusStep

\* The console.
LEMMA HostTypes == UsbInv /\ RestType /\ HostStep => RestType'
<1> SUFFICES ASSUME UsbInv, RestType, HostStep PROVE RestType'
  OBVIOUS
<1> USE DEF RestType, MainType, ConsoleType, FlagType, UsbInv, BankType, HidPc,
        TaskPc, RequestPc, State, Request, device, irq, regs, main, console, pass, hits,
        history
<1>1. CASE HostSetup
  <2>1. RegisterType'
    BY <1>1, SendSetupType DEF HostSetup
  <2> QED
    BY <1>1, <2>1 DEF HostSetup, SendSetup
<1>2. CASE HostRequest
  <2>1. PICK r \in Optional : SendSetup(r) /\ phase' = r
    BY <1>2 DEF HostRequest
  <2>2. r \in Request
    BY DEF Optional
  <2>3. RegisterType'
    BY <2>1, <2>2, SendSetupType
  <2>4. events' \in 0 .. MaxEvents
    BY <1>2, BoundAssumption DEF HostRequest, Event
  <2> QED
    BY <1>2, <2>1, <2>2, <2>3, <2>4 DEF SendSetup
<1>3. CASE HostIn
  <2>1. ctl' \in Control
    BY <1>3, ControlUpdates, Zenon DEF HostIn, RegisterType
  <2> QED
    BY <1>3, <2>1 DEF HostIn, StageDone, AfterRequest, RegisterType
<1>4. CASE HostOut
  <2>1. ctl' \in Control
    BY <1>4, ControlUpdates, Zenon DEF HostOut, RegisterType
  <2>2. events' \in 0 .. MaxEvents
    BY <1>4, BoundAssumption DEF HostOut, Event
  <2> QED
    BY <1>4, <2>1, <2>2 DEF HostOut, StageDone, AfterRequest, RegisterType
<1>5. CASE HostStalled
  BY <1>5 DEF HostStalled, TransferFails, AfterStall, AfterRequest, RegisterType
<1>6. CASE HostAbort
  <2>1. events' \in 0 .. MaxEvents
    BY <1>6, BoundAssumption DEF HostAbort, Event
  <2> QED
    BY <1>6, <2>1 DEF HostAbort, TransferFails, RegisterType
<1>7. CASE HostPoll
  BY <1>7 DEF HostPoll, RegisterType
<1>8. CASE HostReport
  <2>1. PICK n \in 0 .. Report : /\ IF n = Report THEN UNCHANGED events ELSE Event
                                /\ outp' = [outp EXCEPT !.full = TRUE, !.data = n]
    BY <1>8, Zenon DEF HostReport
  <2>2. outp' \in OutBank
    BY <2>1, OutUpdates, Zenon DEF RegisterType
  <2>3. events' \in 0 .. MaxEvents
    BY <2>1, BoundAssumption DEF Event
  <2> QED
    BY <1>8, <2>2, <2>3 DEF HostReport, RegisterType
<1> QED
  BY <1>1, <1>2, <1>3, <1>4, <1>5, <1>6, <1>7, <1>8 DEF HostStep

-----------------------------------------------------------------------------
\* Whose request it is.

\* The handler has read the request and has not cleared the SETUP.
PreSetup == {"handle", "address", "featureSelect", "feature", "featureBack",
             "featureClear"}

\* The handler has yet to answer the request.
Answering ==
    \/ pc \in {"answer", "write", "number", "read", "readEnd", "clearIN"}
    \/ pc = "status" /\ req \notin ToHost

\* The console waits for the answer to its request.
Open == stage # "idle" /\ (hreq \in ToHost => stage = "data") /\ ~ctl.stall

\* A console that is left alone: the SETUP and the answer on the control
\* endpoint, and what main has in hand, belong to its open request.
Answers ==
    /\ ~slept
    /\ phase = "off" => /\ pc \in {"hid", "task"} /\ back = "hid"
                        /\ DeviceState = "Unattached" /\ ~waking /\ stage = "idle"
    /\ disturbed => pc \notin HidPc \ {"hid"} /\ back = "hid"
    /\ pc = "answer" => req \in ToHost
    /\ pc = "feature" => UENUM = 1
    /\ ctl.in # "free" => ctl.in = hreq /\ ctl.setup = "none" /\ Open
    /\ ctl.setup # "none" => ctl.setup = hreq /\ ctl.in = "free" /\ Open
    /\ pc \in PreSetup => ctl.setup = req
    /\ Answering => req = hreq /\ ctl.setup = "none" /\ ctl.in = "free" /\ Open

-----------------------------------------------------------------------------
\* What the operations do to the fields of the control endpoint.
SameControl == ctl'.setup = ctl.setup /\ ctl'.in = ctl.in /\ ctl'.stall = ctl.stall

\* The fields that a write to the control endpoint changes, and those it leaves.
LEMMA PacketFields ==
    ASSUME NEW c \in Control, NEW p
    PROVE  LET e == [c EXCEPT !.in = p]
           IN  e.in = p /\ e.setup = c.setup /\ e.stall = c.stall
BY Zenon DEF Control

\* What changing one register leaves of the others: of the OUT bank,
LEMMA OutFields ==
    ASSUME NEW c \in Control, NEW x
    PROVE  LET e == [c EXCEPT !.out = x]
           IN  e.in = c.in /\ e.setup = c.setup /\ e.stall = c.stall
BY Zenon DEF Control

\*   of the SETUP,
LEMMA SetupFields ==
    ASSUME NEW c \in Control, NEW r
    PROVE  LET e == [c EXCEPT !.setup = r]
           IN  e.in = c.in /\ e.setup = r /\ e.stall = c.stall
BY Zenon DEF Control

\*   of the SETUP and the stall,
LEMMA StallFields ==
    ASSUME NEW c \in Control, NEW r, NEW x
    PROVE  LET e == [c EXCEPT !.setup = r, !.stall = x]
           IN  e.in = c.in /\ e.setup = r /\ e.stall = x
BY Zenon DEF Control

\*   and of a flushed endpoint.
LEMMA FlushedFields ==
    ASSUME NEW r, NEW x
    PROVE  /\ Flushed.in = "free" /\ Flushed.setup = "none" /\ Flushed.stall = FALSE
           /\ LET e == [Flushed EXCEPT !.setup = r]
              IN  e.in = "free" /\ e.setup = r /\ e.stall = FALSE
           /\ LET e == [Flushed EXCEPT !.ok = x]
              IN  e.in = "free" /\ e.setup = "none" /\ e.stall = FALSE
BY DEF Flushed

\* Endpoint_ClearIN, ClearOUT and ClearSETUP, and a SETUP from the console, seen
\* from the request they belong to.
LEMMA ClearINFields ==
    ASSUME ctl \in Control, NEW p, Endpoint_ClearIN(p)
    PROVE  /\ UENUM' = UENUM
           /\ ctl'.setup = ctl.setup /\ ctl'.stall = ctl.stall
           /\ ctl'.in = ctl.in \/ ctl'.in = p
           /\ UENUM # 0 => ctl'.in = ctl.in
<1>1. \/ ctl' = ctl
      \/ UENUM = 0 /\ ctl' = [ctl EXCEPT !.in = p]
  BY DEF Endpoint_ClearIN, Written
<1>2. UENUM' = UENUM
  BY DEF Endpoint_ClearIN
<1>3. CASE ctl' = ctl
  BY <1>2, <1>3
<1>4. CASE UENUM = 0 /\ ctl' = [ctl EXCEPT !.in = p]
  BY <1>2, <1>4, PacketFields
<1> QED
  BY <1>1, <1>3, <1>4

\* Freeing the OUT bank touches neither the answer nor the SETUP.
LEMMA ClearOUTFields ==
    ASSUME ctl \in Control, Endpoint_ClearOUT
    PROVE  SameControl /\ UENUM' = UENUM
<1>1. ctl' = ctl \/ ctl' = [ctl EXCEPT !.out = "free"]
  BY DEF Endpoint_ClearOUT, Written
<1>2. UENUM' = UENUM
  BY DEF Endpoint_ClearOUT
<1>3. CASE ctl' = ctl
  BY <1>2, <1>3 DEF SameControl
<1>4. CASE ctl' = [ctl EXCEPT !.out = "free"]
  BY <1>2, <1>4, OutFields DEF SameControl
<1> QED
  BY <1>1, <1>3, <1>4

\* Taking the SETUP leaves the answer as it is.
LEMMA ClearSETUPFields ==
    ASSUME ctl \in Control, Endpoint_ClearSETUP, UENUM = 0, ~dead
    PROVE  /\ UENUM' = UENUM /\ ctl'.setup = "none"
           /\ ctl'.in = ctl.in /\ ctl'.stall = ctl.stall
<1>1. ctl' = [ctl EXCEPT !.setup = "none"]
  BY DEF Endpoint_ClearSETUP, Written
<1>2. UENUM' = UENUM
  BY DEF Endpoint_ClearSETUP
<1> QED
  BY <1>1, <1>2, SetupFields

\* A SETUP ends a stall and may drop the answer to the one before.
LEMMA SendSetupFields ==
    ASSUME ctl \in Control, NEW r, SendSetup(r)
    PROVE  /\ ctl'.setup = r /\ ctl'.stall = FALSE
           /\ ctl'.in = ctl.in \/ ctl'.in = "free"
<1>1. \/ ctl' = [ctl EXCEPT !.setup = r, !.stall = FALSE]
      \/ ctl' = [Flushed EXCEPT !.setup = r]
  BY DEF SendSetup
<1>2. CASE ctl' = [ctl EXCEPT !.setup = r, !.stall = FALSE]
  BY <1>2, StallFields
<1>3. CASE ctl' = [Flushed EXCEPT !.setup = r]
  BY <1>3, FlushedFields, Zenon
<1> QED
  BY <1>1, <1>2, <1>3, Zenon

\* A console that was not suspended has a running clock.
LEMMA Running ==
    ASSUME UsbInv, Answers
    PROVE  BankInv /\ ~frozen /\ ~dead
BY DEF UsbInv, Answers, ClockInv

\* HID_Task.
LEMMA HidAnswers ==
    ASSUME UsbInv, RestType, Answers, HidStep
    PROVE  Answers'
<1>0. BankInv /\ ~frozen /\ ~dead /\ ctl \in Control
  BY Running DEF RestType, RegisterType
<1> USE DEF Answers, Answering, Open, PreSetup, SameControl, ToHost, HidPc, TaskPc,
        RequestPc, device, irq, regs, main, console, pass, hits, history
<1>1. CASE HidBegin
  BY <1>1, <1>0 DEF HidBegin, Goto, Others
<1>2. CASE SelectOut
  BY <1>2, <1>0 DEF SelectOut, Goto, Others, Endpoint_SelectEndpoint, Written
<1>3. CASE TestOut
  BY <1>3, <1>0, SMTT(30) DEF TestOut, Goto, Others
<1>4. CASE ClearOut
  <2>1. SameControl /\ UENUM' = UENUM
    BY <1>4, <1>0, ClearOUTFields DEF ClearOut
  <2> QED
    BY <1>4, <1>0, <2>1 DEF ClearOut, Return, Others
<1>5. CASE SelectIn
  BY <1>5, <1>0 DEF SelectIn, Goto, Others, Endpoint_SelectEndpoint, Written
<1>6. CASE TestIn
  BY <1>6, <1>0 DEF TestIn, Goto, Others
<1>7. CASE WaitUntilReady
  BY <1>7, <1>0 DEF WaitUntilReady, Goto, StreamDone, Others
<1>8. CASE Stream
  <2>1. stream = "in" => UENUM = 1
    BY <1>8 DEF Stream, UsbInv, CalmInv, InStream
  <2>2. SameControl
    BY <1>8, <1>0, <2>1, ClearINFields, ClearOUTFields, SMTT(30) DEF Stream
  <2> QED
    BY <1>8, <1>0, <2>1, <2>2 DEF Stream, Goto, StreamDone, Others
<1>9. CASE Send
  <2>1. UENUM = 1
    BY <1>9 DEF Send, UsbInv, ClockInv, CalmInv, InStream
  <2>2. SameControl
    BY <1>9, <1>0, <2>1, ClearINFields DEF Send
  <2> QED
    BY <1>9, <1>0, <2>1, <2>2 DEF Send, Goto, Others
<1>10. CASE PrintU
  BY <1>10, <1>0 DEF PrintU, Return, Others
<1> QED
  BY <1>1, <1>2, <1>3, <1>4, <1>5, <1>6, <1>7, <1>8, <1>9, <1>10, Zenon DEF HidStep

\* USB_USBTask up to the dispatch of a request.
LEMMA TaskAnswers ==
    ASSUME UsbInv, RestType, Answers, TaskStep
    PROVE  Answers'
<1>0. BankInv /\ ~frozen /\ ~dead /\ ctl \in Control
  BY Running DEF RestType, RegisterType
<1> USE DEF Answers, Answering, Open, PreSetup, SameControl, ToHost, HidPc, TaskPc,
        RequestPc, device, irq, regs, main, console, pass, hits, history
<1>1. CASE TaskBegin
  BY <1>1, <1>0 DEF TaskBegin, Others, UsbInv, BankType
<1>2. CASE Select0
  BY <1>2, <1>0 DEF Select0, Goto, Others, Endpoint_SelectEndpoint, Written
<1>3. CASE TestSetup
  BY <1>3, <1>0 DEF TestSetup, Endpoint_IsSETUPReceived, Goto, Others
<1>4. CASE Handle
  <2>1. UENUM = 0 /\ req # "none"
    BY <1>4, <1>0 DEF Handle, BankInv, OnControl, RestType, MainType, Request
  <2>2. ctl'.setup = "none" /\ ctl'.in = ctl.in /\ ctl'.stall = ctl.stall
    BY <1>4, <1>0, <2>1, ClearSETUPFields, SMTT(30) DEF Handle
  <2> QED
    BY <1>4, <1>0, <2>1, <2>2 DEF Handle, Goto, Others
<1>5. CASE HandleLater
  BY <1>5, <1>0 DEF HandleLater, Goto, Others
<1>6. CASE HandleGone
  BY <1>6, <1>0, SMTT(30) DEF HandleGone, Goto, Others
<1>7. CASE Final
  <2>1. CASE ~Endpoint_IsSETUPReceived
    BY <1>7, <1>0, <2>1 DEF Final, Goto, Others
  <2>2. CASE Endpoint_IsSETUPReceived
    <3>1. ctl' = [ctl EXCEPT !.setup = "none", !.stall = TRUE] /\ ctl.setup # "none"
      BY <1>7, <1>0, <2>2 DEF Final, Written, Endpoint_IsSETUPReceived
    <3>2. ctl'.setup = "none" /\ ctl'.in = "free"
      BY <1>0, <3>1, StallFields, SMTT(30)
    <3> QED
      BY <1>7, <3>2 DEF Final, Goto, Others
  <2> QED
    BY <2>1, <2>2
<1>8. CASE Restore
  BY <1>8, <1>0 DEF Restore, UsbInv, BankType, Others, Endpoint_SelectEndpoint, Written
<1> QED
  BY <1>1, <1>2, <1>3, <1>4, <1>5, <1>6, <1>7, <1>8, Zenon DEF TaskStep

\* The handlers of the requests.
LEMMA RequestAnswers ==
    ASSUME UsbInv, RestType, Answers, RequestStep
    PROVE  Answers'
<1>0. BankInv /\ ~frozen /\ ~dead /\ ctl \in Control
  BY Running DEF RestType, RegisterType
<1> USE DEF Answers, Answering, Open, PreSetup, SameControl, ToHost, HidPc, TaskPc,
        RequestPc, device, irq, regs, main, console, pass, hits, history
<1>1. CASE ClearStatusStage
  <2>1. \/ SameControl
        \/ /\ req \notin ToHost /\ ctl'.in \in {ctl.in, req}
           /\ ctl'.setup = ctl.setup /\ ctl'.stall = ctl.stall
    BY <1>1, <1>0, ClearINFields, ClearOUTFields, SMTT(30) DEF ClearStatusStage
  <2> QED
    BY <1>1, <1>0, <2>1 DEF ClearStatusStage, Goto, AfterStatus, Others
<1>2. CASE Answer
  <2>1. /\ ctl'.setup = ctl.setup /\ ctl'.stall = ctl.stall
        /\ ctl'.in = ctl.in \/ ctl'.in = req
    BY <1>2, <1>0, ClearINFields DEF Answer
  <2> QED
    BY <1>2, <1>0, <2>1, SMTT(30) DEF Answer, Goto, Others
<1>3. CASE SetAddress
  <2>1. ctl'.setup = "none" /\ ctl'.in = ctl.in /\ ctl'.stall = ctl.stall
    BY <1>3, <1>0, SetupFields DEF SetAddress, Written
  <2>2. req # "none"
    BY DEF RestType, MainType, Request
  <2> QED
    BY <1>3, <1>0, <2>1, <2>2 DEF SetAddress, Goto, Others
<1>4. CASE AddressWait
  BY <1>4, <1>0 DEF AddressWait, Goto, Others
<1>5. CASE AddressEnable
  BY <1>5, <1>0 DEF AddressEnable, Written, Goto, Others
<1>6. CASE AddressState
  BY <1>6, <1>0 DEF AddressState, Goto, Others
<1>7. CASE SetNumber
  BY <1>7, <1>0, SMTT(30) DEF SetNumber, Goto, Others
<1>8. CASE ConfigState
  BY <1>8, <1>0, SMTT(30) DEF ConfigState, Goto, Others
<1>9. CASE ConfSelect
  BY <1>9, <1>0 DEF ConfSelect, Goto, Others, Endpoint_SelectEndpoint, Written
<1>10. CASE ConfWrite
  <2>1. PICK kept \in BOOLEAN : ctl' = ctl \/ ctl' = [Flushed EXCEPT !.ok = kept]
    BY <1>10, <1>0, Zenon DEF ConfWrite, Written
  <2>2. SameControl \/ (ctl'.in = "free" /\ ctl'.setup = "none")
    <3>1. CASE ctl' = ctl
      BY <3>1
    <3>2. CASE ctl' = [Flushed EXCEPT !.ok = kept]
      BY <3>2, FlushedFields, Zenon
    <3> QED
      BY <2>1, <3>1, <3>2
  <2> QED
    BY <1>10, <1>0, <2>2 DEF ConfWrite, Others
<1>11. CASE ConfBack
  BY <1>11, <1>0, SMTT(30) DEF ConfBack, Goto, Others, Endpoint_SelectEndpoint, Written
<1>12. CASE FeatureSelect
  BY <1>12, <1>0 DEF FeatureSelect, Goto, Others, Endpoint_SelectEndpoint, Written
<1>13. CASE Feature
  <2>1. ctl' = ctl
    BY <1>13, SMTT(30) DEF Feature
  <2> QED
    BY <1>13, <1>0, <2>1 DEF Feature, Goto, Others
<1>14. CASE FeatureBack
  BY <1>14, <1>0, SMTT(30) DEF FeatureBack, Goto, Others, Endpoint_SelectEndpoint, Written
<1>15. CASE FeatureClear
  <2>1. UENUM = 0 /\ req # "none"
    BY <1>15, <1>0, SMTT(30) DEF FeatureClear, BankInv, OnControl, RestType, MainType, Request
  <2>2. ctl'.setup = "none" /\ ctl'.in = ctl.in /\ ctl'.stall = ctl.stall
    BY <1>15, <1>0, <2>1, ClearSETUPFields, SMTT(30) DEF FeatureClear
  <2> QED
    BY <1>15, <1>0, <2>1, <2>2 DEF FeatureClear, Goto, Others
<1>16. CASE WriteControl
  <2>1. \/ SameControl
        \/ /\ pc' = "writeEnd" /\ ctl'.in \in {ctl.in, req}
           /\ ctl'.setup = ctl.setup /\ ctl'.stall = ctl.stall
    BY <1>16, <1>0, ClearINFields, SMTT(30) DEF WriteControl, Goto
  <2> QED
    BY <1>16, <1>0, <2>1, SMTT(30) DEF WriteControl, Goto, Others
<1>17. CASE WriteControlEnd
  BY <1>17, <1>0, SMTT(30) DEF WriteControlEnd, Goto, Others
<1>18. CASE ClearOUT
  <2>1. SameControl /\ UENUM' = UENUM
    BY <1>18, <1>0, ClearOUTFields, SMTT(30) DEF ClearOUT
  <2> QED
    BY <1>18, <1>0, <2>1, SMTT(30) DEF ClearOUT, Goto, Others
<1>19. CASE ReadControl
  <2>1. SameControl
    BY <1>19, <1>0, ClearOUTFields, SMTT(30) DEF ReadControl
  <2> QED
    BY <1>19, <1>0, <2>1 DEF ReadControl, Goto, Others
<1>20. CASE ReadControlEnd
  BY <1>20, <1>0, SMTT(30) DEF ReadControlEnd, Goto, Others
<1>21. CASE ClearIN
  <2>1. /\ ctl'.setup = ctl.setup /\ ctl'.stall = ctl.stall
        /\ ctl'.in = ctl.in \/ ctl'.in = req
    BY <1>21, <1>0, ClearINFields DEF ClearIN
  <2> QED
    BY <1>21, <1>0, <2>1, SMTT(30) DEF ClearIN, Goto, Others
<1> QED
  BY <1>1, <1>2, <1>3, <1>4, <1>5, <1>6, <1>7, <1>8, <1>9, <1>10, <1>11, <1>12,
     <1>13, <1>14, <1>15, <1>16, <1>17, <1>18, <1>19, <1>20,
     <1>21, Zenon DEF RequestStep

\* The interrupt.
LEMMA BusAnswers ==
    ASSUME UsbInv, RestType, Answers, BusStep, ~upset'
    PROVE  Answers'
<1>0. BankInv /\ ~frozen /\ ~dead /\ ctl \in Control
  BY Running, SMTT(30) DEF RestType, RegisterType
<1> USE DEF Answers, Answering, Open, PreSetup, SameControl, ToHost, HidPc, TaskPc,
        RequestPc, device, irq, regs, main, console, pass, hits, history
<1>1. CASE WakeUp
  BY <1>1, <1>0 DEF WakeUp
<1>2. CASE Attach
  <2>1. ctl'.setup = "none" /\ ctl'.in = "free"
    BY <1>2, FlushedFields, Zenon DEF Attach, EndOfReset
  <2> QED
    BY <1>2, <1>0, <2>1 DEF Attach, EndOfReset
<1>3. CASE BusReset
  BY <1>3, <1>0, SMTT(30) DEF BusReset
<1>4. CASE Suspend
  BY <1>4, <1>0, SMTT(30) DEF Suspend, SuspendBus
<1>5. CASE GiveUp
  BY <1>5, <1>0 DEF GiveUp, SuspendBus
<1> QED
  BY <1>1, <1>2, <1>3, <1>4, <1>5, Zenon DEF BusStep

\* The console.
LEMMA HostAnswers ==
    ASSUME UsbInv, RestType, Answers, HostStep, ~upset'
    PROVE  Answers'
<1>0. BankInv /\ ~frozen /\ ~dead /\ ctl \in Control
  BY Running DEF RestType, RegisterType
<1> USE DEF Answers, Answering, Open, PreSetup, SameControl, ToHost, HidPc, TaskPc,
        RequestPc, device, irq, regs, main, console, pass, hits, history
<1>1. CASE HostSetup
  <2>1. ctl.in = "free" /\ ctl.setup = "none" /\ pc \notin PreSetup /\ ~Answering
    BY <1>1 DEF HostSetup, SendSetup, RestType, MainType, Request
  <2>2. ctl'.setup = phase /\ ctl'.stall = FALSE /\ ctl'.in = "free"
    BY <1>1, <1>0, <2>1, SendSetupFields, Zenon DEF HostSetup
  <2> QED
    BY <1>1, <1>0, <2>1, <2>2 DEF HostSetup, SendSetup, Request
<1>2. CASE HostRequest
  <2>1. PICK r \in Optional : SendSetup(r) /\ phase' = r
    BY <1>2 DEF HostRequest
  <2>2. ctl.in = "free" /\ ctl.setup = "none" /\ pc \notin PreSetup /\ ~Answering
    BY <2>1 DEF HostRequest, SendSetup, RestType, MainType, Request
  <2>3. ctl'.setup = r /\ ctl'.stall = FALSE /\ ctl'.in = "free"
    BY <2>1, <1>0, <2>2, SendSetupFields, Zenon DEF HostRequest
  <2> QED
    BY <1>2, <1>0, <2>1, <2>2, <2>3 DEF HostRequest, SendSetup, Optional
<1>3. CASE HostIn
  <2>1. ctl.in = hreq /\ ctl.setup = "none" /\ stage # "idle"
    BY <1>3 DEF HostIn, CanTake
  <2>2. pc \notin PreSetup /\ ~Answering
    BY <1>3 DEF HostIn, RestType, MainType, Request
  <2>3. ctl'.in = "free" /\ ctl'.setup = "none"
    BY <1>3, <1>0, <2>1, PacketFields DEF HostIn
  <2> QED
    BY <1>3, <1>0, <2>1, <2>2, <2>3 DEF HostIn, StageDone, AfterRequest
<1>4. CASE HostOut
  <2>1. PICK x \in {"full", "short"} : ctl' = [ctl EXCEPT !.out = x]
    BY <1>4, Zenon DEF HostOut
  <2>2. SameControl
    BY <1>0, <2>1, OutFields, Zenon
  <2> QED
    BY <1>4, <1>0, <2>2 DEF HostOut, CanSend, StageDone, AfterRequest
<1>5. CASE HostStalled
  BY <1>5, <1>0 DEF HostStalled, TransferFails, AfterStall, AfterRequest, Needed,
         RestType, ConsoleType, Request
<1>6. CASE HostAbort
  BY <1>6, <1>0 DEF HostAbort
<1>7. CASE HostPoll
  BY <1>7, <1>0 DEF HostPoll
<1>8. CASE HostReport
  BY <1>8, <1>0 DEF HostReport
<1> QED
  BY <1>1, <1>2, <1>3, <1>4, <1>5, <1>6, <1>7, <1>8, Zenon DEF HostStep

\* Once upset, always upset: nothing clears the flag.
LEMMA UpsetStays == ASSUME UsbNext, ~upset' PROVE ~upset
<1> USE DEF history, hits
<1>1. CASE HidStep
  BY <1>1 DEF HidStep, HidBegin, SelectOut, TestOut, ClearOut, SelectIn, TestIn,
         WaitUntilReady, Stream, Send, PrintU
<1>2. CASE TaskStep
  BY <1>2 DEF TaskStep, TaskBegin, Select0, TestSetup, Handle, HandleLater, HandleGone,
         Final, Restore
<1>3. CASE RequestStep
  BY <1>3, Zenon DEF RequestStep, ClearStatusStage, Answer, SetAddress, AddressWait,
         AddressEnable, AddressState, SetNumber, ConfigState, ConfSelect, ConfWrite,
         ConfBack, FeatureSelect, Feature, FeatureBack, FeatureClear, WriteControl,
         WriteControlEnd, ClearOUT, ReadControl, ReadControlEnd, ClearIN
<1>4. CASE BusStep
  BY <1>4 DEF BusStep, WakeUp, Attach, BusReset, Suspend, GiveUp, SuspendBus
<1>5. CASE HostStep
  BY <1>5, Zenon DEF HostStep, HostSetup, HostRequest, SendSetup, HostIn, HostOut,
         HostStalled, HostAbort, HostPoll, HostReport
<1> QED
  BY <1>1, <1>2, <1>3, <1>4, <1>5 DEF UsbNext, MainStep

\* The types of all variables, and the answers of a console that is left alone.
AnswerInv == UsbInv /\ RestType /\ (~upset => Answers)

\* AnswerInv holds at every statement of main, whatever the console does.
THEOREM AnswerInvariance == UsbSpec => []AnswerInv
<1>1. UsbInit => AnswerInv
  <2> SUFFICES ASSUME UsbInit PROVE AnswerInv
    OBVIOUS
  <2>1. UsbInv
    BY UsbInitInv
  <2>2. RegisterType
    <3>1. OffOut \in OutBank
      BY DEF OffOut, OutBank, Report
    <3> QED
      BY <3>1, FlushedType DEF UsbInit, RegisterType, Address
  <2>3. MainType /\ ConsoleType /\ FlagType
    <3>1. MainType /\ ConsoleType
      BY BoundAssumption DEF UsbInit, MainType, ConsoleType, HidPc, Request
    <3>2. FlagType
      BY Zenon DEF UsbInit, FlagType, State
    <3> QED
      BY <3>1, <3>2
  <2>4. Answers
    <3>1. ctl.in = "free" /\ ctl.setup = "none"
      BY FlushedFields, Zenon DEF UsbInit
    <3> QED
      BY <3>1 DEF UsbInit, Answers, Answering, PreSetup
  <2> QED
    BY <2>1, <2>2, <2>3, <2>4 DEF AnswerInv, RestType
<1>2. AnswerInv /\ [UsbNext]_usbVars => AnswerInv'
  <2> SUFFICES ASSUME AnswerInv, [UsbNext]_usbVars PROVE AnswerInv'
    OBVIOUS
  <2>1. CASE UNCHANGED usbVars
    <3>1. UsbInv'
      BY <2>1, UsbNextInv, SMTT(30) DEF AnswerInv
    <3>2. RestType'
      BY <2>1, SMTT(30) DEF AnswerInv, usbVars, device, irq, regs, main, console, pass,
             hits, history, RestType, RegisterType, MainType, ConsoleType, FlagType
    <3>3. (~upset => Answers)'
      BY <2>1 DEF AnswerInv, usbVars, device, irq, regs, main, console, pass, hits,
             history, Answers, Answering, Open
    <3> QED
      BY <3>1, <3>2, <3>3 DEF AnswerInv
  <2>2. CASE UsbNext
    <3>1. UsbInv' /\ RestType'
      BY <2>2, UsbNextInv, HidTypes, TaskTypes, RequestTypes, BusTypes, HostTypes
         DEF AnswerInv, UsbNext, MainStep
    <3>2. ASSUME ~upset' PROVE Answers'
      <4>1. UsbInv /\ RestType /\ Answers
        BY <2>2, <3>2, UpsetStays DEF AnswerInv
      <4> QED
        BY <2>2, <3>2, <4>1, HidAnswers, TaskAnswers, RequestAnswers, BusAnswers,
           HostAnswers DEF UsbNext, MainStep
    <3> QED
      BY <3>1, <3>2 DEF AnswerInv
  <2> QED
    BY <2>1, <2>2
<1> QED
  BY <1>1, <1>2, PTL DEF UsbSpec

\* No counter, length or register leaves its range, however the bus and the
\* console interrupt the statements of main; in particular the length of a
\* stream never runs below 0.
THEOREM UsbTypeCorrect == UsbSpec => []UsbTypeOK
<1>1. AnswerInv => UsbTypeOK
  BY DEF AnswerInv, UsbInv, BankType, RestType, RegisterType, MainType, ConsoleType,
         FlagType, UsbTypeOK
<1> QED
  BY <1>1, AnswerInvariance, PTL

\* A console that sends one request after the other gets an answer only to the
\* request it sent, although all handlers share one bank and do not wait until
\* it was taken (Endpoint_ClearStatusStage, Endpoint_Write_Control_Stream_LE).
THEOREM AnswersCorrect == UsbSpec => []OwnAnswers
<1>1. AnswerInv => [HostIn => ctl.in = hreq \/ upset]_usbVars
  BY DEF AnswerInv, Answers, HostIn
<1> QED
  BY <1>1, AnswerInvariance, PTL DEF OwnAnswers

=============================================================================
