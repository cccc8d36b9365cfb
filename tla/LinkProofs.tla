----------------------------- MODULE LinkProofs -----------------------------
(***************************************************************************)
(* For every number of messages, every size of the buffers and any number  *)
(* of faults and resets, the chain from bridge.py to the console shows the *)
(* states in the order they were written, and bridge.py stays at most one  *)
(* message ahead of the reports.                                           *)
(***************************************************************************)
EXTENDS Link, TLAPS

\* Steps of bridge.py keep the invariant.
LEMMA BridgeSteps ==
  ASSUME LinkInv, Start \/ Send \/ Stop \/ ReadU \/ ReadX
  PROVE  LinkInv'
<1> USE LinkAssumption DEF LinkInv, LinkTypeOK, bridgePart, linePart, devicePart, answerPart
<1>1. CASE Start
  <2>1. LinkTypeOK'
    BY <1>1 DEF Start
  <2>2. Pipeline'
    BY <1>1 DEF Pipeline, Start
  <2>3. FlowControl' /\ TurnsCounted'
    BY <1>1 DEF FlowControl, TurnsCounted, Start
  <2> QED
    BY <2>1, <2>2, <2>3
<1>2. CASE Send
  <2>1. LinkTypeOK'
    BY <1>2 DEF Send
  <2>2. Pipeline'
    BY <1>2 DEF Pipeline, Send
  <2>3. FlowControl' /\ TurnsCounted'
    BY <1>2 DEF FlowControl, TurnsCounted, Send
  <2> QED
    BY <2>1, <2>2, <2>3
<1>3. CASE Stop
  <2>1. LinkTypeOK'
    BY <1>3 DEF Stop
  <2>2. Pipeline'
    BY <1>3 DEF Pipeline, Stop
  <2>3. FlowControl' /\ TurnsCounted'
    BY <1>3 DEF FlowControl, TurnsCounted, Stop
  <2> QED
    BY <2>1, <2>2, <2>3
<1>4. CASE ReadU
  <2>1. LinkTypeOK'
    BY <1>4 DEF ReadU
  <2>2. Pipeline'
    BY <1>4 DEF Pipeline, ReadU
  <2>3. FlowControl' /\ TurnsCounted'
    BY <1>4 DEF FlowControl, TurnsCounted, ReadU
  <2> QED
    BY <2>1, <2>2, <2>3
<1>5. CASE ReadX
  <2>1. LinkTypeOK'
    BY <1>5 DEF ReadX
  <2>2. Pipeline'
    BY <1>5 DEF Pipeline, ReadX
  <2>3. FlowControl' /\ TurnsCounted'
    BY <1>5 DEF FlowControl, TurnsCounted, ReadX
  <2> QED
    BY <2>1, <2>2, <2>3
<1> QED
  BY <1>1, <1>2, <1>3, <1>4, <1>5

\* Steps of the serial line and of the receive interrupt keep the invariant.
LEMMA LineSteps ==
  ASSUME LinkInv, Arrive \/ Overrun \/ Damage \/ LoseU
  PROVE  LinkInv'
<1> USE LinkAssumption DEF LinkInv, LinkTypeOK, bridgePart, linePart, devicePart, answerPart
<1>1. CASE Arrive
  <2>1. LinkTypeOK'
    BY <1>1 DEF Arrive
  <2>2. Pipeline'
    BY <1>1 DEF Pipeline, Arrive
  <2>3. FlowControl' /\ TurnsCounted'
    BY <1>1 DEF FlowControl, TurnsCounted, Arrive
  <2> QED
    BY <2>1, <2>2, <2>3
<1>2. CASE Overrun
  <2>1. LinkTypeOK'
    BY <1>2 DEF Overrun
  <2>2. Pipeline'
    BY <1>2 DEF Pipeline, Overrun
  <2>3. FlowControl' /\ TurnsCounted'
    BY <1>2 DEF FlowControl, TurnsCounted, Overrun
  <2> QED
    BY <2>1, <2>2, <2>3
<1>3. CASE Damage
  <2>1. LinkTypeOK'
    BY <1>3 DEF Damage
  <2>2. Pipeline'
    BY <1>3 DEF Pipeline, Damage
  <2>3. FlowControl' /\ TurnsCounted'
    BY <1>3 DEF FlowControl, TurnsCounted, Damage
  <2> QED
    BY <2>1, <2>2, <2>3
<1>4. CASE LoseU
  <2>1. LinkTypeOK'
    BY <1>4 DEF LoseU
  <2>2. Pipeline'
    BY <1>4 DEF Pipeline, LoseU
  <2>3. FlowControl' /\ TurnsCounted'
    BY <1>4 DEF FlowControl, TurnsCounted, LoseU
  <2> QED
    BY <2>1, <2>2, <2>3
<1> QED
  BY <1>1, <1>2, <1>3, <1>4

\* Steps of the firmware's main loop and of the console keep the invariant.
LEMMA DeviceSteps ==
  ASSUME LinkInv, HID_Test \/ HID_Write \/ HID_Print \/ USB_USBTask \/ Serial_Task \/ Poll
                  \/ Reset \/ Suspend \/ WakeUp
  PROVE  LinkInv'
<1> USE LinkAssumption DEF LinkInv, LinkTypeOK, bridgePart, linePart, devicePart, answerPart
<1>1. CASE HID_Test
  <2>1. LinkTypeOK'
    BY <1>1 DEF HID_Test
  <2>2. Pipeline'
    BY <1>1 DEF Pipeline, HID_Test
  <2>3. FlowControl' /\ TurnsCounted'
    BY <1>1 DEF FlowControl, TurnsCounted, HID_Test
  <2> QED
    BY <2>1, <2>2, <2>3
<1>2. CASE USB_USBTask
  <2>1. LinkTypeOK'
    BY <1>2 DEF USB_USBTask
  <2>2. Pipeline'
    BY <1>2 DEF Pipeline, USB_USBTask
  <2>3. FlowControl' /\ TurnsCounted'
    BY <1>2 DEF FlowControl, TurnsCounted, USB_USBTask
  <2> QED
    BY <2>1, <2>2, <2>3
<1>3. CASE Serial_Task
  <2>1. /\ pad' \in Nat /\ pad <= pad' /\ pad' <= arrived
        /\ ring' = {} /\ drained' = arrived /\ fpc' = "hid"
        /\ UNCHANGED <<bpc, sent, arrived, missed, USB_DeviceState, bank, resets,
                       unreadU, unreadX, us, seen, faults>>
    <3>1. CASE ring = {}
      BY <1>3, <3>1 DEF Serial_Task, Pipeline
    <3>2. CASE ring # {}
      <4>1. pad' \in ring
        BY <1>3, <3>2 DEF Serial_Task
      <4>2. pad' \in Nat /\ pad <= pad' /\ pad' <= arrived
        BY <4>1 DEF Pipeline
      <4> QED
        BY <1>3, <4>2 DEF Serial_Task
    <3> QED
      BY <3>1, <3>2
  <2>2. LinkTypeOK'
    BY <2>1
  <2>3. Pipeline'
    BY <2>1 DEF Pipeline
  <2>4. FlowControl' /\ TurnsCounted'
    BY <2>1 DEF FlowControl, TurnsCounted
  <2> QED
    BY <2>2, <2>3, <2>4
<1>4. CASE Poll
  <2>1. LinkTypeOK'
    BY <1>4 DEF Poll
  <2>2. Pipeline'
    BY <1>4 DEF Pipeline, Poll
  <2>3. FlowControl' /\ TurnsCounted'
    BY <1>4 DEF FlowControl, TurnsCounted, Poll
  <2> QED
    BY <2>1, <2>2, <2>3
<1>5. CASE Reset
  <2>1. LinkTypeOK'
    BY <1>5 DEF Reset
  <2>2. Pipeline'
    BY <1>5 DEF Pipeline, Reset
  <2>3. FlowControl' /\ TurnsCounted'
    BY <1>5 DEF FlowControl, TurnsCounted, Reset
  <2> QED
    BY <2>1, <2>2, <2>3
<1>6. CASE HID_Write
  <2>1. LinkTypeOK'
    BY <1>6 DEF HID_Write
  <2>2. Pipeline'
    BY <1>6 DEF Pipeline, HID_Write
  <2>3. FlowControl' /\ TurnsCounted'
    BY <1>6 DEF FlowControl, TurnsCounted, HID_Write
  <2> QED
    BY <2>1, <2>2, <2>3
<1>7. CASE HID_Print
  <2>1. LinkTypeOK'
    BY <1>7 DEF HID_Print, PrintU
  <2>2. Pipeline'
    BY <1>7 DEF Pipeline, HID_Print, PrintU
  <2>3. FlowControl' /\ TurnsCounted'
    BY <1>7 DEF FlowControl, TurnsCounted, HID_Print, PrintU
  <2> QED
    BY <2>1, <2>2, <2>3
<1>8. CASE Suspend
  <2>1. LinkTypeOK'
    BY <1>8 DEF Suspend
  <2>2. Pipeline'
    BY <1>8 DEF Pipeline, Suspend
  <2>3. FlowControl' /\ TurnsCounted'
    BY <1>8 DEF FlowControl, TurnsCounted, Suspend
  <2> QED
    BY <2>1, <2>2, <2>3
<1>9. CASE WakeUp
  <2>1. LinkTypeOK'
    BY <1>9 DEF WakeUp
  <2>2. Pipeline'
    BY <1>9 DEF Pipeline, WakeUp
  <2>3. FlowControl' /\ TurnsCounted'
    BY <1>9 DEF FlowControl, TurnsCounted, WakeUp
  <2> QED
    BY <2>1, <2>2, <2>3
<1> QED
  BY <1>1, <1>2, <1>3, <1>4, <1>5, <1>6, <1>7, <1>8, <1>9

\* The inductive invariant holds in every reachable state, whatever is lost,
\* wiped out, reset or suspended: states are in the order bridge.py wrote them
\* everywhere on the way, and no U is counted twice.
THEOREM LinkInvariance == LinkSafety => []LinkInv
<1>1. LinkInit => LinkInv
  BY LinkAssumption DEF LinkInit, LinkInv, LinkTypeOK, Pipeline, FlowControl, TurnsCounted
<1>2. LinkInv /\ [LinkNext]_linkVars => LinkInv'
  <2> SUFFICES ASSUME LinkInv, [LinkNext]_linkVars PROVE LinkInv'
    OBVIOUS
  <2>1. CASE UNCHANGED linkVars
    BY <2>1 DEF linkVars, LinkInv, LinkTypeOK, Pipeline, FlowControl, TurnsCounted
  <2> QED
    BY <2>1, BridgeSteps, LineSteps, DeviceSteps DEF LinkNext
<1> QED
  BY <1>1, <1>2, PTL DEF LinkSafety

\* Every state is one bridge.py wrote, in the order it wrote them, at every
\* place between bridge.py and the console.
THEOREM PipelineOrdered == LinkSafety => []Pipeline
<1>1. LinkInv => Pipeline
  BY DEF LinkInv
<1> QED
  BY <1>1, LinkInvariance, PTL

\* The U's bridge.py can still read, and the message it may send, never exceed
\* the reports the firmware answered by more than one.
THEOREM TurnsCorrect == LinkSafety => []TurnsCounted
<1>1. LinkInv => TurnsCounted
  BY DEF LinkInv
<1> QED
  BY <1>1, LinkInvariance, PTL

\* bridge.py never has more than one message out beyond the reports the
\* firmware handed over.
THEOREM FlowControlled == LinkSafety => []FlowControl
<1>1. LinkInv => FlowControl
  BY DEF LinkInv
<1> QED
  BY <1>1, LinkInvariance, PTL

\* The chain implements the stream of states that only moves forward.
THEOREM LinkImplementsStream == LinkSafety => LinkIsStream
<1>1. LinkInit => Stream!StreamInit
  BY DEF LinkInit, Stream!StreamInit
<1>2. LinkInv /\ [LinkNext]_linkVars => [Stream!StreamNext]_(Stream!streamVars)
  <2> SUFFICES ASSUME LinkInv, [LinkNext]_linkVars
               PROVE  \/ sent' = sent + 1 /\ seen' = seen
                      \/ seen' \in seen .. sent /\ sent' = sent
    BY DEF Stream!StreamNext, Stream!Write, Stream!Show, Stream!streamVars
  <2> USE DEF LinkInv, bridgePart, linePart, devicePart, answerPart
  <2>1. CASE Send
    BY <2>1 DEF Send
  <2>2. CASE Poll
    BY <2>2 DEF Poll, LinkTypeOK, Pipeline
  <2>3. CASE UNCHANGED <<sent, seen>>
    BY <2>3 DEF LinkTypeOK, Pipeline
  <2> QED
    BY <2>1, <2>2, <2>3
       DEF LinkNext, linkVars, Start, Stop, ReadU, ReadX, Arrive, Overrun, Damage,
           LoseU, HID_Test, HID_Write, HID_Print, USB_USBTask, Serial_Task, Reset,
           Suspend, WakeUp
<1> QED
  BY <1>1, <1>2, LinkInvariance, PTL DEF LinkSafety, LinkIsStream, Stream!StreamSpec

=============================================================================
