---------------------------- MODULE BridgeProofs ----------------------------
(***************************************************************************)
(* Recordings, the order of the messages of every source, and macros that  *)
(* run to their end, for replay files, macros and buffers of any length    *)
(* and any number of macros.                                               *)
(***************************************************************************)
EXTENDS Bridge, SequenceTheorems, TLAPS

Source == [kind : {"live", "replay", "macro"}, id : Nat, pos : Nat]

\* What was taken from the stack: all but the message in hand has been sent.
All == sent \o message

Types ==
    /\ bpc \in {"events", "next", "write", "wait", "done"}
    /\ stack \in Seq(Source)
    /\ message \in Seq(Source) /\ sent \in Seq(Source) /\ record \in Seq(Source)
    /\ macros \in Nat /\ disk \in Nat
    /\ bpc \in {"events", "next", "wait"} => message = <<>>

\* The source that Take takes from, the message, and the stack it leaves.
Taken(top, src) ==
    /\ top \in 1 .. Len(stack) /\ Top(top)
    /\ src \in Source
    /\ src = [stack[top] EXCEPT !.pos = @ + 1]
    /\ stack' = Append(SubSeq(stack, 1, top - 1), src)
    /\ message' = <<src>>
    /\ Save(src)

\* What InputStack.__next__ does when it returns a message.
LEMMA TakeTaken ==
    ASSUME Types, Take
    PROVE  \E top, src : Taken(top, src)
<1>1. PICK top \in DOMAIN stack :
          /\ Top(top)
          /\ stack' = Append(SubSeq(stack, 1, top - 1), [stack[top] EXCEPT !.pos = @ + 1])
          /\ message' = <<[stack[top] EXCEPT !.pos = @ + 1]>>
          /\ Save([stack[top] EXCEPT !.pos = @ + 1])
  BY Zenon DEF Take
<1>2. top \in 1 .. Len(stack) /\ stack[top] \in Source
  BY <1>1 DEF Types
<1>3. PICK src : src = [stack[top] EXCEPT !.pos = @ + 1]
  BY Zenon
<1>4. src \in Source
  BY <1>2, <1>3 DEF Source
<1>5. Taken(top, src)
  BY <1>1, <1>2, <1>3, <1>4, Zenon DEF Taken
<1> QED
  BY <1>5

\* The stack after a Take: the sources below top, and top moved on by one.
LEMMA TakenStack ==
    ASSUME Types, NEW top, NEW src, Taken(top, src)
    PROVE  /\ stack' \in Seq(Source) /\ Len(stack') = top /\ stack'[top] = src
           /\ \A i \in 1 .. top - 1 : stack'[i] = stack[i]
<1>1. top \in 1 .. Len(stack) /\ src \in Source /\ stack \in Seq(Source)
  BY DEF Taken, Types
<1>2. PICK s : s = SubSeq(stack, 1, top - 1)
  BY Zenon
<1>3. /\ s \in Seq(Source) /\ Len(s) = top - 1
      /\ \A i \in 1 .. top - 1 : s[i] = stack[i]
  BY <1>1, <1>2, SubSeqProperties
<1>4. stack' = Append(s, src)
  BY <1>2 DEF Taken
<1> QED
  BY <1>1, <1>3, <1>4

\* A message that is returned is the next one to be sent.
LEMMA TakenAll ==
    ASSUME Types, NEW top, NEW src, Taken(top, src), Take
    PROVE  All = sent /\ All' = Append(All, src)
<1>1. message = <<>> /\ sent' = sent /\ message' = <<src>> /\ sent \in Seq(Source)
  BY DEF Types, Take, Taken, lineVars
<1>2. src \in Source
  BY DEF Taken
<1>3. sent \o <<>> = sent
  BY <1>1
<1>4. sent \o <<src>> = Append(sent, src)
  BY <1>1, <1>2
<1> QED
  BY <1>1, <1>3, <1>4 DEF All

\* Every other step leaves what was taken as it is, and the sources as they
\* are, but for a new macro at the top or the loss of what is there.
LEMMA OtherAll ==
    ASSUME Types, [BridgeNext]_bridgeVars, ~Take
    PROVE  All' = All
<1>1. CASE WriteMessage
  <2>1. sent' = sent \o message /\ message' = <<>>
    BY <1>1 DEF WriteMessage
  <2>2. sent \o message \in Seq(Source)
    BY ConcatProperties DEF Types
  <2>3. (sent \o message) \o <<>> = sent \o message
    BY <2>2
  <2> QED
    BY <2>1, <2>3 DEF All
<1>2. CASE UNCHANGED <<sent, message>>
  BY <1>2 DEF All
<1> QED
  BY <1>1, <1>2 DEF BridgeNext, StartMacro, EventsDone, Exhausted, LiveRaises, ReadU, ReadOther,
                    Interrupt, Kill, bridgeVars, lineVars

\* A step that takes no message starts a macro or drops sources from the stack.
LEMMA OtherStack ==
    ASSUME Types, [BridgeNext]_bridgeVars, ~Take
    PROVE  \/ /\ macros' = macros + 1 /\ stack' = Append(stack, Macro(macros + 1))
              /\ Macro(macros + 1) \in Source
           \/ /\ macros' = macros /\ stack' \in Seq(Source) /\ Len(stack') <= Len(stack)
              /\ \A i \in 1 .. Len(stack') : stack'[i] = stack[i]
              /\ \A i \in 1 .. Len(stack) : HasMore(stack[i]) => i <= Len(stack')
<1>1. CASE StartMacro
  BY <1>1 DEF StartMacro, Types, Macro, Source
<1>2. CASE Exhausted
  BY <1>2 DEF Exhausted, Types
<1>3. CASE LiveRaises
  <2>1. PICK top \in DOMAIN stack : stack' = SubSeq(stack, 1, top) /\ Top(top)
    BY <1>3, Zenon DEF LiveRaises
  <2>2. top \in 1 .. Len(stack)
    BY <2>1 DEF Types
  <2>3. \A i \in 1 .. Len(stack) : HasMore(stack[i]) => i <= top
    BY <2>1 DEF Top, Types
  <2> QED
    BY <1>3, <2>1, <2>2, <2>3, SubSeqProperties DEF LiveRaises, Types
<1>4. CASE UNCHANGED <<stack, macros>>
  BY <1>4 DEF Types
<1> QED
  BY <1>1, <1>2, <1>3, <1>4 DEF BridgeNext, EventsDone, WriteMessage, ReadU, ReadOther, Interrupt,
                                Kill, bridgeVars

\* One step per case: a message is taken, or none is.
LEMMA TypesStep ==
    ASSUME Types, [BridgeNext]_bridgeVars
    PROVE  Types'
<1>1. CASE Take
  <2>1. PICK top, src : Taken(top, src)
    BY <1>1, TakeTaken
  <2>2. stack' \in Seq(Source)
    BY <2>1, TakenStack
  <2>3. src \in Source /\ message' = <<src>>
    BY <2>1 DEF Taken
  <2>4. record' \in Seq(Source) /\ disk' \in Nat
    BY <2>1, <2>3 DEF Taken, Save, Types
  <2> QED
    BY <1>1, <2>2, <2>3, <2>4 DEF Take, Types, lineVars
<1>2. CASE ~Take
  <2>1. stack' \in Seq(Source) /\ macros' \in Nat
    <3>1. CASE /\ macros' = macros + 1 /\ stack' = Append(stack, Macro(macros + 1))
               /\ Macro(macros + 1) \in Source
      <4>1. PICK m : m = Macro(macros + 1)
        OBVIOUS
      <4>2. stack' = Append(stack, m) /\ m \in Source
        BY <3>1, <4>1, Zenon
      <4> QED
        BY <3>1, <4>2 DEF Types
    <3>2. CASE macros' = macros /\ stack' \in Seq(Source)
      BY <3>2 DEF Types
    <3> QED
      BY <1>2, <3>1, <3>2, OtherStack, Zenon
  <2>2. record' = record /\ disk' \in Nat
    BY <1>2 DEF BridgeNext, StartMacro, EventsDone, Exhausted, LiveRaises, WriteMessage, ReadU,
                ReadOther, Interrupt, Kill, Close, bridgeVars, recordVars, Types
  <2>3. sent' \in Seq(Source) /\ message' \in Seq(Source)
    <3>1. CASE WriteMessage
      BY <3>1, ConcatProperties DEF WriteMessage, Types
    <3>2. CASE UNCHANGED <<sent, message>>
      BY <3>2 DEF Types
    <3> QED
      BY <1>2, <3>1, <3>2 DEF BridgeNext, StartMacro, EventsDone, Exhausted, LiveRaises, ReadU,
                              ReadOther, Interrupt, Kill, bridgeVars, lineVars
  <2>4. /\ bpc' \in {"events", "next", "write", "wait", "done"}
        /\ bpc' \in {"events", "next", "wait"} => message' = <<>>
    BY <1>2 DEF BridgeNext, StartMacro, EventsDone, Exhausted, LiveRaises, WriteMessage, ReadU,
                ReadOther, Interrupt, Kill, bridgeVars, Types
  <2> QED
    BY <2>1, <2>2, <2>3, <2>4 DEF Types
<1> QED
  BY <1>1, <1>2

\* The bridge starts with live input, and the replay when there is one.
LEMMA TypesInit ==
    ASSUME BridgeInit
    PROVE  Types
<1>1. Live \in Source /\ Replay \in Source
  BY DEF Live, Replay, Source
<1>2. stack \in Seq(Source)
  <2>1. PICK a, b : a = Live /\ b = Replay
    OBVIOUS
  <2>2. a \in Source /\ b \in Source /\ stack \in {<<a>>, <<b>>, <<a, b>>}
    BY <1>1, <2>1, Zenon DEF BridgeInit, StartStacks
  <2>3. <<a>> \in Seq(Source) /\ <<b>> \in Seq(Source) /\ <<a, b>> \in Seq(Source)
    BY <2>2
  <2> QED
    BY <2>2, <2>3, Zenon
<1>3. <<>> \in Seq(Source)
  OBVIOUS
<1> QED
  BY <1>2, <1>3 DEF BridgeInit, Types

-----------------------------------------------------------------------------

(***************************************************************************)
(* The recording is everything that was taken from the stack, so one       *)
(* message longer than what was sent while main holds one.                 *)
(***************************************************************************)
RecordInv ==
    /\ Types
    /\ Len(message) <= 1
    /\ recording => record = All
    /\ disk <= Len(record) /\ Len(record) - disk <= BufLen
    /\ ended \in {"input", "interrupt"} => bpc = "done" /\ disk = Len(record)

\* The record and the file behind it, step by step.
LEMMA RecordStep ==
    ASSUME RecordInv, [BridgeNext]_bridgeVars
    PROVE  RecordInv'
<1>1. Types /\ Types'
  BY TypesStep DEF RecordInv
<1>2. CASE Take
  <2>1. PICK top, src : Taken(top, src)
    BY <1>1, <1>2, TakeTaken
  <2>2. src \in Source /\ message' = <<src>> /\ Save(src)
    BY <2>1 DEF Taken
  <2>3. recording' => record' = All'
    BY <1>1, <1>2, <2>1, <2>2, TakenAll, Zenon DEF Save, Take, RecordInv
  <2>4. Len(record') \in {Len(record), Len(record) + 1}
    BY <1>1, <2>2 DEF Save, Types
  <2>5. disk' <= Len(record') /\ Len(record') - disk' <= BufLen
    BY <1>1, <2>2, <2>4, BridgeAssumption DEF Save, RecordInv, Types
  <2>6. ended' \notin {"input", "interrupt"}
    BY <1>2 DEF Take, RecordInv
  <2> QED
    BY <1>1, <2>2, <2>3, <2>5, <2>6 DEF RecordInv
<1>3. CASE ~Take
  <2>1. All' = All
    BY <1>1, <1>3, OtherAll
  <2>2. record' = record /\ recording' = recording /\ disk' \in {disk, Len(record)}
    BY <1>3 DEF BridgeNext, StartMacro, EventsDone, Exhausted, LiveRaises, WriteMessage, ReadU,
                ReadOther, Interrupt, Kill, Close, bridgeVars, recordVars
  <2>3. Len(message') <= 1
    BY <1>3 DEF BridgeNext, StartMacro, EventsDone, Exhausted, LiveRaises, WriteMessage, ReadU,
                ReadOther, Interrupt, Kill, bridgeVars, RecordInv
  <2>4. ended' \in {"input", "interrupt"} => bpc' = "done" /\ disk' = Len(record')
    BY <1>3 DEF BridgeNext, StartMacro, EventsDone, Exhausted, LiveRaises, WriteMessage, ReadU,
                ReadOther, Interrupt, Kill, Close, bridgeVars, recordVars, RecordInv
  <2>5. disk' <= Len(record') /\ Len(record') - disk' <= BufLen
    BY <1>1, <2>2, BridgeAssumption DEF RecordInv, Types
  <2> QED
    BY <1>1, <2>1, <2>2, <2>3, <2>4, <2>5 DEF RecordInv
<1> QED
  BY <1>2, <1>3

\* Nothing is recorded at first.
LEMMA RecordInit ==
    ASSUME BridgeInit
    PROVE  RecordInv
<1>1. Len(<<>>) = 0 /\ <<>> \o <<>> = <<>>
  OBVIOUS
<1>2. All = <<>> /\ record = <<>> /\ message = <<>> /\ disk = 0 /\ ended = "no"
  BY <1>1 DEF BridgeInit, All
<1> QED
  BY <1>1, <1>2, TypesInit, BridgeAssumption DEF RecordInv

\* The record is what was sent, and at most one message ahead.
LEMMA RecordImplies ==
    ASSUME RecordInv
    PROVE  RecordMatchesSent
<1>1. SUFFICES ASSUME recording
               PROVE  /\ Len(record) \in Len(sent) .. Len(sent) + 1
                      /\ SubSeq(record, 1, Len(sent)) = sent
  BY DEF RecordMatchesSent
<1>2. /\ record = sent \o message /\ record \in Seq(Source) /\ sent \in Seq(Source)
      /\ message \in Seq(Source) /\ Len(message) <= 1
  BY <1>1 DEF RecordInv, Types, All
<1>3. /\ Len(record) = Len(sent) + Len(message)
      /\ \A i \in 1 .. Len(sent) : record[i] = sent[i]
  BY <1>2
<1>4. PICK m, n : m = Len(sent) /\ n = Len(message) /\ m \in Nat /\ n \in Nat
  BY <1>2, LenProperties, Zenon
<1>5. PICK s : s = SubSeq(record, 1, Len(sent))
  BY Zenon
<1>6. s \in Seq(Source) /\ Len(s) = Len(sent) /\ \A i \in 1 .. Len(sent) : s[i] = record[i]
  BY <1>2, <1>3, <1>4, <1>5, SubSeqProperties
<1>7. s = sent
  BY <1>2, <1>3, <1>6, SeqEqual
<1>8. Len(record) = m + n /\ n <= 1
  BY <1>2, <1>3, <1>4, Zenon
<1>9. m + n \in m .. m + 1
  BY <1>4, <1>8
<1> QED
  BY <1>4, <1>5, <1>7, <1>8, <1>9

\* A recording is what was sent and at most one message more, however the
\* loop ends (bridge.py:319, 407).
THEOREM Recorded == BridgeSpec => []RecordMatchesSent
<1>1. BridgeInit => RecordInv
  BY RecordInit
<1>2. RecordInv /\ [BridgeNext]_bridgeVars => RecordInv'
  BY RecordStep
<1>3. RecordInv => RecordMatchesSent
  BY RecordImplies
<1> QED
  BY <1>1, <1>2, <1>3, PTL DEF BridgeSpec

\* The file lacks at most a buffer, and nothing once it was closed
\* (bridge.py:286-291).
THEOREM OnDisk == BridgeSpec => []RecordOnDisk
<1>1. BridgeInit => RecordInv
  BY RecordInit
<1>2. RecordInv /\ [BridgeNext]_bridgeVars => RecordInv'
  BY RecordStep
<1>3. RecordInv => RecordOnDisk
  BY DEF RecordInv, RecordOnDisk
<1> QED
  BY <1>1, <1>2, <1>3, PTL DEF BridgeSpec

-----------------------------------------------------------------------------

(***************************************************************************)
(* SourcesInOrder has two halves.  That no message is skipped needs to     *)
(* know that a source on the stack that has yielded a message is, as it    *)
(* stands, the last one it yielded (OrderInv).  That none is repeated      *)
(* needs to know that the sources on the stack are different ones, that    *)
(* none of them has yielded anything beyond where it stands, and that the  *)
(* number of a new macro has not been used (OnceInv).                      *)
(***************************************************************************)
Before(m) == [m EXCEPT !.pos = @ - 1]

Ordered(s) ==
    \A j \in 1 .. Len(s) :
        s[j].pos = First(s[j]) \/ \E i \in 1 .. j - 1 : s[i] = Before(s[j])

OrderInv ==
    /\ Types
    /\ Ordered(All)
    /\ \A t \in 1 .. Len(stack) :
           stack[t].pos + 1 = First(stack[t]) \/ \E i \in 1 .. Len(All) : All[i] = stack[t]

\* The position a source was at before it was advanced.
LEMMA BeforeNext ==
    ASSUME NEW s \in Source, NEW x, x = [s EXCEPT !.pos = @ + 1]
    PROVE  Before(x) = s /\ x.pos = s.pos + 1 /\ s.pos \in Nat
<1>1. x.pos = s.pos + 1 /\ x.kind = s.kind /\ x.id = s.id /\ s.pos \in Nat
  BY DEF Source
<1>2. x \in Source
  BY DEF Source
<1>3. Before(x) \in Source
  <2>1. x.pos - 1 = s.pos
    BY <1>1
  <2>2. Before(x) = [x EXCEPT !.pos = s.pos]
    BY <2>1, Zenon DEF Before
  <2> QED
    BY <1>1, <1>2, <2>2, Zenon DEF Source
<1>4. Before(x).pos = s.pos /\ Before(x).kind = s.kind /\ Before(x).id = s.id
  BY <1>1, <1>2 DEF Before, Source
<1> QED
  BY <1>1, <1>3, <1>4 DEF Source

\* All is a sequence of sources.
LEMMA AllType ==
    ASSUME Types
    PROVE  All \in Seq(Source)
BY ConcatProperties DEF Types, All

\* What was sent is the beginning of All.
LEMMA SentIsPrefix ==
    ASSUME Types
    PROVE  Len(sent) <= Len(All) /\ \A i \in 1 .. Len(sent) : sent[i] = All[i]
BY DEF Types, All

\* A message whose predecessor has been sent may follow.
LEMMA AppendOrdered ==
    ASSUME NEW s \in Seq(Source), NEW x \in Source, Ordered(s),
           x.pos = First(x) \/ \E i \in 1 .. Len(s) : s[i] = Before(x)
    PROVE  Ordered(Append(s, x))
<1>1. PICK r : r = Append(s, x)
  BY Zenon
<1>2. /\ Len(r) = Len(s) + 1 /\ Len(s) \in Nat /\ r[Len(s) + 1] = x
      /\ \A i \in 1 .. Len(s) : r[i] = s[i]
  BY <1>1
<1>3. ASSUME NEW j \in 1 .. Len(r)
      PROVE  r[j].pos = First(r[j]) \/ \E i \in 1 .. j - 1 : r[i] = Before(r[j])
  <2>1. CASE j = Len(s) + 1
    BY <1>2, <1>3, <2>1
  <2>2. CASE j \in 1 .. Len(s)
    <3>1. r[j] = s[j]
      BY <1>2, <2>2
    <3>2. CASE s[j].pos = First(s[j])
      BY <3>1, <3>2
    <3>3. ASSUME NEW i \in 1 .. j - 1, s[i] = Before(s[j])
          PROVE  r[i] = Before(r[j])
      BY <1>2, <2>2, <3>1, <3>3
    <3> QED
      BY <2>2, <3>1, <3>2, <3>3 DEF Ordered
  <2> QED
    BY <1>2, <1>3, <2>1, <2>2
<1> QED
  BY <1>1, <1>3 DEF Ordered

\* Every source on the stack has been sent up to where it is.
LEMMA OrderStep ==
    ASSUME OrderInv, [BridgeNext]_bridgeVars
    PROVE  OrderInv'
<1>1. Types /\ Types' /\ All \in Seq(Source)
  BY TypesStep, AllType DEF OrderInv
<1>2. CASE Take
  <2>1. PICK top, src : Taken(top, src)
    BY <1>1, <1>2, TakeTaken
  <2>2. /\ top \in 1 .. Len(stack) /\ stack[top] \in Source /\ src \in Source
        /\ src = [stack[top] EXCEPT !.pos = @ + 1]
    BY <1>1, <2>1 DEF Taken, Types
  <2>3. Before(src) = stack[top] /\ src.pos = stack[top].pos + 1
    BY <2>2, BeforeNext
  <2>4. PICK a : a = All /\ All' = Append(a, src) /\ a \in Seq(Source)
    BY <1>1, <1>2, <2>1, TakenAll
  <2>5. src.pos = First(src) \/ \E i \in 1 .. Len(a) : a[i] = Before(src)
    <3>1. First(src) = First(stack[top])
      BY <2>2 DEF First, Source
    <3>2. stack[top].pos + 1 = First(stack[top]) \/ \E i \in 1 .. Len(a) : a[i] = stack[top]
      BY <2>2, <2>4 DEF OrderInv
    <3> QED
      BY <2>3, <3>1, <3>2, Zenon
  <2>6. Ordered(All')
    BY <2>2, <2>4, <2>5, AppendOrdered, Zenon DEF OrderInv
  <2>7. /\ Len(All') = Len(a) + 1 /\ Len(a) \in Nat /\ All'[Len(a) + 1] = src
        /\ \A i \in 1 .. Len(a) : All'[i] = a[i]
    BY <2>2, <2>4
  <2>8. /\ Len(stack') = top /\ stack'[top] = src
        /\ \A i \in 1 .. top - 1 : stack'[i] = stack[i]
    BY <1>1, <2>1, TakenStack
  <2>9. ASSUME NEW t \in 1 .. Len(stack')
        PROVE  stack'[t].pos + 1 = First(stack'[t]) \/ \E i \in 1 .. Len(All') : All'[i] = stack'[t]
    <3>1. CASE t = top
      BY <2>7, <2>8, <3>1
    <3>2. CASE t \in 1 .. top - 1
      <4>1. stack'[t] = stack[t] /\ t \in 1 .. Len(stack)
        BY <2>2, <2>8, <3>2
      <4>2. stack[t].pos + 1 = First(stack[t]) \/ \E i \in 1 .. Len(a) : a[i] = stack[t]
        BY <2>4, <4>1 DEF OrderInv
      <4>3. ASSUME NEW i \in 1 .. Len(a)
            PROVE  i \in 1 .. Len(All') /\ All'[i] = a[i]
        BY <2>7
      <4> QED
        BY <4>1, <4>2, <4>3
    <3> QED
      BY <2>2, <2>8, <2>9, <3>1, <3>2
  <2> QED
    BY <1>1, <2>6, <2>9 DEF OrderInv, Ordered, Before, First
<1>3. CASE ~Take
  <2>1. All' = All
    BY <1>1, <1>3, OtherAll
  <2>2. ASSUME NEW t \in 1 .. Len(stack')
        PROVE  stack'[t].pos + 1 = First(stack'[t]) \/ \E i \in 1 .. Len(All') : All'[i] = stack'[t]
    <3>1. CASE stack' = Append(stack, Macro(macros + 1)) /\ Macro(macros + 1) \in Source
      <4>1. PICK m : /\ m = Macro(macros + 1) /\ m.pos = 0 /\ First(m) = 1
                     /\ stack' = Append(stack, m) /\ m \in Source
        BY <3>1 DEF Macro, First
      <4>2. (t \in 1 .. Len(stack) /\ stack'[t] = stack[t]) \/ stack'[t] = m
        BY <1>1, <2>2, <4>1, SMTT(30) DEF Types
      <4>3. CASE stack'[t] = m
        BY <4>1, <4>3
      <4>4. CASE t \in 1 .. Len(stack) /\ stack'[t] = stack[t]
        BY <2>1, <4>4 DEF OrderInv
      <4> QED
        BY <4>2, <4>3, <4>4
    <3>2. CASE /\ stack' \in Seq(Source) /\ Len(stack') <= Len(stack)
               /\ \A i \in 1 .. Len(stack') : stack'[i] = stack[i]
      <4>1. t \in 1 .. Len(stack) /\ stack'[t] = stack[t]
        BY <1>1, <2>2, <3>2 DEF Types
      <4> QED
        BY <2>1, <2>2, <4>1 DEF OrderInv
    <3> QED
      BY <1>1, <1>3, <3>1, <3>2, OtherStack, Zenon
  <2>3. Ordered(All')
    BY <2>1 DEF OrderInv
  <2> QED
    BY <1>1, <2>2, <2>3 DEF OrderInv, Ordered, Before, First
<1> QED
  BY <1>2, <1>3

\* Two records of one source.
Same(x, y) == x.kind = y.kind /\ x.id = y.id

Distinct(s) == \A i, j \in 1 .. Len(s) : s[i] = s[j] => i = j

Unlike(s) == \A t, u \in 1 .. Len(s) : Same(s[t], s[u]) => t = u

Numbered(s, m) == \A t \in 1 .. Len(s) : s[t].id <= m

\* Nothing in a is beyond where its source stands in s.
Passed(a, s) ==
    \A i \in 1 .. Len(a), t \in 1 .. Len(s) : Same(a[i], s[t]) => a[i].pos <= s[t].pos

OnceInv ==
    /\ Types
    /\ Unlike(stack) /\ Numbered(stack, macros)
    /\ Distinct(All) /\ Numbered(All, macros)
    /\ Passed(All, stack)

\* What a sequence of sources holds.
LEMMA SeqFields ==
    ASSUME NEW s \in Seq(Source), NEW i \in 1 .. Len(s)
    PROVE  s[i] \in Source /\ s[i].id \in Nat /\ s[i].pos \in Nat
<1>1. s[i] \in Source
  OBVIOUS
<1>2. \A x \in Source : x.id \in Nat /\ x.pos \in Nat
  BY DEF Source
<1> QED
  BY <1>1, <1>2

\* A message of the source at the top is a new one.
LEMMA OnceTake ==
    ASSUME OnceInv, Take
    PROVE  OnceInv'
<1>1. Types /\ Types' /\ All \in Seq(Source)
  BY TypesStep, AllType DEF OnceInv, BridgeNext
<1>2. PICK top, src : Taken(top, src)
  BY <1>1, TakeTaken
<1>3. /\ top \in 1 .. Len(stack) /\ stack[top] \in Source /\ src \in Source
      /\ src = [stack[top] EXCEPT !.pos = @ + 1] /\ stack \in Seq(Source)
  BY <1>1, <1>2 DEF Taken, Types
<1>4. Same(src, stack[top]) /\ src.pos = stack[top].pos + 1 /\ stack[top].pos \in Nat
  BY <1>3 DEF Source, Same
<1>5. PICK a, n, b : /\ a = All /\ a \in Seq(Source) /\ n = Len(a) /\ n \in Nat
                     /\ b = All' /\ b = Append(a, src)
  BY <1>1, <1>2, TakenAll
<1>6. Len(b) = n + 1 /\ b[n + 1] = src /\ \A i \in 1 .. n : b[i] = a[i]
  BY <1>3, <1>5
<1>7. PICK r : /\ r = stack' /\ Len(r) = top /\ r[top] = src
               /\ \A t \in 1 .. top - 1 : r[t] = stack[t]
  BY <1>1, <1>2, TakenStack
<1>8. ASSUME NEW t \in 1 .. Len(r)
      PROVE  /\ t \in 1 .. Len(stack) /\ Same(r[t], stack[t])
             /\ t = top \/ (t # top /\ r[t] = stack[t])
  <2>1. t \in 1 .. top /\ Len(stack) \in Nat
    BY <1>3, <1>7
  <2>2. t \in 1 .. Len(stack)
    BY <1>3, <2>1
  <2>3. CASE t = top
    BY <1>4, <1>7, <2>2, <2>3, Zenon
  <2>4. CASE t # top
    <3>1. t \in 1 .. top - 1
      BY <1>3, <2>1, <2>4
    <3>2. r[t] = stack[t]
      BY <1>7, <3>1
    <3> QED
      BY <2>2, <2>4, <3>2, Zenon DEF Same
  <2> QED
    BY <2>3, <2>4
<1>9. /\ Unlike(stack) /\ Numbered(stack, macros) /\ Distinct(a) /\ Numbered(a, macros)
      /\ Passed(a, stack) /\ macros' = macros
  BY <1>5 DEF OnceInv, Take
<1>10. Unlike(r)
  BY <1>8, <1>9 DEF Unlike, Same
<1>11. Numbered(r, macros)
  BY <1>8, <1>9 DEF Numbered, Same
<1>12. Numbered(b, macros)
  BY <1>3, <1>4, <1>5, <1>6, <1>9 DEF Numbered, Same
<1>13. ASSUME NEW i \in 1 .. n, Same(a[i], src)
       PROVE  a[i].pos < src.pos
  <2>1. Same(a[i], stack[top]) /\ i \in 1 .. Len(a) /\ a[i].pos \in Nat
    BY <1>4, <1>5, <1>13, SeqFields DEF Same
  <2>2. a[i].pos <= stack[top].pos
    BY <1>3, <1>9, <2>1 DEF Passed
  <2> QED
    BY <1>4, <2>1, <2>2
<1>14. Distinct(b)
  <2>1. ASSUME NEW i \in 1 .. n
        PROVE  b[i] # src
    <3>1. b[i] = a[i] /\ a[i].pos \in Nat
      BY <1>5, <1>6, SeqFields
    <3> QED
      BY <1>4, <1>13, <3>1 DEF Same
  <2>2. ASSUME NEW i \in 1 .. n + 1, NEW j \in 1 .. n + 1, b[i] = b[j]
        PROVE  i = j
    BY <1>5, <1>6, <1>9, <2>1, <2>2 DEF Distinct
  <2> QED
    BY <1>6, <2>2 DEF Distinct
<1>15. ASSUME NEW i \in 1 .. n + 1, NEW t \in 1 .. Len(r), Same(b[i], r[t])
       PROVE  b[i].pos <= r[t].pos
  <2>1. CASE i = n + 1 /\ t = top
    BY <1>4, <1>6, <1>7, <2>1
  <2>2. CASE i = n + 1 /\ t # top
    <3>1. Same(stack[top], stack[t]) /\ t \in 1 .. Len(stack)
      BY <1>4, <1>6, <1>8, <1>15, <2>2 DEF Same
    <3> QED
      BY <1>3, <1>9, <2>2, <3>1 DEF Unlike
  <2>3. CASE i \in 1 .. n /\ t = top
    <3>1. b[i] = a[i] /\ r[t] = src /\ a[i] \in Source
      BY <1>5, <1>6, <1>7, <2>3
    <3>2. a[i].pos < src.pos
      BY <1>13, <1>15, <2>3, <3>1
    <3>3. a[i].pos \in Nat /\ src.pos \in Nat
      BY <1>3, <3>1, Zenon DEF Source
    <3> QED
      BY <3>1, <3>2, <3>3
  <2>4. CASE i \in 1 .. n /\ t # top
    <3>1. b[i] = a[i] /\ r[t] = stack[t] /\ t \in 1 .. Len(stack) /\ i \in 1 .. Len(a)
      BY <1>5, <1>6, <1>8, <2>4
    <3> QED
      BY <1>9, <1>15, <3>1 DEF Passed
  <2> QED
    BY <1>5, <2>1, <2>2, <2>3, <2>4
<1>16. Passed(b, r)
  BY <1>6, <1>15 DEF Passed
<1> QED
  BY <1>1, <1>5, <1>7, <1>9, <1>10, <1>11, <1>12, <1>14, <1>16
  DEF OnceInv, Unlike, Numbered, Distinct, Passed, Same

\* A new macro has a number nobody had; the other steps only drop sources.
LEMMA OnceStep ==
    ASSUME OnceInv, [BridgeNext]_bridgeVars
    PROVE  OnceInv'
<1>1. Types /\ Types' /\ All \in Seq(Source)
  BY TypesStep, AllType DEF OnceInv
<1>2. CASE Take
  BY <1>2, OnceTake
<1>3. CASE ~Take
  <2>1. PICK a : a = All /\ a = All' /\ a \in Seq(Source)
    BY <1>1, <1>3, OtherAll
  <2>2. PICK s, r : s = stack /\ r = stack' /\ s \in Seq(Source) /\ r \in Seq(Source)
    BY <1>1 DEF Types
  <2>3. /\ Unlike(s) /\ Numbered(s, macros) /\ Distinct(a) /\ Numbered(a, macros)
        /\ Passed(a, s) /\ macros \in Nat
    BY <2>1, <2>2 DEF OnceInv, Types
  <2>4. /\ \A i \in 1 .. Len(a) : a[i].id \in Nat
        /\ \A t \in 1 .. Len(s) : s[t].id \in Nat
    BY <2>1, <2>2, SeqFields
  <2>5. CASE macros' = macros + 1 /\ stack' = Append(stack, Macro(macros + 1))
             /\ Macro(macros + 1) \in Source
    <3>1. PICK m : m = Macro(macros + 1) /\ m.id = macros + 1 /\ r = Append(s, m) /\ m \in Source
      BY <2>2, <2>5 DEF Macro
    <3>2. PICK n : /\ n = Len(s) /\ n \in Nat /\ Len(r) = n + 1 /\ r[n + 1] = m
                   /\ \A t \in 1 .. n : r[t] = s[t]
      BY <2>2, <3>1
    <3>3. /\ \A i \in 1 .. Len(a) : a[i].id # m.id
          /\ \A t \in 1 .. n : s[t].id # m.id
      BY <2>3, <2>4, <3>1, <3>2 DEF Numbered
    <3>4. Unlike(r)
      BY <2>3, <3>2, <3>3 DEF Unlike, Same
    <3>5. Passed(a, r)
      BY <2>3, <3>2, <3>3, SMTT(30) DEF Passed, Same
    <3>6. Numbered(r, macros') /\ Numbered(a, macros')
      BY <2>3, <2>4, <2>5, <3>1, <3>2 DEF Numbered
    <3> QED
      BY <1>1, <2>1, <2>2, <2>3, <3>4, <3>5, <3>6
      DEF OnceInv, Unlike, Numbered, Distinct, Passed, Same
  <2>6. CASE /\ macros' = macros /\ Len(stack') <= Len(stack)
             /\ \A i \in 1 .. Len(stack') : stack'[i] = stack[i]
    <3>1. \A t \in 1 .. Len(r) : t \in 1 .. Len(s) /\ r[t] = s[t]
      BY <2>2, <2>6
    <3>2. Unlike(r) /\ Numbered(r, macros) /\ Passed(a, r)
      BY <2>3, <3>1, Zenon DEF Unlike, Numbered, Passed
    <3> QED
      BY <1>1, <2>1, <2>2, <2>3, <2>6, <3>2
      DEF OnceInv, Unlike, Numbered, Distinct, Passed, Same
  <2> QED
    BY <1>1, <1>3, <2>5, <2>6, OtherStack, Zenon
<1> QED
  BY <1>2, <1>3

\* Nothing has been sent at first.
LEMMA AllInit ==
    ASSUME BridgeInit
    PROVE  All = <<>> /\ Len(All) = 0
<1>1. Len(<<>>) = 0 /\ <<>> \o <<>> = <<>>
  OBVIOUS
<1> QED
  BY <1>1 DEF BridgeInit, All

\* The sources the bridge starts with have sent nothing, and are different.
LEMMA OrderInit ==
    ASSUME BridgeInit
    PROVE  OrderInv /\ OnceInv
<1>1. Types /\ All = <<>> /\ Len(All) = 0
  BY TypesInit, AllInit
<1>2. PICK a, b : a = Live /\ b = Replay
  OBVIOUS
<1>3. /\ a.kind = "live" /\ a.id = 0 /\ a.pos + 1 = First(a)
      /\ b.kind = "replay" /\ b.id = 0 /\ b.pos + 1 = First(b)
  BY <1>2 DEF Live, Replay, First
<1>4. stack = <<a>> \/ stack = <<b>> \/ stack = <<a, b>>
  BY <1>2, Zenon DEF BridgeInit, StartStacks
<1>5. \A t \in 1 .. Len(stack) : stack[t].pos + 1 = First(stack[t]) /\ stack[t].id = 0
  BY <1>3, <1>4
<1>6. Unlike(stack)
  BY <1>3, <1>4 DEF Unlike, Same
<1>7. macros = 0
  BY DEF BridgeInit
<1>8. OrderInv
  BY <1>1, <1>5 DEF OrderInv, Ordered
<1>9. OnceInv
  BY <1>1, <1>5, <1>6, <1>7 DEF OnceInv, Numbered, Distinct, Passed
<1> QED
  BY <1>8, <1>9

\* What holds of everything that was taken holds of what was sent.
LEMMA OrderImplies ==
    ASSUME OrderInv, OnceInv
    PROVE  SourcesInOrder
<1>1. /\ DOMAIN sent = 1 .. Len(sent) /\ Len(sent) \in Nat /\ Len(All) \in Nat
      /\ Len(sent) <= Len(All) /\ \A i \in 1 .. Len(sent) : sent[i] = All[i]
  BY SentIsPrefix, AllType, LenProperties DEF OrderInv, Types
<1>2. ASSUME NEW i \in DOMAIN sent, NEW j \in DOMAIN sent, sent[i] = sent[j]
      PROVE  i = j
  <2>1. i \in 1 .. Len(All) /\ j \in 1 .. Len(All) /\ All[i] = All[j]
    BY <1>1, <1>2
  <2> QED
    BY <2>1 DEF OnceInv, Distinct
<1>3. ASSUME NEW j \in DOMAIN sent
      PROVE  \/ sent[j].pos = First(sent[j])
             \/ \E i \in 1 .. j - 1 : sent[i] = Before(sent[j])
  <2>1. j \in 1 .. Len(All) /\ sent[j] = All[j]
    BY <1>1
  <2>2. CASE All[j].pos = First(All[j])
    BY <2>1, <2>2
  <2>3. ASSUME NEW i \in 1 .. j - 1, All[i] = Before(All[j])
        PROVE  sent[i] = Before(sent[j])
    BY <1>1, <2>1, <2>3
  <2> QED
    BY <2>1, <2>2, <2>3, SMTT(30) DEF OrderInv, Ordered
<1> QED
  BY <1>2, <1>3, Zenon DEF SourcesInOrder, Before

\* No source skips or repeats a message, for replay files and macros of any
\* length and any number of macros (bridge.py:314-326).
THEOREM InOrder == BridgeSpec => []SourcesInOrder
<1>1. BridgeInit => OrderInv /\ OnceInv
  BY OrderInit
<1>2. OrderInv /\ OnceInv /\ [BridgeNext]_bridgeVars => OrderInv' /\ OnceInv'
  BY OrderStep, OnceStep
<1>3. OrderInv /\ OnceInv => SourcesInOrder
  BY OrderImplies
<1> QED
  BY <1>1, <1>2, <1>3, PTL DEF BridgeSpec

-----------------------------------------------------------------------------

(***************************************************************************)
(* MacroRunsToEnd needs the order of the stack, on which a macro lies      *)
(* above the macros it was started on, and that a macro that has yielded   *)
(* a message and not its last one is still there.                          *)
(***************************************************************************)
Finished(s, i) == \E h \in i .. Len(s) : s[h].id = s[i].id /\ s[h].pos = MacroLen

Running(i) ==
    \E t \in 1 .. Len(stack) :
        stack[t].kind = "macro" /\ stack[t].id = All[i].id /\ stack[t].pos < MacroLen

RunToEnd(s) ==
    \A i, j \in 1 .. Len(s) :
        (i < j /\ Below(s[j], s[i])) =>
            \E h \in i .. j : s[h].id = s[i].id /\ s[h].pos = MacroLen

Sorted(s, m) ==
    /\ \A a, b \in 1 .. Len(s) : a < b /\ s[a].kind = "macro" => Below(s[a], s[b])
    /\ \A a \in 1 .. Len(s) : s[a].id <= m

StackSorted == Sorted(stack, macros)

MacroInv ==
    /\ Types
    /\ StackSorted
    /\ \A i \in 1 .. Len(All) : All[i].kind = "macro" => Finished(All, i) \/ Running(i)
    /\ RunToEnd(All)

\* Dropping sources from the top, or advancing them, keeps the stack sorted.
LEMMA SortedPrefix ==
    ASSUME NEW s \in Seq(Source), NEW r \in Seq(Source), NEW m, Sorted(s, m), Len(r) <= Len(s),
           \A i \in 1 .. Len(r) : r[i].kind = s[i].kind /\ r[i].id = s[i].id
    PROVE  Sorted(r, m)
<1>1. 1 .. Len(r) \subseteq 1 .. Len(s)
  OBVIOUS
<1>2. ASSUME NEW a \in 1 .. Len(r), NEW b \in 1 .. Len(r), a < b, r[a].kind = "macro"
      PROVE  Below(r[a], r[b])
  BY <1>1, <1>2 DEF Sorted, Below
<1>3. ASSUME NEW a \in 1 .. Len(r)
      PROVE  r[a].id <= m
  BY <1>1 DEF Sorted
<1> QED
  BY <1>2, <1>3 DEF Sorted

\* Macros are pushed in the order of their numbers.
LEMMA SortedStep ==
    ASSUME Types, StackSorted, [BridgeNext]_bridgeVars
    PROVE  StackSorted'
<1>1. CASE Take
  <2>1. PICK top, src : Taken(top, src)
    BY <1>1, TakeTaken
  <2>2. /\ Len(stack') = top /\ stack'[top] = src
        /\ \A i \in 1 .. top - 1 : stack'[i] = stack[i]
    BY <2>1, TakenStack
  <2>3. /\ top \in 1 .. Len(stack) /\ stack[top] \in Source
        /\ src = [stack[top] EXCEPT !.pos = @ + 1]
    BY <2>1 DEF Taken, Types
  <2>4. src.kind = stack[top].kind /\ src.id = stack[top].id /\ macros' = macros
    BY <1>1, <2>3 DEF Source, Take
  <2>5. PICK r : r = stack' /\ r \in Seq(Source) /\ Len(r) <= Len(stack)
    BY <2>1, <2>2, <2>3, TakenStack DEF Types
  <2>6. ASSUME NEW i \in 1 .. Len(r)
        PROVE  r[i].kind = stack[i].kind /\ r[i].id = stack[i].id
    <3>1. i = top \/ i \in 1 .. top - 1
      BY <2>2, <2>3, <2>5
    <3> QED
      BY <2>2, <2>4, <2>5, <3>1, Zenon
  <2>7. Sorted(r, macros)
    BY <2>5, <2>6, SortedPrefix DEF StackSorted, Types
  <2> QED
    BY <2>4, <2>5, <2>7 DEF StackSorted, Sorted, Below
<1>2. CASE macros' = macros + 1 /\ stack' = Append(stack, Macro(macros + 1))
           /\ Macro(macros + 1) \in Source
  <2>1. PICK m : /\ m = Macro(macros + 1) /\ m.kind = "macro" /\ m.id = macros + 1
                 /\ stack' = Append(stack, m) /\ m \in Source
    BY <1>2 DEF Macro
  <2>2. PICK n : /\ n = Len(stack) /\ n \in Nat /\ Len(stack') = n + 1 /\ stack'[n + 1] = m
                 /\ \A i \in 1 .. n : stack'[i] = stack[i]
    BY <2>1, SMTT(30) DEF Types
  <2>3. macros \in Nat /\ macros' = macros + 1 /\ \A i \in 1 .. n : stack[i].id \in Nat
    <3>1. \A x \in Source : x.id \in Nat
      BY DEF Source
    <3>2. \A i \in 1 .. n : stack[i] \in Source
      BY <2>2 DEF Types
    <3> QED
      BY <1>2, <3>1, <3>2 DEF Types
  <2>4. ASSUME NEW a \in 1 .. n + 1, NEW b \in 1 .. n + 1, a < b, stack'[a].kind = "macro"
        PROVE  Below(stack'[a], stack'[b])
    <3>1. CASE b = n + 1
      BY <2>1, <2>2, <2>3, <2>4, <3>1 DEF Below, StackSorted, Sorted
    <3>2. CASE b \in 1 .. n
      BY <2>2, <2>4, <3>2 DEF StackSorted, Sorted
    <3> QED
      BY <2>2, <2>4, <3>1, <3>2
  <2>5. ASSUME NEW a \in 1 .. n + 1
        PROVE  stack'[a].id <= macros'
    BY <2>1, <2>2, <2>3 DEF StackSorted, Sorted
  <2> QED
    BY <2>2, <2>4, <2>5 DEF StackSorted, Sorted, Below
<1>3. CASE /\ macros' = macros /\ stack' \in Seq(Source) /\ Len(stack') <= Len(stack)
           /\ \A i \in 1 .. Len(stack') : stack'[i] = stack[i]
  <2>1. PICK r : r = stack' /\ r \in Seq(Source) /\ Len(r) <= Len(stack)
                 /\ \A i \in 1 .. Len(r) : r[i] = stack[i]
    BY <1>3
  <2>2. Sorted(r, macros)
    BY <2>1, SortedPrefix, Zenon DEF StackSorted, Types
  <2> QED
    BY <1>3, <2>1, <2>2 DEF StackSorted, Sorted, Below
<1> QED
  BY <1>1, <1>2, <1>3, OtherStack, Zenon

\* A Take while a macro that has begun is running takes from it or from one
\* that was started later.
LEMMA TakenAbove ==
    ASSUME Types, StackSorted, NEW top, NEW src, Taken(top, src), NEW t \in 1 .. Len(stack),
           stack[t].kind = "macro", stack[t].pos < MacroLen
    PROVE  /\ t <= top /\ src.kind = "macro"
           /\ t < top => stack[t].id < src.id
           /\ t = top => src.id = stack[t].id
<1>1. /\ top \in 1 .. Len(stack) /\ stack[top] \in Source /\ Top(top)
      /\ src = [stack[top] EXCEPT !.pos = @ + 1]
  BY DEF Taken, Types
<1>2. src.kind = stack[top].kind /\ src.id = stack[top].id
  BY <1>1 DEF Source
<1>3. HasMore(stack[t]) /\ t \in DOMAIN stack
  BY DEF HasMore, Types
<1>4. t <= top
  BY <1>1, <1>3 DEF Top
<1>5. t < top => Below(stack[t], stack[top])
  BY <1>1 DEF StackSorted, Sorted
<1> QED
  BY <1>1, <1>2, <1>4, <1>5 DEF Below

\* A macro that is off the stack has run to its end.
LEMMA MacroStep ==
    ASSUME MacroInv, [BridgeNext]_bridgeVars
    PROVE  MacroInv'
<1>1. Types /\ Types' /\ All \in Seq(Source) /\ StackSorted /\ StackSorted'
  BY TypesStep, AllType, SortedStep DEF MacroInv
<1>2. CASE Take
  <2>1. PICK top, src : Taken(top, src)
    BY <1>1, <1>2, TakeTaken
  <2>2. /\ top \in 1 .. Len(stack) /\ stack[top] \in Source /\ src \in Source
        /\ src = [stack[top] EXCEPT !.pos = @ + 1] /\ Top(top)
    BY <1>1, <2>1 DEF Taken, Types
  <2>3. /\ src.pos = stack[top].pos + 1 /\ src.kind = stack[top].kind /\ src.id = stack[top].id
        /\ src.id \in Nat /\ stack[top].pos \in Nat
    BY <2>2 DEF Source
  <2>4. PICK a, n, b : /\ a = All /\ a \in Seq(Source) /\ n = Len(a) /\ n \in Nat
                       /\ b = All' /\ b = Append(a, src)
    BY <1>1, <1>2, <2>1, TakenAll
  <2>5. Len(b) = n + 1 /\ b[n + 1] = src /\ \A i \in 1 .. n : b[i] = a[i]
    BY <2>2, <2>4
  <2>6. /\ Len(stack') = top /\ stack'[top] = src
        /\ \A i \in 1 .. top - 1 : stack'[i] = stack[i]
    BY <1>1, <2>1, TakenStack
  <2>7. src.kind = "macro" => src.pos <= MacroLen
    BY <2>2, <2>3, BridgeAssumption DEF Top, HasMore
  <2>8. src.kind = "macro" /\ src.pos # MacroLen => src.pos < MacroLen
    BY <2>3, <2>7, BridgeAssumption
  <2>9. ASSUME NEW i \in 1 .. n, Finished(a, i)
        PROVE  \E h \in i .. n : b[h].id = b[i].id /\ b[h].pos = MacroLen
    <3>1. PICK h \in i .. n : a[h].id = a[i].id /\ a[h].pos = MacroLen
      BY <2>4, <2>9 DEF Finished
    <3>2. h \in 1 .. n
      BY <2>4
    <3> QED
      BY <2>5, <3>1, <3>2
  <2>10. ASSUME NEW i \in 1 .. n + 1, b[i].kind = "macro"
         PROVE  Finished(b, i) \/ Running(i)'
    <3>1. ASSUME src.kind = "macro", src.id = b[i].id
          PROVE  Finished(b, i) \/ Running(i)'
      <4>1. CASE src.pos = MacroLen
        BY <2>4, <2>5, <2>10, <3>1, <4>1 DEF Finished
      <4>2. CASE src.pos < MacroLen
        <5>1. /\ top \in 1 .. Len(stack') /\ stack'[top].kind = "macro"
              /\ stack'[top].id = All'[i].id /\ stack'[top].pos < MacroLen
          BY <2>2, <2>4, <2>6, <3>1, <4>2
        <5> QED
          BY <5>1 DEF Running
      <4> QED
        BY <2>8, <3>1, <4>1, <4>2
    <3>2. CASE i = n + 1
      BY <2>5, <2>10, <3>1, <3>2
    <3>3. CASE i \in 1 .. n /\ Finished(a, i)
      <4>1. PICK h \in i .. n : b[h].id = b[i].id /\ b[h].pos = MacroLen
        BY <2>9, <3>3
      <4>2. h \in i .. Len(b)
        BY <2>4, <2>5
      <4> QED
        BY <4>1, <4>2 DEF Finished
    <3>4. CASE i \in 1 .. n /\ Running(i)
      <4>1. PICK t \in 1 .. Len(stack) :
                stack[t].kind = "macro" /\ stack[t].id = b[i].id /\ stack[t].pos < MacroLen
        BY <2>4, <2>5, <3>4 DEF Running
      <4>2. t <= top /\ src.kind = "macro" /\ (t = top => src.id = stack[t].id)
        BY <1>1, <2>1, <4>1, TakenAbove
      <4>3. CASE t = top
        BY <3>1, <4>1, <4>2, <4>3
      <4>4. CASE t \in 1 .. top - 1
        <5>1. t \in 1 .. Len(stack') /\ stack'[t] = stack[t] /\ All'[i] = b[i]
          BY <2>2, <2>4, <2>6, <4>4
        <5> QED
          BY <4>1, <5>1 DEF Running
      <4> QED
        BY <2>2, <4>2, <4>3, <4>4
    <3>5. i = n + 1 \/ i \in 1 .. n
      BY <2>4, <2>10
    <3>6. i \in 1 .. n => Finished(a, i) \/ Running(i)
      BY <2>4, <2>5, <2>10 DEF MacroInv
    <3> QED
      BY <3>2, <3>3, <3>4, <3>5, <3>6
  <2>11. ASSUME NEW i \in 1 .. n + 1, NEW j \in 1 .. n + 1, i < j, Below(b[j], b[i])
         PROVE  \E h \in i .. j : b[h].id = b[i].id /\ b[h].pos = MacroLen
    <3>1. i \in 1 .. n /\ b[i] = a[i] /\ a[i].kind = "macro" /\ a[i] \in Source
      BY <2>4, <2>5, <2>11 DEF Below
    <3>2. CASE j \in 1 .. n
      <4>1. Below(a[j], a[i])
        BY <2>5, <2>11, <3>1, <3>2
      <4>2. PICK h \in i .. j : a[h].id = a[i].id /\ a[h].pos = MacroLen
        BY <2>4, <2>11, <3>1, <3>2, <4>1 DEF MacroInv, RunToEnd
      <4>3. h \in 1 .. n
        BY <2>4, <3>1, <3>2
      <4> QED
        BY <2>5, <3>1, <4>2, <4>3
    <3>3. CASE j = n + 1
      <4>1. b[j] = src
        BY <2>5, <3>3
      <4>2. ~Running(i)
        <5>1. SUFFICES ASSUME Running(i)
                       PROVE  FALSE
          OBVIOUS
        <5>2. PICK t \in 1 .. Len(stack) :
                  stack[t].kind = "macro" /\ stack[t].id = a[i].id /\ stack[t].pos < MacroLen
          BY <2>4, <5>1 DEF Running
        <5>3. /\ t <= top /\ src.kind = "macro"
              /\ t < top => stack[t].id < src.id
              /\ t = top => src.id = stack[t].id
          BY <1>1, <2>1, <5>2, TakenAbove
        <5>4. src.id < a[i].id
          BY <2>11, <3>1, <4>1, <5>3 DEF Below
        <5>5. a[i].id \in Nat
          BY <3>1 DEF Source
        <5> QED
          BY <2>2, <2>3, <5>2, <5>3, <5>4, <5>5
      <4>3. Finished(a, i)
        BY <2>4, <3>1, <4>2 DEF MacroInv
      <4>4. PICK h \in i .. n : b[h].id = b[i].id /\ b[h].pos = MacroLen
        BY <2>9, <3>1, <4>3
      <4>5. h \in i .. j
        BY <2>4, <3>3
      <4> QED
        BY <4>4, <4>5
    <3> QED
      BY <2>4, <2>11, <3>2, <3>3
  <2>12. RunToEnd(b)
    BY <2>5, <2>11 DEF RunToEnd
  <2>13. RunToEnd(All)'
    BY <2>4, <2>12, Zenon DEF RunToEnd, Below
  <2>14. \A i \in 1 .. Len(All') : All'[i].kind = "macro" => Finished(All, i)' \/ Running(i)'
    BY <2>4, <2>5, <2>10 DEF Finished
  <2> QED
    BY <1>1, <2>13, <2>14 DEF MacroInv
<1>3. CASE ~Take
  <2>1. All' = All
    BY <1>1, <1>3, OtherAll
  <2>2. ASSUME NEW i \in 1 .. Len(All), Running(i)
        PROVE  Running(i)'
    <3>1. PICK t \in 1 .. Len(stack) :
              stack[t].kind = "macro" /\ stack[t].id = All[i].id /\ stack[t].pos < MacroLen
      BY <2>2 DEF Running
    <3>2. HasMore(stack[t])
      BY <3>1 DEF HasMore
    <3>3. t \in 1 .. Len(stack') /\ stack'[t] = stack[t]
      <4>1. CASE stack' = Append(stack, Macro(macros + 1)) /\ Macro(macros + 1) \in Source
        <5>1. PICK m : stack' = Append(stack, m) /\ m \in Source
          BY <4>1
        <5> QED
          BY <1>1, <5>1 DEF Types
      <4>2. CASE /\ stack' \in Seq(Source) /\ Len(stack') <= Len(stack)
                 /\ \A k \in 1 .. Len(stack') : stack'[k] = stack[k]
                 /\ \A k \in 1 .. Len(stack) : HasMore(stack[k]) => k <= Len(stack')
        BY <1>1, <3>2, <4>2 DEF Types
      <4> QED
        BY <1>1, <1>3, <4>1, <4>2, OtherStack, Zenon
    <3> QED
      BY <2>1, <3>1, <3>3 DEF Running
  <2>3. \A i \in 1 .. Len(All) : All[i].kind = "macro" => Finished(All, i) \/ Running(i)'
    BY <2>2 DEF MacroInv
  <2>4. \A i \in 1 .. Len(All') : All'[i].kind = "macro" => Finished(All, i)' \/ Running(i)'
    BY <2>1, <2>3 DEF Finished
  <2>5. RunToEnd(All)'
    BY <2>1 DEF MacroInv, RunToEnd, Below
  <2> QED
    BY <1>1, <2>4, <2>5 DEF MacroInv
<1> QED
  BY <1>2, <1>3

\* Once begun, a macro is played to its end before anything below it, however
\* many macros are started and however long they are (bridge.py:314-326, 386).
THEOREM MacrosFinish == BridgeSpec => []MacroRunsToEnd
<1>1. BridgeInit => MacroInv
  <2> SUFFICES ASSUME BridgeInit
               PROVE  MacroInv
    OBVIOUS
  <2>1. Types /\ All = <<>> /\ Len(All) = 0
    BY TypesInit, AllInit
  <2>2. \A c \in 1 .. Len(stack) : stack[c].kind # "macro"
    BY DEF BridgeInit, StartStacks, Live, Replay
  <2>3. \A c \in 1 .. Len(stack) : stack[c].id <= macros
    BY DEF BridgeInit, StartStacks, Live, Replay
  <2> QED
    BY <2>1, <2>2, <2>3 DEF MacroInv, StackSorted, Sorted, RunToEnd
<1>2. MacroInv /\ [BridgeNext]_bridgeVars => MacroInv'
  BY MacroStep
<1>3. MacroInv => MacroRunsToEnd
  <2> SUFFICES ASSUME MacroInv, NEW i \in DOMAIN sent, NEW j \in DOMAIN sent, i < j,
                      Below(sent[j], sent[i])
               PROVE  \E h \in i .. j : sent[h].id = sent[i].id /\ sent[h].pos = MacroLen
    BY DEF MacroRunsToEnd
  <2>1. /\ i \in 1 .. Len(sent) /\ j \in 1 .. Len(sent) /\ Len(sent) \in Nat /\ Len(All) \in Nat
        /\ Len(sent) <= Len(All) /\ \A k \in 1 .. Len(sent) : sent[k] = All[k]
    BY SentIsPrefix, AllType, LenProperties DEF MacroInv, Types
  <2>2. Below(All[j], All[i])
    BY <2>1
  <2>3. PICK h \in i .. j : All[h].id = All[i].id /\ All[h].pos = MacroLen
    BY <2>1, <2>2 DEF MacroInv, RunToEnd
  <2> QED
    BY <2>1, <2>3
<1> QED
  BY <1>1, <1>2, <1>3, PTL DEF BridgeSpec

-----------------------------------------------------------------------------

(***************************************************************************)
(* A replay file without its last line end.  There is one replay at most,  *)
(* so its last line is taken once; the line it opens is lost (Lost = 1,    *)
(* begun), and so is the message that ends it (Lost = 2).                  *)
(***************************************************************************)
OneReplay ==
    \A i, j \in 1 .. Len(stack) :
        stack[i].kind = "replay" /\ stack[j].kind = "replay" => i = j

NoReplayLeft ==
    \A i \in 1 .. Len(stack) : stack[i].kind = "replay" => ReplayLen <= stack[i].pos

\* The last line of the replay file is in hand, and has no end.
OpenInHand == message # <<>> /\ ~HasEnd(message[1])

Lost == Len(sent) - Len(lines)

LostInv ==
    /\ lines \in Seq(Source)
    /\ Len(message) <= 1 /\ (bpc = "write" => message # <<>>)
    /\ OneReplay
    /\ Lost \in 0 .. 2
    /\ OpenInHand => Lost = 0
    /\ OpenInHand \/ Lost > 0 => NoReplayLeft
    /\ begun => Lost = 1
    /\ ~begun => Lost \in {0, 2}

\* At most one source on the stack is the replay.
LEMMA OneReplayStep ==
    ASSUME Types, OneReplay, [BridgeNext]_bridgeVars
    PROVE  OneReplay'
<1>1. CASE Take
  <2>1. PICK top, src : Taken(top, src)
    BY <1>1, TakeTaken
  <2>2. /\ Len(stack') = top /\ stack'[top] = src
        /\ \A i \in 1 .. top - 1 : stack'[i] = stack[i]
    BY <2>1, TakenStack
  <2>3. src.kind = stack[top].kind /\ top \in 1 .. Len(stack)
    BY <2>1 DEF Taken, Types, Source
  <2>4. ASSUME NEW i \in 1 .. Len(stack')
        PROVE  i \in 1 .. Len(stack) /\ stack'[i].kind = stack[i].kind
    <3>1. i \in 1 .. top /\ Len(stack) \in Nat
      BY <2>2 DEF Types
    <3>2. i \in 1 .. Len(stack) /\ (i = top \/ i \in 1 .. top - 1)
      BY <2>3, <3>1
    <3> QED
      BY <2>2, <2>3, <3>2
  <2> QED
    BY <2>4, Zenon DEF OneReplay
<1>2. CASE ~Take
  <2>1. CASE macros' = macros + 1 /\ stack' = Append(stack, Macro(macros + 1))
    <3>1. PICK m : m = Macro(macros + 1)
      OBVIOUS
    <3>2. m.kind = "macro"
      BY <3>1 DEF Macro
    <3>3. \A i \in 1 .. Len(stack') :
              \/ i \in 1 .. Len(stack) /\ stack'[i] = stack[i]
              \/ stack'[i] = m
      BY <2>1, <3>1 DEF Types
    <3> QED
      BY <3>2, <3>3 DEF OneReplay
  <2>2. CASE /\ stack' \in Seq(Source) /\ Len(stack') <= Len(stack)
             /\ \A i \in 1 .. Len(stack') : stack'[i] = stack[i]
    <3>1. \A i \in 1 .. Len(stack') : i \in 1 .. Len(stack) /\ stack'[i] = stack[i]
      BY <2>2 DEF Types
    <3> QED
      BY <3>1, Zenon DEF OneReplay
  <2> QED
    BY <1>2, <2>1, <2>2, OtherStack, Zenon
<1> QED
  BY <1>1, <1>2

\* Sending the message in hand makes the sequence one longer.
LEMMA OneMore ==
    ASSUME NEW S, NEW s \in Seq(S), NEW m \in Seq(S), m # <<>>, Len(m) <= 1
    PROVE  /\ Len(m) = 1 /\ Len(s) \in Nat
           /\ s \o m \in Seq(S) /\ Len(s \o m) = Len(s) + 1
<1>1. Len(m) # 0 /\ Len(m) \in Nat
  BY EmptySeq
<1>2. Len(m) = 1
  <2>1. PICK n : n = Len(m)
    OBVIOUS
  <2>2. n \in Nat /\ n # 0 /\ n <= 1
    BY <1>1, <2>1, Zenon
  <2>3. n = 1
    BY <2>2
  <2> QED
    BY <2>1, <2>3, Zenon
<1>3. s \o m \in Seq(S) /\ Len(s \o m) = Len(s) + Len(m) /\ Len(s) \in Nat
  BY ConcatProperties, LenProperties
<1> QED
  BY <1>2, <1>3

\* How many messages sent have made no line of their own, step by step.
LEMMA LostStep ==
    ASSUME Types, LostInv, [BridgeNext]_bridgeVars
    PROVE  LostInv'
<1>0. OneReplay' /\ Types'
  BY OneReplayStep, TypesStep, Zenon DEF LostInv
<1>. /\ lines \in Seq(Source) /\ OneReplay /\ Lost \in 0 .. 2
     /\ Len(message) <= 1 /\ (bpc = "write" => message # <<>>)
     /\ OpenInHand => Lost = 0
     /\ OpenInHand \/ Lost > 0 => NoReplayLeft
  BY Zenon DEF LostInv
<1>1. CASE Take
  <2>1. PICK top, src : Taken(top, src)
    BY <1>1, TakeTaken
  <2>2. /\ Len(stack') = top /\ stack'[top] = src
        /\ \A i \in 1 .. top - 1 : stack'[i] = stack[i]
    BY <2>1, TakenStack
  <2>3. /\ top \in 1 .. Len(stack) /\ stack[top] \in Source
        /\ src \in Source /\ src.kind = stack[top].kind /\ src.pos = stack[top].pos + 1
        /\ message' = <<src>> /\ HasMore(stack[top])
    <3>1. /\ top \in 1 .. Len(stack) /\ src \in Source /\ src = [stack[top] EXCEPT !.pos = @ + 1]
          /\ message' = <<src>> /\ HasMore(stack[top])
      BY <2>1, Zenon DEF Taken, Top
    <3>2. stack[top] \in Source
      BY <3>1 DEF Types
    <3>3. src.kind = stack[top].kind /\ src.pos = stack[top].pos + 1
      BY <3>1, <3>2 DEF Source
    <3> QED
      BY <3>1, <3>2, <3>3
  <2>4. /\ sent' = sent /\ lines' = lines /\ begun' = begun /\ openEnd' = openEnd
        /\ bpc' = "write"
    BY <1>1 DEF Take, lineVars
  <2>5. Lost' = Lost
    BY <2>4 DEF Lost
  <2>6. OpenInHand' <=> ~HasEnd(src)
    BY <2>3, <2>4 DEF OpenInHand, HasEnd
  <2>7. ~HasEnd(src) => src.kind = "replay" /\ src.pos = ReplayLen
    BY DEF HasEnd
  <2>8. ~HasEnd(src) => ~NoReplayLeft
    BY <2>3, <2>7, BridgeAssumption DEF NoReplayLeft, Source
  <2>9. OpenInHand' => Lost' = 0
    <3>1. Lost > 0 => NoReplayLeft
      OBVIOUS
    <3>2. Lost = 0 \/ Lost > 0
      OBVIOUS
    <3> QED
      BY <2>5, <2>6, <2>8, <3>1, <3>2, Zenon
  <2>10. ~HasEnd(src) => NoReplayLeft'
    <3>1. ASSUME ~HasEnd(src), NEW i \in 1 .. Len(stack'), stack'[i].kind = "replay"
          PROVE  ReplayLen <= stack'[i].pos
      <4>1. i = top
        <5>1. CASE i # top
          <6>1. i \in 1 .. Len(stack) /\ stack'[i] = stack[i]
            BY <2>2, <2>3, <5>1 DEF Types
          <6> QED
            BY <2>3, <2>7, <3>1, <5>1, <6>1 DEF OneReplay
        <5> QED
          BY <5>1
      <4> QED
        BY <2>2, <2>7, <3>1, <4>1, BridgeAssumption
    <3> QED
      BY <3>1 DEF NoReplayLeft
  <2>11. Lost > 0 => NoReplayLeft'
    <3>1. ASSUME Lost > 0, NEW i \in 1 .. Len(stack'), stack'[i].kind = "replay"
          PROVE  ReplayLen <= stack'[i].pos
      <4>1. NoReplayLeft
        BY <3>1
      <4>2. stack[top].kind # "replay"
        BY <2>3, <4>1, BridgeAssumption DEF NoReplayLeft, HasMore, Source
      <4>3. i \in 1 .. top /\ i # top
        BY <2>2, <2>3, <3>1, <4>2
      <4>4. i \in 1 .. Len(stack) /\ stack'[i] = stack[i]
        <5>1. i \in 1 .. top - 1 /\ i \in 1 .. Len(stack)
          BY <2>3, <4>3 DEF Types
        <5> QED
          BY <2>2, <5>1
      <4> QED
        BY <3>1, <4>1, <4>4 DEF NoReplayLeft
    <3> QED
      BY <3>1 DEF NoReplayLeft
  <2>12. Len(message') <= 1 /\ message' # <<>>
    BY <2>3
  <2> QED
    BY <1>0, <2>4, <2>5, <2>6, <2>9, <2>10, <2>11, <2>12, Zenon DEF LostInv
<1>2. CASE WriteMessage
  <2>1. /\ sent' = sent \o message /\ message' = <<>> /\ stack' = stack /\ bpc' = "wait"
        /\ begun' <=> ~HasEnd(message[1])
        /\ lines' = IF HasEnd(message[1]) /\ ~begun THEN lines \o message ELSE lines
    BY <1>2, Zenon DEF WriteMessage
  <2>2. message \in Seq(Source) /\ message # <<>> /\ sent \in Seq(Source)
    BY <1>2, Zenon DEF WriteMessage, Types
  <2>3. Len(sent') = Len(sent) + 1 /\ Len(sent) \in Nat /\ Len(lines) \in Nat
    BY <2>1, <2>2, OneMore, Zenon
  <2>4. lines \o message \in Seq(Source) /\ Len(lines \o message) = Len(lines) + 1
    BY <2>2, OneMore, Zenon
  <2>5. ~OpenInHand'
    BY <2>1, Zenon DEF OpenInHand
  <2>6. NoReplayLeft => NoReplayLeft'
    BY <2>1, Zenon DEF NoReplayLeft
  <2>7. Len(message') <= 1 /\ bpc' # "write"
    BY <1>2 DEF WriteMessage
  <2>8. CASE HasEnd(message[1]) /\ ~begun
    <3>1. lines' = lines \o message /\ ~begun'
      BY <2>1, <2>8, Zenon
    <3>2. Lost' = Lost
      BY <2>3, <2>4, <3>1, SMTT(30) DEF Lost
    <3> QED
      BY <1>0, <2>4, <2>5, <2>6, <2>7, <2>8, <3>1, <3>2, Zenon DEF LostInv
  <2>9. CASE HasEnd(message[1]) /\ begun
    <3>1. lines' = lines /\ ~begun'
      BY <2>1, <2>9, Zenon
    <3>2. Lost' = 2 /\ Lost > 0
      <4>1. Lost = 1
        BY <2>9, Zenon DEF LostInv
      <4> QED
        BY <2>3, <3>1, <4>1 DEF Lost
    <3>3. NoReplayLeft'
      BY <2>6, <3>2
    <3>4. Lost' \in 0 .. 2 /\ Lost' \in {0, 2}
      BY <3>2
    <3> QED
      BY <1>0, <2>5, <2>7, <3>1, <3>3, <3>4, Zenon DEF LostInv
  <2>10. CASE ~HasEnd(message[1])
    <3>1. lines' = lines /\ begun'
      BY <2>1, <2>10, Zenon
    <3>2. OpenInHand
      BY <2>2, <2>10 DEF OpenInHand
    <3>3. Lost' = 1
      <4>1. Lost = 0
        BY <3>2
      <4> QED
        BY <2>3, <3>1, <4>1 DEF Lost
    <3>4. NoReplayLeft'
      BY <2>6, <3>2
    <3>5. Lost' \in 0 .. 2
      BY <3>3
    <3> QED
      BY <1>0, <2>5, <2>7, <3>1, <3>3, <3>4, <3>5, Zenon DEF LostInv
  <2> QED
    BY <2>8, <2>9, <2>10
<1>3. CASE ~Take /\ ~WriteMessage
  <2>1. UNCHANGED <<message, sent, lines, begun, openEnd>> /\ (bpc' = "write" => bpc = "write")
    BY <1>3, Zenon DEF BridgeNext, StartMacro, EventsDone, Exhausted, LiveRaises, ReadU, ReadOther,
                       Interrupt, Kill, bridgeVars, lineVars
  <2>2. Lost' = Lost /\ (OpenInHand' <=> OpenInHand)
    BY <2>1, Zenon DEF Lost, OpenInHand, HasEnd
  <2>3. NoReplayLeft => NoReplayLeft'
    <3>1. CASE macros' = macros + 1 /\ stack' = Append(stack, Macro(macros + 1))
      <4>1. PICK m : m = Macro(macros + 1)
        OBVIOUS
      <4>2. m.kind = "macro"
        BY <4>1 DEF Macro
      <4>3. \A i \in 1 .. Len(stack') :
                \/ i \in 1 .. Len(stack) /\ stack'[i] = stack[i]
                \/ stack'[i] = m
        BY <3>1, <4>1 DEF Types
      <4> QED
        BY <4>2, <4>3 DEF NoReplayLeft
    <3>2. CASE /\ stack' \in Seq(Source) /\ Len(stack') <= Len(stack)
               /\ \A i \in 1 .. Len(stack') : stack'[i] = stack[i]
      <4>1. \A i \in 1 .. Len(stack') : i \in 1 .. Len(stack) /\ stack'[i] = stack[i]
        BY <3>2 DEF Types
      <4> QED
        BY <4>1, Zenon DEF NoReplayLeft
    <3> QED
      BY <1>3, <3>1, <3>2, OtherStack, Zenon
  <2> QED
    BY <1>0, <2>1, <2>2, <2>3, Zenon DEF LostInv
<1> QED
  BY <1>1, <1>2, <1>3

\* A missing line end costs the firmware two states at most.
THEOREM OpenEndCost == BridgeSpec => []OpenEndCostsTwo
<1>1. BridgeInit => Types /\ LostInv
  <2>1. BridgeInit => Types
    BY TypesInit
  <2>2. ASSUME BridgeInit PROVE OneReplay
    <3>1. PICK a, b : a = Live /\ b = Replay
      OBVIOUS
    <3>2. a.kind = "live"
      BY <3>1 DEF Live
    <3>3. stack = <<a>> \/ stack = <<b>> \/ stack = <<a, b>>
      BY <2>2, <3>1, Zenon DEF BridgeInit, StartStacks
    <3> QED
      BY <3>2, <3>3 DEF OneReplay
  <2>3. ASSUME BridgeInit
        PROVE  /\ lines \in Seq(Source) /\ Len(message) <= 1 /\ bpc # "write"
               /\ Lost = 0 /\ ~OpenInHand
    BY <2>3 DEF BridgeInit, Lost, OpenInHand
  <2>4. BridgeInit => ~begun
    BY Zenon DEF BridgeInit
  <2>5. 0 \in 0 .. 2 /\ ~(0 > 0) /\ 0 \in {0, 2}
    OBVIOUS
  <2> QED
    BY <2>1, <2>2, <2>3, <2>4, <2>5, Zenon DEF LostInv
<1>2. LostInv /\ Types => OpenEndCostsTwo
  <2>1. ASSUME LostInv, Types PROVE OpenEndCostsTwo
    <3>1. Len(sent) \in Nat /\ Len(lines) \in Nat /\ Lost <= 2
      <4>1. lines \in Seq(Source) /\ Lost \in 0 .. 2
        BY <2>1, Zenon DEF LostInv
      <4> QED
        BY <2>1, <4>1 DEF Types
    <3> QED
      BY <3>1 DEF Lost, OpenEndCostsTwo
  <2> QED
    BY <2>1
<1> QED
  BY <1>1, <1>2, TypesStep, LostStep, PTL DEF BridgeSpec

=============================================================================
