------------------------------- MODULE Bridge -------------------------------
(***************************************************************************)
(* bridge.py: the stack of input sources (class InputStack) and the main   *)
(* loop that sends one state message at a time and waits for the firmware  *)
(* to answer U before it takes the next one.                               *)
(*                                                                         *)
(* A source is the live controller, a replay file or a run of              *)
(* example_macro; it is a record of its kind, its number among the macros  *)
(* started, and how many messages it has yielded.  A message is the source *)
(* as it was when it yielded it.                                           *)
(*                                                                         *)
(* The record file is buffered: its buffer goes to the disk when the next  *)
(* message does not fit, and when the file is closed.  The last line of a  *)
(* replay file may lack its line end; the firmware then takes it and the   *)
(* next message for one line, and drops it.                                *)
(***************************************************************************)
EXTENDS Integers, Sequences

CONSTANTS ReplayLen,   \* lines of the replay file; a missing file has none
          MacroLen,    \* messages of example_macro
          BufLen,      \* messages that fit the buffer of the record file
          MaxMacros,   \* bound: macros started
          MaxSent      \* bound: messages taken from the stack

ASSUME BridgeAssumption ==
    /\ ReplayLen \in Nat
    /\ MacroLen \in Nat \ {0}
    /\ BufLen \in Nat \ {0}
    /\ MaxMacros \in Nat
    /\ MaxSent \in Nat

VARIABLES bpc,         \* where the main loop is
          stack,       \* InputStack.l
          recording,   \* whether --record was given
          record,      \* the messages written to recordfile
          disk,        \* how many of them are on the disk
          openEnd,     \* the last line of the replay file has no line end
          message,     \* the message to be written, as a sequence of 0 or 1
          sent,        \* history: the messages written to the serial port
          begun,       \* the line has the beginning of a message without its end
          lines,       \* history: the messages that make a line of their own
          macros,      \* how many macros were started
          ended        \* why the main loop ended: "no", "input", "interrupt", "killed"

recordVars == <<recording, record, disk>>
lineVars == <<sent, begun, lines>>
bridgeVars == <<bpc, stack, recordVars, openEnd, message, lineVars, macros, ended>>

\* next(live) has read the first state of live input, which nobody sends.
Live == [kind |-> "live", id |-> 0, pos |-> 1]
Replay == [kind |-> "replay", id |-> 0, pos |-> 0]
Macro(i) == [kind |-> "macro", id |-> i, pos |-> 0]

\* Mutant: a macro ends one message early
HasMoreShort(src) ==
    \/ src.kind = "live"
    \/ src.kind = "replay" /\ src.pos < ReplayLen
    \/ src.kind = "macro" /\ src.pos < MacroLen - 1

HasMore(src) ==
    \/ src.kind = "live"
    \/ src.kind = "replay" /\ src.pos < ReplayLen
    \/ src.kind = "macro" /\ src.pos < MacroLen

\* The stack as --playback and --dontexit set it up.  If next(live) raises, the
\* program ends before its loop.
StartStacks == {<<Live>>, <<Replay>>, <<Live, Replay>>}

BridgeInit ==
    /\ bpc = "events"
    /\ stack \in StartStacks
    /\ recording \in BOOLEAN
    /\ record = <<>> /\ disk = 0
    /\ openEnd \in BOOLEAN
    /\ message = <<>>
    /\ sent = <<>> /\ begun = FALSE /\ lines = <<>>
    /\ macros = 0
    /\ ended = "no"

\* sdl2.ext.get_events(): button 11 went down, once or several times.
StartMacro ==
    /\ bpc = "events"
    /\ macros < MaxMacros
    /\ macros' = macros + 1
    /\ stack' = Append(stack, Macro(macros + 1))
    /\ UNCHANGED <<bpc, recordVars, openEnd, message, lineVars, ended>>

EventsDone ==
    /\ bpc = "events"
    /\ bpc' = "next"
    /\ UNCHANGED <<stack, recordVars, openEnd, message, lineVars, macros, ended>>

\* The first source that __next__ does not pop as exhausted.
Top(i) == HasMore(stack[i]) /\ \A j \in DOMAIN stack : HasMore(stack[j]) => j <= i

\* Mutant: the file is written without a buffer that is ever emptied.
SaveInMemory(src) ==
    /\ record' = IF recording THEN Append(record, src) ELSE record
    /\ UNCHANGED disk

\* recordfile.write(message)
Save(src) ==
    /\ record' = IF recording THEN Append(record, src) ELSE record
    /\ disk' = IF Len(record) - disk = BufLen THEN Len(record) ELSE disk

\* Mutants: macro messages are not recorded; a source below an exhausted one
\* yields its message without moving on
TakeNoMacroRecord ==
    /\ bpc = "next"
    /\ Len(sent) < MaxSent
    /\ \E top \in DOMAIN stack :
       LET src == [stack[top] EXCEPT !.pos = @ + 1]
       IN /\ Top(top)
          /\ stack' = Append(SubSeq(stack, 1, top - 1), src)
          /\ message' = <<src>>
          /\ IF src.kind = "macro" THEN UNCHANGED <<record, disk>> ELSE Save(src)
    /\ bpc' = "write"
    /\ UNCHANGED <<recording, openEnd, lineVars, macros, ended>>

TakeRepeats ==
    /\ bpc = "next"
    /\ Len(sent) < MaxSent
    /\ \E top \in DOMAIN stack :
       LET src == [stack[top] EXCEPT !.pos = @ + 1]
       IN /\ Top(top)
          /\ stack' = Append(SubSeq(stack, 1, top - 1),
                             IF top < Len(stack) THEN stack[top] ELSE src)
          /\ message' = <<src>>
          /\ Save(src)
    /\ bpc' = "write"
    /\ UNCHANGED <<recording, openEnd, lineVars, macros, ended>>

\* InputStack.__next__ pops the exhausted sources at the top and takes a
\* message from the first one that has more.
Take ==
    /\ bpc = "next"
    /\ Len(sent) < MaxSent
    /\ \E top \in DOMAIN stack :
       LET src == [stack[top] EXCEPT !.pos = @ + 1]
       IN /\ Top(top)
          /\ stack' = Append(SubSeq(stack, 1, top - 1), src)
          /\ message' = <<src>>
          /\ Save(src)
    /\ bpc' = "write"
    /\ UNCHANGED <<recording, openEnd, lineVars, macros, ended>>

\* InputStack.__exit__: the record file is closed.
Close == disk' = Len(record) /\ UNCHANGED <<recording, record>>

\* Every source is exhausted: l[-1] raises IndexError, which __next__ turns
\* into StopIteration, and the main loop ends.
Exhausted ==
    /\ bpc = "next"
    /\ \A i \in DOMAIN stack : ~HasMore(stack[i])
    /\ stack' = <<>>
    /\ bpc' = "done"
    /\ ended' = "input"
    /\ Close
    /\ UNCHANGED <<openEnd, message, lineVars, macros>>

\* All four directions of the d-pad are down: hatcodes[15] raises IndexError
\* in controller_states, and __next__ turns that into StopIteration as well.
LiveRaises ==
    /\ bpc = "next"
    /\ \E top \in DOMAIN stack :
           /\ Top(top) /\ stack[top].kind = "live"
           /\ stack' = SubSeq(stack, 1, top)
    /\ bpc' = "done"
    /\ ended' = "input"
    /\ Close
    /\ UNCHANGED <<openEnd, message, lineVars, macros>>

\* Mutant: the lines of a replay file are split off their line ends.
HasEndLive(m) == m.kind # "replay"

HasEnd(m) == ~(openEnd /\ m.kind = "replay" /\ m.pos = ReplayLen)

\* ser.write(message)
WriteMessage ==
    /\ bpc = "write"
    /\ sent' = sent \o message
    /\ begun' = ~HasEnd(message[1])
    /\ lines' = IF HasEnd(message[1]) /\ ~begun THEN lines \o message ELSE lines
    /\ message' = <<>>
    /\ bpc' = "wait"
    /\ UNCHANGED <<stack, recordVars, openEnd, macros, ended>>

\* The inner loop: U ends it, X and anything else does not.
ReadU ==
    /\ bpc = "wait"
    /\ bpc' = "events"
    /\ UNCHANGED <<stack, recordVars, openEnd, message, lineVars, macros, ended>>

ReadOther ==
    /\ bpc = "wait"
    /\ UNCHANGED bridgeVars

\* Ctrl-C, or an exception of the serial port; recordfile is closed on the way
\* out.
Interrupt ==
    /\ bpc # "done"
    /\ bpc' = "done"
    /\ ended' = "interrupt"
    /\ Close
    /\ UNCHANGED <<stack, openEnd, message, lineVars, macros>>

\* The process is killed: what is in the buffer is lost.
Kill ==
    /\ bpc # "done"
    /\ bpc' = "done"
    /\ ended' = "killed"
    /\ UNCHANGED <<stack, recordVars, openEnd, message, lineVars, macros>>

BridgeNext ==
    \/ StartMacro \/ EventsDone
    \/ Take \/ Exhausted \/ LiveRaises
    \/ WriteMessage
    \/ ReadU \/ ReadOther
    \/ Interrupt \/ Kill

BridgeSpec == BridgeInit /\ [][BridgeNext]_bridgeVars

-----------------------------------------------------------------------------

\* A recording is what was sent, in order, and at most one message longer:
\* __next__ writes the file before main writes the port (bridge.py:319, 407),
\* so an interrupt between the two leaves a message nobody was sent.
RecordMatchesSent ==
    recording =>
        /\ Len(record) \in Len(sent) .. Len(sent) + 1
        /\ SubSeq(record, 1, Len(sent)) = sent

\* The file on the disk lacks at most a buffer of what was recorded, and nothing
\* once bridge.py has ended by itself or by Ctrl-C: the with statement closes
\* the file on every way out but a kill (bridge.py:286-291).
RecordOnDisk ==
    /\ recording => Len(record) - disk <= BufLen
    /\ ended \in {"input", "interrupt"} => disk = Len(record)

\* A replay file without its last line end costs two states at most, its last
\* and the one that is sent next, whichever source that comes from; every
\* other message is a line of its own for the firmware (bridge.py:142, 407).
OpenEndCostsTwo == Len(sent) <= Len(lines) + 2

\* a lies below b on the stack when b is started.
Below(a, b) == b.kind = "macro" /\ (a.kind # "macro" \/ a.id < b.id)

\* A macro is played to its end: once it has begun, nothing from a source
\* below it is sent before its last message, however many macros are started
\* on top of it and whenever (bridge.py:314-326, 386).
MacroRunsToEnd ==
    \A i, j \in DOMAIN sent :
        (i < j /\ Below(sent[j], sent[i])) =>
            \E h \in i .. j : sent[h].id = sent[i].id /\ sent[h].pos = MacroLen

\* The position of the first message of a source that is sent.
First(m) == IF m.kind = "live" THEN 2 ELSE 1

\* No source skips or repeats a message, whatever is started on top of it: no
\* message is sent twice, and each one is the first of its source or follows the
\* one its source yielded before it (bridge.py:314-326, 368).
SourcesInOrder ==
    /\ \A i, j \in DOMAIN sent : sent[i] = sent[j] => i = j
    /\ \A j \in DOMAIN sent :
           \/ sent[j].pos = First(sent[j])
           \/ \E i \in 1 .. j - 1 : sent[i] = [sent[j] EXCEPT !.pos = @ - 1]

\* bridge.py:338 says of --dontexit "Switch to live input when playback
\* finishes, instead of exiting": with live input at the bottom of the stack
\* only the user ends the loop.
LiveKeepsRunning ==
    ended = "input" => ~\E i \in DOMAIN stack : stack[i].kind = "live"

=============================================================================
