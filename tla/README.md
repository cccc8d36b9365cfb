# A TLA+ model of switch-controller

The repository holds two ways to drive a Nintendo Switch from a computer, and
this directory models both:

* **the bridge**: `bridge.py` reads a gamepad (or a file, or a macro), sends
  one state at a time over a serial line, and waits; the firmware `Joystick.c`
  on an AVR puts the state together again and reports it to the console over
  USB, with the device stack of LUFA;
* **the chat script**: `controller/twitch-control.py` lets a Twitch chat play:
  messages become button presses, votes move the console to another game, and
  players relay their own controllers. It talks to a firmware that is not in
  this repository.

Paths below are relative to `src/`.

## Inventory

| part | source | state | operations | module |
|---|---|---|---|---|
| receive buffer | `Joystick.c` 40-47, 57-92 | `buffer`, `buffer_head`, `buffer_tail` | `USART1_RX_vect`; test, read, advance of `Serial_Task` | `SerialRing` |
| line parser | `Joystick.c` 50-94 | `l`, `b`, `HAT2` ... `RY2` | one character | `LineParser` |
| both | `Joystick.c` 43-94 | the two above | a host that streams messages, a line that fails | `SerialTask` |
| USB half of the firmware | `Joystick.c` 97-237, LUFA device core | selected endpoint, banks, address, `USB_DeviceState` | `HID_Task`, `USB_USBTask`, requests, `USB_GEN_vect`, the console | `UsbDevice` |
| encoder | `bridge.py` 74-136, `Joystick.h` | gamepad, characters on the wire | read the gamepad, parse a character | `Encoding`, `Wire` |
| input stack | `bridge.py` 139-424 | stack of sources, record file and its buffer | macro, next, write, read, Ctrl-C, kill | `Bridge` |
| link | `bridge.py` 361-424, `Joystick.c` main loop | messages in flight, unread answers, IN endpoint | every task, the line, the console | `Link` |
| chat queue | `twitch-control.py` 1050-1695 | `commandQueue`, `nextCommands`, `lockon`, `controller1` | `handleChat`, `decreaseQueue` | `CommandQueue` |
| control switches | `twitch-control.py` 205-250, 395-745, 785-1025 | `voting`, `gotoUsed`, counts, `voted`, `chatEnabled`, `controllerEnabled` | votes, `goto_game`, timers, mod commands, relay, exceptions | `Controls` |
| lists and chat connection | `twitchbot.py`, `twitch-control.py` 141-165, 756-760, 809-915, 1699-1747 | `pluslist`, `banlist`, their files, the socket | reads, list commands, `!restartscript`, timed messages, kill, start | `ChatScript` |

`PROJECT.json` lists the remaining parts, with the reason each is not
modelled, and the hazards the properties were chosen from.

## Modules

**SerialRing** (abstract specification: **ByteFifo**). The indices wrap at
`Size` (256 in the code). The interrupt is one atomic step; `Serial_Task`
takes three (`Test`, `Read`, `Advance`), so an interrupt may fall between any
two of its accesses. When the interrupt fills the last place, `head = tail`
and the buffer reads as empty: `ByteFifo` has that as an explicit `Lose`, and
nothing else is ever lost, repeated or reordered.

**LineParser** is the body of the parser's loop, on any character. `b[]` is
kept by half bytes. A digit beyond the end of `b[]` is undefined behaviour in
C: the write may hit the controller state, `l`, or something not modelled.
`oob` records it and the properties stop there.

**SerialTask** puts the two together with a host that sends without waiting
and a line that once, anywhere, loses, changes or invents a byte. An overrun
takes 256 characters out of the stream, and 256 = 17 * 15 + 1: with 15
characters to a message, the line around the gap is one digit short and is
dropped. There are two exceptions. When the first character lost is a line
end, two messages join into a line of 28 digits, which leaves `b[]` (`oob`).
And 15 overruns within one line add up to whole messages, so that the halves
of two messages fit together. The properties exclude the first case by `oob`
and the second by `SpliceFree`, which is stricter than needed: it counts all
overruns so far, not only those within one line. The model keeps the relation
at `Size = 4` and three characters to a message (4 = 3 + 1).

**UsbDevice** is the other half of the main loop, one register access per
step, against the interrupts. Endpoint operations go to the endpoint `UENUM`
selects; the end-of-reset interrupt selects the control endpoint and does not
restore the old choice. The requests of chapter 9 and of the HID class run to
their status stages, with the loops that wait for the console written as loops
(`Endpoint_ClearStatusStage`, `USB_Device_SetAddress`, the streams, which call
`USB_USBTask` while they wait). Descriptors are one packet long; a SetReport
may be shorter than the buffer it is read into, and then the handler waits for
a rest that does not come. The console enumerates, polls, sends reports,
drops transfers, resets, suspends, and gives up on a device that does not
answer. The controller itself is not in the repository; where its behaviour
matters and is not certain (do the report endpoints survive a reset, does a
SETUP flush the banks, do registers take writes while the clock is frozen) the
model has both.

**Encoding**, **Wire**. `Encoding` is the arithmetic (dead zone, `>> 8`, the
table of hat codes, hex digits). `Wire` packs a gamepad state as `bridge.py`
does (`StateMessage`; the sum of shifted bits is written four bits at a time),
sends the 15 characters through `LineParser` at its real size, and reads the
report by the names of `Joystick.h`.

**Bridge** is `InputStack` and the main loop: live input, replay, macros
started at any time on top of each other, recording, Ctrl-C between any two
steps, and a kill. A message is named by the source and the position it came
from. The first state of live input has position 1 and is read by `next(live)`
before the loop, which sends it to nobody. The record file has a buffer that goes to the disk at message
boundaries (the code's buffer is in bytes, so a kill may also cut a message).
The replay file may lack its last line end.

**Link** (abstract specification: **StateStream**) is the whole chain at the
level of messages. A message is applied whole or not at all, which is what
`SerialTask` establishes byte by byte. `HID_Task` is three steps (test, write,
print), so that resets and suspends fall between them; `UsbDevice` has them at
every register access. There are overruns, digits lost on the line, and lost
answers. Left out is a line end that is lost (two messages then form one line,
see `SerialTask`). `StateStream` says what is promised: the state shown only
moves forward among the states written.

**CommandQueue** is the chat queue. A command is a sequence of names (a
combination such as `left+a` has two) and `controller1` a function from its
fields to what they are set to; the tables say what each command presses,
which steps it inserts and whether it releases. A table is the set of its rows,
with a blank in a name written as an underscore. Of the parts of a combination
that set one field, the last one stays. How long a command is held is left
out, so `left`, `hleft` and `sleft` are one command.

**Controls** is the part several threads share without a lock: the main loop,
one timer thread per vote (which goes on into `goto_game`), one timer per
pause, and the socket thread. Reads and the writes that depend on them are
separate steps (`ReadVoting`/`CountVote`, `ReadEnabled`/`RelaySend`,
`EndVote`/`CloseVote`). Telling chat something and capturing the screen may
raise; the thread of a vote then ends where it is (`CloseRaises`,
`GotoRaises`). Time is left out except for one fact: a pause lasts 2 or 8
minutes and ends after `goto_game`, whose sleeps sum to under 2 minutes.

**ChatScript** is the life of the script around its loop. One `recv` may hold
several messages or cut one; the script takes what it got for one message. A
list command changes the list, tells the server, empties the file (`Open`) and
fills it (`Dump`), and a kill may come anywhere; the next start loads the
files, and fails on one that is torn. `emit` may raise after the ban list was
changed: the loop drops the exception, and the file does not get the change
until the next command on that list. An `emit` of the loop itself that raises
ends the script, like a kill. A send on a connection the other side
closed is accepted once and raises the second time.

## Runs

| run | instance | distinct states | what it shows |
|---|---|---|---|
| `serial_task` | buffer of 4, 2 digits, `l` modulo 4, 5 messages, one line failure out of 3 bytes | 555 189 | the buffer implements `ByteFifo`; overruns and failures at every place: but for the two exceptions above, no state mixes two messages, none is applied out of order, one line end recovers, and only what is lost or added makes a line leave `b[]` |
| `usb_device` | 2 disturbances (reset, suspend, dropped transfer, extra request, short report) | 278 784 | every `U` follows a report, reports are whole, answers belong to their requests, and reports flow again after any disturbance |
| `wire` | real sizes, about 100 gamepad states | 91 702 | buttons, hat and sticks arrive as held, and no message leaves `b[]` |
| `bridge` | 3 macros of 3, replay of 3, buffer of 2, 10 messages | 101 608 | macros run to their end, no source skips or repeats a message, the recording is what was sent, a kill costs a buffer, an open-ended replay two states |
| `link` | 4 messages, buffer of 2, 1 fault, 1 reset or suspend | 171 361 | order, flow control, nobody stuck, the last state arrives |
| `command_queue` | 9 kinds of message, 3 messages of up to 2 commands | 35 393 | no button stays down, chat before macros, every macro ends |
| `controls` | 2 voters, 1 mod, 1 plus user, 2 votes, 1 command | 141 600 | one `goto_game`, one vote each, the players' controllers off and `!goto` taken only while somebody will give them back, votes and pauses end, controllers come back |
| `chat_script` | 1 name and a garbled one, 3 messages, 3 kills, server restarts or raising emits | 210 416 | files hold the lists but for the command being written and one an exception cut short, restarts keep them, the connection is lost only for the reason given, a script that lost it ends, the server learns the lists |

Four runs have a counterexample, where the code does not do what its own
text says (`findings` in `PROJECT.json`):

* `ring_overrun_report`: with `buffer_tail = 0`, `buffer_tail - 1` is the int
  -1 and never equals `buffer_head`; that overrun prints no `X`
  (`Joystick.c:44`).
* `bridge_live_ends`: `hatcodes` has 15 entries. All four d-pad directions
  together raise `IndexError` in the generator, `InputStack.__next__` takes it
  for an empty stack, and the bridge ends although live input is on the stack.
* `chat_comes_back`: when `goto_game` does not find the icon it turns
  `controllerEnabled` on again but not `chatEnabled`.
* `controls_off`: a relayed state that passed the check, or a queued chat
  command, is sent to `controller1` while `goto_game` navigates.

Type invariants are checked where they say something the other properties do
not (`UsbTypeOK`, `WireTypeOK`, `QueueTypeOK`) or are part of an inductive
invariant (`ParserInv`, `LinkInv`); the types of `Bridge`, `Controls` and
`ChatScript` that matter are proved inside the theorems below.

### Bounds

Every bound is a constant named in its module.

* `serial_task`: the buffer is one byte longer than whole messages, as 256 is;
  five messages let it overrun three times and still leave a whole message
  behind the last overrun. The failing line may deliver a line end, a
  hex digit or a letter that is none.
* `usb_device`: two disturbances are enough for one to fall into the recovery
  from the other, and for a request to be dropped and another to follow it.
* `bridge`: three macros on a replay are a stack with something above, below
  and between; a buffer of two messages is flushed several times within ten.
* `link`: two messages of buffer and four sent let the host get ahead, overrun
  and recover; the fault, a damaged message or a lost `U`, may hit any of them.
* `command_queue`: three chat messages are enough for one to arrive while a
  macro started by the first is between two steps inserted by the second. The
  messages of `MCCommandQueue` are chosen so that every family of commands
  occurs: sticks, buttons, combinations, nested macros, `spin`, `lockon`, and
  messages that are refused.
* `controls`: two votes are the least that can overlap; one mod command is
  enough to disturb each stage of a vote.
* `chat_script`: three messages let a PING share a read with a command and
  another command follow; a second name comes from commands that run into each
  other. Of three ends one can be an `emit` that raises, one a kill after it and
  one a kill during the restart.
* `wire` has every button and trigger alone and all together, all sixteen
  d-pad states, and stick positions on both sides of the dead zone, of an
  output step and of the range.

### Deadlock

Deadlock is checked except where the program really stops: `Bridge` and
`Link` (the user ends the bridge), `Wire` (the input ends), `SerialTask` (the
stream has an end).

### Fairness

* `Link`: `bridge.py`, the line and the main loop are weakly fair: each runs
  for ever and waits for nothing but what the model shows. The console polls
  and wakes a suspended bus. `Configures` is strongly fair, because it is
  enabled only while the main loop is in `USB_USBTask`; a console that wants
  the device configures it eventually. Faults, resets, suspends and the end of
  the input are not forced.
* `SerialTask`: bytes written arrive, and the main loop calls `Serial_Task`
  again and again.
* `UsbDevice`: the main loop runs, the console attaches a device it has given
  up, and goes on with the transfer it has begun (weakly fair). Waking the bus
  and giving up are strongly fair: both have conditions on where the main loop
  is, which it leaves and comes back to. No disturbance is forced, and no
  optional request.
* `CommandQueue`: `decreaseQueue` is weakly fair; the main loop calls it every
  8.3 ms.
* `Controls`: timers fire, the vote threads go on, `goto_game`,
  `!fixcontrollers` and the counting of a vote come to their end. Nobody is
  forced to type.
* `ChatScript`: the main loop reads what there is, finishes a file it has
  begun, and comes to its timed messages. Nobody has to type, and nobody has
  to start the script again.

## Proofs

TLAPS proves the following for every value of the constants that satisfies
the named assumptions. All the safety properties of the passing runs, the
action properties and the two refinements are among them; each run checks its
property on the small instance above.

The assumptions: sizes are positive and bounds are natural numbers; the voters
are finitely many (`ControlsAssumption`); the characters of the host's stream
and of a failing line are bytes the line can carry (`ByteAssumption`); `b[]`
has the seven bytes it has in `Joystick.c` (`WireAssumption`) and SDL delivers
16-bit positions (`InputsAssumption`); a chat message is at least one command
of at least one part, since Python's `split` never returns an empty list
(`CommandQueueAssumption`). TLC evaluates them in the runs.

| theorem | statement | argument |
|---|---|---|
| `SerialTaskProofs!RingTypeCorrect` | indices stay in the buffer | inductive as it stands |
| `SerialTaskProofs!RingImplementsFifo` | the ring implements `ByteFifo` | the queue is the stretch from tail to head; an interrupt is a `Put` or a `Lose`, `Read` a `Get`, `Test` and `Advance` stutter |
| `SerialTaskProofs!TaskImplementsFifo`, `TaskPadCorrect` | the same inside `SerialTask`, and the parser behind the buffer | every step of the composition is a step of the part or leaves it alone |
| `SerialTaskProofs!TaskInvariance` | where in the host's stream the parser is | see below |
| `SerialTaskProofs!AppliedCorrect`, `InOrderCorrect`, `NoOverflowCorrect` | but for the two exceptions given under `SerialTask`, the controller state is blank or one message, at most one digit wrong, and states are applied in order; `b[]` is not left while the buffer has not overrun and the line has not failed | consequences of `TaskInvariance` |
| `LineParserProofs!ParserInvariance`, `PadCorrect` | the state is the last good line | `ParserInv`: besides `PadIsLastGoodLine`, `b` holds the digits of the current line and zeros behind them, which `\|=` needs |
| `LineParserProofs!OverflowCorrect` | only a line that is too long leaves `b[]` | from `ParserInv`, `l` is the number of digits so far |
| `LinkProofs!LinkInvariance`, `FlowControlled` | the bridge is at most one message ahead | `TurnsCounted` also counts the answers not yet read and the turn the bridge may hold |
| `LinkProofs!PipelineOrdered`, `LinkImplementsStream` | the link implements `StateStream` | `Pipeline`: shown <= endpoint <= state <= buffer <= line <= written |
| `UsbDeviceProofs!UsbInvariance` | what is selected, and what its bank holds, at every statement | one lemma per group of statements; resets and suspends only ever move the selection to the control endpoint or set the marks the invariant allows for |
| `UsbDeviceProofs!UCorrect`, `ReportsCorrect` | no `U` without a report; no part of a report without a suspend | consequences of `UsbInvariance` |
| `UsbDeviceProofs!AnswerInvariance`, `UsbTypeCorrect`, `AnswersCorrect` | all variables stay in their ranges; a console that is left alone gets only its own answers | see below |
| `BridgeProofs!Recorded`, `OnDisk` | the recording is what was sent; the disk lacks at most a buffer | the message in hand is the last one recorded and not yet sent; a flush comes before the buffer overflows |
| `BridgeProofs!InOrder` | no source skips or repeats a message | two invariants: every message sent or in hand is the first of its source or follows its predecessor (`OrderInv`), and no two of them are equal, because none is beyond where its source stands (`OnceInv`) |
| `BridgeProofs!MacrosFinish` | a macro runs to its end | macros are stacked in the order they were started, and only the top of the stack yields |
| `BridgeProofs!OpenEndCost` | a replay without its last line end costs two states | there is one replay on the stack at most and its last line is taken once; the messages that made no line of their own are 0, or 1 while that line is open, or 2 once it was ended |
| `ControlsProofs!OneGoto` | one `goto_game` at a time while no mod switched `!goto` | `GotoInv`: a vote at work holds `voting` until its end and `gotoUsed`, with a running pause, after it; the order of lines 711 and 717 is what hands over from one to the other |
| `ControlsProofs!Owners` | the players' controllers are not off, and `!goto` is not taken, without a thread that will give it back | each switch has its owner among the stages, or an exception or a mod's switch of `!goto` is recorded; the votes not yet started are untouched |
| `ControlsProofs!VotesCounted` | the counts do not exceed those who voted | the two counts are at most the size of `voted` while a vote is open, and an open vote is alone |
| `ChatScriptProofs!FilesCorrect`, `RestartCorrect` | a kill costs one command at most, an exception the changes of one list since its file was written | between `Open` and `Dump` only the list being written differs from its file, and otherwise one whose `emit` raised |
| `ChatScriptProofs!ConnectionCorrect` | why a connection is lost | a PING owed is still unread, or shared its read, or chat hung up |
| `ChatScriptProofs!ReleasedCorrect` | no button stays down | a step that holds its inputs leaves its successor in `nextCommands`, so an empty queue was left by a command that releases |
| `ChatScriptProofs!ChatFirstCorrect` | chat before macros, in order | the command is appended to `nextCommands` and its last element is played |
| `ChatScriptProofs!QueueTypeCorrect` | commands set only fields there are, to places they can be | every row of every table, and every command of the queues is one that can be played |
| `WireProofs!AxisFits`, `AxisMonotone` | every 16-bit stick position gives the right byte, in order | floor division by 256 bounded by its remainder |
| `WireProofs!WireInvariance`, `WireTypeCorrect`, `ButtonsCorrect`, `DirectionsCorrect` | every gamepad state arrives as it was held | see below |

Four of the inductive invariants need a word more.

* `TaskInv`. `AppliedWasSent` says nothing of how the line in `b[]` came about,
  so it is far from inductive. `TaskInv` places the parser in the host's
  stream. While the line has not failed (`Clean`) there is a byte `t` of the
  stream that is parsed next and a number of wipes `g` that lie between it and
  what was written last; the queue is the stretch behind them, and the line
  being received ends at `t` with `j` wipes inside it. Its length is then that
  of a prefix of a message minus `j * Size`, and `SpliceFree` says that this
  shows. After a failure (`Fault`) the stream is the one with the byte `f`
  lost, changed or invented; a line has either the wrong length or one wrong
  digit.
* `UsbInv` and `AnswerInv`. Whether a packet is an answer to the right request
  depends on what the control endpoint held when it was written. `AnswerInv`
  says of each statement whose request main has in hand, and that a SETUP and
  an answer are never on the endpoint together while the console is not upset.
  It needs the types of all registers, which is how `UsbTypeOK` is proved.
* `WireInv`. The line that has been received and the characters on the wire
  make up `StateMessage(gamepad)`; so the line end finds 14 digits, and what
  they say is arithmetic: a bit is where the table puts its button, a byte is
  its two digits.
* `LinkInv` and `ParserInv` are conjunctions of properties stated in their
  modules and are checked by the runs as they stand.

Only model-checked: everything about liveness (`LastStateWins`,
`BridgeNotStuck`, `LastStateSeen`, `ReportsFlow`, `AllPlayed`, `VotesEnd`,
`PausesEnd`, `ControlsComeBack`, `NoDeafScript`, `ListsReachServer`), since the
proof system does not handle fairness and `ENABLED`. The counterexamples of the
four runs that have one are found by TLC.

The proofs are in eight modules. `SerialTaskProofs` holds those of
`SerialRing`, `WireProofs` those of `Encoding`, and `ChatScriptProofs` those of
both halves of the chat script that are not about the switches: `ChatScript`
and `CommandQueue`.

## What the models show about the code, beside the findings

The bridge and the firmware:

* An answer `U` belongs to a report, not to a message. The bridge may go on
  because of a `U` that is older than the message it just wrote. Flow control
  still holds (`FlowControl`), but only as one message per report.
* A lost `U` never hangs the bridge although its read has no timeout, because
  the firmware answers every report, changed or not. Answering only changed
  reports would (this is the mutant of `BridgeNotStuck`).
* An overrun loses messages, and the line end that follows makes the parser
  whole again, with the two exceptions given under `SerialTask`. While the
  buffer never overruns and the line does not fail, `b[]` is never left
  (`NoOverrunNoOverflow`). A digit changed on the line is applied: the length
  is the only test of a line.
* A replay file without its last line end joins its last state and the next
  message into a line of 28 digits. Both are lost, and the parser writes
  outside `b[]`.
* A kill costs a recording at most its buffer; Ctrl-C and the end of the
  input cost it nothing, and leave at most one message that was not sent.
* Until its first message the firmware reports all zeros: d-pad up and both
  sticks in a corner. It also keeps the last state when the bridge ends.

The USB half:

* `Endpoint_ClearStatusStage` ends only with its packet or an unattached bus,
  and the loop of `USB_Device_SetAddress` only with its packet. A SETUP that
  discards the status packet therefore keeps the main loop there until the
  console gives up; `ReportsFlow` holds because it does.
* A reset inside `USB_Device_SetAddress` enables an address afterwards that
  the console no longer uses (`addressHit`).
* With registers that ignore writes while the clock is frozen, a stream may go
  on for ever on the control endpoint (`dead`).
* The last test of `USB_Device_ProcessControlRequest` stalls whatever SETUP is
  waiting, also a valid one that arrived while the previous request was being
  finished. After `ConfigurationChanged` it looks at endpoint 1, which is
  still selected.
* A handler may set `USB_DeviceState` after a suspend has set it, so `U`s may
  be printed while the bus sleeps. SetConfiguration 0 leaves an addressed
  device `Configured`.

The chat script:

* A vote that is counted after its vote closed (`twitch-control.py` 799-805
  against 717-719) leaves its user in `voted`, and the user cannot vote next
  time. `!enablegoto` during a vote allows a second one beside it, and the end
  of a running vote undoes `!disablegoto`; `OneGotoAtATime` and `OneVoteEach`
  are therefore stated for runs without these two commands.
* An exception in `end_goto_vote` leaves `!goto` taken, one in `goto_game`
  leaves chat and the players' controllers off. `OffHasOwner` shows that nothing
  else does, but for `!disablegoto` and, for chat, the finding above.
* `lockon` is switched before a message is found valid, so that a refused
  message changes what `ZL` does. `Released` allows for it (`stale`).
* Steps are inserted at the front of `nextCommands` and taken from its end, so
  the second half of an `sdive` inside `cap bounce` waits for all the steps
  that are left: `hy` is played before `sdive2`, against the comment at line
  1426; `jump back` goes on with `jump forward2` (line 1417).
* An `emit` that raises in `!ban` or `!unban` leaves a ban that holds until the
  script ends and is gone after the next start, unless another command on the
  list comes before (`unsaved`).
* A kill between opening a list file and filling it leaves a file that every
  later start fails on, until somebody removes it. `!removeplus` removes one of
  several equal entries.
* Messages that share a read are dropped, PINGs included; a first command
  written with a comma acts on a name made of all that follows. A lost
  connection is never opened again: the script is deaf until its second
  message of every 5 minutes raises and ends it (`NoDeafScript`).

## Not modelled

* The rest of LUFA: host mode, other processors, class and board drivers,
  demos, projects and bootloaders. It is a vendored library of which this
  firmware compiles the device core for one AVR; that part is in `UsbDevice`.
  Most lines of C in the repository belong to the rest, have no part in the
  program and would be modelled without anything in `src/` that uses them.
* Descriptors and build configuration: constant tables.
* `getOutput` of `SwitchController` run by two threads at once: there is no
  lock, every mix of the two states can be sent, and no text in the repository
  promises otherwise, so there is nothing to state.
* Times: how long a command is held, 8.3 ms, baud rates.
* The text of chat messages, image search, SDL, sockets, vJoy, the proxy.
* The smaller scripts (relays, TAS recorder and players, keyboard control, the
  Wii U and 3DS script): single loops of input and output for a firmware that
  is not here, or reduced copies of what `ChatScript` and `Controls` model.
