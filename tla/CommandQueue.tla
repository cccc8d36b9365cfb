---------------------------- MODULE CommandQueue ----------------------------
(***************************************************************************)
(* The chat commands of twitch-control.py: handleChat puts the commands of *)
(* a valid message on commandQueue, and every 8.3 ms decreaseQueue takes   *)
(* one of them, or else the next step of a macro, and plays it on          *)
(* controller1.                                                            *)
(*                                                                         *)
(* nextCommands is a stack for the chat and a queue for the macros: the    *)
(* chat command is appended and popped at the end, the next step of a      *)
(* macro is inserted at the front.                                         *)
(*                                                                         *)
(* A command is a sequence of names: one name, or the parts of a           *)
(* combination such as left+a.  How long a command holds its inputs is     *)
(* left out, so that sleft, left and hleft are one command; controller1 is *)
(* a function from its fields to "off" or what they are set to.  A blank   *)
(* in a name is written as an underscore.                                  *)
(***************************************************************************)
EXTENDS Naturals, SequencesExt

CONSTANTS Messages,   \* the chat messages: who sent them, and their commands
          pluslist, modlist,
          MaxChat,    \* bound: messages
          MaxBatch    \* commands a message may hold: 20

\* A command has at least one part, and a message one command: split returns
\* nothing that is empty.
Command == Seq(STRING) \ {<<>>}

ASSUME CommandQueueAssumption ==
    /\ MaxChat \in Nat
    /\ MaxBatch \in Nat
    /\ \A msg \in Messages : msg.commands \in Seq(Command) \ {<<>>}

VARIABLES commandQueue, nextCommands,
          lockon, chatEnabled,
          controller1,   \* the fields of the SwitchController
          shown,         \* the last output sent to the console
          chats,         \* messages handled so far
          stale,         \* history: a message nobody queued switched lockon
          played         \* history: the command played last

queueVars == <<commandQueue, nextCommands, lockon, chatEnabled, controller1,
               shown, chats, stale, played>>

Fields == {"LX", "LY", "RX", "RY", "dpad", "a", "b", "x", "y", "l", "r",
           "zl", "zr", "lstick", "rstick", "minus", "plus", "home"}

\* Where a field can be: a stick or the dpad at one side, a button down.
Values == {"off", "on", "min", "max", "left", "right", "up", "down"}

\* SwitchController.reset
Neutral == [f \in Fields |-> "off"]

-----------------------------------------------------------------------------
\* A table from the set of its rows, each a name and an entry.
Table(rows) ==
    [ n \in {row[1] : row \in rows} |-> (CHOOSE row \in rows : row[1] = n)[2] ]

-----------------------------------------------------------------------------
\* What a command sets.

On(buttons) == { <<n, [f \in {n} |-> "on"]>> : n \in buttons }

StickPress ==
    { <<"left", [LX |-> "min"]>>, <<"right", [LX |-> "max"]>>,
      <<"up", [LY |-> "min"]>>, <<"down", [LY |-> "max"]>> }

LookPress ==
    { <<"dleft", [dpad |-> "left"]>>, <<"dright", [dpad |-> "right"]>>,
      <<"dup", [dpad |-> "up"]>>, <<"ddown", [dpad |-> "down"]>>,
      <<"look_left", [RX |-> "min"]>>, <<"look_right", [RX |-> "max"]>>,
      <<"look_up", [RY |-> "min"]>>, <<"look_down", [RY |-> "max"]>> }

\* "l" and "r" are matched as left and right too.
ButtonPress ==
    On({"a", "b", "x", "y", "lstick", "rstick", "zl", "zr", "minus", "plus", "home"})
    \cup { <<"l", [LX |-> "min", l |-> "on"]>>, <<"r", [LX |-> "max", r |-> "on"]>>,
           <<"hy", [y |-> "on"]>> }

\* Mutant: a field that SwitchController does not have.
MacroPressTypo == { <<"long_jump", [Ly |-> "min"]>> }

MacroPress ==
    { <<"long_jump", [LY |-> "min"]>>,
      <<"long_jump2", [LY |-> "min", zl |-> "on"]>>,
      <<"long_jump3", [LY |-> "min", b |-> "on"]>>,
      <<"long_jump4", [LY |-> "min", b |-> "on", zl |-> "off"]>>,
      <<"jump_forward", [LY |-> "min"]>>,
      <<"jump_forward2", [LY |-> "min", b |-> "on"]>>,
      <<"jump_back", [LY |-> "max"]>>,
      <<"jump_back2", [LY |-> "max", b |-> "on"]>>,
      <<"sdive", [zl |-> "on"]>>,
      <<"sdive2", [y |-> "on"]>>,
      <<"dive", [b |-> "on"]>>,
      <<"dive2", [zl |-> "on"]>>,
      <<"dive3", [y |-> "on"]>>,
      <<"roll", [zl |-> "on"]>>,
      <<"roll2", [y |-> "on"]>>,
      <<"ground_pound", [b |-> "on"]>>,
      <<"ground_pound2", [zl |-> "on"]>>,
      <<"backflip", [zl |-> "on"]>>,
      <<"backflip2", [b |-> "on"]>>,
      <<"cap_bounce", <<>>>>,
      <<"swim", <<>>>>,
      <<"sprint", [LY |-> "min", b |-> "on"]>> }

SpinName == <<"spin", "spin2", "spin3", "spin4", "spin5", "spin6", "spin7", "spin8",
              "spin9", "spin10", "spin11", "spin12", "spin13", "spin14", "spin15",
              "spin16">>

\* The stick goes round twice.
SpinStick == <<<<"off", "min">>, <<"max", "min">>, <<"max", "off">>, <<"off", "max">>,
               <<"min", "max">>, <<"min", "off">>, <<"min", "min">>, <<"off", "min">>>>

SpinPress ==
    { LET at == SpinStick[((i - 1) % 8) + 1]
      IN <<SpinName[i], [LX |-> at[1], LY |-> at[2]]>> : i \in 1 .. 16 }

\* In a combination l and r are the buttons only, and the other parts do
\* nothing: minus and the stick buttons lose their s before they are compared.
ComboPress ==
    Table(StickPress \cup LookPress \cup On({"a", "b", "x", "y", "l", "r", "zl", "zr"}))

SinglePress ==
    Table(StickPress \cup LookPress \cup ButtonPress \cup MacroPress \cup SpinPress)

\* The parts of cmd that set the field f; the last of them stays.
Setting(cmd, f) ==
    {i \in DOMAIN cmd : cmd[i] \in DOMAIN ComboPress /\ f \in DOMAIN ComboPress[cmd[i]]}

Latest(parts) == CHOOSE i \in parts : \A j \in parts : j <= i

\* The fields cmd sets, on top of the fields held.
Apply(cmd, held) ==
    IF Len(cmd) > 1
    THEN [ f \in DOMAIN held |->
             IF Setting(cmd, f) = {} THEN held[f]
             ELSE ComboPress[cmd[Latest(Setting(cmd, f))]][f] ]
    ELSE IF cmd[1] \in DOMAIN SinglePress
    THEN LET press == SinglePress[cmd[1]]
         IN [ f \in DOMAIN held \cup DOMAIN press |->
                IF f \in DOMAIN press THEN press[f] ELSE held[f] ]
    ELSE held

\* Mutant: the last step of spin starts over, as the line commented out did.
SpinStepsAround ==
    [ i \in 1 .. 16 |-> IF i = 16 THEN "spin6" ELSE SpinName[i + 1] ]

SpinSteps == [ i \in 1 .. 15 |-> SpinName[i + 1] ]

\* A step that has one successor.
Follows ==
    { <<"long_jump", "long_jump2">>,
      <<"long_jump2", "long_jump3">>,
      <<"long_jump3", "long_jump4">>,
      <<"jump_forward", "jump_forward2">>,
      <<"jump_back", "jump_forward2">>,
      <<"sdive", "sdive2">>,
      <<"dive", "dive2">>,
      <<"dive2", "dive3">>,
      <<"roll", "roll2">>,
      <<"backflip", "backflip2">>,
      <<"ground_pound", "ground_pound2">> }
    \cup { <<SpinName[i], SpinSteps[i]>> : i \in DOMAIN SpinSteps }

\* The commands inserted at the front of nextCommands, in the order of the
\* calls.
InsertRows ==
    { <<step[1], <<step[2]>>>> : step \in Follows }
    \cup { <<"cap_bounce", <<"b", "y", "sdive", "hy", "y", "sdive">>>>,
           <<"swim", <<"b", "b", "b", "b">>>> }

Inserts == Table(InsertRows)

InsertsOf(cmd) ==
    IF Len(cmd) = 1 /\ cmd[1] \in DOMAIN Inserts
    THEN [ i \in DOMAIN Inserts[cmd[1]] |-> <<Inserts[cmd[1]][i]>> ]
    ELSE <<>>

Bare == {"cap_bounce", "swim"}

\* Mutant: reset = 0 in the last step of a long jump.
ReleasesButOne(cmd, default) == cmd # <<"long_jump4">> /\ (Len(cmd) > 1 \/ InsertsOf(cmd) = <<>>)

\* A step that has a successor holds its inputs, the other known commands
\* release them; a command decreaseQueue does not know, and the two macros
\* that only insert, leave the default.
Releases(cmd, default) ==
    IF Len(cmd) > 1 THEN TRUE
    ELSE IF cmd[1] \in DOMAIN SinglePress \ Bare THEN InsertsOf(cmd) = <<>>
    ELSE default

-----------------------------------------------------------------------------

QueueInit ==
    /\ commandQueue = <<>> /\ nextCommands = <<>>
    /\ lockon = FALSE /\ chatEnabled = TRUE
    /\ controller1 = Neutral /\ shown = Neutral
    /\ chats = 0 /\ stale = FALSE /\ played = <<>>

\* The steps of macros that chat may not name.
Internal == {"long_jump4", "ground_pound2"} \cup (Range(SpinName) \ {"spin"})

IsValid(username, cmd) ==
    /\ Len(cmd) > 1 \/ cmd[1] \in (DOMAIN SinglePress \cup {"lockon"}) \ Internal
    /\ "plus" \in Range(cmd) => username \in pluslist
    /\ "home" \in Range(cmd) => username \in modlist

Toggles(commands) == Cardinality({i \in DOMAIN commands : "lockon" \in Range(commands[i])}) % 2 = 1

\* handleChat: lockon is switched before the message is found valid, and
\* while chat commands are disabled too.
handleChat(username, commands) ==
    /\ chats < MaxChat
    /\ chats' = chats + 1
    /\ lockon' = IF Toggles(commands) THEN ~lockon ELSE lockon
    /\ IF /\ chatEnabled
          /\ Len(commands) <= MaxBatch
          /\ \A i \in DOMAIN commands : IsValid(username, commands[i])
       THEN commandQueue' = commandQueue \o commands /\ UNCHANGED stale
       ELSE stale' = (stale \/ Toggles(commands)) /\ UNCHANGED commandQueue
    /\ UNCHANGED <<nextCommands, chatEnabled, controller1, shown, played>>

\* !disablechat and !enablechat, goto_game and !fixcontrollers
SwitchChat ==
    /\ chats < MaxChat
    /\ chats' = chats + 1
    /\ chatEnabled' = ~chatEnabled
    /\ UNCHANGED <<commandQueue, nextCommands, lockon, controller1, shown, stale, played>>

\* send_and_reset on controller1
SendAndReset(held, reset) ==
    /\ controller1' = IF reset THEN Neutral ELSE held
    /\ shown' = IF reset THEN Neutral ELSE held
    /\ stale' = (stale /\ ~reset)

\* Mutant: the chat command is inserted at the front, like the steps.
TakenBehind ==
    IF commandQueue = <<>> THEN nextCommands ELSE <<Head(commandQueue)>> \o nextCommands

\* What nextCommands holds before its last element is removed.
Taken ==
    IF commandQueue = <<>> THEN nextCommands ELSE Append(nextCommands, Head(commandQueue))

decreaseQueue ==
    /\ commandQueue' = IF commandQueue = <<>> THEN <<>> ELSE Tail(commandQueue)
    /\ LET held == IF lockon THEN [controller1 EXCEPT !.zl = "on"] ELSE controller1
       IN IF Taken = <<>>
          THEN /\ controller1' = held
               /\ UNCHANGED <<nextCommands, shown, stale, played>>
          ELSE LET cmd == Last(Taken)
               IN /\ nextCommands' = Reverse(InsertsOf(cmd)) \o Front(Taken)
                  /\ SendAndReset(Apply(cmd, held), Releases(cmd, ~lockon))
                  /\ played' = cmd
    /\ UNCHANGED <<lockon, chatEnabled, chats>>

QueueNext ==
    \/ \E msg \in Messages : handleChat(msg.username, msg.commands)
    \/ SwitchChat
    \/ decreaseQueue

\* loop calls decreaseQueue for ever.
QueueSpec == QueueInit /\ [][QueueNext]_queueVars /\ WF_queueVars(decreaseQueue)

-----------------------------------------------------------------------------

QueueTypeOK ==
    /\ controller1 \in [Fields -> Values] /\ shown \in [Fields -> Values]
    /\ lockon \in BOOLEAN /\ chatEnabled \in BOOLEAN /\ stale \in BOOLEAN
    /\ chats \in 0 .. MaxChat

\* No button stays down: with nothing left to play and lockon off, the
\* console was last told that every button is up, however chat commands and
\* macros were interleaved (twitch-control.py:1093-1695).  The exception is
\* lockon switched off by a message that was not queued: zl stays down until
\* the next command.
Released ==
    commandQueue = <<>> /\ nextCommands = <<>> /\ ~lockon /\ ~stale =>
        shown = Neutral /\ controller1 = Neutral

\* The chat goes before the macros and keeps its order: the command taken from
\* commandQueue is the one played, whatever steps of macros are waiting
\* (twitch-control.py:1103-1117).
ChatFirst ==
    [][Len(commandQueue') < Len(commandQueue) =>
           played' = Head(commandQueue)]_queueVars

\* Every macro comes to its end: once the chat is silent, both queues run
\* empty (twitch-control.py:1624-1630).
AllPlayed == <>[](commandQueue = <<>> /\ nextCommands = <<>>)

=============================================================================
