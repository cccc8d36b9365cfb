-------------------------- MODULE ChatScriptProofs --------------------------
(***************************************************************************)
(* The chat script, twitch-control.py: what a kill can cost, what a start  *)
(* brings back, and why chat gives up on the script; then its queues: what *)
(* is played when, and that no button stays down.  For any number of       *)
(* names, messages, commands, kills and starts.                            *)
(***************************************************************************)
EXTENDS ChatScript, CommandQueue, SequenceTheorems, WellFoundedInduction, TLAPS

\* The part of the type invariant that the proofs need.
FileTypes ==
    /\ file \in [Lists -> {"absent", "torn", "whole"}]
    /\ DOMAIN saved = Lists /\ DOMAIN list = Lists
    /\ of \in Lists

\* Between Open and Dump the file is torn, so that no start succeeds then.
FilesInv ==
    /\ FileTypes
    /\ FilesHoldLists
    /\ step = "dump" => file[of] = "torn"

\* A handler sets out to write a list only when all the files hold theirs.
LEMMA DoListStep ==
    ASSUME FilesInv, InLoop, NEW m, ListOf(m) \in Lists, DoList(m)
    PROVE  FilesInv'
<1>1. \A l \in Lists : Holds(l) \/ l \in unsaved
  BY DEF FilesInv, FilesHoldLists, InLoop
<1>2. /\ list' = [list EXCEPT ![ListOf(m)] = Changed(m)]
      /\ of' = ListOf(m) /\ step' = "open" /\ UNCHANGED <<file, saved, unsaved>>
  BY DEF DoList, fileVars
<1>3. FileTypes'
  BY <1>2 DEF FilesInv, FileTypes
<1>4. ASSUME NEW l \in Lists
      PROVE  (Holds(l) \/ (l = of /\ step \in {"open", "dump"}) \/ l \in unsaved)'
  <2>1. CASE l = ListOf(m)
    BY <2>1, <1>2
  <2>2. CASE l # ListOf(m)
    <3>1. list'[l] = list[l]
      BY <2>2, <1>2, SMTT(30) DEF FilesInv, FileTypes
    <3> QED
      BY <3>1, <1>1, <1>2 DEF Holds
  <2> QED
    BY <2>1, <2>2
<1> QED
  BY <1>2, <1>3, <1>4 DEF FilesInv, FilesHoldLists

\* An emit that raises leaves a list that its file does not hold.
LEMMA EmitRaisesStep ==
    ASSUME FilesInv, NEW m, EmitRaises(m)
    PROVE  FilesInv'
<1>1. /\ list' = [list EXCEPT !["ban"] = Changed(m)] /\ unsaved' = unsaved \cup {"ban"}
      /\ UNCHANGED <<of, step, file, saved>>
  BY DEF EmitRaises, mainVars
<1>2. FileTypes'
  BY <1>1 DEF FilesInv, FileTypes
<1>3. ASSUME NEW l \in Lists
      PROVE  (Holds(l) \/ (l = of /\ step \in {"open", "dump"}) \/ l \in unsaved)'
  <2>1. CASE l = "ban"
    BY <1>1, <2>1
  <2>2. CASE l # "ban"
    <3>1. list'[l] = list[l]
      BY <1>1, <2>2 DEF FilesInv, FileTypes
    <3> QED
      BY <1>1, <3>1 DEF FilesInv, FilesHoldLists, Holds
  <2> QED
    BY <2>1, <2>2
<1> QED
  BY <1>1, <1>2, <1>3 DEF FilesInv, FilesHoldLists

\* One step per action: the file being written is torn until it is whole.
LEMMA FilesStep ==
    ASSUME FilesInv, [ScriptNext]_scriptVars
    PROVE  FilesInv'
<1>1. CASE Start
  <2>1. CASE \E l \in Lists : file[l] = "torn"
    BY <1>1, <2>1 DEF Start, FilesInv, FileTypes, FilesHoldLists, Holds, fileVars, mainVars
  <2>2. CASE ~\E l \in Lists : file[l] = "torn"
    <3>1. /\ list' = [l \in Lists |-> IF file[l] = "whole" THEN saved[l] ELSE <<>>]
          /\ step' = "loop" /\ UNCHANGED <<of, file, saved>>
      BY <1>1, <2>2 DEF Start, fileVars
    <3>2. \A l \in Lists : file[l] = "whole" \/ file[l] = "absent"
      BY <2>2 DEF FilesInv, FileTypes
    <3> QED
      BY <3>1, <3>2 DEF FilesInv, FileTypes, FilesHoldLists, Holds
  <2> QED
    BY <2>1, <2>2
<1>2. CASE HandleList
  <2>1. ListOf(Head(inbox)) \in Lists
    BY DEF ListOf, Lists
  <2> QED
    BY <1>2, <2>1, DoListStep, EmitRaisesStep DEF HandleList
<1>3. ASSUME NEW n, NEW cut, HandleGarbled(n, cut) PROVE FilesInv'
  <2>1. PICK m : m = [Head(inbox) EXCEPT !.name = Garbled]
    BY Zenon
  <2>2. ListOf(m) \in Lists
    BY DEF ListOf, Lists
  <2> QED
    BY <1>3, <2>1, <2>2, DoListStep, EmitRaisesStep DEF HandleGarbled, TakeMany
<1>4. CASE HandleRestart
  <2>1. \A l \in Lists : Holds(l) \/ l \in unsaved
    BY <1>4 DEF HandleRestart, FilesInv, FilesHoldLists, InLoop
  <2> QED
    BY <1>4, <2>1 DEF HandleRestart, FilesInv, FileTypes, FilesHoldLists, Holds, fileVars, Lists
<1>5. CASE Open
  <2>1. /\ step = "open" /\ step' = "dump" /\ file' = [file EXCEPT ![of] = "torn"]
        /\ UNCHANGED <<list, of, saved, unsaved>>
    BY <1>5 DEF Open
  <2>2. file'[of] = "torn" /\ \A l \in Lists : l # of => file'[l] = file[l]
    BY <2>1 DEF FilesInv, FileTypes
  <2>3. FileTypes'
    BY <2>1 DEF FilesInv, FileTypes
  <2> QED
    BY <2>1, <2>2, <2>3 DEF FilesInv, FilesHoldLists, Holds
<1>6. CASE Dump
  <2>1. /\ step = "dump" /\ step' # "dump" /\ file' = [file EXCEPT ![of] = "whole"]
        /\ saved' = [saved EXCEPT ![of] = list[of]] /\ unsaved' = unsaved \ {of}
        /\ UNCHANGED <<list, of>>
    BY <1>6 DEF Dump
  <2>2. /\ file'[of] = "whole" /\ saved'[of] = list[of]
        /\ \A l \in Lists : l # of => file'[l] = file[l] /\ saved'[l] = saved[l]
    BY <2>1 DEF FilesInv, FileTypes
  <2>3. FileTypes'
    BY <2>1 DEF FilesInv, FileTypes
  <2> QED
    BY <2>1, <2>2, <2>3 DEF FilesInv, FilesHoldLists, Holds
<1>7. CASE UNCHANGED <<list, step, of, file, saved, unsaved>>
  BY <1>7 DEF FilesInv, FileTypes, FilesHoldLists, Holds
<1> QED
  BY <1>1, <1>2, <1>3, <1>4, <1>5, <1>6, <1>7, Zenon
  DEF ScriptNext, Kill, ChatSends, ChatTimesOut, ChatHangsUp, Read, ReadPing, ReadIgnored,
      ReadMany, ReadEnd, Taskkill, SixSeconds, FiveMinutes, ServerRestarts, scriptVars, mainVars, fileVars

\* A first start finds no file, or the whole file of an empty list.
LEMMA FilesStart == ScriptInit => FilesInv
BY DEF ScriptInit, FilesInv, FileTypes, FilesHoldLists, Holds, Lists

\* A file differs from its list only while it is being written, or since an
\* emit raised before it was (twitch-control.py:814-853, 1746).
THEOREM FilesCorrect == ScriptSpec => []FilesHoldLists
<1>1. FilesInv => FilesHoldLists
  BY DEF FilesInv
<1> QED
  BY <1>1, FilesStart, FilesStep, PTL DEF ScriptSpec

\* A start brings back every list but the one whose change was not written.
THEOREM RestartCorrect == ScriptSpec => RestartKeeps
<1> DEFINE Keeps == status # "up" /\ status' = "up" =>
                        \A l \in Lists : \/ list'[l] = list[l]
                                         \/ l = of /\ step = "open"
                                         \/ l \in unsaved
<1>1. FilesInv /\ [ScriptNext]_scriptVars => Keeps
  <2> SUFFICES ASSUME FilesInv, [ScriptNext]_scriptVars, status # "up", status' = "up",
                      NEW l \in Lists
               PROVE  list'[l] = list[l] \/ (l = of /\ step = "open") \/ l \in unsaved
    BY SMTT(30)
  <2>1. Start
    BY Zenon DEF ScriptNext, Kill, ChatSends, ChatTimesOut, ChatHangsUp, Read, ReadPing, ReadIgnored,
           HandleList, HandleGarbled, TakeMany, HandleRestart, ReadMany, ReadEnd, Open, Dump,
           Taskkill, SixSeconds, FiveMinutes, ServerRestarts, InLoop, scriptVars
  <2>2. /\ \A k \in Lists : file[k] # "torn"
        /\ list' = [k \in Lists |-> IF file[k] = "whole" THEN saved[k] ELSE <<>>]
    BY <2>1 DEF Start
  <2>3. step # "dump"
    BY <2>2 DEF FilesInv, FileTypes
  <2> QED
    BY <2>2, <2>3 DEF FilesInv, FilesHoldLists, Holds
<1>2. FilesInv /\ [ScriptNext]_scriptVars => [Keeps]_scriptVars
  BY <1>1
<1> QED
  BY <1>2, FilesStart, FilesStep, PTL DEF ScriptSpec, RestartKeeps

-----------------------------------------------------------------------------
\* The connection.

Waiting == \E i \in DOMAIN inbox : inbox[i].do = "ping"

\* While chat is open and waits for its PONG, the PING is still to be read, or
\* it shared its read.
PingInv ==
    /\ inbox \in Seq(ChatMessages)
    /\ StaysConnected
    /\ status = "up" /\ conn = "open" /\ due => merged \/ Waiting

\* Reading one message that is not the PING leaves the PING where it is.
LEMMA TailWaits ==
    ASSUME inbox \in Seq(ChatMessages), inbox # <<>>, inbox' = Tail(inbox),
           Head(inbox).do # "ping", Waiting
    PROVE  Waiting'
<1>1. PICK i \in 1 .. Len(inbox) : inbox[i].do = "ping"
  BY DEF Waiting
<1>2. i # 1
  BY <1>1
<1>3. PICK j : j = i - 1
  OBVIOUS
<1>4. j \in DOMAIN inbox' /\ inbox'[j] = inbox[i]
  BY <1>2, <1>3
<1> QED
  BY <1>1, <1>4, Zenon DEF Waiting

\* A PING that shares its read with other messages is remembered in merged.
LEMMA ManyWaits ==
    ASSUME inbox \in Seq(ChatMessages), NEW n, NEW cut, TakeMany(n, cut), Waiting
    PROVE  merged' \/ Waiting'
<1>1. PICK i \in 1 .. Len(inbox) : inbox[i].do = "ping"
  BY DEF Waiting
<1>2. n \in 2 .. Len(inbox)
  BY DEF TakeMany
<1>3. CASE i <= n
  <2>1. i \in 1 .. n
    BY <1>2, <1>3
  <2> QED
    BY <1>1, <2>1, Zenon DEF TakeMany
<1>4. CASE i > n
  <2>1. PICK t : t = SubSeq(inbox, n + 1, Len(inbox))
    BY Zenon
  <2>2. /\ t \in Seq(ChatMessages) /\ i - n \in 1 .. Len(t) /\ t[i - n] = inbox[i]
    BY <1>2, <1>4, <2>1
  <2>3. CASE cut
    <3>1. inbox' = <<Rest>> \o t
      BY <2>1, <2>3, SMTT(30) DEF TakeMany
    <3>2. i - n + 1 \in 1 .. Len(inbox') /\ inbox'[i - n + 1] = t[i - n]
      BY <2>2, <3>1, <1>2
    <3> QED
      BY <1>1, <2>2, <3>2 DEF Waiting
  <2>4. CASE ~cut
    <3>1. inbox' = <<>> \o t
      BY <2>1, <2>4 DEF TakeMany
    <3>2. inbox' = t
      BY <2>2, <3>1, SMTT(30)
    <3> QED
      BY <1>1, <2>2, <3>2 DEF Waiting
  <2> QED
    BY <2>3, <2>4
<1> QED
  BY <1>2, <1>3, <1>4

\* The socket holds messages of chat.
LEMMA InboxStep ==
    ASSUME inbox \in Seq(ChatMessages), [ScriptNext]_scriptVars
    PROVE  inbox' \in Seq(ChatMessages)
<1>1. ASSUME NEW m \in Commands \cup Others, ChatSends(m) PROVE inbox' \in Seq(ChatMessages)
  BY <1>1 DEF ChatSends, ChatMessages
<1>2. ASSUME NEW n, NEW cut, TakeMany(n, cut) PROVE inbox' \in Seq(ChatMessages)
  <2>1. n \in 2 .. Len(inbox)
    BY <1>2 DEF TakeMany
  <2>2. PICK t : t = SubSeq(inbox, n + 1, Len(inbox))
    BY Zenon
  <2>3. t \in Seq(ChatMessages)
    BY <2>1, <2>2, SubSeqProperties
  <2>4. <<Rest>> \in Seq(ChatMessages) /\ <<>> \in Seq(ChatMessages)
    BY DEF ChatMessages
  <2>5. inbox' = <<Rest>> \o t \/ inbox' = <<>> \o t
    BY <1>2, <2>2, Zenon DEF TakeMany
  <2>6. <<Rest>> \o t \in Seq(ChatMessages) /\ <<>> \o t \in Seq(ChatMessages)
    BY <2>3, <2>4, ConcatProperties
  <2> QED
    BY <2>5, <2>6, Zenon
<1>3. CASE inbox' = <<>> \/ inbox' = inbox
  <2>1. <<>> \in Seq(ChatMessages)
    OBVIOUS
  <2> QED
    BY <1>3, <2>1, Zenon
<1>4. CASE inbox # <<>> /\ inbox' = Tail(inbox)
  BY <1>4
<1> QED
  BY <1>1, <1>2, <1>3, <1>4, Zenon
  DEF ScriptNext, Start, Kill, ChatTimesOut, ChatHangsUp, Read, ReadPing, ReadIgnored,
      HandleList, HandleGarbled, HandleRestart, ReadMany, ReadEnd, Open, Dump, Taskkill, SixSeconds,
      FiveMinutes, ServerRestarts, scriptVars, chatVars

\* One message that is not the PING has been read.
LEMMA OtherRead ==
    ASSUME PingInv, inbox # <<>>, inbox' = Tail(inbox), Head(inbox).do # "ping",
           UNCHANGED <<status, due, merged, hungUp>>, conn' \in {conn, AfterSend},
           inbox' \in Seq(ChatMessages)
    PROVE  PingInv'
<1>1. conn' = "open" <=> conn = "open"
  BY DEF AfterSend
<1>2. StaysConnected'
  BY <1>1 DEF PingInv, StaysConnected
<1>3. Waiting => Waiting'
  BY TailWaits, SMTT(30) DEF PingInv
<1> QED
  BY <1>1, <1>2, <1>3 DEF PingInv

\* One step per action: an unanswered PING is waiting, or shared its read.
LEMMA PingStep ==
    ASSUME PingInv, [ScriptNext]_scriptVars
    PROVE  PingInv'
<1>0. inbox' \in Seq(ChatMessages)
  BY InboxStep DEF PingInv
<1>1. CASE Start
  BY <1>0, <1>1 DEF Start, PingInv, StaysConnected, Waiting, chatVars
<1>2. ASSUME NEW m \in Commands \cup Others, ChatSends(m) PROVE PingInv'
  <2>1. /\ inbox' = Append(inbox, m) /\ due' = (due \/ m.do = "ping")
        /\ UNCHANGED <<status, conn, merged, hungUp>>
    BY <1>2 DEF ChatSends
  <2>2. StaysConnected'
    BY <2>1 DEF PingInv, StaysConnected
  <2>3. Waiting \/ m.do = "ping" => Waiting'
    <3>1. /\ Len(inbox') = Len(inbox) + 1 /\ inbox'[Len(inbox) + 1] = m
          /\ \A i \in 1 .. Len(inbox) : inbox'[i] = inbox[i]
          /\ DOMAIN inbox = 1 .. Len(inbox) /\ DOMAIN inbox' = 1 .. Len(inbox')
          /\ Len(inbox) \in Nat
      BY <2>1 DEF PingInv
    <3>2. m.do = "ping" => Waiting'
      BY <3>1 DEF Waiting
    <3>3. Waiting => Waiting'
      BY <3>1 DEF Waiting
    <3> QED
      BY <3>2, <3>3
  <2> QED
    BY <1>0, <2>1, <2>2, <2>3, Zenon DEF PingInv
<1>3. CASE ChatTimesOut
  BY <1>0, <1>3 DEF ChatTimesOut, PingInv, StaysConnected, Waiting
<1>4. CASE ChatHangsUp
  BY <1>0, <1>4 DEF ChatHangsUp, PingInv, StaysConnected
<1>5. CASE ReadPing
  BY <1>0, <1>5, Zenon DEF ReadPing, AfterSend, InLoop, PingInv, StaysConnected
<1>6. CASE ReadIgnored
  <2>1. Head(inbox).do # "ping"
    BY <1>6, SMTT(30) DEF ReadIgnored, Ignored
  <2> QED
    BY <1>0, <1>6, <2>1, OtherRead, SMTT(30) DEF ReadIgnored
<1>7. CASE HandleList \/ HandleRestart
  <2>1. Head(inbox).do # "ping"
    BY <1>7 DEF HandleList, HandleRestart, Commands
  <2> QED
    BY <1>0, <1>7, <2>1, OtherRead, SMTT(30) DEF HandleList, DoList, EmitRaises, HandleRestart
<1>8. ASSUME NEW n, NEW cut, ReadMany(n, cut) \/ HandleGarbled(n, cut) PROVE PingInv'
  <2>1. /\ TakeMany(n, cut) /\ UNCHANGED <<status, due, hungUp>>
        /\ conn' \in {conn, AfterSend}
    BY <1>8 DEF ReadMany, HandleGarbled, DoList, EmitRaises
  <2>2. conn' = "open" <=> conn = "open"
    BY <2>1 DEF AfterSend
  <2>3. merged => merged'
    BY <2>1, Zenon DEF TakeMany
  <2>4. Waiting => merged' \/ Waiting'
    BY <2>1, ManyWaits DEF PingInv
  <2>5. StaysConnected'
    BY <2>1, <2>2, <2>3, SMTT(30) DEF PingInv, StaysConnected
  <2> QED
    BY <1>0, <2>1, <2>2, <2>3, <2>4, <2>5, SMTT(30) DEF PingInv
<1>9. CASE FiveMinutes
  BY <1>0, <1>9 DEF FiveMinutes, AfterSend, InLoop, PingInv, StaysConnected, Waiting
<1>10. CASE Kill \/ Taskkill
  BY <1>0, <1>10 DEF Kill, Taskkill, PingInv, StaysConnected
<1>11. CASE UNCHANGED <<status, chatVars>>
  BY <1>0, <1>11 DEF PingInv, StaysConnected, Waiting, chatVars
<1> QED
  BY <1>1, <1>2, <1>3, <1>4, <1>5, <1>6, <1>7, <1>8, <1>9, <1>10, <1>11, SMTT(30)
  DEF ScriptNext, Read, ReadEnd, Open, Dump, SixSeconds, ServerRestarts, scriptVars, chatVars

\* Chat gives up on a running script only for a PING that shared its read.
THEOREM ConnectionCorrect == ScriptSpec => []StaysConnected
<1>1. ScriptInit => PingInv
  BY DEF ScriptInit, PingInv, StaysConnected
<1>2. PingInv => StaysConnected
  BY DEF PingInv
<1> QED
  BY <1>1, <1>2, PingStep, PTL DEF ScriptSpec

-----------------------------------------------------------------------------
\* The queues.

\* An entry of a table is the entry of one of its rows.
LEMMA TableEntry ==
    ASSUME NEW rows, NEW n \in DOMAIN Table(rows)
    PROVE  \E row \in rows : row[1] = n /\ Table(rows)[n] = row[2]
BY Zenon DEF Table

\* The names a macro inserts.
Steps == {pair[2] : pair \in Follows} \cup {"b", "y", "sdive", "hy"}

\* A command of chat, or of a macro.
Played == Seq(STRING \cup Steps) \ {<<>>}

\* Every row of the macros names steps.
LEMMA InsertRowsType == \A row \in InsertRows : row[2] \in Seq(Steps)
<1>1. ASSUME NEW n \in Steps PROVE <<n>> \in Seq(Steps)
  OBVIOUS
<1>2. /\ <<"b", "y", "sdive", "hy", "y", "sdive">> \in Seq(Steps)
      /\ <<"b", "b", "b", "b">> \in Seq(Steps)
  BY DEF Steps
<1>3. ASSUME NEW row \in InsertRows PROVE \/ \E n \in Steps : row[2] = <<n>>
             \/ row[2] = <<"b", "y", "sdive", "hy", "y", "sdive">>
             \/ row[2] = <<"b", "b", "b", "b">>
  <2>1. CASE row \in { <<pair[1], <<pair[2]>>>> : pair \in Follows }
    <3>1. PICK pair \in Follows : row = <<pair[1], <<pair[2]>>>>
      BY <2>1
    <3>2. row[2] = <<pair[2]>> /\ pair[2] \in Steps
      BY <3>1 DEF Steps
    <3> QED
      BY <3>2
  <2>2. CASE row \notin { <<pair[1], <<pair[2]>>>> : pair \in Follows }
    <3>1. row \in { <<"cap_bounce", <<"b", "y", "sdive", "hy", "y", "sdive">>>>,
                    <<"swim", <<"b", "b", "b", "b">>>> }
      BY <2>2, Zenon DEF InsertRows
    <3> QED
      BY <3>1
  <2> QED
    BY <2>1, <2>2
<1> QED
  BY <1>1, <1>2, <1>3, Zenon

\* A macro inserts commands of one name.
LEMMA InsertsType ==
    ASSUME NEW cmd
    PROVE  InsertsOf(cmd) \in Seq(Played)
<1>1. CASE Len(cmd) = 1 /\ cmd[1] \in DOMAIN Inserts
  <2>1. Inserts[cmd[1]] \in Seq(Steps)
    BY <1>1, InsertRowsType, TableEntry, Zenon DEF Inserts
  <2>2. PICK s \in Seq(Steps) : s = Inserts[cmd[1]]
    BY <2>1
  <2>3. InsertsOf(cmd) = [i \in DOMAIN s |-> <<s[i]>>]
    BY <1>1, <2>2 DEF InsertsOf
  <2>4. \A i \in DOMAIN s : <<s[i]>> \in Played
    BY <2>2 DEF Played
  <2>5. DOMAIN s = 1 .. Len(s) /\ Len(s) \in Nat
    BY <2>2
  <2> QED
    BY <2>3, <2>4, <2>5, SMTT(30)
<1>2. CASE ~(Len(cmd) = 1 /\ cmd[1] \in DOMAIN Inserts)
  BY <1>2 DEF InsertsOf
<1> QED
  BY <1>1, <1>2, SMTT(30)

\* What chat sends can be played.
LEMMA MessageType ==
    ASSUME NEW msg \in Messages
    PROVE  msg.commands \in Seq(Played)
<1>1. Command \subseteq Played
  BY DEF Command, Played
<1>2. PICK s \in Seq(Command) : s = msg.commands
  BY CommandQueueAssumption
<1>3. s \in Seq(Played)
  BY <1>1, <1>2
<1> QED
  BY <1>2, <1>3

\* The commands that wait.
QueuesType == commandQueue \in Seq(Played) /\ nextCommands \in Seq(Played)

\* What decreaseQueue takes.
LEMMA TakenType ==
    ASSUME QueuesType, Taken # <<>>
    PROVE  /\ Taken \in Seq(Played)
           /\ Last(Taken) \in Played /\ Front(Taken) \in Seq(Played)
           /\ commandQueue # <<>> => Last(Taken) = Head(commandQueue)
<1>1. Taken \in Seq(Played)
  BY DEF QueuesType, Taken
<1>2. PICK s \in Seq(Played) : s = Taken
  BY <1>1
<1>3. s # <<>> /\ Last(s) \in Played /\ Front(s) \in Seq(Played)
  BY <1>2, SMTT(30) DEF Last, Front
<1>4. ASSUME commandQueue # <<>> PROVE Last(Taken) = Head(commandQueue)
  BY <1>4 DEF Last, Taken, QueuesType
<1> QED
  BY <1>2, <1>3, <1>4

\* A sequence reversed.
LEMMA ReverseType ==
    ASSUME NEW S, NEW s \in Seq(S)
    PROVE  Reverse(s) \in Seq(S) /\ (Reverse(s) = <<>> => s = <<>>)
<1>1. Reverse(s) = [i \in 1 .. Len(s) |-> s[(Len(s) - i) + 1]]
  BY DEF Reverse
<1>2. \A i \in 1 .. Len(s) : s[(Len(s) - i) + 1] \in S
  OBVIOUS
<1>3. Reverse(s) \in Seq(S) /\ Len(Reverse(s)) = Len(s)
  BY <1>1, <1>2
<1> QED
  BY <1>3

\* Both queues hold only commands that can be played.
LEMMA QueuesStep ==
    ASSUME QueuesType, [QueueNext]_queueVars
    PROVE  QueuesType'
<1>1. ASSUME NEW msg \in Messages, handleChat(msg.username, msg.commands)
      PROVE  QueuesType'
  <2>1. msg.commands \in Seq(Played)
    BY MessageType
  <2>2. commandQueue \o msg.commands \in Seq(Played)
    BY <2>1, ConcatProperties DEF QueuesType
  <2>3. commandQueue' \in {commandQueue, commandQueue \o msg.commands}
    BY <1>1, Zenon DEF handleChat
  <2>4. nextCommands' = nextCommands
    BY <1>1, Zenon DEF handleChat
  <2> QED
    BY <2>2, <2>3, <2>4, Zenon DEF QueuesType
<1>2. CASE decreaseQueue
  <2>1. commandQueue' \in Seq(Played)
    BY <1>2 DEF decreaseQueue, QueuesType
  <2>2. CASE Taken = <<>>
    BY <1>2, <2>1, <2>2, SMTT(30) DEF decreaseQueue, QueuesType
  <2>3. CASE Taken # <<>>
    <3>1. nextCommands' = Reverse(InsertsOf(Last(Taken))) \o Front(Taken)
      BY <1>2, <2>3 DEF decreaseQueue
    <3>2. PICK s \in Seq(Played) : s = Reverse(InsertsOf(Last(Taken)))
      BY InsertsType, ReverseType
    <3>3. PICK t \in Seq(Played) : t = Front(Taken)
      BY <2>3, TakenType, SMTT(30)
    <3>4. s \o t \in Seq(Played)
      BY ConcatProperties
    <3> QED
      BY <2>1, <3>1, <3>2, <3>3, <3>4, Zenon DEF QueuesType
  <2> QED
    BY <2>2, <2>3, SMTT(30)
<1>3. CASE SwitchChat \/ UNCHANGED queueVars
  BY <1>3 DEF SwitchChat, queueVars, QueuesType
<1> QED
  BY <1>1, <1>2, <1>3, SMTT(30) DEF QueueNext

\* A step that holds its inputs leaves its successor in nextCommands, and any
\* other command releases them.
LEMMA ReleasedStep ==
    ASSUME QueuesType, Released, [QueueNext]_queueVars
    PROVE  Released'
<1>1. ASSUME NEW msg \in Messages, handleChat(msg.username, msg.commands)
      PROVE  Released'
  <2>1. PICK commands \in Seq(Played) : commands = msg.commands
    BY MessageType
  <2>2. commands # <<>>
    BY <2>1, CommandQueueAssumption
  <2>3. commandQueue \o commands = <<>> => commandQueue = <<>> /\ commands = <<>>
    BY DEF QueuesType
  <2>4. CASE commandQueue' = commandQueue \o commands /\ UNCHANGED stale
    BY <1>1, <2>1, <2>2, <2>3, <2>4, Zenon DEF handleChat, Released
  <2>5. CASE stale' = (stale \/ Toggles(commands)) /\ UNCHANGED commandQueue
    BY <1>1, <2>1, <2>5, Zenon DEF handleChat, Released
  <2> QED
    BY <1>1, <2>1, <2>4, <2>5, Zenon DEF handleChat
<1>2. CASE decreaseQueue
  <2>1. CASE Taken = <<>>
    <3>1. commandQueue = <<>> /\ nextCommands = <<>>
      BY <2>1 DEF Taken, QueuesType
    <3>2. UNCHANGED <<nextCommands, shown, stale, lockon>>
      BY <1>2, <2>1, Zenon DEF decreaseQueue
    <3>3. ~lockon => controller1' = controller1
      BY <1>2, <2>1, Zenon DEF decreaseQueue
    <3> QED
      BY <3>1, <3>2, <3>3, Zenon DEF Released
  <2>2. CASE Taken # <<>>
    <3>1. PICK cmd : cmd = Last(Taken)
      OBVIOUS
    <3>2. PICK reset : reset = Releases(cmd, ~lockon)
      OBVIOUS
    <3>3. /\ nextCommands' = Reverse(InsertsOf(cmd)) \o Front(Taken)
          /\ reset => controller1' = Neutral /\ shown' = Neutral
          /\ lockon' = lockon
      BY <1>2, <2>2, <3>1, <3>2, Zenon DEF decreaseQueue, SendAndReset
    <3>4. ~lockon /\ ~reset => InsertsOf(cmd) # <<>>
      BY <3>2, Zenon DEF Releases
    <3>5. InsertsOf(cmd) # <<>> => nextCommands' # <<>>
      <4>1. PICK s \in Seq(Played) : s = Reverse(InsertsOf(cmd))
        BY InsertsType, ReverseType
      <4>2. PICK t \in Seq(Played) : t = Front(Taken)
        BY <2>2, TakenType
      <4>3. InsertsOf(cmd) # <<>> => s # <<>>
        BY <4>1, InsertsType, ReverseType, SMTT(30)
      <4>4. s # <<>> => s \o t # <<>>
        OBVIOUS
      <4> QED
        BY <3>3, <4>1, <4>2, <4>3, <4>4, Zenon
    <3> QED
      BY <3>3, <3>4, <3>5, Zenon DEF Released
  <2> QED
    BY <2>1, <2>2
<1>3. CASE SwitchChat \/ UNCHANGED queueVars
  BY <1>3, Zenon DEF SwitchChat, queueVars, Released
<1> QED
  BY <1>1, <1>2, <1>3 DEF QueueNext

\* No button stays down, for all commands chat can send, in any order: with
\* nothing left to play and lockon off the console was last told that every
\* button is up.
THEOREM ReleasedCorrect == QueueSpec => []Released
<1>1. QueueInit => QueuesType /\ Released
  BY DEF QueueInit, QueuesType, Released
<1> QED
  BY <1>1, QueuesStep, ReleasedStep, PTL DEF QueueSpec

\* The chat goes before the macros and keeps its order, however many steps of
\* macros are waiting (twitch-control.py:1103-1117).
THEOREM ChatFirstCorrect == QueueSpec => ChatFirst
<1>1. ASSUME QueuesType, [QueueNext]_queueVars, Len(commandQueue') < Len(commandQueue)
      PROVE  played' = Head(commandQueue)
  <2>1. decreaseQueue
    <3>1. ASSUME NEW msg \in Messages, handleChat(msg.username, msg.commands)
          PROVE  FALSE
      <4>1. msg.commands \in Seq(Played)
        BY MessageType
      <4>2. Len(commandQueue') >= Len(commandQueue)
        BY <3>1, <4>1, SMTT(30) DEF handleChat, QueuesType
      <4> QED
        BY <4>2, <1>1 DEF QueuesType
    <3>2. ~(SwitchChat \/ UNCHANGED queueVars)
      BY <1>1 DEF SwitchChat, queueVars, QueuesType
    <3> QED
      BY <1>1, <3>1, <3>2, SMTT(30) DEF QueueNext
  <2>2. commandQueue # <<>>
    BY <1>1, <2>1 DEF decreaseQueue
  <2>3. Taken # <<>>
    BY <1>1, <2>2, SMTT(30) DEF Taken, QueuesType
  <2>4. played' = Last(Taken)
    BY <2>1, <2>3, Zenon DEF decreaseQueue
  <2> QED
    BY <1>1, <2>2, <2>3, <2>4, TakenType
<1>2. QueueInit => QueuesType
  BY DEF QueueInit, QueuesType
<1> QED
  BY <1>1, <1>2, QueuesStep, PTL DEF QueueSpec, ChatFirst

-----------------------------------------------------------------------------

\* A nonempty set of places has a last one.
LEMMA LatestIn ==
    ASSUME NEW n \in Nat, NEW parts, parts \subseteq 1 .. n, parts # {}
    PROVE  Latest(parts) \in parts
<1>1. PICK R : R = {ss \in Nat \X Nat : ss[1] < ss[2]}
  BY Zenon
<1>2. IsWellFoundedOn(R, Nat)
  BY <1>1, NatLessThanWellFounded, SMTT(30) DEF OpToRel
<1>3. PICK T : T = {n - i : i \in parts}
  BY Zenon
<1>4. T \subseteq Nat /\ T # {}
  <2>1. \A i \in parts : n - i \in Nat
    OBVIOUS
  <2>2. PICK i : i \in parts
    OBVIOUS
  <2>3. n - i \in T
    BY <1>3, <2>2, SMTT(30)
  <2> QED
    BY <1>3, <2>1, <2>3, SMTT(30)
<1>5. PICK x \in T : \A y \in T : ~(<<y, x>> \in R)
  BY <1>2, <1>4, WFMin, Zenon
<1>6. \A y \in T : x <= y
  <2>1. ASSUME NEW y \in T, y < x PROVE FALSE
    <3>1. <<y, x>> \in Nat \X Nat
      BY <1>4
    <3>2. <<y, x>>[1] < <<y, x>>[2]
      BY <2>1
    <3> QED
      BY <1>1, <1>5, <3>1, <3>2
  <2> QED
    BY <1>4, <2>1
<1>7. PICK i \in parts : x = n - i
  BY <1>3
<1>8. ASSUME NEW j \in parts PROVE j <= i
  <2>1. n - j \in T
    BY <1>3
  <2> QED
    BY <1>6, <1>7, <2>1, SMTT(30)
<1> QED
  BY <1>8, Zenon DEF Latest

\* What a command may set.
Sets(p) == DOMAIN p \subseteq Fields /\ \A f \in DOMAIN p : p[f] \in Values

\* The rows of each table set fields of the controller to what they can be:
\* those of the sticks,
LEMMA StickSets == \A row \in StickPress : Sets(row[2])
BY DEF StickPress, Sets, Fields, Values

\*   the camera and the dpad,
LEMMA LookSets == \A row \in LookPress : Sets(row[2])
BY DEF LookPress, Sets, Fields, Values

\*   the buttons,
LEMMA OnSets == ASSUME NEW B, B \subseteq Fields PROVE \A row \in On(B) : Sets(row[2])
<1>1. ASSUME NEW row \in On(B) PROVE Sets(row[2])
  <2>1. PICK n \in B : row = <<n, [f \in {n} |-> "on"]>>
    BY DEF On
  <2>2. row[2] = [f \in {n} |-> "on"]
    BY <2>1, SMTT(30)
  <2> QED
    BY <2>2, SMTT(30) DEF Sets, Values
<1> QED
  BY <1>1

\*   the buttons that are commands of their own,
LEMMA ButtonSets == \A row \in ButtonPress : Sets(row[2])
<1>1. {"a", "b", "x", "y", "lstick", "rstick", "zl", "zr", "minus", "plus", "home"}
        \subseteq Fields
  BY DEF Fields
<1>2. \A row \in { <<"l", [LX |-> "min", l |-> "on"]>>, <<"r", [LX |-> "max", r |-> "on"]>>,
           <<"hy", [y |-> "on"]>> } : Sets(row[2])
  BY SMTT(30) DEF Sets, Fields, Values
<1> QED
  BY <1>1, <1>2, OnSets, SMTT(30) DEF ButtonPress

\*   the steps of the macros,
LEMMA MacroSets == \A row \in MacroPress : Sets(row[2])
BY SMTT(30) DEF MacroPress, Sets, Fields, Values

\*   and those of spin.
LEMMA SpinSets == \A row \in SpinPress : Sets(row[2])
BY DEF SpinPress, SpinStick, Sets, Fields, Values

\* A part of a combination sets fields of the controller,
LEMMA ComboSets ==
    ASSUME NEW n \in DOMAIN ComboPress
    PROVE  Sets(ComboPress[n])
<1>1. {"a", "b", "x", "y", "l", "r", "zl", "zr"} \subseteq Fields
  BY DEF Fields
<1>2. \A row \in StickPress \cup LookPress \cup On({"a", "b", "x", "y", "l", "r", "zl", "zr"}) :
          Sets(row[2])
  BY <1>1, StickSets, LookSets, OnSets, Zenon
<1> QED
  BY <1>2, TableEntry, Zenon DEF ComboPress

\*   and so does a single command.
LEMMA SingleSets ==
    ASSUME NEW n \in DOMAIN SinglePress
    PROVE  Sets(SinglePress[n])
<1>1. \A row \in StickPress \cup LookPress \cup ButtonPress \cup MacroPress \cup SpinPress :
          Sets(row[2])
  BY StickSets, LookSets, ButtonSets, MacroSets, SpinSets, Zenon
<1> QED
  BY <1>1, TableEntry, Zenon DEF SinglePress

\* A command leaves the controller with its fields, each at a place it can be.
LEMMA ApplyType ==
    ASSUME NEW cmd \in Played, NEW held \in [Fields -> Values]
    PROVE  Apply(cmd, held) \in [Fields -> Values]
<1>1. CASE Len(cmd) > 1
  <2>1. ASSUME NEW f \in Fields, Setting(cmd, f) # {}
        PROVE  ComboPress[cmd[Latest(Setting(cmd, f))]][f] \in Values
    <3>1. Setting(cmd, f) \subseteq 1 .. Len(cmd) /\ Len(cmd) \in Nat
      BY DEF Setting, Played
    <3>2. PICK i : i = Latest(Setting(cmd, f))
      OBVIOUS
    <3>3. i \in Setting(cmd, f)
      BY <2>1, <3>1, <3>2, LatestIn, SMTT(30)
    <3>4. cmd[i] \in DOMAIN ComboPress /\ f \in DOMAIN ComboPress[cmd[i]]
      BY <3>3 DEF Setting
    <3>5. Sets(ComboPress[cmd[i]])
      BY <3>4, ComboSets
    <3> QED
      BY <3>2, <3>4, <3>5, SMTT(30) DEF Sets
  <2> QED
    BY <1>1, <2>1, SMTT(30) DEF Apply
<1>2. CASE Len(cmd) <= 1 /\ cmd[1] \in DOMAIN SinglePress
  <2>1. PICK press : press = SinglePress[cmd[1]]
    OBVIOUS
  <2>2. Sets(press)
    BY <1>2, <2>1, SingleSets, SMTT(30)
  <2>3. Apply(cmd, held) = [ f \in DOMAIN held \cup DOMAIN press |->
                               IF f \in DOMAIN press THEN press[f] ELSE held[f] ]
    BY <1>2, <2>1, SMTT(30) DEF Apply, Played
  <2> QED
    BY <2>2, <2>3, SMTT(30) DEF Sets
<1>3. CASE Len(cmd) <= 1 /\ cmd[1] \notin DOMAIN SinglePress
  BY <1>3 DEF Apply, Played
<1> QED
  BY <1>1, <1>2, <1>3, SMTT(30) DEF Played

\* The controller has its fields and no others, each at a place it can be.
PadsType == controller1 \in [Fields -> Values] /\ shown \in [Fields -> Values]

\* No step gives the controller a field it does not have.
LEMMA PadsStep ==
    ASSUME QueuesType, PadsType, [QueueNext]_queueVars
    PROVE  PadsType'
<1>1. CASE decreaseQueue
  <2>1. PICK held : held = IF lockon THEN [controller1 EXCEPT !.zl = "on"] ELSE controller1
    BY Zenon
  <2>2. held \in [Fields -> Values]
    <3>1. [controller1 EXCEPT !.zl = "on"] \in [Fields -> Values]
      BY DEF PadsType, Values
    <3> QED
      BY <2>1, <3>1, Zenon DEF PadsType
  <2>3. CASE Taken = <<>>
    <3>1. controller1' = held /\ shown' = shown
      BY <1>1, <2>1, <2>3, Zenon DEF decreaseQueue
    <3> QED
      BY <2>2, <3>1 DEF PadsType
  <2>4. CASE Taken # <<>>
    <3>1. PICK cmd \in Played : cmd = Last(Taken)
      BY <2>4, TakenType
    <3>2. Apply(cmd, held) \in [Fields -> Values]
      BY <2>2, ApplyType
    <3>3. Neutral \in [Fields -> Values]
      BY DEF Neutral, Values
    <3>4. /\ controller1' = Neutral \/ controller1' = Apply(cmd, held)
          /\ shown' = Neutral \/ shown' = Apply(cmd, held)
      BY <1>1, <2>1, <2>4, <3>1, Zenon DEF decreaseQueue, SendAndReset
    <3> QED
      BY <3>2, <3>3, <3>4, Zenon DEF PadsType
  <2> QED
    BY <2>3, <2>4, SMTT(30)
<1>2. CASE UNCHANGED <<controller1, shown>>
  BY <1>2 DEF PadsType
<1> QED
  BY <1>1, <1>2, Zenon DEF QueueNext, handleChat, SwitchChat, queueVars

\* The flags stay flags.
LEMMA FlagsStep ==
    ASSUME [QueueNext]_queueVars
    PROVE  /\ lockon \in BOOLEAN => lockon' \in BOOLEAN
           /\ chatEnabled \in BOOLEAN => chatEnabled' \in BOOLEAN
           /\ stale \in BOOLEAN => stale' \in BOOLEAN
<1>1. lockon' = ~lockon \/ lockon' = lockon
  BY Zenon DEF QueueNext, handleChat, SwitchChat, decreaseQueue, queueVars
<1>2. chatEnabled' = ~chatEnabled \/ chatEnabled' = chatEnabled
  BY Zenon DEF QueueNext, handleChat, SwitchChat, decreaseQueue, queueVars
<1>3. stale' = stale \/ stale' \in BOOLEAN
  BY Zenon DEF QueueNext, handleChat, SwitchChat, decreaseQueue, SendAndReset, queueVars
<1> QED
  BY <1>1, <1>2, <1>3, Zenon

\* The messages are counted up to the bound.
LEMMA ChatsStep ==
    ASSUME chats \in 0 .. MaxChat, [QueueNext]_queueVars
    PROVE  chats' \in 0 .. MaxChat
<1>1. chats' = chats \/ (chats < MaxChat /\ chats' = chats + 1)
  BY Zenon DEF QueueNext, handleChat, SwitchChat, decreaseQueue, queueVars
<1> QED
  BY <1>1, CommandQueueAssumption

\* Whatever chat combines, a command sets only fields that SwitchController has,
\* and to a place they can be: no row of the tables misspells one.
THEOREM QueueTypeCorrect == QueueSpec => []QueueTypeOK
<1>1. QueueInit => QueuesType /\ QueueTypeOK
  <2>1. QueueInit => QueuesType
    BY DEF QueueInit, QueuesType
  <2>2. QueueInit => PadsType
    BY DEF QueueInit, PadsType, Neutral, Values
  <2>3. QueueInit => lockon \in BOOLEAN /\ chatEnabled \in BOOLEAN /\ stale \in BOOLEAN
    BY Zenon DEF QueueInit
  <2>4. QueueInit => chats \in 0 .. MaxChat
    BY CommandQueueAssumption DEF QueueInit
  <2> QED
    BY <2>1, <2>2, <2>3, <2>4, Zenon DEF QueueTypeOK, PadsType
<1>2. QueuesType /\ QueueTypeOK /\ [QueueNext]_queueVars => QueueTypeOK'
  BY PadsStep, FlagsStep, ChatsStep, Zenon DEF QueueTypeOK, PadsType
<1> QED
  BY <1>1, <1>2, QueuesStep, PTL DEF QueueSpec

=============================================================================
