----------------------------- MODULE ChatScript -----------------------------
(***************************************************************************)
(* The life of twitch-control.py: its connection to Twitch chat            *)
(* (twitchbot.py), the plus and ban lists it keeps in pickle files and     *)
(* tells the web server about, and the ways it ends and is started again.  *)
(*                                                                         *)
(* The main loop reads the chat socket without blocking and takes what one *)
(* recv returns for one message.  Chat messages are cut down to what the   *)
(* script does with them: a PING, a command of a mod on a list,            *)
(* !restartscript, anything else ("talk"), and the rest of a message that  *)
(* an earlier read cut in two ("rest").  The other commands of handleChat  *)
(* are in Controls, the queue in CommandQueue.                             *)
(*                                                                         *)
(* Chat, the web server, and whoever kills and starts the script are       *)
(* external.  A dead script leaves list and step as they were, which lets  *)
(* the properties speak of what it knew and where it was.                  *)
(***************************************************************************)
EXTENDS Naturals, SequencesExt

CONSTANTS Names,          \* those who are put on the lists
          Garbled,        \* a name with the next messages behind it
          MaxMessages,    \* bound: messages from chat
          MaxEnds         \* bound: kills, restarts of the web server, emits that raise

ASSUME ScriptAssumption ==
    /\ Garbled \notin Names
    /\ MaxMessages \in Nat /\ MaxEnds \in Nat

Lists == {"plus", "ban"}

Commands == [do : {"giveplus", "removeplus", "ban", "unban"}, name : Names]
Others == [do : {"ping", "talk", "restartscript"}]
Rest == [do |-> "rest"]
ChatMessages == Commands \cup Others \cup {Rest}

VARIABLES status,           \* of the process: up, down, or failed to start
          list,             \* pluslist and banlist
          step, of, leaving,  \* the main thread: in its loop, or writing the file of a list
          file, saved,      \* the pickle files: absent, torn or whole, and what a whole one holds
          unsaved,          \* history: lists whose change an exception kept from the file
          server,           \* the lists as the web server has them
          conn, inbox,      \* the chat socket, and what recv has yet to return
          due,              \* chat waits for a PONG
          merged, hungUp,   \* history: a PING shared its read; chat closed by itself
          sent, ends        \* bounds

fileVars == <<file, saved, unsaved>>
mainVars == <<step, of, leaving>>
chatVars == <<conn, inbox, due, merged, hungUp>>
bounds == <<sent, ends>>
scriptVars == <<status, list, mainVars, fileVars, server, chatVars, bounds>>

ScriptInit ==
    /\ status = "down"
    /\ list = [l \in Lists |-> <<>>]
    /\ step = "loop" /\ of = "plus" /\ leaving = FALSE
    /\ file \in [Lists -> {"absent", "whole"}]
    /\ saved = [l \in Lists |-> <<>>] /\ unsaved = {}
    /\ server = [l \in Lists |-> <<>>]
    /\ conn = "closed" /\ inbox = <<>> /\ due = FALSE
    /\ merged = FALSE /\ hungUp = FALSE
    /\ sent = 0 /\ ends = 0

-----------------------------------------------------------------------------
\* Starting, and being killed.

\* Mutant: only the plus list is loaded.
StartPlus ==
    /\ status # "up"
    /\ IF \E l \in Lists : file[l] = "torn"
       THEN status' = "failed" /\ UNCHANGED <<list, mainVars, unsaved, server, chatVars>>
       ELSE /\ status' = "up"
            /\ list' = [l \in Lists |-> IF l = "plus" THEN saved[l] ELSE <<>>]
            /\ server' = list' /\ unsaved' = {}
            /\ step' = "loop" /\ leaving' = FALSE /\ UNCHANGED of
            /\ conn' = "open" /\ inbox' = <<>> /\ due' = FALSE
            /\ merged' = FALSE /\ hungUp' = FALSE
    /\ UNCHANGED <<file, saved, bounds>>

\* The script is started: pickle.load raises on a torn file, and an absent
\* file leaves the list empty; the lists are sent to the server.
Start ==
    /\ status # "up"
    /\ IF \E l \in Lists : file[l] = "torn"
       THEN status' = "failed" /\ UNCHANGED <<list, mainVars, unsaved, server, chatVars>>
       ELSE /\ status' = "up"
            /\ list' = [l \in Lists |-> IF file[l] = "whole" THEN saved[l] ELSE <<>>]
            /\ server' = list' /\ unsaved' = {}
            /\ step' = "loop" /\ leaving' = FALSE /\ UNCHANGED of
            /\ conn' = "open" /\ inbox' = <<>> /\ due' = FALSE
            /\ merged' = FALSE /\ hungUp' = FALSE
    /\ UNCHANGED <<file, saved, bounds>>

\* taskkill, a closed window, a power cut, or an emit of the loop itself that
\* raises, which nothing catches
Kill ==
    /\ status = "up" /\ ends < MaxEnds
    /\ status' = "down"
    /\ ends' = ends + 1
    /\ UNCHANGED <<list, mainVars, fileVars, server, chatVars, sent>>

-----------------------------------------------------------------------------
\* The chat server.

ChatSends(m) ==
    /\ status = "up" /\ conn = "open" /\ sent < MaxMessages
    /\ m.do = "ping" => ~due
    /\ inbox' = Append(inbox, m)
    /\ due' = (due \/ m.do = "ping")
    /\ sent' = sent + 1
    /\ UNCHANGED <<status, list, mainVars, fileVars, server, conn, merged, hungUp, ends>>

\* Its PING has been read, and no PONG came.
ChatTimesOut ==
    /\ status = "up" /\ conn = "open" /\ due
    /\ \A i \in DOMAIN inbox : inbox[i].do # "ping"
    /\ conn' = "closed"
    /\ UNCHANGED <<status, list, mainVars, fileVars, server, inbox, due, merged, hungUp, bounds>>

ChatHangsUp ==
    /\ status = "up" /\ conn = "open"
    /\ conn' = "closed"
    /\ hungUp' = TRUE
    /\ UNCHANGED <<status, list, mainVars, fileVars, server, inbox, due, merged, bounds>>

-----------------------------------------------------------------------------
\* The main loop: what a recv returned.

InLoop == status = "up" /\ step = "loop"

\* A send to a socket that the other end has closed is accepted, and resets the
\* connection; the next one raises.
AfterSend == IF conn = "open" THEN "open" ELSE "reset"

\* Mutant: the PING is compared with a string without the line end.
ReadPingNever ==
    /\ InLoop /\ inbox # <<>>
    /\ Head(inbox).do = "ping"
    /\ inbox' = Tail(inbox)
    /\ UNCHANGED <<status, list, mainVars, fileVars, server, conn, due, merged, hungUp, bounds>>

\* The PING and nothing else: it is answered, and the script ends if it cannot be.
ReadPing ==
    /\ InLoop /\ inbox # <<>>
    /\ Head(inbox).do = "ping"
    /\ inbox' = Tail(inbox)
    /\ due' = (due /\ conn # "open")
    /\ status' = IF conn = "reset" THEN "down" ELSE "up"
    /\ conn' = AfterSend
    /\ UNCHANGED <<list, mainVars, fileVars, server, merged, hungUp, bounds>>

\* n messages in one recv, the last of them cut if it went over the 1024 bytes
TakeMany(n, cut) ==
    /\ InLoop /\ n \in 2 .. Len(inbox)
    /\ inbox' = (IF cut THEN <<Rest>> ELSE <<>>) \o SubSeq(inbox, n + 1, Len(inbox))
    /\ merged' = (merged \/ \E i \in 1 .. n : inbox[i].do = "ping")

\* A message that is no command of the lists, a rest, or a command that fails
\* because chat cannot be told or the name is not on the ban list.
Ignored(m) ==
    \/ m.do \in {"talk", "rest"}
    \/ m.do # "ping" /\ conn = "reset"
    \/ m.do = "unban" /\ \A i \in DOMAIN list["ban"] : list["ban"][i] # m.name

ReadIgnored ==
    /\ InLoop /\ inbox # <<>>
    /\ Ignored(Head(inbox))
    /\ inbox' = Tail(inbox)
    /\ conn' = IF Head(inbox).do \in {"talk", "rest"} THEN conn ELSE AfterSend
    /\ UNCHANGED <<status, list, mainVars, fileVars, server, due, merged, hungUp, bounds>>

\* Many messages in one recv: split at the spaces they are no command of
\* anybody, and split at a comma at most one that fails.
ReadMany(n, cut) ==
    /\ TakeMany(n, cut)
    /\ \/ UNCHANGED conn
       \/ /\ Head(inbox) \in Commands
          /\ Ignored([Head(inbox) EXCEPT !.name = Garbled])
          /\ conn' = AfterSend
    /\ UNCHANGED <<status, list, mainVars, fileVars, server, due, hungUp, bounds>>

\* The end of the stream: an empty message, which the loop drops.
ReadEnd ==
    /\ InLoop /\ inbox = <<>> /\ conn # "open"
    /\ UNCHANGED scriptVars

-----------------------------------------------------------------------------
\* The main loop: the commands on the lists.

ListOf(m) == IF m.do \in {"ban", "unban"} THEN "ban" ELSE "plus"

Changed(m) ==
    IF m.do \in {"giveplus", "ban"} THEN Append(list[ListOf(m)], m.name)
    ELSE RemoveFirst(list[ListOf(m)], m.name)

\* Mutant: the file is written only when the plus list changes.
DoListPlus(m) ==
    /\ ~Ignored(m)
    /\ list' = [list EXCEPT ![ListOf(m)] = Changed(m)]
    /\ server' = IF ListOf(m) = "ban" THEN [server EXCEPT !["ban"] = Changed(m)] ELSE server
    /\ of' = ListOf(m)
    /\ step' = IF ListOf(m) = "plus" THEN "open" ELSE "loop"
    /\ conn' = AfterSend
    /\ UNCHANGED <<status, leaving, fileVars, due, hungUp, bounds>>

\* !giveplus, !removeplus, !ban and !unban: chat is told, the list is changed,
\* the server is told of the ban list; the file is next.
DoList(m) ==
    /\ ~Ignored(m)
    /\ list' = [list EXCEPT ![ListOf(m)] = Changed(m)]
    /\ server' = IF ListOf(m) = "ban" THEN [server EXCEPT !["ban"] = Changed(m)] ELSE server
    /\ of' = ListOf(m)
    /\ step' = "open"
    /\ conn' = AfterSend
    /\ UNCHANGED <<status, leaving, fileVars, due, hungUp, bounds>>

\* emit raises after !ban or !unban changed the list: the loop catches it, and
\* neither the server nor the file learns of the change.
EmitRaises(m) ==
    /\ ~Ignored(m) /\ ListOf(m) = "ban"
    /\ list' = [list EXCEPT !["ban"] = Changed(m)]
    /\ unsaved' = unsaved \cup {"ban"}
    /\ conn' = AfterSend
    /\ ends < MaxEnds /\ ends' = ends + 1
    /\ UNCHANGED <<status, mainVars, file, saved, server, due, hungUp, sent>>

HandleList ==
    /\ InLoop /\ inbox # <<>>
    /\ Head(inbox) \in Commands
    /\ DoList(Head(inbox)) \/ EmitRaises(Head(inbox))
    /\ inbox' = Tail(inbox)
    /\ UNCHANGED merged

\* Many messages in one recv, split at the comma of a first one such as
\* "!ban,name": the name is all that follows.
HandleGarbled(n, cut) ==
    /\ TakeMany(n, cut)
    /\ Head(inbox) \in Commands
    /\ LET m == [Head(inbox) EXCEPT !.name = Garbled] IN DoList(m) \/ EmitRaises(m)

\* !restartscript: the plus list is written, then every python is killed.
HandleRestart ==
    /\ InLoop /\ inbox # <<>>
    /\ Head(inbox).do = "restartscript" /\ ~Ignored(Head(inbox))
    /\ step' = "open" /\ of' = "plus" /\ leaving' = TRUE
    /\ inbox' = Tail(inbox)
    /\ conn' = AfterSend
    /\ UNCHANGED <<status, list, fileVars, server, due, merged, hungUp, bounds>>

\* open(..., "wb") empties the file ...
Open ==
    /\ status = "up" /\ step = "open"
    /\ file' = [file EXCEPT ![of] = "torn"]
    /\ step' = "dump"
    /\ UNCHANGED <<status, list, of, leaving, saved, unsaved, server, chatVars, bounds>>

\* ... and closing it after pickle.dump fills it.
Dump ==
    /\ status = "up" /\ step = "dump"
    /\ file' = [file EXCEPT ![of] = "whole"]
    /\ saved' = [saved EXCEPT ![of] = list[of]]
    /\ unsaved' = unsaved \ {of}
    /\ step' = IF leaving THEN "kill" ELSE "loop"
    /\ UNCHANGED <<status, list, of, leaving, server, chatVars, bounds>>

Taskkill ==
    /\ status = "up" /\ step = "kill"
    /\ status' = "down"
    /\ UNCHANGED <<list, mainVars, fileVars, server, chatVars, bounds>>

-----------------------------------------------------------------------------
\* The main loop: what it does from time to time.

\* Mutant: the plus list is not sent.
EmitBanList == server' = [server EXCEPT !["ban"] = list["ban"]]

EmitLists == server' = list

\* Every 6 seconds the lists are sent again.
SixSeconds ==
    /\ InLoop
    /\ EmitLists
    /\ UNCHANGED <<status, list, mainVars, fileVars, chatVars, bounds>>

\* Mutant: an exception of chat is caught here too.
FiveMinutesCaught ==
    /\ InLoop
    /\ EmitLists
    /\ conn' = AfterSend
    /\ UNCHANGED <<status, list, mainVars, fileVars, inbox, due, merged, hungUp, bounds>>

\* Every 5 minutes the lists are sent and chat is told something, with nothing
\* to catch an exception.
FiveMinutes ==
    /\ InLoop
    /\ EmitLists
    /\ status' = IF conn = "reset" THEN "down" ELSE "up"
    /\ conn' = AfterSend
    /\ UNCHANGED <<list, mainVars, fileVars, inbox, due, merged, hungUp, bounds>>

\* The web server starts again, with no lists.
ServerRestarts ==
    /\ ends < MaxEnds
    /\ ends' = ends + 1
    /\ server' = [l \in Lists |-> <<>>]
    /\ UNCHANGED <<status, list, mainVars, fileVars, chatVars, sent>>

-----------------------------------------------------------------------------

Read ==
    \/ ReadPing \/ ReadIgnored \/ HandleList \/ HandleRestart
    \/ \E n \in 2 .. MaxMessages, cut \in BOOLEAN : ReadMany(n, cut) \/ HandleGarbled(n, cut)

ScriptNext ==
    \/ Start \/ Kill
    \/ \E m \in Commands \cup Others : ChatSends(m)
    \/ ChatTimesOut \/ ChatHangsUp
    \/ Read \/ ReadEnd
    \/ Open \/ Dump \/ Taskkill
    \/ SixSeconds \/ FiveMinutes
    \/ ServerRestarts

\* The main loop goes on, and comes to everything in it again and again.
\* Nobody has to start the script, or to type anything.
ScriptSpec ==
    /\ ScriptInit /\ [][ScriptNext]_scriptVars
    /\ WF_scriptVars(Read)
    /\ WF_scriptVars(Open \/ Dump \/ Taskkill)
    /\ WF_scriptVars(SixSeconds) /\ WF_scriptVars(FiveMinutes)

-----------------------------------------------------------------------------

\* The file of list l, as the next start will load it, is the list.
Holds(l) ==
    \/ file[l] = "whole" /\ saved[l] = list[l]
    \/ file[l] = "absent" /\ list[l] = <<>>

\* Whatever the script is doing and wherever it was killed, a file differs from
\* its list only while the command that changed it is writing it, or since an
\* emit raised between the two: a kill costs at most the last command, or the
\* file it was writing, and the next command on the list makes up for an
\* exception (twitch-control.py:814-853, 911-914, 1746).
FilesHoldLists ==
    \A l \in Lists : Holds(l) \/ (l = of /\ step \in {"open", "dump"}) \/ l \in unsaved

\* A start brings back both lists as they were when the script ended, but for
\* one whose last change had not reached its file (twitch-control.py:142-148).
RestartKeeps ==
    [][status # "up" /\ status' = "up" =>
           \A l \in Lists : \/ list'[l] = list[l]
                            \/ l = of /\ step = "open"
                            \/ l \in unsaved]_scriptVars

\* As long as the script runs, chat gives up on it only for a PING that shared
\* its read with other messages (twitchbot.py:76).
StaysConnected == status = "up" /\ conn # "open" => merged \/ hungUp

\* A script that has lost chat does not go on without it: the message it sends
\* every 5 minutes ends it (twitch-control.py:1716, twitchbot.py:34).
NoDeafScript == conn # "open" ~> status # "up"

\* While the script stays up, the web server comes to have its lists, whatever
\* restarts of either have done (twitch-control.py:1718-1727).
ListsReachServer == <>[](status = "up") => <>[](server = list)

=============================================================================
