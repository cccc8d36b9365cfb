------------------------------ MODULE Controls ------------------------------
(***************************************************************************)
(* Who may drive the console in twitch-control.py, and the vote that moves *)
(* it to another game.                                                     *)
(*                                                                         *)
(* Four kinds of thread share the Client: the main loop (chat messages,    *)
(* queued commands, !fixcontrollers), the Timer thread of each vote        *)
(* (end_goto_vote, and goto_game when the vote is to leave), the Timer     *)
(* thread that lifts the pause after a vote (reenable_goto), and the       *)
(* socket thread that relays the state of a player's own controller        *)
(* (on_controller_state).  None of them takes a lock.                      *)
(*                                                                         *)
(* Telling chat something and capturing the screen may raise (writing to   *)
(* a pad may not: SwitchController.send catches its errors).  The thread   *)
(* of a vote ends there, and what it had turned off or taken is left so;   *)
(* the main loop drops the message.                                        *)
(*                                                                         *)
(* A vote is a number; its thread's place in the code is stage[v].  Times  *)
(* are left out but for one: the 2 and 8 minutes of pause are over only    *)
(* after goto_game, whose sleeps add up to less than 2 minutes, has        *)
(* returned.  Which buttons goto_game and !fixcontrollers press is left    *)
(* out: from "navigating" to "done", and while main is in "fix", they      *)
(* drive the pads.                                                         *)
(***************************************************************************)
EXTENDS Naturals, FiniteSets

CONSTANTS Users,         \* those who vote
          Mods, Plus,    \* those who use the commands of mods and of pluslist
          Games, singlePlayerGames,
          MaxVotes,      \* bound: votes started
          MaxMod         \* bound: commands of Mods and Plus

ASSUME ControlsAssumption ==
    /\ MaxVotes \in Nat /\ MaxMod \in Nat
    /\ IsFiniteSet(Users)

Votes == 1 .. MaxVotes

Pads == {0, 1}    \* controller1, and one of the others

VARIABLES voting, gotoUsed, yeaVotes, nayVotes, voted,
          chatEnabled, controllerEnabled, currentGame,
          started,      \* votes started so far
          stage,        \* of each vote: where its thread is
          game,         \* of each vote: the game it is about
          pause,        \* of each vote: the Timer of reenable_goto
          main,         \* the main thread: idle, a vote it has begun to count, fixcontrollers
          relay,        \* the socket thread: the pad, if any, it is about to send for
          queued,       \* a chat command is on commandQueue
          mods,         \* commands of Mods and Plus so far
          touched,      \* history: a mod has used !disablegoto or !enablegoto
          raised        \* history: what has ended in an exception

voteVars == <<voting, gotoUsed, yeaVotes, nayVotes, voted, started, stage, game, pause>>
flagVars == <<chatEnabled, controllerEnabled, currentGame>>
padVars == <<relay, queued>>
modVars == <<mods, touched, raised>>
controlVars == <<voteVars, flagVars, padVars, main, modVars>>

Idle == [do |-> "idle"]

ControlsInit ==
    /\ voting = FALSE /\ gotoUsed = FALSE
    /\ yeaVotes = 0 /\ nayVotes = 0 /\ voted = {}
    /\ chatEnabled = TRUE /\ controllerEnabled = TRUE /\ currentGame = "none"
    /\ started = 0
    /\ stage = [v \in Votes |-> "none"]
    /\ game = [v \in Votes |-> "none"]
    /\ pause = [v \in Votes |-> "none"]
    /\ main = Idle
    /\ relay = {} /\ queued = FALSE
    /\ mods = 0 /\ touched = FALSE /\ raised = {}

-----------------------------------------------------------------------------
\* The main thread: votes.

\* !goto g, when the command is not refused
goto_game_vote(g) ==
    /\ main = Idle
    /\ ~voting /\ ~gotoUsed
    /\ started < MaxVotes
    /\ yeaVotes' = 0 /\ nayVotes' = 0
    /\ voting' = TRUE
    /\ started' = started + 1
    /\ stage' = [stage EXCEPT ![started + 1] = "open"]
    /\ game' = [game EXCEPT ![started + 1] = g]
    /\ UNCHANGED <<gotoUsed, voted, pause, flagVars, padVars, main, modVars>>

\* !goto, when it is refused
GotoRefused ==
    /\ main = Idle
    /\ voting \/ gotoUsed
    /\ UNCHANGED controlVars

\* Chat could not be told: the counts are cleared and no vote is started.
VoteNotStarted ==
    /\ main = Idle
    /\ ~voting /\ ~gotoUsed
    /\ yeaVotes' = 0 /\ nayVotes' = 0
    /\ UNCHANGED <<voting, gotoUsed, voted, started, stage, game, pause, flagVars, padVars, main,
                   modVars>>

\* voteyea or votenay in a message: voting is read ...
ReadVoting(u, side) ==
    /\ main = Idle
    /\ voting
    /\ main' = [do |-> "count", user |-> u, side |-> side]
    /\ UNCHANGED <<voteVars, flagVars, padVars, modVars>>

\* Mutant: a user who has voted is counted again.
CountAgain ==
    /\ main.do = "count"
    /\ main' = Idle
    /\ voted' = voted \cup {main.user}
    /\ yeaVotes' = IF main.side = "yea" THEN yeaVotes + 1 ELSE yeaVotes
    /\ nayVotes' = IF main.side = "nay" THEN nayVotes + 1 ELSE nayVotes
    /\ UNCHANGED <<voting, gotoUsed, started, stage, game, pause, flagVars, padVars, modVars>>

\* ... and the vote is counted.
CountVote ==
    /\ main.do = "count"
    /\ main' = Idle
    /\ IF main.user \in voted THEN UNCHANGED <<voted, yeaVotes, nayVotes>>
       ELSE /\ voted' = voted \cup {main.user}
            /\ yeaVotes' = IF main.side = "yea" THEN yeaVotes + 1 ELSE yeaVotes
            /\ nayVotes' = IF main.side = "nay" THEN nayVotes + 1 ELSE nayVotes
    /\ UNCHANGED <<voting, gotoUsed, started, stage, game, pause, flagVars, padVars, modVars>>

-----------------------------------------------------------------------------
\* The thread of vote v: end_goto_vote, then goto_game.

\* Mutant: gotoUsed is not set.
EndVoteNoPause(v) ==
    /\ stage[v] = "open"
    /\ stage' = [stage EXCEPT ![v] = IF yeaVotes > nayVotes THEN "leaving" ELSE "staying"]
    /\ pause' = [pause EXCEPT ![v] = "running"]
    /\ UNCHANGED <<gotoUsed, voting, yeaVotes, nayVotes, voted, started, game, flagVars, padVars,
                   main, modVars>>

\* Mutant: the Timer of reenable_goto is made but not started.
EndVoteNoTimer(v) ==
    /\ stage[v] = "open"
    /\ stage' = [stage EXCEPT ![v] = IF yeaVotes > nayVotes THEN "leaving" ELSE "staying"]
    /\ gotoUsed' = TRUE
    /\ UNCHANGED <<pause, voting, yeaVotes, nayVotes, voted, started, game, flagVars, padVars,
                   main, modVars>>

\* The result, and the pause before the next vote.
EndVote(v) ==
    /\ stage[v] = "open"
    /\ stage' = [stage EXCEPT ![v] = IF yeaVotes > nayVotes THEN "leaving" ELSE "staying"]
    /\ gotoUsed' = TRUE
    /\ pause' = [pause EXCEPT ![v] = "running"]
    /\ UNCHANGED <<voting, yeaVotes, nayVotes, voted, started, game, flagVars, padVars, main, modVars>>

\* Mutant: voting is cleared only when the game is left.
CloseVoteLeaving(v) ==
    /\ stage[v] \in {"leaving", "staying"}
    /\ voting' = (stage[v] = "staying")
    /\ voted' = {}
    /\ stage' = [stage EXCEPT ![v] = IF stage[v] = "leaving" THEN "goto" ELSE "done"]
    /\ UNCHANGED <<gotoUsed, yeaVotes, nayVotes, started, game, pause, flagVars, padVars, main,
                   modVars>>

\* Chat could not be told the result: the thread ends, and voting stays.
CloseRaises(v) ==
    /\ stage[v] \in {"leaving", "staying"}
    /\ stage' = [stage EXCEPT ![v] = "done"]
    /\ raised' = raised \cup {"vote"}
    /\ UNCHANGED <<voting, gotoUsed, yeaVotes, nayVotes, voted, started, game, pause, flagVars,
                   padVars, main, mods, touched>>

CloseVote(v) ==
    /\ stage[v] \in {"leaving", "staying"}
    /\ voting' = FALSE
    /\ voted' = {}
    /\ stage' = [stage EXCEPT ![v] = IF stage[v] = "leaving" THEN "goto" ELSE "done"]
    /\ UNCHANGED <<gotoUsed, yeaVotes, nayVotes, started, game, pause, flagVars, padVars, main, modVars>>

\* From here on goto_game presses buttons of controller1.
goto_game(v) ==
    /\ stage[v] = "goto"
    /\ stage' = [stage EXCEPT ![v] = "navigating"]
    /\ currentGame' = game[v]
    /\ controllerEnabled' = FALSE /\ chatEnabled' = FALSE
    /\ voted' = {}
    /\ UNCHANGED <<voting, gotoUsed, yeaVotes, nayVotes, started, game, pause, padVars, main, modVars>>

\* The icon was found and the game started.
GotoArrives(v) ==
    /\ stage[v] = "navigating"
    /\ stage' = [stage EXCEPT ![v] = "done"]
    /\ controllerEnabled' = TRUE /\ chatEnabled' = TRUE
    /\ UNCHANGED <<voting, gotoUsed, yeaVotes, nayVotes, voted, started, game, pause,
                   currentGame, padVars, main, modVars>>

\* Mutant: giving up leaves everything turned off.
GotoReturns(v) ==
    /\ stage[v] = "navigating"
    /\ stage' = [stage EXCEPT ![v] = "done"]
    /\ UNCHANGED <<voting, gotoUsed, yeaVotes, nayVotes, voted, started, game, pause, flagVars,
                   padVars, main, modVars>>

\* The icon was not found on any of the four screens.
GotoGivesUp(v) ==
    /\ stage[v] = "navigating"
    /\ stage' = [stage EXCEPT ![v] = "done"]
    /\ controllerEnabled' = TRUE
    /\ UNCHANGED <<voting, gotoUsed, yeaVotes, nayVotes, voted, started, game, pause,
                   chatEnabled, currentGame, padVars, main, modVars>>

\* Capturing the screen, or telling chat the game, raised: the thread ends with
\* the controls off.
GotoRaises(v) ==
    /\ stage[v] = "navigating"
    /\ stage' = [stage EXCEPT ![v] = "done"]
    /\ raised' = raised \cup {"goto"}
    /\ UNCHANGED <<voting, gotoUsed, yeaVotes, nayVotes, voted, started, game, pause, flagVars,
                   padVars, main, mods, touched>>

reenable_goto(v) ==
    /\ pause[v] = "running"
    /\ stage[v] = "done"
    /\ pause' = [pause EXCEPT ![v] = "over"]
    /\ gotoUsed' = FALSE
    /\ UNCHANGED <<voting, yeaVotes, nayVotes, voted, started, stage, game, flagVars, padVars,
                   main, modVars>>

-----------------------------------------------------------------------------
\* The main thread: the commands of the mods, and chat commands.

Command == main = Idle /\ mods < MaxMod /\ mods' = mods + 1

disablegoto ==
    /\ Mods # {} /\ Command
    /\ voting' = TRUE
    /\ touched' = TRUE
    /\ UNCHANGED <<gotoUsed, yeaVotes, nayVotes, voted, started, stage, game, pause, flagVars,
                   padVars, main, raised>>

enablegoto ==
    /\ Mods # {} /\ Command
    /\ voting' = FALSE
    /\ touched' = TRUE
    /\ UNCHANGED <<gotoUsed, yeaVotes, nayVotes, voted, started, stage, game, pause, flagVars,
                   padVars, main, raised>>

disablechat ==
    /\ Mods # {} /\ Command
    /\ chatEnabled' = FALSE
    /\ UNCHANGED <<voteVars, controllerEnabled, currentGame, padVars, main, touched, raised>>

enablechat ==
    /\ Mods # {} /\ Command
    /\ chatEnabled' = TRUE
    /\ UNCHANGED <<voteVars, controllerEnabled, currentGame, padVars, main, touched, raised>>

\* !fixcontrollers keeps the main thread for some 20 seconds.
fixcontrollers ==
    /\ Plus # {} /\ Command
    /\ controllerEnabled' = FALSE /\ chatEnabled' = FALSE
    /\ main' = [do |-> "fix"]
    /\ UNCHANGED <<voteVars, currentGame, padVars, touched, raised>>

\* Mutant: only chat is enabled again.
FixDoneChat ==
    /\ main.do = "fix"
    /\ chatEnabled' = TRUE
    /\ main' = Idle
    /\ UNCHANGED <<voteVars, controllerEnabled, currentGame, padVars, modVars>>

FixDone ==
    /\ main.do = "fix"
    /\ controllerEnabled' = TRUE /\ chatEnabled' = TRUE
    /\ main' = Idle
    /\ UNCHANGED <<voteVars, currentGame, padVars, modVars>>

\* The end of handleChat: a valid message is queued if chat is enabled.
QueueCommand ==
    /\ main = Idle
    /\ chatEnabled
    /\ queued' = TRUE
    /\ UNCHANGED <<voteVars, flagVars, relay, main, modVars>>

decreaseQueue ==
    /\ main = Idle
    /\ queued
    /\ queued' = FALSE
    /\ UNCHANGED <<voteVars, flagVars, relay, main, modVars>>

-----------------------------------------------------------------------------
\* The socket thread: on_controller_state.

ReadEnabled(p) ==
    /\ relay = {}
    /\ controllerEnabled
    /\ p > 0 => currentGame \notin singlePlayerGames
    /\ relay' = {p}
    /\ UNCHANGED <<voteVars, flagVars, queued, main, modVars>>

RelaySend(p) ==
    /\ p \in relay
    /\ relay' = {}
    /\ UNCHANGED <<voteVars, flagVars, queued, main, modVars>>

-----------------------------------------------------------------------------

VoteThread(v) ==
    \/ EndVote(v) \/ CloseVote(v) \/ CloseRaises(v) \/ goto_game(v)
    \/ GotoArrives(v) \/ GotoGivesUp(v) \/ GotoRaises(v)
    \/ reenable_goto(v)

MainThread ==
    \/ \E g \in Games : goto_game_vote(g)
    \/ VoteNotStarted \/ GotoRefused
    \/ \E u \in Users : ReadVoting(u, "yea") \/ ReadVoting(u, "nay")
    \/ CountVote
    \/ disablegoto \/ enablegoto \/ disablechat \/ enablechat
    \/ fixcontrollers \/ FixDone
    \/ QueueCommand \/ decreaseQueue

SocketThread == \E p \in Pads : ReadEnabled(p) \/ RelaySend(p)

ControlsNext == MainThread \/ SocketThread \/ \E v \in Votes : VoteThread(v)

\* Timers fire, the threads of the votes go on, goto_game and !fixcontrollers
\* come to their end, one way or the other; nobody has to type anything.
Fairness ==
    /\ \A v \in Votes :
           /\ WF_controlVars(EndVote(v) \/ CloseVote(v) \/ CloseRaises(v) \/ goto_game(v))
           /\ WF_controlVars(GotoArrives(v) \/ GotoGivesUp(v) \/ GotoRaises(v))
           /\ WF_controlVars(reenable_goto(v))
    /\ WF_controlVars(CountVote)
    /\ WF_controlVars(FixDone)

ControlsSpec == ControlsInit /\ [][ControlsNext]_controlVars /\ Fairness

-----------------------------------------------------------------------------

Navigating(v) == stage[v] \in {"goto", "navigating"}

\* The console is taken to one game at a time: no two threads are in
\* goto_game, unless a mod switched the command meanwhile.  It rests on
\* end_goto_vote setting gotoUsed before it clears voting, and on the pause
\* outlasting goto_game (twitch-control.py:711-722).
OneGotoAtATime ==
    ~touched => \A v, w \in Votes : Navigating(v) /\ Navigating(w) => v = w

\* Why: every vote whose thread is at work holds the command, by voting before
\* its end and by gotoUsed, with a pause that is running, after it.
GotoInv ==
    /\ \A v \in Votes :
           /\ v > started => stage[v] = "none"
           /\ stage[v] = "none" => pause[v] = "none"
           /\ stage[v] = "open" => voting /\ ~gotoUsed /\ pause[v] = "none"
           /\ stage[v] \in {"leaving", "staying"} => voting
           /\ stage[v] \in {"leaving", "staying", "goto", "navigating"} => pause[v] = "running"
           /\ pause[v] = "running" => gotoUsed
    /\ \A v, w \in Votes :
           /\ stage[v] = "open" /\ stage[w] = "open" => v = w
           /\ pause[v] = "running" /\ pause[w] = "running" => v = w

\* Nobody votes twice: the counts of an open vote never exceed the voters,
\* unless a mod switched the command meanwhile (twitch-control.py:800-805).
OneVoteEach ==
    ~touched =>
        \A v \in Votes : stage[v] = "open" => yeaVotes + nayVotes <= Cardinality(voted)

\* What is turned off or taken has an owner who gives it back: the players'
\* controllers are off only while goto_game or !fixcontrollers is at work, and
\* !goto is taken only by a vote whose thread has not ended - or an exception
\* has ended the owner (twitch-control.py:404, 717, 951).
OffHasOwner ==
    /\ ~controllerEnabled =>
           \/ main.do = "fix" \/ \E v \in Votes : stage[v] = "navigating"
           \/ "goto" \in raised
    /\ voting =>
           \/ \E v \in Votes : stage[v] \in {"open", "leaving", "staying"}
           \/ touched \/ "vote" \in raised

\* A vote, once started, ends: voting is cleared, or a mod has taken it over,
\* or telling chat the result raised (twitch-control.py:717).
VotesEnd == voting ~> ~voting \/ touched \/ "vote" \in raised

\* The pause after a vote ends, whatever the mods do and whatever raises: its
\* Timer is started before chat is told (twitch-control.py:712, 725).
PausesEnd == gotoUsed ~> ~gotoUsed

\* Whatever turned the players' controllers off turns them on again, unless it
\* ended in an exception (twitch-control.py:607, 691, 1020).
ControlsComeBack == ~controllerEnabled ~> controllerEnabled \/ "goto" \in raised

\* twitch-control.py:403: "disable controls while we do this"; line 405 turns
\* the chat commands off, and so they are on again when it is done.
ChatComesBack == ~chatEnabled ~> chatEnabled \/ raised # {}

\* twitch-control.py:403: "disable controls while we do this": while goto_game
\* is at work no other thread sends to controller1.
ControlsOff ==
    [][(\E v \in Votes : stage[v] = "navigating") => ~(RelaySend(0) \/ decreaseQueue)]_controlVars

=============================================================================
