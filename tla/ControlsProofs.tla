--------------------------- MODULE ControlsProofs ---------------------------
(***************************************************************************)
(* As long as no mod switches !goto on or off, the console is taken to one *)
(* game at a time, for any number of votes, users and games.               *)
(***************************************************************************)
EXTENDS Controls, FiniteSetTheorems, TLAPS

\* The part of the type invariant that the proof needs.
Stages == {"none", "open", "leaving", "staying", "goto", "navigating", "done"}

VoteTypes ==
    /\ started \in Nat
    /\ stage \in [Votes -> Stages]
    /\ pause \in [Votes -> {"none", "running", "over"}]

IInv == VoteTypes /\ GotoInv

\* The steps that leave the votes alone.
LEMMA OtherSteps ==
    ASSUME IInv, UNCHANGED <<voting, gotoUsed, started, stage, pause>>
    PROVE  IInv'
BY DEF IInv, VoteTypes, GotoInv, Votes, Stages

\* A new vote: nothing holds the command, so no other thread is at work.
LEMMA StartStep ==
    ASSUME IInv, NEW g \in Games, goto_game_vote(g)
    PROVE  IInv'
<1>1. ~voting /\ ~gotoUsed /\ voting' /\ gotoUsed' = gotoUsed /\ pause' = pause
  BY DEF goto_game_vote
<1>2. /\ started < MaxVotes /\ started' = started + 1
      /\ stage' = [stage EXCEPT ![started + 1] = "open"]
  BY DEF goto_game_vote
<1>3. started + 1 \in Votes /\ started \in Nat
  BY <1>2, ControlsAssumption DEF IInv, VoteTypes, Votes
<1>4. VoteTypes'
  BY <1>1, <1>2, <1>3 DEF IInv, VoteTypes, Stages
<1>5. ASSUME NEW v \in Votes, v # started + 1
      PROVE  /\ stage'[v] = stage[v] /\ pause'[v] = pause[v]
             /\ pause[v] # "running"
             /\ stage[v] \notin {"open", "leaving", "staying", "goto", "navigating"}
  BY <1>1, <1>2, <1>5 DEF IInv, VoteTypes, GotoInv
<1>6. stage'[started + 1] = "open" /\ pause'[started + 1] = "none"
  <2>1. started + 1 > started
    BY <1>3
  <2>2. stage[started + 1] = "none"
    BY <2>1, <1>3 DEF IInv, GotoInv
  <2>3. pause[started + 1] = "none"
    BY <2>2, <1>3 DEF IInv, GotoInv
  <2> QED
    BY <2>3, <1>1, <1>2, <1>3 DEF IInv, VoteTypes
<1>7. ASSUME NEW v \in Votes
      PROVE  (/\ v > started => stage[v] = "none"
              /\ stage[v] = "none" => pause[v] = "none"
              /\ stage[v] = "open" => voting /\ ~gotoUsed /\ pause[v] = "none"
              /\ stage[v] \in {"leaving", "staying"} => voting
              /\ stage[v] \in {"leaving", "staying", "goto", "navigating"} => pause[v] = "running"
              /\ pause[v] = "running" => gotoUsed)'
  <2>1. CASE v = started + 1
    BY <2>1, <1>1, <1>2, <1>3, <1>6
  <2>2. CASE v # started + 1
    <3>1. v > started + 1 => stage[v] = "none"
      BY <1>3 DEF IInv, GotoInv, Votes
    <3> QED
      BY <2>2, <3>1, <1>1, <1>2, <1>3, <1>5 DEF IInv, GotoInv
  <2> QED
    BY <2>1, <2>2
<1>8. ASSUME NEW v \in Votes, NEW w \in Votes
      PROVE  (/\ stage[v] = "open" /\ stage[w] = "open" => v = w
              /\ pause[v] = "running" /\ pause[w] = "running" => v = w)'
  BY <1>5, <1>6
<1> QED
  BY <1>4, <1>7, <1>8 DEF IInv, GotoInv

\* The end of a vote: no other vote is open and no pause is running.
LEMMA EndStep ==
    ASSUME IInv, NEW v \in Votes, EndVote(v)
    PROVE  IInv'
<1>1. PICK s \in {"leaving", "staying"} : stage' = [stage EXCEPT ![v] = s]
  BY DEF EndVote
<1>2. /\ stage[v] = "open" /\ gotoUsed' /\ voting' = voting /\ started' = started
      /\ pause' = [pause EXCEPT ![v] = "running"]
  BY DEF EndVote
<1>3. voting /\ ~gotoUsed /\ v <= started
  BY <1>2 DEF IInv, VoteTypes, GotoInv, Votes
<1>4. VoteTypes'
  BY <1>1, <1>2 DEF IInv, VoteTypes, Stages
<1>5. stage'[v] = s /\ pause'[v] = "running"
  BY <1>1, <1>2 DEF IInv, VoteTypes
<1>6. ASSUME NEW w \in Votes, w # v
      PROVE  /\ stage'[w] = stage[w] /\ pause'[w] = pause[w]
             /\ stage[w] # "open" /\ pause[w] # "running"
  BY <1>1, <1>2, <1>3, <1>6 DEF IInv, VoteTypes, GotoInv
<1>7. ASSUME NEW w \in Votes
      PROVE  (/\ w > started => stage[w] = "none"
              /\ stage[w] = "none" => pause[w] = "none"
              /\ stage[w] = "open" => voting /\ ~gotoUsed /\ pause[w] = "none"
              /\ stage[w] \in {"leaving", "staying"} => voting
              /\ stage[w] \in {"leaving", "staying", "goto", "navigating"} => pause[w] = "running"
              /\ pause[w] = "running" => gotoUsed)'
  <2>1. CASE w = v
    BY <2>1, <1>2, <1>3, <1>5 DEF IInv, VoteTypes, Votes
  <2>2. CASE w # v
    BY <2>2, <1>2, <1>3, <1>6 DEF IInv, GotoInv
  <2> QED
    BY <2>1, <2>2
<1>8. ASSUME NEW w \in Votes, NEW x \in Votes
      PROVE  (/\ stage[w] = "open" /\ stage[x] = "open" => w = x
              /\ pause[w] = "running" /\ pause[x] = "running" => w = x)'
  BY <1>5, <1>6
<1> QED
  BY <1>4, <1>7, <1>8 DEF IInv, GotoInv

\* voting is cleared: the pause of v shows that no vote is open, and that no
\* other thread is between its end and its goto_game.
LEMMA CloseStep ==
    ASSUME IInv, NEW v \in Votes, CloseVote(v)
    PROVE  IInv'
<1>1. PICK s \in {"goto", "done"} : stage' = [stage EXCEPT ![v] = s]
  BY DEF CloseVote
<1>2. /\ stage[v] \in {"leaving", "staying"} /\ ~voting' /\ gotoUsed' = gotoUsed
      /\ started' = started /\ pause' = pause
  BY DEF CloseVote
<1>3. gotoUsed /\ pause[v] = "running" /\ v <= started
  BY <1>2 DEF IInv, VoteTypes, GotoInv, Votes
<1>4. VoteTypes'
  BY <1>1, <1>2 DEF IInv, VoteTypes, Stages
<1>5. stage'[v] = s /\ pause'[v] = "running"
  BY <1>1, <1>2, <1>3 DEF IInv, VoteTypes
<1>6. ASSUME NEW w \in Votes, w # v
      PROVE  /\ stage'[w] = stage[w] /\ pause'[w] = pause[w] /\ pause[w] # "running"
             /\ stage[w] \notin {"open", "leaving", "staying"}
  BY <1>1, <1>2, <1>3, <1>6 DEF IInv, VoteTypes, GotoInv
<1>7. ASSUME NEW w \in Votes
      PROVE  (/\ w > started => stage[w] = "none"
              /\ stage[w] = "none" => pause[w] = "none"
              /\ stage[w] = "open" => voting /\ ~gotoUsed /\ pause[w] = "none"
              /\ stage[w] \in {"leaving", "staying"} => voting
              /\ stage[w] \in {"leaving", "staying", "goto", "navigating"} => pause[w] = "running"
              /\ pause[w] = "running" => gotoUsed)'
  <2>1. CASE w = v
    BY <2>1, <1>2, <1>3, <1>5 DEF IInv, VoteTypes, Votes
  <2>2. CASE w # v
    BY <2>2, <1>2, <1>3, <1>6 DEF IInv, GotoInv
  <2> QED
    BY <2>1, <2>2
<1>8. ASSUME NEW w \in Votes, NEW x \in Votes
      PROVE  (/\ stage[w] = "open" /\ stage[x] = "open" => w = x
              /\ pause[w] = "running" /\ pause[x] = "running" => w = x)'
  BY <1>5, <1>6
<1> QED
  BY <1>4, <1>7, <1>8 DEF IInv, GotoInv

\* The thread of v ends before it clears voting; its pause is running still.
LEMMA CloseRaisesStep ==
    ASSUME IInv, NEW v \in Votes, CloseRaises(v)
    PROVE  IInv'
<1>1. /\ stage[v] \in {"leaving", "staying"} /\ stage' = [stage EXCEPT ![v] = "done"]
      /\ UNCHANGED <<voting, gotoUsed, started, pause>>
  BY DEF CloseRaises
<1>2. pause[v] = "running" /\ v <= started
  BY <1>1 DEF IInv, VoteTypes, GotoInv, Votes
<1>3. VoteTypes'
  BY <1>1 DEF IInv, VoteTypes, Stages
<1>4. stage'[v] = "done" /\ \A w \in Votes : w # v => stage'[w] = stage[w]
  BY <1>1 DEF IInv, VoteTypes
<1> QED
  BY <1>1, <1>2, <1>3, <1>4 DEF IInv, GotoInv

\* goto_game only moves its own thread on, from one stage to a later one.
LEMMA GotoStep ==
    ASSUME IInv, NEW v \in Votes,
           goto_game(v) \/ GotoArrives(v) \/ GotoGivesUp(v) \/ GotoRaises(v)
    PROVE  IInv'
<1>1. PICK s \in {"navigating", "done"} : stage' = [stage EXCEPT ![v] = s]
  BY DEF goto_game, GotoArrives, GotoGivesUp, GotoRaises
<1>2. /\ stage[v] \in {"goto", "navigating"}
      /\ UNCHANGED <<voting, gotoUsed, started, pause>>
  BY DEF goto_game, GotoArrives, GotoGivesUp, GotoRaises
<1>3. pause[v] = "running" /\ v <= started
  BY <1>2 DEF IInv, VoteTypes, GotoInv, Votes
<1>4. VoteTypes'
  BY <1>1, <1>2 DEF IInv, VoteTypes, Stages
<1>5. stage'[v] = s
  BY <1>1 DEF IInv, VoteTypes
<1>6. \A w \in Votes : w # v => stage'[w] = stage[w]
  BY <1>1 DEF IInv, VoteTypes
<1> QED
  BY <1>2, <1>3, <1>4, <1>5, <1>6 DEF IInv, GotoInv

\* The pause ends after its thread, so that no thread is at work then.
LEMMA ReenableStep ==
    ASSUME IInv, NEW v \in Votes, reenable_goto(v)
    PROVE  IInv'
<1>1. /\ pause[v] = "running" /\ stage[v] = "done" /\ ~gotoUsed'
      /\ pause' = [pause EXCEPT ![v] = "over"]
      /\ UNCHANGED <<voting, started, stage>>
  BY DEF reenable_goto
<1>2. VoteTypes'
  BY <1>1 DEF IInv, VoteTypes
<1>3. pause'[v] = "over"
  BY <1>1 DEF IInv, VoteTypes
<1>4. ASSUME NEW w \in Votes, w # v
      PROVE  pause'[w] = pause[w] /\ pause[w] # "running"
  BY <1>1, <1>4 DEF IInv, VoteTypes, GotoInv
<1> QED
  BY <1>1, <1>2, <1>3, <1>4 DEF IInv, GotoInv

-----------------------------------------------------------------------------

\* The types hold whatever the mods do.
LEMMA TypesStep ==
    ASSUME VoteTypes, [ControlsNext]_controlVars
    PROVE  VoteTypes'
<1>1. ASSUME NEW v \in Votes, VoteThread(v) PROVE VoteTypes'
  BY <1>1 DEF VoteTypes, VoteThread, EndVote, CloseVote, CloseRaises, goto_game, GotoArrives,
              GotoGivesUp, GotoRaises, reenable_goto, Stages
<1>2. ASSUME NEW g \in Games, goto_game_vote(g) PROVE VoteTypes'
  <2>1. /\ started' = started + 1 /\ pause' = pause
        /\ stage' = [stage EXCEPT ![started + 1] = "open"]
    BY <1>2 DEF goto_game_vote
  <2>2. PICK n : n = started + 1
    OBVIOUS
  <2>3. "open" \in Stages
    BY DEF Stages
  <2>4. stage' \in [Votes -> Stages]
    BY <2>1, <2>2, <2>3 DEF VoteTypes
  <2> QED
    BY <2>1, <2>4 DEF VoteTypes
<1>3. CASE UNCHANGED <<started, stage, pause>>
  BY <1>3 DEF VoteTypes
<1> QED
  BY <1>1, <1>2, <1>3
  DEF ControlsNext, MainThread, SocketThread, VoteNotStarted, GotoRefused, ReadVoting, CountVote,
      disablegoto, enablegoto, disablechat, enablechat, fixcontrollers, FixDone, QueueCommand, decreaseQueue,
      ReadEnabled, RelaySend, controlVars, voteVars

\* A step that is not a mod switching !goto preserves the invariant.
LEMMA UntouchedStep ==
    ASSUME IInv, [ControlsNext]_controlVars, ~(disablegoto \/ enablegoto)
    PROVE  IInv'
<1>1. CASE MainThread
  <2>1. ASSUME NEW g \in Games, goto_game_vote(g) PROVE IInv'
    BY <2>1, StartStep
  <2>2. ASSUME NEW u \in Users, NEW side, ReadVoting(u, side) PROVE IInv'
    BY <2>2, OtherSteps DEF ReadVoting, voteVars
  <2>3. CASE CountVote \/ VoteNotStarted \/ GotoRefused
    BY <2>3, OtherSteps DEF CountVote, VoteNotStarted, GotoRefused, controlVars, voteVars
  <2>4. CASE disablechat \/ enablechat
    BY <2>4, OtherSteps DEF disablechat, enablechat, voteVars
  <2>5. CASE fixcontrollers \/ FixDone
    BY <2>5, OtherSteps DEF fixcontrollers, FixDone, voteVars
  <2>6. CASE QueueCommand \/ decreaseQueue
    BY <2>6, OtherSteps DEF QueueCommand, decreaseQueue, voteVars
  <2> QED
    BY <1>1, <2>1, <2>2, <2>3, <2>4, <2>5, <2>6 DEF MainThread
<1>2. CASE SocketThread
  BY <1>2, OtherSteps DEF SocketThread, ReadEnabled, RelaySend, voteVars
<1>3. ASSUME NEW v \in Votes, VoteThread(v) PROVE IInv'
  BY <1>3, EndStep, CloseStep, CloseRaisesStep, GotoStep, ReenableStep DEF VoteThread
<1>4. CASE UNCHANGED controlVars
  BY <1>4, OtherSteps DEF controlVars, voteVars
<1> QED
  BY <1>1, <1>2, <1>3, <1>4 DEF ControlsNext

\* Once a mod has switched !goto, touched stays.
LEMMA TouchedStep ==
    ASSUME [ControlsNext]_controlVars
    PROVE  /\ disablegoto \/ enablegoto => touched'
           /\ touched => touched'
<1>1. disablegoto \/ enablegoto => touched'
  BY DEF disablegoto, enablegoto
<1>2. touched' = touched \/ disablegoto \/ enablegoto
  BY DEF ControlsNext, MainThread, SocketThread, VoteThread, goto_game_vote, VoteNotStarted, GotoRefused,
         ReadVoting, CountVote, EndVote, CloseVote, CloseRaises, goto_game, GotoArrives,
         GotoGivesUp, GotoRaises, reenable_goto,
         disablechat, enablechat, fixcontrollers, FixDone, QueueCommand, decreaseQueue,
         ReadEnabled, RelaySend, controlVars, modVars
<1> QED
  BY <1>1, <1>2

\* No two threads are in goto_game at the same time, for any number of votes,
\* as long as no mod has switched the command.
THEOREM OneGoto == ControlsSpec => []OneGotoAtATime
<1> DEFINE K == VoteTypes /\ (~touched => IInv)
<1>1. ControlsInit => K
  BY ControlsAssumption DEF ControlsInit, IInv, VoteTypes, GotoInv, Stages
<1>2. K /\ [ControlsNext]_controlVars => K'
  <2> SUFFICES ASSUME K, [ControlsNext]_controlVars, ~touched' PROVE IInv'
    BY TypesStep
  <2>1. ~touched /\ ~(disablegoto \/ enablegoto)
    BY TouchedStep
  <2> QED
    BY <2>1, UntouchedStep
<1>3. K => OneGotoAtATime
  BY DEF IInv, GotoInv, OneGotoAtATime, Navigating
<1> QED
  BY <1>1, <1>2, <1>3, PTL DEF ControlsSpec

-----------------------------------------------------------------------------
\* Owners.

\* A vote that has not been started has no thread.
Fresh == \A v \in Votes : v > started => stage[v] = "none"

\* A vote that was not started has no thread.
LEMMA FreshStep ==
    ASSUME VoteTypes, Fresh, [ControlsNext]_controlVars
    PROVE  Fresh'
<1>1. ASSUME NEW v \in Votes, VoteThread(v) PROVE Fresh'
  <2>1. started' = started /\ \A w \in Votes : w # v => stage'[w] = stage[w]
    BY <1>1 DEF VoteThread, EndVote, CloseVote, CloseRaises, goto_game, GotoArrives, GotoGivesUp,
                GotoRaises, reenable_goto, VoteTypes
  <2>2. stage'[v] = stage[v] \/ stage[v] # "none"
    BY <1>1 DEF VoteThread, EndVote, CloseVote, CloseRaises, goto_game, GotoArrives, GotoGivesUp,
                GotoRaises, reenable_goto
  <2> QED
    BY <2>1, <2>2 DEF Fresh
<1>2. ASSUME NEW g \in Games, goto_game_vote(g) PROVE Fresh'
  <2>1. /\ started' = started + 1 /\ started \in Nat
        /\ \A w \in Votes : w # started + 1 => stage'[w] = stage[w]
    BY <1>2 DEF goto_game_vote, VoteTypes
  <2> QED
    BY <2>1 DEF Fresh, Votes
<1>3. CASE UNCHANGED <<started, stage>>
  BY <1>3 DEF Fresh
<1> QED
  BY <1>1, <1>2, <1>3
  DEF ControlsNext, MainThread, SocketThread, VoteNotStarted, GotoRefused, ReadVoting, CountVote,
      disablegoto, enablegoto, disablechat, enablechat, fixcontrollers, FixDone, QueueCommand,
      decreaseQueue, ReadEnabled, RelaySend, controlVars, voteVars

\* A thread that does not raise keeps or gives back what it holds.
LEMMA OwnerVote ==
    ASSUME VoteTypes, OffHasOwner, NEW v \in Votes, VoteThread(v)
    PROVE  OffHasOwner'
<1>1. CASE EndVote(v)
  <2>1. PICK s \in {"leaving", "staying"} : stage' = [stage EXCEPT ![v] = s]
    BY <1>1 DEF EndVote
  <2>2. stage'[v] = s /\ stage[v] = "open" /\ \A w \in Votes : w # v => stage'[w] = stage[w]
    BY <1>1, <2>1 DEF EndVote, VoteTypes
  <2> QED
    BY <1>1, <2>2 DEF EndVote, OffHasOwner, flagVars, modVars
<1>2. CASE CloseVote(v)
  <2>1. PICK s \in {"goto", "done"} : stage' = [stage EXCEPT ![v] = s]
    BY <1>2 DEF CloseVote
  <2>2. /\ stage[v] \in {"leaving", "staying"}
        /\ \A w \in Votes : w # v => stage'[w] = stage[w]
    BY <1>2, <2>1 DEF CloseVote, VoteTypes
  <2> QED
    BY <1>2, <2>2 DEF CloseVote, OffHasOwner, flagVars, modVars
<1>3. CASE CloseRaises(v) \/ GotoRaises(v)
  <2>1. \A w \in Votes : w # v => stage'[w] = stage[w]
    BY <1>3 DEF CloseRaises, GotoRaises, VoteTypes
  <2> QED
    BY <1>3, <2>1 DEF CloseRaises, GotoRaises, OffHasOwner, flagVars
<1>4. CASE goto_game(v)
  <2>1. /\ stage'[v] = "navigating" /\ stage[v] = "goto"
        /\ \A w \in Votes : w # v => stage'[w] = stage[w]
    BY <1>4 DEF goto_game, VoteTypes
  <2> QED
    BY <1>4, <2>1 DEF goto_game, OffHasOwner, modVars
<1>5. CASE GotoArrives(v) \/ GotoGivesUp(v)
  <2>1. stage[v] = "navigating" /\ \A w \in Votes : w # v => stage'[w] = stage[w]
    BY <1>5 DEF GotoArrives, GotoGivesUp, VoteTypes
  <2> QED
    BY <1>5, <2>1 DEF GotoArrives, GotoGivesUp, OffHasOwner, modVars
<1>6. CASE reenable_goto(v)
  BY <1>6 DEF reenable_goto, OffHasOwner, flagVars, modVars
<1> QED
  BY <1>1, <1>2, <1>3, <1>4, <1>5, <1>6 DEF VoteThread

\* What the main thread does: it starts votes, and drives !fixcontrollers.
LEMMA OwnerMain ==
    ASSUME VoteTypes, Fresh, OffHasOwner, MainThread
    PROVE  OffHasOwner'
<1>1. ASSUME NEW g \in Games, goto_game_vote(g) PROVE OffHasOwner'
  <2>1. started + 1 \in Votes /\ started + 1 > started
    BY <1>1, ControlsAssumption DEF goto_game_vote, VoteTypes, Votes
  <2>2. stage[started + 1] = "none"
    BY <2>1 DEF Fresh
  <2>3. /\ stage'[started + 1] = "open"
        /\ \A w \in Votes : w # started + 1 => stage'[w] = stage[w]
    BY <1>1, <2>1 DEF goto_game_vote, VoteTypes
  <2> QED
    BY <1>1, <2>1, <2>2, <2>3 DEF goto_game_vote, OffHasOwner, flagVars, modVars
<1>2. ASSUME NEW u \in Users, NEW side, ReadVoting(u, side) PROVE OffHasOwner'
  <2>1. main.do # "fix"
    BY <1>2 DEF ReadVoting, Idle
  <2> QED
    BY <1>2, <2>1 DEF ReadVoting, OffHasOwner, voteVars, flagVars, modVars
<1>3. CASE CountVote
  <2>1. main.do # "fix"
    BY <1>3 DEF CountVote
  <2> QED
    BY <1>3, <2>1 DEF CountVote, OffHasOwner, flagVars, modVars
<1>4. CASE disablegoto \/ enablegoto
  BY <1>4 DEF disablegoto, enablegoto, OffHasOwner, flagVars
<1>5. CASE disablechat \/ enablechat
  BY <1>5 DEF disablechat, enablechat, OffHasOwner, voteVars
<1>6. CASE fixcontrollers
  <2>1. main'.do = "fix"
    BY <1>6 DEF fixcontrollers
  <2> QED
    BY <1>6, <2>1 DEF fixcontrollers, OffHasOwner, voteVars
<1>7. CASE FixDone
  BY <1>7 DEF FixDone, OffHasOwner, voteVars, modVars
<1>8. CASE VoteNotStarted \/ GotoRefused \/ QueueCommand \/ decreaseQueue
  BY <1>8 DEF VoteNotStarted, GotoRefused, QueueCommand, decreaseQueue, OffHasOwner, controlVars,
              voteVars, flagVars, modVars
<1> QED
  BY <1>1, <1>2, <1>3, <1>4, <1>5, <1>6, <1>7, <1>8 DEF MainThread

\* Nothing stays off or taken without an owner, for any number of votes, users
\* and mods, unless an exception ended the owner.
THEOREM Owners == ControlsSpec => []OffHasOwner
<1> DEFINE K == VoteTypes /\ Fresh /\ OffHasOwner
<1>1. ControlsInit => K
  BY ControlsAssumption DEF ControlsInit, VoteTypes, Fresh, OffHasOwner, Stages
<1>2. K /\ [ControlsNext]_controlVars => K'
  <2> SUFFICES ASSUME K, [ControlsNext]_controlVars PROVE OffHasOwner'
    BY TypesStep, FreshStep
  <2>1. CASE SocketThread
    BY <2>1 DEF SocketThread, ReadEnabled, RelaySend, OffHasOwner, voteVars, flagVars, modVars
  <2>2. CASE UNCHANGED controlVars
    BY <2>2 DEF OffHasOwner, controlVars, voteVars, flagVars, modVars
  <2> QED
    BY <2>1, <2>2, OwnerVote, OwnerMain DEF ControlsNext
<1>3. K => OffHasOwner
  OBVIOUS
<1> QED
  BY <1>1, <1>2, <1>3, PTL DEF ControlsSpec

-----------------------------------------------------------------------------
\* Counting.

CountTypes ==
    /\ yeaVotes \in Nat /\ nayVotes \in Nat
    /\ voted \subseteq Users
    /\ main.do = "count" => main.user \in Users

\* The types of what counts the votes.
LEMMA CountTypesStep ==
    ASSUME CountTypes, [ControlsNext]_controlVars
    PROVE  CountTypes'
<1>1. ASSUME NEW v \in Votes, VoteThread(v) PROVE CountTypes'
  BY <1>1 DEF VoteThread, EndVote, CloseVote, CloseRaises, goto_game, GotoArrives, GotoGivesUp,
              GotoRaises, reenable_goto, CountTypes
<1>2. ASSUME NEW g \in Games, goto_game_vote(g) PROVE CountTypes'
  BY <1>2 DEF goto_game_vote, CountTypes
<1>3. ASSUME NEW u \in Users, NEW side, ReadVoting(u, side) PROVE CountTypes'
  <2>1. main'.user = u
    BY <1>3 DEF ReadVoting
  <2> QED
    BY <1>3, <2>1 DEF ReadVoting, voteVars, CountTypes
<1>4. CASE CountVote
  <2>1. main.do = "count" /\ main' = Idle
    BY <1>4 DEF CountVote
  <2>2. main'.do # "count"
    BY <2>1 DEF Idle
  <2> QED
    BY <1>4, <2>1, <2>2 DEF CountVote, CountTypes
<1>5. CASE VoteNotStarted
  BY <1>5 DEF VoteNotStarted, CountTypes
<1>6. CASE fixcontrollers \/ FixDone
  <2>1. main'.do # "count" /\ UNCHANGED <<yeaVotes, nayVotes, voted>>
    BY <1>6 DEF fixcontrollers, FixDone, Idle, voteVars
  <2> QED
    BY <2>1 DEF CountTypes
<1>7. CASE UNCHANGED <<yeaVotes, nayVotes, voted, main>>
  BY <1>7 DEF CountTypes
<1> QED
  BY <1>1, <1>2, <1>3, <1>4, <1>5, <1>6, <1>7
  DEF ControlsNext, MainThread, SocketThread, GotoRefused, disablegoto, enablegoto, disablechat, enablechat,
      QueueCommand, decreaseQueue, ReadEnabled, RelaySend, controlVars, voteVars

\* The count of the open vote, given that its thread holds the command.
Counted == \A v \in Votes : stage[v] = "open" => yeaVotes + nayVotes <= Cardinality(voted)

\* One vote more for one voter more.
LEMMA OneMore ==
    ASSUME NEW y \in Nat, NEW n \in Nat, NEW y1 \in Nat, NEW n1 \in Nat, NEW c \in Nat,
           y1 + n1 <= y + n + 1, y + n <= c
    PROVE  y1 + n1 <= c + 1
OBVIOUS

\* No voter is counted twice while goto is not switched off and on.
LEMMA CountedStep ==
    ASSUME IInv, CountTypes, Counted, [ControlsNext]_controlVars, ~(disablegoto \/ enablegoto)
    PROVE  Counted'
<1>1. ASSUME NEW S \in SUBSET Users PROVE IsFiniteSet(S) /\ Cardinality(S) \in Nat
  BY ControlsAssumption, FS_Subset, FS_CardinalityType
<1>2. ASSUME NEW v \in Votes, VoteThread(v) PROVE Counted'
  <2>1. CASE CloseVote(v) \/ goto_game(v)
    <3>1. stage[v] \in {"leaving", "staying", "goto"}
      BY <2>1 DEF CloseVote, goto_game
    <3>2. gotoUsed
      BY <3>1 DEF IInv, GotoInv
    <3>3. \A w \in Votes : stage[w] # "open"
      BY <3>2 DEF IInv, GotoInv
    <3>4. \A w \in Votes : stage'[w] # "open"
      BY <2>1, <3>3 DEF CloseVote, goto_game, IInv, VoteTypes
    <3> QED
      BY <3>4 DEF Counted
  <2>2. CASE ~(CloseVote(v) \/ goto_game(v))
    <3>1. UNCHANGED <<yeaVotes, nayVotes, voted>>
      BY <1>2, <2>2 DEF VoteThread, EndVote, CloseRaises, GotoArrives, GotoGivesUp, GotoRaises,
                        reenable_goto
    <3>2. \A w \in Votes : stage'[w] = "open" => stage[w] = "open"
      BY <1>2, <2>2 DEF VoteThread, EndVote, CloseRaises, GotoArrives, GotoGivesUp, GotoRaises,
                        reenable_goto, IInv, VoteTypes
    <3> QED
      BY <3>1, <3>2 DEF Counted
  <2> QED
    BY <2>1, <2>2
<1>3. ASSUME NEW g \in Games, goto_game_vote(g) PROVE Counted'
  <2>1. yeaVotes' = 0 /\ nayVotes' = 0 /\ voted' = voted
    BY <1>3 DEF goto_game_vote
  <2>2. Cardinality(voted) \in Nat
    BY <1>1 DEF CountTypes
  <2> QED
    BY <2>1, <2>2 DEF Counted
<1>4. CASE VoteNotStarted
  <2>1. yeaVotes' = 0 /\ nayVotes' = 0 /\ voted' = voted
    BY <1>4 DEF VoteNotStarted
  <2>2. Cardinality(voted) \in Nat
    BY <1>1 DEF CountTypes
  <2> QED
    BY <2>1, <2>2 DEF Counted
<1>5. CASE CountVote
  <2>1. stage' = stage /\ main.do = "count"
    BY <1>5 DEF CountVote
  <2>2. CASE main.user \in voted
    BY <1>5, <2>1, <2>2 DEF CountVote, Counted
  <2>3. CASE main.user \notin voted
    <3>1. Cardinality(voted \cup {main.user}) = Cardinality(voted) + 1
      BY <1>1, <2>3, FS_AddElement DEF CountTypes
    <3>2. voted' = voted \cup {main.user}
      BY <1>5, <2>3 DEF CountVote
    <3>3. yeaVotes' + nayVotes' <= yeaVotes + nayVotes + 1
      BY <1>5, <2>3 DEF CountVote, CountTypes
    <3>4. /\ yeaVotes \in Nat /\ nayVotes \in Nat /\ Cardinality(voted) \in Nat
          /\ yeaVotes' \in Nat /\ nayVotes' \in Nat
      BY <1>1, <1>5, <2>3 DEF CountVote, CountTypes
    <3>5. yeaVotes + nayVotes <= Cardinality(voted)
              => yeaVotes' + nayVotes' <= Cardinality(voted) + 1
      BY <3>3, <3>4, OneMore, Zenon
    <3>6. Cardinality(voted') = Cardinality(voted) + 1
      BY <3>1, <3>2
    <3> QED
      BY <2>1, <3>5, <3>6 DEF Counted
  <2> QED
    BY <2>2, <2>3
<1>6. CASE UNCHANGED <<stage, yeaVotes, nayVotes, voted>>
  BY <1>6 DEF Counted
<1> QED
  BY <1>2, <1>3, <1>4, <1>5, <1>6
  DEF ControlsNext, MainThread, SocketThread, GotoRefused, ReadVoting, disablechat, enablechat, fixcontrollers,
      FixDone, QueueCommand, decreaseQueue, ReadEnabled, RelaySend, controlVars, voteVars

\* Nobody is counted twice in a vote, for any number of votes and any finite
\* number of users, as long as no mod has switched the command.
THEOREM VotesCounted == ControlsSpec => []OneVoteEach
<1> DEFINE K == VoteTypes /\ CountTypes /\ (~touched => IInv /\ Counted)
<1>1. ControlsInit => K
  BY ControlsAssumption
  DEF ControlsInit, IInv, VoteTypes, CountTypes, Counted, GotoInv, Stages, Idle
<1>2. K /\ [ControlsNext]_controlVars => K'
  <2> SUFFICES ASSUME K, [ControlsNext]_controlVars, ~touched' PROVE IInv' /\ Counted'
    BY TypesStep, CountTypesStep
  <2>1. ~touched /\ ~(disablegoto \/ enablegoto)
    BY TouchedStep
  <2> QED
    BY <2>1, UntouchedStep, CountedStep
<1>3. K => OneVoteEach
  BY DEF Counted, OneVoteEach
<1> QED
  BY <1>1, <1>2, <1>3, PTL DEF ControlsSpec

=============================================================================
