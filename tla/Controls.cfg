SPECIFICATION ControlsSpec
CONSTANTS
  Users = {u1, u2}
  Mods = {m1}
  Plus = {p1}
  Games = {botw}
  singlePlayerGames = {botw}
  MaxVotes = 2
  MaxMod = 1
INVARIANTS OneGotoAtATime OneVoteEach OffHasOwner
PROPERTIES VotesEnd PausesEnd ControlsComeBack
