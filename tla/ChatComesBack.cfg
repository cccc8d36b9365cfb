SPECIFICATION ControlsSpec
CONSTANTS
  Users = {u1, u2}
  Mods = {}
  Plus = {}
  Games = {smo}
  singlePlayerGames = {}
  MaxVotes = 2
  MaxMod = 1
PROPERTY ChatComesBack
