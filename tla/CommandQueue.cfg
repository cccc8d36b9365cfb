SPECIFICATION QueueSpec
CONSTANTS
  Messages <- SomeMessages
  MaxChat = 3
  MaxBatch = 2
  pluslist = {}
  modlist <- Mods
INVARIANTS QueueTypeOK Released
PROPERTIES ChatFirst AllPlayed
