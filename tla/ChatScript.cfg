SPECIFICATION ScriptSpec
CONSTANTS
  Names = {n1}
  Garbled = garbled
  MaxMessages = 3
  MaxEnds = 3
INVARIANTS FilesHoldLists StaysConnected
PROPERTIES RestartKeeps NoDeafScript ListsReachServer
