CONSTANTS
  Panels = {"p", "q"}
  Topics = {"s", "t"}
  MaxFrames = 2
  MaxCalls = 3
  MaxPlayers = 2
SPECIFICATION Spec
CHECK_DEADLOCK FALSE
INVARIANTS
  TypeOK
  MessagesHanded
PROPERTIES
  FramesEnd
  PlayerTold
