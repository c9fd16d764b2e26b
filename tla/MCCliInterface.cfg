SPECIFICATION Spec
CONSTANTS
  MaxBuffer = 5
  MaxLevel = 2
  MaxStream = 6
  MaxRead = 3
  Kinds = {"ascii", "two", "three", "continuation", "invalid"}
  MaxLine = 5
  MaxChunk = 4
  BufferLimit = 5
  MaxNoise = 4
  Required = {"localPath", "syncMode"}
  Optional = {"ignore"}
  MaxEdits = 2
  MaxDeaths = 2
INVARIANTS InterfaceInv FramesExact DecodedExact DialogueInv SyncsConfig
PROPERTIES Recovers RecordsExact NothingMissed
CHECK_DEADLOCK FALSE
