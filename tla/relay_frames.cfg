SPECIFICATION RelaySpec
CONSTANTS
  Answer <- Streams
  Name = {"a", "b", "c"}
  Toolbox <- Toolboxes
  Fits <- Fitting
  MaxChunk = 5
  NoTool = "none"
CHECK_DEADLOCK FALSE
INVARIANTS StreamIsUntouched
