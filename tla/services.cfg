SPECIFICATION Spec
CONSTANTS
  k1 = k1
  k2 = k2
  c1 = c1
  c2 = c2
  r1 = r1
  r2 = r2
  r3 = r3
  Counter = {k1, k2}
  Amount <- Reported
  MaxCounted = 3
  Client = {c1, c2}
  Capacity = 2
  MaxEvents = 5
  Request = {r1, r2, r3}
  Cap = {0, 1, 2}
  Status = {200, 503}
  Conversation <- Conversations
  Context = 8
  Asked = {0, 3}
  MarginFloor = 1
  DefaultMargin = 2
  MarkerSize <- Two
  Attempts = 4
  Text <- Texts
  MaxPiece = 3
  Answer <- Streams
  Name = {"a", "b", "c"}
  Toolbox <- Toolboxes
  Fits <- Fitting
  MaxChunk = 5
  NoTool = "none"
CHECK_DEADLOCK FALSE
SYMMETRY Symmetry
INVARIANTS TypeOK Balanced RenderedIsTrue OnlyOldestAreLost InflightCounts EndsAreKept ChunkingIsInvisible StreamAgreesWithWhole StreamIsRelayed CallsAreRecovered UsageIsCountedOnce OllamaEndsOnce
PROPERTIES SentInOrder TrimIsEnough
