SPECIFICATION FairSpec
CONSTANTS
  c1 = c1
  c2 = c2
  e1 = e1
  s1 = s1
  p1 = p1
  p2 = p2
  Caller = {c1, c2}
  Evictor = {e1}
  Stopper = {s1}
  Proc = {p1, p2}
  None = none
  SignalRace = FALSE

INVARIANTS TypeOK OneEmbedder StateIsTrue
PROPERTIES StopLeavesNothing EventsInOrder ImplementsSlot EveryoneIsAnswered
