SPECIFICATION Spec
CONSTANTS
  Collections <- FourEach
  NewDocument <- TheFifth
  Callers <- TwoCallers
  Options <- SomeOptions
  MaxWrites = 1
CHECK_DEADLOCK FALSE
INVARIANTS
  ListsWhatMatches
  PagesShiftOneWay
