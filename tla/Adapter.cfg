CONSTANT MaxItems = 3
SPECIFICATION Spec
INVARIANTS AdapterTypeOK IdIsTold
PROPERTIES KeepsContract CancelReturns ShowsTheFeed LeftFeedEnds EndIsShown
CHECK_DEADLOCK FALSE
