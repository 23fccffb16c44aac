SPECIFICATION FairSpec
CONSTANT
  MaxEvents = 2
INVARIANTS
  PanelTrue
  OnlyWakes
PROPERTY
  CountdownShown
CHECK_DEADLOCK FALSE
