CONSTANTS
  Events = {e1, e2, last}
  Closing = {last}
  NoEvent = NoEvent
  Size = 3
  MaxRef = 2
SPECIFICATION Spec
INVARIANTS
  TypeOK
  RefsAreHolders
  WakesForTheFirst
  FreedIsQuiet
CHECK_DEADLOCK FALSE
