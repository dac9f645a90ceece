CONSTANTS
  FirstYears <- FirstAndLastCycles
  LastDay = 3652058
  ClockDays <- TwoDays
  Usecs <- SomeUsecs
  Offsets <- ZoneOffsets
SPECIFICATION Spec
CHECK_DEADLOCK FALSE
INVARIANTS
  CalendarAgrees
  FieldsReadBack
  TextReadsBack
