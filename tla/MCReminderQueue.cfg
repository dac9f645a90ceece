CONSTANTS
  Nodes <- MCNodes
  Nil = Nil
  Reminders <- MCReminders
  TimestampOf <- MCTimestampOf
  PayloadOf <- MCPayloadOf
  Times <- MCTimes
  Payloads <- MCPayloads
  MaxId = 6
SPECIFICATION Spec
CHECK_DEADLOCK FALSE
INVARIANT TreeInOrder
PROPERTY ImplementsTimerQueue
