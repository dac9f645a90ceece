CONSTANTS
  d = d
  o = o
  Queues <- MCQueues
  NoQueue = NoQueue
  Events <- MCEvents
  EventsOf <- MCEventsOf
  NoEvent = NoEvent
  Times <- MCTimes
  Now = 2
  Settings <- MCSettings
  MaxNodes = 3
  PendingSize = 2
  MaxPushes <- MCMaxPushes
  MaxReminders = 2
SPECIFICATION Spec
INVARIANTS
  TypeOK
  EventsInTurn
  RemindersFirst
  PriorityKept
PROPERTY SavedIsKept
CHECK_DEADLOCK FALSE
