CONSTANTS
  d = d
  o = o
  Queues <- MCQueues
  NoQueue = NoQueue
  Events <- MCEvents
  EventsOf <- MCEventsOf
  NoEvent = NoEvent
  Times <- MCTimes
  Now = 2
  Settings <- MCAsWritten
  MaxNodes = 3
  PendingSize = 2
  MaxPushes <- MCMaxPushes
  MaxReminders = 2
SPECIFICATION Spec
INVARIANT PopsReachTheLoop
CHECK_DEADLOCK FALSE
