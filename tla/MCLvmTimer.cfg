SPECIFICATION FairSpec
CONSTANTS
  a = a
  b = b
  TimerIds = {a}
  NoId = NoId
  MaxPosts = 3
  MaxInbox = 2
INVARIANTS TypeOK EntryHasWait OneWaitEach NoDeadCallback
PROPERTIES TimeIsServed RepeatTicks
