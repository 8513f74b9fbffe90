SPECIFICATION FairSpec
CONSTANTS
  t1 = t1
  t2 = t2
  Tasks <- MCTasks
  QueueCap = 1
  SaveLimit = 2
  MaxStops = 2
INVARIANTS
  SendNeverBlocks
  AnswersHold
  SettledWhenClosed
PROPERTIES
  NoStartAfterClose
  RecordsKept
  AcceptedSettle
CHECK_DEADLOCK FALSE
