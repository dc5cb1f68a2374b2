SPECIFICATION FairSpec
CONSTANTS
  MaxEvents = 2
  BatchLimit = 2
  u1 = u1
  u2 = u2
  User = {u1, u2}
  Payload <- MCPayload
  Tick = {t1, t2}
  ManualRun = {m1}
  MaxFaults = 1
INVARIANTS TypeOK OldestFirst BoundedDuplicates ProcessedReachedEveryone
PROPERTIES FailedIsFinal EverySettled ImplementsDelivery
