SPECIFICATION Spec
CONSTANTS
  a1 = a1
  Batch = {b1, b2}
  OutboxMaxAttempts = 2
  OutboxBatchSize = 1
  Asset = {a1}
  EventCap = 1
  HighBatch = {b1}
  AssetOf <- OneAsset
  MaxPipelineFaults = 1
  Event = {e1}
  TestEvent = test
  Sub = {s1}
  NotifyMaxAttempts = 2
  MaxNotifyFaults = 1
INVARIANTS
  DeliveryTypeOK
  NewAssetToldOnce
  DisappearanceTold
  NothingOwed
  RetriesAccounted
PROPERTIES
  OutboxRefines
  DeliveryRefines
CHECK_DEADLOCK FALSE
