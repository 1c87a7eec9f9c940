\* Backpressure during an insert of part of a batch.
SPECIFICATION Spec
CONSTANTS
  QUEUE_MAX = 3
  BATCH_MAX = 2
  RETRY_MAX = 1
  MaxRows = 5
  MaxCrashes = 0
  MaxStoreFails = 0
  MaxWalFails = 0
PROPERTY DeletedOnlyAfterInsert
