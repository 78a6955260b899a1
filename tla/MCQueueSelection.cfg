SPECIFICATION Spec
CONSTANTS
  FamilyLists <- SomeFamilyLists
  PoolResults <- SomePoolResults
INVARIANTS
  TypeOK
  FirstFamilyIsChosen
  QueuesDistinct
  IndicesDense
  PoolsServeQueues
  IndicesAreTheFamilies
CHECK_DEADLOCK FALSE
