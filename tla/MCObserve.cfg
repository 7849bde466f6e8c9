SPECIFICATION FairSpec
CONSTANTS
  Observers = {o1}
  MaxEvents = 3
CHECK_DEADLOCK FALSE
INVARIANTS Gapless NothingMissed NoLostWakeup ReplayAgrees SnapshotIsACut
PROPERTIES ImplementsSubscribers ObservationEnds
