SPECIFICATION FairSessionSpec
CONSTANTS
  Targets = {t1, t2}
  Gens = {1, 2, 3, 4}
  Readings <- MCReadings
  MaxTargetAge = 1
  Deadman = 2
INVARIANTS
  SessionTypeOK
  SessionCoherent
PROPERTIES
  TrackedByOwnGoto
  AbandonedGotoIsStopped
  AcquireSettles
  DeadmanStops
