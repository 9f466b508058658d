\* Two processes with competing statements about one purpose while the lamp comes and goes; no rollback.
CONSTANTS
  home = home  lamp = lamp  kitchen = kitchen  bedroom = bedroom
  purpose = purpose  place = place  reading = reading  sleeping = sleeping
  inKitchen = inKitchen  inBedroom = inBedroom  ref1 = ref1  ref2 = ref2
  w1 = w1  w2 = w2  absent = absent
  Absent = absent
  Subjects = {home, lamp}
  Keys = {purpose}
  Values = {reading, sleeping}
  Linked = {}
  Structural = {}
  TargetOf <- NoTarget
  SlotOf <- NoTarget
  Proposals <- Opinions
  Labels = {ref1, ref2}
  Catalogs <- LampCatalogs
  Attested = {}
  CallerEvidence <- ASecondSight
  Workers = {w1, w2}
  MaxItems = 2
  MaxConflicts = 2
  MaxEvents = 7
  MaxRollbacks = 0
SPECIFICATION Spec
INVARIANTS
  TypeOK
  OpenConflictHoldsCandidate
  NoDuplicateComplaint
  IndexIsCurrent
PROPERTIES
  UserWordStands
  HaConflictOnlyForHa
SYMMETRY Interchangeable
CHECK_DEADLOCK FALSE
