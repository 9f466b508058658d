\* A catalog conflict about a memory that was replaced before Home Assistant restored it.
CONSTANTS
  home = home  lamp = lamp  kitchen = kitchen  bedroom = bedroom
  purpose = purpose  place = place  reading = reading  sleeping = sleeping
  inKitchen = inKitchen  inBedroom = inBedroom  ref1 = ref1  ref2 = ref2
  w1 = w1  w2 = w2  absent = absent
  Absent = absent
  Subjects = {home, lamp}
  Keys = {purpose}
  Values = {reading, sleeping}
  Linked = {}
  Structural = {}
  TargetOf <- NoTarget
  SlotOf <- NoTarget
  Proposals <- Disagreement
  Labels = {ref1, ref2}
  Catalogs <- LampCatalogs
  Attested = {}
  CallerEvidence = {}
  Workers = {w1}
  MaxItems = 2
  MaxConflicts = 3
  MaxEvents = 8
  MaxRollbacks = 0
SPECIFICATION Spec
INVARIANTS
  RestoredStructureClosesConflict
CHECK_DEADLOCK FALSE
