\* Reserved relationships that follow Home Assistant, evidence for them, and undoing that history.
CONSTANTS
  home = home  lamp = lamp  kitchen = kitchen  bedroom = bedroom
  purpose = purpose  place = place  reading = reading  sleeping = sleeping
  inKitchen = inKitchen  inBedroom = inBedroom  ref1 = ref1  ref2 = ref2
  w1 = w1  w2 = w2  absent = absent
  Absent = absent
  Subjects = {home, lamp, kitchen, bedroom}
  Keys = {place, purpose}
  Values = {inKitchen, inBedroom}
  Linked = {inKitchen, inBedroom}
  Structural = {inKitchen, inBedroom}
  TargetOf <- MCTargetOf
  SlotOf <- MCSlotOf
  Proposals <- Places
  Labels = {ref1, ref2}
  Catalogs <- PlaceCatalogs
  Attested <- LampAnywhere
  CallerEvidence <- ASecondSight
  Workers = {w1}
  MaxItems = 2
  MaxConflicts = 2
  MaxEvents = 7
  MaxRollbacks = 3
SPECIFICATION Spec
INVARIANTS
  OneAppliedPerSlot
  AppliedRestsOnEvidence
  ReferencesResolve
  UndoIsCausal
PROPERTIES
  ApplyIsBacked
CHECK_DEADLOCK FALSE
