CONSTANTS
  m1 = m1
  m2 = m2
  Messages <- MCMessages
  NetFaults <- AllFaults
SPECIFICATION Spec
INVARIANTS
  LostOnlyInTransit
PROPERTIES
  OnlyTheLastIsTorn
  StoresWholeContent
  RetiresOnlyTaken
  WaitsOnlyForSilence
