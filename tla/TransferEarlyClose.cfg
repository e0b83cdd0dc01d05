CONSTANTS
  m1 = m1
  m2 = m2
  Messages <- MCMessages
  NetFaults <- AllFaults
SPECIFICATION Spec
INVARIANT
  NothingIsUnheard
