CONSTANTS
  m1 = m1
  m2 = m2
  m3 = m3
  Mbx = Mbx
  Ctl = Ctl
  Files <- MCFiles
  Content <- MCContent
  Messages <- MCMessages
  Capacity = 3
  MaxBatch = 2
  VWiiFirst = TRUE
  NoMessage = NoMessage
  NoCopy = NoCopy
  Torn = Torn
  NoFile = NoFile
  NoJournal = NoJournal
  Unreadable = Unreadable
  Faults <- MaskedFaults
SPECIFICATION Spec
INVARIANTS
  TypeOK
  TornIsRecoverable
  OnlyExposedDangle
PROPERTIES
  AtomicDelivery
SYMMETRY Symmetry
