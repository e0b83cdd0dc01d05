CONSTANTS
  m1 = m1
  m2 = m2
  m3 = m3
  Mbx = Mbx
  Ctl = Ctl
  Files <- MCFiles
  Content <- MCContent
  Messages <- MCMessages
  Capacity = 3
  MaxSend = 2
  VWiiFirst = TRUE
  NoMessage = NoMessage
  Torn = Torn
  NoFile = NoFile
  NoJournal = NoJournal
  Unreadable = Unreadable
  Faults <- MaskedFaults
SYMMETRY Symmetric
SPECIFICATION Spec
INVARIANTS
  TypeOK
  TornIsRecoverable
PROPERTIES
  NothingUnsentIsForgotten
