CONSTANTS
  m1 = m1
  m2 = m2
  m3 = m3
  Mbx = Mbx
  Ctl = Ctl
  Files <- MCFiles
  Content <- MCContent
  Messages <- MCMessages
  Capacity = 2
  MaxBatch = 2
  VWiiFirst = FALSE
  NoMessage = NoMessage
  NoCopy = NoCopy
  Torn = Torn
  NoFile = NoFile
  NoJournal = NoJournal
  Unreadable = Unreadable
  Faults = {}
SPECIFICATION Spec
INVARIANTS
  IndexMatchesMailbox
