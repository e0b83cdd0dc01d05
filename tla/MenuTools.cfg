CONSTANTS
  news = news
  v1 = v1
  v2 = v2
  Files <- MCFiles
  Content <- MCContent
  Torn = Torn
  NoFile = NoFile
  NoJournal = NoJournal
  Unreadable = Unreadable
  Faults <- VolumeFaults
SPECIFICATION MenuSpec
INVARIANTS
  OnlySpoiledIsLost
PROPERTIES
  RunEndsAnyway
