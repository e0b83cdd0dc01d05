CONSTANTS
  news = news
  forecast = forecast
  v1 = v1
  v2 = v2
  Files <- MCFiles
  Content <- MCContent
  Torn = Torn
  NoFile = NoFile
  NoJournal = NoJournal
  Unreadable = Unreadable
  Faults = {"misread"}
SPECIFICATION Spec
INVARIANTS
  RunLeavesNoJournal
