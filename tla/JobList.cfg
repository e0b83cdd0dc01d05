CONSTANTS
  Entry <- MCEntry
  Lists <- MCLists
  Channels <- MCChannels
  DeadHosts <- MCDeadHosts
  NUL = "nul"
SPECIFICATION Spec
INVARIANTS
  OneJobPerContainer
  NoFileTwice
  UnitsHaveTheirParent
  CoversWhatIsOn
  KeepsTheFirst
