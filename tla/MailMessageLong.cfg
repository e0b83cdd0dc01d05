CONSTANTS
  Fetched <- NoTexts
  Written <- LongSubject
  Width <- MCWidth
  Offsets = 1024
  Lengths = 64
  None = None
SPECIFICATION MessageSpec
INVARIANT
  FieldsPointAtValues
CHECK_DEADLOCK FALSE
