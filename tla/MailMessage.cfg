CONSTANTS
  Fetched <- MCFetched
  Written <- MCWritten
  Width <- MCWidth
  Offsets = 1024
  Lengths = 64
  None = None
SPECIFICATION MessageSpec
INVARIANTS
  FieldsPointAtValues
  BodyIsThePart
  ParsesBack
CHECK_DEADLOCK FALSE
