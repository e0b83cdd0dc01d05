CONSTANTS
  n1 = n1
  n2 = n2
  Names <- MCNames
  Headers <- MCHeaders
  Job = Job
  Tool = Tool
  None = None
  Gone = Gone
SYMMETRY Symmetric
SPECIFICATION Spec
INVARIANTS
  TypeOK
  OnlySharedDangles
  VolumeFits
  CompleteWhenAlone
