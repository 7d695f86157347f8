SPECIFICATION Spec
CONSTANTS
  Request = {r1}
  Folders = 4
  Phase = 4
PROPERTY ReconsentIsNamed
