SPECIFICATION Spec
CONSTANTS
  MemSize = 2
  Gap = 6
  AccessTime = 2
  None = None
  Unknown = Unknown
INVARIANT NoContention
PROPERTIES AddressHeld IsRegisterFile
