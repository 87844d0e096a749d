SPECIFICATION Spec
CONSTANT Keys <- MCKeys
INVARIANTS UsbTypeOK Enumerated KeyIsReported ListsWellFormed
