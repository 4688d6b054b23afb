CONSTANTS
  a = a
  b = b
  Messages <- MCMessages
  MaximumReassemblies = 2
  ReassemblyTimeout = 2
SPECIFICATION Spec
INVARIANT ConflictInvalidates
