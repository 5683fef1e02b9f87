\* A page fault of a load-reserved.
SPECIFICATION InstructionSpec
CONSTANTS
  Levels = 2
  Radix = 2
  Ram = {0, 1}
  Words <- StoredWords
  StatusWrites <- StatusValues
  Roots = {0}
  Threads = {1, 2, 3}
  Kernel = 0
  Width <- ThreadWidth
  XLEN = 8
  ImmBits = 3
  UimmBits = 2
  Operands = {0}
  Pc = 0
  Funct7s = {0}
  Rs2s = {0}
  Opcodes = {3}
  MaxCount = 3
PROPERTIES ReservedFaultHandled
