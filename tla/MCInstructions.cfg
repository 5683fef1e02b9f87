\* Every access in every mode over every memory the guest can build.  Up to three
\* increments: each thread and the kernel can come between the lr and the sc of another.
\* Bodies: the operands at the bounds of eight and four bits; the pc wraps.
SPECIFICATION InstructionSpec
CONSTANTS
  Levels = 2
  Radix = 2
  Ram = {0, 1}
  Words <- StoredWords
  StatusWrites <- StatusValues
  Roots = {0}
  Threads = {1, 2, 3}
  Kernel = 0
  Width <- ThreadWidth
  MaxCount = 3
  XLEN = 8
  ImmBits = 3
  UimmBits = 2
  Operands = {0, 1, 7, 8, 15, 127, 128, 248, 255}
  Pc = 252
  Funct7s <- SomeFunct7s
  Rs2s = {0, 1, 2, 5}
  Opcodes <- AllOpcodes
INVARIANTS NoLostUpdate DecodesOneWay
PROPERTIES Confined FaultsPrecise NoSpuriousFailure ComputesAsSpecified
