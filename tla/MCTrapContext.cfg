\* Nesting: one interrupt and one exception, each delegated or not.
SPECIFICATION CSpec
CONSTANTS
  Pcs = {1}
  Faults = {}
  FaultAddrs = {0}
  Lines = {}
  MstatusWrites <- MstatusWrite
  MipWrites <- SoftIrq
  MieWrites <- SoftIrq
  MidelegWrites <- SoftIrq
  MedelegWrites <- Illegal
  TvecWrites = {}
INVARIANTS FramesKept
PROPERTIES ContextResumed NoReentry
