\* The constants of the scenario "exceptions"; the others are in MCTrap.
SPECIFICATION MCSpec
CONSTANTS
  Pcs = {1}
  Faults = {13}
  FaultAddrs = {5}
  Lines = {}
  MstatusWrites <- MstatusAllModes
  MipWrites = {}
  MieWrites = {}
  MidelegWrites = {}
  MedelegWrites <- DelegFaults
  TvecWrites = {}
INVARIANTS TypeOK InterruptJustified ExceptionDelivered EntryMasks
PROPERTIES TrapNeverLowersMode
