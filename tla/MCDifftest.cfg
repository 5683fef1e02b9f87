\* Every instruction; registers and memory hold bits.
SPECIFICATION DiffSpec
CONSTANTS
  Values = {0, 1}
  Kinds = {"set", "load", "store", "load device", "store device",
           "write scratch", "read scratch", "enable", "disable", "read mip",
           "ecall", "missing csr", "return", "ebreak"}
INVARIANTS LockStep AlarmsExplained DefectsFound
