\* The escape key in the instruction that ends the program; no "si N".
SPECIFICATION DebuggerSpec
CONSTANTS
  Pcs = {1, 2}
  StepArgs = {2, 3}
  Commands = {"c"}
  Outcomes = {"retires", "ebreak"}
  Keys = {"esc"}
  MaxKeys = 1
  NR_WP = 2
  Exprs = {"e"}
  Modulus = 8
  Decimals = {3}
  HexNumbers = {}
  Gpr = {2}
  Mem <- TwoWords
  MaxWords = 1
PROPERTIES EndedIsFinal
