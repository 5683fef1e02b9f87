\* Running: every command, instruction and key.  Watchpoints: four cells, so that a
\* deletion is at the head, in the middle or at the end of the list.  Expressions:
\* up to seven words over three-bit values, of which 5 is above the greatest signed one.
SPECIFICATION DebuggerSpec
CONSTANTS
  Pcs = {1, 2}
  StepArgs = {2, 3}
  Commands = {"c", "si", "si N", "x", "p", "malformed", "q"}
  Outcomes = {"retires", "ebreak", "invalid", "stray access"}
  Keys = {"esc", "eof", "other"}
  MaxKeys = 2
  NR_WP = 4
  Exprs = {"e", "f"}
  Modulus = 8
  Decimals = {3, 5}
  HexNumbers = {5}
  Gpr = {2}
  Mem <- TwoWords
  MaxWords = 7
INVARIANTS TypeOK StepsExact PromptStopped PoolPartitioned EvaluatesAsWritten
PROPERTIES EscapeStops TableSpec
