--------------------------- MODULE MCConsoleDriver ---------------------------
\* TLC instance of ConsoleDriver; the constants are numbers in the cfg.
EXTENDS ConsoleDriver
=============================================================================
