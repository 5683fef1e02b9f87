----------------------------- MODULE MCConsole -----------------------------
\* TLC instance of Console; the constants are numbers in MCConsole.cfg.
EXTENDS Console
=============================================================================
