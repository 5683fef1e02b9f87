------------------------------ MODULE MCDifftest ------------------------------
EXTENDS Difftest
=============================================================================
