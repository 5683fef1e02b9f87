---------------------------- MODULE MCSerialLink ----------------------------
\* TLC instance of SerialLink.
EXTENDS SerialLink
=============================================================================
