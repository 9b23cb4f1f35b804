------------------------------ MODULE MCPowerSeq ------------------------------
\* PowerSeq for TLC.  The constants are numbers and are given in the .cfg files.
EXTENDS PowerSeq
=============================================================================
