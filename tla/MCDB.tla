-------------------------------- MODULE MCDB ---------------------------------
EXTENDS DBInv
==============================================================================
