-------------------------------- MODULE MCWal --------------------------------
EXTENDS Wal
==============================================================================
