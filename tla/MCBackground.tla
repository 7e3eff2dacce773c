---------------------------- MODULE MCBackground -----------------------------
EXTENDS Background
==============================================================================
