------------------------------ MODULE MCSdCard ------------------------------
EXTENDS SdCard, TLC
CONSTANTS sd1, combo
=============================================================================
