------------------------------ MODULE MCDpFifo ------------------------------
EXTENDS DpFifo
=============================================================================
