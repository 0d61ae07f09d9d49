------------------------------ MODULE MCAFifo -------------------------------
EXTENDS AFifo
=============================================================================
