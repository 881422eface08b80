----------------------------- MODULE MCFifoGate -----------------------------
EXTENDS FifoGate
CONSTANTS c1, c2, c3, c4, c5
=============================================================================
