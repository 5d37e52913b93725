----------------------------- MODULE MCLeaseQueue -----------------------------
\* Small instances of LeaseQueue for TLC.
EXTENDS LeaseQueue

CONSTANTS r1, r2, k1
=============================================================================
