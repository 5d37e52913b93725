---------------------------- MODULE MCLivePoller ----------------------------
\* Small instances of LivePoller for TLC; the cfgs name replicas and coins.
EXTENDS LivePoller

CONSTANTS r1, r2, a, b, x
=============================================================================
