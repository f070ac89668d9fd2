----------------------------- MODULE MCLaunchClaim -----------------------------
EXTENDS LaunchClaim

CONSTANTS t1, t2, pid1, pid2, pid3
=============================================================================
