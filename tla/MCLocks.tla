------------------------------ MODULE MCLocks ------------------------------
EXTENDS SUSELocks

CONSTANTS a1, a2
=============================================================================
