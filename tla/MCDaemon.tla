------------------------------ MODULE MCDaemon ------------------------------
EXTENDS Daemon

CONSTANTS p1, p2, p3, none
=============================================================================
