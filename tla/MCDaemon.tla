------------------------------ MODULE MCDaemon ------------------------------
(* TLC instances of Daemon: two daemons, one after the other or at once.   *)
EXTENDS Daemon
CONSTANTS p1, p2, u1, u2
=============================================================================
