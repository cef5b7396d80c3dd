---------------------------- MODULE MCSupervisor ----------------------------
(* Supervisor on a small instance: a contract whose stream is broken, an    *)
(* account, one process that is started with --once or without.             *)
EXTENDS Supervisor

CONSTANTS c1, a1, p1
=============================================================================
