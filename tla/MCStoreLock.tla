---------------------------- MODULE MCStoreLock ----------------------------
(* StoreLock with three calls of acquire_lock on one key.                  *)
EXTENDS StoreLock
CONSTANTS c1, c2, c3

MCCaller == {c1, c2, c3}
============================================================================
