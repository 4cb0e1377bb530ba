------------------------------ MODULE MCLogBus ------------------------------
(* Small instances of LogBus for TLC: the capacities stand for 500 and 256. *)
EXTENDS LogBus

CONSTANTS connect, disconnect, other, page1

=============================================================================
