---------------------------- MODULE MCResolvConf -----------------------------
(* A small instance of ResolvConf for TLC. *)
EXTENDS ResolvConf

CONSTANTS home, cafe, office   \* leases

Leases == {home, cafe, office}

=============================================================================
