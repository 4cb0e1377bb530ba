------------------------------- MODULE Session -------------------------------
(***************************************************************************)
(* What the daemon promises the user about DNS, whatever fails, dies or    *)
(* interleaves (backend/torando_gui/app.py): the resolver is pinned to     *)
(* 127.0.0.1 only behind armed rules, the rules that make the pin work are *)
(* taken away only after the resolver is the user's own again, and a       *)
(* daemon that starts after a crash or a reboot serves no request before   *)
(* it has seen to an orphaned pin.                                         *)
(*                                                                         *)
(* Daemon is checked to implement this module.                             *)
(***************************************************************************)

VARIABLES
  resolver,   \* what the host resolves with: "real" or "pin"
  armed,      \* some user is routed through Tor and blocked otherwise
  serving     \* the daemon accepts requests

vars == <<resolver, armed, serving>>

Init == resolver = "real" /\ armed = FALSE /\ serving = TRUE

\* The last rule of a user's set goes in.
Arm == armed' = TRUE /\ UNCHANGED <<resolver, serving>>

Pin == armed /\ resolver' = "pin" /\ UNCHANGED <<armed, serving>>

Unpin == resolver' = "real" /\ UNCHANGED <<armed, serving>>

\* The first rule of the last routed user goes out.
Disarm == resolver = "real" /\ armed' = FALSE /\ UNCHANGED <<resolver, serving>>

\* The daemon dies; a reboot takes the rules with it, not the pin.
Die == serving' = FALSE /\ UNCHANGED <<resolver, armed>>
Reboot == serving' = FALSE /\ armed' = FALSE /\ UNCHANGED resolver

\* It serves again, with the pin it found or without it.
Serve ==
  /\ serving' = TRUE
  /\ resolver' \in {resolver, "real"}
  /\ resolver' = "pin" => armed
  /\ UNCHANGED armed

Next == Arm \/ Pin \/ Unpin \/ Disarm \/ Die \/ Reboot \/ Serve

Spec == Init /\ [][Next]_vars

=============================================================================
