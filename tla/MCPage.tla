------------------------------- MODULE MCPage -------------------------------
(* Small instances of Page for TLC. *)
EXTENDS Page

=============================================================================
