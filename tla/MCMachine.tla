----------------------------- MODULE MCMachine ------------------------------
(* Small instances of Machine for TLC. *)
EXTENDS MachineInv

AllProfiles == <<"domain", "private", "public">>
TwoProfiles == <<"private", "public">>

TwoAdapters == <<"wifi", "ethernet">>
TheirDns == [wifi |-> "dhcp", ethernet |-> "static"]

\* lock_resolv on and off, with the allow rules that are needed and one more.
Conf(lock_resolv, allow_dhcp) ==
  [lock_resolv |-> lock_resolv, allow_dhcp |-> allow_dhcp, allow_lan |-> FALSE]
PinOrNot == {Conf(TRUE, FALSE), Conf(FALSE, TRUE)}
Plain == {Conf(TRUE, FALSE), Conf(FALSE, FALSE)}

=============================================================================
