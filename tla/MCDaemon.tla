------------------------------ MODULE MCDaemon ------------------------------
(* Small instances of Daemon for TLC. *)
EXTENDS DaemonInv

CONSTANTS alice, bob   \* two users of the host

Conf(uid, ports, lock, v6) ==
  [uid |-> uid, ports |-> ports, lock_resolv |-> lock, ipv6_killswitch |-> v6]

Nobody == Conf(NoUid, 1, TRUE, TRUE)
AliceV6 == Conf(alice, 1, TRUE, TRUE)
AliceV4 == Conf(alice, 1, TRUE, FALSE)

\* Two users and both toggles.
TwoUsers == {Nobody, AliceV6, Conf(alice, 1, FALSE, FALSE), Conf(bob, 1, TRUE, TRUE)}

\* Two users or two sets of ports, with the IPv6 killswitch left on.
RoutingV6 == {AliceV6, Conf(alice, 2, TRUE, TRUE), Conf(bob, 1, TRUE, TRUE)}

\* Two users, IPv4 only.
UsersV4 == {AliceV4, Conf(bob, 1, TRUE, FALSE)}

\* The IPv6 killswitch may be toggled.
Toggling == {AliceV4, AliceV6, Conf(bob, 1, TRUE, TRUE)}

=============================================================================
