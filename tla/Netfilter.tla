----------------------------- MODULE Netfilter ------------------------------
(***************************************************************************)
(* The rules that backend/torando_gui/engine.py builds for one user, and   *)
(* what the kernel does with a packet of that user under a given content   *)
(* of the OUTPUT chains.  A rule keeps what the properties tell apart: the *)
(* table, what it matches besides the owner, the owner, the port it names  *)
(* and its target.                                                         *)
(***************************************************************************)
EXTENDS Naturals, Sequences, FiniteSetsExt

Tables == {"nat", "filter", "filter6"}

RuleOf(table, match, uid, port, target) ==
  [table |-> table, match |-> match, uid |-> uid, port |-> port,
   target |-> target]

\* The IPv4 transparent proxy and killswitch, in apply order.
BuildRules(uid, trans, dns) ==
  << RuleOf("nat", "loopback_dst", uid, 0, "RETURN"),
     RuleOf("nat", "tcp", uid, trans, "REDIRECT"),
     RuleOf("nat", "dns", uid, dns, "REDIRECT"),
     RuleOf("filter", "out_lo", uid, 0, "ACCEPT"),
     RuleOf("filter", "tcp_dport", uid, trans, "ACCEPT"),
     RuleOf("filter", "udp_dport", uid, dns, "ACCEPT"),
     RuleOf("filter", "any", uid, 0, "DROP") >>

\* The IPv6 killswitch: loopback stays, everything else is dropped.
BuildV6Rules(uid) ==
  << RuleOf("filter6", "out_lo", uid, 0, "ACCEPT"),
     RuleOf("filter6", "any", uid, 0, "DROP") >>

-----------------------------------------------------------------------------
(* Packets of a user and the verdict of the chains (the kernel's part) *)

Packet(uid, proto, dport, lo) ==
  [uid |-> uid, proto |-> proto, dport |-> dport, lo |-> lo]

\* A connection to the daemon's own page on 127.0.0.1.
ToLoopback(uid) == Packet(uid, "tcp", 8088, TRUE)
\* What the user may send to the outside: a connection, a datagram or anything
\* else, to any of these ports of any host there.
Outbound(uid, ports) ==
  {Packet(uid, proto, dport, FALSE) : proto \in {"tcp", "udp", "other"}, dport \in ports}

Matches(r, pkt) ==
  /\ r.uid = pkt.uid
  /\ CASE r.match \in {"loopback_dst", "out_lo"} -> pkt.lo
       [] r.match = "tcp"       -> pkt.proto = "tcp"
       [] r.match = "dns"       -> pkt.proto = "udp" /\ pkt.dport = 53
       [] r.match = "tcp_dport" -> pkt.proto = "tcp" /\ pkt.dport = r.port
       [] r.match = "udp_dport" -> pkt.proto = "udp" /\ pkt.dport = r.port
       [] r.match = "any"       -> TRUE

\* The first matching rule decides; an empty sequence means the policy.
FirstMatch(chain, pkt) ==
  LET hits == {i \in 1..Len(chain) : Matches(chain[i], pkt)}
  IN  IF hits = {} THEN <<>> ELSE <<chain[Min(hits)]>>

Redirected(nat, pkt) ==
  LET hit == FirstMatch(nat, pkt) IN hit # <<>> /\ hit[1].target = "REDIRECT"

\* A redirected packet goes to the port of the rule that redirected it; the
\* filter chain still sees the interface it was first routed to.
AfterNat(nat, pkt) ==
  IF Redirected(nat, pkt)
  THEN [pkt EXCEPT !.dport = FirstMatch(nat, pkt)[1].port] ELSE pkt

Dropped(filter, pkt) ==
  LET hit == FirstMatch(filter, pkt) IN hit # <<>> /\ hit[1].target = "DROP"

Verdict(chain, pkt) ==
  CASE Dropped(chain["filter"], AfterNat(chain["nat"], pkt)) -> "dropped"
    [] Redirected(chain["nat"], pkt) -> "tor"
    [] pkt.lo -> "local"
    [] OTHER  -> "leaked"

Verdict6(chain, pkt) ==
  CASE Dropped(chain["filter6"], pkt) -> "dropped"
    [] pkt.lo -> "local"
    [] OTHER  -> "leaked"

=============================================================================
