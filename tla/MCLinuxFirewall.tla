-------------------------- MODULE MCLinuxFirewall ---------------------------
(* Small instances of LinuxFirewall for TLC. *)
EXTENDS LinuxFirewallInv

Conf(uid, trans, v6) ==
  [uid |-> uid, trans |-> trans, dns |-> 9053, ipv6_killswitch |-> v6]

\* One user with the IPv6 killswitch.
OneUser == {Conf("alice", 9040, TRUE)}

\* The toggle of the IPv6 killswitch changed between two calls.
Toggled == {Conf("alice", 9040, TRUE), Conf("alice", 9040, FALSE)}

\* The ports the rules name, and the web's for every other one.
Ports == {53, 443, 9040, 9053}

\* Other programs own two rules in front of the IPv4 filter chain, in an order
\* that matters to them, and one in front of the IPv6 one.
TheirRule(table, match) == RuleOf(table, match, "other", 0, "DROP")
Theirs == {TheirRule("filter", "tcp"), TheirRule("filter", "any"),
           TheirRule("filter6", "any")}
TheirChains ==
  [t \in Tables |->
     CASE t = "filter"  -> <<TheirRule(t, "tcp"), TheirRule(t, "any")>>
       [] t = "filter6" -> <<TheirRule(t, "any")>>
       [] t = "nat"     -> <<>>]

\* A host where no other program has a rule.
NoRules == {}
NoChains == [t \in Tables |-> <<>>]

=============================================================================
