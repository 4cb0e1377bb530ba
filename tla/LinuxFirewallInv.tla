-------------------------- MODULE LinuxFirewallInv --------------------------
(***************************************************************************)
(* Why the properties of LinuxFirewall hold: its inductive invariant, one  *)
(* named part per reason.  TLC checks it; LinuxFirewall_proofs proves it.  *)
(***************************************************************************)
EXTENDS LinuxFirewall

\* Where a call is and what it has in hand agree.
InPlace ==
  /\ w.op = "idle"  <=> w.at = "-"
  /\ w.op = "apply" <=> w.at \in {"exists", "add", "append"}
  /\ w.op = "idle"  => w.todo = <<>>
  /\ w.op # "apply" => w.added = <<>>
  /\ w.at \in {"add", "append"} => w.todo # <<>> /\ ~NeedsMissingIp6
  /\ w.at \in {"delete", "again"} => w.todo # <<>>
  /\ w.at = "delete" => Present(Current)
  /\ w.result # "none" => w.op = "idle"
  /\ candid => w.hit = {}

\* Without a false answer apply knows the rule it is at.
KnowsTheRule ==
  "check" \notin w.hit =>
    /\ w.at = "add" => w.existed = Present(Current)
    /\ w.at = "append" => ~w.existed /\ ~Present(Current)

\* Without ip6tables no IPv6 rule is ever in.
NoV6Rule == ~ip6 => \A r \in Installed : r.table # "filter6"

\* What is left of a list, and the part that is behind.
LeftOf(list, todo) ==
  /\ Len(todo) <= Len(list)
  /\ \A i \in DOMAIN todo : todo[i] = list[Len(list) - Len(todo) + i]
Behind(list, todo) == {list[i] : i \in 1..(Len(list) - Len(todo))}

\* apply goes through its list in order, and what is behind it is in.
ApplyInstalls ==
  /\ w.op = "apply" =>
       LeftOf(Ruleset(w.cfg), w.todo) /\ Behind(Ruleset(w.cfg), w.todo) \subseteq Installed
  /\ w.result = "armed" => ToSet(Ruleset(w.cfg)) \subseteq Installed

\* remove goes through its list in order, and what is behind it is gone.
RemoveClears ==
  /\ w.op = "remove" => LeftOf(RemovalOf(w.cfg, ip6), w.todo)
  /\ w.op = "remove" /\ w.hit = {} =>
       Behind(RemovalOf(w.cfg, ip6), w.todo) \intersect Installed = {}
  /\ w.result = "removed" /\ w.hit = {} =>
       ToSet(RemovalOf(w.cfg, ip6)) \intersect Installed = {}

\* What apply remembers, and later takes back, was not there before the call.
OnlyItsOwn ==
  w.op \in {"apply", "undo"} /\ "check" \notin w.hit =>
    \A r \in ToSet(w.added) \union (IF w.op = "undo" THEN ToSet(w.todo) ELSE {}) :
      ~PresentIn(w.before, r)

\* Beyond what the chains held before lie the rules of "list" and nothing
\* else, none of them twice, in the order of the list.
Stacked(ch, before, list) ==
  /\ \A t \in Tables :
       /\ Len(before[t]) <= Len(ch[t])
       /\ \A p \in 1..Len(before[t]) : ch[t][p] = before[t][p]
       /\ \A p \in (Len(before[t]) + 1)..Len(ch[t]) :
            \E i \in DOMAIN list : list[i] = ch[t][p]
       /\ \A p, q \in (Len(before[t]) + 1)..Len(ch[t]) : p < q =>
            \E i, j \in DOMAIN list : i < j /\ list[i] = ch[t][p] /\ list[j] = ch[t][q]
  /\ \A i \in DOMAIN list : PresentIn(ch, list[i]) /\ ~PresentIn(before, list[i])
  /\ \A i, j \in DOMAIN list : list[i] = list[j] => i = j

\* What this call has appended and not yet taken back, oldest first.
Own == IF w.op = "apply" THEN w.added
       ELSE Reverse(IF w.at = "again" THEN Tail(w.todo) ELSE w.todo)

\* Without a false answer or a refused delete the chains are a stack of the
\* rules this call added, so that the rollback always takes the last rule of
\* a chain.
Grown ==
  w.op \in {"apply", "undo"} /\ w.hit = {} =>
    /\ Stacked(chain, w.before, Own)
    /\ w.op = "undo" /\ w.at = "again" => ~Present(Current)

\* Every rule of a user that matches so is behind the rule r.
Shielded(s, r, match) ==
  \A i \in DOMAIN s : s[i].uid = r.uid /\ s[i].match = match =>
    \E j \in 1..(i - 1) : s[j] = r

LoReturn(uid) == RuleOf("nat", "loopback_dst", uid, 0, "RETURN")
LoAccept(uid) == RuleOf("filter", "out_lo", uid, 0, "ACCEPT")

\* The rules that could take the page away lie behind those that let the
\* user's loopback through.
LoopbackFirst ==
  candid => \A c \in Config :
    /\ Shielded(chain["nat"], LoReturn(c.uid), "tcp")
    /\ Shielded(chain["filter"], LoAccept(c.uid), "any")

\* The page stays within reach of users whose TransPort is the same in
\* every configuration: a remove knows the ports of its own configuration
\* only.  The daemon refuses to change the ports of a connected user.
OnePortSet == \A c, d \in Config : c.uid = d.uid => c.trans = d.trans

IInv ==
  /\ TypeOK /\ InPlace /\ KnowsTheRule /\ NoV6Rule /\ ApplyInstalls /\ RemoveClears
  /\ ApplyKeepsEarlierRules /\ OnlyItsOwn
  /\ FailedApplyRestores /\ Grown
  /\ ForeignRulesUntouched
  /\ OnePortSet => LoopbackFirst

\* Ports that no configuration of the user changes.  Were they changed between
\* a remove and an apply that a status spans, the status could take the rules
\* of both for one ruleset.
OneRuleset ==
  \A c, d \in Config : c.uid = d.uid => c.trans = d.trans /\ c.dns = d.dns

\* A verdict that still stands and has not been true yet has a missing rule
\* ahead of it: the reader goes through its list in the order in which apply
\* adds the rules.
MissingAhead(rules) == \E r \in ToSet(rd.left) \intersect rules : ~Present(r)
ReadInOrder ==
  rd.at = "reading" =>
    /\ rd.active \/ rd.killswitch => LeftOf(Ruleset(rd.cfg), rd.left)
    /\ OneRuleset /\ rd.active /\ ~rd.wasArmed => MissingAhead(Rule)
    /\ rd.killswitch /\ ~rd.wasOn => MissingAhead(Blocking(rd.cfg))

=============================================================================
