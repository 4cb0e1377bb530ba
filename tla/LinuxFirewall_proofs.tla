------------------------ MODULE LinuxFirewall_proofs ------------------------
(***************************************************************************)
(* Proofs about LinuxFirewall: the inductive invariant of LinuxFirewallInv *)
(* for every set of configurations, every number of faults of every kind   *)
(* and any rules of other programs, and what follows from it of the calls, *)
(* of packets and of a status that races a call.                           *)
(***************************************************************************)
EXTENDS LinuxFirewallInv, SequenceLemmas

-----------------------------------------------------------------------------
(* The rules of a configuration *)

\* The lists as sets of rules.
LEMMA ListSets ==
  ASSUME NEW uid, NEW trans, NEW dns
  PROVE  /\ BuildRules(uid, trans, dns) \in Seq(ToSet(BuildRules(uid, trans, dns)))
         /\ BuildV6Rules(uid) \in Seq(ToSet(BuildV6Rules(uid)))
         /\ ToSet(BuildRules(uid, trans, dns)) =
              { RuleOf("nat", "loopback_dst", uid, 0, "RETURN"),
                RuleOf("nat", "tcp", uid, trans, "REDIRECT"),
                RuleOf("nat", "dns", uid, dns, "REDIRECT"),
                RuleOf("filter", "out_lo", uid, 0, "ACCEPT"),
                RuleOf("filter", "tcp_dport", uid, trans, "ACCEPT"),
                RuleOf("filter", "udp_dport", uid, dns, "ACCEPT"),
                RuleOf("filter", "any", uid, 0, "DROP") }
         /\ ToSet(BuildV6Rules(uid)) =
              { RuleOf("filter6", "out_lo", uid, 0, "ACCEPT"),
                RuleOf("filter6", "any", uid, 0, "DROP") }
<1> DEFINE a == RuleOf("nat", "loopback_dst", uid, 0, "RETURN")
           b == RuleOf("nat", "tcp", uid, trans, "REDIRECT")
           c == RuleOf("nat", "dns", uid, dns, "REDIRECT")
           d == RuleOf("filter", "out_lo", uid, 0, "ACCEPT")
           e == RuleOf("filter", "tcp_dport", uid, trans, "ACCEPT")
           f == RuleOf("filter", "udp_dport", uid, dns, "ACCEPT")
           g == RuleOf("filter", "any", uid, 0, "DROP")
           a6 == RuleOf("filter6", "out_lo", uid, 0, "ACCEPT")
           b6 == RuleOf("filter6", "any", uid, 0, "DROP")
<1>1. BuildRules(uid, trans, dns) = <<a, b, c, d, e, f, g>>
  BY DEF BuildRules
<1>2. BuildV6Rules(uid) = <<a6, b6>>
  BY DEF BuildV6Rules
<1> HIDE DEF a, b, c, d, e, f, g, a6, b6
<1>3. /\ <<a, b, c, d, e, f, g>> \in Seq({a, b, c, d, e, f, g})
      /\ ToSet(<<a, b, c, d, e, f, g>>) = {a, b, c, d, e, f, g}
  <2>1. DOMAIN <<a, b, c, d, e, f, g>> = 1..7
    OBVIOUS
  <2>2. <<a, b, c, d, e, f, g>> \in Seq({a, b, c, d, e, f, g})
    OBVIOUS
  <2>3. ToSet(<<a, b, c, d, e, f, g>>) = {a, b, c, d, e, f, g}
    BY <2>1 DEF ToSet
  <2> QED BY <2>2, <2>3
<1>4. <<a6, b6>> \in Seq({a6, b6}) /\ ToSet(<<a6, b6>>) = {a6, b6}
  BY DEF ToSet
<1>5. BuildRules(uid, trans, dns) \in Seq(ToSet(BuildRules(uid, trans, dns)))
  BY <1>1, <1>3
<1>6. BuildV6Rules(uid) \in Seq(ToSet(BuildV6Rules(uid)))
  BY <1>2, <1>4
<1> QED
  BY <1>1, <1>2, <1>3, <1>4, <1>5, <1>6 DEF a, b, c, d, e, f, g, a6, b6

\* Every list a call goes through holds rules of its configuration.
LEMMA Lists ==
  ASSUME NEW c \in Config
  PROVE  /\ V4Rules(c) \in Seq(Rule) /\ V6Rules(c) \in Seq(Rule)
         /\ ToSet(V4Rules(c) \o V6Rules(c)) = ToSet(V4Rules(c)) \union ToSet(V6Rules(c))
         /\ ToSet(V4Rules(c)) \union ToSet(V6Rules(c)) \subseteq Rule
         /\ Ruleset(c) \in Seq(Rule)
         /\ \A withV6 \in BOOLEAN : RemovalOf(c, withV6) \in Seq(Rule)
         /\ ToSet(V4Rules(c)) \subseteq ToSet(Ruleset(c))
         /\ c.ipv6_killswitch => ToSet(V6Rules(c)) \subseteq ToSet(Ruleset(c))
         /\ ToSet(RemovalOf(c, TRUE)) = ToSet(V4Rules(c) \o V6Rules(c))
         /\ ToSet(RemovalOf(c, FALSE)) = ToSet(V4Rules(c))
<1> DEFINE S4 == ToSet(V4Rules(c))
           S6 == ToSet(V6Rules(c))
<1>1. V4Rules(c) \in Seq(S4 \union S6) /\ V6Rules(c) \in Seq(S4 \union S6)
  <2>1. V4Rules(c) \in Seq(S4) /\ V6Rules(c) \in Seq(S6)
    BY ListSets DEF V4Rules, V6Rules
  <2> HIDE DEF S4, S6
  <2> QED BY <2>1
<1>2. ToSet(V4Rules(c) \o V6Rules(c)) = S4 \union S6
  BY <1>1, ConcatSet
<1>3. S4 \union S6 \subseteq Rule
  BY <1>2 DEF Rule
<1>4. V4Rules(c) \in Seq(Rule) /\ V6Rules(c) \in Seq(Rule) /\ <<>> \in Seq(Rule)
  <2> HIDE DEF S4, S6
  <2> QED BY <1>1, <1>3
<1>5. /\ Reverse(V4Rules(c)) \in Seq(Rule) /\ ToSet(Reverse(V4Rules(c))) = S4
      /\ Reverse(V6Rules(c)) \in Seq(Rule) /\ ToSet(Reverse(V6Rules(c))) = S6
  BY <1>4, ReverseSet
<1>6. Ruleset(c) \in Seq(Rule) /\ S4 \subseteq ToSet(Ruleset(c))
  <2>1. CASE c.ipv6_killswitch
    BY <2>1, <1>4, ConcatSet DEF Ruleset
  <2>2. CASE ~c.ipv6_killswitch
    BY <2>2, <1>4, ConcatSet DEF Ruleset
  <2> QED BY <2>1, <2>2
<1>7. c.ipv6_killswitch => S6 \subseteq ToSet(Ruleset(c))
  BY <1>4, ConcatSet DEF Ruleset
<1>8. RemovalOf(c, TRUE) \in Seq(Rule) /\ ToSet(RemovalOf(c, TRUE)) = S4 \union S6
  BY <1>5, ConcatSet DEF RemovalOf
<1>9. RemovalOf(c, FALSE) \in Seq(Rule) /\ ToSet(RemovalOf(c, FALSE)) = S4
  BY <1>4, <1>5, ConcatSet, EmptySet DEF RemovalOf
<1> HIDE DEF S4, S6
<1> QED BY <1>2, <1>3, <1>4, <1>6, <1>7, <1>8, <1>9 DEF S4, S6

\* What a rule of the user of c may look like.
Shape(r, c) ==
  /\ r.uid = c.uid
  /\ \/ r.table = "nat" /\ r.match = "loopback_dst" /\ r.target = "RETURN"
     \/ /\ r.table = "nat" /\ r.match = "tcp" /\ r.target = "REDIRECT"
        /\ r = RuleOf("nat", "tcp", c.uid, c.trans, "REDIRECT")
     \/ r.table = "nat" /\ r.match = "dns" /\ r.target = "REDIRECT"
     \/ r.table = "filter" /\ r.match \in {"out_lo", "tcp_dport"} /\ r.target = "ACCEPT"
     \/ r.table = "filter" /\ r.match = "udp_dport" /\ r.target = "ACCEPT" /\ r.port = c.dns
     \/ /\ r.table = "filter" /\ r.match = "any" /\ r.target = "DROP"
        /\ r = RuleOf("filter", "any", c.uid, 0, "DROP")
     \/ r.table = "filter6" /\ r.match = "out_lo" /\ r.target = "ACCEPT"
     \/ r.table = "filter6" /\ r.match = "any" /\ r.target = "DROP"

\* Every rule is of that shape for some configuration, and none is a rule of
\* another program.
LEMMA Rules ==
  ASSUME NEW r \in Rule
  PROVE  /\ \E c \in Config : Shape(r, c)
         /\ r.table \in Tables /\ r \notin Foreign
<1>1. PICK c \in Config : r \in ToSet(V4Rules(c) \o V6Rules(c))
  BY DEF Rule
<1>2. r \in ToSet(V4Rules(c)) \union ToSet(V6Rules(c))
  BY <1>1, Lists
<1>3. ASSUME r \in ToSet(V4Rules(c)) PROVE Shape(r, c)
  <2>1. CASE r = RuleOf("nat", "loopback_dst", c.uid, 0, "RETURN")
    BY <2>1 DEF RuleOf, Shape
  <2>2. CASE r = RuleOf("nat", "tcp", c.uid, c.trans, "REDIRECT")
    BY <2>2 DEF RuleOf, Shape
  <2>3. CASE r = RuleOf("nat", "dns", c.uid, c.dns, "REDIRECT")
    BY <2>3 DEF RuleOf, Shape
  <2>4. CASE r = RuleOf("filter", "out_lo", c.uid, 0, "ACCEPT")
    BY <2>4 DEF RuleOf, Shape
  <2>5. CASE r = RuleOf("filter", "tcp_dport", c.uid, c.trans, "ACCEPT")
    BY <2>5 DEF RuleOf, Shape
  <2>6. CASE r = RuleOf("filter", "udp_dport", c.uid, c.dns, "ACCEPT")
    BY <2>6 DEF RuleOf, Shape
  <2>7. CASE r = RuleOf("filter", "any", c.uid, 0, "DROP")
    BY <2>7 DEF RuleOf, Shape
  <2>8. r \in { RuleOf("nat", "loopback_dst", c.uid, 0, "RETURN"),
                RuleOf("nat", "tcp", c.uid, c.trans, "REDIRECT"),
                RuleOf("nat", "dns", c.uid, c.dns, "REDIRECT"),
                RuleOf("filter", "out_lo", c.uid, 0, "ACCEPT"),
                RuleOf("filter", "tcp_dport", c.uid, c.trans, "ACCEPT"),
                RuleOf("filter", "udp_dport", c.uid, c.dns, "ACCEPT"),
                RuleOf("filter", "any", c.uid, 0, "DROP") }
    BY <1>3, ListSets, Zenon DEF V4Rules
  <2> QED BY <2>1, <2>2, <2>3, <2>4, <2>5, <2>6, <2>7, <2>8
<1>4. ASSUME r \in ToSet(V6Rules(c)) PROVE Shape(r, c)
  <2>1. CASE r = RuleOf("filter6", "out_lo", c.uid, 0, "ACCEPT")
    BY <2>1 DEF RuleOf, Shape
  <2>2. CASE r = RuleOf("filter6", "any", c.uid, 0, "DROP")
    BY <2>2 DEF RuleOf, Shape
  <2> QED
    BY <1>4, ListSets, <2>1, <2>2 DEF V6Rules
<1>5. Shape(r, c)
  BY <1>2, <1>3, <1>4
<1>6. r.table \in Tables /\ r.uid = c.uid
  BY <1>5 DEF Shape, Tables
<1> QED BY <1>5, <1>6, LinuxFirewallAssumption

-----------------------------------------------------------------------------
(* What one append and one delete do to the chains *)

Typed(ch) ==
  /\ ch \in [Tables -> Seq(Rule \union Foreign)]
  /\ \A t \in Tables : \A r \in ToSet(ch[t]) : r.table = t

\* An append changes one chain, at its end.
LEMMA AppendedIs ==
  ASSUME Typed(chain), NEW r \in Rule
  PROVE  /\ Typed(Appended(r)) /\ r.table \in Tables
         /\ Appended(r)[r.table] = Append(chain[r.table], r)
         /\ \A t \in Tables : t # r.table => Appended(r)[t] = chain[t]
         /\ \A t \in Tables : ToSet(Appended(r)[t]) =
              IF t = r.table THEN ToSet(chain[t]) \union {r} ELSE ToSet(chain[t])
         /\ \A x \in Rule : PresentIn(Appended(r), x) <=> x = r \/ Present(x)
<1> DEFINE ch == Appended(r)
           s == chain[r.table]
<1>1. r.table \in Tables /\ s \in Seq(Rule \union Foreign)
  BY Rules DEF Typed
<1>2. Append(s, r) \in Seq(Rule \union Foreign) /\ ToSet(Append(s, r)) = ToSet(s) \union {r}
  BY <1>1, AppendSet
<1>3. ch[r.table] = Append(s, r) /\ \A t \in Tables : t # r.table => ch[t] = chain[t]
  BY <1>1 DEF Appended, Typed
<1>4. ch \in [Tables -> Seq(Rule \union Foreign)]
  BY <1>1, <1>2 DEF Appended, Typed
<1> HIDE DEF ch
<1>5. \A t \in Tables : ToSet(ch[t]) =
        IF t = r.table THEN ToSet(chain[t]) \union {r} ELSE ToSet(chain[t])
  BY <1>2, <1>3
<1>6. \A x \in Rule : PresentIn(ch, x) <=> x = r \/ Present(x)
  BY <1>1, <1>5, Rules DEF PresentIn, Present
<1>7. Typed(ch)
  BY <1>4, <1>5 DEF Typed
<1> QED BY <1>1, <1>3, <1>5, <1>6, <1>7 DEF ch

\* A delete takes the first copy out of one chain.
LEMMA DeletedIs ==
  ASSUME Typed(chain), NEW r \in Rule, Present(r)
  PROVE  /\ Typed(Deleted(r)) /\ r.table \in Tables
         /\ \A t \in Tables : t # r.table => Deleted(r)[t] = chain[t]
         /\ \E i \in 1..Len(chain[r.table]) :
              /\ chain[r.table][i] = r
              /\ \A j \in 1..Len(chain[r.table]) : chain[r.table][j] = r => i <= j
              /\ Len(Deleted(r)[r.table]) = Len(chain[r.table]) - 1
              /\ \A j \in 1..(Len(chain[r.table]) - 1) :
                   Deleted(r)[r.table][j] =
                     IF j < i THEN chain[r.table][j] ELSE chain[r.table][j + 1]
         /\ \A t \in Tables : /\ ToSet(Deleted(r)[t]) \subseteq ToSet(chain[t])
                              /\ ToSet(chain[t]) \subseteq ToSet(Deleted(r)[t]) \union {r}
<1> DEFINE ch == Deleted(r)
           s == chain[r.table]
           places == {i \in DOMAIN s : s[i] = r}
           k == Min(places)
           d == RemoveAt(s, k)
<1>1. /\ r.table \in Tables /\ s \in Seq(Rule \union Foreign) /\ DOMAIN s = 1..Len(s)
      /\ Len(s) \in Nat
  BY Rules DEF Typed
<1>2. places # {} /\ places \in SUBSET Nat
  BY <1>1 DEF Present, PresentIn, ToSet
<1>3. k \in places /\ \A x \in places : k <= x
  <2> HIDE DEF places
  <2> QED BY <1>2, MinLeast
<1>4. k \in 1..Len(s) /\ s[k] = r /\ \A j \in 1..Len(s) : s[j] = r => k <= j
  BY <1>1, <1>3
<1>5. ch[r.table] = d /\ \A t \in Tables : t # r.table => ch[t] = chain[t]
  BY <1>1 DEF Deleted, Typed
<1>6. ch = [chain EXCEPT ![r.table] = d]
  BY DEF Deleted
<1> HIDE DEF k, places
<1>7. /\ d \in Seq(Rule \union Foreign) /\ Len(d) = Len(s) - 1
      /\ \A j \in 1..(Len(s) - 1) : d[j] = IF j < k THEN s[j] ELSE s[j + 1]
  BY <1>1, <1>4, RemoveOne
<1> HIDE DEF d, ch
<1>8. ch \in [Tables -> Seq(Rule \union Foreign)]
  BY <1>6, <1>7 DEF Typed
<1>9. DOMAIN d = 1..(Len(s) - 1)
  BY <1>7
<1>10. ToSet(d) \subseteq ToSet(s)
  <2>1. ASSUME NEW j \in 1..(Len(s) - 1) PROVE d[j] \in ToSet(s)
    <3>1. j \in 1..Len(s) /\ j + 1 \in 1..Len(s)
      BY <1>1
    <3> QED BY <3>1, <1>1, <1>7 DEF ToSet
  <2> QED BY <2>1, <1>9 DEF ToSet
<1>11. ToSet(s) \subseteq ToSet(d) \union {r}
  <2>1. ASSUME NEW j \in 1..Len(s), s[j] # r PROVE s[j] \in ToSet(d)
    <3>1. CASE j < k
      <4>1. j \in 1..(Len(s) - 1)
        BY <3>1, <1>1, <1>4
      <4> QED BY <4>1, <3>1, <1>7, <1>9 DEF ToSet
    <3>2. CASE j > k
      <4>1. j - 1 \in 1..(Len(s) - 1) /\ ~(j - 1 < k) /\ (j - 1) + 1 = j
        BY <3>2, <1>1, <1>4
      <4>2. d[j - 1] = s[j]
        BY <4>1, <1>7
      <4> QED BY <4>1, <4>2, <1>9 DEF ToSet
    <3> QED BY <2>1, <3>1, <3>2, <1>1, <1>4
  <2> QED BY <2>1, <1>1 DEF ToSet
<1>12. \A t \in Tables : /\ ToSet(ch[t]) \subseteq ToSet(chain[t])
                         /\ ToSet(chain[t]) \subseteq ToSet(ch[t]) \union {r}
  BY <1>5, <1>10, <1>11
<1>13. Typed(ch)
  BY <1>8, <1>12 DEF Typed
<1>14. \E i \in 1..Len(s) :
         /\ s[i] = r
         /\ \A j \in 1..Len(s) : s[j] = r => i <= j
         /\ Len(ch[r.table]) = Len(s) - 1
         /\ \A j \in 1..(Len(s) - 1) : ch[r.table][j] = IF j < i THEN s[j] ELSE s[j + 1]
  BY <1>4, <1>5, <1>7
<1> QED BY <1>1, <1>5, <1>12, <1>13, <1>14 DEF ch

-----------------------------------------------------------------------------
(* Types, and what a call has in hand *)

\* What the first half of the invariant says of a state of the writer.
WriterOK == Typed(chain) /\ ip6 \in BOOLEAN /\ w \in Writing /\ InPlace

\* The counters, whatever happens in a step.
LEMMA CountersTyped ==
  ASSUME TypeOK, [Next]_vars
  PROVE  /\ faults' \in 0..MaxFaults /\ candid' \in BOOLEAN
         /\ candid' => candid
<1>1. CASE NoFault
  BY <1>1 DEF NoFault, TypeOK
<1>2. ASSUME NEW kind, Fault(kind)
      PROVE  /\ faults' \in 0..MaxFaults /\ candid' \in BOOLEAN
             /\ candid' => candid
  BY <1>2, LinuxFirewallAssumption DEF Fault, TypeOK
<1>3. CASE UNCHANGED vars
  BY <1>3 DEF vars, TypeOK
<1>4. CASE Writer
  BY <1>1, <1>2, <1>4
     DEF Writer, Step, Exists, AddFindsIt, AddMustAppend, AppendRule, AppendRefused,
         Ip6Missing, ApplyReturns, DelLooks, DelDeletes, DelRefused, ListDone, Die,
         Reboot, ApplyRules, RemoveRules, Check
<1>5. CASE Reader
  BY <1>1, <1>2, <1>5 DEF Reader, ReadRule, ReadReports, ReadBegins, Check
<1> QED BY <1>3, <1>4, <1>5 DEF Next

\* The reader's record.
LEMMA ReaderTyped ==
  ASSUME TypeOK, [Next]_vars
  PROVE  rd' \in Reading
<1>1. CASE Observed
  BY <1>1 DEF Observed, TypeOK, Reading, Armed, Blocked
<1>2. CASE UNCHANGED rd
  BY <1>2 DEF TypeOK
<1>3. ASSUME NEW c \in Config, ReadBegins(c) PROVE rd' \in Reading
  <2>1. Looked(c) \in Seq(Rule)
    BY Lists DEF Looked
  <2> QED BY <1>3, <2>1, LinuxFirewallAssumption
      DEF ReadBegins, TypeOK, Reading, Armed, Blocked
<1>4. CASE ReadRule
  <2>1. rd.left \in Seq(Rule) /\ rd.left # <<>> /\ Tail(rd.left) \in Seq(Rule)
    BY <1>4, HeadTail DEF ReadRule, TypeOK, Reading
  <2> QED BY <1>4, <2>1 DEF ReadRule, TypeOK, Reading
<1>5. CASE ReadReports
  BY <1>5 DEF ReadReports, NoRead, TypeOK, Reading
<1> QED BY <1>1, <1>2, <1>3, <1>4, <1>5 DEF Next, Reader, vars

\* The record with which a rollback starts, and those with which a call does.
LEMMA RollbackTyped ==
  ASSUME w \in Writing, Rollback
  PROVE  w' \in Writing
<1> DEFINE todo == Reverse(w.added)
<1>1. todo \in Seq(Rule)
  BY ReverseSet DEF Writing
<1>2. w' = [w EXCEPT !.op = "undo", !.at = "look", !.todo = todo,
                     !.added = <<>>, !.existed = FALSE]
  BY DEF Rollback
<1> HIDE DEF todo
<1>3. w' = [op |-> "undo", at |-> "look", cfg |-> w.cfg, todo |-> todo,
            existed |-> FALSE, added |-> <<>>, result |-> w.result,
            before |-> w.before, hit |-> w.hit]
  BY <1>2 DEF Writing
<1> QED BY <1>1, <1>3 DEF Writing

LEMMA BeginTyped ==
  ASSUME NEW c \in Config, NEW op \in {"apply", "remove"},
         NEW at \in {"exists", "look"}, NEW todo \in Seq(Rule),
         Typed(chain), Begin(c, op, at, todo)
  PROVE  /\ w' \in Writing
         /\ w' = [op |-> op, at |-> at, cfg |-> c, todo |-> todo, existed |-> FALSE,
                  added |-> <<>>, result |-> "none", before |-> chain, hit |-> {}]
<1>1. chain \in [Tables -> Seq(Rule \union Foreign)]
  BY DEF Typed
<1>2. w' = [op |-> op, at |-> at, cfg |-> c, todo |-> todo, existed |-> FALSE,
            added |-> <<>>, result |-> "none", before |-> chain, hit |-> {}]
  BY DEF Begin, NoWrite
<1>3. w' \in Writing
  BY <1>1, <1>2 DEF Writing
<1> QED BY <1>2, <1>3

LEMMA Begins ==
  ASSUME WriterOK, NEW c \in Config
  PROVE  /\ ApplyRules(c) =>
              /\ w' \in Writing
              /\ w' = [op |-> "apply", at |-> "exists", cfg |-> c, todo |-> Ruleset(c),
                       existed |-> FALSE, added |-> <<>>, result |-> "none",
                       before |-> chain, hit |-> {}]
         /\ RemoveRules(c) =>
              /\ w' \in Writing
              /\ w' = [op |-> "remove", at |-> "look", cfg |-> c,
                       todo |-> RemovalOf(c, ip6), existed |-> FALSE, added |-> <<>>,
                       result |-> "none", before |-> chain, hit |-> {}]
<1>1. Typed(chain) /\ Ruleset(c) \in Seq(Rule) /\ RemovalOf(c, ip6) \in Seq(Rule)
  BY Lists DEF WriterOK
<1>2. ASSUME ApplyRules(c) PROVE Begin(c, "apply", "exists", Ruleset(c))
  BY <1>2 DEF ApplyRules
<1>3. ASSUME RemoveRules(c) PROVE Begin(c, "remove", "look", RemovalOf(c, ip6))
  BY <1>3 DEF RemoveRules
<1> QED BY <1>1, <1>2, <1>3, BeginTyped

\* The writer's record after each step of a call.
LEMMA StepTyped ==
  ASSUME WriterOK, Writer
  PROVE  /\ Typed(chain)' /\ w' \in Writing /\ UNCHANGED ip6
<1> USE DEF Writing
<1>0. /\ w.todo \in Seq(Rule) /\ w.added \in Seq(Rule)
      /\ w.todo # <<>> => /\ Current \in Rule /\ Tail(w.todo) \in Seq(Rule)
                         /\ Append(w.added, Current) \in Seq(Rule)
      /\ Reverse(w.added) \in Seq(Rule)
      /\ \A answer : w.hit \union Misread(answer) \in SUBSET {"check", "delete"}
  BY HeadTail, AppendSet, ReverseSet DEF WriterOK, Current, Misread
<1>1. CASE Exists
  <2>1. PICK answer \in BOOLEAN :
          w' = [w EXCEPT !.existed = answer, !.at = "add",
                         !.hit = @ \union Misread(answer)]
    BY <1>1 DEF Exists
  <2>2. w' \in Writing
    BY <1>0, <2>1 DEF WriterOK
  <2> QED BY <1>1, <2>2 DEF Exists, WriterOK
<1>2. CASE AddFindsIt
  BY <1>0, <1>2 DEF AddFindsIt, WriterOK, InPlace, NextRule, AddedNow
<1>3. CASE AddMustAppend
  BY <1>0, <1>3 DEF AddMustAppend, WriterOK
<1>4. CASE AppendRule
  <2>1. Typed(chain)'
    BY <1>0, <1>4, AppendedIs DEF AppendRule, WriterOK, InPlace, Typed
  <2> QED BY <1>0, <1>4, <2>1 DEF AppendRule, WriterOK, InPlace, NextRule, AddedNow
<1>5. CASE AppendRefused
  <2>1. w' \in Writing
    BY <1>0, <1>5, RollbackTyped DEF AppendRefused, WriterOK
  <2> QED BY <1>5, <2>1 DEF AppendRefused, WriterOK
<1>6. CASE Ip6Missing
  <2>1. w' \in Writing
    BY <1>0, <1>6, RollbackTyped DEF Ip6Missing, WriterOK
  <2> QED BY <1>6, <2>1 DEF Ip6Missing, WriterOK
<1>7. CASE ApplyReturns
  BY <1>0, <1>7 DEF ApplyReturns, End, WriterOK
<1>8. CASE DelLooks
  <2>1. PICK answer \in BOOLEAN :
          w' = [w EXCEPT !.at = IF answer THEN "delete" ELSE "look",
                         !.todo = IF answer THEN @ ELSE Tail(@),
                         !.hit = @ \union Misread(answer)]
    BY <1>8 DEF DelLooks
  <2>2. w' \in Writing
    BY <1>0, <1>8, <2>1 DEF DelLooks, WriterOK
  <2> QED BY <1>8, <2>2 DEF DelLooks, WriterOK
<1>9. CASE DelDeletes
  <2>1. Typed(chain)'
    BY <1>0, <1>9, DeletedIs DEF DelDeletes, WriterOK, InPlace, Typed
  <2> QED BY <1>0, <1>9, <2>1 DEF DelDeletes, WriterOK
<1>10. CASE DelRefused
  BY <1>0, <1>10 DEF DelRefused, WriterOK, InPlace
<1>11. CASE ListDone
  BY <1>0, <1>11 DEF ListDone, End, WriterOK
<1>12. CASE Die
  BY <1>12 DEF Die, NoWrite, WriterOK
<1>13. CASE Reboot
  BY <1>13, LinuxFirewallAssumption DEF Reboot, NoWrite, WriterOK, Typed, ToSet, Tables
<1>14. ASSUME NEW c \in Config, ApplyRules(c) \/ RemoveRules(c)
       PROVE  Typed(chain)' /\ w' \in Writing /\ UNCHANGED ip6
  BY <1>14, Begins DEF ApplyRules, RemoveRules, WriterOK
<1> QED BY <1>1, <1>2, <1>3, <1>4, <1>5, <1>6, <1>7, <1>8, <1>9, <1>10, <1>11,
           <1>12, <1>13, <1>14 DEF Writer, Step

\* After each step of a call its parts agree.
LEMMA StepInPlace ==
  ASSUME WriterOK, Writer
  PROVE  InPlace'
<1>0. /\ w \in Writing /\ InPlace /\ Typed(chain)
      /\ w.todo # <<>> => Current \in Rule
  BY HeadTail DEF WriterOK, Writing, Current
<1> USE DEF Writing, InPlace
<1>1. CASE Exists
  <2>1. PICK answer \in BOOLEAN :
          /\ Check(Current, answer)
          /\ w' = [w EXCEPT !.existed = answer, !.at = "add",
                            !.hit = @ \union Misread(answer)]
    BY <1>1 DEF Exists
  <2>2. candid' => w'.hit = {}
    BY <1>0, <2>1 DEF Check, Fault, NoFault, Misread
  <2>3. /\ w'.todo = w.todo /\ w'.at = "add" /\ w'.op = "apply" /\ w'.added = w.added
        /\ w'.result = w.result
    BY <1>0, <1>1, <2>1 DEF Exists
  <2> QED BY <1>0, <1>1, <2>2, <2>3 DEF Exists, NeedsMissingIp6, Current
<1>2. CASE AddFindsIt
  BY <1>0, <1>2 DEF AddFindsIt, NextRule, Check, Fault, NoFault
<1>3. CASE AddMustAppend
  <2>1. /\ Check(Current, FALSE)
        /\ w' = [w EXCEPT !.at = "append", !.hit = @ \union Misread(FALSE)]
    BY <1>3 DEF AddMustAppend
  <2>2. candid' => w'.hit = {}
    BY <1>0, <2>1 DEF Check, Fault, NoFault, Misread
  <2>3. /\ w'.todo = w.todo /\ w'.at = "append" /\ w'.op = "apply" /\ w'.added = w.added
        /\ w'.result = w.result
    BY <1>0, <1>3, <2>1 DEF AddMustAppend
  <2> QED BY <1>0, <1>3, <2>2, <2>3 DEF AddMustAppend, NeedsMissingIp6, Current
<1>4. CASE AppendRule
  BY <1>0, <1>4 DEF AppendRule, NextRule, NoFault
<1>5. CASE AppendRefused
  BY <1>0, <1>5 DEF AppendRefused, Rollback, Fault
<1>6. CASE Ip6Missing
  BY <1>0, <1>6 DEF Ip6Missing, Rollback, NoFault
<1>7. CASE ApplyReturns
  BY <1>0, <1>7 DEF ApplyReturns, End, NoFault
<1>8. CASE DelLooks
  <2>1. PICK answer \in BOOLEAN :
          /\ Check(Current, answer)
          /\ w' = [w EXCEPT !.at = IF answer THEN "delete" ELSE "look",
                            !.todo = IF answer THEN @ ELSE Tail(@),
                            !.hit = @ \union Misread(answer)]
    BY <1>8 DEF DelLooks
  <2>2. candid' => w'.hit = {}
    BY <1>0, <2>1 DEF Check, Fault, NoFault, Misread
  <2>3. CASE answer
    <3>1. Present(Current) /\ chain' = chain /\ w'.todo = w.todo
      BY <1>0, <1>8, <2>1, <2>3 DEF Check, DelLooks
    <3>2. w'.at = "delete" => Present(Current)'
      BY <3>1 DEF Present, PresentIn, Current
    <3> QED BY <1>0, <1>8, <2>1, <2>2, <2>3, <3>1, <3>2 DEF DelLooks
  <2>4. CASE ~answer
    BY <1>0, <1>8, <2>1, <2>2, <2>4 DEF DelLooks
  <2> QED BY <2>3, <2>4
<1>9. CASE DelDeletes
  BY <1>0, <1>9 DEF DelDeletes, NoFault
<1>10. CASE DelRefused
  BY <1>0, <1>10 DEF DelRefused, Fault
<1>11. CASE ListDone
  BY <1>0, <1>11 DEF ListDone, End, NoFault
<1>12. CASE Die
  BY <1>0, <1>12 DEF Die, NoWrite
<1>13. CASE Reboot
  BY <1>0, <1>13 DEF Reboot, NoWrite
<1>14. ASSUME NEW c \in Config, ApplyRules(c) \/ RemoveRules(c) PROVE InPlace'
  <2>1. CASE ApplyRules(c)
    BY <2>1, Begins
  <2>2. CASE RemoveRules(c)
    BY <2>2, Begins
  <2> QED BY <1>14, <2>1, <2>2
<1> QED BY <1>1, <1>2, <1>3, <1>4, <1>5, <1>6, <1>7, <1>8, <1>9, <1>10, <1>11,
           <1>12, <1>13, <1>14 DEF Writer, Step

\* What each step does to the set of installed rules.
LEMMA InstalledSteps ==
  ASSUME WriterOK, Writer
  PROVE  /\ AppendRule => Installed' = Installed \union {Current}
         /\ DelDeletes => /\ Installed' \subseteq Installed
                          /\ Installed \ {Current} \subseteq Installed'
         /\ Reboot => Installed' = {}
         /\ ~AppendRule /\ ~DelDeletes /\ ~Reboot => chain' = chain
         /\ chain' = chain => Installed' = Installed
<1>1. w.todo # <<>> => Current \in Rule
  BY HeadTail DEF WriterOK, Writing, Current
<1>2. ASSUME AppendRule PROVE Installed' = Installed \union {Current}
  <2>1. Current \in Rule /\ Typed(chain) /\ chain' = Appended(Current)
    BY <1>1, <1>2 DEF AppendRule, WriterOK, InPlace
  <2>2. \A x \in Rule : PresentIn(chain', x) <=> x = Current \/ Present(x)
    BY <2>1, AppendedIs
  <2> QED BY <2>1, <2>2 DEF Installed, Present
<1>3. ASSUME DelDeletes
      PROVE  Installed' \subseteq Installed /\ Installed \ {Current} \subseteq Installed'
  <2>1. /\ Current \in Rule /\ Typed(chain) /\ chain' = Deleted(Current)
        /\ Present(Current)
    BY <1>1, <1>3 DEF DelDeletes, WriterOK, InPlace
  <2>2. \A t \in Tables : /\ ToSet(chain'[t]) \subseteq ToSet(chain[t])
                          /\ ToSet(chain[t]) \subseteq ToSet(chain'[t]) \union {Current}
    BY <2>1, DeletedIs
  <2> QED BY <2>2, Rules DEF Installed, Present, PresentIn
<1>4. ASSUME Reboot PROVE Installed' = {}
  <2>1. ASSUME NEW r \in Rule PROVE r \notin ToSet(Others[r.table])
    <3>1. r.table \in Tables /\ r \notin Foreign
      BY Rules
    <3>2. Others[r.table] \in Seq(Foreign)
      BY <3>1, LinuxFirewallAssumption
    <3> QED BY <3>1, <3>2 DEF ToSet
  <2> QED BY <1>4, <2>1 DEF Reboot, Installed, Present, PresentIn
<1>5. ~AppendRule /\ ~DelDeletes /\ ~Reboot => chain' = chain
  BY DEF Writer, Step, Exists, AddFindsIt, AddMustAppend, AppendRefused, Ip6Missing,
         ApplyReturns, DelLooks, DelRefused, ListDone, Die, ApplyRules, RemoveRules
<1>6. chain' = chain => Installed' = Installed
  BY DEF Installed, Present
<1> QED BY <1>2, <1>3, <1>4, <1>5, <1>6

\* Without ip6tables apply refuses before it would append an IPv6 rule.
LEMMA NoV6Inv ==
  ASSUME WriterOK, NoV6Rule, Writer
  PROVE  NoV6Rule'
<1>1. UNCHANGED ip6
  BY StepTyped
<1>2. CASE AppendRule
  BY <1>1, <1>2, InstalledSteps DEF AppendRule, NoV6Rule, WriterOK, InPlace, NeedsMissingIp6
<1>3. CASE DelDeletes
  BY <1>1, <1>3, InstalledSteps DEF NoV6Rule
<1>4. CASE Reboot
  BY <1>4, InstalledSteps DEF NoV6Rule
<1> QED BY <1>1, <1>2, <1>3, <1>4, InstalledSteps DEF NoV6Rule

\* Without a false answer the first look of apply_list and the one of _add
\* agree, and both are right.
LEMMA KnowsInv ==
  ASSUME WriterOK, KnowsTheRule, Writer
  PROVE  KnowsTheRule'
<1>0. w \in Writing /\ InPlace
  BY DEF WriterOK
<1> USE DEF Writing, KnowsTheRule
<1>1. CASE Exists
  <2>1. PICK answer \in BOOLEAN :
          w' = [w EXCEPT !.existed = answer, !.at = "add",
                         !.hit = @ \union Misread(answer)]
    BY <1>1 DEF Exists
  <2>2. /\ w'.todo = w.todo /\ w'.existed = answer /\ w'.at = "add"
        /\ w'.hit = w.hit \union Misread(answer)
    BY <1>0, <2>1
  <2>3. "check" \notin w'.hit => answer = Present(Current)
    BY <2>2 DEF Misread
  <2>4. Present(Current)' = Present(Current)
    BY <1>1, <2>2 DEF Exists, Present, Current
  <2> QED BY <2>2, <2>3, <2>4
<1>2. CASE AddMustAppend
  <2>1. /\ w'.todo = w.todo /\ w'.existed = w.existed /\ w'.at = "append"
        /\ w'.hit = w.hit \union Misread(FALSE)
    BY <1>0, <1>2 DEF AddMustAppend
  <2>2. "check" \notin w'.hit => ~Present(Current) /\ "check" \notin w.hit
    BY <2>1 DEF Misread
  <2>3. Present(Current)' = Present(Current)
    BY <1>2, <2>1 DEF AddMustAppend, Present, Current
  <2> QED BY <1>2, <2>1, <2>2, <2>3 DEF AddMustAppend
<1>3. ASSUME NEW c \in Config, ApplyRules(c) \/ RemoveRules(c)
      PROVE  w'.at \notin {"add", "append"}
  BY <1>3, Begins
<1>4. CASE \/ AddFindsIt \/ AppendRule \/ AppendRefused \/ Ip6Missing \/ ApplyReturns
           \/ DelLooks \/ DelDeletes \/ DelRefused \/ ListDone \/ Die \/ Reboot
  <2>1. CASE AddFindsIt \/ AppendRule \/ AppendRefused \/ Ip6Missing \/ ApplyReturns
    BY <1>0, <2>1, ZenonT(30)
       DEF AddFindsIt, AppendRule, AppendRefused, Ip6Missing, ApplyReturns, NextRule,
           Rollback, End
  <2>2. CASE DelLooks
    BY <1>0, <2>2 DEF DelLooks
  <2>4. CASE DelDeletes
    BY <1>0, <2>4 DEF DelDeletes
  <2>5. CASE DelRefused
    BY <1>0, <2>5 DEF DelRefused
  <2>3. CASE ListDone
    BY <1>0, <2>3 DEF ListDone, End
  <2>6. CASE Die \/ Reboot
    BY <1>0, <2>6 DEF Die, Reboot, NoWrite
  <2> QED BY <1>4, <2>1, <2>2, <2>3, <2>4, <2>5, <2>6
<1> QED BY <1>1, <1>2, <1>3, <1>4 DEF Writer, Step

-----------------------------------------------------------------------------
(* Going through a list *)

\* At its start all of a list is left, at its end nothing.
LEMMA StartAndEnd ==
  ASSUME NEW S, NEW list \in Seq(S)
  PROVE  /\ LeftOf(list, list) /\ Behind(list, list) = {}
         /\ Behind(list, <<>>) = ToSet(list)
<1>1. Len(list) \in Nat /\ DOMAIN list = 1..Len(list) /\ Len(list) - Len(list) = 0
  OBVIOUS
<1>2. LeftOf(list, list)
  BY <1>1 DEF LeftOf
<1>3. Behind(list, list) = {}
  BY <1>1 DEF Behind
<1>4. Len(<<>>) = 0 /\ Len(list) - 0 = Len(list)
  BY <1>1
<1>5. Behind(list, <<>>) = ToSet(list)
  BY <1>1, <1>4 DEF Behind, ToSet
<1> QED BY <1>2, <1>3, <1>5

\* One step further its head is behind.
LEMMA OneFurther ==
  ASSUME NEW S, NEW list \in Seq(S), NEW todo \in Seq(S), LeftOf(list, todo), todo # <<>>
  PROVE  /\ LeftOf(list, Tail(todo))
         /\ Behind(list, Tail(todo)) = Behind(list, todo) \union {Head(todo)}
<1> DEFINE n == Len(list)
           m == Len(todo)
<1>1. /\ n \in Nat /\ m \in Nat /\ m > 0 /\ m <= n /\ Head(todo) = todo[1]
      /\ Len(Tail(todo)) = m - 1 /\ DOMAIN Tail(todo) = 1..(m - 1)
      /\ DOMAIN todo = 1..m
      /\ \A i \in 1..(m - 1) : Tail(todo)[i] = todo[i + 1]
  BY DEF LeftOf
<1>2. \A i \in 1..m : todo[i] = list[(n - m) + i]
  BY <1>1 DEF LeftOf
<1>3. ASSUME NEW i \in 1..(m - 1) PROVE Tail(todo)[i] = list[(n - (m - 1)) + i]
  <2>1. i + 1 \in 1..m /\ (n - m) + (i + 1) = (n - (m - 1)) + i
    BY <1>1
  <2> QED BY <2>1, <1>1, <1>2
<1>4. LeftOf(list, Tail(todo))
  BY <1>1, <1>3 DEF LeftOf
<1>5. Head(todo) = list[(n - m) + 1]
  <2>1. 1 \in 1..m
    BY <1>1
  <2> QED BY <1>1, <1>2, <2>1
<1>6. 1..(n - (m - 1)) = 1..(n - m) \union {(n - m) + 1}
  BY <1>1
<1>7. Behind(list, todo) = {list[i] : i \in 1..(n - m)}
  BY DEF Behind
<1>8. Behind(list, Tail(todo)) = {list[i] : i \in 1..(n - (m - 1))}
  BY <1>1 DEF Behind
<1> HIDE DEF n, m
<1> QED BY <1>4, <1>5, <1>6, <1>7, <1>8

-----------------------------------------------------------------------------
(* The steps of a call, field by field *)

\* The looks of apply change nothing but what is known of the rule.
LEMMA Looks ==
  ASSUME WriterOK, Exists \/ AddMustAppend
  PROVE  /\ w.op = "apply" /\ w'.op = "apply" /\ w.todo # <<>>
         /\ w'.at \in {"add", "append"}
         /\ w'.cfg = w.cfg /\ w'.todo = w.todo /\ w'.added = w.added
         /\ w'.before = w.before /\ w.hit \subseteq w'.hit
         /\ w'.result = "none" /\ UNCHANGED <<chain, ip6>>
<1> USE DEF Writing, InPlace, WriterOK
<1>1. CASE Exists
  <2>1. PICK answer \in BOOLEAN :
          w' = [w EXCEPT !.existed = answer, !.at = "add",
                         !.hit = @ \union Misread(answer)]
    BY <1>1 DEF Exists
  <2>2. /\ w'.at = "add" /\ w'.op = w.op /\ w'.cfg = w.cfg /\ w'.todo = w.todo
        /\ w'.added = w.added /\ w'.before = w.before /\ w'.result = w.result
        /\ w'.hit = w.hit \union Misread(answer)
    BY <2>1
  <2> QED BY <1>1, <2>2 DEF Exists
<1>2. CASE AddMustAppend
  BY <1>2 DEF AddMustAppend
<1> QED BY <1>1, <1>2

\* apply goes on to the next rule.
LEMMA GoesOn ==
  ASSUME WriterOK, AddFindsIt \/ AppendRule
  PROVE  /\ w.op = "apply" /\ w'.op = "apply" /\ w.todo # <<>> /\ w'.at = "exists"
         /\ w'.cfg = w.cfg /\ w'.todo = Tail(w.todo) /\ w'.added = AddedNow
         /\ w'.before = w.before /\ w'.hit = w.hit
         /\ w'.result = "none" /\ UNCHANGED ip6
<1> USE DEF Writing, InPlace, WriterOK
<1>1. CASE AddFindsIt
  BY <1>1 DEF AddFindsIt, NextRule
<1>2. CASE AppendRule
  BY <1>2 DEF AppendRule, NextRule
<1> QED BY <1>1, <1>2

\* apply fails, and takes back what it added.
LEMMA Fails ==
  ASSUME WriterOK, AppendRefused \/ Ip6Missing
  PROVE  /\ w.op = "apply" /\ w'.op = "undo" /\ w'.at = "look" /\ w.todo # <<>>
         /\ w'.todo = Reverse(w.added) /\ w'.added = <<>>
         /\ w'.cfg = w.cfg /\ w'.before = w.before /\ w'.hit = w.hit
         /\ w'.result = "none" /\ UNCHANGED <<chain, ip6>>
<1> USE DEF Writing, InPlace, WriterOK
<1>1. CASE AppendRefused
  BY <1>1 DEF AppendRefused, Rollback
<1>2. CASE Ip6Missing
  BY <1>2 DEF Ip6Missing, Rollback
<1> QED BY <1>1, <1>2

\* The steps of a deletion.
LEMMA Deletes ==
  ASSUME WriterOK, DelLooks \/ DelDeletes \/ DelRefused
  PROVE  /\ w.op \in {"undo", "remove"} /\ w'.op = w.op /\ w.todo # <<>>
         /\ w'.todo \in {w.todo, Tail(w.todo)} /\ w.added = <<>> /\ w'.added = <<>>
         /\ w'.cfg = w.cfg /\ w'.before = w.before /\ w.hit \subseteq w'.hit
         /\ w'.result = "none" /\ UNCHANGED ip6
         /\ DelLooks => /\ chain' = chain /\ w.at \in {"look", "again"}
                        /\ \/ Present(Current) /\ w'.at = "delete" /\ w'.todo = w.todo
                           \/ /\ w'.at = "look" /\ w'.todo = Tail(w.todo)
                              /\ Present(Current) => "check" \in w'.hit
         /\ DelDeletes => /\ chain' = Deleted(Current) /\ Present(Current)
                          /\ w.at = "delete" /\ w'.at = "again"
                          /\ w'.todo = w.todo /\ w'.hit = w.hit
         /\ DelRefused => /\ chain' = chain /\ "delete" \in w'.hit /\ w'.at = "look"
                          /\ w.at = "delete" /\ w'.todo = Tail(w.todo)
<1> USE DEF Writing, InPlace, WriterOK
<1>1. CASE DelLooks
  <2>1. PICK answer \in BOOLEAN :
          /\ Check(Current, answer)
          /\ w' = [w EXCEPT !.at = IF answer THEN "delete" ELSE "look",
                            !.todo = IF answer THEN @ ELSE Tail(@),
                            !.hit = @ \union Misread(answer)]
    BY <1>1 DEF DelLooks
  <2>2. w'.at # "again" /\ w.at # "delete"
    BY <1>1, <2>1 DEF DelLooks
  <2>3. CASE answer
    <3>1. w'.at = "delete" /\ w'.todo = w.todo /\ Present(Current)
      BY <2>1, <2>3 DEF Check
    <3> QED BY <1>1, <2>1, <2>2, <3>1 DEF DelLooks, DelDeletes, DelRefused
  <2>4. CASE ~answer
    <3>1. w'.at = "look" /\ w'.todo = Tail(w.todo) /\ w'.hit = w.hit \union Misread(FALSE)
      BY <2>1, <2>4
    <3>2. Present(Current) => "check" \in w'.hit
      BY <3>1 DEF Misread
    <3> QED BY <1>1, <2>1, <2>2, <3>1, <3>2 DEF DelLooks, DelDeletes, DelRefused
  <2> QED BY <2>3, <2>4
<1>2. CASE DelDeletes
  <2>1. ~DelLooks /\ ~DelRefused
    BY <1>2, ZenonT(30) DEF DelDeletes, DelLooks, DelRefused
  <2> QED BY <1>2, <2>1 DEF DelDeletes
<1>3. CASE DelRefused
  <2>1. ~DelLooks /\ ~DelDeletes
    BY <1>3 DEF DelDeletes, DelLooks, DelRefused
  <2> QED BY <1>3, <2>1 DEF DelRefused
<1> QED BY <1>1, <1>2, <1>3

\* A call ends.
LEMMA Returns ==
  ASSUME WriterOK, ApplyReturns \/ ListDone
  PROVE  /\ w.todo = <<>> /\ w'.op = "idle" /\ w'.at = "-"
         /\ w'.todo = <<>> /\ w'.added = <<>>
         /\ w'.cfg = w.cfg /\ w'.before = w.before /\ w'.hit = w.hit
         /\ UNCHANGED <<chain, ip6>>
         /\ \/ w.op = "apply" /\ w'.result = "armed"
            \/ w.op = "undo" /\ w.at = "look" /\ w'.result = "raised"
            \/ w.op = "remove" /\ w.at = "look" /\ w'.result = "removed"
<1> USE DEF Writing, InPlace, WriterOK
<1>1. CASE ApplyReturns
  BY <1>1 DEF ApplyReturns, End
<1>2. CASE ListDone
  BY <1>2 DEF ListDone, End
<1> QED BY <1>1, <1>2

\* The daemon is gone.
LEMMA Gone ==
  ASSUME Die \/ Reboot
  PROVE  /\ w'.op = "idle" /\ w'.at = "-" /\ w'.todo = <<>> /\ w'.added = <<>>
         /\ w'.result = "none" /\ w'.hit = {} /\ UNCHANGED ip6
BY DEF Die, Reboot, NoWrite

-----------------------------------------------------------------------------
(* What apply and remove achieve *)

\* apply goes on only when a rule is in, and takes none away.
LEMMA ApplyInv ==
  ASSUME WriterOK, ApplyInstalls, Writer
  PROVE  ApplyInstalls'
<1>0. w.todo \in Seq(Rule) /\ Ruleset(w.cfg) \in Seq(Rule)
  BY Lists DEF WriterOK, Writing
<1>1. CASE Exists \/ AddMustAppend
  BY <1>1, Looks, InstalledSteps DEF ApplyInstalls
<1>2. CASE AddFindsIt \/ AppendRule
  <2>1. Current \in Installed' /\ Installed \subseteq Installed'
    <3>1. CASE AddFindsIt
      <4>1. Present(Current) /\ chain' = chain
        BY <3>1 DEF AddFindsIt, Check
      <4>2. Current \in Rule
        BY <1>0, <1>2, GoesOn, HeadTail DEF Current
      <4> QED BY <4>1, <4>2, InstalledSteps DEF Installed
    <3>2. CASE AppendRule
      BY <3>2, InstalledSteps
    <3> QED BY <1>2, <3>1, <3>2
  <2>2. /\ LeftOf(Ruleset(w.cfg), Tail(w.todo))
        /\ Behind(Ruleset(w.cfg), Tail(w.todo)) =
             Behind(Ruleset(w.cfg), w.todo) \union {Current}
    BY <1>0, <1>2, GoesOn, OneFurther DEF ApplyInstalls, Current
  <2> QED BY <1>2, <2>1, <2>2, GoesOn DEF ApplyInstalls
<1>3. CASE ApplyReturns \/ ListDone
  <2>1. CASE w.op = "apply"
    <3>1. ToSet(Ruleset(w.cfg)) \subseteq Installed
      BY <1>0, <1>3, <2>1, Returns, StartAndEnd DEF ApplyInstalls
    <3> QED BY <1>3, <3>1, Returns, InstalledSteps DEF ApplyInstalls
  <2>2. CASE w.op # "apply"
    BY <1>3, <2>2, Returns DEF ApplyInstalls
  <2> QED BY <2>1, <2>2
<1>4. CASE AppendRefused \/ Ip6Missing
  BY <1>4, Fails DEF ApplyInstalls
<1>5. CASE DelLooks \/ DelDeletes \/ DelRefused
  BY <1>5, Deletes DEF ApplyInstalls
<1>6. CASE Die \/ Reboot
  BY <1>6, Gone DEF ApplyInstalls
<1>7. ASSUME NEW c \in Config, ApplyRules(c) PROVE ApplyInstalls'
  <2>1. LeftOf(Ruleset(c), Ruleset(c)) /\ Behind(Ruleset(c), Ruleset(c)) = {}
    BY Lists, StartAndEnd
  <2>2. w'.op = "apply" /\ w'.todo = Ruleset(c) /\ w'.cfg = c /\ w'.result = "none"
    BY <1>7, Begins
  <2> QED BY <2>1, <2>2 DEF ApplyInstalls
<1>8. ASSUME NEW c \in Config, RemoveRules(c) PROVE ApplyInstalls'
  <2>1. w'.op = "remove" /\ w'.result = "none"
    BY <1>8, Begins
  <2> QED BY <2>1 DEF ApplyInstalls
<1> QED BY <1>1, <1>2, <1>3, <1>4, <1>5, <1>6, <1>7, <1>8 DEF Writer, Step

\* remove goes on only when a rule is gone, or something hit the call.
LEMMA RemoveInv ==
  ASSUME WriterOK, RemoveClears, Writer
  PROVE  RemoveClears'
<1> DEFINE list == RemovalOf(w.cfg, ip6)
<1>0. w.todo \in Seq(Rule) /\ list \in Seq(Rule) /\ w' \in Writing
  BY Lists, StepTyped DEF WriterOK, Writing
<1>1. CASE Exists \/ AddMustAppend
  BY <1>1, Looks DEF RemoveClears
<1>2. CASE AddFindsIt \/ AppendRule
  BY <1>2, GoesOn DEF RemoveClears
<1>3. CASE AppendRefused \/ Ip6Missing
  BY <1>3, Fails DEF RemoveClears
<1>4. CASE ApplyReturns \/ ListDone
  <2>1. /\ w'.op = "idle" /\ w'.cfg = w.cfg /\ w'.hit = w.hit /\ UNCHANGED <<chain, ip6>>
        /\ w'.result = "removed" => w.op = "remove" /\ w.todo = <<>>
    BY <1>4, Returns
  <2>2. Installed' = Installed
    BY <2>1, InstalledSteps
  <2>3. Behind(list, <<>>) = ToSet(list)
    BY <1>0, StartAndEnd
  <2> QED BY <2>1, <2>2, <2>3 DEF RemoveClears
<1>5. CASE DelLooks \/ DelDeletes \/ DelRefused
  <2>1. CASE w.op = "undo"
    BY <1>5, <2>1, Deletes DEF RemoveClears
  <2>2. CASE w.op = "remove"
    <3>1. /\ w'.op = "remove" /\ w'.cfg = w.cfg /\ UNCHANGED ip6 /\ w'.result = "none"
          /\ w.todo # <<>> /\ w.hit \subseteq w'.hit
      BY <1>5, <2>2, Deletes
    <3>2. /\ LeftOf(list, w.todo)
          /\ LeftOf(list, Tail(w.todo))
          /\ Behind(list, Tail(w.todo)) = Behind(list, w.todo) \union {Current}
      BY <1>0, <2>2, <3>1, OneFurther DEF RemoveClears, Current
    <3>3. w.hit = {} => Behind(list, w.todo) \intersect Installed = {}
      BY <2>2 DEF RemoveClears
    <3>4. Installed' \subseteq Installed
      BY <1>5, InstalledSteps, Deletes
    <3> HIDE DEF list
    <3>5. CASE w'.todo = w.todo
      BY <3>1, <3>2, <3>3, <3>4, <3>5 DEF RemoveClears, list
    <3>6. CASE w'.todo # w.todo
      <4>1. w'.todo = Tail(w.todo) /\ w'.hit = {} => ~Present(Current)
        BY <1>5, <3>6, Deletes
      <4> QED BY <1>5, <3>1, <3>2, <3>3, <3>4, <3>6, <4>1, Deletes
          DEF RemoveClears, list, Installed
    <3> QED BY <3>5, <3>6
  <2> QED BY <1>5, <2>1, <2>2, Deletes
<1>6. CASE Die \/ Reboot
  BY <1>6, Gone DEF RemoveClears
<1>7. ASSUME NEW c \in Config, ApplyRules(c) PROVE RemoveClears'
  <2>1. w'.op = "apply" /\ w'.result = "none"
    BY <1>7, Begins
  <2> QED BY <2>1 DEF RemoveClears
<1>8. ASSUME NEW c \in Config, RemoveRules(c) PROVE RemoveClears'
  <2>1. w'.op = "remove" /\ w'.todo = RemovalOf(c, ip6) /\ w'.cfg = c /\ w'.result = "none"
    BY <1>8, Begins
  <2>2. UNCHANGED ip6 /\ RemovalOf(c, ip6) \in Seq(Rule)
    BY StepTyped, Lists DEF WriterOK
  <2>3. /\ LeftOf(RemovalOf(c, ip6), RemovalOf(c, ip6))
        /\ Behind(RemovalOf(c, ip6), RemovalOf(c, ip6)) = {}
    BY <2>2, StartAndEnd
  <2> QED BY <2>1, <2>2, <2>3 DEF RemoveClears
<1> QED BY <1>1, <1>2, <1>3, <1>4, <1>5, <1>6, <1>7, <1>8 DEF Writer, Step

\* apply and its rollback leave alone what was there before the call.
LEMMA KeepsInv ==
  ASSUME WriterOK, KnowsTheRule, ApplyKeepsEarlierRules, OnlyItsOwn, Writer
  PROVE  ApplyKeepsEarlierRules' /\ OnlyItsOwn'
<1> DEFINE Early(ch, b) == \A t \in Tables : ToSet(b[t]) \subseteq ToSet(ch[t])
<1>0. /\ w.todo \in Seq(Rule) /\ w.added \in Seq(Rule) /\ Typed(chain)
      /\ w.todo # <<>> => /\ Current \in Rule /\ Current \in ToSet(w.todo)
                         /\ ToSet(Tail(w.todo)) \subseteq ToSet(w.todo)
  BY HeadTail DEF WriterOK, Writing, Current
<1>1. CASE Exists \/ AddMustAppend
  BY <1>1, Looks DEF ApplyKeepsEarlierRules, OnlyItsOwn
<1>2. CASE AddFindsIt \/ AppendRule
  <2>1. CASE "check" \in w.hit
    BY <1>2, <2>1, GoesOn DEF ApplyKeepsEarlierRules, OnlyItsOwn
  <2>2. CASE "check" \notin w.hit
    <3>1. /\ w.op = "apply" /\ w'.op = "apply" /\ w'.added = AddedNow
          /\ w'.before = w.before /\ w.todo # <<>>
      BY <1>2, GoesOn
    <3>2. Early(chain, w.before) /\ \A r \in ToSet(w.added) : ~PresentIn(w.before, r)
      BY <2>2, <3>1 DEF ApplyKeepsEarlierRules, OnlyItsOwn
    <3>3. Early(chain', w.before)
      <4>1. CASE AddFindsIt
        BY <3>2, <4>1 DEF AddFindsIt
      <4>2. CASE AppendRule
        <5>1. \A t \in Tables : ToSet(chain[t]) \subseteq ToSet(chain'[t])
          BY <1>0, <3>1, <4>2, AppendedIs DEF AppendRule
        <5> QED BY <3>2, <5>1
      <4> QED BY <1>2, <4>1, <4>2
    <3>4. ~w.existed => ~PresentIn(w.before, Current)
      <4>1. ~w.existed => ~Present(Current)
        BY <1>2, <2>2 DEF AddFindsIt, AppendRule, Check, KnowsTheRule
      <4>2. Current.table \in Tables
        BY <1>0, <3>1, Rules
      <4> QED BY <3>2, <4>1, <4>2 DEF Present, PresentIn
    <3>5. ToSet(AddedNow) \subseteq
            ToSet(w.added) \union (IF w.existed THEN {} ELSE {Current})
      BY <1>0, <3>1, AppendSet DEF AddedNow
    <3> HIDE DEF Early
    <3>6. OnlyItsOwn'
      BY <3>1, <3>2, <3>4, <3>5 DEF OnlyItsOwn
    <3> QED BY <3>1, <3>3, <3>6 DEF Early, ApplyKeepsEarlierRules
  <2> QED BY <2>1, <2>2
<1>3. CASE AppendRefused \/ Ip6Missing
  <2>1. /\ w.op = "apply" /\ w'.op = "undo" /\ w'.todo = Reverse(w.added)
        /\ w'.added = <<>> /\ w'.before = w.before /\ w'.hit = w.hit /\ chain' = chain
    BY <1>3, Fails
  <2>2. ToSet(w'.todo) = ToSet(w.added) /\ ToSet(w'.added) = {}
    BY <1>0, <2>1, ReverseSet, EmptySet
  <2> QED BY <2>1, <2>2 DEF ApplyKeepsEarlierRules, OnlyItsOwn
<1>4. CASE ApplyReturns \/ ListDone
  BY <1>4, Returns DEF ApplyKeepsEarlierRules, OnlyItsOwn
<1>5. CASE DelLooks \/ DelDeletes \/ DelRefused
  <2>0. /\ w'.op = w.op /\ w.todo # <<>> /\ w'.todo \in {w.todo, Tail(w.todo)}
        /\ w.added = <<>> /\ w'.added = <<>>
        /\ w'.before = w.before /\ w.hit \subseteq w'.hit
    BY <1>5, Deletes
  <2>1. OnlyItsOwn'
    BY <1>0, <2>0 DEF OnlyItsOwn
  <2>2. CASE chain' = chain
    BY <2>0, <2>1, <2>2 DEF ApplyKeepsEarlierRules
  <2>3. CASE DelDeletes
    <3> SUFFICES ASSUME w.op \in {"apply", "undo"}, "check" \notin w.hit
                 PROVE  Early(chain', w.before)
      BY <2>0, <2>1 DEF ApplyKeepsEarlierRules
    <3>1. w.op = "undo" /\ chain' = Deleted(Current) /\ Present(Current)
      BY <1>5, <2>3, Deletes
    <3>2. ~PresentIn(w.before, Current)
      BY <1>0, <2>0, <3>1 DEF OnlyItsOwn
    <3>3. \A t \in Tables : ToSet(chain[t]) \subseteq ToSet(chain'[t]) \union {Current}
      BY <1>0, <2>0, <3>1, DeletedIs
    <3>4. Early(chain, w.before)
      BY <3>1 DEF ApplyKeepsEarlierRules
    <3>5. ASSUME NEW t \in Tables, NEW x \in ToSet(w.before[t]) PROVE x # Current
      BY <1>0, <3>2, <3>4, <3>5 DEF Typed, PresentIn
    <3> QED BY <3>3, <3>4, <3>5
  <2> QED BY <1>5, <2>2, <2>3, Deletes
<1>6. CASE Die \/ Reboot
  BY <1>6, Gone DEF ApplyKeepsEarlierRules, OnlyItsOwn
<1>7. ASSUME NEW c \in Config, ApplyRules(c)
      PROVE  ApplyKeepsEarlierRules' /\ OnlyItsOwn'
  <2>1. w'.op = "apply" /\ w'.added = <<>> /\ w'.before = chain /\ chain' = chain
    BY <1>7, Begins DEF ApplyRules
  <2> QED BY <2>1, EmptySet DEF ApplyKeepsEarlierRules, OnlyItsOwn
<1>8. ASSUME NEW c \in Config, RemoveRules(c)
      PROVE  ApplyKeepsEarlierRules' /\ OnlyItsOwn'
  <2>1. w'.op = "remove"
    BY <1>8, Begins
  <2> QED BY <2>1 DEF ApplyKeepsEarlierRules, OnlyItsOwn
<1> QED BY <1>1, <1>2, <1>3, <1>4, <1>5, <1>6, <1>7, <1>8 DEF Writer, Step

-----------------------------------------------------------------------------
(* The chains as a stack *)

\* (The chains before the call, as a predicate of its own for the provers.)
AsChains(b) == b \in [Tables -> Seq(Rule \union Foreign)]

\* With nothing of its own in them the chains are what they were.
LEMMA EmptyStack ==
  ASSUME NEW b, AsChains(b), Typed(chain),
         Stacked(chain, b, <<>>)
  PROVE  chain = b
<1>1. ASSUME NEW t \in Tables PROVE chain[t] = b[t]
  <2>1. /\ chain[t] \in Seq(Rule \union Foreign) /\ b[t] \in Seq(Rule \union Foreign)
        /\ Len(b[t]) \in Nat /\ Len(chain[t]) \in Nat
    BY DEF Typed, AsChains
  <2>2. Len(b[t]) = Len(chain[t])
    <3>1. Len(b[t]) <= Len(chain[t])
      BY DEF Stacked
    <3>2. ASSUME Len(b[t]) < Len(chain[t]) PROVE FALSE
      <4>1. Len(chain[t]) \in (Len(b[t]) + 1)..Len(chain[t])
        BY <2>1, <3>2
      <4> QED BY <4>1 DEF Stacked
    <3> QED BY <2>1, <3>1, <3>2
  <2>3. \A p \in 1..Len(b[t]) : chain[t][p] = b[t][p]
    BY DEF Stacked
  <2> QED BY <2>1, <2>2, <2>3, SeqEqual
<1> QED BY <1>1 DEF Typed, AsChains

\* A rule that was in no chain goes on top.
LEMMA Push ==
  ASSUME Typed(chain), NEW b, AsChains(b),
         NEW list \in Seq(Rule), NEW r \in Rule, Stacked(chain, b, list), ~Present(r)
  PROVE  Stacked(Appended(r), b, Append(list, r))
<1> DEFINE ch == Appended(r)
           new == Append(list, r)
           n == Len(list)
<1>1. /\ n \in Nat /\ DOMAIN list = 1..n /\ DOMAIN new = 1..(n + 1)
      /\ \A i \in 1..n : new[i] = list[i]
      /\ new[n + 1] = r
  OBVIOUS
<1>2. /\ r.table \in Tables /\ Typed(ch)
      /\ ch[r.table] = Append(chain[r.table], r)
      /\ \A t \in Tables : t # r.table => ch[t] = chain[t]
      /\ \A x \in Rule : PresentIn(ch, x) <=> x = r \/ Present(x)
  BY AppendedIs
<1> HIDE DEF ch, new, n
<1>3. \A i \in 1..n : list[i] \in Rule /\ Present(list[i]) /\ ~PresentIn(b, list[i])
  BY <1>1 DEF Stacked, Present
<1>4. ~PresentIn(b, r)
  <2>1. /\ chain[r.table] \in Seq(Rule \union Foreign) /\ b[r.table] \in Seq(Rule \union Foreign)
        /\ Len(b[r.table]) <= Len(chain[r.table])
        /\ \A p \in 1..Len(b[r.table]) : chain[r.table][p] = b[r.table][p]
    BY <1>2 DEF Typed, AsChains, Stacked
  <2>2. ToSet(b[r.table]) \subseteq ToSet(chain[r.table])
    BY <2>1, SMTT(30) DEF ToSet
  <2> QED BY <2>2 DEF Present, PresentIn
<1>5. ASSUME NEW i \in DOMAIN new PROVE PresentIn(ch, new[i]) /\ ~PresentIn(b, new[i])
  <2>1. i \in 1..n \/ i = n + 1
    BY <1>1
  <2> QED BY <2>1, <1>1, <1>2, <1>3, <1>4
<1>6. ASSUME NEW i \in DOMAIN new, NEW j \in DOMAIN new, new[i] = new[j] PROVE i = j
  <2>1. (i \in 1..n \/ i = n + 1) /\ (j \in 1..n \/ j = n + 1)
    BY <1>1
  <2>2. \A k \in 1..n : list[k] # r
    BY <1>3
  <2>3. \A k, l \in 1..n : list[k] = list[l] => k = l
    BY <1>1 DEF Stacked
  <2> QED BY <2>1, <2>2, <2>3, <1>1, <1>6
<1>7. ASSUME NEW t \in Tables
      PROVE  /\ Len(b[t]) <= Len(ch[t])
             /\ \A p \in 1..Len(b[t]) : ch[t][p] = b[t][p]
             /\ \A p \in (Len(b[t]) + 1)..Len(ch[t]) :
                  \E i \in DOMAIN new : new[i] = ch[t][p]
             /\ \A p, q \in (Len(b[t]) + 1)..Len(ch[t]) : p < q =>
                  \E i, j \in DOMAIN new : i < j /\ new[i] = ch[t][p] /\ new[j] = ch[t][q]
  <2> DEFINE m == Len(b[t])
             s == chain[t]
             k == Len(s)
  <2>1. m \in Nat /\ k \in Nat /\ s \in Seq(Rule \union Foreign) /\ m <= k
    BY DEF Typed, AsChains, Stacked
  <2>2. /\ \A p \in 1..m : s[p] = b[t][p]
        /\ \A p \in (m + 1)..k : \E i \in 1..n : list[i] = s[p]
        /\ \A p, q \in (m + 1)..k : p < q =>
             \E i, j \in 1..n : i < j /\ list[i] = s[p] /\ list[j] = s[q]
    BY <1>1 DEF Stacked
  <2>3. ASSUME NEW p \in (m + 1)..k PROVE \E i \in DOMAIN new : i <= n /\ new[i] = s[p]
    BY <1>1, <2>2
  <2>4. ASSUME NEW p \in (m + 1)..k, NEW q \in (m + 1)..k, p < q
        PROVE  \E i, j \in DOMAIN new : i < j /\ new[i] = s[p] /\ new[j] = s[q]
    <3>1. PICK i \in 1..n, j \in 1..n : i < j /\ list[i] = s[p] /\ list[j] = s[q]
      BY <2>2, <2>4
    <3>2. i \in DOMAIN new /\ j \in DOMAIN new /\ new[i] = s[p] /\ new[j] = s[q]
      BY <3>1, <1>1
    <3> QED BY <3>1, <3>2
  <2>5. CASE t # r.table
    <3>1. ch[t] = s
      BY <1>2, <2>5
    <3> HIDE DEF m, k, s
    <3> QED BY <2>1, <2>2, <2>3, <2>4, <3>1 DEF m, k
  <2>6. CASE t = r.table
    <3>1. /\ Len(ch[t]) = k + 1 /\ ch[t][k + 1] = r
          /\ \A p \in 1..k : ch[t][p] = s[p]
      BY <1>2, <2>1, <2>6, SMTT(30)
    <3> HIDE DEF m, k, s
    <3>2. m <= k + 1 /\ \A p \in 1..m : ch[t][p] = b[t][p]
      BY <2>1, <2>2, <3>1
    <3>3. ASSUME NEW p \in (m + 1)..(k + 1)
          PROVE  \E i \in DOMAIN new : new[i] = ch[t][p]
      <4>1. CASE p = k + 1
        BY <4>1, <3>1, <1>1
      <4>2. CASE p # k + 1
        <5>1. p \in (m + 1)..k /\ p \in 1..k
          BY <4>2, <2>1
        <5> QED BY <5>1, <2>3, <3>1
      <4> QED BY <4>1, <4>2
    <3>4. ASSUME NEW p \in (m + 1)..(k + 1), NEW q \in (m + 1)..(k + 1), p < q
          PROVE  \E i, j \in DOMAIN new : i < j /\ new[i] = ch[t][p] /\ new[j] = ch[t][q]
      <4>1. p \in (m + 1)..k /\ p \in 1..k
        BY <3>4, <2>1
      <4>2. CASE q = k + 1
        <5>1. PICK i \in DOMAIN new : i <= n /\ new[i] = s[p]
          BY <4>1, <2>3
        <5>2. i < n + 1 /\ n + 1 \in DOMAIN new
          BY <5>1, <1>1
        <5> QED BY <4>1, <4>2, <5>1, <5>2, <3>1, <1>1
      <4>3. CASE q # k + 1
        <5>1. q \in (m + 1)..k /\ q \in 1..k
          BY <4>3, <2>1, SMTT(30)
        <5> QED BY <4>1, <5>1, <3>4, <2>4, <3>1
      <4> QED BY <4>2, <4>3
    <3> QED BY <3>1, <3>2, <3>3, <3>4 DEF m
  <2> QED BY <2>5, <2>6
<1> QED BY <1>5, <1>6, <1>7 DEF Stacked, ch, new

\* The newest of its own rules is the last of its chain, and is taken off.
LEMMA Pop ==
  ASSUME Typed(chain), NEW b, AsChains(b),
         NEW list \in Seq(Rule), NEW front \in Seq(Rule), NEW r \in Rule,
         Stacked(chain, b, list), Present(r),
         Len(list) > 0, r = list[Len(list)], Len(front) = Len(list) - 1,
         \A i \in 1..(Len(list) - 1) : front[i] = list[i]
  PROVE  /\ Stacked(Deleted(r), b, front) /\ ~PresentIn(Deleted(r), r)
         /\ Len(Deleted(r)[r.table]) = Len(chain[r.table]) - 1
         /\ \A p \in 1..(Len(chain[r.table]) - 1) :
              Deleted(r)[r.table][p] = chain[r.table][p] /\ chain[r.table][p] # r
<1> DEFINE ch == Deleted(r)
           n == Len(list)
           T == r.table
           s == chain[T]
           k == Len(s)
<1>1. /\ n \in Nat /\ n > 0 /\ DOMAIN list = 1..n /\ DOMAIN front = 1..(n - 1)
      /\ list[n] = r
      /\ \A i \in 1..(n - 1) : front[i] = list[i]
  OBVIOUS
<1>2. /\ Typed(ch) /\ T \in Tables /\ \A t \in Tables : t # T => ch[t] = chain[t]
      /\ \A t \in Tables : ToSet(chain[t]) \subseteq ToSet(ch[t]) \union {r}
  BY DeletedIs
<1>3. PICK x \in 1..k :
        /\ s[x] = r
        /\ \A j \in 1..k : s[j] = r => x <= j
        /\ Len(ch[T]) = k - 1
        /\ \A j \in 1..(k - 1) : ch[T][j] = IF j < x THEN s[j] ELSE s[j + 1]
  BY DeletedIs
<1>4. s \in Seq(Rule \union Foreign) /\ k \in Nat /\ b[T] \in Seq(Rule \union Foreign)
  BY <1>2 DEF Typed, AsChains
<1>5. Len(b[T]) \in Nat /\ Len(b[T]) <= k /\ \A p \in 1..Len(b[T]) : s[p] = b[T][p]
  BY <1>2, <1>4 DEF Stacked
<1>6. ~PresentIn(b, r)
  BY <1>1 DEF Stacked
<1>7. \A i, j \in 1..n : list[i] = list[j] => i = j
  BY <1>1 DEF Stacked
<1>8. x > Len(b[T])
  <2>1. ASSUME x <= Len(b[T]) PROVE FALSE
    <3>1. x \in 1..Len(b[T]) /\ b[T][x] = r
      BY <2>1, <1>3, <1>5
    <3> QED BY <3>1, <1>4, <1>6 DEF PresentIn, ToSet
  <2> QED BY <2>1, <1>3, <1>5
<1>9. x = k
  <2>1. ASSUME x < k PROVE FALSE
    <3>1. x \in (Len(b[T]) + 1)..k /\ k \in (Len(b[T]) + 1)..k
      BY <2>1, <1>3, <1>4, <1>5, <1>8
    <3> HIDE DEF T
    <3>0. T \in Tables /\ x < Len(chain[T])
      BY <1>2, <2>1
    <3>2. \E i, j \in DOMAIN list : i < j /\ list[i] = chain[T][x] /\ list[j] = chain[T][k]
      BY <3>0, <3>1, ZenonT(30) DEF Stacked
    <3>5. PICK i \in 1..n, j \in 1..n : i < j /\ list[i] = s[x]
      BY <3>2, <1>1
    <3>3. n \in 1..n
      BY <1>1
    <3>4. i = n
      BY <3>5, <3>3, <1>1, <1>3, <1>7
    <3> QED BY <3>5, <3>4, <1>1
  <2> QED BY <2>1, <1>3, <1>4
<1>10. /\ Len(b[T]) <= k - 1 /\ Len(ch[T]) = k - 1
       /\ \A p \in 1..(k - 1) : ch[T][p] = s[p] /\ s[p] # r
  <2>1. ASSUME NEW p \in 1..(k - 1) PROVE ch[T][p] = s[p] /\ s[p] # r
    <3>1. p \in 1..k /\ p < x
      BY <1>4, <1>9
    <3> QED BY <3>1, <1>3
  <2> QED BY <2>1, <1>3, <1>4, <1>5, <1>8, <1>9
<1>11. ASSUME NEW t \in Tables, NEW p \in 1..Len(ch[t])
       PROVE  p \in 1..Len(chain[t]) /\ ch[t][p] = chain[t][p] /\ chain[t][p] # r
  <2>1. CASE t = T
    BY <2>1, <1>4, <1>10
  <2>2. CASE t # T
    <3>1. chain[t][p] \in ToSet(chain[t])
      BY <2>2, <1>2 DEF Typed, AsChains, ToSet
    <3> QED BY <2>2, <3>1, <1>2 DEF Typed, AsChains
  <2> QED BY <2>1, <2>2
<1>12. ~PresentIn(ch, r)
  <2>1. ch[T] \in Seq(Rule \union Foreign)
    BY <1>2 DEF Typed, AsChains
  <2>2. \A p \in 1..Len(ch[T]) : ch[T][p] # r
    BY <1>2, <1>11
  <2> QED BY <2>1, <2>2, SMTT(30) DEF PresentIn, ToSet
<1> HIDE DEF ch, n
<1>13. ASSUME NEW i \in 1..n, list[i] # r PROVE i \in 1..(n - 1) /\ front[i] = list[i]
  BY <1>1, <1>13
<1>14. ASSUME NEW t \in Tables
       PROVE  /\ Len(b[t]) <= Len(ch[t])
              /\ \A p \in 1..Len(b[t]) : ch[t][p] = b[t][p]
              /\ \A p \in (Len(b[t]) + 1)..Len(ch[t]) :
                   \E i \in DOMAIN front : front[i] = ch[t][p]
              /\ \A p, q \in (Len(b[t]) + 1)..Len(ch[t]) : p < q =>
                   \E i, j \in DOMAIN front :
                     i < j /\ front[i] = ch[t][p] /\ front[j] = ch[t][q]
  <2> DEFINE m == Len(b[t])
             l == Len(ch[t])
  <2>1. m \in Nat /\ l \in Nat /\ Len(chain[t]) \in Nat
    BY <1>2 DEF Typed, AsChains
  <2>2. m <= l
    <3>1. CASE t = T
      BY <3>1, <1>10
    <3>2. CASE t # T
      BY <3>2, <1>2 DEF Stacked
    <3> QED BY <3>1, <3>2
  <2>3. ASSUME NEW p \in 1..m PROVE ch[t][p] = b[t][p]
    <3>1. p \in 1..l
      BY <2>1, <2>2
    <3> QED BY <3>1, <1>11 DEF Stacked
  <2>4. ASSUME NEW p \in (m + 1)..l
        PROVE  p \in (m + 1)..Len(chain[t]) /\ ch[t][p] = chain[t][p] /\ chain[t][p] # r
    <3>1. p \in 1..l
      BY <2>1
    <3> QED BY <3>1, <2>1, <1>11
  <2>5. ASSUME NEW p \in (m + 1)..l PROVE \E i \in DOMAIN front : front[i] = ch[t][p]
    <3>1. PICK i \in 1..n : list[i] = chain[t][p]
      BY <2>4, <1>1 DEF Stacked
    <3> QED BY <3>1, <2>4, <1>1, <1>13
  <2>6. ASSUME NEW p \in (m + 1)..l, NEW q \in (m + 1)..l, p < q
        PROVE  \E i, j \in DOMAIN front : i < j /\ front[i] = ch[t][p] /\ front[j] = ch[t][q]
    <3>1. PICK i \in 1..n, j \in 1..n : i < j /\ list[i] = chain[t][p] /\ list[j] = chain[t][q]
      BY <2>4, <2>6, <1>1 DEF Stacked
    <3> QED BY <3>1, <2>4, <1>1, <1>13
  <2> QED BY <2>2, <2>3, <2>5, <2>6
<1>15. ASSUME NEW i \in DOMAIN front PROVE PresentIn(ch, front[i]) /\ ~PresentIn(b, front[i])
  <2>1. i \in 1..n /\ n \in 1..n /\ i # n /\ front[i] = list[i]
    BY <1>1
  <2>2. list[i] # r /\ list[i] \in Rule
    BY <2>1, <1>1, <1>7
  <2>3. PresentIn(chain, list[i]) /\ ~PresentIn(b, list[i]) /\ list[i].table \in Tables
    BY <2>1, <2>2, <1>1, Rules DEF Stacked
  <2> QED BY <2>1, <2>2, <2>3, <1>2 DEF PresentIn
<1>16. ASSUME NEW i \in DOMAIN front, NEW j \in DOMAIN front, front[i] = front[j] PROVE i = j
  <2>1. i \in 1..n /\ j \in 1..n /\ front[i] = list[i] /\ front[j] = list[j]
    BY <1>1
  <2> QED BY <2>1, <1>7, <1>16
<1> QED BY <1>10, <1>12, <1>14, <1>15, <1>16 DEF Stacked, ch

\* At the start of a call the stack is empty.
LEMMA NewStack ==
  ASSUME Typed(chain)
  PROVE  Stacked(chain, chain, <<>>)
<1>1. \A t \in Tables : Len(chain[t]) \in Nat
  BY DEF Typed
<1>2. \A t \in Tables : \A p : ~(p \in (Len(chain[t]) + 1)..Len(chain[t]))
  BY <1>1
<1>3. DOMAIN <<>> = {}
  OBVIOUS
<1> QED BY <1>1, <1>2, <1>3 DEF Stacked

\* A delete of an undisturbed rollback pops the stack.
LEMMA PopStep ==
  ASSUME WriterOK, Grown, DelDeletes, w.op = "undo", w.hit = {}
  PROVE  /\ Stacked(chain', w.before, Own') /\ ~Present(Current)'
         /\ chain' = Deleted(Current)
         /\ Len(chain'[Current.table]) = Len(chain[Current.table]) - 1
         /\ \A p \in 1..(Len(chain[Current.table]) - 1) :
              chain'[Current.table][p] = chain[Current.table][p]
<1> DEFINE list == Reverse(w.todo)
           front == Reverse(Tail(w.todo))
<1>1. /\ w.todo \in Seq(Rule) /\ w.todo # <<>> /\ Typed(chain) /\ AsChains(w.before)
      /\ Current \in Rule /\ Tail(w.todo) \in Seq(Rule)
  BY HeadTail, Deletes DEF WriterOK, Writing, Current, AsChains
<1>2. /\ chain' = Deleted(Current) /\ Present(Current) /\ w'.op = "undo"
      /\ w.at = "delete" /\ w'.at = "again" /\ w'.todo = w.todo
  BY Deletes
<1>3. Own = list /\ Own' = front /\ Stacked(chain, w.before, Own)
  BY <1>2 DEF Own, Grown
<1>4. list \in Seq(Rule) /\ front \in Seq(Rule)
  BY <1>1, ReverseSet
<1>5. /\ Len(list) = Len(w.todo) /\ Len(front) = Len(w.todo) - 1 /\ Len(w.todo) > 0
      /\ list[Len(w.todo)] = Current
      /\ \A i \in 1..(Len(w.todo) - 1) : front[i] = list[i]
  BY <1>1, ReverseTail DEF Current
<1> HIDE DEF list, front
<1>6. /\ Stacked(Deleted(Current), w.before, front) /\ ~PresentIn(Deleted(Current), Current)
      /\ Len(Deleted(Current)[Current.table]) = Len(chain[Current.table]) - 1
      /\ \A p \in 1..(Len(chain[Current.table]) - 1) :
           Deleted(Current)[Current.table][p] = chain[Current.table][p]
  <2> DEFINE r == Current
             b == w.before
  <2>1. /\ Typed(chain) /\ AsChains(b) /\ r \in Rule /\ Stacked(chain, b, list) /\ Present(r)
        /\ list \in Seq(Rule) /\ front \in Seq(Rule)
    BY <1>1, <1>2, <1>3, <1>4
  <2>2. /\ Len(list) > 0 /\ r = list[Len(list)] /\ Len(front) = Len(list) - 1
        /\ \A i \in 1..(Len(list) - 1) : front[i] = list[i]
    BY <1>5
  <2> HIDE DEF r, b
  <2>3. /\ Stacked(Deleted(r), b, front) /\ ~PresentIn(Deleted(r), r)
        /\ Len(Deleted(r)[r.table]) = Len(chain[r.table]) - 1
        /\ \A p \in 1..(Len(chain[r.table]) - 1) :
             Deleted(r)[r.table][p] = chain[r.table][p] /\ chain[r.table][p] # r
    BY <2>1, <2>2, Pop, SMTT(30)
  <2> QED BY <2>3 DEF r, b
<1> QED BY <1>2, <1>3, <1>6 DEF Present, Current

\* Every step of an undisturbed apply or rollback pushes or pops one rule of
\* the stack, so that a failed apply ends with the chains it found.
LEMMA GrownInv ==
  ASSUME WriterOK, KnowsTheRule, Grown, FailedApplyRestores, Writer
  PROVE  Grown' /\ FailedApplyRestores'
<1>0. /\ w.todo \in Seq(Rule) /\ w.added \in Seq(Rule) /\ Typed(chain) /\ InPlace
      /\ AsChains(w.before)
      /\ w.todo # <<>> => Current \in Rule /\ Tail(w.todo) \in Seq(Rule)
  BY HeadTail DEF WriterOK, Writing, Current, AsChains
<1>1. CASE Exists \/ AddMustAppend
  BY <1>1, Looks DEF Grown, FailedApplyRestores, Own
<1>2. CASE AddFindsIt \/ AppendRule
  <2>1. /\ w.op = "apply" /\ w'.op = "apply" /\ w'.added = AddedNow /\ w'.at = "exists"
        /\ w'.before = w.before /\ w.todo # <<>> /\ w'.hit = w.hit /\ w'.result = "none"
    BY <1>2, GoesOn
  <2>2. ASSUME w.hit = {} PROVE Stacked(chain', w.before, AddedNow)
    <3>1. Stacked(chain, w.before, w.added)
      BY <2>1, <2>2 DEF Grown, Own
    <3>2. CASE AddFindsIt
      <4>1. Present(Current) /\ w.existed /\ chain' = chain
        BY <2>2, <3>2 DEF AddFindsIt, Check, KnowsTheRule
      <4> QED BY <3>1, <4>1 DEF AddedNow
    <3>3. CASE AppendRule
      <4>1. ~Present(Current) /\ ~w.existed /\ chain' = Appended(Current)
        BY <2>2, <3>3 DEF AppendRule, KnowsTheRule
      <4> QED BY <1>0, <2>1, <3>1, <4>1, Push DEF AddedNow
    <3> QED BY <1>2, <3>2, <3>3
  <2> QED BY <2>1, <2>2 DEF Grown, FailedApplyRestores, Own
<1>3. CASE AppendRefused \/ Ip6Missing
  <2>1. /\ w.op = "apply" /\ w'.op = "undo" /\ w'.at = "look" /\ w'.todo = Reverse(w.added)
        /\ w'.before = w.before /\ w'.hit = w.hit /\ w'.result = "none" /\ chain' = chain
    BY <1>3, Fails
  <2>2. Own' = Own
    BY <1>0, <2>1, ReverseTwice DEF Own
  <2> QED BY <2>1, <2>2 DEF Grown, FailedApplyRestores
<1>4. CASE ApplyReturns \/ ListDone
  <2>1. /\ w.todo = <<>> /\ w'.op = "idle" /\ w'.before = w.before /\ w'.hit = w.hit
        /\ chain' = chain
        /\ w'.result = "raised" => w.op = "undo" /\ w.at = "look"
    BY <1>4, Returns
  <2>2. ASSUME w'.result = "raised", w.hit = {} PROVE chain = w.before
    <3>1. Stacked(chain, w.before, Reverse(<<>>))
      BY <2>1, <2>2 DEF Grown, Own
    <3>2. Reverse(<<>>) = <<>>
      BY DEF Reverse
    <3> QED BY <1>0, <3>1, <3>2, EmptyStack
  <2> QED BY <2>1, <2>2 DEF Grown, FailedApplyRestores
<1>5. CASE DelLooks \/ DelDeletes \/ DelRefused
  <2>1. /\ w'.op = w.op /\ w.op # "apply" /\ w.todo # <<>> /\ w'.before = w.before
        /\ w.hit \subseteq w'.hit /\ w'.result = "none"
    BY <1>5, Deletes
  <2> SUFFICES ASSUME w.op = "undo", w'.hit = {}
               PROVE  /\ Stacked(chain', w.before, Own')
                      /\ w'.at = "again" => ~Present(Current)'
    BY <2>1 DEF Grown, FailedApplyRestores
  <2>2. Stacked(chain, w.before, Own) /\ (w.at = "again" => ~Present(Current))
    BY <2>1 DEF Grown
  <2>3. CASE DelLooks
    <3>1. CASE w.at = "again"
      <4>1. w'.at = "look" /\ w'.todo = Tail(w.todo) /\ chain' = chain
        BY <2>2, <2>3, <3>1, Deletes
      <4> QED BY <2>1, <2>2, <3>1, <4>1 DEF Own
    <3>2. CASE w.at = "look"
      <4>1. Own = Reverse(w.todo)
        BY <3>2, <2>1 DEF Own
      <4>2. /\ Len(w.todo) \in DOMAIN Reverse(w.todo)
            /\ Reverse(w.todo)[Len(w.todo)] = Current
        BY <1>0, <2>1, ReverseTail DEF Current, Reverse
      <4>3. Present(Current)
        BY <2>2, <4>1, <4>2 DEF Stacked, Present
      <4>4. w'.at = "delete" /\ w'.todo = w.todo /\ chain' = chain
        BY <2>3, <4>3, Deletes
      <4> QED BY <2>1, <2>2, <4>1, <4>4 DEF Own
    <3> QED BY <2>3, <3>1, <3>2, Deletes
  <2>4. CASE DelDeletes
    BY <2>4, PopStep, Deletes
  <2>5. CASE DelRefused
    BY <2>5, Deletes
  <2> QED BY <1>5, <2>3, <2>4, <2>5
<1>6. CASE Die \/ Reboot
  BY <1>6, Gone DEF Grown, FailedApplyRestores
<1>7. ASSUME NEW c \in Config, ApplyRules(c) PROVE Grown' /\ FailedApplyRestores'
  <2>1. /\ w'.op = "apply" /\ w'.added = <<>> /\ w'.before = chain /\ chain' = chain
        /\ w'.result = "none"
    BY <1>7, Begins DEF ApplyRules
  <2> QED BY <1>0, <2>1, NewStack DEF Grown, FailedApplyRestores, Own
<1>8. ASSUME NEW c \in Config, RemoveRules(c) PROVE Grown' /\ FailedApplyRestores'
  <2>1. w'.op = "remove" /\ w'.result = "none"
    BY <1>8, Begins
  <2> QED BY <2>1 DEF Grown, FailedApplyRestores
<1> QED BY <1>1, <1>2, <1>3, <1>4, <1>5, <1>6, <1>7, <1>8 DEF Writer, Step

-----------------------------------------------------------------------------
(* The rules of other programs *)

\* Where the other programs put their rules, at the start and after a reboot.
LEMMA ForeignAtBoot ==
  ASSUME NEW t \in Tables
  PROVE  \E f \in [DOMAIN Others[t] -> DOMAIN Others[t]] : Holds(Others[t], Others[t], f)
<1> DEFINE f == [i \in DOMAIN Others[t] |-> i]
<1>1. Others[t] \in Seq(Foreign)
  BY LinuxFirewallAssumption
<1>2. Holds(Others[t], Others[t], f)
  BY <1>1 DEF Holds, Ascending
<1> QED BY <1>2

\* Their places, as facts about numbers.
AtPlaces(s, o, f) ==
  /\ Len(s) \in Nat /\ DOMAIN s = 1..Len(s) /\ Len(o) \in Nat /\ DOMAIN o = 1..Len(o)
  /\ \A i \in 1..Len(o) : o[i] \in Foreign /\ f[i] \in 1..Len(s) /\ s[f[i]] = o[i]
  /\ \A i, j \in 1..Len(o) : i < j => f[i] < f[j]
  /\ \A p \in 1..Len(s) : s[p] \in Foreign => \E i \in 1..Len(o) : f[i] = p

LEMMA Places ==
  ASSUME NEW S, NEW s \in Seq(S), NEW o \in Seq(Foreign),
         NEW f \in [DOMAIN o -> DOMAIN s], Holds(s, o, f)
  PROVE  AtPlaces(s, o, f)
<1>1. /\ Len(s) \in Nat /\ DOMAIN s = 1..Len(s) /\ Len(o) \in Nat /\ DOMAIN o = 1..Len(o)
      /\ DOMAIN f = 1..Len(o) /\ \A i \in 1..Len(o) : o[i] \in Foreign /\ f[i] \in 1..Len(s)
  OBVIOUS
<1>2. /\ \A i, j \in DOMAIN f : i < j => f[i] < f[j]
      /\ \A i \in DOMAIN o : s[f[i]] = o[i]
      /\ \A p \in DOMAIN s : s[p] \in Foreign => \E i \in DOMAIN o : f[i] = p
  BY DEF Holds, Ascending
<1> QED BY <1>1, <1>2 DEF AtPlaces

\* An append behind them leaves them where they are.
LEMMA HoldsAppend ==
  ASSUME NEW S, NEW s \in Seq(S), NEW s1 \in Seq(S), NEW o \in Seq(Foreign),
         NEW r, r \notin Foreign, NEW f \in [DOMAIN o -> DOMAIN s], Holds(s, o, f),
         Len(s1) = Len(s) + 1, s1[Len(s) + 1] = r, \A p \in 1..Len(s) : s1[p] = s[p]
  PROVE  f \in [DOMAIN o -> DOMAIN s1] /\ Holds(s1, o, f)
<1>0. AtPlaces(s, o, f)
  BY Places
<1>1. /\ Len(s) \in Nat /\ DOMAIN s = 1..Len(s) /\ Len(o) \in Nat /\ DOMAIN o = 1..Len(o)
      /\ \A i \in 1..Len(o) : o[i] \in Foreign /\ f[i] \in 1..Len(s) /\ s[f[i]] = o[i]
      /\ \A i, j \in 1..Len(o) : i < j => f[i] < f[j]
      /\ \A p \in 1..Len(s) : s[p] \in Foreign => \E i \in 1..Len(o) : f[i] = p
  BY <1>0 DEF AtPlaces
<1>2. f \in [DOMAIN o -> DOMAIN s1] /\ DOMAIN s1 = 1..(Len(s) + 1) /\ DOMAIN f = 1..Len(o)
  BY <1>1
<1>3. \A i \in 1..Len(o) : s1[f[i]] = o[i]
  BY <1>1
<1>4. ASSUME NEW p \in 1..(Len(s) + 1), s1[p] \in Foreign
      PROVE  \E i \in 1..Len(o) : f[i] = p
  <2>1. p \in 1..Len(s)
    BY <1>1, <1>4
  <2> QED BY <2>1, <1>1, <1>4
<1> QED BY <1>1, <1>2, <1>3, <1>4 DEF Holds, Ascending

\* The removal of another rule moves those behind it, all by one place.
LEMMA HoldsRemove ==
  ASSUME NEW S, NEW s \in Seq(S), NEW s1 \in Seq(S), NEW o \in Seq(Foreign),
         NEW r, r \notin Foreign, NEW f \in [DOMAIN o -> DOMAIN s], Holds(s, o, f),
         NEW x \in 1..Len(s), s[x] = r, Len(s1) = Len(s) - 1,
         \A p \in 1..(Len(s) - 1) : s1[p] = IF p < x THEN s[p] ELSE s[p + 1]
  PROVE  \E g \in [DOMAIN o -> DOMAIN s1] : Holds(s1, o, g)
<1> DEFINE g == [i \in DOMAIN o |-> IF f[i] < x THEN f[i] ELSE f[i] - 1]
<1>0. AtPlaces(s, o, f)
  BY Places
<1>1. /\ Len(s) \in Nat /\ DOMAIN s = 1..Len(s) /\ Len(o) \in Nat /\ DOMAIN o = 1..Len(o)
      /\ \A i \in 1..Len(o) : o[i] \in Foreign /\ f[i] \in 1..Len(s) /\ s[f[i]] = o[i]
      /\ \A i, j \in 1..Len(o) : i < j => f[i] < f[j]
      /\ \A p \in 1..Len(s) : s[p] \in Foreign => \E i \in 1..Len(o) : f[i] = p
  BY <1>0 DEF AtPlaces
<1>2. ASSUME NEW i \in 1..Len(o)
      PROVE  /\ f[i] # x /\ g[i] \in 1..(Len(s) - 1)
             /\ g[i] = IF f[i] < x THEN f[i] ELSE f[i] - 1
             /\ s1[g[i]] = o[i]
  <2>1. f[i] # x /\ f[i] \in 1..Len(s) /\ s[f[i]] = o[i]
    BY <1>1
  <2>2. CASE f[i] < x
    <3>1. g[i] = f[i] /\ g[i] \in 1..(Len(s) - 1)
      BY <2>1, <2>2, <1>1
    <3> QED BY <2>1, <2>2, <3>1
  <2>3. CASE ~(f[i] < x)
    <3>1. g[i] = f[i] - 1 /\ g[i] \in 1..(Len(s) - 1) /\ ~(g[i] < x) /\ g[i] + 1 = f[i]
      BY <2>1, <2>3, <1>1
    <3> QED BY <2>1, <2>3, <3>1
  <2> QED BY <2>2, <2>3
<1>3. /\ g \in [DOMAIN o -> DOMAIN s1] /\ DOMAIN g = 1..Len(o)
      /\ DOMAIN s1 = 1..(Len(s) - 1)
  BY <1>1, <1>2
<1> HIDE DEF g
<1>4. ASSUME NEW i \in 1..Len(o), NEW j \in 1..Len(o), i < j PROVE g[i] < g[j]
  <2>1. f[i] < f[j] /\ f[i] \in 1..Len(s) /\ f[j] \in 1..Len(s)
    BY <1>1, <1>4
  <2>2. /\ f[i] # x /\ g[i] = IF f[i] < x THEN f[i] ELSE f[i] - 1
        /\ f[j] # x /\ g[j] = IF f[j] < x THEN f[j] ELSE f[j] - 1
    BY <1>2
  <2> QED BY <2>1, <2>2
<1>5. ASSUME NEW p \in 1..(Len(s) - 1), s1[p] \in Foreign
      PROVE  \E i \in 1..Len(o) : g[i] = p
  <2>1. CASE p < x
    <3>1. p \in 1..Len(s) /\ s[p] \in Foreign
      BY <2>1, <1>5, <1>1
    <3>2. PICK i \in 1..Len(o) : f[i] = p
      BY <3>1, <1>1
    <3> QED BY <3>2, <2>1, <1>2
  <2>2. CASE ~(p < x)
    <3>1. p + 1 \in 1..Len(s) /\ s[p + 1] \in Foreign /\ ~(p + 1 < x) /\ (p + 1) - 1 = p
      BY <2>2, <1>5, <1>1
    <3>2. PICK i \in 1..Len(o) : f[i] = p + 1
      BY <3>1, <1>1
    <3>3. g[i] = IF f[i] < x THEN f[i] ELSE f[i] - 1
      BY <1>2
    <3> QED BY <3>1, <3>2, <3>3
  <2> QED BY <2>1, <2>2
<1>6. Holds(s1, o, g)
  BY <1>1, <1>2, <1>3, <1>4, <1>5 DEF Holds, Ascending
<1> QED BY <1>3, <1>6

\* No step of a call moves them.
LEMMA ForeignInv ==
  ASSUME WriterOK, ForeignRulesUntouched, Writer
  PROVE  ForeignRulesUntouched'
<1>0. Typed(chain) /\ Typed(chain') /\ (w.todo # <<>> => Current \in Rule)
  BY HeadTail, StepTyped DEF WriterOK, Writing, Current
<1>1. CASE chain' = chain
  BY <1>1 DEF ForeignRulesUntouched
<1>2. CASE Reboot
  BY <1>2, ForeignAtBoot DEF Reboot, ForeignRulesUntouched
<1>3. ASSUME AppendRule \/ DelDeletes, NEW t \in Tables
      PROVE  \E g \in [DOMAIN Others[t] -> DOMAIN chain'[t]] :
               Holds(chain'[t], Others[t], g)
  <2> DEFINE s == chain[t]
             s1 == chain'[t]
             o == Others[t]
             r == Current
  <2>1. w.todo # <<>>
    BY <1>3, GoesOn, Deletes
  <2>2. r \in Rule /\ r \notin Foreign
    BY <1>0, <2>1, Rules
  <2>3. /\ s \in Seq(Rule \union Foreign) /\ s1 \in Seq(Rule \union Foreign)
        /\ o \in Seq(Foreign)
    BY <1>0, LinuxFirewallAssumption DEF Typed
  <2>4. PICK f \in [DOMAIN o -> DOMAIN s] : Holds(s, o, f)
    BY DEF ForeignRulesUntouched
  <2>5. /\ AppendRule => chain' = Appended(r)
        /\ DelDeletes => chain' = Deleted(r) /\ Present(r)
    BY Deletes DEF AppendRule
  <2> HIDE DEF r
  <2>6. CASE t # r.table
    <3>1. AppendRule => s1 = s
      BY <1>0, <2>2, <2>5, <2>6, AppendedIs
    <3>2. DelDeletes => s1 = s
      BY <1>0, <2>2, <2>5, <2>6, DeletedIs
    <3> QED BY <1>3, <2>4, <3>1, <3>2
  <2>7. CASE AppendRule /\ t = r.table
    <3>1. s1 = Append(s, r)
      BY <1>0, <2>2, <2>5, <2>7, AppendedIs
    <3> HIDE DEF s, s1, o
    <3>2. Len(s1) = Len(s) + 1 /\ s1[Len(s) + 1] = r /\ \A p \in 1..Len(s) : s1[p] = s[p]
      BY <2>3, <3>1
    <3> QED BY <2>2, <2>3, <2>4, <3>2, HoldsAppend, ZenonT(30) DEF s1, o
  <2>8. CASE DelDeletes /\ t = r.table
    <3>1. PICK x \in 1..Len(s) :
            /\ s[x] = r /\ Len(s1) = Len(s) - 1
            /\ \A p \in 1..(Len(s) - 1) : s1[p] = IF p < x THEN s[p] ELSE s[p + 1]
      <4>1. \E x \in 1..Len(chain[r.table]) :
              /\ chain[r.table][x] = r
              /\ Len(Deleted(r)[r.table]) = Len(chain[r.table]) - 1
              /\ \A p \in 1..(Len(chain[r.table]) - 1) :
                   Deleted(r)[r.table][p] =
                     IF p < x THEN chain[r.table][p] ELSE chain[r.table][p + 1]
        BY <1>0, <2>2, <2>5, <2>8, DeletedIs
      <4> QED BY <4>1, <2>5, <2>8, ZenonT(30)
    <3> HIDE DEF s, s1, o
    <3> QED BY <2>2, <2>3, <2>4, <3>1, HoldsRemove DEF s1, o
  <2> QED BY <1>3, <2>6, <2>7, <2>8
<1>4. CASE AppendRule \/ DelDeletes
  BY <1>3, <1>4 DEF ForeignRulesUntouched
<1> QED BY <1>1, <1>2, <1>4, InstalledSteps

-----------------------------------------------------------------------------
(* The page stays within reach *)

\* The places of the IPv4 rules in their list.
LEMMA V4Index ==
  ASSUME NEW c
  PROVE  /\ Len(V4Rules(c)) = 7
         /\ V4Rules(c)[1] = LoReturn(c.uid)
         /\ V4Rules(c)[2] = RuleOf("nat", "tcp", c.uid, c.trans, "REDIRECT")
         /\ V4Rules(c)[4] = LoAccept(c.uid)
         /\ V4Rules(c)[7] = RuleOf("filter", "any", c.uid, 0, "DROP")
         /\ \A i \in 1..7 : /\ V4Rules(c)[i].uid = c.uid
                            /\ V4Rules(c)[i].table \in {"nat", "filter"}
                            /\ V4Rules(c)[i].match = "tcp" => i = 2
                            /\ V4Rules(c)[i].match = "any" => i = 7
                            /\ V4Rules(c)[i].match = "loopback_dst" => i = 1
                            /\ V4Rules(c)[i].match = "out_lo" => i = 4
<1> DEFINE a == RuleOf("nat", "loopback_dst", c.uid, 0, "RETURN")
           b == RuleOf("nat", "tcp", c.uid, c.trans, "REDIRECT")
           d == RuleOf("nat", "dns", c.uid, c.dns, "REDIRECT")
           e == RuleOf("filter", "out_lo", c.uid, 0, "ACCEPT")
           f == RuleOf("filter", "tcp_dport", c.uid, c.trans, "ACCEPT")
           g == RuleOf("filter", "udp_dport", c.uid, c.dns, "ACCEPT")
           h == RuleOf("filter", "any", c.uid, 0, "DROP")
           list == V4Rules(c)
<1>1. list = <<a, b, d, e, f, g, h>>
  BY DEF V4Rules, BuildRules
<1>2. /\ a.uid = c.uid /\ a.table = "nat" /\ a.match = "loopback_dst"
      /\ b.uid = c.uid /\ b.table = "nat" /\ b.match = "tcp"
      /\ d.uid = c.uid /\ d.table = "nat" /\ d.match = "dns"
      /\ e.uid = c.uid /\ e.table = "filter" /\ e.match = "out_lo"
      /\ f.uid = c.uid /\ f.table = "filter" /\ f.match = "tcp_dport"
      /\ g.uid = c.uid /\ g.table = "filter" /\ g.match = "udp_dport"
      /\ h.uid = c.uid /\ h.table = "filter" /\ h.match = "any"
  BY DEF RuleOf
<1>3. a = LoReturn(c.uid) /\ e = LoAccept(c.uid)
  BY DEF LoReturn, LoAccept
<1> HIDE DEF a, b, d, e, f, g, h, list
<1>4. /\ Len(list) = 7 /\ list[1] = a /\ list[2] = b /\ list[3] = d /\ list[4] = e
      /\ list[5] = f /\ list[6] = g /\ list[7] = h
  BY <1>1
<1>5. ASSUME NEW i \in 1..7
      PROVE  /\ list[i].uid = c.uid /\ list[i].table \in {"nat", "filter"}
             /\ list[i].match = "tcp" => i = 2
             /\ list[i].match = "any" => i = 7
             /\ list[i].match = "loopback_dst" => i = 1
             /\ list[i].match = "out_lo" => i = 4
  <2>1. i = 1 \/ i = 2 \/ i = 3 \/ i = 4 \/ i = 5 \/ i = 6 \/ i = 7
    OBVIOUS
  <2> QED BY <2>1, <1>2, <1>4
<1> QED BY <1>3, <1>4, <1>5 DEF b, h, list

\* Two rules behind seven, and two before them.
LEMMA TwoAndSeven ==
  ASSUME NEW S, NEW s \in Seq(S), Len(s) = 7, NEW x \in S, NEW y \in S
  PROVE  /\ Len(s \o <<x, y>>) = 9 /\ (s \o <<x, y>>)[8] = x /\ (s \o <<x, y>>)[9] = y
         /\ \A i \in 1..7 : (s \o <<x, y>>)[i] = s[i]
         /\ Len(<<x, y>> \o s) = 9 /\ (<<x, y>> \o s)[1] = x /\ (<<x, y>> \o s)[2] = y
         /\ \A i \in 1..7 : (<<x, y>> \o s)[i + 2] = s[i]
<1> DEFINE t == <<x, y>>
<1>1. t \in Seq(S) /\ Len(t) = 2 /\ t[1] = x /\ t[2] = y
  OBVIOUS
<1> HIDE DEF t
<1>2. /\ Len(s \o t) = Len(s) + Len(t)
      /\ \A i \in 1..(Len(s) + Len(t)) :
           (s \o t)[i] = IF i <= Len(s) THEN s[i] ELSE t[i - Len(s)]
  BY <1>1, ConcatProperties
<1>3. /\ Len(t \o s) = Len(t) + Len(s)
      /\ \A i \in 1..(Len(t) + Len(s)) :
           (t \o s)[i] = IF i <= Len(t) THEN t[i] ELSE s[i - Len(t)]
  BY <1>1, ConcatProperties
<1>4. ASSUME NEW i \in 1..7 PROVE (t \o s)[i + 2] = s[i]
  <2>1. i + 2 \in 1..(Len(t) + Len(s)) /\ ~(i + 2 <= Len(t)) /\ (i + 2) - Len(t) = i
    BY <1>1
  <2> QED BY <2>1, <1>3
<1> QED BY <1>1, <1>2, <1>3, <1>4 DEF t

\* In the order of apply the two rules that could take the page away come
\* behind those that let the loopback through.
LEMMA ApplyOrder ==
  ASSUME NEW c \in Config, NEW k \in 1..Len(Ruleset(c)), NEW r, r = Ruleset(c)[k]
  PROVE  /\ r.uid = c.uid
         /\ r.table = "nat" /\ r.match = "tcp" =>
              1 \in 1..(k - 1) /\ Ruleset(c)[1] = LoReturn(c.uid)
         /\ r.table = "filter" /\ r.match = "any" =>
              4 \in 1..(k - 1) /\ Ruleset(c)[4] = LoAccept(c.uid)
<1> DEFINE v4 == V4Rules(c)
           a6 == RuleOf("filter6", "out_lo", c.uid, 0, "ACCEPT")
           b6 == RuleOf("filter6", "any", c.uid, 0, "DROP")
           list == Ruleset(c)
<1>1. v4 \in Seq(Rule) /\ Len(v4) = 7
  BY Lists, V4Index
<1>2. a6.uid = c.uid /\ a6.table = "filter6" /\ b6.uid = c.uid /\ b6.table = "filter6"
  BY DEF RuleOf
<1>3. V6Rules(c) = <<a6, b6>>
  BY DEF V6Rules, BuildV6Rules
<1>11. V6Rules(c) \in Seq(Rule)
  BY Lists
<1>4. list = v4 \o (IF c.ipv6_killswitch THEN <<a6, b6>> ELSE <<>>)
  BY <1>3 DEF Ruleset
<1>5. \A i \in 1..7 : /\ v4[i].uid = c.uid
                      /\ v4[i].match = "tcp" => i = 2
                      /\ v4[i].match = "any" => i = 7
  BY V4Index
<1>6. v4[1] = LoReturn(c.uid) /\ v4[4] = LoAccept(c.uid)
  BY V4Index
<1> HIDE DEF v4, a6, b6, list
<1>12. a6 \in Rule /\ b6 \in Rule
  BY <1>3, <1>11
<1>7. /\ Len(list) \in {7, 9} /\ \A i \in 1..7 : list[i] = v4[i]
      /\ Len(list) = 9 => list[8] = a6 /\ list[9] = b6
  <2>1. CASE c.ipv6_killswitch
    <3>1. list = v4 \o <<a6, b6>>
      BY <2>1, <1>4
    <3> QED BY <3>1, <1>1, <1>12, TwoAndSeven, SMTT(30)
  <2>2. CASE ~c.ipv6_killswitch
    <3>1. list = v4 \o <<>>
      BY <2>2, <1>4
    <3>2. list = v4
      BY <3>1, <1>1
    <3> QED BY <3>2, <1>1
  <2> QED BY <2>1, <2>2
<1>8. k \in 1..Len(list) /\ r = list[k]
  BY DEF list
<1>9. CASE k \in 1..7
  <2>1. r = v4[k]
    BY <1>7, <1>8, <1>9
  <2> QED BY <2>1, <1>5, <1>6, <1>7, <1>9 DEF list
<1>10. CASE k \notin 1..7
  <2>1. Len(list) = 9 /\ (k = 8 \/ k = 9)
    BY <1>7, <1>8, <1>10, SMTT(30)
  <2>2. r = a6 \/ r = b6
    BY <2>1, <1>7, <1>8
  <2>3. r.uid = c.uid /\ r.table = "filter6"
    BY <2>2, <1>2
  <2> QED BY <2>3
<1> QED BY <1>9, <1>10

\* In the order of remove they come before them.
LEMMA RemovalOrder ==
  ASSUME NEW c \in Config, NEW withV6 \in BOOLEAN,
         NEW k \in 1..Len(RemovalOf(c, withV6)), NEW r, r = RemovalOf(c, withV6)[k]
  PROVE  /\ r.uid = c.uid
         /\ r.table = "nat" /\ r.match = "loopback_dst" =>
              \E j \in 1..(k - 1) : RemovalOf(c, withV6)[j] =
                RuleOf("nat", "tcp", c.uid, c.trans, "REDIRECT")
         /\ r.table = "filter" /\ r.match = "out_lo" =>
              \E j \in 1..(k - 1) : RemovalOf(c, withV6)[j] =
                RuleOf("filter", "any", c.uid, 0, "DROP")
<1> DEFINE v4 == V4Rules(c)
           a6 == RuleOf("filter6", "out_lo", c.uid, 0, "ACCEPT")
           b6 == RuleOf("filter6", "any", c.uid, 0, "DROP")
           tcp == RuleOf("nat", "tcp", c.uid, c.trans, "REDIRECT")
           drop == RuleOf("filter", "any", c.uid, 0, "DROP")
           list == RemovalOf(c, withV6)
           rev == Reverse(v4)
<1>1. v4 \in Seq(Rule) /\ Len(v4) = 7 /\ rev \in Seq(Rule)
  BY Lists, V4Index, ReverseSet
<1>2. a6.uid = c.uid /\ a6.table = "filter6" /\ b6.uid = c.uid /\ b6.table = "filter6"
  BY DEF RuleOf
<1>0. V6Rules(c) = <<a6, b6>>
  BY DEF V6Rules, BuildV6Rules
<1> HIDE DEF a6, b6
<1>12. a6 \in Rule /\ b6 \in Rule
  <2>1. V6Rules(c) \in Seq(Rule)
    BY Lists
  <2> QED BY <1>0, <2>1
<1>3. Reverse(V6Rules(c)) = <<b6, a6>>
  <2>1. Reverse(<<a6, b6>>) = [i \in 1..2 |-> <<a6, b6>>[(2 - i) + 1]]
    BY DEF Reverse
  <2>2. [i \in 1..2 |-> <<a6, b6>>[(2 - i) + 1]] = <<b6, a6>>
    OBVIOUS
  <2> QED BY <2>1, <2>2, <1>0
<1>4. list = (IF withV6 THEN <<b6, a6>> ELSE <<>>) \o rev
  BY <1>3 DEF RemovalOf
<1>5. \A i \in 1..7 : /\ v4[i].uid = c.uid
                      /\ v4[i].match = "loopback_dst" => i = 1
                      /\ v4[i].match = "out_lo" => i = 4
  BY V4Index
<1>6. v4[2] = tcp /\ v4[7] = drop
  BY V4Index
<1>7. Len(rev) = 7 /\ \A i \in 1..7 : rev[i] = v4[8 - i]
  BY <1>1 DEF Reverse
<1>8. k \in 1..Len(list) /\ r = list[k]
  OBVIOUS
<1> HIDE DEF v4, list, rev, tcp, drop
<1>9. ASSUME NEW off \in {0, 2}, Len(list) = off + 7,
             \A i \in 1..7 : list[i + off] = rev[i],
             off = 2 => list[1] = b6 /\ list[2] = a6
      PROVE  /\ r.uid = c.uid
             /\ r.table = "nat" /\ r.match = "loopback_dst" =>
                  \E j \in 1..(k - 1) : list[j] = tcp
             /\ r.table = "filter" /\ r.match = "out_lo" =>
                  \E j \in 1..(k - 1) : list[j] = drop
  <2>1. CASE k <= off
    <3>1. k = 1 \/ k = 2
      BY <2>1, <1>8
    <3> QED BY <3>1, <2>1, <1>2, <1>8, <1>9
  <2>2. CASE k > off
    <3>1. PICK i \in 1..7 : k = i + off
      BY <2>2, <1>8, <1>9, SMTT(30)
    <3>2. r = rev[i]
      BY <3>1, <1>8, <1>9
    <3>3. PICK j \in 1..7 : j = 8 - i /\ r = v4[j]
      BY <3>1, <3>2, <1>7
    <3>4. list[6 + off] = tcp /\ list[1 + off] = drop
      BY <1>6, <1>7, <1>9
    <3>5. r.match = "loopback_dst" => 6 + off \in 1..(k - 1)
      <4>1. r.match = "loopback_dst" => j = 1
        BY <3>3, <1>5
      <4> QED BY <4>1, <3>1, <3>3, <1>9
    <3>6. r.match = "out_lo" => 1 + off \in 1..(k - 1)
      <4>1. r.match = "out_lo" => j = 4
        BY <3>3, <1>5
      <4> QED BY <4>1, <3>1, <3>3, <1>9
    <3> QED BY <3>3, <3>4, <3>5, <3>6, <1>5
  <2> QED BY <2>1, <2>2, <1>8
<1>10. CASE withV6
  <2>1. list = <<b6, a6>> \o rev
    BY <1>4, <1>10
  <2>2. Len(list) = 2 + 7 /\ list[1] = b6 /\ list[2] = a6
    BY <2>1, <1>1, <1>7, <1>12, TwoAndSeven
  <2>3. \A i \in 1..7 : list[i + 2] = rev[i]
    BY <2>1, <1>1, <1>7, <1>12, TwoAndSeven, SMTT(30)
  <2> QED BY <2>2, <2>3, <1>9 DEF list, tcp, drop
<1>11. CASE ~withV6
  <2>1. list = <<>> \o rev
    BY <1>4, <1>11
  <2>2. list = rev /\ Len(list) = 0 + 7
    BY <2>1, <1>1, <1>7
  <2>3. \A i \in 1..7 : list[i + 0] = rev[i]
    BY <2>2
  <2> QED BY <2>2, <2>3, <1>9 DEF list, tcp, drop
<1> QED BY <1>10, <1>11

\* A rule goes behind the others: if it needs the shield, the shield is there.
LEMMA ShieldAppend ==
  ASSUME NEW S, NEW s \in Seq(S), NEW s1 \in Seq(S), NEW r, NEW match,
         Shielded(s, r, match), Len(s1) = Len(s) + 1,
         \A p \in 1..Len(s) : s1[p] = s[p],
         s1[Len(s) + 1].uid = r.uid /\ s1[Len(s) + 1].match = match => r \in ToSet(s)
  PROVE  Shielded(s1, r, match)
<1>1. /\ Len(s) \in Nat /\ DOMAIN s = 1..Len(s) /\ DOMAIN s1 = 1..(Len(s) + 1)
  OBVIOUS
<1> SUFFICES ASSUME NEW i \in 1..(Len(s) + 1), s1[i].uid = r.uid /\ s1[i].match = match
             PROVE  \E j \in 1..(i - 1) : s1[j] = r
  BY <1>1 DEF Shielded
<1>2. CASE i = Len(s) + 1
  <2>1. PICK j \in 1..Len(s) : s[j] = r
    BY <1>1, <1>2 DEF ToSet
  <2>2. j \in 1..(i - 1)
    BY <1>1, <1>2
  <2> QED BY <2>1, <2>2
<1>3. CASE i # Len(s) + 1
  <2>1. i \in 1..Len(s)
    BY <1>1, <1>3
  <2>2. PICK j \in 1..(i - 1) : s[j] = r
    BY <2>1, <1>1 DEF Shielded
  <2>3. j \in 1..Len(s)
    BY <1>1, <2>1
  <2> QED BY <2>2, <2>3
<1> QED BY <1>2, <1>3

\* Another rule than the shield is taken out.
LEMMA ShieldRemove ==
  ASSUME NEW S, NEW s \in Seq(S), NEW s1 \in Seq(S), NEW r, NEW match,
         Shielded(s, r, match), NEW x \in 1..Len(s), s[x] # r,
         Len(s1) = Len(s) - 1,
         \A p \in 1..(Len(s) - 1) : s1[p] = IF p < x THEN s[p] ELSE s[p + 1]
  PROVE  Shielded(s1, r, match)
<1>1. /\ Len(s) \in Nat /\ DOMAIN s = 1..Len(s) /\ DOMAIN s1 = 1..(Len(s) - 1)
  OBVIOUS
<1> SUFFICES ASSUME NEW i \in 1..(Len(s) - 1), s1[i].uid = r.uid /\ s1[i].match = match
             PROVE  \E j \in 1..(i - 1) : s1[j] = r
  BY <1>1 DEF Shielded
<1>2. PICK k \in 1..Len(s) : s1[i] = s[k] /\ k = (IF i < x THEN i ELSE i + 1)
  <2>1. (IF i < x THEN i ELSE i + 1) \in 1..Len(s)
    BY <1>1
  <2> QED BY <2>1
<1>3. PICK l \in 1..(k - 1) : s[l] = r
  BY <1>1, <1>2 DEF Shielded
<1>4. l # x
  BY <1>3
<1>5. CASE l < x
  <2>1. l \in 1..(i - 1) /\ l \in 1..(Len(s) - 1)
    BY <1>1, <1>2, <1>5
  <2> QED BY <2>1, <1>3, <1>5
<1>6. CASE l > x
  <2>1. l - 1 \in 1..(i - 1) /\ l - 1 \in 1..(Len(s) - 1) /\ ~(l - 1 < x) /\ (l - 1) + 1 = l
    BY <1>1, <1>2, <1>6
  <2>2. s1[l - 1] = r
    BY <2>1, <1>3
  <2> QED BY <2>1, <2>2
<1> QED BY <1>1, <1>4, <1>5, <1>6

\* The last rule is taken off.
LEMMA ShieldPop ==
  ASSUME NEW S, NEW s \in Seq(S), NEW s1 \in Seq(S), NEW r, NEW match,
         Shielded(s, r, match), Len(s1) = Len(s) - 1,
         \A p \in 1..(Len(s) - 1) : s1[p] = s[p]
  PROVE  Shielded(s1, r, match)
<1>1. /\ Len(s) \in Nat /\ DOMAIN s = 1..Len(s) /\ DOMAIN s1 = 1..(Len(s) - 1)
  OBVIOUS
<1> SUFFICES ASSUME NEW i \in 1..(Len(s) - 1), s1[i].uid = r.uid /\ s1[i].match = match
             PROVE  \E j \in 1..(i - 1) : s1[j] = r
  BY <1>1 DEF Shielded
<1>2. i \in 1..Len(s) /\ s1[i] = s[i]
  BY <1>1
<1>3. PICK j \in 1..(i - 1) : s[j] = r
  BY <1>1, <1>2 DEF Shielded
<1>4. j \in 1..(Len(s) - 1)
  BY <1>1
<1> QED BY <1>3, <1>4

\* The only rule of a user that redirects his connections, and the only one
\* that drops everything he sends.
LEMMA OnlyOne ==
  ASSUME Typed(chain), NEW c \in Config, NEW r
  PROVE  /\ OnePortSet /\ r \in ToSet(chain["nat"]) /\ r.uid = c.uid /\ r.match = "tcp" =>
              RuleOf("nat", "tcp", c.uid, c.trans, "REDIRECT") \in Installed
         /\ r \in ToSet(chain["filter"]) /\ r.uid = c.uid /\ r.match = "any" =>
              RuleOf("filter", "any", c.uid, 0, "DROP") \in Installed
<1>1. ASSUME NEW t \in Tables, r \in ToSet(chain[t]), r.uid = c.uid
      PROVE  /\ r \in Installed /\ r.table = t
             /\ \E d \in Config : Shape(r, d) /\ d.uid = c.uid
  <2>1. r \in Rule \union Foreign /\ r.table = t
    BY <1>1 DEF Typed, ToSet
  <2>2. r \in Rule
    BY <1>1, <2>1, LinuxFirewallAssumption
  <2>3. \E d \in Config : Shape(r, d) /\ d.uid = c.uid
    BY <1>1, <2>2, Rules DEF Shape
  <2> QED BY <1>1, <2>1, <2>2, <2>3 DEF Installed, Present, PresentIn
<1>2. ASSUME OnePortSet, r \in ToSet(chain["nat"]), r.uid = c.uid, r.match = "tcp"
      PROVE  RuleOf("nat", "tcp", c.uid, c.trans, "REDIRECT") \in Installed
  <2>1. "nat" \in Tables
    BY DEF Tables
  <2>2. r \in Installed /\ r.table = "nat"
    BY <2>1, <1>1, <1>2
  <2>3. PICK d \in Config : Shape(r, d) /\ d.uid = c.uid
    BY <2>1, <1>1, <1>2
  <2>4. r = RuleOf("nat", "tcp", d.uid, d.trans, "REDIRECT")
    BY <1>2, <2>2, <2>3 DEF Shape
  <2>5. d.trans = c.trans
    BY <1>2, <2>3 DEF OnePortSet
  <2> QED BY <2>2, <2>3, <2>4, <2>5
<1>3. ASSUME r \in ToSet(chain["filter"]), r.uid = c.uid, r.match = "any"
      PROVE  RuleOf("filter", "any", c.uid, 0, "DROP") \in Installed
  <2>1. "filter" \in Tables
    BY DEF Tables
  <2>2. r \in Installed /\ r.table = "filter"
    BY <2>1, <1>1, <1>3
  <2>3. PICK d \in Config : Shape(r, d) /\ d.uid = c.uid
    BY <2>1, <1>1, <1>3
  <2>4. r = RuleOf("filter", "any", d.uid, 0, "DROP")
    BY <1>3, <2>2, <2>3 DEF Shape
  <2> QED BY <2>2, <2>3, <2>4
<1> QED BY <1>2, <1>3

\* What the two shields are, as rules.
LEMMA ShieldRules ==
  ASSUME NEW uid
  PROVE  /\ LoReturn(uid).uid = uid /\ LoReturn(uid).table = "nat"
         /\ LoReturn(uid).match = "loopback_dst" /\ LoReturn(uid).target = "RETURN"
         /\ LoAccept(uid).uid = uid /\ LoAccept(uid).table = "filter"
         /\ LoAccept(uid).match = "out_lo" /\ LoAccept(uid).target = "ACCEPT"
BY DEF LoReturn, LoAccept, RuleOf

\* The chains of a user have their shields.
Shields(ch, c) ==
  /\ Shielded(ch["nat"], LoReturn(c.uid), "tcp")
  /\ Shielded(ch["filter"], LoAccept(c.uid), "any")

\* What apply appends is the next rule of its list, with all that comes before
\* it in.
LEMMA AppendPlace ==
  ASSUME WriterOK, ApplyInstalls, AppendRule
  PROVE  /\ w.cfg \in Config /\ Current \in Rule /\ Installed' = Installed \union {Current}
         /\ \E k \in 1..Len(Ruleset(w.cfg)) :
              /\ Current = Ruleset(w.cfg)[k]
              /\ \A i \in 1..(k - 1) : Ruleset(w.cfg)[i] \in Installed
<1> DEFINE list == Ruleset(w.cfg)
           r == Current
           k == (Len(list) - Len(w.todo)) + 1
<1>1. /\ w.cfg \in Config /\ w.todo \in Seq(Rule) /\ w.todo # <<>> /\ r \in Rule
      /\ r = w.todo[1]
  BY GoesOn, HeadTail DEF WriterOK, Writing, Current
<1>2. list \in Seq(Rule)
  BY <1>1, Lists
<1>3. /\ Len(w.todo) <= Len(list)
      /\ \A i \in DOMAIN w.todo : w.todo[i] = list[(Len(list) - Len(w.todo)) + i]
      /\ {list[i] : i \in 1..(Len(list) - Len(w.todo))} \subseteq Installed
  BY GoesOn DEF ApplyInstalls, LeftOf, Behind
<1>4. Installed' = Installed \union {Current}
  BY InstalledSteps DEF Writer, Step
<1> HIDE DEF r, list
<1>5. Len(w.todo) \in Nat /\ Len(list) \in Nat /\ Len(w.todo) > 0 /\ 1 \in DOMAIN w.todo
  BY <1>1, <1>2
<1>6. r = list[(Len(list) - Len(w.todo)) + 1]
  BY <1>1, <1>3, <1>5
<1>7. k \in 1..Len(list) /\ k - 1 = Len(list) - Len(w.todo)
  BY <1>3, <1>5
<1>8. \A i \in 1..(Len(list) - Len(w.todo)) : list[i] \in Installed
  BY <1>3
<1> HIDE DEF k
<1>9. r = list[k] /\ \A i \in 1..(k - 1) : list[i] \in Installed
  BY <1>6, <1>7, <1>8 DEF k
<1> QED BY <1>1, <1>4, <1>7, <1>9 DEF r, list

\* apply appends the shield before what it shields.
LEMMA ShieldsAppended ==
  ASSUME WriterOK, ApplyInstalls, AppendRule, NEW c \in Config, Shields(chain, c)
  PROVE  Shields(chain', c)
<1> DEFINE list == Ruleset(w.cfg)
           r == Current
<1>1. w.cfg \in Config /\ r \in Rule /\ Typed(chain)
  BY AppendPlace DEF WriterOK
<1>4. chain' = Appended(r) /\ Typed(chain') /\ r.table \in Tables
  BY <1>1, AppendedIs DEF AppendRule
<1>5. /\ chain'[r.table] = Append(chain[r.table], r)
      /\ \A t \in Tables : t # r.table => chain'[t] = chain[t]
  BY <1>1, <1>4, AppendedIs
<1>6. PICK k \in 1..Len(list) : r = list[k] /\ \A i \in 1..(k - 1) : list[i] \in Installed
  BY AppendPlace
<1> HIDE DEF r, list
<1>7. /\ r.uid = w.cfg.uid
      /\ r.table = "nat" /\ r.match = "tcp" => LoReturn(w.cfg.uid) \in Installed
      /\ r.table = "filter" /\ r.match = "any" => LoAccept(w.cfg.uid) \in Installed
  BY <1>1, <1>6, ApplyOrder DEF list
<1>8. /\ LoReturn(w.cfg.uid) \in Installed =>
           LoReturn(w.cfg.uid) \in ToSet(chain["nat"])
      /\ LoAccept(w.cfg.uid) \in Installed =>
           LoAccept(w.cfg.uid) \in ToSet(chain["filter"])
  BY ShieldRules DEF Installed, Present, PresentIn
<1>9. "nat" \in Tables /\ "filter" \in Tables
  BY DEF Tables
<1>10. \A t \in Tables : chain[t] \in Seq(Rule \union Foreign) /\ chain'[t] \in Seq(Rule \union Foreign)
  BY <1>1, <1>4 DEF Typed
<1>11. ASSUME NEW t \in Tables, t = r.table
       PROVE  /\ Len(chain'[t]) = Len(chain[t]) + 1 /\ chain'[t][Len(chain[t]) + 1] = r
              /\ \A p \in 1..Len(chain[t]) : chain'[t][p] = chain[t][p]
  <2> DEFINE s == chain[t]
  <2>1. s \in Seq(Rule \union Foreign) /\ chain'[t] = Append(s, r)
    BY <1>5, <1>10, <1>11
  <2> HIDE DEF s
  <2>2. /\ Len(Append(s, r)) = Len(s) + 1 /\ Append(s, r)[Len(s) + 1] = r
        /\ \A p \in 1..Len(s) : Append(s, r)[p] = s[p]
    BY <2>1
  <2> QED BY <2>1, <2>2 DEF s
<1>12. Shielded(chain'["nat"], LoReturn(c.uid), "tcp")
  <2>1. CASE r.table = "nat"
    <3> DEFINE s == chain["nat"]
               s1 == chain'["nat"]
               g == LoReturn(c.uid)
    <3>1. s \in Seq(Rule \union Foreign) /\ s1 \in Seq(Rule \union Foreign)
      BY <1>9, <1>10
    <3>2. /\ Len(s1) = Len(s) + 1 /\ s1[Len(s) + 1] = r
          /\ \A p \in 1..Len(s) : s1[p] = s[p]
      BY <2>1, <1>9, <1>11
    <3>3. r.uid = g.uid /\ r.match = "tcp" => g \in ToSet(s)
      BY <2>1, <1>7, <1>8, ShieldRules
    <3>4. Shielded(s, g, "tcp")
      BY DEF Shields
    <3> HIDE DEF s, s1, g
    <3>5. Shielded(s1, g, "tcp")
      BY <3>1, <3>2, <3>3, <3>4, ShieldAppend
    <3> QED BY <3>5 DEF s1, g
  <2>2. CASE r.table # "nat"
    BY <2>2, <1>5, <1>9 DEF Shields
  <2> QED BY <2>1, <2>2
<1>13. Shielded(chain'["filter"], LoAccept(c.uid), "any")
  <2>1. CASE r.table = "filter"
    <3> DEFINE s == chain["filter"]
               s1 == chain'["filter"]
               g == LoAccept(c.uid)
    <3>1. s \in Seq(Rule \union Foreign) /\ s1 \in Seq(Rule \union Foreign)
      BY <1>9, <1>10
    <3>2. /\ Len(s1) = Len(s) + 1 /\ s1[Len(s) + 1] = r
          /\ \A p \in 1..Len(s) : s1[p] = s[p]
      BY <2>1, <1>9, <1>11
    <3>3. r.uid = g.uid /\ r.match = "any" => g \in ToSet(s)
      BY <2>1, <1>7, <1>8, ShieldRules
    <3>4. Shielded(s, g, "any")
      BY DEF Shields
    <3> HIDE DEF s, s1, g
    <3>5. Shielded(s1, g, "any")
      BY <3>1, <3>2, <3>3, <3>4, ShieldAppend
    <3> QED BY <3>5 DEF s1, g
  <2>2. CASE r.table # "filter"
    BY <2>2, <1>5, <1>9 DEF Shields
  <2> QED BY <2>1, <2>2
<1> QED BY <1>12, <1>13 DEF Shields

\* The rollback takes the last rule of a chain off.
LEMMA ShieldsPopped ==
  ASSUME WriterOK, Grown, DelDeletes, w.op = "undo", w.hit = {},
         NEW c \in Config, Shields(chain, c)
  PROVE  Shields(chain', c)
<1> DEFINE r == Current
<1>1. /\ chain' = Deleted(r)
      /\ Len(chain'[r.table]) = Len(chain[r.table]) - 1
      /\ \A p \in 1..(Len(chain[r.table]) - 1) : chain'[r.table][p] = chain[r.table][p]
  BY PopStep
<1>2. r \in Rule /\ Present(r) /\ Typed(chain)
  BY Deletes, HeadTail DEF WriterOK, Writing, Current
<1>3. /\ Typed(chain') /\ r.table \in Tables
      /\ \A t \in Tables : t # r.table => chain'[t] = chain[t]
  BY <1>1, <1>2, DeletedIs
<1> HIDE DEF r
<1>4. ASSUME NEW t \in Tables, NEW g, NEW match, Shielded(chain[t], g, match)
      PROVE  Shielded(chain'[t], g, match)
  <2>1. chain[t] \in Seq(Rule \union Foreign) /\ chain'[t] \in Seq(Rule \union Foreign)
    BY <1>2, <1>3 DEF Typed
  <2>2. CASE t = r.table
    <3> DEFINE s == chain[t]
               s1 == chain'[t]
    <3>1. Len(s1) = Len(s) - 1 /\ \A p \in 1..(Len(s) - 1) : s1[p] = s[p]
      BY <1>1, <2>2
    <3> HIDE DEF s, s1
    <3>2. Shielded(s1, g, match)
      BY <1>4, <2>1, <3>1, ShieldPop DEF s, s1
    <3> QED BY <3>2 DEF s1
  <2>3. CASE t # r.table
    BY <2>3, <1>3, <1>4
  <2> QED BY <2>2, <2>3
<1>5. "nat" \in Tables /\ "filter" \in Tables
  BY DEF Tables
<1> QED BY <1>4, <1>5 DEF Shields

\* remove takes a shield last of all that it shields, copies included.
LEMMA ShieldsCleared ==
  ASSUME WriterOK, OnePortSet, RemoveClears, DelDeletes, w.op = "remove", w.hit = {},
         NEW c \in Config, Shields(chain, c)
  PROVE  Shields(chain', c)
<1> DEFINE list == RemovalOf(w.cfg, ip6)
           r == Current
           k == (Len(list) - Len(w.todo)) + 1
<1>1. /\ w.cfg \in Config /\ w.todo \in Seq(Rule) /\ w.todo # <<>> /\ r \in Rule
      /\ r = w.todo[1] /\ Typed(chain) /\ ip6 \in BOOLEAN /\ Present(r)
      /\ chain' = Deleted(r)
  BY Deletes, HeadTail DEF WriterOK, Writing, Current
<1>2. list \in Seq(Rule)
  BY <1>1, Lists
<1>3. /\ Len(w.todo) <= Len(list)
      /\ \A i \in DOMAIN w.todo : w.todo[i] = list[(Len(list) - Len(w.todo)) + i]
      /\ {list[i] : i \in 1..(Len(list) - Len(w.todo))} \intersect Installed = {}
  BY DEF RemoveClears, LeftOf, Behind
<1> HIDE DEF r, list
<1>4. /\ Typed(chain') /\ r.table \in Tables
      /\ \A t \in Tables : t # r.table => chain'[t] = chain[t]
      /\ \A t \in Tables : ToSet(chain'[t]) \subseteq ToSet(chain[t])
  <2>1. Typed(chain) /\ r \in Rule /\ Present(r)
    BY <1>1
  <2>2. /\ Typed(Deleted(r)) /\ r.table \in Tables
        /\ \A t \in Tables : t # r.table => Deleted(r)[t] = chain[t]
        /\ \A t \in Tables : ToSet(Deleted(r)[t]) \subseteq ToSet(chain[t])
    BY <2>1, DeletedIs, SMTT(30)
  <2> QED BY <2>2, <1>1
<1>5. PICK x \in 1..Len(chain[r.table]) :
        /\ chain[r.table][x] = r
        /\ Len(chain'[r.table]) = Len(chain[r.table]) - 1
        /\ \A p \in 1..(Len(chain[r.table]) - 1) :
             chain'[r.table][p] =
               IF p < x THEN chain[r.table][p] ELSE chain[r.table][p + 1]
  <2>1. \E x \in 1..Len(chain[r.table]) :
          /\ chain[r.table][x] = r
          /\ Len(Deleted(r)[r.table]) = Len(chain[r.table]) - 1
          /\ \A p \in 1..(Len(chain[r.table]) - 1) :
               Deleted(r)[r.table][p] =
                 IF p < x THEN chain[r.table][p] ELSE chain[r.table][p + 1]
    <3>1. Typed(chain) /\ r \in Rule /\ Present(r)
      BY <1>1
    <3> QED BY <3>1, DeletedIs
  <2> QED BY <2>1, <1>1
<1>6. k \in 1..Len(list) /\ r = list[k] /\ \A i \in 1..(k - 1) : list[i] \notin Installed
  <2>1. Len(w.todo) \in Nat /\ Len(list) \in Nat /\ Len(w.todo) > 0 /\ 1 \in DOMAIN w.todo
    BY <1>1, <1>2
  <2>2. r = list[(Len(list) - Len(w.todo)) + 1]
    BY <2>1, <1>1, <1>3
  <2>3. k \in 1..Len(list) /\ k - 1 = Len(list) - Len(w.todo)
    BY <2>1, <1>3
  <2>4. \A i \in 1..(Len(list) - Len(w.todo)) : list[i] \notin Installed
    BY <1>3
  <2> HIDE DEF k
  <2> QED BY <2>2, <2>3, <2>4 DEF k
<1> HIDE DEF k
<1>7. /\ r.uid = w.cfg.uid
      /\ r.table = "nat" /\ r.match = "loopback_dst" =>
           RuleOf("nat", "tcp", w.cfg.uid, w.cfg.trans, "REDIRECT") \notin Installed
      /\ r.table = "filter" /\ r.match = "out_lo" =>
           RuleOf("filter", "any", w.cfg.uid, 0, "DROP") \notin Installed
  <2>1. /\ r.uid = w.cfg.uid
        /\ r.table = "nat" /\ r.match = "loopback_dst" =>
             \E j \in 1..(k - 1) : list[j] =
               RuleOf("nat", "tcp", w.cfg.uid, w.cfg.trans, "REDIRECT")
        /\ r.table = "filter" /\ r.match = "out_lo" =>
             \E j \in 1..(k - 1) : list[j] = RuleOf("filter", "any", w.cfg.uid, 0, "DROP")
    BY <1>1, <1>6, RemovalOrder DEF list
  <2> QED BY <2>1, <1>6
<1>8. "nat" \in Tables /\ "filter" \in Tables
  BY DEF Tables
<1>9. \A t \in Tables : /\ chain[t] \in Seq(Rule \union Foreign)
                        /\ chain'[t] \in Seq(Rule \union Foreign)
  BY <1>1, <1>4 DEF Typed
<1>10. ASSUME NEW t \in Tables, NEW g, NEW match, Shielded(chain[t], g, match), g # r
       PROVE  Shielded(chain'[t], g, match)
  <2>1. CASE t = r.table
    <3> DEFINE s == chain[t]
               s1 == chain'[t]
    <3>1. /\ x \in 1..Len(s) /\ s[x] # g /\ Len(s1) = Len(s) - 1
          /\ \A p \in 1..(Len(s) - 1) : s1[p] = IF p < x THEN s[p] ELSE s[p + 1]
      BY <1>5, <1>10, <2>1
    <3>2. s \in Seq(Rule \union Foreign) /\ s1 \in Seq(Rule \union Foreign)
      BY <1>9
    <3> HIDE DEF s, s1
    <3>3. Shielded(s1, g, match)
      BY <1>10, <3>1, <3>2, ShieldRemove DEF s
    <3> QED BY <3>3 DEF s1
  <2>2. CASE t # r.table
    BY <2>2, <1>4, <1>10
  <2> QED BY <2>1, <2>2
<1>11. ASSUME NEW t \in Tables, NEW g, NEW match,
              \A y \in ToSet(chain[t]) : ~(y.uid = g.uid /\ y.match = match)
       PROVE  Shielded(chain'[t], g, match)
  <2>1. \A i \in DOMAIN chain'[t] : chain'[t][i] \in ToSet(chain[t])
    BY <1>4 DEF ToSet
  <2> QED BY <2>1, <1>11 DEF Shielded
<1>12. Shielded(chain'["nat"], LoReturn(c.uid), "tcp")
  <2>1. CASE r = LoReturn(c.uid)
    <3>1. w.cfg.uid = c.uid /\ r.table = "nat" /\ r.match = "loopback_dst"
      BY <2>1, <1>7, ShieldRules
    <3>2. ASSUME NEW y \in ToSet(chain["nat"]), y.uid = c.uid, y.match = "tcp" PROVE FALSE
      BY <3>1, <3>2, <1>1, <1>7, OnlyOne
    <3>3. LoReturn(c.uid).uid = c.uid
      BY ShieldRules
    <3> QED BY <3>2, <3>3, <1>8, <1>11
  <2>2. CASE r # LoReturn(c.uid)
    BY <2>2, <1>8, <1>10 DEF Shields
  <2> QED BY <2>1, <2>2
<1>13. Shielded(chain'["filter"], LoAccept(c.uid), "any")
  <2>1. CASE r = LoAccept(c.uid)
    <3>1. w.cfg.uid = c.uid /\ r.table = "filter" /\ r.match = "out_lo"
      BY <2>1, <1>7, ShieldRules
    <3>2. ASSUME NEW y \in ToSet(chain["filter"]), y.uid = c.uid, y.match = "any" PROVE FALSE
      BY <3>1, <3>2, <1>1, <1>7, OnlyOne
    <3>3. LoAccept(c.uid).uid = c.uid
      BY ShieldRules
    <3> QED BY <3>2, <3>3, <1>8, <1>11
  <2>2. CASE r # LoAccept(c.uid)
    BY <2>2, <1>8, <1>10 DEF Shields
  <2> QED BY <2>1, <2>2
<1> QED BY <1>12, <1>13 DEF Shields

\* After a reboot there is nothing to shield.
LEMMA ShieldsAtBoot ==
  ASSUME chain' = Others, NEW c \in Config
  PROVE  Shields(chain', c)
<1>1. ASSUME NEW t \in Tables, NEW g, NEW match, g.uid = c.uid
      PROVE  Shielded(chain'[t], g, match)
  <2>1. Others[t] \in Seq(Foreign)
    BY LinuxFirewallAssumption
  <2>2. \A i \in DOMAIN Others[t] : Others[t][i].uid # c.uid
    BY <2>1, LinuxFirewallAssumption
  <2> QED BY <2>2, <1>1 DEF Shielded
<1>2. "nat" \in Tables /\ "filter" \in Tables
  BY DEF Tables
<1> QED BY <1>1, <1>2, ShieldRules DEF Shields

\* As long as no delete was refused and no answer false, no step of a call
\* takes a shield away from a rule that needs it.
LEMMA LoopbackInv ==
  ASSUME WriterOK, OnePortSet, ApplyInstalls, RemoveClears, Grown, LoopbackFirst,
         Writer, candid' => candid
  PROVE  LoopbackFirst'
<1> SUFFICES ASSUME candid', NEW c \in Config PROVE Shields(chain', c)
  BY DEF LoopbackFirst, Shields
<1>1. candid /\ w.hit = {} /\ Shields(chain, c)
  BY DEF WriterOK, InPlace, LoopbackFirst, Shields
<1>2. CASE chain' = chain
  BY <1>1, <1>2
<1>3. CASE AppendRule
  BY <1>1, <1>3, ShieldsAppended
<1>4. CASE DelDeletes
  <2>1. w.op = "undo" \/ w.op = "remove"
    BY <1>4, Deletes
  <2> QED BY <1>1, <1>4, <2>1, ShieldsPopped, ShieldsCleared
<1>5. CASE Reboot
  BY <1>5, ShieldsAtBoot DEF Reboot
<1> QED BY <1>2, <1>3, <1>4, <1>5, InstalledSteps

-----------------------------------------------------------------------------
(* The inductive invariant *)

\* It holds at the start.
LEMMA AtStart ==
  ASSUME Init
  PROVE  IInv
<1>1. PICK c \in Config : w = NoWrite(c) /\ rd = NoRead(c)
  BY DEF Init
<1>2. /\ w = [op |-> "idle", at |-> "-", cfg |-> c, todo |-> <<>>, existed |-> FALSE,
              added |-> <<>>, result |-> "none",
              before |-> [t \in Tables |-> <<>>], hit |-> {}]
      /\ rd = [at |-> "idle", cfg |-> c, left |-> <<>>, active |-> FALSE,
               killswitch |-> FALSE, wasArmed |-> FALSE, wasOn |-> FALSE]
  BY <1>1 DEF NoWrite, NoRead
<1>3. chain = Others /\ Typed(chain)
  BY LinuxFirewallAssumption DEF Init, Typed, ToSet, Tables
<1>4. TypeOK
  <2>1. w \in Writing
    BY <1>2 DEF Writing
  <2>2. rd \in Reading
    BY <1>2 DEF Reading
  <2> QED BY <1>3, <2>1, <2>2, LinuxFirewallAssumption DEF Init, TypeOK, Typed
<1>5. InPlace /\ KnowsTheRule /\ ApplyInstalls /\ RemoveClears
  BY <1>2 DEF InPlace, KnowsTheRule, ApplyInstalls, RemoveClears
<1>6. ApplyKeepsEarlierRules /\ OnlyItsOwn /\ FailedApplyRestores /\ Grown
  BY <1>2 DEF ApplyKeepsEarlierRules, OnlyItsOwn, FailedApplyRestores, Grown
<1>7. NoV6Rule
  <2>1. ASSUME NEW r \in Rule PROVE r \notin ToSet(chain[r.table])
    <3>1. r.table \in Tables /\ r \notin Foreign
      BY Rules
    <3>2. chain[r.table] \in Seq(Foreign)
      BY <1>3, <3>1, LinuxFirewallAssumption
    <3> QED BY <3>1, <3>2 DEF ToSet
  <2> QED BY <2>1 DEF NoV6Rule, Installed, Present, PresentIn
<1>8. ForeignRulesUntouched
  BY <1>3, ForeignAtBoot DEF ForeignRulesUntouched
<1>9. LoopbackFirst
  <2>1. ASSUME NEW t \in Tables, NEW g, NEW match, NEW d \in Config, g.uid = d.uid
        PROVE  Shielded(chain[t], g, match)
    <3>1. Others[t] \in Seq(Foreign)
      BY LinuxFirewallAssumption
    <3>2. \A i \in DOMAIN Others[t] : Others[t][i].uid # d.uid
      BY <3>1, LinuxFirewallAssumption
    <3> QED BY <3>2, <2>1, <1>3 DEF Shielded
  <2>2. "nat" \in Tables /\ "filter" \in Tables
    BY DEF Tables
  <2> QED BY <2>1, <2>2, ShieldRules DEF LoopbackFirst
<1> QED BY <1>4, <1>5, <1>6, <1>7, <1>8, <1>9 DEF IInv

\* A step that leaves the chains and the writer alone leaves it alone.
LEMMA Elsewhere ==
  ASSUME IInv, UNCHANGED <<chain, ip6, w>>, candid' => candid
  PROVE  /\ InPlace' /\ KnowsTheRule' /\ NoV6Rule' /\ ApplyInstalls' /\ RemoveClears'
         /\ ApplyKeepsEarlierRules' /\ OnlyItsOwn' /\ FailedApplyRestores' /\ Grown'
         /\ ForeignRulesUntouched' /\ (OnePortSet => LoopbackFirst')
<1>1. Current' = Current /\ Present(Current)' = Present(Current) /\ Installed' = Installed
  BY DEF Current, Present, Installed
<1>2. InPlace' /\ KnowsTheRule' /\ NoV6Rule'
  BY <1>1 DEF IInv, InPlace, KnowsTheRule, NoV6Rule, NeedsMissingIp6
<1>3. ApplyInstalls' /\ RemoveClears'
  BY <1>1 DEF IInv, ApplyInstalls, RemoveClears
<1>4. ApplyKeepsEarlierRules' /\ OnlyItsOwn' /\ FailedApplyRestores'
  BY DEF IInv, ApplyKeepsEarlierRules, OnlyItsOwn, FailedApplyRestores
<1>5. Grown'
  <2>1. Own' = Own
    BY DEF Own
  <2> QED BY <1>1, <2>1 DEF IInv, Grown
<1>6. ForeignRulesUntouched'
  BY DEF IInv, ForeignRulesUntouched
<1>7. OnePortSet => LoopbackFirst'
  BY DEF IInv, LoopbackFirst
<1> QED BY <1>2, <1>3, <1>4, <1>5, <1>6, <1>7

\* Every step of the daemon, and of a request for the status, keeps it.
LEMMA EveryStep ==
  ASSUME IInv, [Next]_vars
  PROVE  IInv'
<1>1. TypeOK /\ WriterOK
  BY DEF IInv, TypeOK, Typed, WriterOK
<1>2. /\ faults' \in 0..MaxFaults /\ candid' \in BOOLEAN /\ (candid' => candid)
      /\ rd' \in Reading
  BY <1>1, CountersTyped, ReaderTyped
<1>3. CASE Writer
  <2>1. Typed(chain)' /\ w' \in Writing /\ UNCHANGED ip6
    BY <1>1, <1>3, StepTyped
  <2>2. TypeOK'
    BY <1>1, <1>2, <2>1 DEF TypeOK, Typed
  <2>3. InPlace' /\ KnowsTheRule' /\ NoV6Rule'
    BY <1>1, <1>3, StepInPlace, KnowsInv, NoV6Inv DEF IInv
  <2>4. ApplyInstalls' /\ RemoveClears'
    BY <1>1, <1>3, ApplyInv, RemoveInv DEF IInv
  <2>5. ApplyKeepsEarlierRules' /\ OnlyItsOwn' /\ FailedApplyRestores' /\ Grown'
    BY <1>1, <1>3, KeepsInv, GrownInv DEF IInv
  <2>6. ForeignRulesUntouched'
    BY <1>1, <1>3, ForeignInv DEF IInv
  <2>7. OnePortSet => LoopbackFirst'
    BY <1>1, <1>2, <1>3, LoopbackInv DEF IInv
  <2> QED BY <2>2, <2>3, <2>4, <2>5, <2>6, <2>7 DEF IInv
<1>4. CASE UNCHANGED <<chain, ip6, w>>
  <2>1. TypeOK'
    BY <1>1, <1>2, <1>4 DEF TypeOK
  <2> QED BY <1>2, <1>4, <2>1, Elsewhere DEF IInv
<1>5. Reader => UNCHANGED <<chain, ip6, w>>
  BY DEF Reader, ReadRule, ReadReports, ReadBegins
<1> QED BY <1>3, <1>4, <1>5 DEF Next, vars

\* IInv is an invariant: the engine keeps what each call has in hand, what is
\* behind it in its list and what it will take back in step with the chains.
THEOREM Invariant == Spec => []IInv
BY AtStart, EveryStep, PTL DEF Spec

\* The run that leaves the requests for the status out checks behaviours of
\* the same specification.
THEOREM WithoutReader == WriterSpec => Spec
BY PTL DEF WriterSpec, Spec, Next

\* Every variable has its type, and the chains hold nothing but rules of the
\* configurations and of the other programs, each in its own table.
THEOREM TypeCorrect == Spec => []TypeOK
<1>1. IInv => TypeOK
  BY DEF IInv
<1> QED BY <1>1, Invariant, PTL

\* LinuxFirewall.apply "arms the complete ruleset or raises and leaves nothing
\* behind": when it raises, every chain is what it was before the call.
THEOREM FailedApply == Spec => []FailedApplyRestores
<1>1. IInv => FailedApplyRestores
  BY DEF IInv
<1> QED BY <1>1, Invariant, PTL

\* A failed apply takes back "exactly what it added and nothing it didn't": no
\* rule of an earlier session leaves the chains while it runs or rolls back.
THEOREM KeepsEarlier == Spec => []ApplyKeepsEarlierRules
<1>1. IInv => ApplyKeepsEarlierRules
  BY DEF IInv
<1> QED BY <1>1, Invariant, PTL

\* No call moves, removes or repeats a rule of another program.
THEOREM ForeignKept == Spec => []ForeignRulesUntouched
<1>1. IInv => ForeignRulesUntouched
  BY DEF IInv
<1> QED BY <1>1, Invariant, PTL

\* remove leaves none of the user's rules, duplicate copies included.
THEOREM RemoveComplete == Spec => []RemoveTakesEverything
<1>1. IInv => RemoveTakesEverything
  <2> SUFFICES ASSUME IInv, w.result = "removed", w.hit = {}
               PROVE  ToSet(V4Rules(w.cfg) \o V6Rules(w.cfg)) \intersect Installed = {}
    BY DEF RemoveTakesEverything
  <2>1. ToSet(RemovalOf(w.cfg, ip6)) \intersect Installed = {} /\ ip6 \in BOOLEAN
        /\ w.cfg \in Config
    BY DEF IInv, RemoveClears, TypeOK, Writing
  <2>2. CASE ip6
    BY <2>1, <2>2, Lists
  <2>3. CASE ~ip6
    <3>1. ASSUME NEW r \in ToSet(V6Rules(w.cfg)) PROVE r.table = "filter6"
      <4>1. \/ r = RuleOf("filter6", "out_lo", w.cfg.uid, 0, "ACCEPT")
            \/ r = RuleOf("filter6", "any", w.cfg.uid, 0, "DROP")
        <5>1. V6Rules(w.cfg) = BuildV6Rules(w.cfg.uid)
          BY DEF V6Rules
        <5>2. r \in { RuleOf("filter6", "out_lo", w.cfg.uid, 0, "ACCEPT"),
                      RuleOf("filter6", "any", w.cfg.uid, 0, "DROP") }
          BY <3>1, <5>1, ListSets
        <5> QED BY <5>2, Zenon
      <4> QED BY <4>1 DEF RuleOf
    <3>2. ToSet(V6Rules(w.cfg)) \intersect Installed = {}
      BY <2>3, <3>1 DEF IInv, NoV6Rule
    <3>3. ToSet(RemovalOf(w.cfg, FALSE)) = ToSet(V4Rules(w.cfg))
      BY <2>1, Lists
    <3>4. ToSet(V4Rules(w.cfg) \o V6Rules(w.cfg))
            = ToSet(V4Rules(w.cfg)) \union ToSet(V6Rules(w.cfg))
      BY <2>1, Lists
    <3>5. ip6 = FALSE
      BY <2>1, <2>3
    <3> QED BY <2>1, <3>2, <3>3, <3>4, <3>5
  <2> QED BY <2>1, <2>2, <2>3
<1> QED BY <1>1, Invariant, PTL

-----------------------------------------------------------------------------
(* What the kernel does with a packet of a user *)

\* The first rule that matches decides.
LEMMA First ==
  ASSUME NEW S, NEW s \in Seq(S), NEW pkt
  PROVE  \/ /\ FirstMatch(s, pkt) = <<>>
            /\ \A i \in 1..Len(s) : ~Matches(s[i], pkt)
         \/ \E i \in 1..Len(s) :
              /\ FirstMatch(s, pkt) = <<s[i]>> /\ Matches(s[i], pkt)
              /\ \A j \in 1..(i - 1) : ~Matches(s[j], pkt)
<1> DEFINE hits == {i \in 1..Len(s) : Matches(s[i], pkt)}
<1>1. FirstMatch(s, pkt) = IF hits = {} THEN <<>> ELSE <<s[Min(hits)]>>
  BY DEF FirstMatch
<1>2. Len(s) \in Nat /\ hits \in SUBSET Nat
  OBVIOUS
<1>3. CASE hits = {}
  BY <1>1, <1>3
<1>4. CASE hits # {}
  <2> DEFINE k == Min(hits)
  <2>1. k \in hits /\ \A x \in hits : k <= x
    <3> HIDE DEF hits
    <3> QED BY <1>2, <1>4, MinLeast
  <2>2. FirstMatch(s, pkt) = <<s[k]>>
    BY <1>1, <1>4
  <2> HIDE DEF k
  <2>3. k \in 1..Len(s) /\ Matches(s[k], pkt)
    BY <2>1
  <2>4. ASSUME NEW j \in 1..(k - 1), Matches(s[j], pkt) PROVE FALSE
    <3>1. j \in hits /\ j < k
      BY <2>3, <2>4, <1>2
    <3> QED BY <3>1, <2>1, <2>3, <1>2
  <2> QED BY <2>2, <2>3, <2>4
<1> QED BY <1>3, <1>4

\* A rule in a chain that is about a user of a configuration was built for him.
LEMMA OfUser ==
  ASSUME Typed(chain), NEW c \in Config, NEW t \in Tables, NEW i \in 1..Len(chain[t]),
         chain[t][i].uid = c.uid
  PROVE  /\ chain[t][i].table = t
         /\ \E d \in Config : Shape(chain[t][i], d)
<1> DEFINE r == chain[t][i]
<1>1. r \in ToSet(chain[t]) /\ r \in Rule \union Foreign /\ r.table = t
  BY DEF Typed, ToSet
<1> HIDE DEF r
<1>2. r.uid = c.uid
  BY DEF r
<1>3. r \in Rule
  BY <1>1, <1>2, LinuxFirewallAssumption
<1>4. \E d \in Config : Shape(r, d)
  BY <1>3, Rules
<1> QED BY <1>1, <1>4 DEF r

\* What can match a packet of a user, table by table.
LEMMA MatchIs ==
  ASSUME Typed(chain), NEW c \in Config, NEW t \in Tables, NEW i \in 1..Len(chain[t]),
         NEW pkt, pkt.uid = c.uid, Matches(chain[t][i], pkt)
  PROVE  LET r == chain[t][i] IN
         /\ r.uid = c.uid
         /\ t = "nat" =>
              \/ r.target = "RETURN" /\ pkt.lo
              \/ r.target = "REDIRECT" /\ r.match = "tcp" /\ pkt.proto = "tcp"
              \/ r.target = "REDIRECT" /\ r.match = "dns" /\ pkt.proto = "udp" /\ pkt.dport = 53
         /\ t = "filter" =>
              \/ r.target = "ACCEPT" /\ (pkt.lo \/ pkt.proto = "tcp")
              \/ /\ r.target = "ACCEPT" /\ pkt.proto = "udp"
                 /\ \E d \in Config : d.uid = c.uid /\ d.dns = pkt.dport
              \/ r.target = "DROP" /\ r.match = "any"
         /\ t = "filter6" =>
              \/ r.target = "ACCEPT" /\ pkt.lo
              \/ r.target = "DROP"
<1> DEFINE r == chain[t][i]
<1>1. r.uid = c.uid
  BY DEF Matches
<1>2. r.table = t
  BY <1>1, OfUser
<1>3. PICK d \in Config : Shape(r, d)
  BY <1>1, OfUser
<1>4. Matches(r, pkt)
  OBVIOUS
<1> HIDE DEF r
<1>5. /\ r.match = "loopback_dst" \/ r.match = "out_lo" => pkt.lo
      /\ r.match = "tcp" => pkt.proto = "tcp"
      /\ r.match = "dns" => pkt.proto = "udp" /\ pkt.dport = 53
      /\ r.match = "tcp_dport" => pkt.proto = "tcp"
      /\ r.match = "udp_dport" => pkt.proto = "udp" /\ pkt.dport = r.port
  BY <1>4 DEF Matches
<1>6. CASE t = "nat"
  BY <1>1, <1>2, <1>3, <1>5, <1>6 DEF Shape, r
<1>7. CASE t = "filter"
  BY <1>1, <1>2, <1>3, <1>5, <1>7 DEF Shape, r
<1>8. CASE t = "filter6"
  BY <1>1, <1>2, <1>3, <1>5, <1>8 DEF Shape, r
<1> QED BY <1>6, <1>7, <1>8 DEF Tables

\* Behind the shields the page answers.
LEMMA Reaches ==
  ASSUME Typed(chain), NEW c \in Config, Shields(chain, c)
  PROVE  Verdict(chain, ToLoopback(c.uid)) = "local"
<1> DEFINE pkt == ToLoopback(c.uid)
<1>1. pkt.uid = c.uid /\ pkt.proto = "tcp" /\ pkt.lo = TRUE
  BY DEF ToLoopback, Packet
<1> HIDE DEF pkt
<1>2. "nat" \in Tables /\ "filter" \in Tables
  BY DEF Tables
<1>3. /\ chain["nat"] \in Seq(Rule \union Foreign) /\ chain["filter"] \in Seq(Rule \union Foreign)
  BY <1>2 DEF Typed
<1>4. Matches(LoReturn(c.uid), pkt) /\ Matches(LoAccept(c.uid), pkt)
  <2>1. ASSUME NEW r, r.uid = c.uid, r.match = "loopback_dst" \/ r.match = "out_lo"
        PROVE  Matches(r, pkt)
    BY <1>1, <2>1 DEF Matches
  <2> QED BY <2>1, ShieldRules
<1>5. ~Redirected(chain["nat"], pkt)
  <2> SUFFICES ASSUME NEW i \in 1..Len(chain["nat"]),
                      Matches(chain["nat"][i], pkt), chain["nat"][i].target = "REDIRECT",
                      \A j \in 1..(i - 1) : ~Matches(chain["nat"][j], pkt)
               PROVE  FALSE
    BY <1>3, First DEF Redirected
  <2>1. chain["nat"][i].uid = c.uid /\ chain["nat"][i].match = "tcp"
    BY <1>1, <1>2, MatchIs
  <2>2. LoReturn(c.uid).uid = c.uid /\ i \in DOMAIN chain["nat"]
    BY <1>3, ShieldRules
  <2>3. PICK j \in 1..(i - 1) : chain["nat"][j] = LoReturn(c.uid)
    BY <2>1, <2>2 DEF Shields, Shielded
  <2> QED BY <2>3, <1>4
<1>6. AfterNat(chain["nat"], pkt) = pkt
  BY <1>5 DEF AfterNat
<1>7. ~Dropped(chain["filter"], pkt)
  <2> SUFFICES ASSUME NEW i \in 1..Len(chain["filter"]),
                      Matches(chain["filter"][i], pkt), chain["filter"][i].target = "DROP",
                      \A j \in 1..(i - 1) : ~Matches(chain["filter"][j], pkt)
               PROVE  FALSE
    BY <1>3, First DEF Dropped
  <2>1. chain["filter"][i].uid = c.uid /\ chain["filter"][i].match = "any"
    BY <1>1, <1>2, MatchIs
  <2>2. LoAccept(c.uid).uid = c.uid /\ i \in DOMAIN chain["filter"]
    BY <1>3, ShieldRules
  <2>3. PICK j \in 1..(i - 1) : chain["filter"][j] = LoAccept(c.uid)
    BY <2>1, <2>2 DEF Shields, Shielded
  <2> QED BY <2>3, <1>4
<1>8. Verdict(chain, pkt) = "local"
  BY <1>1, <1>5, <1>6, <1>7 DEF Verdict
<1> QED BY <1>8 DEF pkt

\* Armed, the rules let nothing of the user out but datagrams to his DNSPort.
LEMMA Closed ==
  ASSUME Typed(chain), NEW c \in Config, ToSet(Ruleset(c)) \subseteq Installed,
         NEW pkt \in Outbound(c.uid, Port)
  PROVE  /\ Verdict(chain, pkt) = "leaked" => ToDnsPort(pkt)
         /\ c.ipv6_killswitch => Verdict6(chain, pkt) = "dropped"
<1>1. pkt.uid = c.uid /\ pkt.lo = FALSE /\ pkt.proto \in {"tcp", "udp", "other"}
  BY DEF Outbound, Packet
<1>2. "nat" \in Tables /\ "filter" \in Tables /\ "filter6" \in Tables
  BY DEF Tables
<1>3. \A t \in Tables : chain[t] \in Seq(Rule \union Foreign)
  BY DEF Typed
<1> DEFINE tcp == RuleOf("nat", "tcp", c.uid, c.trans, "REDIRECT")
           dns == RuleOf("nat", "dns", c.uid, c.dns, "REDIRECT")
           drop == RuleOf("filter", "any", c.uid, 0, "DROP")
           drop6 == RuleOf("filter6", "any", c.uid, 0, "DROP")
<1>4. /\ tcp.table = "nat" /\ tcp.match = "tcp" /\ tcp.uid = c.uid
      /\ dns.table = "nat" /\ dns.match = "dns" /\ dns.uid = c.uid
      /\ drop.table = "filter" /\ drop.match = "any" /\ drop.uid = c.uid
      /\ drop6.table = "filter6" /\ drop6.match = "any" /\ drop6.uid = c.uid
  BY DEF RuleOf
<1>5. tcp \in ToSet(V4Rules(c)) /\ dns \in ToSet(V4Rules(c)) /\ drop \in ToSet(V4Rules(c))
  <2>1. /\ RuleOf("nat", "tcp", c.uid, c.trans, "REDIRECT") \in ToSet(V4Rules(c))
        /\ RuleOf("nat", "dns", c.uid, c.dns, "REDIRECT") \in ToSet(V4Rules(c))
        /\ RuleOf("filter", "any", c.uid, 0, "DROP") \in ToSet(V4Rules(c))
    BY ListSets, SMT DEF V4Rules
  <2> QED BY <2>1
<1>6. drop6 \in ToSet(V6Rules(c))
  BY ListSets, Zenon DEF V6Rules
<1> HIDE DEF tcp, dns, drop, drop6
<1>7. /\ tcp \in Installed /\ dns \in Installed /\ drop \in Installed
      /\ c.ipv6_killswitch => drop6 \in Installed
  BY <1>5, <1>6, Lists
<1>8. ASSUME NEW t \in Tables, NEW r \in Installed, r.table = t, Matches(r, pkt)
      PROVE  \E i \in 1..Len(chain[t]) :
               FirstMatch(chain[t], pkt) = <<chain[t][i]>> /\ Matches(chain[t][i], pkt)
  <2>1. \E i \in 1..Len(chain[t]) : Matches(chain[t][i], pkt)
    BY <1>3, <1>8 DEF Installed, Present, PresentIn, ToSet
  <2> QED BY <2>1, <1>3, First
<1>9. ASSUME pkt.proto = "tcp" \/ (pkt.proto = "udp" /\ pkt.dport = 53)
      PROVE  Verdict(chain, pkt) # "leaked"
  <2>1. Matches(tcp, pkt) \/ Matches(dns, pkt)
    BY <1>1, <1>4, <1>9 DEF Matches
  <2>2. PICK i \in 1..Len(chain["nat"]) :
          FirstMatch(chain["nat"], pkt) = <<chain["nat"][i]>> /\ Matches(chain["nat"][i], pkt)
    BY <2>1, <1>2, <1>4, <1>7, <1>8
  <2>3. chain["nat"][i].target = "REDIRECT"
    BY <2>2, <1>1, <1>2, MatchIs
  <2>4. Redirected(chain["nat"], pkt)
    BY <2>2, <2>3 DEF Redirected
  <2> QED BY <2>4 DEF Verdict
<1>10. ASSUME pkt.proto # "tcp", pkt.proto = "udp" => pkt.dport # 53, ~ToDnsPort(pkt)
       PROVE  Verdict(chain, pkt) # "leaked"
  <2>1. ~Redirected(chain["nat"], pkt)
    <3> SUFFICES ASSUME NEW i \in 1..Len(chain["nat"]),
                        Matches(chain["nat"][i], pkt), chain["nat"][i].target = "REDIRECT"
                 PROVE  FALSE
      BY <1>2, <1>3, First DEF Redirected
    <3> QED BY <1>1, <1>2, <1>10, MatchIs
  <2>2. AfterNat(chain["nat"], pkt) = pkt
    BY <2>1 DEF AfterNat
  <2>3. Matches(drop, pkt)
    BY <1>1, <1>4 DEF Matches
  <2>4. PICK i \in 1..Len(chain["filter"]) :
          FirstMatch(chain["filter"], pkt) = <<chain["filter"][i]>> /\ Matches(chain["filter"][i], pkt)
    BY <2>3, <1>2, <1>4, <1>7, <1>8
  <2>5. chain["filter"][i].target = "DROP"
    BY <2>4, <1>1, <1>2, <1>10, MatchIs DEF ToDnsPort
  <2>6. Dropped(chain["filter"], AfterNat(chain["nat"], pkt))
    BY <2>2, <2>4, <2>5 DEF Dropped
  <2> QED BY <2>6 DEF Verdict
<1>11. ASSUME c.ipv6_killswitch PROVE Verdict6(chain, pkt) = "dropped"
  <2>1. Matches(drop6, pkt)
    BY <1>1, <1>4 DEF Matches
  <2>2. PICK i \in 1..Len(chain["filter6"]) :
          FirstMatch(chain["filter6"], pkt) = <<chain["filter6"][i]>> /\ Matches(chain["filter6"][i], pkt)
    BY <2>1, <1>2, <1>4, <1>7, <1>8, <1>11
  <2>3. chain["filter6"][i].target = "DROP"
    BY <2>2, <1>1, <1>2, MatchIs
  <2>4. Dropped(chain["filter6"], pkt)
    BY <2>2, <2>3 DEF Dropped
  <2> QED BY <2>4, <1>1 DEF Verdict6
<1>12. Verdict(chain, pkt) = "leaked" => ToDnsPort(pkt)
  BY <1>1, <1>9, <1>10
<1> QED BY <1>11, <1>12

\* From the return of apply until the next call no packet of the user to any
\* port leaves the host other than through Tor, whatever earlier failed calls
\* left in the chains, but for datagrams to the number of a DNSPort of his;
\* and none leaves it over IPv6.
THEOREM FailsClosed == Spec => []ArmedFailsClosed
<1>1. IInv => ArmedFailsClosed
  <2> SUFFICES ASSUME IInv, w.result = "armed", NEW pkt \in Outbound(w.cfg.uid, Port)
               PROVE  /\ Verdict(chain, pkt) = "leaked" => ToDnsPort(pkt)
                      /\ w.cfg.ipv6_killswitch => Verdict6(chain, pkt) = "dropped"
    BY DEF ArmedFailsClosed
  <2>1. w.cfg \in Config /\ Typed(chain) /\ ToSet(Ruleset(w.cfg)) \subseteq Installed
    BY DEF IInv, TypeOK, Typed, Writing, ApplyInstalls
  <2> QED BY <2>1, Closed
<1> QED BY <1>1, Invariant, PTL

\* At no instant of any call, nor after a crash in the middle of one, is the
\* page out of the user's reach, unless a delete was refused or an answer was
\* false.
THEOREM PageReachable ==
  ASSUME OnePortSet
  PROVE  Spec => []GuiReachable
<1>1. IInv => GuiReachable
  <2> SUFFICES ASSUME IInv, candid, NEW c \in Config
               PROVE  Verdict(chain, ToLoopback(c.uid)) = "local"
    BY DEF GuiReachable
  <2>1. Typed(chain) /\ Shields(chain, c)
    BY DEF IInv, TypeOK, Typed, LoopbackFirst, Shields
  <2> QED BY <2>1, Reaches
<1> QED BY <1>1, Invariant, PTL

-----------------------------------------------------------------------------
(* A status that races a call *)

\* The places of a ruleset: the IPv4 rules, then the IPv6 ones, each told
\* from the others by its table and by what it matches.
LEMMA RulesetPlaces ==
  ASSUME NEW c \in Config
  PROVE  /\ Len(Ruleset(c)) = (IF c.ipv6_killswitch THEN 9 ELSE 7)
         /\ Ruleset(c)[7] = Last(V4Rules(c))
         /\ c.ipv6_killswitch => Ruleset(c)[9] = Last(V6Rules(c))
         /\ \A i \in 1..Len(Ruleset(c)) :
              /\ Ruleset(c)[i].uid = c.uid
              /\ Ruleset(c)[i].table = "filter6" <=> i > 7
              /\ Ruleset(c)[i].match =
                   <<"loopback_dst", "tcp", "dns", "out_lo", "tcp_dport", "udp_dport",
                     "any", "out_lo", "any">>[i]
<1> DEFINE a == RuleOf("nat", "loopback_dst", c.uid, 0, "RETURN")
           b == RuleOf("nat", "tcp", c.uid, c.trans, "REDIRECT")
           d == RuleOf("nat", "dns", c.uid, c.dns, "REDIRECT")
           e == RuleOf("filter", "out_lo", c.uid, 0, "ACCEPT")
           f == RuleOf("filter", "tcp_dport", c.uid, c.trans, "ACCEPT")
           g == RuleOf("filter", "udp_dport", c.uid, c.dns, "ACCEPT")
           h == RuleOf("filter", "any", c.uid, 0, "DROP")
           a6 == RuleOf("filter6", "out_lo", c.uid, 0, "ACCEPT")
           b6 == RuleOf("filter6", "any", c.uid, 0, "DROP")
           v4 == V4Rules(c)
           v6 == V6Rules(c)
           list == Ruleset(c)
           match == <<"loopback_dst", "tcp", "dns", "out_lo", "tcp_dport", "udp_dport",
                      "any", "out_lo", "any">>
<1>1. v4 = <<a, b, d, e, f, g, h>> /\ v6 = <<a6, b6>>
  BY DEF V4Rules, BuildRules, V6Rules, BuildV6Rules
<1>2. /\ a.uid = c.uid /\ a.table = "nat" /\ a.match = "loopback_dst"
      /\ b.uid = c.uid /\ b.table = "nat" /\ b.match = "tcp"
      /\ d.uid = c.uid /\ d.table = "nat" /\ d.match = "dns"
      /\ e.uid = c.uid /\ e.table = "filter" /\ e.match = "out_lo"
      /\ f.uid = c.uid /\ f.table = "filter" /\ f.match = "tcp_dport"
      /\ g.uid = c.uid /\ g.table = "filter" /\ g.match = "udp_dport"
      /\ h.uid = c.uid /\ h.table = "filter" /\ h.match = "any"
      /\ a6.uid = c.uid /\ a6.table = "filter6" /\ a6.match = "out_lo"
      /\ b6.uid = c.uid /\ b6.table = "filter6" /\ b6.match = "any"
  BY DEF RuleOf
<1>3. list = v4 \o (IF c.ipv6_killswitch THEN v6 ELSE <<>>)
  BY DEF Ruleset
<1>4. v4 \in Seq(Rule) /\ v6 \in Seq(Rule) /\ c.ipv6_killswitch \in BOOLEAN
  BY Lists, LinuxFirewallAssumption
<1>5. /\ match[1] = "loopback_dst" /\ match[2] = "tcp" /\ match[3] = "dns"
      /\ match[4] = "out_lo" /\ match[5] = "tcp_dport" /\ match[6] = "udp_dport"
      /\ match[7] = "any" /\ match[8] = "out_lo" /\ match[9] = "any"
  OBVIOUS
<1> HIDE DEF a, b, d, e, f, g, h, a6, b6, v4, v6, list, match
<1>6. /\ Len(v4) = 7 /\ v4[1] = a /\ v4[2] = b /\ v4[3] = d /\ v4[4] = e
      /\ v4[5] = f /\ v4[6] = g /\ v4[7] = h
      /\ Len(v6) = 2 /\ v6[1] = a6 /\ v6[2] = b6
  BY <1>1
<1>7. a6 \in Rule /\ b6 \in Rule
  BY <1>1, <1>4
<1>8. /\ Len(list) = (IF c.ipv6_killswitch THEN 9 ELSE 7)
      /\ \A i \in 1..7 : list[i] = v4[i]
      /\ c.ipv6_killswitch => list[8] = a6 /\ list[9] = b6
  <2>1. CASE c.ipv6_killswitch
    <3>1. list = v4 \o <<a6, b6>>
      BY <2>1, <1>1, <1>3
    <3> QED BY <3>1, <2>1, <1>4, <1>6, <1>7, TwoAndSeven
  <2>2. CASE ~c.ipv6_killswitch
    <3>1. list = v4 \o <<>>
      BY <2>2, <1>3
    <3>2. list = v4
      BY <3>1, <1>4
    <3> QED BY <3>2, <2>2, <1>6
  <2> QED BY <2>1, <2>2
<1>9. Last(v4) = h /\ Last(v6) = b6
  BY <1>6 DEF Last
<1>10. list[7] = Last(v4) /\ (c.ipv6_killswitch => list[9] = Last(v6))
  BY <1>6, <1>8, <1>9
<1>11. ASSUME NEW i \in 1..Len(list)
       PROVE  /\ list[i].uid = c.uid /\ (list[i].table = "filter6" <=> i > 7)
              /\ list[i].match = match[i]
  <2>1. CASE i \in 1..7
    <3>1. i = 1 \/ i = 2 \/ i = 3 \/ i = 4 \/ i = 5 \/ i = 6 \/ i = 7
      BY <2>1
    <3>2. list[i] = v4[i]
      BY <2>1, <1>8
    <3> QED BY <3>1, <3>2, <1>2, <1>5, <1>6
  <2>2. CASE i \notin 1..7
    <3>1. c.ipv6_killswitch /\ (i = 8 \/ i = 9)
      BY <2>2, <1>4, <1>8
    <3> QED BY <3>1, <1>2, <1>5, <1>8
  <2> QED BY <2>1, <2>2
<1> QED BY <1>8, <1>10, <1>11 DEF v4, v6, list, match

\* A rule has the same place in the rulesets of all configurations.
LEMMA SamePlace ==
  ASSUME NEW c \in Config, NEW d \in Config,
         NEW i \in 1..Len(Ruleset(c)), NEW j \in 1..Len(Ruleset(d)),
         Ruleset(c)[i] = Ruleset(d)[j]
  PROVE  i = j /\ c.uid = d.uid
<1> DEFINE match == <<"loopback_dst", "tcp", "dns", "out_lo", "tcp_dport", "udp_dport",
                      "any", "out_lo", "any">>
           r == Ruleset(c)[i]
<1>5. /\ r.uid = c.uid /\ (r.table = "filter6" <=> i > 7) /\ r.match = match[i]
      /\ Len(Ruleset(c)) \in {7, 9}
  BY RulesetPlaces
<1>6. /\ r.uid = d.uid /\ (r.table = "filter6" <=> j > 7) /\ r.match = match[j]
      /\ Len(Ruleset(d)) \in {7, 9}
  BY RulesetPlaces
<1>7. i \in 1..9 /\ j \in 1..9
  <2> DEFINE n == Len(Ruleset(c))
             m == Len(Ruleset(d))
  <2>1. i \in 1..n /\ j \in 1..m /\ (n = 7 \/ n = 9) /\ (m = 7 \/ m = 9)
    BY <1>5, <1>6
  <2> HIDE DEF n, m
  <2>2. i \in 1..9
    BY <2>1
  <2>3. j \in 1..9
    BY <2>1
  <2> QED BY <2>2, <2>3
<1>2. /\ match[1] = "loopback_dst" /\ match[2] = "tcp" /\ match[3] = "dns"
      /\ match[4] = "out_lo" /\ match[5] = "tcp_dport" /\ match[6] = "udp_dport"
      /\ match[7] = "any" /\ match[8] = "out_lo" /\ match[9] = "any"
  OBVIOUS
<1> HIDE DEF match, r
<1>1. c.uid = d.uid /\ (i > 7 <=> j > 7) /\ match[i] = match[j]
  BY <1>5, <1>6
<1>3. CASE i > 7
  <2>1. (i = 8 \/ i = 9) /\ (j = 8 \/ j = 9)
    BY <1>1, <1>3, <1>7
  <2> QED BY <2>1, <1>1, <1>2
<1>4. CASE ~(i > 7)
  <2>1. /\ i = 1 \/ i = 2 \/ i = 3 \/ i = 4 \/ i = 5 \/ i = 6 \/ i = 7
        /\ j = 1 \/ j = 2 \/ j = 3 \/ j = 4 \/ j = 5 \/ j = 6 \/ j = 7
    BY <1>1, <1>4, <1>7
  <2> QED BY <2>1, <1>1, <1>2, SMTT(30)
<1> QED BY <1>3, <1>4, <1>1

\* The rulesets of a user agree as far as both go.
LEMMA SameRules ==
  ASSUME OneRuleset, NEW c \in Config, NEW d \in Config, c.uid = d.uid,
         NEW i \in 1..Len(Ruleset(c)), i \in 1..Len(Ruleset(d))
  PROVE  Ruleset(c)[i] = Ruleset(d)[i]
<1>1. V4Rules(c) = V4Rules(d) /\ V6Rules(c) = V6Rules(d)
  BY DEF OneRuleset, V4Rules, V6Rules
<1>2. c.ipv6_killswitch \in BOOLEAN /\ d.ipv6_killswitch \in BOOLEAN
  BY LinuxFirewallAssumption
<1>3. ASSUME NEW e \in Config
      PROVE  /\ V4Rules(e) \in Seq(Rule) /\ Len(V4Rules(e)) = 7
             /\ \A k \in 1..7 : Ruleset(e)[k] = V4Rules(e)[k]
  <2> DEFINE v4 == V4Rules(e)
             more == IF e.ipv6_killswitch THEN V6Rules(e) ELSE <<>>
  <2>1. v4 \in Seq(Rule) /\ V6Rules(e) \in Seq(Rule)
    BY Lists
  <2>2. Len(v4) = 7
    BY V4Index
  <2> HIDE DEF v4
  <2>3. more \in Seq(Rule)
    BY <2>1
  <2> HIDE DEF more
  <2>4. ASSUME NEW k \in 1..7 PROVE (v4 \o more)[k] = v4[k]
    <3>1. Len(more) \in Nat /\ k \in 1..(Len(v4) + Len(more)) /\ k <= Len(v4)
      BY <2>2, <2>3
    <3> QED BY <3>1, <2>1, <2>3, ConcatProperties
  <2>5. Ruleset(e) = v4 \o more
    BY DEF Ruleset, v4, more
  <2> QED BY <2>1, <2>2, <2>4, <2>5 DEF v4
<1>4. CASE i \in 1..7
  BY <1>1, <1>3, <1>4, SMTT(30)
<1>5. CASE i \notin 1..7
  <2>1. c.ipv6_killswitch /\ d.ipv6_killswitch
    BY <1>2, <1>5, RulesetPlaces
  <2> QED BY <2>1, <1>1 DEF Ruleset
<1> QED BY <1>4, <1>5

\* Whatever is left of a list is left with all that follows it.
LEMMA LeftWithRest ==
  ASSUME NEW S, NEW list \in Seq(S), NEW todo \in Seq(S), LeftOf(list, todo),
         NEW r \in ToSet(todo)
  PROVE  \E k \in 1..Len(list) :
           /\ list[k] = r
           /\ \A i \in k..Len(list) : list[i] \in ToSet(todo)
<1> DEFINE n == Len(list)
           m == Len(todo)
<1>1. /\ n \in Nat /\ m \in Nat /\ m <= n /\ DOMAIN todo = 1..m
      /\ \A i \in 1..m : todo[i] = list[(n - m) + i]
  BY DEF LeftOf
<1>2. PICK j \in 1..m : todo[j] = r
  BY <1>1 DEF ToSet
<1> HIDE DEF n, m
<1>3. (n - m) + j \in 1..n /\ list[(n - m) + j] = r
  BY <1>1, <1>2
<1>4. ASSUME NEW i \in ((n - m) + j)..n PROVE list[i] \in ToSet(todo)
  <2>1. i - (n - m) \in 1..m /\ (n - m) + (i - (n - m)) = i
    BY <1>1
  <2>2. todo[i - (n - m)] = list[i]
    BY <2>1, <1>1
  <2> QED BY <2>1, <2>2, <1>1 DEF ToSet
<1> QED BY <1>3, <1>4 DEF n

\* The verdicts, rule by rule.
LEMMA VerdictIs ==
  ASSUME NEW c \in Config, NEW ch
  PROVE  /\ Armed(ch, c) <=> \A i \in 1..Len(Ruleset(c)) : PresentIn(ch, Ruleset(c)[i])
         /\ Blocked(ch, c) <=> \A r \in Blocking(c) : PresentIn(ch, r)
         /\ Blocking(c) = {Ruleset(c)[i] : i \in {7, 9} \intersect 1..Len(Ruleset(c))}
         /\ Blocking(c) \subseteq ToSet(Ruleset(c))
         /\ ToSet(Ruleset(c)) = {Ruleset(c)[i] : i \in 1..Len(Ruleset(c))}
         /\ ToSet(Ruleset(c)) \subseteq Rule
<1> DEFINE list == Ruleset(c)
           x == Last(V4Rules(c))
           y == Last(V6Rules(c))
<1>0. list \in Seq(Rule)
  BY Lists
<1>2. /\ Len(list) = (IF c.ipv6_killswitch THEN 9 ELSE 7) /\ list[7] = x
      /\ c.ipv6_killswitch => list[9] = y
  BY RulesetPlaces
<1>3. Blocking(c) = {x} \union (IF c.ipv6_killswitch THEN {y} ELSE {})
  BY DEF Blocking
<1>4. Blocked(ch, c) <=> PresentIn(ch, x) /\ (c.ipv6_killswitch => PresentIn(ch, y))
  BY DEF Blocked
<1>5. Armed(ch, c) <=> \A r \in ToSet(list) : PresentIn(ch, r)
  BY DEF Armed
<1> HIDE DEF list, x, y
<1>1. Len(list) \in Nat /\ DOMAIN list = 1..Len(list)
  BY <1>0
<1>6. ToSet(list) = {list[i] : i \in 1..Len(list)} /\ ToSet(list) \subseteq Rule
  BY <1>0, <1>1 DEF ToSet
<1>7. Blocking(c) = {list[i] : i \in {7, 9} \intersect 1..Len(list)}
  <2>1. CASE c.ipv6_killswitch
    <3>1. {7, 9} \intersect 1..Len(list) = {7, 9}
      BY <2>1, <1>2
    <3> QED BY <3>1, <2>1, <1>2, <1>3
  <2>2. CASE ~c.ipv6_killswitch
    <3>1. {7, 9} \intersect 1..Len(list) = {7}
      BY <2>2, <1>2
    <3> QED BY <3>1, <2>2, <1>2, <1>3
  <2> QED BY <2>1, <2>2
<1>8. Blocking(c) \subseteq ToSet(list)
  BY <1>6, <1>7
<1>9. Armed(ch, c) <=> \A i \in 1..Len(list) : PresentIn(ch, list[i])
  BY <1>5, <1>6
<1>10. Blocked(ch, c) <=> \A r \in Blocking(c) : PresentIn(ch, r)
  BY <1>3, <1>4
<1> QED BY <1>6, <1>7, <1>8, <1>9, <1>10 DEF list

\* An append that adds the last rule ahead of the reader completes the ruleset:
\* the rules behind the reader come before it in the list of apply too.
LEMMA LastOneArms ==
  ASSUME WriterOK, ApplyInstalls, AppendRule, OneRuleset,
         NEW c \in Config, NEW left \in Seq(Rule), LeftOf(Ruleset(c), left),
         Current \in ToSet(left), ToSet(left) \subseteq Installed'
  PROVE  \A i \in 1..Len(Ruleset(c)) : Ruleset(c)[i] \in Installed'
<1> DEFINE list == Ruleset(c)
<1>0. list \in Seq(Rule)
  BY Lists
<1>1. list \in Seq(Rule) /\ Len(list) \in Nat
  BY <1>0
<1>2. PICK k \in 1..Len(list) :
        list[k] = Current /\ \A i \in k..Len(list) : list[i] \in ToSet(left)
  BY <1>1, LeftWithRest
<1>3. w.cfg \in Config /\ Installed' = Installed \union {Current}
  BY AppendPlace
<1>4. PICK j \in 1..Len(Ruleset(w.cfg)) :
        /\ Current = Ruleset(w.cfg)[j]
        /\ \A i \in 1..(j - 1) : Ruleset(w.cfg)[i] \in Installed
  BY AppendPlace
<1>5. k = j /\ c.uid = w.cfg.uid
  BY <1>2, <1>3, <1>4, SamePlace
<1>6. ASSUME NEW i \in 1..(k - 1) PROVE list[i] \in Installed
  <2>1. i \in 1..Len(list) /\ i \in 1..Len(Ruleset(w.cfg)) /\ i \in 1..(j - 1)
    <3>1. Len(Ruleset(w.cfg)) \in Nat
      BY <1>3, Lists
    <3> QED BY <3>1, <1>1, <1>4, <1>5
  <2>2. list[i] = Ruleset(w.cfg)[i]
    BY <2>1, <1>3, <1>5, SameRules
  <2> QED BY <2>1, <2>2, <1>4
<1> HIDE DEF list
<1>7. \A i \in 1..Len(list) : i \in 1..(k - 1) \/ i \in k..Len(list)
  BY <1>1
<1> QED BY <1>2, <1>3, <1>6, <1>7 DEF list

\* An append that adds the last blocking rule ahead of the reader completes
\* those: apply blocks IPv6 after IPv4.
LEMMA LastOneBlocks ==
  ASSUME WriterOK, ApplyInstalls, AppendRule,
         NEW c \in Config, NEW left \in Seq(Rule), LeftOf(Ruleset(c), left),
         Current \in ToSet(left) \intersect Blocking(c),
         ToSet(left) \intersect Blocking(c) \subseteq Installed'
  PROVE  Blocking(c) \subseteq Installed'
<1> DEFINE list == Ruleset(c)
<1>0. list \in Seq(Rule)
  BY Lists
<1>1. list \in Seq(Rule) /\ Len(list) \in Nat
  BY <1>0
<1>2. PICK k \in 1..Len(list) :
        list[k] = Current /\ \A i \in k..Len(list) : list[i] \in ToSet(left)
  BY <1>1, LeftWithRest
<1>3. w.cfg \in Config /\ Installed' = Installed \union {Current}
  BY AppendPlace
<1>4. PICK j \in 1..Len(Ruleset(w.cfg)) :
        /\ Current = Ruleset(w.cfg)[j]
        /\ \A i \in 1..(j - 1) : Ruleset(w.cfg)[i] \in Installed
  BY AppendPlace
<1>5. k = j /\ c.uid = w.cfg.uid
  BY <1>2, <1>3, <1>4, SamePlace
<1>6. Blocking(c) = {list[i] : i \in {7, 9} \intersect 1..Len(list)}
  BY VerdictIs
<1>7. SUFFICES ASSUME NEW i \in {7, 9} \intersect 1..Len(list) PROVE list[i] \in Installed'
  BY <1>6
<1>8. CASE i \in k..Len(list)
  <2>1. list[i] \in ToSet(left) \intersect Blocking(c)
    BY <1>2, <1>6, <1>8
  <2> QED BY <2>1
<1>9. CASE i < k
  <2>1. PICK b \in {7, 9} \intersect 1..Len(list) : list[b] = Current
    BY <1>6
  <2>2. b = k
    BY <1>2, <2>1, SamePlace
  <2>3. i = 7 /\ k = 9 /\ 7 \in 1..(j - 1)
    BY <1>5, <1>9, <2>2
  <2>4. list[7] = Last(V4Rules(c)) /\ Ruleset(w.cfg)[7] = Last(V4Rules(w.cfg))
    BY <1>3, RulesetPlaces
  <2>5. Last(V4Rules(c)) = Last(V4Rules(w.cfg))
    <3>1. Len(V4Rules(c)) = 7 /\ V4Rules(c)[7] = RuleOf("filter", "any", c.uid, 0, "DROP")
      BY V4Index
    <3>2. /\ Len(V4Rules(w.cfg)) = 7
          /\ V4Rules(w.cfg)[7] = RuleOf("filter", "any", w.cfg.uid, 0, "DROP")
      BY V4Index
    <3> QED BY <1>5, <3>1, <3>2 DEF Last
  <2> QED BY <1>3, <1>4, <2>3, <2>4, <2>5
<1> QED BY <1>1, <1>8, <1>9

\* What the reader keeps while the writer steps.
LEMMA ReadObserves ==
  ASSUME TypeOK, WriterOK, ApplyInstalls, ReadInOrder, Writer, Observed
  PROVE  ReadInOrder'
<1>1. CASE rd.at # "reading"
  <2>1. rd.at = "idle"
    BY <1>1 DEF TypeOK, Reading
  <2>2. rd' = rd
    BY <2>1 DEF Observed
  <2> QED BY <1>1, <2>2 DEF ReadInOrder
<1>2. CASE rd.at = "reading"
  <2> DEFINE c == rd.cfg
             left == rd.left
             list == Ruleset(c)
  <2>1. c \in Config /\ left \in Seq(Rule)
    BY DEF TypeOK, Reading
  <2>2. /\ rd'.at = rd.at /\ rd'.cfg = c /\ rd'.left = left /\ rd'.active = rd.active
        /\ rd'.killswitch = rd.killswitch
        /\ rd'.wasArmed = (rd.wasArmed \/ Armed(chain', c))
        /\ rd'.wasOn = (rd.wasOn \/ Blocked(chain', c))
    BY <1>2 DEF Observed, TypeOK, Reading
  <2>3. ToSet(left) \subseteq Rule
    BY <2>1 DEF ToSet
  <2>4. /\ \A r \in Rule : r \in Installed <=> Present(r)
        /\ \A r \in Rule : r \in Installed' <=> Present(r)'
    BY DEF Installed
  <2>5. \A r \in Rule : r \in Installed' <=> PresentIn(chain', r)
    BY DEF Installed, Present
  <2>6. Blocking(c) \subseteq Rule /\ ToSet(list) \subseteq Rule
        /\ ToSet(list) = {list[i] : i \in 1..Len(list)}
    BY <2>1, VerdictIs
  <2>7. (\A i \in 1..Len(list) : list[i] \in Installed') => Armed(chain', c)
    <3>1. Armed(chain', c) <=> \A i \in 1..Len(list) : PresentIn(chain', list[i])
      BY <2>1, VerdictIs
    <3> QED BY <3>1, <2>5, <2>6
  <2>8. Blocking(c) \subseteq Installed' => Blocked(chain', c)
    <3>1. Blocked(chain', c) <=> \A r \in Blocking(c) : PresentIn(chain', r)
      BY <2>1, VerdictIs
    <3> QED BY <3>1, <2>5, <2>6
  <2>9. /\ MissingAhead(Rule) <=> \E r \in ToSet(left) : r \notin Installed
        /\ MissingAhead(Rule)' <=> \E r \in ToSet(left) : r \notin Installed'
    BY <2>2, <2>3, <2>4 DEF MissingAhead
  <2>10. /\ MissingAhead(Blocking(c)) <=>
             \E r \in ToSet(left) \intersect Blocking(c) : r \notin Installed
         /\ MissingAhead(Blocking(rd.cfg))' <=>
             \E r \in ToSet(left) \intersect Blocking(c) : r \notin Installed'
    <3>1. Blocking(rd.cfg)' = Blocking(c)
      BY <2>2 DEF Blocking
    <3>2. MissingAhead(Blocking(rd.cfg))' <=>
             \E r \in ToSet(left) \intersect Blocking(rd.cfg)' : ~Present(r)'
      BY <2>2 DEF MissingAhead
    <3>3. MissingAhead(Blocking(c)) <=>
             \E r \in ToSet(left) \intersect Blocking(c) : ~Present(r)
      BY DEF MissingAhead
    <3> QED BY <2>3, <2>4, <3>1, <3>2, <3>3
  <2>11. /\ rd.active \/ rd.killswitch => LeftOf(list, left)
         /\ OneRuleset /\ rd.active /\ ~rd.wasArmed => MissingAhead(Rule)
         /\ rd.killswitch /\ ~rd.wasOn => MissingAhead(Blocking(c))
    BY <1>2 DEF ReadInOrder
  <2>12. Installed' \subseteq Installed \/ AppendRule
    BY InstalledSteps
  <2> HIDE DEF c, left, list
  <2>13. ASSUME OneRuleset, rd'.active, ~rd'.wasArmed PROVE MissingAhead(Rule)'
    <3>1. LeftOf(list, left) /\ MissingAhead(Rule)
      BY <2>2, <2>11, <2>13
    <3>2. PICK r \in ToSet(left) : r \notin Installed
      BY <3>1, <2>9
    <3>3. ASSUME r \in Installed', ToSet(left) \subseteq Installed' PROVE FALSE
      <4>1. AppendRule
        BY <3>2, <3>3, <2>12
      <4>2. r = Current
        BY <4>1, <3>2, <3>3, AppendPlace
      <4>3. \A i \in 1..Len(list) : list[i] \in Installed'
        BY <2>1, <2>13, <3>1, <3>2, <3>3, <4>1, <4>2, LastOneArms DEF list
      <4> QED BY <4>3, <2>2, <2>7, <2>13
    <3> QED BY <3>2, <3>3, <2>9
  <2>14. ASSUME rd'.killswitch, ~rd'.wasOn PROVE MissingAhead(Blocking(rd.cfg))'
    <3>1. LeftOf(list, left) /\ MissingAhead(Blocking(c))
      BY <2>2, <2>11, <2>14
    <3>2. PICK r \in ToSet(left) \intersect Blocking(c) : r \notin Installed
      BY <3>1, <2>10
    <3>3. ASSUME ToSet(left) \intersect Blocking(c) \subseteq Installed' PROVE FALSE
      <4>1. AppendRule
        BY <3>2, <3>3, <2>12
      <4>2. r = Current
        BY <4>1, <3>2, <3>3, AppendPlace
      <4>3. Blocking(c) \subseteq Installed'
        BY <2>1, <3>1, <3>2, <3>3, <4>1, <4>2, LastOneBlocks DEF list
      <4> QED BY <4>3, <2>2, <2>8, <2>14
    <3> QED BY <3>3, <2>10
  <2>15. rd'.active \/ rd'.killswitch => LeftOf(Ruleset(rd'.cfg), rd'.left)
    BY <2>2, <2>11 DEF list
  <2> QED BY <2>13, <2>14, <2>15 DEF ReadInOrder
<1> QED BY <1>1, <1>2

\* What a reading step keeps.
LEMMA ReadReads ==
  ASSUME TypeOK, ReadInOrder, Reader
  PROVE  ReadInOrder'
<1>1. UNCHANGED <<chain, ip6, w>>
  BY DEF Reader, ReadRule, ReadReports, ReadBegins
<1>2. \A r : Present(r)' = Present(r)
  BY <1>1 DEF Present
<1>3. ASSUME NEW c \in Config, ReadBegins(c) PROVE ReadInOrder'
  <2> DEFINE possible == c.ipv6_killswitch => ip6
             list == Ruleset(c)
  <2>1. /\ rd'.at = "reading" /\ rd'.cfg = c /\ rd'.left = Looked(c)
        /\ rd'.active = possible /\ rd'.killswitch = possible
        /\ rd'.wasArmed = Armed(chain, c) /\ rd'.wasOn = Blocked(chain, c)
    BY <1>3 DEF ReadBegins
  <2>2. possible => Looked(c) = list
    BY DEF Looked
  <2>3. list \in Seq(Rule)
    BY Lists
  <2>4. LeftOf(list, list)
    BY <2>3, StartAndEnd
  <2>5. ~Armed(chain, c) => \E r \in ToSet(list) : ~Present(r)
    BY DEF Armed, Present
  <2>6. ~Blocked(chain, c) => \E r \in ToSet(list) \intersect Blocking(c) : ~Present(r)
    BY VerdictIs DEF Present
  <2>7. ToSet(list) \subseteq Rule
    BY VerdictIs
  <2> HIDE DEF possible, list
  <2>8. rd'.active \/ rd'.killswitch => LeftOf(Ruleset(rd'.cfg), rd'.left)
    BY <2>1, <2>2, <2>4 DEF list
  <2>9. rd'.active /\ ~rd'.wasArmed => MissingAhead(Rule)'
    BY <2>1, <2>2, <2>5, <2>7, <1>2 DEF MissingAhead
  <2>10. rd'.killswitch /\ ~rd'.wasOn => MissingAhead(Blocking(rd.cfg))'
    <3>1. Blocking(rd.cfg)' = Blocking(c)
      BY <2>1 DEF Blocking
    <3> QED BY <3>1, <2>1, <2>2, <2>6, <1>2 DEF MissingAhead
  <2> QED BY <2>8, <2>9, <2>10 DEF ReadInOrder
<1>4. CASE ReadRule
  <2> DEFINE left == rd.left
             list == Ruleset(rd.cfg)
  <2>1. rd.at = "reading" /\ left # <<>> /\ left \in Seq(Rule) /\ rd.cfg \in Config
    BY <1>4 DEF ReadRule, TypeOK, Reading
  <2>2. PICK answer \in BOOLEAN :
          /\ Check(Head(left), answer)
          /\ rd' = [rd EXCEPT !.left = Tail(@),
                              !.active = @ /\ answer,
                              !.killswitch = @ /\ (Head(left) \in Blocking(rd.cfg) => answer)]
    BY <1>4 DEF ReadRule
  <2>3. /\ rd'.at = "reading" /\ rd'.cfg = rd.cfg /\ rd'.left = Tail(left)
        /\ rd'.active => rd.active /\ answer
        /\ rd'.killswitch => rd.killswitch /\ (Head(left) \in Blocking(rd.cfg) => answer)
        /\ rd'.wasArmed = rd.wasArmed /\ rd'.wasOn = rd.wasOn
    BY <2>1, <2>2 DEF TypeOK, Reading
  <2>4. answer => Present(Head(left))
    BY <2>2 DEF Check
  <2>5. ToSet(left) = {Head(left)} \union ToSet(Tail(left))
    BY <2>1, HeadTail
  <2>6. list \in Seq(Rule)
    BY <2>1, Lists
  <2>7. LeftOf(list, left) => LeftOf(list, Tail(left))
    BY <2>1, <2>6, OneFurther
  <2>8. /\ rd.active \/ rd.killswitch => LeftOf(list, left)
        /\ OneRuleset /\ rd.active /\ ~rd.wasArmed =>
             \E r \in ToSet(left) \intersect Rule : ~Present(r)
        /\ rd.killswitch /\ ~rd.wasOn =>
             \E r \in ToSet(left) \intersect Blocking(rd.cfg) : ~Present(r)
    BY <2>1 DEF ReadInOrder, MissingAhead
  <2>9. Blocking(rd.cfg)' = Blocking(rd.cfg)
    BY <2>3 DEF Blocking
  <2> HIDE DEF left, list
  <2>10. rd'.active \/ rd'.killswitch => LeftOf(Ruleset(rd'.cfg), rd'.left)
    BY <2>3, <2>7, <2>8 DEF list
  <2>11. OneRuleset /\ rd'.active /\ ~rd'.wasArmed => MissingAhead(Rule)'
    BY <2>3, <2>4, <2>5, <2>8, <1>2 DEF MissingAhead
  <2>12. rd'.killswitch /\ ~rd'.wasOn => MissingAhead(Blocking(rd.cfg))'
    BY <2>3, <2>4, <2>5, <2>8, <2>9, <1>2 DEF MissingAhead
  <2> QED BY <2>10, <2>11, <2>12 DEF ReadInOrder
<1>5. CASE ReadReports
  BY <1>5 DEF ReadReports, NoRead, ReadInOrder
<1> QED BY <1>3, <1>4, <1>5 DEF Reader

\* ReadInOrder is an invariant: a verdict that was never true has a missing rule
\* ahead of the reader, whatever the writer does meanwhile.
THEOREM Reads == Spec => []ReadInOrder
<1>1. Init => ReadInOrder
  BY DEF Init, NoRead, ReadInOrder
<1>2. IInv /\ ReadInOrder /\ [Next]_vars => ReadInOrder'
  <2> SUFFICES ASSUME IInv, ReadInOrder, [Next]_vars PROVE ReadInOrder'
    OBVIOUS
  <2>1. TypeOK /\ WriterOK /\ ApplyInstalls
    BY DEF IInv, TypeOK, Typed, WriterOK
  <2>2. CASE Writer /\ Observed
    BY <2>1, <2>2, ReadObserves
  <2>3. CASE Reader
    BY <2>1, <2>3, ReadReads
  <2>4. CASE UNCHANGED vars
    BY <2>4 DEF vars, ReadInOrder, MissingAhead, Present, Blocking
  <2> QED BY <2>2, <2>3, <2>4 DEF Next
<1> QED BY <1>1, <1>2, Invariant, PTL DEF Spec

\* A status that races a connect or a disconnect never reports a state the
\* host was not in, if the ports of a user do not change meanwhile.
THEOREM StatusTrue ==
  ASSUME OneRuleset
  PROVE  Spec => []StatusTruthful
<1>1. ReadInOrder => StatusTruthful
  BY EmptySet DEF ReadInOrder, StatusTruthful, MissingAhead
<1> QED BY <1>1, Reads, PTL

\* Its verdict on the killswitch is true even when they do.
THEOREM KillswitchTrue ==
  Spec => [](rd.at = "reading" /\ rd.left = <<>> /\ rd.killswitch => rd.wasOn)
<1>1. ReadInOrder => (rd.at = "reading" /\ rd.left = <<>> /\ rd.killswitch => rd.wasOn)
  BY EmptySet DEF ReadInOrder, MissingAhead
<1> QED BY <1>1, Reads, PTL

-----------------------------------------------------------------------------
(***************************************************************************)
(* LinuxFirewall implements the contract of Firewall, step by step: which  *)
(* step of the contract each iptables invocation is, or that the contract  *)
(* sees nothing of it.                                                     *)
(***************************************************************************)

\* One entry in a table of one.
LEMMA OneEntry ==
  ASSUME NEW x, NEW y
  PROVE  /\ [p \in {Daemon} |-> x][Daemon] = x
         /\ [[p \in {Daemon} |-> x] EXCEPT ![Daemon] = y] = [p \in {Daemon} |-> y]
OBVIOUS

\* What the contract sees of the writer.
Sees(op, todo, existed, added) ==
  [op |-> op, todo |-> todo, existed |-> existed, added |-> added]

\* The first look is the probe of the contract.
LEMMA MapLook ==
  ASSUME WriterOK, "check" \notin Faults, Exists
  PROVE  FW!Probe(Daemon)
<1>0. Current \in Rule
  BY Looks, HeadTail DEF WriterOK, Writing, Current
<1>1. /\ w.op = "apply" /\ w.at = "exists" /\ w.todo # <<>>
      /\ Current \in Installed <=> Present(Current)
  BY <1>0 DEF Exists, Installed
<1>2. AbstractCall = Sees("apply", w.todo, "unread", w.added)
  BY <1>1 DEF AbstractCall, AbstractTodo, Sees
<1>3. PICK answer \in BOOLEAN :
        /\ Check(Current, answer)
        /\ w' = [w EXCEPT !.existed = answer, !.at = "add",
                          !.hit = @ \union Misread(answer)]
  BY DEF Exists
<1>4. answer = Present(Current)
  BY <1>3 DEF Check, Fault
<1>5. /\ w'.op = "apply" /\ w'.at = "add" /\ w'.todo = w.todo /\ w'.added = w.added
      /\ w'.existed = answer
  BY <1>1, <1>3 DEF WriterOK, Writing
<1>6. AbstractCall' = Sees("apply", w.todo, IF Current \in Installed THEN "yes" ELSE "no", w.added)
  BY <1>1, <1>4, <1>5 DEF AbstractCall, AbstractTodo, Sees
<1>7. Installed' = Installed
  BY DEF Exists, Installed, Present
<1>8. /\ AbstractCall.op = "apply" /\ AbstractCall.todo = w.todo
      /\ AbstractCall.existed = "unread" 
      /\ AbstractCall' = [AbstractCall EXCEPT !.existed =
                            IF Current \in Installed THEN "yes" ELSE "no"]
  BY <1>2, <1>6 DEF Sees
<1> QED BY <1>1, <1>7, <1>8, OneEntry DEF FW!Probe, Current

\* The second look, or the append.
LEMMA MapAdd ==
  ASSUME WriterOK, "check" \notin Faults, AddFindsIt \/ AppendRule
  PROVE  FW!Ensure(Daemon)
<1>0. /\ Current \in Rule /\ w.todo \in Seq(Rule) /\ w.todo # <<>> /\ w.op = "apply"
      /\ w.at \in {"add", "append"}
  BY GoesOn, HeadTail DEF WriterOK, Writing, Current, AddFindsIt, AppendRule
<1>1. /\ w'.op = "apply" /\ w'.at = "exists" /\ w'.todo = Tail(w.todo) /\ w'.added = AddedNow
  BY GoesOn
<1>2. Installed' = Installed \union {Current}
  <2>1. CASE AddFindsIt
    <3>1. Current \in Installed /\ chain' = chain
      BY <1>0, <2>1 DEF AddFindsIt, Check, Fault, Installed
    <3> QED BY <3>1 DEF Installed, Present
  <2>2. CASE AppendRule
    BY <2>2, InstalledSteps DEF Writer, Step
  <2> QED BY <2>1, <2>2
<1> DEFINE existed == IF w.existed THEN "yes" ELSE "no"
<1>3. AbstractCall = Sees("apply", w.todo, existed, w.added)
  BY <1>0 DEF AbstractCall, AbstractTodo, Sees
<1>4. AbstractCall' = Sees("apply", Tail(w.todo), "unread", AddedNow)
  BY <1>1 DEF AbstractCall, AbstractTodo, Sees
<1>5. /\ existed # "unread"
      /\ AddedNow = IF existed = "no" THEN Append(w.added, Current) ELSE w.added
  BY DEF AddedNow
<1> HIDE DEF existed
<1>6. /\ AbstractCall.op = "apply" /\ AbstractCall.todo = w.todo
      /\ AbstractCall.existed = existed /\ AbstractCall.added = w.added
  BY <1>3 DEF Sees
<1>7. AbstractCall' = FW!Doing("apply", Tail(AbstractCall.todo),
                              IF AbstractCall.existed = "no"
                              THEN Append(AbstractCall.added, Head(AbstractCall.todo))
                              ELSE AbstractCall.added)
  BY <1>4, <1>5, <1>6 DEF Sees, FW!Doing, Current
<1> QED BY <1>2, <1>5, <1>6, <1>7, OneEntry DEF FW!Ensure, Current

\* A rule that cannot be added.
LEMMA MapFail ==
  ASSUME WriterOK, AppendRefused \/ Ip6Missing
  PROVE  FW!ApplyFails(Daemon)
<1>1. /\ w.op = "apply" /\ w'.op = "undo" /\ w'.at = "look" /\ w.todo # <<>>
      /\ w'.todo = Reverse(w.added) /\ w'.added = <<>> /\ chain' = chain
      /\ w.at # "again"
  BY Fails DEF WriterOK, InPlace
<1>2. AbstractCall' = FW!Doing("undo", Reverse(w.added), <<>>)
  BY <1>1 DEF AbstractCall, AbstractTodo, FW!Doing
<1>3. /\ AbstractCall.op = "apply" /\ AbstractCall.todo = w.todo
      /\ AbstractCall.added = w.added
  BY <1>1 DEF AbstractCall, AbstractTodo
<1>4. Installed' = Installed
  BY <1>1 DEF Installed, Present
<1>5. FW!Reverse(w.added) = Reverse(w.added)
  BY DEF FW!Reverse, Reverse
<1> QED BY <1>1, <1>2, <1>3, <1>4, <1>5, OneEntry DEF FW!ApplyFails, FW!Calling

\* A call ends.
LEMMA MapReturn ==
  ASSUME WriterOK, ApplyReturns \/ ListDone
  PROVE  FW!ApplyReturns(Daemon) \/ FW!ApplyRaises(Daemon) \/ FW!RemoveReturns(Daemon)
<1>1. /\ w.todo = <<>> /\ w'.op = "idle" /\ w'.at = "-" /\ w'.todo = <<>>
      /\ w'.added = <<>> /\ chain' = chain /\ w.at # "again"
      /\ w.op \in {"apply", "undo", "remove"}
  BY Returns DEF WriterOK, InPlace
<1>2. AbstractCall' = FW!NoCall
  BY <1>1 DEF AbstractCall, AbstractTodo, FW!NoCall, FW!Doing
<1>3. AbstractCall.op = w.op /\ AbstractCall.todo = <<>>
  BY <1>1 DEF AbstractCall, AbstractTodo
<1>4. Installed' = Installed
  BY <1>1 DEF Installed, Present
<1>5. FW!Returning(Daemon)
  BY <1>2, OneEntry DEF FW!Returning
<1> QED BY <1>1, <1>3, <1>4, <1>5, OneEntry
        DEF FW!ApplyReturns, FW!ApplyRaises, FW!RemoveReturns

\* A call begins.
LEMMA MapBegin ==
  ASSUME WriterOK, NEW c \in Config, ApplyRules(c) \/ RemoveRules(c)
  PROVE  FW!ApplyRules(Daemon, c) \/ FW!RemoveRules(Daemon, c)
<1>1. AbstractCall.op = "idle" /\ Installed' = Installed
  BY DEF ApplyRules, RemoveRules, AbstractCall, Installed, Present
<1>2. ASSUME ApplyRules(c) PROVE FW!ApplyRules(Daemon, c)
  <2>1. AbstractCall' = FW!Doing("apply", Ruleset(c), <<>>)
    BY <1>2, Begins DEF AbstractCall, AbstractTodo, FW!Doing
  <2> QED BY <1>1, <2>1, OneEntry DEF FW!ApplyRules, FW!Calling
<1>3. ASSUME RemoveRules(c) PROVE FW!RemoveRules(Daemon, c)
  <2>1. AbstractCall' = FW!Doing("remove", RemovalOf(c, ip6), <<>>)
    BY <1>3, Begins DEF AbstractCall, AbstractTodo, FW!Doing
  <2>2. RemovalOf(c, ip6) \in Removals(c)
    BY DEF Removals, WriterOK
  <2>3. FW!Calling(Daemon, "remove", RemovalOf(c, ip6))
    BY <2>1, OneEntry DEF FW!Calling
  <2> QED BY <1>1, <2>2, <2>3, OneEntry DEF FW!RemoveRules
<1> QED BY <1>2, <1>3

\* The daemon dies; the host reboots.
LEMMA MapGone ==
  ASSUME WriterOK, Die \/ Reboot
  PROVE  FW!Abandon(Daemon) \/ FW!Flush
<1>1. AbstractCall' = FW!NoCall
  BY Gone DEF AbstractCall, AbstractTodo, FW!NoCall, FW!Doing
<1>2. CASE Die
  <2>1. Installed' = Installed
    BY <1>2 DEF Die, Installed, Present
  <2> QED BY <1>1, <2>1, OneEntry DEF FW!Abandon, FW!Returning
<1>3. CASE Reboot
  <2>1. Installed' = {}
    BY <1>3, InstalledSteps DEF Writer
  <2> QED BY <1>1, <2>1 DEF FW!Flush
<1> QED BY <1>2, <1>3

\* One turn of the loop of _del: the last copy of a rule goes, or a copy that
\* is not the last, or the loop finds the rule gone, or gives it up.
LEMMA MapDelete ==
  ASSUME WriterOK, "check" \notin Faults, DelLooks \/ DelDeletes \/ DelRefused
  PROVE  FW!Delete(Daemon) \/ UNCHANGED FW!fwVars
<1>0. /\ Current \in Rule /\ w.todo # <<>> /\ w'.op = w.op /\ w.op \in {"undo", "remove"}
      /\ w.added = <<>> /\ w'.added = <<>>
      /\ w.at \in {"look", "delete", "again"} /\ w'.at \in {"look", "delete", "again"}
      /\ Typed(chain)
  BY Deletes, HeadTail, StepInPlace DEF WriterOK, Writing, Current, InPlace, Writer, Step
<1>1. /\ AbstractCall = Sees(w.op, AbstractTodo, "unread", <<>>)
      /\ AbstractCall' = Sees(w.op, AbstractTodo', "unread", <<>>)
  BY <1>0 DEF AbstractCall, Sees
<1>2. /\ AbstractCall.op = w.op /\ AbstractCall.todo = AbstractTodo
      /\ \A todo : [AbstractCall EXCEPT !.todo = todo] = Sees(w.op, todo, "unread", <<>>)
  BY <1>1 DEF Sees
<1>3. ASSUME AbstractTodo = w.todo, AbstractTodo' = Tail(w.todo),
             \/ Installed' = Installed \ {Current}
             \/ "delete" \in Faults /\ Installed' = Installed
      PROVE  FW!Delete(Daemon)
  <2>1. AbstractCall' = [AbstractCall EXCEPT !.todo = Tail(w.todo)]
    BY <1>1, <1>2, <1>3
  <2>2. AbstractCall.op \in {"undo", "remove"} /\ AbstractCall.todo = w.todo
    BY <1>0, <1>2, <1>3
  <2> QED BY <1>0, <1>3, <2>1, <2>2, OneEntry DEF FW!Delete, Current
<1>4. ASSUME AbstractTodo' = AbstractTodo, Installed' = Installed
      PROVE  UNCHANGED FW!fwVars
  BY <1>1, <1>4 DEF FW!fwVars
<1>5. CASE DelLooks
  <2>1. chain' = chain /\ Installed' = Installed
    BY <1>5, Deletes DEF Installed, Present
  <2>2. CASE Present(Current)
    <3>1. w'.at = "delete" /\ w'.todo = w.todo
      <4>1. PICK answer \in BOOLEAN :
              /\ Check(Current, answer)
              /\ w' = [w EXCEPT !.at = IF answer THEN "delete" ELSE "look",
                                !.todo = IF answer THEN @ ELSE Tail(@),
                                !.hit = @ \union Misread(answer)]
        BY <1>5 DEF DelLooks
      <4>2. answer = TRUE
        BY <4>1, <2>2 DEF Check, Fault
      <4> QED BY <4>1, <4>2 DEF WriterOK, Writing
    <3> QED BY <1>4, <2>1, <2>2, <3>1 DEF AbstractTodo
  <2>3. CASE ~Present(Current)
    <3>1. w'.at = "look" /\ w'.todo = Tail(w.todo) /\ w.at \in {"look", "again"}
      BY <1>5, <2>3, Deletes
    <3>2. Installed' = Installed \ {Current}
      BY <2>1, <2>3 DEF Installed
    <3> QED BY <1>3, <1>4, <2>1, <2>3, <3>1, <3>2 DEF AbstractTodo
  <2> QED BY <2>2, <2>3
<1>6. CASE DelDeletes
  <2>1. /\ w.at = "delete" /\ w'.at = "again" /\ w'.todo = w.todo
        /\ Installed' \subseteq Installed /\ Installed \ {Current} \subseteq Installed'
        /\ Present(Current)
    BY <1>6, Deletes, InstalledSteps DEF Writer, Step
  <2>2. Current' = Current /\ AbstractTodo = w.todo
    BY <2>1 DEF Current, AbstractTodo
  <2>3. Current \in Installed /\ (Current \in Installed' <=> Present(Current)')
    BY <1>0, <2>1, <2>2 DEF Installed
  <2>4. CASE Present(Current)'
    <3>1. AbstractTodo' = w.todo /\ Installed' = Installed
      BY <2>1, <2>3, <2>4 DEF AbstractTodo
    <3> QED BY <1>4, <2>2, <3>1
  <2>5. CASE ~Present(Current)'
    <3>1. AbstractTodo' = Tail(w.todo) /\ Installed' = Installed \ {Current}
      BY <2>1, <2>3, <2>5 DEF AbstractTodo
    <3> QED BY <1>3, <2>2, <3>1
  <2> QED BY <2>4, <2>5
<1>7. CASE DelRefused
  <2>1. /\ w.at = "delete" /\ w'.at = "look" /\ w'.todo = Tail(w.todo)
        /\ Installed' = Installed /\ "delete" \in Faults
    BY <1>7, Deletes DEF DelRefused, Fault, Installed, Present
  <2> QED BY <1>3, <2>1 DEF AbstractTodo
<1> QED BY <1>5, <1>6, <1>7

\* The contract sees nothing of the first half of an append, and nothing of a
\* request for the status.
LEMMA MapUnseen ==
  ASSUME WriterOK, AddMustAppend \/ UNCHANGED <<chain, w>>
  PROVE  UNCHANGED FW!fwVars
<1>1. chain' = chain
  BY DEF AddMustAppend
<1>2. Installed' = Installed
  BY <1>1 DEF Installed, Present
<1>3. CASE UNCHANGED w
  <2>1. AbstractCall' = AbstractCall
    BY <1>1, <1>3 DEF AbstractCall, AbstractTodo, Present, Current
  <2> QED BY <1>2, <2>1 DEF FW!fwVars
<1>4. CASE AddMustAppend
  <2>1. /\ w.op = "apply" /\ w.at = "add" /\ w'.op = "apply" /\ w'.at = "append"
        /\ w'.todo = w.todo /\ w'.added = w.added /\ w'.existed = w.existed
    BY <1>4 DEF AddMustAppend, WriterOK, Writing
  <2>2. AbstractCall' = AbstractCall
    BY <2>1 DEF AbstractCall, AbstractTodo
  <2> QED BY <1>2, <2>2 DEF FW!fwVars
<1> QED BY <1>3, <1>4

\* As long as no answer is false, every iptables invocation of the engine is a
\* step of the contract that the daemon relies on, or changes nothing that the
\* contract sees: the chains, the copies and the loop of _del are its own
\* affair.
THEOREM EngineImplementsFirewall ==
  ASSUME "check" \notin Faults
  PROVE  Spec => ImplementsFirewall
<1>1. ASSUME Init PROVE FW!FwInit
  <2>1. PICK c \in Config : w = NoWrite(c)
    BY <1>1 DEF Init
  <2>2. AbstractCall = FW!NoCall
    BY <2>1 DEF NoWrite, AbstractCall, AbstractTodo, FW!NoCall, FW!Doing
  <2>3. Installed = {}
    <3>1. ASSUME NEW r \in Rule PROVE r \notin ToSet(chain[r.table])
      <4>1. r.table \in Tables /\ r \notin Foreign
        BY Rules
      <4>2. chain[r.table] \in Seq(Foreign)
        BY <1>1, <4>1, LinuxFirewallAssumption DEF Init
      <4> QED BY <4>1, <4>2 DEF ToSet
    <3> QED BY <3>1 DEF Installed, Present, PresentIn
  <2> QED BY <2>2, <2>3 DEF FW!FwInit
<1>2. ASSUME IInv, [Next]_vars PROVE [FW!FwNext]_(FW!fwVars)
  <2>1. WriterOK
    BY <1>2 DEF IInv, TypeOK, Typed, WriterOK
  <2>2. CASE Exists
    BY <2>1, <2>2, MapLook DEF FW!FwNext, FW!Inside
  <2>3. CASE AddFindsIt \/ AppendRule
    BY <2>1, <2>3, MapAdd DEF FW!FwNext, FW!Inside
  <2>4. CASE AppendRefused \/ Ip6Missing
    BY <2>1, <2>4, MapFail DEF FW!FwNext, FW!Inside
  <2>5. CASE ApplyReturns \/ ListDone
    BY <2>1, <2>5, MapReturn DEF FW!FwNext
  <2>6. CASE DelLooks \/ DelDeletes \/ DelRefused
    BY <2>1, <2>6, MapDelete DEF FW!FwNext, FW!Inside
  <2>7. CASE Die \/ Reboot
    BY <2>1, <2>7, MapGone DEF FW!FwNext
  <2>8. ASSUME NEW c \in Config, ApplyRules(c) \/ RemoveRules(c)
        PROVE  [FW!FwNext]_(FW!fwVars)
    BY <2>1, <2>8, MapBegin DEF FW!FwNext
  <2>9. CASE AddMustAppend \/ UNCHANGED <<chain, w>>
    BY <2>1, <2>9, MapUnseen
  <2>10. Reader \/ UNCHANGED vars => UNCHANGED <<chain, w>>
    BY DEF Reader, ReadRule, ReadReports, ReadBegins, vars
  <2> QED BY <1>2, <2>2, <2>3, <2>4, <2>5, <2>6, <2>7, <2>8, <2>9, <2>10
          DEF Next, Writer, Step
<1> QED BY <1>1, <1>2, Invariant, PTL DEF Spec, ImplementsFirewall, FW!FwSpec

=============================================================================
