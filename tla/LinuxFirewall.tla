--------------------------- MODULE LinuxFirewall ----------------------------
(***************************************************************************)
(* The Linux firewall backend, one iptables invocation per step: Engine    *)
(* (backend/torando_gui/engine.py) and LinuxFirewall (firewall.py).        *)
(* The chains are sequences, so the order of the rules, duplicates and     *)
(* rules of other programs are all there.                                  *)
(*                                                                         *)
(*  - The writer is the operation the daemon runs while it holds its lock. *)
(*  - The reader is a GET /api/status, which takes no lock and sees the    *)
(*    chains one rule at a time while the writer changes them.             *)
(*  - The daemon may die between any two invocations; the chains stay.     *)
(*  - The kernel may refuse an append or a delete, and a check may fail    *)
(*    and be taken for "no such rule" (rule_exists looks only at whether   *)
(*    the exit status is zero).                                            *)
(***************************************************************************)
EXTENDS Netfilter, SequencesExt

CONSTANTS
  Config,     \* records [uid, trans, dns, ipv6_killswitch]
  Port,       \* the ports a packet may go to
  Foreign,    \* rules of other programs
  Others,     \* the chains as these programs set them up
  Faults,     \* what may go wrong: "append", "delete", "check", "die", "reboot"
  MaxFaults   \* bound: how many faults a behaviour holds in all

ASSUME LinuxFirewallAssumption ==
  /\ Config # {}
  /\ \A c \in Config : /\ DOMAIN c = {"uid", "trans", "dns", "ipv6_killswitch"}
                       /\ c.ipv6_killswitch \in BOOLEAN
                       /\ {c.trans, c.dns, 53} \subseteq Port
  /\ Faults \subseteq {"append", "delete", "check", "die", "reboot"}
  /\ MaxFaults \in Nat
  /\ Others \in [Tables -> Seq(Foreign)]
  /\ \A t \in Tables : \A i \in DOMAIN Others[t] : Others[t][i].table = t
  \* Other programs have no rule about the users routed through Tor.
  /\ \A r \in Foreign : \A c \in Config : r.uid # c.uid

VARIABLES
  chain,      \* the OUTPUT chain of each table
  ip6,        \* ip6tables is installed
  w,          \* the writer
  rd,         \* the reader
  faults,     \* how many faults have happened
  candid      \* history: no delete was refused and no answer false so far

vars == <<chain, ip6, w, rd, faults, candid>>

\* A fault of this kind happens in this step; no fault does.
Fault(kind) ==
  /\ kind \in Faults /\ faults < MaxFaults
  /\ faults' = faults + 1
  /\ candid' = (candid /\ kind \notin {"check", "delete"})
NoFault == UNCHANGED <<faults, candid>>

-----------------------------------------------------------------------------
(* The rules of a configuration *)

V4Rules(c) == BuildRules(c.uid, c.trans, c.dns)
V6Rules(c) == BuildV6Rules(c.uid)

\* LinuxFirewall.apply adds the IPv4 list, then the IPv6 one if required.
Ruleset(c) ==
  V4Rules(c) \o (IF c.ipv6_killswitch THEN V6Rules(c) ELSE <<>>)

\* Mutant: rules are removed in the order they were added.
RemovalInOrder(c, withV6) ==
  (IF withV6 THEN V6Rules(c) ELSE <<>>) \o V4Rules(c)

\* LinuxFirewall.remove takes the IPv6 rules first, whatever the toggle says,
\* and skips them when ip6tables is missing.
RemovalOf(c, withV6) ==
  (IF withV6 THEN Reverse(V6Rules(c)) ELSE <<>>) \o Reverse(V4Rules(c))
Removals(c) == {RemovalOf(c, withV6) : withV6 \in BOOLEAN}

Rule == UNION {ToSet(V4Rules(c) \o V6Rules(c)) : c \in Config}

PresentIn(ch, r) == r \in ToSet(ch[r.table])
Present(r) == PresentIn(chain, r)
Installed == {r \in Rule : Present(r)}

-----------------------------------------------------------------------------
(* One iptables invocation *)

\* -C: the answer, or a failure that reads as "absent".
Check(r, answer) ==
  \/ answer = Present(r) /\ NoFault
  \/ ~answer /\ Present(r) /\ Fault("check")

\* Mutants: "-t" is lost, so that every append goes to the filter chain; "-F"
\* instead of "-D" empties the chain.
AppendedToFilter(r) == [chain EXCEPT !["filter"] = Append(@, r)]
Flushed(r) == [chain EXCEPT ![r.table] = <<>>]

\* -A and -D: what they leave in the chains when they work.
Appended(r) == [chain EXCEPT ![r.table] = Append(@, r)]
Deleted(r) ==
  [chain EXCEPT ![r.table] =
     RemoveAt(@, Min({i \in DOMAIN @ : @[i] = r}))]

-----------------------------------------------------------------------------
(* The writer *)

\* "before" and "hit" are history: the chains when the call began, and the
\* faults that hit it (a false answer, a refused delete).
Writing == [op      : {"idle", "apply", "undo", "remove"},
            at      : {"-", "exists", "add", "append", "look", "delete", "again"},
            cfg     : Config,
            todo    : Seq(Rule),
            existed : BOOLEAN,
            added   : Seq(Rule),
            result  : {"none", "armed", "raised", "removed"},
            before  : [Tables -> Seq(Rule \union Foreign)],
            hit     : SUBSET {"check", "delete"}]

NoWrite(c) == [op |-> "idle", at |-> "-", cfg |-> c, todo |-> <<>>,
               existed |-> FALSE, added |-> <<>>, result |-> "none",
               before |-> [t \in Tables |-> <<>>], hit |-> {}]

Current == Head(w.todo)
Misread(answer) == IF answer = Present(Current) THEN {} ELSE {"check"}

Begin(c, op, at, todo) ==
  w' = [NoWrite(c) EXCEPT !.op = op, !.at = at, !.todo = todo, !.before = chain]

End(result) == w' = [w EXCEPT !.op = "idle", !.at = "-", !.todo = <<>>,
                              !.existed = FALSE, !.added = <<>>,
                              !.result = result]

\* The next rule of the list, looked at before anything is done about it.
NextRule(added) ==
  w' = [w EXCEPT !.todo = Tail(@), !.at = "exists", !.added = added,
                 !.existed = FALSE]

\* Mutant: every rule is remembered, those found there included.
AddedAnyway == Append(w.added, Current)

AddedNow == IF w.existed THEN w.added ELSE Append(w.added, Current)

ApplyRules(c) ==
  /\ w.op = "idle"
  /\ Begin(c, "apply", "exists", Ruleset(c))
  /\ NoFault /\ UNCHANGED <<chain, ip6>>

\* _apply_v6 refuses before its first rule when ip6tables is missing.
NeedsMissingIp6 == ~ip6 /\ Current.table = "filter6"

\* apply_list: existed = self.rule_exists(rule)
Exists ==
  /\ w.op = "apply" /\ w.at = "exists" /\ w.todo # <<>> /\ ~NeedsMissingIp6
  /\ \E answer \in BOOLEAN :
       /\ Check(Current, answer)
       /\ w' = [w EXCEPT !.existed = answer, !.at = "add",
                         !.hit = @ \union Misread(answer)]
  /\ UNCHANGED <<chain, ip6>>

\* _add looks again, and leaves a rule alone that is there.
AddFindsIt ==
  /\ w.op = "apply" /\ w.at = "add"
  /\ Check(Current, TRUE)
  /\ NextRule(AddedNow)
  /\ UNCHANGED <<chain, ip6>>

AddMustAppend ==
  /\ w.op = "apply" /\ w.at = "add"
  /\ Check(Current, FALSE)
  /\ w' = [w EXCEPT !.at = "append", !.hit = @ \union Misread(FALSE)]
  /\ UNCHANGED <<chain, ip6>>

AppendRule ==
  /\ w.op = "apply" /\ w.at = "append"
  /\ chain' = Appended(Current)
  /\ NextRule(AddedNow)
  /\ NoFault /\ UNCHANGED ip6

\* Mutant: they are taken back oldest first.
RollbackInOrder ==
  w' = [w EXCEPT !.op = "undo", !.at = "look", !.todo = w.added,
                 !.added = <<>>, !.existed = FALSE]

\* The rules a failure takes back: what this call appended.  apply_list does
\* it for the family it was adding, LinuxFirewall.apply for IPv4 after a
\* failure of IPv6.
Rollback ==
  w' = [w EXCEPT !.op = "undo", !.at = "look", !.todo = Reverse(w.added),
                 !.added = <<>>, !.existed = FALSE]

\* Mutant: the exit status of the append is not looked at.
AppendRefusalIgnored ==
  /\ Fault("append")
  /\ w.op = "apply" /\ w.at = "append"
  /\ NextRule(AddedNow)
  /\ UNCHANGED <<chain, ip6>>

AppendRefused ==
  /\ Fault("append")
  /\ w.op = "apply" /\ w.at = "append"
  /\ Rollback
  /\ UNCHANGED <<chain, ip6>>

\* Mutant: a failure of IPv6 leaves IPv4 armed.
Ip6MissingLeavesV4 ==
  /\ w.op = "apply" /\ w.at = "exists" /\ w.todo # <<>> /\ NeedsMissingIp6
  /\ End("raised")
  /\ NoFault /\ UNCHANGED <<chain, ip6>>

Ip6Missing ==
  /\ w.op = "apply" /\ w.at = "exists" /\ w.todo # <<>> /\ NeedsMissingIp6
  /\ Rollback
  /\ NoFault /\ UNCHANGED <<chain, ip6>>

ApplyReturns ==
  /\ w.op = "apply" /\ w.at = "exists" /\ w.todo = <<>>
  /\ End("armed")
  /\ NoFault /\ UNCHANGED <<chain, ip6>>

RemoveRules(c) ==
  /\ w.op = "idle"
  /\ Begin(c, "remove", "look", RemovalOf(c, ip6))
  /\ NoFault /\ UNCHANGED <<chain, ip6>>

\* _del: while self.rule_exists(rule) ...
DelLooks ==
  /\ w.op \in {"undo", "remove"} /\ w.at \in {"look", "again"} /\ w.todo # <<>>
  /\ \E answer \in BOOLEAN :
       /\ Check(Current, answer)
       /\ w' = [w EXCEPT !.at = IF answer THEN "delete" ELSE "look",
                         !.todo = IF answer THEN @ ELSE Tail(@),
                         !.hit = @ \union Misread(answer)]
  /\ UNCHANGED <<chain, ip6>>

\* Mutants: "if" for "while" leaves further copies; a delete by rule number
\* that names no rule reports success and the loop goes on for ever.
DelDeletesOnce ==
  /\ w.op \in {"undo", "remove"} /\ w.at = "delete"
  /\ chain' = Deleted(Current)
  /\ w' = [w EXCEPT !.at = "look", !.todo = Tail(@)]
  /\ NoFault /\ UNCHANGED ip6
DelDeletesNothing ==
  /\ w.op \in {"undo", "remove"} /\ w.at = "delete"
  /\ w' = [w EXCEPT !.at = "again"]
  /\ NoFault /\ UNCHANGED <<chain, ip6>>

\* ... delete one copy, and look again.
DelDeletes ==
  /\ w.op \in {"undo", "remove"} /\ w.at = "delete"
  /\ chain' = Deleted(Current)
  /\ w' = [w EXCEPT !.at = "again"]
  /\ NoFault /\ UNCHANGED ip6

\* A refused delete raises out of _del; every caller suppresses it and goes
\* on with the next rule.
DelRefused ==
  /\ Fault("delete")
  /\ w.op \in {"undo", "remove"} /\ w.at = "delete"
  /\ w' = [w EXCEPT !.at = "look", !.todo = Tail(@),
                     !.hit = @ \union {"delete"}]
  /\ UNCHANGED <<chain, ip6>>

ListDone ==
  /\ w.op \in {"undo", "remove"} /\ w.at = "look" /\ w.todo = <<>>
  /\ End(IF w.op = "undo" THEN "raised" ELSE "removed")
  /\ NoFault /\ UNCHANGED <<chain, ip6>>

\* The daemon is killed between two invocations and started again.
Die ==
  /\ Fault("die")
  /\ w.op # "idle"
  /\ w' = NoWrite(w.cfg)
  /\ UNCHANGED <<chain, ip6>>

\* The host reboots: iptables rules are not persistent, those of the other
\* programs are put back by their owners.
Reboot ==
  /\ Fault("reboot")
  /\ w' = NoWrite(w.cfg)
  /\ chain' = Others
  /\ UNCHANGED ip6

Step == \/ Exists \/ AddFindsIt \/ AddMustAppend \/ AppendRule \/ AppendRefused
        \/ Ip6Missing \/ ApplyReturns \/ DelLooks \/ DelDeletes \/ DelRefused
        \/ ListDone

Writer == Step \/ Die \/ Reboot \/ \E c \in Config : ApplyRules(c) \/ RemoveRules(c)

-----------------------------------------------------------------------------
(* The reader: LinuxFirewall.status, one -C per rule, IPv4 then IPv6 *)

\* The rules status() looks at: IPv6 only when required and possible.
Looked(c) == IF c.ipv6_killswitch /\ ~ip6 THEN V4Rules(c) ELSE Ruleset(c)

\* Mutant: the killswitch of IPv6 does not count.
BlockingV4(c) == {Last(V4Rules(c))}

\* The rules the "killswitch" verdict stands on: the DROP of every family.
Blocking(c) ==
  {Last(V4Rules(c))} \union (IF c.ipv6_killswitch THEN {Last(V6Rules(c))} ELSE {})

\* What the two verdicts say of the host, at one instant.
Armed(ch, c) == \A r \in ToSet(Ruleset(c)) : PresentIn(ch, r)
Blocked(ch, c) ==
  /\ PresentIn(ch, Last(V4Rules(c)))
  /\ c.ipv6_killswitch => PresentIn(ch, Last(V6Rules(c)))

\* The verdicts so far, and the rules still to look at.  "wasArmed" and
\* "wasOn" are history: some instant of the call was so.
Reading == [at         : {"idle", "reading"},
            cfg        : Config,
            left       : Seq(Rule),
            active     : BOOLEAN,
            killswitch : BOOLEAN,
            wasArmed   : BOOLEAN,
            wasOn      : BOOLEAN]

NoRead(c) == [at |-> "idle", cfg |-> c, left |-> <<>>, active |-> FALSE,
              killswitch |-> FALSE, wasArmed |-> FALSE, wasOn |-> FALSE]

\* A family that is required and cannot be looked at is not safe.
ReadBegins(c) ==
  /\ rd.at = "idle"
  /\ LET possible == c.ipv6_killswitch => ip6
     IN  rd' = [at |-> "reading", cfg |-> c, left |-> Looked(c),
                active |-> possible, killswitch |-> possible,
                wasArmed |-> Armed(chain, c), wasOn |-> Blocked(chain, c)]
  /\ NoFault /\ UNCHANGED <<chain, ip6, w>>

ReadRule ==
  /\ rd.at = "reading" /\ rd.left # <<>>
  /\ \E answer \in BOOLEAN :
       /\ Check(Head(rd.left), answer)
       /\ rd' = [rd EXCEPT !.left = Tail(@),
                           !.active = @ /\ answer,
                           !.killswitch = @ /\ (Head(rd.left) \in Blocking(rd.cfg) => answer)]
  /\ UNCHANGED <<chain, ip6, w>>

ReadReports ==
  /\ rd.at = "reading" /\ rd.left = <<>>
  /\ rd' = NoRead(rd.cfg)
  /\ NoFault /\ UNCHANGED <<chain, ip6, w>>

Reader == ReadRule \/ ReadReports \/ \E c \in Config : ReadBegins(c)

\* The history variables of the reader follow every step of the writer.
Observed ==
  rd' = IF rd.at = "idle" THEN rd
        ELSE [rd EXCEPT !.wasArmed = @ \/ Armed(chain', rd.cfg),
                        !.wasOn = @ \/ Blocked(chain', rd.cfg)]

-----------------------------------------------------------------------------

Init ==
  /\ chain = Others
  /\ ip6 \in BOOLEAN
  /\ faults = 0 /\ candid = TRUE
  /\ \E c \in Config : w = NoWrite(c) /\ rd = NoRead(c)

Next == (Writer /\ Observed) \/ Reader

Spec == Init /\ [][Next]_vars

\* Without requests for the status.
WriterSpec == Init /\ [][Writer /\ Observed]_vars

\* A call of the daemon runs to its end unless the daemon dies.
FairWriterSpec == WriterSpec /\ WF_vars(Step /\ Observed)

-----------------------------------------------------------------------------
(* Properties *)

\* Every variable has its type; the chains hold known rules of their table.
TypeOK ==
  /\ chain \in [Tables -> Seq(Rule \union Foreign)]
  /\ \A t \in Tables : \A r \in ToSet(chain[t]) : r.table = t
  /\ ip6 \in BOOLEAN
  /\ w \in Writing
  /\ rd \in Reading
  /\ faults \in 0..MaxFaults /\ candid \in BOOLEAN

\* apply "arms the complete ruleset or raises and leaves nothing behind"
\* (firewall.py): when it raises, every chain is exactly what it was, order
\* and other programs' rules included, unless a delete of the rollback was
\* itself refused or an answer was false.
FailedApplyRestores ==
  w.result = "raised" /\ w.hit = {} => chain = w.before

\* apply_list returns the rules it appended "so a caller can roll back exactly
\* what it added and nothing it didn't": while apply runs, and while it rolls
\* back, no rule of an earlier session ever leaves the chains.
ApplyKeepsEarlierRules ==
  w.op \in {"apply", "undo"} /\ "check" \notin w.hit =>
    \A t \in Tables : ToSet(w.before[t]) \subseteq ToSet(chain[t])

\* The rule for the DNS "that is being torified (post-REDIRECT)" has no address
\* in it: it accepts every datagram to the number of a DNSPort the user has,
\* or had before a call that failed.
ToDnsPort(pkt) ==
  pkt.proto = "udp" /\ \E c \in Config : c.uid = pkt.uid /\ c.dns = pkt.dport

\* "It must never return having armed a killswitch that still leaks": from the
\* return of apply until the next call, whatever was left in the chains by
\* earlier failed calls, no packet of the user to any port leaves the host
\* other than through Tor, the datagrams of ToDnsPort excepted; and none at
\* all leaves it over IPv6.
ArmedFailsClosed ==
  w.result = "armed" =>
    \A pkt \in Outbound(w.cfg.uid, Port) :
      /\ Verdict(chain, pkt) = "leaked" => ToDnsPort(pkt)
      /\ w.cfg.ipv6_killswitch => Verdict6(chain, pkt) = "dropped"

\* "loopback ACCEPT must precede the DROP, else the UID can't reach
\* 127.0.0.1:8088 and the GUI loses its connection": at no instant of any
\* call, or after a crash in the middle of one, is the page out of reach.  A
\* refused delete of the DROP is the exception: the teardown goes on and takes
\* the loopback rule, as it does when a false answer hides the DROP from it.
GuiReachable ==
  candid => \A c \in Config : Verdict(chain, ToLoopback(c.uid)) = "local"

\* remove leaves none of the user's rules, duplicate copies included.
RemoveTakesEverything ==
  w.result = "removed" /\ w.hit = {} =>
    ToSet(V4Rules(w.cfg) \o V6Rules(w.cfg)) \intersect Installed = {}

\* A status that raced a connect or a disconnect never reports a state the
\* host was not in: "active" and "killswitch" were each true at some instant
\* between the request and the answer.
StatusTruthful ==
  rd.at = "reading" /\ rd.left = <<>> =>
    /\ rd.active => rd.wasArmed
    /\ rd.killswitch => rd.wasOn

\* No call touches the rules of other programs or their order: they are still
\* all there, at places f that ascend, and no other place holds one.
Ascending(f) == \A i, j \in DOMAIN f : i < j => f[i] < f[j]
Holds(s, others, f) ==
  /\ Ascending(f)
  /\ \A i \in DOMAIN others : s[f[i]] = others[i]
  /\ \A p \in DOMAIN s : s[p] \in Foreign => \E i \in DOMAIN others : f[i] = p
ForeignRulesUntouched ==
  \A t \in Tables :
    \E f \in [DOMAIN Others[t] -> DOMAIN chain[t]] : Holds(chain[t], Others[t], f)

\* Every call ends: the loop of _del, which deletes for as long as it finds
\* the rule, comes to an end with the second copies that false answers have
\* made apply add, with refused deletes and with more false answers.
CallsEnd == w.op # "idle" ~> w.op = "idle"

-----------------------------------------------------------------------------
(* LinuxFirewall implements the contract of Firewall *)

Daemon == "daemon"

\* A delete that took the last copy has finished with its rule, although the
\* loop of _del still looks once more.
AbstractTodo ==
  IF w.at = "again" /\ ~Present(Current) THEN Tail(w.todo) ELSE w.todo

AbstractCall ==
  [op      |-> w.op,
   todo    |-> AbstractTodo,
   existed |-> IF w.at \notin {"add", "append"} THEN "unread"
               ELSE IF w.existed THEN "yes" ELSE "no",
   added   |-> w.added]

\* A missing ip6tables makes apply raise even when no append is refused.
FW == INSTANCE Firewall WITH
        Process   <- {Daemon},
        Faults    <- Faults \union {"append"},
        installed <- Installed,
        call      <- [p \in {Daemon} |-> AbstractCall]

\* Every step of the engine is a step of the contract, or changes nothing the
\* contract sees.
ImplementsFirewall == FW!FwSpec

=============================================================================
