------------------------------- MODULE Daemon -------------------------------
(***************************************************************************)
(* The orchestration of the daemon: App in backend/torando_gui/app.py,     *)
(* driven by the handler threads of server.py, started and restarted by    *)
(* __main__.py, next to the one-shot commands --disconnect and             *)
(* --restore-dns that run in processes of their own.                       *)
(*                                                                         *)
(*  - connect, disconnect and update_config run while they                 *)
(*    hold _oplock; handler threads interleave between any two calls of    *)
(*    the backend.  new_identity and status change nothing of this state.  *)
(*  - The commands share nothing with the daemon but the host: the rules,  *)
(*    the resolver and the saved configuration.                            *)
(*  - The firewall is the contract of module Firewall, one rule at a time. *)
(*    The rules that route a user through Tor (six of IPv4) are one rule   *)
(*    here, and so is the IPv6 pair: what the daemon tells apart is        *)
(*    whether a user is routed, blocked, or neither.                       *)
(*  - The resolver is "real" (the user's own) or "pin" (127.0.0.1); the    *)
(*    files behind it are in ResolvConf.                                   *)
(*  - Tor listens or not and may change at any time; the daemon may be     *)
(*    killed and the host rebooted at any time.                            *)
(***************************************************************************)
EXTENDS Naturals, Sequences, SequencesExt

CONSTANTS
  Thread,      \* handler threads of the HTTP server
  Cli,         \* processes of the one-shot commands
  Config,      \* records [uid, ports, lock_resolv, ipv6_killswitch]
  NoUid,       \* target_uid is None: no user selected yet
  NoOne,       \* nobody holds _oplock
  FirstConfig, \* the configuration file when the daemon first starts
  ManageTorrc, \* whether connect writes torrc and reloads Tor
  Faults       \* what may go wrong: "append" and "delete" (see Firewall),
               \* "ip6" (ip6tables is gone when the rules are removed or
               \* looked at), "probe" (the daemon's look at its rules fails,
               \* which reads as "not routing"),
               \* "lock" (the pin cannot be written), "raise" (a DNS tool is
               \* missing), "note" (the resolver cannot be written back),
               \* "blind" (nor by the recovery at start),
               \* "save" (the configuration file cannot), "torrc" (nor can
               \* torrc), "lease" (the DHCP client replaces a pin that could
               \* not be made immutable), "crash" (the daemon is killed),
               \* "stop" (only while no thread is inside the firewall),
               \* "reboot"

ASSUME DaemonAssumption ==
  /\ Thread \intersect Cli = {}
  /\ NoOne \notin Thread
  /\ \A c \in Config : DOMAIN c = {"uid", "ports", "lock_resolv", "ipv6_killswitch"}
  /\ FirstConfig \in Config
  /\ ManageTorrc \in BOOLEAN

VARIABLES
  cfg,         \* self.cfg, the configuration the daemon runs with
  saved,       \* the configuration file
  dns,         \* what /etc/resolv.conf holds
  tor,         \* Tor's SocksPort accepts connections
  up,          \* the life of the daemon process
  oplock,      \* self._oplock
  pc,          \* where each process is
  using,       \* the local "cfg" of each process
  applied,     \* the local "rules_applied" of each process
  found,       \* history: the host as the call of each process found it
  installed,   \* the firewall rules in the kernel
  call         \* what each process does inside the firewall

own  == <<pc, using, applied, found>>
vars == <<cfg, saved, dns, tor, up, oplock, own, installed, call>>

Process == Thread \union Cli

-----------------------------------------------------------------------------
(* The rules of a configuration *)

Route(c) == [kind |-> "route", uid |-> c.uid, ports |-> c.ports]
Drop(c)  == [kind |-> "drop",  uid |-> c.uid]
Drop6(c) == [kind |-> "drop6", uid |-> c.uid]

RulesOf(c) == {Route(c), Drop(c), Drop6(c)}
Rule == UNION {RulesOf(c) : c \in Config}

\* build_rules then build_v6_rules, and the order in which remove goes.
Ruleset(c) ==
  IF c.ipv6_killswitch THEN <<Route(c), Drop(c), Drop6(c)>>
                       ELSE <<Route(c), Drop(c)>>
Removals(c) ==
  {<<Drop6(c), Drop(c), Route(c)>>} \union
    (IF "ip6" \in Faults THEN {<<Drop(c), Route(c)>>} ELSE {})

FW == INSTANCE Firewall

\* The "killswitch" of rules_status: the DROP of every family in use.
Killswitch(c) ==
  /\ c.uid # NoUid
  /\ Drop(c) \in installed
  /\ c.ipv6_killswitch => Drop6(c) \in installed

\* What the daemon is told of it: a check that fails reads as "no such rule"
\* and an exception as "not routing", and without ip6tables the DROP of IPv6
\* counts as missing.
Probes(c) ==
  {Killswitch(c)} \union
    (IF "probe" \in Faults \/ ("ip6" \in Faults /\ c.ipv6_killswitch)
       THEN {FALSE} ELSE {})

\* The user of c is routed through Tor and can reach nothing else over IPv4.
Armed(c) == Route(c) \in installed /\ Drop(c) \in installed

-----------------------------------------------------------------------------
(* Where a process can be *)

\* Inside connect, in program order; "unarm" to "failed" is its rollback.
Connecting == {"torrc", "probe", "arm", "pin", "unpin", "unarm", "failed"}
Disconnecting == {"restore", "remove"}

\* What is entered with _oplock held: "report" is the status() a write
\* operation returns, still under the lock.
Locked == Connecting \union Disconnecting \union {"save", "report"}
Places == Locked \union {"idle"}

Goto(p, place) == pc' = [pc EXCEPT ![p] = place]

\* The host as a call found it.
Host == [installed |-> installed, dns |-> dns]
NoHost == [installed |-> {}, dns |-> "real"]

\* Mutant: the operations run without _oplock.
MayEnterUnlocked(t) == up = "serving" /\ pc[t] = "idle"

\* A thread may enter an operation that takes the lock.
MayEnter(t) == up = "serving" /\ pc[t] = "idle" /\ oplock = NoOne

\* The locals of an operation: cfg = self.cfg, rules_applied = False.
Starts(p, c, place) ==
  /\ Goto(p, place)
  /\ using' = [using EXCEPT ![p] = c]
  /\ applied' = [applied EXCEPT ![p] = FALSE]
  /\ found' = [found EXCEPT ![p] = Host]

\* The operation answers: its locals are gone, the lock is released with its
\* "with" statement.
Answers(p) ==
  /\ pc' = [pc EXCEPT ![p] = "idle"]
  /\ using' = [using EXCEPT ![p] = FirstConfig]
  /\ applied' = [applied EXCEPT ![p] = FALSE]
  /\ found' = [found EXCEPT ![p] = NoHost]
  /\ oplock' = IF oplock = p THEN NoOne ELSE oplock

\* A step that goes on inside an operation.
Continues(p, place) == Goto(p, place) /\ UNCHANGED <<using, applied, found>>

\* Nothing of the daemon's own memory, of the file or of Tor changes.
Memory == <<cfg, saved, tor, up>>

-----------------------------------------------------------------------------
(* connect *)

\* Without a user, or without iptables, connect refuses before its "try".
Connect(t) ==
  /\ MayEnter(t)
  /\ cfg.uid # NoUid
  /\ oplock' = t
  /\ Starts(t, cfg, "torrc")
  /\ UNCHANGED <<Memory, dns, installed, call>>

\* 1) the managed block of torrc and a reload of Tor, which may bring Tor up
\* or down; a failed reload is only logged, a failed write is not.
TorrcStep(t) ==
  /\ pc[t] = "torrc"
  /\ \/ ~ManageTorrc /\ Continues(t, "probe") /\ UNCHANGED tor
     \/ ManageTorrc /\ Continues(t, "probe") /\ tor' \in BOOLEAN
     \/ ManageTorrc /\ "torrc" \in Faults /\ Continues(t, "unpin") /\ UNCHANGED tor
  /\ UNCHANGED <<cfg, saved, up, oplock, dns, installed, call>>

\* 1b) Tor must be listening before anything is armed.
ProbeTor(t) ==
  /\ pc[t] = "probe"
  /\ \/ tor /\ Continues(t, "arm") /\ FW!ApplyRules(t, using[t])
     \/ ~tor /\ Continues(t, "unpin") /\ UNCHANGED <<installed, call>>
  /\ UNCHANGED <<Memory, oplock, dns>>

\* 2) the firewall first; a step of the backend inside apply or remove.
FirewallStep(p) ==
  /\ FW!Inside(p)
  /\ UNCHANGED <<Memory, oplock, own, dns>>

\* rules_applied = True
ArmDone(t) ==
  /\ pc[t] = "arm"
  /\ FW!ApplyReturns(t)
  /\ Goto(t, IF using[t].lock_resolv THEN "pin" ELSE "report")
  /\ applied' = [applied EXCEPT ![t] = TRUE]
  /\ UNCHANGED <<Memory, oplock, using, found, dns>>

ArmFailed(t) ==
  /\ pc[t] = "arm"
  /\ FW!ApplyRaises(t)
  /\ Continues(t, "unpin")
  /\ UNCHANGED <<Memory, oplock, dns>>

\* 3) pin the resolver last; lock_resolv may fail to write, or raise before or
\* after its write.
Pin(t) ==
  /\ pc[t] = "pin"
  /\ \/ Continues(t, "report") /\ dns' = "pin"
     \/ "lock" \in Faults /\ Continues(t, "unpin") /\ UNCHANGED dns
     \/ "raise" \in Faults /\ Continues(t, "unpin") /\ dns' \in {dns, "pin"}
  /\ UNCHANGED <<Memory, oplock, installed, call>>

\* backend.unlock_resolv: it may return without having written the resolver
\* back (it then says why in a note), or raise.
Unlocks ==
  \/ dns' = "real"
  \/ "note" \in Faults /\ UNCHANGED dns
UnlockRaises == "raise" \in Faults /\ UNCHANGED dns

\* The rollback: one "suppress" around all of it, so that an exception of
\* unlock_resolv skips remove_rules.
RollbackDns(t) ==
  /\ pc[t] = "unpin"
  /\ \/ ~using[t].lock_resolv /\ Continues(t, "unarm") /\ UNCHANGED dns
     \/ using[t].lock_resolv /\ Continues(t, "unarm") /\ Unlocks
     \/ using[t].lock_resolv /\ Continues(t, "failed") /\ UnlockRaises
  /\ UNCHANGED <<Memory, oplock, installed, call>>

RollbackRules(t) ==
  /\ pc[t] = "unarm" /\ call[t].op = "idle"
  /\ \/ applied[t] /\ FW!RemoveRules(t, using[t]) /\ UNCHANGED own
     \/ ~applied[t] /\ Continues(t, "failed") /\ UNCHANGED <<installed, call>>
  /\ UNCHANGED <<Memory, oplock, dns>>

RollbackDone(t) ==
  /\ pc[t] = "unarm"
  /\ FW!RemoveReturns(t)
  /\ Continues(t, "failed")
  /\ UNCHANGED <<Memory, oplock, dns>>

\* Mutant: _oplock is acquired and released by hand, and an exception skips
\* the release.
ConnectRaisesLocked(t) ==
  /\ pc[t] = "failed"
  /\ Goto(t, "idle")
  /\ UNCHANGED <<Memory, oplock, using, applied, found, dns, installed, call>>

\* The exception that started the rollback is raised again.
ConnectRaises(t) ==
  /\ pc[t] = "failed"
  /\ Answers(t)
  /\ UNCHANGED <<Memory, dns, installed, call>>

\* Every write operation but new_identity answers with self.status(), still
\* holding the lock; a Tor that refuses control makes it raise.  Neither
\* changes anything.
Report(p) ==
  /\ pc[p] = "report"
  /\ Answers(p)
  /\ UNCHANGED <<Memory, dns, installed, call>>

-----------------------------------------------------------------------------
(* disconnect: of a thread, or of the command --disconnect *)

\* Mutant: the rules are removed before the resolver is restored.
DisconnectRulesFirst(t) ==
  /\ MayEnter(t)
  /\ oplock' = t
  /\ Starts(t, cfg, "remove")
  /\ UNCHANGED <<Memory, dns, installed, call>>

Disconnect(t) ==
  /\ MayEnter(t)
  /\ oplock' = t
  /\ Starts(t, cfg, "restore")
  /\ UNCHANGED <<Memory, dns, installed, call>>

\* The command builds an App of its own from the saved configuration: its
\* lock is not the daemon's.
CliDisconnect(p) ==
  /\ pc[p] = "idle"
  /\ Starts(p, saved, "restore")
  /\ UNCHANGED <<Memory, oplock, dns, installed, call>>

\* The resolver first, and unconditionally; an exception ends the operation.
RestoreDns(p) ==
  /\ pc[p] = "restore"
  /\ \/ Unlocks /\ UNCHANGED oplock
        /\ Continues(p, IF using[p].uid = NoUid THEN "report" ELSE "remove")
     \/ UnlockRaises /\ Answers(p)
  /\ UNCHANGED <<Memory, installed, call>>

Disarm(p) ==
  /\ pc[p] = "remove" /\ call[p].op = "idle"
  /\ FW!RemoveRules(p, using[p])
  /\ UNCHANGED <<Memory, oplock, own, dns>>

DisarmDone(p) ==
  /\ pc[p] = "remove"
  /\ FW!RemoveReturns(p)
  /\ Continues(p, "report")
  /\ UNCHANGED <<Memory, oplock, dns>>

\* --restore-dns: only the resolver.
CliRestoreDns(p) ==
  /\ pc[p] = "idle"
  /\ Unlocks
  /\ UNCHANGED <<Memory, oplock, own, installed, call>>

-----------------------------------------------------------------------------
(* update_config *)

\* Mutants: the ports, or the user, are not among _ROUTING_FIELDS.
SameUser(c, d) == c.uid = d.uid
SamePorts(c, d) == c.ports = d.ports

\* The fields that decide which rules are installed.
SameRouting(c, d) == c.uid = d.uid /\ c.ports = d.ports

\* Refused when the probe of the current configuration finds the killswitch
\* armed and a routing field would change; else the new configuration is in
\* force before it is saved.
UpdateConfig(t, new) ==
  /\ MayEnter(t)
  /\ \E routing \in Probes(cfg) : routing => SameRouting(new, cfg)
  /\ oplock' = t
  /\ cfg' = new
  /\ Starts(t, new, "save")
  /\ UNCHANGED <<saved, tor, up, dns, installed, call>>

Save(t) ==
  /\ pc[t] = "save"
  /\ \/ saved' = cfg /\ Continues(t, "report") /\ UNCHANGED oplock
     \/ "save" \in Faults /\ UNCHANGED saved /\ Answers(t)
  /\ UNCHANGED <<cfg, tor, up, dns, installed, call>>

-----------------------------------------------------------------------------
(* The life of the process, the host and Tor *)

\* Every handler thread is a daemon thread: it dies where it is.
Gone(dead) ==
  /\ pc' = [p \in Process |-> IF p \in dead THEN "idle" ELSE pc[p]]
  /\ using' = [p \in Process |-> IF p \in dead THEN FirstConfig ELSE using[p]]
  /\ applied' = [p \in Process |-> p \notin dead /\ applied[p]]
  /\ found' = [p \in Process |-> IF p \in dead THEN NoHost ELSE found[p]]

Crash ==
  /\ up # "down"
  /\ \/ "crash" \in Faults
     \/ "stop" \in Faults /\ \A t \in Thread : call[t].op = "idle"
  /\ up' = "down" /\ oplock' = NoOne
  /\ Gone(Thread)
  /\ call' = [p \in Process |-> IF p \in Thread THEN FW!NoCall ELSE call[p]]
  /\ UNCHANGED <<cfg, saved, tor, dns, installed>>

\* iptables rules are not persistent; the pinned resolver is.
Reboot ==
  /\ "reboot" \in Faults
  /\ up' = "down" /\ oplock' = NoOne
  /\ Gone(Process)
  /\ FW!Flush
  /\ UNCHANGED <<cfg, saved, tor, dns>>

Start ==
  /\ up = "down"
  /\ up' = "starting" /\ cfg' = saved
  /\ UNCHANGED <<saved, tor, oplock, own, dns, installed, call>>

\* Mutant: the daemon starts without recover_orphaned_dns.
RecoverNothing ==
  /\ up = "starting" /\ up' = "serving"
  /\ UNCHANGED <<cfg, saved, tor, oplock, own, dns, installed, call>>

\* recover_orphaned_dns, before the server accepts a request.  An exception
\* of its probe has the outcome of a resolver that cannot be written back.
RecoverChecks ==
  /\ up = "starting"
  /\ \E routing \in Probes(cfg) :
       up' = IF dns = "pin" /\ ~routing THEN "orphaned" ELSE "serving"
  /\ UNCHANGED <<cfg, saved, tor, oplock, own, dns, installed, call>>

\* Whether or not the resolver could be restored, the server starts.
RecoverRestores ==
  /\ up = "orphaned"
  /\ up' = "serving"
  /\ dns' = "real" \/ ("blind" \in Faults /\ UNCHANGED dns)
  /\ UNCHANGED <<cfg, saved, tor, oplock, own, installed, call>>

DhcpReplacesPin ==
  /\ "lease" \in Faults
  /\ dns' = "real"
  /\ UNCHANGED <<Memory, oplock, own, installed, call>>

TorChanges ==
  /\ tor' = ~tor
  /\ UNCHANGED <<cfg, saved, up, oplock, own, dns, installed, call>>

-----------------------------------------------------------------------------

Init ==
  /\ cfg = FirstConfig /\ saved = FirstConfig
  /\ dns = "real" /\ tor = TRUE /\ up = "serving" /\ oplock = NoOne
  /\ pc = [p \in Process |-> "idle"]
  /\ using = [p \in Process |-> FirstConfig]
  /\ applied = [p \in Process |-> FALSE]
  /\ found = [p \in Process |-> NoHost]
  /\ FW!FwInit

\* The next step of an operation that has begun.
ConnectStep(t) ==
  \/ TorrcStep(t) \/ ProbeTor(t) \/ ArmDone(t) \/ ArmFailed(t) \/ Pin(t)
  \/ RollbackDns(t) \/ RollbackRules(t) \/ RollbackDone(t) \/ ConnectRaises(t)
DisconnectStep(p) == RestoreDns(p) \/ Disarm(p) \/ DisarmDone(p)
Step(p) == ConnectStep(p) \/ DisconnectStep(p) \/ FirewallStep(p) \/ Report(p)
           \/ Save(p)

ThreadNext(t) ==
  \/ Connect(t) \/ Disconnect(t) \/ Step(t)
  \/ \E new \in Config : UpdateConfig(t, new)

CliNext(p) == CliDisconnect(p) \/ CliRestoreDns(p) \/ Step(p)

Life == Crash \/ Reboot \/ Start \/ RecoverChecks \/ RecoverRestores \/ TorChanges
        \/ DhcpReplacesPin

Next == \/ \E t \in Thread : ThreadNext(t)
        \/ \E p \in Cli : CliNext(p)
        \/ Life

Spec == Init /\ [][Next]_vars

\* The interpreter and the kernel keep running whoever can run.
FairSpec == /\ Spec
            /\ \A p \in Process : WF_vars(Step(p))
            /\ WF_vars(Start) /\ WF_vars(RecoverChecks) /\ WF_vars(RecoverRestores)

-----------------------------------------------------------------------------
(* Properties *)

\* Every variable has its type.
TypeOK ==
  /\ cfg \in Config /\ saved \in Config
  /\ dns \in {"real", "pin"} /\ tor \in BOOLEAN
  /\ up \in {"down", "starting", "orphaned", "serving"}
  /\ oplock \in Thread \union {NoOne}
  /\ pc \in [Process -> Places]
  /\ using \in [Process -> Config]
  /\ applied \in [Process -> BOOLEAN]
  /\ found \in [Process -> [installed : SUBSET Rule, dns : {"real", "pin"}]]
  /\ FW!FwTypeOK

SomeoneArmed == \E c \in Config : Armed(c)

\* connect pins the resolver after the firewall and disconnect restores it
\* before, "so by the time resolv.conf points at 127.0.0.1 the path to Tor's
\* DNSPort is already live": while the daemon serves, a pinned resolver has
\* armed rules behind it, whatever failed, died or rebooted before.
PinnedOnlyWhileArmed ==
  dns = "pin" /\ up = "serving" => SomeoneArmed

\* "Roll everything back so a failed connect leaves the host exactly as it
\* found it: rules removed, DNS restored": here of a connect that began on an
\* untouched host.
FailedFirstConnectLeavesNothing ==
  \A t \in Thread : pc[t] = "failed" /\ found[t] = NoHost => Host = NoHost

\* The routing fields are frozen while connected, else "the GUI would target
\* a different UID/ports and could never remove the old rules": no user but
\* the configured one is ever left blocked.  The freeze is as good as the
\* probe it rests on: a look at the rules that fails unfreezes the fields, and
\* the promise is of hosts where it does not fail.
NoStrandedUser ==
  \A r \in installed : r.kind \in {"drop", "drop6"} => r.uid = cfg.uid

\* More than that: no rule of another user or of other ports is left over
\* when the daemon does not die in the middle of an operation and its look at
\* the rules does not fail.
NoStaleRules == installed \subseteq RulesOf(cfg)

\* Whoever holds the lock gives it back: no failure of a backend call leaves
\* the daemon unable to disconnect.
LockComesFree == oplock # NoOne ~> oplock = NoOne

\* The daemon keeps the promise of Session.
S == INSTANCE Session WITH
       resolver <- dns, armed <- SomeoneArmed, serving <- (up = "serving")

\* Every step of a thread, of the firewall and of the host is a step of the
\* session or changes nothing of it: "Firewall FIRST", "Pin DNS LAST" and
\* "Restore DNS FIRST" hold at every step, with requests interleaving.
ImplementsSession == S!Spec

=============================================================================
