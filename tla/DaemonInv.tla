------------------------------ MODULE DaemonInv ------------------------------
(***************************************************************************)
(* The inductive invariant of Daemon, one named part per reason.  Frame    *)
(* holds of every daemon; the other parts hold of a daemon that is spared  *)
(* what each names: see the hypotheses before them.  Checked by TLC, and   *)
(* proved in Daemon_proofs.                                                *)
(***************************************************************************)
EXTENDS Daemon

-----------------------------------------------------------------------------
(* Who is where, and with what *)

\* The operations exclude each other: a thread inside one holds the lock.
LockIsHeld == \A t \in Thread : pc[t] \in Locked <=> oplock = t

\* A command does nothing but disconnect.
CommandsDisconnect == \A p \in Cli : pc[p] \in Disconnecting \union {"report", "idle"}

\* A process is inside the firewall only where its operation calls it, and
\* has looked at a rule only to add it.
CallsInPlace ==
  \A p \in Process :
    /\ \/ call[p] = FW!NoCall /\ pc[p] # "arm"
       \/ call[p].op \in {"apply", "undo"} /\ pc[p] = "arm"
       \/ call[p].op = "remove" /\ pc[p] = "remove"
       \/ call[p].op = "remove" /\ pc[p] = "unarm" /\ applied[p]
    /\ call[p].existed # "unread" => call[p].op = "apply" /\ call[p].todo # <<>>

\* apply and its rollback handle the rules of the configuration in use.
CallsOfConfig ==
  \A p \in Process : call[p].op \in {"apply", "undo"} =>
    ToSet(call[p].todo) \union ToSet(call[p].added) \subseteq ToSet(Ruleset(using[p]))

\* A thread works only while the daemon serves.
DeadIsIdle == up # "serving" => \A t \in Thread : pc[t] = "idle"

\* An operation runs with the configuration in force, and a connect with a
\* user; rules_applied is set by apply.
UsesConfig ==
  \A t \in Thread :
    /\ pc[t] \in Locked => using[t] = cfg
    /\ pc[t] \in Connecting => cfg.uid # NoUid
    /\ pc[t] \in {"torrc", "probe", "arm"} => ~applied[t]
    /\ pc[t] = "pin" => applied[t]

Frame ==
  /\ TypeOK /\ LockIsHeld /\ CommandsDisconnect /\ CallsInPlace /\ CallsOfConfig
  /\ DeadIsIdle /\ UsesConfig

-----------------------------------------------------------------------------
(* Why a pinned resolver has armed rules behind it *)

\* What apply has gone through is installed.
ApplyInstalls ==
  \A t \in Thread : call[t].op = "apply" =>
    ToSet(Ruleset(using[t])) \subseteq installed \union ToSet(call[t].todo)

\* The pin comes last: the rules of the session are in.
PinIsLast == \A t \in Thread : pc[t] = "pin" => Armed(using[t])

\* Rules are taken away only from a host whose resolver is the user's own:
\* the rollback of an armed connect has a pin to undo, and undoes it first.
UnpinIsFirst ==
  \A t \in Thread :
    /\ pc[t] \in {"pin", "unpin", "unarm"} /\ applied[t] => using[t].lock_resolv
    /\ pc[t] = "unarm" /\ applied[t] => dns = "real"
    /\ pc[t] = "remove" => dns = "real"

\* The rollback of a second connect does not take the rule r of the first:
\* apply found it there.
Spares(t, r) ==
  /\ r \notin ToSet(call[t].added)
  /\ call[t].op = "undo" => r \notin ToSet(call[t].todo)
  /\ call[t].existed = "no" => Head(call[t].todo) # r

\* The rules behind a pin are in nobody's way to remove; or a reboot took
\* them and the daemon does not serve yet.
PinIsGuarded ==
  dns = "pin" =>
    \/ \E c \in Config :
         Armed(c) /\ \A t \in Thread : Spares(t, Route(c)) /\ Spares(t, Drop(c))
    \/ "reboot" \in Faults /\ up # "serving" /\ installed = {}

\* A daemon on its own, whose resolver can be written back; a recovery that
\* cannot write it back after a reboot is a case of its own (it gives up, and
\* the daemon serves).
Alone ==
  /\ Cli = {}
  /\ "note" \notin Faults
  /\ ~({"blind", "reboot"} \subseteq Faults)

Guarded == ApplyInstalls /\ PinIsLast /\ UnpinIsFirst /\ PinIsGuarded

-----------------------------------------------------------------------------
(* Why a failed first connect leaves nothing *)

\* On a host without rules, apply has installed what it remembers to have
\* added, and its rollback has the rest before it.
OnlyAdded(t) ==
  /\ call[t].op = "apply" => installed \subseteq ToSet(call[t].added)
  /\ call[t].existed = "yes" => Head(call[t].todo) \in installed
  /\ call[t].op = "undo" => installed \subseteq ToSet(call[t].todo)

\* What a removal has not gone through is all there is.
OnlyBefore(t) == call[t].op = "remove" => installed \subseteq ToSet(call[t].todo)

\* A connect on an untouched host, from its first step to its last.
TracesOwnSteps(t) ==
  pc[t] \in Connecting /\ found[t] = NoHost =>
    /\ dns = "real"
    /\ pc[t] = "arm" => OnlyAdded(t)
    /\ pc[t] # "arm" /\ ~applied[t] => installed = {}
    /\ applied[t] => installed \subseteq ToSet(Ruleset(using[t]))
    /\ OnlyBefore(t)
    /\ pc[t] = "failed" => installed = {}

Traced == \A t \in Thread : TracesOwnSteps(t)

\* Every rule of a removal can be deleted, nobody else removes any, and a
\* call of the rollback that fails says so in a note, not by an exception.
Undoable == Cli = {} /\ Faults \intersect {"delete", "ip6", "raise"} = {}

-----------------------------------------------------------------------------
(* Why no rule of an earlier session is left *)

Mine == ToSet(Ruleset(cfg))

\* Between two calls of the firewall there are no rules, or those of the
\* configuration in force.
Whole == installed = {} \/ (cfg.uid # NoUid /\ installed = Mine)

\* A second connect finds every rule in, and its rollback has nothing to do.
Again(t) ==
  /\ installed = Mine
  /\ ToSet(call[t].added) = {} /\ call[t].existed # "no"
  /\ call[t].op = "undo" => ToSet(call[t].todo) = {}

\* A call on its way between the two.
Settles(t) ==
  call[t].op # "idle" =>
    /\ installed \subseteq Mine /\ OnlyBefore(t)
    /\ pc[t] = "arm" => OnlyAdded(t) \/ Again(t)
    /\ call[t].op = "apply" => Mine \subseteq installed \union ToSet(call[t].todo)

Settled ==
  /\ Whole \/ \E t \in Thread : call[t].op # "idle"
  /\ \A t \in Thread : Settles(t)

\* A restart comes back to the configuration of the rules in the kernel.
FileRoutes ==
  \/ SameRouting(saved, cfg)
  \/ installed = {} /\ (up = "down" \/ \E t \in Thread : pc[t] = "save")
  \/ "stop" \notin Faults /\ (up # "serving" => installed = {})

\* The IPv6 killswitch is never toggled, every rule can be deleted and looked
\* at, and the daemon is not killed inside the firewall; nor at all, with a
\* configuration it could not save.
Steady ==
  /\ Cli = {} /\ Faults \intersect {"delete", "ip6", "probe", "crash"} = {}
  /\ ~({"save", "stop"} \subseteq Faults)
  /\ \A c, d \in Config : c.ipv6_killswitch = d.ipv6_killswitch

-----------------------------------------------------------------------------
(* Why nobody but the configured user is blocked *)

NooneBlocked == \A r \in installed : r.kind = "route"

OnlyUserBlocked ==
  \A r \in installed : r.kind # "route" => r = Drop(cfg) /\ cfg.uid # NoUid

\* The daemon can be killed, and its rules outlive it.
Mortal == "crash" \in Faults \/ "stop" \in Faults

\* A restart comes back to the user the kernel may be blocking.
FileNamesUser ==
  \/ saved.uid = cfg.uid
  \/ NooneBlocked /\ (up = "down" \/ \E t \in Thread : pc[t] = "save")
  \/ ~Mortal /\ up = "serving"

Owned ==
  /\ OnlyUserBlocked /\ FileNamesUser
  /\ ~Mortal => (up # "serving" => installed = {})

\* The IPv6 killswitch stays off and the look at the rules does not fail; the
\* configuration is saved before the daemon can die and leave rules.
Recorded ==
  /\ "probe" \notin Faults
  /\ \A c \in Config : c.ipv6_killswitch = FALSE
  /\ ~("save" \in Faults /\ Mortal)

-----------------------------------------------------------------------------

IInv ==
  /\ Frame
  /\ Alone => Guarded
  /\ Undoable => Traced
  /\ Steady => Settled /\ FileRoutes
  /\ Recorded => Owned

=============================================================================
