------------------------------ MODULE Firewall ------------------------------
(***************************************************************************)
(* What a firewall backend promises to the daemon (the Firewall protocol   *)
(* of backend/torando_gui/firewall.py), over the SET of rules installed in *)
(* the kernel.  apply() adds the rules of a configuration in order; when   *)
(* one of them cannot be added it takes back the rules this very call      *)
(* added, newest first, and raises.  remove() tries to delete every rule   *)
(* of a configuration and skips the ones that will not go.                 *)
(*                                                                         *)
(* The order of the rules in their chains, duplicates and the separate     *)
(* iptables invocations are in LinuxFirewall, which is checked to          *)
(* implement this module.  Daemon calls the actions of this module.        *)
(***************************************************************************)
EXTENDS Naturals, Sequences, SequencesExt

CONSTANTS
  Process,      \* who may call the firewall: handler threads, command lines
  Config,       \* the configurations a call may be made with
  Rule,         \* every rule some configuration builds
  Ruleset(_),   \* the rules of a configuration, in the order apply adds them
  Removals(_),  \* the rules remove may go through, in order: a set, since
                \* the IPv6 half is skipped when ip6tables is missing
  Faults        \* what may go wrong: "append", "delete"

VARIABLES
  installed,    \* the rules in the kernel
  call          \* what each process is doing inside the firewall

fwVars == <<installed, call>>

\* "existed" is the answer to the first look at the rule being added.
Calls == [op      : {"idle", "apply", "undo", "remove"},
          todo    : Seq(Rule),
          existed : {"unread", "yes", "no"},
          added   : Seq(Rule)]

Doing(op, todo, added) ==
  [op |-> op, todo |-> todo, existed |-> "unread", added |-> added]
NoCall == Doing("idle", <<>>, <<>>)

Calling(p, op, todo) == call' = [call EXCEPT ![p] = Doing(op, todo, <<>>)]

Returning(p) == call' = [call EXCEPT ![p] = NoCall]

FwTypeOK == installed \subseteq Rule /\ call \in [Process -> Calls]

FwInit == installed = {} /\ call = [p \in Process |-> NoCall]

-----------------------------------------------------------------------------
(* apply *)

ApplyRules(p, c) ==
  /\ call[p].op = "idle"
  /\ Calling(p, "apply", Ruleset(c))
  /\ UNCHANGED installed

\* existed = rule_exists(rule)
Probe(p) ==
  /\ call[p].op = "apply" /\ call[p].todo # <<>> /\ call[p].existed = "unread"
  /\ call' = [call EXCEPT ![p].existed =
                IF Head(call[p].todo) \in installed THEN "yes" ELSE "no"]
  /\ UNCHANGED installed

\* _add(rule), then remember it if it was not there before.
Ensure(p) ==
  /\ call[p].op = "apply" /\ call[p].existed # "unread"
  /\ installed' = installed \union {Head(call[p].todo)}
  /\ call' = [call EXCEPT ![p] =
                Doing("apply", Tail(@.todo),
                      IF @.existed = "no" THEN Append(@.added, Head(@.todo))
                                          ELSE @.added)]

\* Mutant: apply raises and leaves what it added.
ApplyFailsAsIs(p) ==
  /\ "append" \in Faults
  /\ call[p].op = "apply" /\ call[p].todo # <<>>
  /\ Calling(p, "undo", <<>>)
  /\ UNCHANGED installed

\* A rule cannot be added, or its tool is missing: start the rollback.
ApplyFails(p) ==
  /\ "append" \in Faults
  /\ call[p].op = "apply" /\ call[p].todo # <<>>
  /\ Calling(p, "undo", Reverse(call[p].added))
  /\ UNCHANGED installed

ApplyReturns(p) ==
  /\ call[p].op = "apply" /\ call[p].todo = <<>>
  /\ Returning(p)
  /\ UNCHANGED installed

ApplyRaises(p) ==
  /\ call[p].op = "undo" /\ call[p].todo = <<>>
  /\ Returning(p)
  /\ UNCHANGED installed

-----------------------------------------------------------------------------
(* remove, and the deletions of a rollback: a failure skips the one rule *)

RemoveRules(p, c) ==
  /\ call[p].op = "idle"
  /\ \E list \in Removals(c) : Calling(p, "remove", list)
  /\ UNCHANGED installed

Delete(p) ==
  /\ call[p].op \in {"undo", "remove"} /\ call[p].todo # <<>>
  /\ \/ installed' = installed \ {Head(call[p].todo)}
     \/ "delete" \in Faults /\ UNCHANGED installed
  /\ call' = [call EXCEPT ![p].todo = Tail(@)]

RemoveReturns(p) ==
  /\ call[p].op = "remove" /\ call[p].todo = <<>>
  /\ Returning(p)
  /\ UNCHANGED installed

-----------------------------------------------------------------------------

\* A step taken inside a call, which neither starts nor ends it.
Inside(p) == Probe(p) \/ Ensure(p) \/ ApplyFails(p) \/ Delete(p)

\* The calling process dies: the kernel keeps the rules it had added so far.
Abandon(p) == Returning(p) /\ UNCHANGED installed

\* The host reboots (or the chains are flushed): no rule survives.
Flush == installed' = {} /\ call' = [p \in Process |-> NoCall]

FwNext ==
  \/ Flush
  \/ \E p \in Process :
       \/ Inside(p) \/ ApplyReturns(p) \/ ApplyRaises(p) \/ RemoveReturns(p)
       \/ Abandon(p)
       \/ \E c \in Config : ApplyRules(p, c) \/ RemoveRules(p, c)

FwSpec == FwInit /\ [][FwNext]_fwVars

=============================================================================
