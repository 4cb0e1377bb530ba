-------------------------- MODULE WindowsFirewall ---------------------------
(***************************************************************************)
(* WindowsFirewall of backend/torando_gui/winfw.py: the machine-wide       *)
(* killswitch of Windows.  apply captures the policy and the proxy of the  *)
(* user once, in a state file, allows Tor and loopback by name, blocks all *)
(* other outbound traffic profile by profile, and sets the system proxy;   *)
(* remove and _teardown undo that.  Every netsh command and every access   *)
(* to the registry is a step.                                              *)
(*                                                                         *)
(*  - Policy, rules and proxy outlive the process and a reboot.            *)
(*  - A policy is what the firewall does with inbound and outbound traffic:*)
(*    inbound is the user's "own" or the "block" the code falls back to.   *)
(*  - rules are named: netsh may add one twice and deletes all of a name,  *)
(*    so a set is enough.  Deleting a rule is not checked by the code and  *)
(*    assumed to work here.                                                *)
(***************************************************************************)
EXTENDS Calls

CONSTANT Profiles   \* PROFILES, in their order

VARIABLES
  policy,   \* the firewall policy of each profile
  rules,    \* our allow rules
  proxy,    \* the system proxy: the user's "own", "ours", or "off"
  kept,     \* the state file
  lost,     \* history: a teardown could not take back a block, or a remove
            \* found no state file and set the policy it falls back to
  unread    \* history: the proxy of the user could not be read when it was
            \* captured

winfw == <<policy, rules, proxy, kept, lost, unread>>

Profile == {Profiles[i] : i \in 1..Len(Profiles)}
Policy == [in : {"own", "block"}, out : {"allow", "block"}]

Users == [in |-> "own", out |-> "allow"]
Fallback == [in |-> "block", out |-> "allow"]   \* blockinbound,allowoutbound

UsersPolicy == [p \in Profile |-> Users]
NoPolicy == [p \in Profile |-> Fallback]

\* What remove and _teardown go by when there is no state file.
NoState == [is |-> "absent", policy |-> NoPolicy, proxy |-> "off"]
State(how, pol) == [is |-> how, policy |-> pol, proxy |-> proxy]

Whitelist(cfg) ==
  <<"tor", "loopback4", "loopback6">>
    \o (IF cfg.allow_dhcp THEN <<"dhcp">> ELSE <<>>)
    \o (IF cfg.allow_lan THEN <<"lan">> ELSE <<>>)
Needed == {"tor", "loopback4", "loopback6"}
Rule == Needed \union {"dhcp", "lan"}

\* What "netsh show allprofiles" tells: {} when it fails, and the state then
\* has no policy to go back to.
Readings ==
  {State("policy", policy)} \union
    (IF "show" \in Faults THEN {State("no_policy", NoPolicy)} ELSE {})

Sets(p, pol) == policy' = [policy EXCEPT ![p] = pol]
Blocking(pol) == [pol EXCEPT !.out = "block"]

\* What goes to the state file; a proxy that cannot be read (_capture_proxy) is
\* put down as disabled.
Captures(seen) ==
  \/ Fine /\ kept' = seen /\ UNCHANGED unread
  \/ Fault("read") /\ kept' = [seen EXCEPT !.proxy = "off"] /\ unread' = TRUE

\* The proxy of the user, as far as it could be read.
UsersProxy(pr) == pr = "own" \/ (unread /\ pr = "off")

\* Only a state file that holds a policy is kept.
Captured == kept.is = "policy"

-----------------------------------------------------------------------------
(* apply *)

Apply(cfg) ==
  /\ Free
  /\ \/ Fine /\ Goto("capture", Whitelist(cfg))
     \/ Fault("tor") /\ Returns("raised")    \* _tor_path finds no Tor
  /\ UNCHANGED winfw

\* Mutant: every apply captures, a running session included.
CaptureAgain ==
  /\ pc = "capture"
  /\ \/ Goto("allow", todo) /\ \E seen \in Readings : Captures(seen)
     \/ Fault("full") /\ Returns("raised") /\ UNCHANGED <<kept, unread>>
  /\ UNCHANGED <<policy, rules, proxy, lost>>

Capture ==
  /\ pc = "capture"
  /\ \/ Captured /\ Fine /\ Goto("allow", todo) /\ UNCHANGED <<kept, unread>>
     \/ ~Captured /\ Goto("allow", todo) /\ \E seen \in Readings : Captures(seen)
     \/ ~Captured /\ Fault("full") /\ Returns("raised") /\ UNCHANGED <<kept, unread>>
  /\ UNCHANGED <<policy, rules, proxy, lost>>

\* Mutant: a refused rule is passed over.
AllowAnyway ==
  /\ pc = "allow"
  /\ Advance("block", Profiles)
  /\ \/ Fine /\ rules' = rules \union {Head(todo)}
     \/ Fault("netsh") /\ UNCHANGED rules
  /\ UNCHANGED <<policy, proxy, kept, lost, unread>>

Allow ==
  /\ pc = "allow"
  /\ \/ Fine /\ rules' = rules \union {Head(todo)} /\ Advance("block", Profiles)
     \/ Fault("netsh") /\ Goto("undo", Profiles) /\ UNCHANGED rules
  /\ UNCHANGED <<policy, proxy, kept, lost, unread>>

Block ==
  /\ pc = "block"
  /\ \/ /\ Fine
        /\ Sets(Head(todo), Blocking(kept.policy[Head(todo)]))
        /\ Advance("proxy", <<>>)
     \/ Fault("netsh") /\ Goto("undo", Profiles) /\ UNCHANGED policy
  /\ UNCHANGED <<rules, proxy, kept, lost, unread>>

\* Nothing is taken back when the settings of the user cannot be opened.
SetProxy ==
  /\ pc = "proxy"
  /\ \/ Fine /\ proxy' = "ours" /\ Returns("ok")
     \/ Fault("key") /\ Returns("raised") /\ UNCHANGED proxy
  /\ UNCHANGED <<policy, rules, kept, lost, unread>>

-----------------------------------------------------------------------------
(* _teardown, which no refusal stops *)

\* Mutant: the policies are left to the next disconnect.
UndoNothing ==
  /\ pc = "undo"
  /\ Fine /\ Goto("undo_rules", <<>>)
  /\ UNCHANGED winfw

UndoPolicy ==
  /\ pc = "undo"
  /\ \/ Fine /\ Sets(Head(todo), kept.policy[Head(todo)]) /\ UNCHANGED lost
     \/ /\ Fault("netsh")
        /\ lost' = (lost \/ policy[Head(todo)].out = "block")
        /\ UNCHANGED policy
  /\ Advance("undo_rules", <<>>)
  /\ UNCHANGED <<rules, proxy, kept, unread>>

UndoRules ==
  /\ pc = "undo_rules"
  /\ Fine /\ rules' = {} /\ Goto("undo_proxy", <<>>)
  /\ UNCHANGED <<policy, proxy, kept, lost, unread>>

UndoProxy ==
  /\ pc = "undo_proxy"
  /\ \/ Fine /\ proxy' = kept.proxy /\ Goto("undo_state", <<>>)
     \/ Fault("key") /\ Returns("raised") /\ UNCHANGED proxy
  /\ UNCHANGED <<policy, rules, kept, lost, unread>>

UndoState ==
  /\ pc = "undo_state"
  /\ \/ Fine /\ kept' = NoState
     \/ Fault("unlink") /\ UNCHANGED kept
  /\ Returns("raised")
  /\ UNCHANGED <<policy, rules, proxy, lost, unread>>

-----------------------------------------------------------------------------
(* remove *)

Remove ==
  /\ Free
  /\ Fine /\ Goto("restore", Profiles)
  /\ lost' = (lost \/ kept.is = "absent")
  /\ UNCHANGED <<policy, rules, proxy, kept, unread>>

\* Mutant: a profile that could not be restored is not remembered.
RestoreUnchecked ==
  /\ pc = "restore"
  /\ \/ Fine /\ Sets(Head(todo), kept.policy[Head(todo)])
     \/ Fault("netsh") /\ UNCHANGED policy
  /\ Advance("restore_proxy", <<>>)
  /\ UNCHANGED <<rules, proxy, kept, lost, unread>>

RestorePolicy ==
  /\ pc = "restore"
  /\ \/ Fine /\ Sets(Head(todo), kept.policy[Head(todo)]) /\ UNCHANGED failed
     \/ Fault("netsh") /\ failed' = TRUE /\ UNCHANGED policy
  /\ Turn("restore_proxy", <<>>)
  /\ UNCHANGED <<result, rules, proxy, kept, lost, unread>>

\* Only now is a profile that is still blocked reported, with our rules and
\* the state left for another try.
RestoreProxy ==
  /\ pc = "restore_proxy"
  /\ \/ /\ Fine /\ proxy' = kept.proxy
        /\ IF failed THEN Returns("raised") ELSE Goto("delete", <<>>)
     \/ Fault("key") /\ Returns("raised") /\ UNCHANGED proxy
  /\ UNCHANGED <<policy, rules, kept, lost, unread>>

DeleteRules ==
  /\ pc = "delete"
  /\ Fine /\ rules' = {} /\ Goto("forget", <<>>)
  /\ UNCHANGED <<policy, proxy, kept, lost, unread>>

Forget ==
  /\ pc = "forget"
  /\ \/ Fine /\ kept' = NoState
     \/ Fault("unlink") /\ UNCHANGED kept
  /\ Returns("ok")
  /\ UNCHANGED <<policy, rules, proxy, lost, unread>>

-----------------------------------------------------------------------------

\* Outbound is blocked on this profile, on all of them, and that together
\* with the proxy.
Blocked(p) == policy[p].out = "block"
Killswitch == \A p \in Profile : Blocked(p)
Active == Killswitch /\ proxy = "ours"

Step ==
  \/ Capture \/ Allow \/ Block \/ SetProxy
  \/ UndoPolicy \/ UndoRules \/ UndoProxy \/ UndoState
  \/ RestorePolicy \/ RestoreProxy \/ DeleteRules \/ Forget

WinfwInit ==
  /\ policy = UsersPolicy
  /\ rules = {}
  /\ proxy = "own"
  /\ kept = NoState
  /\ lost = FALSE /\ unread = FALSE

WinfwTypeOK ==
  /\ policy \in [Profile -> Policy]
  /\ rules \subseteq Rule
  /\ proxy \in {"own", "ours", "off"}
  /\ kept \in [is : {"absent", "no_policy", "policy"},
               policy : [Profile -> Policy], proxy : {"own", "ours", "off"}]
  /\ lost \in BOOLEAN /\ unread \in BOOLEAN

=============================================================================
