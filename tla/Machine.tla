------------------------------- MODULE Machine -------------------------------
(***************************************************************************)
(* App on Windows and on macOS: connect, disconnect and the recovery at    *)
(* start (backend/torando_gui/app.py), over the firewall and the resolver  *)
(* that firewall.py and dns.py choose for the platform: WindowsFirewall    *)
(* with WindowsDns, or PfFirewall with MacDns.                             *)
(*                                                                         *)
(*  - _oplock admits one operation, so there is one call at a time;        *)
(*    handler threads are in Daemon.                                       *)
(*  - The daemon may be killed between any two commands and the machine    *)
(*    restarted; adapters come and go; other programs load pf.conf.        *)
(*  - The user does not change the firewall, the proxy or the resolver     *)
(*    himself: what he had at the start is what he wants back.             *)
(***************************************************************************)
EXTENDS Calls, SequencesExt

CONSTANTS
  Platform,   \* the platforms to consider
  Profiles,   \* see WindowsFirewall
  Adapters,   \* see AdapterDns
  UsersDns,
  Roaming,    \* the adapters that come and go
  Config      \* records [lock_resolv, allow_dhcp, allow_lan]

ASSUME MachineAssumption ==
  /\ Platform \subseteq {"windows", "macos"}
  /\ Profiles # <<>> /\ Profiles \in Seq({Profiles[i] : i \in 1..Len(Profiles)})
  /\ Adapters \in Seq(ToSet(Adapters)) /\ Roaming \subseteq ToSet(Adapters)
  /\ UsersDns \in [ToSet(Adapters) -> {"dhcp", "static"}]
  /\ Config \subseteq [lock_resolv : BOOLEAN, allow_dhcp : BOOLEAN, allow_lan : BOOLEAN]

VARIABLES
  os,          \* the platform
  user,        \* macOS: a target user is selected
  up,          \* the life of the daemon: "serving", "down" or "starting"
  call,        \* which backend call of which operation is running
  lock,        \* cfg.lock_resolv of the connect that runs
  applied,     \* its rules_applied
  restored,    \* disconnect: the resolver was given back
  found,       \* history: what the last connect or disconnect found
  last,        \* history: how it ended
  policy, rules, proxy, kept, lost, unread,              \* WindowsFirewall
  file, wired, enabled, anchor, referenced, socks,       \* PfFirewall
  present, resolver, saved, captured, missed             \* AdapterDns

W == INSTANCE WindowsFirewall
P == INSTANCE PfFirewall
D == INSTANCE AdapterDns

winfw == <<policy, rules, proxy, kept, lost, unread>>
pf    == <<file, wired, enabled, anchor, referenced, socks>>
dns   == <<present, resolver, saved, captured, missed>>

app  == <<call, lock, applied, restored>>
past == <<found, last>>
vars == <<os, user, up, app, past, frame, winfw, pf, dns>>

-----------------------------------------------------------------------------
(* The firewall of the platform *)

Arms(cfg) ==
  \/ os = "windows" /\ W!Apply(cfg) /\ UNCHANGED pf
  \/ os = "macos" /\ P!PfApply /\ UNCHANGED winfw

Disarms ==
  \/ os = "windows" /\ W!Remove /\ UNCHANGED pf
  \/ os = "macos" /\ P!PfRemove /\ UNCHANGED winfw

\* cfg.target_uid is not None or self.machine_wide: whom to route is known.
Targeted == os = "windows" \/ user

\* rules_status(cfg)["killswitch"]
Killswitch == IF os = "windows" THEN W!Killswitch ELSE P!Enforced

\* What a look at something that is so, or is not, may tell: where a command
\* fails or raises, the code goes on as if it were not.
Looks(is) == {is} \union (IF "probe" \in Faults THEN {FALSE} ELSE {})

\* The machine is as the user has set it up, but for what the record does not
\* speak for: a proxy and adapters that could not be read, late adapters.
DnsIsUsers ==
  \A a \in D!Adapter \ missed : resolver[a] = UsersDns[a]
FirewallIsUsers ==
  IF os = "windows"
  THEN policy = W!UsersPolicy /\ rules = {} /\ W!UsersProxy(proxy)
  ELSE ~P!Enforced

Finds ==
  found' = IF DnsIsUsers /\ FirewallIsUsers /\ kept = W!NoState THEN "untouched"
           ELSE IF os = "macos" \/ W!Captured THEN "session" ELSE "other"

Idle == up = "serving" /\ call = "none"

\* The operation answers.
Answers(how) ==
  /\ call' = "none" /\ lock' = FALSE /\ applied' = FALSE /\ restored' = FALSE
  /\ last' = how
  /\ Over
  /\ UNCHANGED <<found, faults, winfw, pf, dns>>

-----------------------------------------------------------------------------
(* connect *)

Connect(cfg) ==
  /\ Idle /\ Targeted
  /\ Arms(cfg)
  /\ call' = "arm" /\ lock' = cfg.lock_resolv /\ applied' = FALSE
  /\ Finds /\ last' = "none"
  /\ UNCHANGED <<os, user, up, restored, dns>>

\* What ran before the firewall failed, or Tor is not listening: the handler
\* un-pins although nothing was pinned by this connect.
ConnectTooEarly(cfg) ==
  /\ Idle /\ Targeted /\ cfg.lock_resolv
  /\ "tor" \in Faults
  /\ D!Restore
  /\ call' = "unpinning" /\ lock' = TRUE /\ applied' = FALSE
  /\ Finds /\ last' = "none"
  /\ UNCHANGED <<os, user, up, restored, winfw, pf>>

Armed ==
  /\ call = "arm" /\ pc = "returned" /\ result = "ok"
  /\ IF lock
     THEN /\ D!Lock /\ call' = "pin" /\ applied' = TRUE
          /\ UNCHANGED <<lock, restored, past, winfw, pf>>
     ELSE Answers("connected")
  /\ UNCHANGED <<os, user, up>>

\* The handler: unlock_resolv if the resolver is managed, then remove_rules
\* if the firewall had been applied.
ArmFails ==
  /\ call = "arm" /\ pc = "returned" /\ result = "raised"
  /\ IF lock
     THEN /\ D!Restore /\ call' = "unpinning"
          /\ UNCHANGED <<lock, applied, restored, past, winfw, pf>>
     ELSE Answers("failed")
  /\ UNCHANGED <<os, user, up>>

PinReturns ==
  /\ call = "pin" /\ pc = "returned"
  /\ IF result = "raised"
     THEN /\ D!Restore /\ call' = "unpinning"
          /\ UNCHANGED <<lock, applied, restored, past, winfw, pf>>
     ELSE Answers("connected")
  /\ UNCHANGED <<os, user, up>>

RollsBackRules ==
  /\ call = "unpinning" /\ pc = "returned"
  /\ IF applied
     THEN Disarms /\ call' = "disarming" /\ UNCHANGED <<lock, applied, restored, past, dns>>
     ELSE Answers("failed")
  /\ UNCHANGED <<os, user, up>>

RolledBack ==
  /\ call = "disarming" /\ pc = "returned"
  /\ Answers("failed")
  /\ UNCHANGED <<os, user, up>>

-----------------------------------------------------------------------------
(* disconnect *)

Disconnect ==
  /\ Idle
  /\ D!Restore
  /\ call' = "restore"
  /\ Finds /\ last' = "none"
  /\ UNCHANGED <<os, user, up, lock, applied, restored, winfw, pf>>

\* The firewall goes whatever became of the resolver, unless no user is
\* selected: then it is left as it is, and disconnect answers all the same.
RestoreReturns ==
  /\ call = "restore" /\ pc = "returned"
  /\ IF Targeted
     THEN /\ restored' = (result = "ok")
          /\ Disarms /\ call' = "remove"
          /\ UNCHANGED <<lock, applied, past, dns>>
     ELSE Answers("rules_left")
  /\ UNCHANGED <<os, user, up>>

RemoveReturns ==
  /\ call = "remove" /\ pc = "returned"
  /\ Answers(IF result = "raised" THEN "not_removed"
             ELSE IF restored THEN "disconnected" ELSE "still_pinned")
  /\ UNCHANGED <<os, user, up>>

-----------------------------------------------------------------------------
(* update_config *)

\* A user is selected, or none: not while the killswitch is seen to be in
\* force.  (Without a user _is_routing does not look.)
SelectUser ==
  /\ Idle /\ os = "macos"
  /\ \E routing \in Looks(user /\ Killswitch) : ~routing
  /\ user' \in BOOLEAN
  /\ UNCHANGED <<os, up, app, past, frame, winfw, pf, dns>>

-----------------------------------------------------------------------------
(* Inside a backend call *)

FirewallStep ==
  /\ up = "serving" /\ call \in {"arm", "disarming", "remove"}
  /\ \/ os = "windows" /\ W!Step /\ UNCHANGED pf
     \/ os = "macos" /\ P!PfStep /\ UNCHANGED winfw
  /\ UNCHANGED <<os, user, up, app, past, dns>>

ResolverStep ==
  /\ up # "down" /\ call \in {"pin", "unpinning", "restore", "recover"}
  /\ D!DnsStep
  /\ UNCHANGED <<os, user, up, app, past, winfw, pf>>

-----------------------------------------------------------------------------
(* The life of the daemon and of the machine *)

Dies ==
  /\ up' = "down"
  /\ call' = "none" /\ lock' = FALSE /\ applied' = FALSE /\ restored' = FALSE
  /\ Over
  /\ UNCHANGED <<os, user, winfw, dns>>

Crash ==
  /\ "crash" \in Faults /\ up # "down"
  /\ Dies
  /\ last' = IF call = "none" THEN last ELSE "died"
  /\ UNCHANGED <<found, faults, pf>>

\* On macOS a connection does not outlive a reboot, after which pf may be
\* disabled.
Reboot ==
  /\ "reboot" \in Faults
  /\ Dies
  /\ IF os = "macos" THEN P!Boots ELSE UNCHANGED pf
  /\ last' = IF call # "none" THEN "died"
             ELSE IF os = "macos" /\ last = "connected" THEN "rebooted" ELSE last
  /\ UNCHANGED <<found, faults>>

OthersReload ==
  /\ os = "macos" /\ P!OthersReload
  /\ UNCHANGED <<os, user, up, app, past, frame, winfw, dns>>

\* recover_orphaned_dns.  A look that raises ends it, which is as if the
\* resolver were not pinned.
Start ==
  /\ up = "down"
  /\ \E pinned \in Looks(D!IsPinned), routing \in Looks(Targeted /\ Killswitch) :
       IF pinned /\ ~routing
       THEN up' = "starting" /\ call' = "recover" /\ D!Restore
       ELSE up' = "serving" /\ UNCHANGED <<call, frame, dns>>
  /\ UNCHANGED <<os, user, lock, applied, restored, past, winfw, pf>>

Recovered ==
  /\ call = "recover" /\ pc = "returned"
  /\ up' = "serving" /\ call' = "none" /\ Over
  /\ UNCHANGED <<os, user, lock, applied, restored, past, faults, winfw, pf, dns>>

\* Not while the firewall is at work, which does not look at them.
Replug(a) ==
  /\ call \notin {"arm", "disarming", "remove"}
  /\ D!Unplug(a) \/ D!Plug(a)
  /\ UNCHANGED <<os, user, up, app, past, frame, winfw, pf>>

-----------------------------------------------------------------------------

Init ==
  /\ os \in Platform
  /\ user \in BOOLEAN /\ (os = "windows" => ~user)
  /\ up = "serving"
  /\ call = "none" /\ lock = FALSE /\ applied = FALSE /\ restored = FALSE
  /\ found = "untouched" /\ last = "none"
  /\ pc = "idle" /\ todo = <<>> /\ failed = FALSE /\ result = "none" /\ faults = 0
  /\ os = "windows" => enabled = FALSE
  /\ W!WinfwInit /\ P!PfInit /\ D!DnsInit

Operation ==
  \/ \E cfg \in Config : Connect(cfg) \/ ConnectTooEarly(cfg)
  \/ Armed \/ ArmFails \/ PinReturns \/ RollsBackRules \/ RolledBack
  \/ Disconnect \/ RestoreReturns \/ RemoveReturns
  \/ SelectUser
  \/ FirewallStep \/ ResolverStep

Environment ==
  \/ Crash \/ Reboot \/ Start \/ Recovered
  \/ \E a \in Roaming : Replug(a)
  \/ OthersReload

Next == Operation \/ Environment

Spec == Init /\ [][Next]_vars

-----------------------------------------------------------------------------

(* Properties *)

TypeOK ==
  /\ user \in BOOLEAN /\ up \in {"serving", "down", "starting"}
  /\ call \in {"none", "arm", "pin", "unpinning", "disarming", "restore", "remove", "recover"}
  /\ lock \in BOOLEAN /\ applied \in BOOLEAN /\ restored \in BOOLEAN
  /\ FrameOK
  /\ W!WinfwTypeOK /\ P!PfTypeOK /\ D!DnsTypeOK

\* Outbound traffic is never blocked, on any profile, unless Tor and loopback
\* are allowed by name: the allow rules go in before the first block and out
\* after the last one, through every failure and death.  Not after a second
\* failure, inside the teardown of the first (lost).
NeverLockedOut ==
  ~lost /\ (\E p \in W!Profile : W!Blocked(p)) => W!Needed \subseteq rules

\* Whatever of ours is in force, the state files hold what the user had, as
\* far as it could be read when it was captured: a blocked profile, a pinned
\* adapter can be put back, however many connects that failed, deaths and
\* reboots came since ("capture once").  A proxy that could not be read
\* (unread) and an adapter that could not be, or was not there (missed), are
\* down as off and as DHCP, and are not promised.
WayBack ==
  /\ \A p \in W!Profile : W!Blocked(p) /\ ~lost =>
       kept.policy = W!UsersPolicy /\ W!UsersProxy(kept.proxy)
  /\ \A a \in D!Adapter \ missed :
       resolver[a] = "loopback" => saved /\ captured[a] = UsersDns[a]

\* From a connect that reported success until the next operation the
\* killswitch is in force, whoever loads pf.conf and whatever the daemon
\* goes through; on Windows through reboots of the machine too.  On macOS
\* nothing enables pf at the start: after a reboot the killswitch is in force
\* if pf is enabled at all.
EnforcedWhileConnected ==
  /\ last = "connected" => Killswitch
  /\ last = "rebooted" => (enabled => Killswitch)

\* After a disconnect that gave back the resolver, was told a user and did not
\* raise, the machine is as the user had set it up, as far as it could be
\* read, and stays so through reboots and loads of pf.conf ("re-loads nothing
\* instead of silently re-arming the killswitch").
DisconnectGivesBack ==
  last = "disconnected" /\ found = "session" /\ ~lost => DnsIsUsers /\ FirewallIsUsers

\* A connect that fails on an untouched machine leaves the resolver as it
\* was, and the Windows firewall as it was or with the record to go back by;
\* adapters and a proxy that could not be read aside.  The anchor file of
\* macOS may stay armed.
FailedFirstConnectGivesBack ==
  last = "failed" /\ found = "untouched" /\ ~lost =>
    /\ DnsIsUsers
    /\ os = "windows" => FirewallIsUsers \/ W!Captured

\* "re-capturing now would record our own blockoutbound/proxy as the prior
\* and make restore a permanent lockout": the state file never holds a block
\* of ours.
NeverOurOwnBlock == \A p \in W!Profile : kept.policy[p].out = "allow"

=============================================================================
