----------------------------- MODULE MachineInv ------------------------------
(***************************************************************************)
(* Why the properties of Machine hold: its inductive invariant, one named  *)
(* part per reason.  TLC checks it; Machine_proofs proves it.              *)
(*                                                                         *)
(* The hypotheses say which commands may be refused without the code       *)
(* noticing; where one of them fails the README names what goes wrong.     *)
(***************************************************************************)
EXTENDS Machine

\* netsh shows the policy when it is asked for it.
PolicyIsRead == "show" \notin Faults

\* The list of the adapters is read, and networksetup, whose exit status the
\* code does not look at, does what it is told.  (An adapter of the list that
\* is not read is in missed.)
AdaptersAreRead ==
  "list" \notin Faults /\ ("macos" \in Platform => "networksetup" \notin Faults)

\* The anchor and its file can be emptied, which the code does not look at.
AnchorEmpties == "flush" \notin Faults /\ "stuck" \notin Faults

-----------------------------------------------------------------------------
(* Where a call is *)

Applying  == {"capture", "allow", "block", "proxy"}
Undoing   == {"undo", "undo_rules", "undo_proxy", "undo_state"}
Removing  == {"restore", "restore_proxy", "delete", "forget"}
Loading   == {"file", "wire", "enable", "load", "reload", "socks"}
Unloading == {"disarm", "flush", "unset"}

\* The places of each backend call, and the list it goes through there.
InPlace ==
  /\ os \in Platform
  /\ (call = "none") <=> (pc = "idle")
  /\ (up = "starting") <=> (call = "recover")
  /\ up = "down" => call = "none"
  /\ call = "arm" =>
       pc \in {"returned"} \union (IF os = "windows" THEN Applying \union Undoing ELSE Loading)
  /\ call \in {"disarming", "remove"} =>
       pc \in {"returned"} \union (IF os = "windows" THEN Removing ELSE Unloading)
  /\ call = "pin" => pc \in {"snapshot", "pin", "returned"}
  /\ call \in {"unpinning", "restore", "recover"} => pc \in {"unpin", "returned"}
  /\ pc \in {"capture", "allow"} => todo \in Seq(W!Rule) \ {<<>>}
  /\ pc \in {"block", "undo", "restore"} => todo \in Seq(W!Profile) \ {<<>>}
  /\ pc \in {"snapshot", "pin", "unpin"} => todo \in Seq(D!Adapter)
  /\ pc = "unpin" => \A a \in ToSet(todo) : D!Listed(a)
  /\ pc = "returned" /\ call = "arm" => result \in {"ok", "raised"}

-----------------------------------------------------------------------------
(* Windows *)

\* There is a record whenever something of ours is in force, and it holds what
\* the user had, as far as it could be read.
Recorded ==
  /\ kept.is # "policy" => kept = W!NoState
  /\ ~lost =>
       /\ \A p \in W!Profile : policy[p] \in {W!Users, W!Blocking(W!Users)}
       /\ IF W!Captured
          THEN kept.policy = W!UsersPolicy /\ W!UsersProxy(kept.proxy)
          ELSE policy = W!UsersPolicy /\ W!UsersProxy(proxy) /\ rules = {}
  /\ pc \in {"allow", "block", "proxy"} \union Undoing => W!Captured
  /\ pc \in Removing /\ ~lost => W!Captured

\* A connect has armed the firewall when it goes on to the resolver.
HasArmed == call = "pin" \/ (call = "arm" /\ pc = "returned" /\ result = "ok")

\* The profiles that the loop has behind it are blocked, in the end all.
Behind(p) == p \notin ToSet(todo)
BlockedBehind ==
  /\ pc = "block" => \A p \in W!Profile : Behind(p) => W!Blocked(p)
  /\ pc = "proxy" => W!Killswitch

\* What an undoing or a restoring has behind it is the user's again.
RestoredBehind ==
  ~lost =>
     /\ pc = "undo" => \A p \in W!Profile : Behind(p) => policy[p] = W!Users
     /\ pc \in {"undo_rules", "undo_proxy", "undo_state"} => policy = W!UsersPolicy
     /\ pc \in {"undo_proxy", "undo_state", "forget"} => rules = {}
     /\ pc \in {"undo_state", "delete", "forget"} => W!UsersProxy(proxy)
     /\ pc = "restore" /\ ~failed => \A p \in W!Profile : Behind(p) => policy[p] = W!Users
     /\ pc = "restore_proxy" /\ ~failed => policy = W!UsersPolicy
     /\ pc \in {"delete", "forget"} => policy = W!UsersPolicy

\* Tor and loopback are on the list before the first block.
AllowedFirst ==
  /\ pc \in {"capture", "allow"} => W!Needed \subseteq rules \union ToSet(todo)
  /\ pc \in {"block", "proxy"} => W!Needed \subseteq rules

-----------------------------------------------------------------------------
(* macOS *)

\* What is loaded is what the file says, and pf.conf has the hook.
Loaded ==
  /\ pc \in {"wire", "enable", "load", "reload", "socks"} => file = "armed"
  /\ pc \in {"enable", "load", "reload", "socks"} => wired
  /\ pc \in {"load", "reload", "socks"} => enabled
  /\ pc \in {"reload", "socks"} => anchor = "armed"
  /\ pc = "socks" => referenced
Hooked == file = "armed" /\ wired /\ referenced /\ anchor = "armed"
Holds == Hooked /\ enabled
Empty == file = "inert" /\ anchor = "inert"

-----------------------------------------------------------------------------
(* The resolvers *)

\* An adapter that the record speaks for has the setting of the user or ours,
\* and if it has ours it is in the record with the setting of the user.
Remembered ==
  /\ ~saved => captured = D!Unlisted
  /\ \A a \in D!Adapter \ missed :
       /\ resolver[a] \in {UsersDns[a], "loopback"}
       /\ captured[a] \in {UsersDns[a], "unlisted"}
       /\ resolver[a] = "loopback" => captured[a] = UsersDns[a]

\* The record lists every adapter that is there and not missed; on macOS no
\* other one, since it does not notice that one is gone.
RecordFits ==
  /\ saved => \A a \in present \ missed : D!Listed(a)
  /\ saved /\ os = "macos" => \A a \in D!Adapter \ missed : D!Listed(a) => D!Present(a)
  /\ pc = "snapshot" => \A a \in present \ missed : a \in ToSet(todo)
  /\ pc = "pin" => saved
  /\ pc \in {"snapshot", "pin"} /\ saved => \A a \in ToSet(todo) \ missed : D!Listed(a)

\* What a restore has behind it has the setting of the user.
AdaptersDone ==
  pc = "unpin" =>
    /\ saved
    /\ ~failed => \A a \in D!Adapter \ missed :
                    D!Listed(a) /\ a \notin ToSet(todo) => resolver[a] = UsersDns[a]

-----------------------------------------------------------------------------
(* How the operations end *)

\* disconnect has given the resolver back, when it will say so.
GivenBack ==
  /\ call = "restore" /\ pc = "returned" /\ result = "ok" => DnsIsUsers
  /\ call = "remove" /\ restored => DnsIsUsers
  /\ last = "disconnected" => DnsIsUsers

\* A removal that did not raise has taken everything away.
WindowsCleared ==
  os = "windows" /\ ~lost =>
    /\ call \in {"remove", "disarming"} /\ pc = "returned" /\ result # "raised" =>
         FirewallIsUsers
    /\ last = "disconnected" => FirewallIsUsers
MacCleared ==
  os = "macos" =>
    /\ pc \in {"flush", "unset"} => file = "inert"
    /\ pc = "unset" => anchor = "inert"
    /\ call \in {"remove", "disarming"} /\ pc = "returned" => Empty
    /\ last = "disconnected" => Empty

\* A connect that found an untouched machine has not pinned anything by the
\* time something fails, and the firewall is the user's or on record.
OnlyFirewall == os = "windows" => FirewallIsUsers \/ W!Captured
NothingLeft ==
  found = "untouched" =>
    /\ call \in {"arm", "unpinning", "disarming"} => DnsIsUsers
    /\ call = "pin" /\ (pc = "snapshot" \/ (pc = "returned" /\ result = "raised")) => DnsIsUsers
    /\ last = "failed" => DnsIsUsers /\ (~lost => OnlyFirewall)

\* A connect that reported success leaves the firewall armed; after a reboot of
\* macOS all of it but pf itself.
StaysEnforced ==
  /\ last = "connected" \/ HasArmed => IF os = "windows" THEN W!Killswitch ELSE Holds
  /\ last = "rebooted" => os = "macos" /\ Hooked
  /\ call \notin {"none", "recover"} => last = "none"

WindowsInv ==
  Recorded /\ AllowedFirst /\ NeverLockedOut /\ RestoredBehind /\ WindowsCleared
ResolverInv == Remembered /\ RecordFits /\ AdaptersDone /\ GivenBack

IInv ==
  /\ TypeOK /\ InPlace
  /\ BlockedBehind /\ Loaded /\ StaysEnforced
  /\ PolicyIsRead => WindowsInv
  /\ AnchorEmpties => MacCleared
  /\ AdaptersAreRead => ResolverInv
  /\ PolicyIsRead /\ AdaptersAreRead => NothingLeft

=============================================================================
