----------------------------- MODULE AdapterDns ------------------------------
(***************************************************************************)
(* MacDns and WindowsDns of backend/torando_gui/dns.py: the resolver of    *)
(* every network service (macOS) or interface (Windows) is pinned to the   *)
(* loopback, one command per adapter, after what the user had was captured *)
(* once in a state file.                                                   *)
(*                                                                         *)
(* The two differ in what they look at: only Windows looks at the exit     *)
(* status of the commands that restore, and only macOS at the adapters to  *)
(* tell whether the resolver is pinned.  Several servers of one adapter    *)
(* are one setting here.                                                   *)
(***************************************************************************)
EXTENDS Calls, SequencesExt

CONSTANTS
  Adapters,   \* the adapters the machine may have, in the order of the list
  UsersDns    \* what the user set each of them to: "dhcp" or "static"

VARIABLES
  os,         \* the platform: "macos" or "windows"
  present,    \* the adapters that are there
  resolver,   \* the setting of each, which it keeps while it is away
  saved,      \* there is a state file
  captured,   \* what it says of each adapter, "unlisted" of the others
  missed      \* history: adapters the record does not speak for: they came
              \* too late for it, were away or could not be read when it was
              \* taken, or (macOS) were away while there was something to
              \* restore

dns == <<present, resolver, saved, captured, missed>>

Adapter == ToSet(Adapters)
Setting == {"dhcp", "static", "loopback"}

Unlisted == [a \in Adapter |-> "unlisted"]
Present(a) == a \in present

\* The adapters among S, in the order of the list.
Among(S) ==
  LET first[i \in 0..Len(Adapters)] ==
        CASE i = 0 -> <<>>
          [] i > 0 /\ Adapters[i] \in S -> Append(first[i - 1], Adapters[i])
          [] OTHER -> first[i - 1]
  IN first[Len(Adapters)]

\* _services, _interfaces: nothing when the command fails.
Listings ==
  {Among(present)} \union (IF "list" \in Faults THEN {<<>>} ELSE {})

\* What _current, _dns_config make of the adapters of the list, of which some
\* cannot be read: those are put down as DHCP.  macOS puts our own pin down as
\* "Empty", which is DHCP too.
Snapshot(list, unread) ==
  [a \in Adapter |->
     IF a \notin ToSet(list) THEN "unlisted"
     ELSE IF a \in unread \/ (os = "macos" /\ resolver[a] = "loopback") THEN "dhcp"
     ELSE resolver[a]]

\* The adapters that cannot be read: whichever the command fails for, and those
\* that have gone since they were listed.
Unread(list, fails) == fails \union (ToSet(list) \ present)

\* A command on an adapter that is gone, or refused, changes nothing.
Command == IF os = "windows" THEN "netsh" ELSE "networksetup"
Changes(a, setting) ==
  /\ Present(a)
  /\ resolver' = [resolver EXCEPT ![a] = setting]
  /\ Fine
Refuses(a) ==
  /\ UNCHANGED resolver
  /\ \/ ~Present(a) /\ Fine
     \/ Present(a) /\ Fault(Command)

-----------------------------------------------------------------------------
(* lock *)

\* Windows records nothing when it sees no interface, so that is_pinned does
\* not claim a pin; macOS goes on with an empty list.
Lock ==
  /\ Free
  /\ Fine
  /\ \E list \in Listings :
       IF list = <<>> /\ os = "windows" THEN Returns("noted")
                                        ELSE Goto("snapshot", list)
  /\ UNCHANGED dns

CaptureOnce ==
  /\ pc = "snapshot"
  /\ \/ saved /\ Fine /\ Goto("pin", todo) /\ UNCHANGED <<saved, captured, missed>>
     \/ ~saved /\ Fault("full") /\ Returns("raised") /\ UNCHANGED <<saved, captured, missed>>
     \/ \E fails \in SUBSET present :
          /\ ~saved /\ saved' = TRUE /\ Goto("pin", todo)
          /\ IF fails = {} THEN Fine ELSE fails \subseteq ToSet(todo) /\ Fault("read")
          /\ captured' = Snapshot(todo, Unread(todo, fails))
          /\ missed' = missed \union Unread(todo, fails)
  /\ UNCHANGED <<present, resolver>>

PinOne ==
  /\ pc = "pin" /\ todo # <<>>
  /\ \/ Changes(Head(todo), "loopback")
     \/ Refuses(Head(todo))
  /\ Goto("pin", Tail(todo))
  /\ UNCHANGED <<present, saved, captured, missed>>

Pinned ==
  /\ pc = "pin" /\ todo = <<>>
  /\ Fine /\ Returns("ok")
  /\ UNCHANGED dns

-----------------------------------------------------------------------------
(* restore *)

Listed(a) == captured[a] # "unlisted"

\* A loopback that was captured is no setting to go back to.
WayBackOf(a) == IF captured[a] = "loopback" THEN "dhcp" ELSE captured[a]

\* Mutant: every adapter is restored, listed or not.
RestoreAll ==
  /\ Free
  /\ Fine
  /\ IF saved THEN Goto("unpin", Adapters) ELSE Returns("noted")
  /\ UNCHANGED dns

Restore ==
  /\ Free
  /\ Fine
  /\ IF saved THEN Goto("unpin", Among({a \in Adapter : Listed(a)})) ELSE Returns("noted")
  /\ UNCHANGED dns

UnpinOne ==
  /\ pc = "unpin" /\ todo # <<>>
  /\ \/ Changes(Head(todo), WayBackOf(Head(todo))) /\ UNCHANGED failed
     \/ Refuses(Head(todo)) /\ failed' = (failed \/ os = "windows")
  /\ todo' = Tail(todo)
  /\ UNCHANGED <<pc, result, present, saved, captured, missed>>

\* The state file goes, or is kept for another try.
Unpinned ==
  /\ pc = "unpin" /\ todo = <<>>
  /\ \/ failed /\ Fine /\ Returns("noted") /\ UNCHANGED dns
     \/ /\ ~failed /\ Fine /\ Returns("ok")
        /\ saved' = FALSE /\ captured' = Unlisted
        /\ UNCHANGED <<present, resolver, missed>>
     \/ ~failed /\ Fault("unlink") /\ Returns("ok") /\ UNCHANGED dns

-----------------------------------------------------------------------------

\* is_pinned: Windows asks for the state file only.
IsPinned ==
  IF os = "windows"
  THEN saved
  ELSE present # {} /\ \A a \in present : resolver[a] = "loopback"

\* An adapter goes, or comes back or for the first time.
Unplug(a) ==
  /\ Present(a) /\ present' = present \ {a}
  /\ missed' = IF os = "macos" /\ saved THEN missed \union {a} ELSE missed
  /\ UNCHANGED <<resolver, saved, captured>>

Plug(a) ==
  /\ ~Present(a) /\ present' = present \union {a}
  /\ missed' = IF (saved /\ ~Listed(a)) \/ (pc = "snapshot" /\ a \notin ToSet(todo))
               THEN missed \union {a} ELSE missed
  /\ UNCHANGED <<resolver, saved, captured>>

DnsStep == CaptureOnce \/ PinOne \/ Pinned \/ UnpinOne \/ Unpinned

DnsInit ==
  /\ present = Adapter
  /\ resolver = [a \in Adapter |-> UsersDns[a]]
  /\ saved = FALSE
  /\ captured = Unlisted
  /\ missed = {}

DnsTypeOK ==
  /\ os \in {"macos", "windows"}
  /\ present \subseteq Adapter
  /\ resolver \in [Adapter -> Setting]
  /\ saved \in BOOLEAN
  /\ captured \in [Adapter -> Setting \union {"unlisted"}]
  /\ missed \subseteq Adapter

=============================================================================
