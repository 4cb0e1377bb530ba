----------------------------- MODULE ResolvConf ------------------------------
(***************************************************************************)
(* The resolver file and its backup: lock_resolv and restore_resolv of     *)
(* backend/torando_gui/netcfg.py, one file operation or chattr per step.   *)
(*                                                                         *)
(*  - The daemon runs lock and restore under its lock, so one at a time.   *)
(*    (--restore-dns beside a running daemon is in Daemon.)                *)
(*  - The DHCP client rewrites the file whenever the file is not immutable,*)
(*    and the file may be missing: before its first lease, or removed.     *)
(*  - The daemon may be killed between any two steps; the files stay.      *)
(*  - The contents are a resolver of the client, the loopback pin, or      *)
(*    "torn": what a write that is not atomic leaves when it is cut short. *)
(*                                                                         *)
(* The file is no symbolic link.                                           *)
(***************************************************************************)
CONSTANTS
  Resolver,   \* the resolvers a DHCP lease may bring
  Faults      \* what may go wrong: "crash"; "raise" (chattr is missing),
              \* "stuck" (the flag cannot be cleared), "mutable" (nor set),
              \* "full" (a write fails), "unlink" (the backup stays),
              \* "bytes" (what is in a file is not UTF-8); "missing" (there
              \* may be no file);
              \* "race" (a lease arrives in the middle of a call)

ASSUME ResolvConfAssumption ==
  /\ Resolver # {}
  /\ {"pin", "torn", "absent"} \intersect Resolver = {}

VARIABLES
  file,       \* resolv.conf
  bak,        \* its backup, resolv.conf.torando.bak
  immut,      \* the immutable flag of resolv.conf
  raced,      \* history: a lease arrived in the middle of some call
  bare,       \* history: the last lock that looked for a resolver found no file
  pc,         \* where the call is
  text,       \* what it has read
  result      \* how the last call ended

vars == <<file, bak, immut, raced, bare, pc, text, result>>

Contents == Resolver \union {"pin", "torn"}

Locking == {"capture", "truncated", "clear", "pin", "flag"}
Restoring == {"unflag", "look", "unlink"}

Files == Contents \union (IF "missing" \in Faults THEN {"absent"} ELSE {})

\* The call returns what happened, or raises.
Ends(how) == pc' = "idle" /\ result' = how
Goes(place) == pc' = place /\ UNCHANGED result

\* chattr -i: it works, does not, or is missing.
Clear(next) ==
  \/ Goes(next) /\ immut' = FALSE
  \/ "stuck" \in Faults /\ Goes(next) /\ UNCHANGED immut
  \/ "raise" \in Faults /\ Ends("raised") /\ UNCHANGED immut

\* An atomic write needs a file that may be replaced, and room.
Writable == ~immut
WriteFails == immut \/ "full" \in Faults

-----------------------------------------------------------------------------
(* lock_resolv *)

\* Mutant: lock_resolv pins without having captured the resolver.
LockUncaptured ==
  /\ pc = "idle"
  /\ pc' = "clear"
  /\ result' = "none"
  /\ UNCHANGED <<file, bak, immut, raced, bare, text>>

Lock ==
  /\ pc = "idle"
  /\ pc' = "capture"
  /\ result' = "none"
  /\ UNCHANGED <<file, bak, immut, raced, bare, text>>

\* Mutant: whatever is there is captured, our own pin included.
CaptureAnything ==
  /\ pc = "capture"
  /\ text' = file
  /\ bak' = "torn" /\ bare' = FALSE
  /\ Goes("truncated")
  /\ UNCHANGED <<file, immut, raced>>

\* _capture_resolver: where there is no file there is nothing to capture, our
\* own pin is not captured; anything else is read, and write_bytes begins by
\* emptying the backup.
Capture ==
  /\ pc = "capture"
  /\ \/ file = "absent" /\ bare' = TRUE /\ Goes("clear") /\ UNCHANGED <<bak, text>>
     \/ file = "pin" /\ Goes("clear") /\ UNCHANGED <<bak, text, bare>>
     \/ /\ file \notin {"absent", "pin"}
        /\ text' = file
        /\ bak' = "torn" /\ bare' = FALSE
        /\ Goes("truncated")
  /\ UNCHANGED <<file, immut, raced>>

CaptureWrites ==
  /\ pc = "truncated"
  /\ \/ bak' = text /\ Goes("clear")
     \/ "full" \in Faults /\ UNCHANGED bak /\ Ends("raised")
  /\ UNCHANGED <<file, immut, raced, bare, text>>

ClearOld ==
  /\ pc = "clear"
  /\ Clear("pin")
  /\ UNCHANGED <<file, bak, raced, bare, text>>

\* Mutant: the failure of the write is swallowed, and the file made immutable.
WritePinSwallows ==
  /\ pc = "pin"
  /\ \/ Writable /\ file' = "pin" /\ Goes("flag")
     \/ WriteFails /\ UNCHANGED file /\ Goes("flag")
  /\ UNCHANGED <<bak, immut, raced, bare, text>>

WritePin ==
  /\ pc = "pin"
  /\ \/ Writable /\ file' = "pin" /\ Goes("flag")
     \/ WriteFails /\ UNCHANGED file /\ Ends("raised")
  /\ UNCHANGED <<bak, immut, raced, bare, text>>

\* chattr +i: where it does not work, or the file is gone again, the pin stays
\* mutable, with a note.
SetImmutable ==
  /\ pc = "flag"
  /\ \/ file # "absent" /\ immut' = TRUE /\ Ends("locked")
     \/ /\ "mutable" \in Faults \/ file = "absent"
        /\ UNCHANGED immut /\ Ends("locked")
     \/ "raise" \in Faults /\ UNCHANGED immut /\ Ends("raised")
  /\ UNCHANGED <<file, bak, raced, bare, text>>

-----------------------------------------------------------------------------
(* restore_resolv *)

Restore ==
  /\ pc = "idle"
  /\ pc' = "unflag"
  /\ result' = "none"
  /\ UNCHANGED <<file, bak, immut, raced, bare, text>>

ClearFlag ==
  /\ pc = "unflag"
  /\ Clear("look")
  /\ UNCHANGED <<file, bak, raced, bare, text>>

\* Mutant: a write that fails is taken for one that worked.
PutBackUnchecked ==
  /\ pc = "look" /\ bak # "absent"
  /\ \/ Writable /\ file' = bak /\ Goes("unlink")
     \/ WriteFails /\ UNCHANGED file /\ Goes("unlink")
  /\ UNCHANGED <<bak, immut, raced, bare, text>>

\* The backup is written back whatever the file holds by now.  A failing
\* write is noted, a backup that cannot be decoded is not caught.
PutBack ==
  /\ pc = "look" /\ bak # "absent"
  /\ \/ Writable /\ file' = bak /\ Goes("unlink")
     \/ WriteFails /\ UNCHANGED file /\ Ends("noted")
     \/ "bytes" \in Faults /\ UNCHANGED file /\ Ends("raised")
  /\ UNCHANGED <<bak, immut, raced, bare, text>>

\* resolv_is_pinned: a file that is missing is not pinned; one that cannot be
\* decoded raises.
NoBackup ==
  /\ pc = "look" /\ bak = "absent"
  /\ \/ Ends(IF file = "pin" THEN "noted" ELSE "nothing")
     \/ "bytes" \in Faults /\ file \notin {"pin", "absent"} /\ Ends("raised")
  /\ UNCHANGED <<file, bak, immut, raced, bare, text>>

Unlink ==
  /\ pc = "unlink"
  /\ \/ bak' = "absent" /\ Ends("restored")
     \/ "unlink" \in Faults /\ UNCHANGED bak /\ Ends("noted")
  /\ UNCHANGED <<file, immut, raced, bare, text>>

-----------------------------------------------------------------------------
(* The DHCP client, and crashes *)

Dhcp ==
  /\ ~immut
  /\ pc # "idle" => "race" \in Faults
  /\ file' \in Files \ {"pin", "torn"}
  /\ raced' = (raced \/ pc # "idle")
  /\ UNCHANGED <<bak, immut, bare, pc, text, result>>

Crash ==
  /\ "crash" \in Faults /\ pc # "idle"
  /\ Ends("killed")
  /\ UNCHANGED <<file, bak, immut, raced, bare, text>>

-----------------------------------------------------------------------------

Init ==
  /\ file \in Files \ {"pin", "torn"}
  /\ bak = "absent" /\ immut = FALSE /\ raced = FALSE /\ bare = FALSE
  /\ pc = "idle" /\ text \in Resolver /\ result = "none"

LockStep == Capture \/ CaptureWrites \/ ClearOld \/ WritePin \/ SetImmutable
RestoreStep == ClearFlag \/ PutBack \/ NoBackup \/ Unlink

Next == Lock \/ LockStep \/ Restore \/ RestoreStep \/ Crash \/ Dhcp

Spec == Init /\ [][Next]_vars

-----------------------------------------------------------------------------
(* Properties *)

\* Every variable has its type.
TypeOK ==
  /\ file \in Files /\ bak \in Contents \union {"absent"}
  /\ immut \in BOOLEAN /\ raced \in BOOLEAN /\ bare \in BOOLEAN
  /\ pc \in Locking \union Restoring \union {"idle"}
  /\ text \in Contents
  /\ result \in {"none", "locked", "raised", "restored", "noted", "nothing", "killed"}

\* Whatever failed or was killed before, a pinned file has a backup beside it
\* and the backup is not the pin itself: restore finds a way back.  lock
\* captures before it pins, restore writes before it unlinks, and a second
\* lock captures no pin over the backup of the first.  Only a pin that was
\* written where there was no file has none, until a resolver is captured.
PinnedHasBackup == file = "pin" => bak # "pin" /\ (bak = "absent" => bare)

\* A restore that says it restored, or that there was nothing to do, has left
\* no pin behind.
RestoreUnpins == result \in {"restored", "nothing"} => file # "pin"

\* The immutable flag is only ever on the pin, so that "these make the pin
\* survive dhclient", never on a resolver of the client, which could then not
\* be replaced any more: no failure of a write, of chattr or of the process
\* between the steps of lock and restore gets the flag onto another file,
\* unless a lease arrives between the write and chattr.
OnlyThePinIsImmutable == immut /\ ~raced => file = "pin"

-----------------------------------------------------------------------------
(* The inductive invariant of the proofs in ResolvConf_proofs *)

\* What is captured is never the pin.
BackupIsNoPin == bak # "pin" /\ text # "pin"

\* The pin is written only when the backup is there, and emptied for a new
\* capture only while nothing is pinned.
CapturedFirst ==
  /\ pc \in {"clear", "pin", "flag"} => bak # "absent" \/ bare
  /\ pc = "truncated" => file # "pin"

\* The backup is removed only after it was put back.
WrittenFirst == pc = "unlink" => file # "pin"

\* The flag is set only on what was just written.
PinBeforeFlag == pc = "flag" /\ ~raced => file = "pin"

\* A call that runs has reported nothing.
NoneYet == pc # "idle" => result = "none"

\* Why the properties hold through every failure: the order of the steps.
IInv ==
  /\ TypeOK /\ PinnedHasBackup /\ RestoreUnpins /\ OnlyThePinIsImmutable
  /\ BackupIsNoPin /\ CapturedFirst /\ WrittenFirst /\ PinBeforeFlag /\ NoneYet

=============================================================================
