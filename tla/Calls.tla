-------------------------------- MODULE Calls --------------------------------
(***************************************************************************)
(* The frame of a call into a backend of torando_gui that runs one command *)
(* after the other: where it is, the loop it is in, and how it ended.      *)
(* WindowsFirewall, PfFirewall and AdapterDns share it, since App runs one *)
(* backend call at a time; Machine makes the calls.                        *)
(***************************************************************************)
EXTENDS Naturals, Sequences

CONSTANTS
  Faults,      \* what may go wrong: "netsh", "pfctl", "networksetup" (a
               \* command is refused), "show" and "list" (one that reads
               \* fails), "read" (settings of the user cannot be read: they
               \* are taken for DHCP, for no proxy), "probe" (a look at what
               \* is in force fails), "flush" and "stuck" (an anchor, its
               \* file cannot be emptied), "key" (the proxy settings cannot
               \* be opened), "full" (a file cannot be written), "unlink"
               \* (nor removed), "tor" (Tor is missing or not listening),
               \* "crash", "reboot"
  MaxFaults    \* how many refusals and failed files a behaviour may have

ASSUME CallsAssumption == MaxFaults \in Nat

VARIABLES
  pc,      \* "idle", a place inside the call, or "returned"
  todo,    \* what the loop the call is in has still to go through
  failed,  \* the loop has met a failure it does not stop at
  result,  \* how the call ended
  faults   \* how many faults there were

frame == <<pc, todo, failed, result, faults>>

\* One more thing goes wrong.
Fault(kind) == kind \in Faults /\ faults < MaxFaults /\ faults' = faults + 1

Fine == UNCHANGED faults

\* No call is in progress: the next may begin.
Free == pc \in {"idle", "returned"}

Goto(place, list) ==
  pc' = place /\ todo' = list /\ UNCHANGED <<failed, result>>

\* On to the next turn of the loop, or out of it.
Turn(next, list) ==
  /\ pc' = IF Len(todo) > 1 THEN pc ELSE next
  /\ todo' = IF Len(todo) > 1 THEN Tail(todo) ELSE list
Advance(next, list) == Turn(next, list) /\ UNCHANGED <<failed, result>>

Returns(how) == pc' = "returned" /\ todo' = <<>> /\ failed' = FALSE /\ result' = how

\* Nobody is inside a call any more.
Over == pc' = "idle" /\ todo' = <<>> /\ failed' = FALSE /\ result' = "none"

FrameOK ==
  /\ failed \in BOOLEAN
  /\ result \in {"none", "ok", "raised", "noted"}
  /\ faults \in 0..MaxFaults

=============================================================================
