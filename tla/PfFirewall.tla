----------------------------- MODULE PfFirewall ------------------------------
(***************************************************************************)
(* PfFirewall of backend/torando_gui/pf.py, on macOS: the killswitch is an *)
(* anchor of pf.  apply writes the file of the anchor, hooks it into       *)
(* pf.conf, enables pf, loads the anchor and then the main ruleset that    *)
(* refers to it; remove empties the anchor and its file, and leaves the    *)
(* hook.                                                                   *)
(*                                                                         *)
(*  - The file and the hook outlive a reboot, which loads pf.conf again;   *)
(*    any other program may load it at any time.                           *)
(*  - The anchor holds its rules or nothing ("armed", "inert"); which      *)
(*    rules these are is left out, and there is one anchor.                *)
(*  - The SOCKS proxy of the system is "ours" or "off"; the code keeps no  *)
(*    record of what the user had.                                         *)
(***************************************************************************)
EXTENDS Calls

VARIABLES
  file,        \* the file of the anchor
  wired,       \* pf.conf has the hook
  enabled,     \* pf is enabled
  anchor,      \* the anchor in the kernel
  referenced,  \* the main ruleset in the kernel refers to it
  socks        \* the SOCKS proxy of the system

pf == <<file, wired, enabled, anchor, referenced, socks>>

\* pfctl -f pf.conf, which runs the "load anchor" of the hook.
LoadsMain ==
  /\ referenced' = wired
  /\ anchor' = IF wired THEN file ELSE anchor

\* A pfctl that is refused ends the call.
Refused == Fault("pfctl") /\ Returns("raised") /\ UNCHANGED pf

\* A file that cannot be written in place is left as it was, or empty.
Truncates == file' \in {file, "inert"}

\* Flushing the anchor is not checked.
Flushes ==
  anchor' \in {"inert"} \union (IF "flush" \in Faults THEN {anchor} ELSE {})

-----------------------------------------------------------------------------
(* apply *)

PfApply ==
  /\ Free
  /\ Fine /\ Goto("file", <<>>)
  /\ UNCHANGED pf

WriteAnchor ==
  /\ pc = "file"
  /\ \/ /\ Fine /\ file' = "armed" /\ Goto("wire", <<>>)
        /\ UNCHANGED <<wired, enabled, anchor, referenced, socks>>
     \/ /\ Fault("full") /\ Truncates /\ Returns("raised")
        /\ UNCHANGED <<wired, enabled, anchor, referenced, socks>>

\* _ensure_wired: pfctl -n has to accept the new pf.conf.
EnsureWired ==
  /\ pc = "wire"
  /\ \/ /\ Fine /\ wired' = TRUE /\ Goto("enable", <<>>)
        /\ UNCHANGED <<file, enabled, anchor, referenced, socks>>
     \/ ~wired /\ Refused

EnablePf ==
  /\ pc = "enable"
  /\ \/ /\ Fine /\ enabled' = TRUE /\ Goto("load", <<>>)
        /\ UNCHANGED <<file, wired, anchor, referenced, socks>>
     \/ Refused

LoadAnchor ==
  /\ pc = "load"
  /\ \/ /\ Fine /\ anchor' = file /\ Goto("reload", <<>>)
        /\ UNCHANGED <<file, wired, enabled, referenced, socks>>
     \/ Refused

\* Mutant: the main ruleset is taken to refer to the anchor already.
ReloadSkipped ==
  /\ pc = "reload"
  /\ Fine /\ Goto("socks", <<>>)
  /\ UNCHANGED pf

ReloadMain ==
  /\ pc = "reload"
  /\ \/ Fine /\ LoadsMain /\ Goto("socks", <<>>)
     \/ Fault("pfctl") /\ Flushes /\ Returns("raised") /\ UNCHANGED referenced
  /\ UNCHANGED <<file, wired, enabled, socks>>

SetSocks ==
  /\ pc = "socks"
  /\ Fine /\ socks' = "ours" /\ Returns("ok")
  /\ UNCHANGED <<file, wired, enabled, anchor, referenced>>

-----------------------------------------------------------------------------
(* remove, which cannot fail *)

PfRemove ==
  /\ Free
  /\ Fine /\ Goto("disarm", <<>>)
  /\ UNCHANGED pf

\* The file is made inert, so that no later load arms the anchor again; a
\* write that fails is passed over.
DisarmFile ==
  /\ pc = "disarm"
  /\ Fine
  /\ file' \in {"inert"} \union (IF "stuck" \in Faults THEN {file} ELSE {})
  /\ Goto("flush", <<>>)
  /\ UNCHANGED <<wired, enabled, anchor, referenced, socks>>

FlushAnchor ==
  /\ pc = "flush"
  /\ Fine /\ Flushes /\ Goto("unset", <<>>)
  /\ UNCHANGED <<file, wired, enabled, referenced, socks>>

UnsetSocks ==
  /\ pc = "unset"
  /\ Fine /\ socks' = "off" /\ Returns("ok")
  /\ UNCHANGED <<file, wired, enabled, anchor, referenced>>

-----------------------------------------------------------------------------

\* The killswitch of status: enabled, referred to, and loaded.
Enforced == enabled /\ referenced /\ anchor = "armed"

PfStep ==
  \/ WriteAnchor \/ EnsureWired \/ EnablePf \/ LoadAnchor \/ ReloadMain \/ SetSocks
  \/ DisarmFile \/ FlushAnchor \/ UnsetSocks

\* Another program loads pf.conf; a reboot does, and may leave pf disabled.
OthersReload == LoadsMain /\ UNCHANGED <<file, wired, enabled, socks>>
Boots ==
  /\ referenced' = wired
  /\ anchor' = IF wired THEN file ELSE "inert"
  /\ enabled' \in BOOLEAN
  /\ UNCHANGED <<file, wired, socks>>

PfInit ==
  /\ file = "inert" /\ wired = FALSE /\ enabled \in BOOLEAN
  /\ anchor = "inert" /\ referenced = FALSE /\ socks = "off"

PfTypeOK ==
  /\ file \in {"inert", "armed"} /\ anchor \in {"inert", "armed"}
  /\ wired \in BOOLEAN /\ enabled \in BOOLEAN /\ referenced \in BOOLEAN
  /\ socks \in {"ours", "off"}

=============================================================================
