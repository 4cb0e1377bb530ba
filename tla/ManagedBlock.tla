---------------------------- MODULE ManagedBlock -----------------------------
(***************************************************************************)
(* The block the daemon owns inside a file of the user: merge_torrc of     *)
(* backend/torando_gui/netcfg.py for torrc, wire_pf_conf and               *)
(* unwire_pf_conf of pf.py for pf.conf.                                    *)
(*                                                                         *)
(* A text is a sequence of pieces: "begin" and "end" are the two markers,  *)
(* "nl" a newline, everything else is text between them.                   *)
(***************************************************************************)
EXTENDS Naturals, Sequences, SequencesExt

\* find(piece, from), 0 if there is none.
Find(text, piece, from) ==
  LET places == {i \in from..Len(text) : text[i] = piece}
  IN IF places = {} THEN 0 ELSE CHOOSE i \in places : \A j \in places : i <= j

Before(text, i) == SubSeq(text, 1, i - 1)

\* What follows place i, without the newline the block owns.
Behind(text, i) ==
  SubSeq(text, IF i < Len(text) /\ text[i + 1] = "nl" THEN i + 2 ELSE i + 1, Len(text))

Terminated(text) == text = <<>> \/ Last(text) = "nl"
Terminate(text) == IF Terminated(text) THEN text ELSE Append(text, "nl")

\* The lines between the markers.
Block(directives) == <<"begin", "nl">> \o directives \o <<"end", "nl">>

-----------------------------------------------------------------------------
(* torrc *)

\* render_torrc_block: which directives, line by line.
Directives(cfg) ==
  <<"dns_port", "nl", "socks_port", "nl">>
    \o (IF cfg.windows THEN <<>> ELSE <<"trans_port", "nl">>)
    \o (IF cfg.exit THEN <<"exit_nodes", "nl">> ELSE <<>>)

\* _strip_managed_blocks: no text has more blocks than pieces.
StripFirst(text) ==
  LET b == Find(text, "begin", 1)
      e == Find(text, "end", b)
  IN CASE b = 0             -> text
       [] b # 0 /\ e = 0 -> Before(text, b)
       [] b # 0 /\ e # 0 -> Before(text, b) \o Behind(text, e)
StripBlocks(text) ==
  LET Strip[n \in 0..Len(text)] == IF n = 0 THEN text ELSE StripFirst(Strip[n - 1])
  IN Strip[Len(text)]

\* Mutant: a second block of an older version stays.
MergeFirst(existing, block) ==
  LET b == Find(existing, "begin", 1)
      e == Find(existing, "end", b)
  IN CASE b = 0             -> Terminate(existing) \o
                               (IF existing = <<>> THEN <<>> ELSE <<"nl">>) \o block
       [] b # 0 /\ e = 0 -> Before(existing, b) \o block
       [] b # 0 /\ e # 0 -> Before(existing, b) \o block \o Behind(existing, e)

MergeTorrc(existing, block) ==
  LET b == Find(existing, "begin", 1)
      e == Find(existing, "end", b)
  IN CASE b = 0             -> Terminate(existing) \o
                               (IF existing = <<>> THEN <<>> ELSE <<"nl">>) \o block
       [] b # 0 /\ e = 0 -> Before(existing, b) \o block
       [] b # 0 /\ e # 0 ->
            Before(existing, b) \o block \o StripBlocks(Behind(existing, e))

-----------------------------------------------------------------------------
(* pf.conf *)

\* _managed_block
Hook(anchor) == Block(<<anchor, "nl", "load", anchor, "nl">>)

Holds(text, part) ==
  \E i \in 0..(Len(text) - Len(part)) : SubSeq(text, i + 1, i + Len(part)) = part

Unwire(existing) ==
  LET b == Find(existing, "begin", 1)
      e == Find(existing, "end", b)
  IN CASE b = 0             -> existing
       [] b # 0 /\ e = 0 -> Before(existing, b)
       [] b # 0 /\ e # 0 -> Before(existing, b) \o Behind(existing, e)

Wire(existing, want) ==
  IF Find(existing, "begin", 1) # 0 /\ Holds(existing, want)
  THEN existing
  ELSE Terminate(Unwire(existing)) \o want

=============================================================================
