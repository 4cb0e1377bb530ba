------------------------------- MODULE LogFeed -------------------------------
(***************************************************************************)
(* What the log bus promises a page (_LogBus.emit and App.events of        *)
(* backend/torando_gui/app.py): one stream without a bound.  It begins     *)
(* with the ring as it was when the page came; every line logged from the  *)
(* time the page follows the bus is put behind it once, and nothing that   *)
(* is in the stream is lost, moved or sent twice as long as the page stays.*)
(*                                                                         *)
(* LogBus, with its bounded queues, its locks and its pages that stop      *)
(* reading, is checked and proved to implement this module.                *)
(***************************************************************************)
EXTENDS Sequences, SequencesExt

CONSTANTS
  Client,   \* the pages
  Record    \* the lines, with "from", the thread that logs them

VARIABLES
  ring,     \* the lines kept for a page that comes
  due,      \* the lines logged that are not yet in the stream of a page
  page,     \* "new", "replay", "live" (it follows the bus) or "closed"
  stream,   \* what is in the stream of each page, received or not
  got       \* what it has received

vars == <<ring, due, page, stream, got>>

Due(c, r) == [to |-> c, line |-> r]

Init ==
  /\ ring = <<>> /\ due = {}
  /\ page = [c \in Client |-> "new"]
  /\ stream = [c \in Client |-> <<>>]
  /\ got = [c \in Client |-> <<>>]

\* A thread logs a line when its line before is in every stream.
Log(r) ==
  /\ \A d \in due : d.line.from # r.from
  /\ ring' \in {Append(ring, r), Tail(Append(ring, r))}
  /\ due' = due \union {Due(c, r) : c \in {c \in Client : page[c] = "live"}}
  /\ UNCHANGED <<page, stream, got>>

Deliver(c, r) ==
  /\ Due(c, r) \in due
  /\ due' = due \ {Due(c, r)}
  /\ stream' = [stream EXCEPT ![c] = IF page[c] = "live" THEN Append(@, r) ELSE @]
  /\ UNCHANGED <<ring, page, got>>

Open(c) ==
  /\ page[c] = "new"
  /\ page' = [page EXCEPT ![c] = "replay"]
  /\ stream' = [stream EXCEPT ![c] = ring]
  /\ UNCHANGED <<ring, due, got>>

\* It follows the bus when it has received the ring.
Follow(c) ==
  /\ page[c] = "replay" /\ got[c] = stream[c]
  /\ page' = [page EXCEPT ![c] = "live"]
  /\ UNCHANGED <<ring, due, stream, got>>

\* The next line of its stream.
Receive(c) ==
  /\ page[c] \in {"replay", "live"}
  /\ \E r \in Record :
       /\ IsPrefix(Append(got[c], r), stream[c])
       /\ got' = [got EXCEPT ![c] = Append(@, r)]
  /\ UNCHANGED <<ring, due, page, stream>>

\* What it has not received is gone with it.
Leave(c) ==
  /\ page[c] \in {"replay", "live"}
  /\ page' = [page EXCEPT ![c] = "closed"]
  /\ stream' = [stream EXCEPT ![c] = got[c]]
  /\ UNCHANGED <<ring, due, got>>

Next ==
  \/ \E r \in Record : Log(r)
  \/ \E c \in Client : \/ Open(c) \/ Follow(c) \/ Receive(c) \/ Leave(c)
                       \/ \E r \in Record : Deliver(c, r)

Spec == Init /\ [][Next]_vars

=============================================================================
