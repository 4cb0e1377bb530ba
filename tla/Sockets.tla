------------------------------- MODULE Sockets -------------------------------
(***************************************************************************)
(* A TCP connection as the two clients of the daemon see it, TorControl    *)
(* (ControlPort) and socks5_connect (Socks): a stream that comes in pieces *)
(* of any size, ends at any point, or stays silent until the timeout.      *)
(* Helpers runs one of the two clients at a time.                          *)
(***************************************************************************)
EXTENDS Naturals, Sequences, SequencesExt

VARIABLES
  at,      \* where the client is, "idle" before and "over" after
  wire,    \* sent by the peer and not yet received
  open,    \* the peer has not closed
  buf,     \* received and not yet used
  sent,    \* history: the answers the peer sent
  got,     \* the answers the client took from them
  lines,   \* TorControl: the lines of the reply that is being read
  data,    \* TorControl: inside a block of data
  need,    \* socks5_connect: how many bytes it waits for
  result   \* how it ended

socket == <<at, wire, open, buf, sent, got, lines, data, need, result>>

\* The peer answers, if it is still there.
Sends(answer, bytes) ==
  /\ sent' = Append(sent, IF open THEN answer ELSE <<>>)
  /\ wire' = IF open THEN wire \o bytes ELSE wire

Ends(how) == at' = "over" /\ result' = how

\* recv: any piece of at most most bytes.
Receives(most) ==
  \E n \in 1..Len(wire) :
    /\ n <= most
    /\ buf' = buf \o SubSeq(wire, 1, n)
    /\ wire' = SubSeq(wire, n + 1, Len(wire))

\* recv: the peer has closed, or the timeout expires.
Starves(closed, timeout) ==
  /\ wire = <<>>
  /\ Ends(IF open THEN timeout ELSE closed)
  /\ UNCHANGED <<wire, open, buf, sent, got, lines, data, need>>

Closes ==
  /\ at \notin {"idle", "over"} /\ open /\ open' = FALSE
  /\ \E n \in 0..Len(wire) : wire' = SubSeq(wire, 1, n)
  /\ UNCHANGED <<at, buf, sent, got, lines, data, need, result>>

SocketInit ==
  /\ at = "idle" /\ wire = <<>> /\ open = TRUE /\ buf = <<>>
  /\ sent = <<>> /\ got = <<>> /\ lines = <<>> /\ data = FALSE /\ need = 0
  /\ result = "none"

=============================================================================
