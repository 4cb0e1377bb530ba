-------------------------------- MODULE Socks --------------------------------
(***************************************************************************)
(* socks5_connect of backend/torando_gui/socks.py, which the exit check of *)
(* netcheck.py tunnels through: two answers of the proxy, the second with  *)
(* an address whose length depends on its type, and then the tunnel.       *)
(***************************************************************************)
EXTENDS Sockets

CONSTANTS
  Greetings, \* the proxy's answers to the greeting, as bytes
  Grants,    \* its answers to the request
  Tunnelled  \* what the destination sends through the tunnel

\* Byte i of answer re (3 is what comes through the tunnel).
Byte(re, i, value) == [re |-> re, i |-> i, value |-> value]
Bytes(re, values) == [i \in 1..Len(values) |-> Byte(re, i, values[i])]

\* RFC 1928: [version, method]; and [version, status, reserved, type], with
\* the address, whose length its type or its first byte gives, and the port.
\* An answer that grants nothing may have any length.
SocksAssumption ==
  /\ Greetings \subseteq Seq(0..255) /\ Grants \subseteq Seq(0..255)
  /\ Tunnelled \in Seq(0..255)
  /\ \A reply \in Greetings : Len(reply) = 2
  /\ \A reply \in Grants :
       /\ Len(reply) >= 4
       /\ reply[1] = 5 /\ reply[2] = 0 =>
            /\ reply[4] = 1 => Len(reply) = 10
            /\ reply[4] = 4 => Len(reply) = 22
            /\ reply[4] = 3 => Len(reply) >= 5 /\ Len(reply) = 7 + reply[5]

\* reply_bound_len
BoundLen(atyp) == IF atyp = 1 THEN 4 ELSE 16

\* On to a place where _recv_exact(n) is called.
Needs(n, place) == at' = place /\ need' = n /\ UNCHANGED result

\* The proxy answers the greeting, and the request.
Connects ==
  /\ at = "idle"
  /\ \/ /\ Needs(2, "method")
        /\ \E reply \in Greetings : Sends(reply, Bytes(1, reply))
     \/ Ends("OSError") /\ UNCHANGED <<wire, sent, need>>
  /\ UNCHANGED <<open, buf, got, lines, data>>

\* _recv_exact: never more than is missing.
RecvExact ==
  /\ at \notin {"idle", "over"} /\ Len(buf) < need
  /\ \/ /\ Receives(need - Len(buf))
        /\ UNCHANGED <<at, open, sent, got, lines, data, need, result>>
     \/ Starves("SocksError", "OSError")

\* The bytes are there, and used.
Value(i) == buf[i].value
Whole(place) == at = place /\ Len(buf) >= need /\ buf' = <<>>
Fails == Ends("SocksError") /\ UNCHANGED <<wire, sent, need>>

ParsesMethod ==
  /\ Whole("method")
  /\ IF Value(1) = 5 /\ Value(2) = 0
     THEN /\ Needs(4, "head")
          /\ \E reply \in Grants :
               Sends(reply, Bytes(2, reply) \o Bytes(3, Tunnelled))
     ELSE Fails
  /\ UNCHANGED <<open, got, lines, data>>

ParsesHead ==
  /\ Whole("head")
  /\ IF Value(1) = 5 /\ Value(2) = 0 /\ Value(4) \in {1, 3, 4}
     THEN /\ IF Value(4) = 3 THEN Needs(1, "length")
                             ELSE Needs(BoundLen(Value(4)) + 2, "address")
          /\ UNCHANGED <<wire, sent>>
     ELSE Fails
  /\ UNCHANGED <<open, got, lines, data>>

ParsesLength ==
  /\ Whole("length")
  /\ Needs(Value(1) + 2, "address")
  /\ UNCHANGED <<wire, open, sent, got, lines, data>>

SkipsAddress ==
  /\ Whole("address")
  /\ Ends("tunnel")
  /\ UNCHANGED <<wire, open, sent, got, lines, data, need>>

SocksStep ==
  Connects \/ RecvExact \/ ParsesMethod \/ ParsesHead \/ ParsesLength \/ SkipsAddress

=============================================================================
