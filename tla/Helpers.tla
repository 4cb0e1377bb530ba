------------------------------- MODULE Helpers -------------------------------
(***************************************************************************)
(* The parts of the daemon that decide nothing about the session but have  *)
(* to be right beside it: the clients of Tor's two ports, the location of  *)
(* the exit, the managed blocks, and the gates of the HTTP server.         *)
(*                                                                         *)
(* A behaviour is one session of a socket client, or one question to one   *)
(* of the algorithms.  What they are compared with is written from what    *)
(* they are for: the ranges and networks the databases were made from, the *)
(* lines of the user in a file, the rule of who may make the daemon act.   *)
(***************************************************************************)
EXTENDS Sockets, GeoData, ManagedBlock, Requests, FiniteSets

CONSTANTS
  Tables,    \* geoip files: sequences of lines
  Numbers,   \* the IPv4 addresses to look up in them
  Trees,     \* MaxMind databases: records [version, size, gap, networks]
  Limits,    \* numbers at the limits of the encodings
  Documents, \* values of a data section
  Texts,     \* torrc and pf.conf as the daemon may find them
  Configs,   \* what render_torrc_block looks at
  Anchors,   \* names of the pf anchor
  Asked,     \* requests
  Deep,      \* the recursion limit
  Answers,   \* what Tor may answer to a command
  Greetings, Grants, Tunnelled  \* what the SOCKS proxy may send

VARIABLES
  subject,   \* what this behaviour is about
  question,  \* what is asked of an algorithm
  answered   \* it was asked

C == INSTANCE ControlPort
S == INSTANCE Socks

ASSUME AnswersAreReplies == C!AnswersAssumption
ASSUME ProxySpeaksSocks == S!SocksAssumption
ASSUME AskedAreRequests == Asked \subseteq Request
ASSUME FilesAreTexts ==
  /\ Texts \subseteq Seq(STRING)
  /\ Configs \subseteq [windows : BOOLEAN, exit : BOOLEAN]
  /\ Anchors \subseteq STRING \ {"begin", "end"}

vars == <<subject, question, answered, socket>>

-----------------------------------------------------------------------------
(* The makers of the databases *)

\* n in so many bytes.
InBytes(n, bytes) == [i \in 1..bytes |-> (n \div 256^(bytes - i)) % 256]

Node(size, left, right) ==
  CASE size = 24 -> InBytes(left, 3) \o InBytes(right, 3)
    [] size = 28 -> InBytes(left % 2^24, 3)
                      \o <<(left \div 2^24) * 16 + right \div 2^24>>
                      \o InBytes(right % 2^24, 3)
    [] size = 32 -> InBytes(left, 4) \o InBytes(right, 4)

\* The tree of networks, sequences of bits of which none is the beginning of
\* another: a node for every beginning of one, numbered by their length.
Nodes(networks) ==
  LET inner == {<<>>} \union
        UNION {{SubSeq(net, 1, n) : n \in 0..(Len(net) - 1)} : net \in networks}
  IN SortSeq(SetToSeq(inner), LAMBDA a, b : Len(a) < Len(b))
Database(tree) ==
  LET nodes == Nodes(tree.networks)
      nets == SetToSeq(tree.networks)
      Count == Len(nodes)
      Record(bits) ==
        IF bits \in ToSet(nodes)
        THEN (CHOOSE i \in 1..Count : nodes[i] = bits) - 1
        ELSE Count + (IF bits \in tree.networks
                      THEN CHOOSE i \in 1..Len(nets) : nets[i] = bits ELSE 0)
  IN [size |-> tree.size, version |-> tree.version, gap |-> tree.gap, count |-> Count,
      buf |-> FlattenSeq([i \in 1..Count |->
                Node(tree.size, Record(Append(nodes[i], 0)), Record(Append(nodes[i], 1)))])]

\* The record of the network an address is in.
NetworkOf(tree, bits) ==
  LET nets == SetToSeq(tree.networks)
      hits == {i \in 1..Len(nets) : IsPrefix(nets[i], bits)}
  IN IF hits = {} THEN 0 ELSE CHOOSE i \in hits : TRUE

\* Sizes and pointers as MaxMind's format defines them.
SizeBytes(n) ==
  CASE n < 29               -> <<n>>
    [] n \in 29..284        -> <<29>> \o InBytes(n - 29, 1)
    [] n \in 285..65820     -> <<30>> \o InBytes(n - 285, 2)
    [] n > 65820            -> <<31>> \o InBytes(n - 65821, 3)
PointerBytes(n) ==
  CASE n < 2048             -> <<32 + n \div 2^8>> \o InBytes(n % 2^8, 1)
    [] n \in 2048..526335   -> <<40 + (n - 2048) \div 2^16>> \o InBytes((n - 2048) % 2^16, 2)
    [] n \in 526336..134744063 ->
         <<48 + (n - 526336) \div 2^24>> \o InBytes((n - 526336) % 2^24, 3)
    [] n > 134744063        -> <<56>> \o InBytes(n, 4)

\* A document as it is laid out: from the front, with some of its elements
\* behind it and pointers in their place.
Children(value) ==
  <<IF Len(value.of) % 2 = 0 THEN Item("map", Len(value.of) \div 2)
                             ELSE Item("array", Len(value.of))>> \o value.of
Open(part) == "of" \in DOMAIN part
LayOne(part) ==
  CASE ~Open(part)                       -> <<part>>
    [] Open(part) /\ part.of = <<>>  -> <<Item("leaf", part.leaf)>>
    [] Open(part) /\ part.of # <<>>  -> Children(part)
Laid(value) ==
  FoldLeft(LAMBDA parts, level : FlattenSeq([i \in DOMAIN parts |-> LayOne(parts[i])]),
           <<value>>, [level \in 1..Deep |-> level])
Pointed(value, away) ==
  LET front == Laid(value)
      store == SetToSeq(away \intersect {i \in DOMAIN front : front[i].is = "leaf"})
  IN [i \in DOMAIN front |->
        IF i \in ToSet(store)
        THEN Item("pointer", Len(front) + (CHOOSE k \in DOMAIN store : store[k] = i))
        ELSE front[i]]
     \o [k \in DOMAIN store |-> front[store[k]]]

-----------------------------------------------------------------------------
(* What is asked *)

Bits(n) == [1..n -> {0, 1}]

Questions ==
  [table : Tables, n : Numbers]
    \union [tree : Trees, version : {4}, bits : Bits(2)]
    \union [tree : Trees, version : {6}, bits : Bits(3)]
    \union [limit : Limits, beside : Limits]
    \union [document : Documents, away : SUBSET (1..5)]
    \union [torrc : Texts, cfg : Configs, next : Configs]
    \union [pfconf : Texts, anchor : Anchors, next : Anchors]
    \union Asked

Begin ==
  /\ subject = "question" /\ ~answered
  /\ answered' = TRUE
  /\ UNCHANGED <<subject, question, socket>>

Init ==
  /\ SocketInit /\ answered = FALSE
  /\ \/ subject \in {"control", "socks"} /\ question = <<>>
     \/ subject = "question" /\ question \in Questions

Next ==
  \/ Begin
  \/ subject = "control" /\ C!ControlStep /\ UNCHANGED <<subject, question, answered>>
  \/ subject = "socks" /\ S!SocksStep /\ UNCHANGED <<subject, question, answered>>
  \/ Closes /\ UNCHANGED <<subject, question, answered>>

Spec == Init /\ [][Next]_vars

-----------------------------------------------------------------------------
(* Properties *)

Answered(field) == answered /\ field \in DOMAIN question

\* Every reply TorControl takes is the whole answer to the command it was
\* sent for, whatever pieces it came in.
ControlInStep ==
  subject = "control" => \A k \in DOMAIN got : got[k] = C!Said(sent[k])

\* socks5_connect leaves in the tunnel what belongs to the tunnel.
TunnelClean ==
  result = "tunnel" => buf = <<>> /\ IsPrefix(wire, S!Bytes(3, Tunnelled))

\* A client of Tor never takes the end of one answer for the beginning of the
\* next, in whatever pieces the answers come and wherever they break off
\* (_read_reply of torctl.py, _recv_exact of socks.py).
RepliesInStep == ControlInStep /\ TunnelClean

\* A number belongs to the country of the range it is in.
CountryRight(q) ==
  LET ranges == {i \in DOMAIN q.table :
                   ~q.table[i].junk /\ q.n \in q.table[i].low..q.table[i].high}
      countries == {q.table[i].cc : i \in ranges} \ Unknown
  IN CountryOf(Load(q.table), q.n) =
       IF countries = {} THEN None ELSE CHOOSE cc \in countries : TRUE

\* An address has the record of the network it is in; one of IPv4 is in a
\* tree of IPv6 behind zeros, one of IPv6 is in no tree of IPv4.
RecordRight(q) ==
  LET Behind0 == IF q.version = 4 /\ q.tree.version = 6
                 THEN [i \in 1..q.tree.gap |-> 0] ELSE <<>>
  IN Get(Database(q.tree), q.bits, q.version) =
       IF q.version = 6 /\ q.tree.version = 4 THEN 0
       ELSE NetworkOf(q.tree, Behind0 \o q.bits)

\* Nodes, sizes and pointers are read as the format writes them.
NumbersRight(q) ==
  /\ \A size \in {24, 28, 32} :
       (size < 32 => q.limit < 2^size /\ q.beside < 2^size) =>
         LET db == [size |-> size, buf |-> Node(size, 0, 0)
                                            \o Node(size, q.limit, q.beside)]
         IN ReadNode(db, 1, 0) = q.limit /\ ReadNode(db, 1, 1) = q.beside
  /\ q.limit < 2^24 => LET bytes == SizeBytes(q.limit)
                       IN Size(Head(bytes), Tail(bytes)) = q.limit
  /\ LET bytes == PointerBytes(q.limit)
     IN Pointer(Head(bytes), Tail(bytes)) = q.limit

\* A document is the same with pointers to its parts as without, and ends
\* where its front ends.
DocumentRight(q) ==
  Decode(Pointed(q.document, q.away), 1, Deep) =
    Decoded(q.document, Len(Laid(q.document)) + 1)

\* The location shown for the exit is the one its database says (GeoIP.lookup,
\* MMDB.get, _read_node, _decode): at both ends of a range, between ranges, in
\* nodes that share a byte, across the gap between IPv6 and IPv4, and behind
\* pointers.
LookupRight ==
  /\ Answered("table") => CountryRight(question)
  /\ Answered("tree") => RecordRight(question)
  /\ Answered("limit") => NumbersRight(question)
  /\ Answered("document") => DocumentRight(question)

\* A block without its end goes on to the end of the file.
Inside(text, i) ==
  \E j \in 1..i : text[j] = "begin" /\ \A k \in j..(i - 1) : text[k] # "end"

\* What is the user's: outside of any block.  Newlines are not counted.
Own(text) ==
  LET Kept[n \in 0..Len(text)] ==
        IF n = 0 THEN <<>>
        ELSE IF text[n] = "nl" \/ Inside(text, n) THEN Kept[n - 1]
        ELSE Append(Kept[n - 1], text[n])
  IN Kept[Len(text)]
Begins(text) == Cardinality({i \in DOMAIN text : text[i] = "begin"})

TorrcRight(q) ==
  LET merged == MergeTorrc(q.torrc, Block(Directives(q.cfg)))
  IN /\ Begins(merged) = 1 /\ Holds(merged, Block(Directives(q.cfg)))
     /\ Own(merged) = Own(q.torrc)
     /\ MergeTorrc(merged, Block(Directives(q.next)))
          = MergeTorrc(q.torrc, Block(Directives(q.next)))

PfConfRight(q) ==
  LET wired == Wire(q.pfconf, Hook(q.anchor))
      again == Wire(wired, Hook(q.next))
  IN /\ Holds(wired, Hook(q.anchor)) /\ Wire(wired, Hook(q.anchor)) = wired
     /\ Own(wired) = Own(q.pfconf)
     /\ Begins(q.pfconf) <= 1 => Begins(wired) = 1 /\ Begins(again) = 1
     /\ Begins(q.pfconf) > 1 => Begins(again) <= Begins(q.pfconf)
     /\ Begins(q.pfconf) = 0 => Unwire(wired) = Terminate(q.pfconf)

\* merge_torrc leaves the directives of the configuration and no older ones,
\* however many blocks it finds.  wire_pf_conf leaves the hook of the
\* configuration, and no older one if it finds at most one block, whole or cut
\* short; of several it takes out the first, so that an older hook can stay,
\* but never more of them than there were.  Both keep everything of the user's
\* in its order, which is what is outside of blocks: behind a mark that begins
\* a block without an end, nothing is.  unwire_pf_conf takes out of pf.conf
\* what was put in.
BlocksReplaced ==
  /\ Answered("torrc") => TorrcRight(question)
  /\ Answered("pfconf") => PfConfRight(question)

\* The handler of server.py runs nothing for a request of another host or
\* without the token, and changes something only for a POST with the token in
\* its header, from its own page or from no page; a refusal has run nothing,
\* and a success has run what was asked.
ActsOnlyWhenAllowed ==
  Answered("method") =>
    LET reply == Handle(question)
    IN /\ reply.runs # "nothing" =>
            question.host = "ours" /\ "ours" \in {question.header, question.query}
       /\ reply.runs \in Changing =>
            /\ question.method = "POST" /\ question.header = "ours"
            /\ question.origin # "other" /\ question.body = "good"
       /\ reply.status \in {Unauthorized, Forbidden, NotFound} => reply.runs = "nothing"
       /\ reply.status = Ok /\ question.path \in Changing => reply.runs = question.path

=============================================================================
