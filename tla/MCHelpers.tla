------------------------------ MODULE MCHelpers ------------------------------
EXTENDS Helpers

\* Answers of one line, of several, with a block of data that looks like an
\* end, refusals, and one cut short.
MCAnswers ==
  LET Says(code, sep) == [code |-> code, sep |-> sep]
      End == Says("2", "space")
  IN {<<End>>, <<Says("2", "dash"), End>>,
      <<Says("2", "plus"), End, Says("dot", "none"), End>>,
      <<Says("2", "dash"), Says("5", "space")>>,
      <<Says("short", "none")>>}

\* Both versions of an address, a name and an empty one, a refusal, an
\* unknown type and another version.
MCGreetings == {<<5, 0>>, <<5, 255>>, <<4, 0>>}
MCGrants ==
  LET Zeros(n) == [i \in 1..n |-> 0]
      Head4(status, atyp) == <<5, status, 0, atyp>>
  IN {Head4(0, 1) \o Zeros(6), Head4(0, 4) \o Zeros(18), Head4(0, 3) \o <<2>> \o Zeros(4),
      Head4(0, 3) \o <<0>> \o Zeros(2), Head4(5, 1) \o Zeros(6), Head4(0, 9) \o Zeros(2),
      <<4, 0, 0, 1>>}
MCTunnelled == <<7, 7>>

MCTables ==
  LET Entry(low, high, cc) == [junk |-> FALSE, low |-> low, high |-> high, cc |-> cc]
      Junk == [junk |-> TRUE, low |-> 0, high |-> 9, cc |-> "zz"]
      ranges == {Entry(1, 2, "de"), Entry(3, 5, "fr"), Entry(7, 7, "??"), Entry(8, 8, "se")}
  IN UNION {SetToSeqs(chosen) : chosen \in SUBSET (ranges \union {Junk})}
MCNumbers == 0..9

\* A network of IPv4 begins, in a tree of IPv6, with the zero of the gap.
MCTrees ==
  LET Free(networks) == \A a, b \in networks : a # b => ~IsPrefix(a, b)
      Of(version, nets) ==
        {[version |-> version, size |-> size, gap |-> 1, networks |-> n] :
           <<size, n>> \in {24, 28, 32} \X {n \in SUBSET nets : Free(n)}}
  IN Of(4, Bits(1) \union Bits(2)) \union Of(6, Bits(1) \union Bits(2) \union {<<0, 1, 0>>, <<0, 1, 1>>, <<1, 0, 1>>})

MCLimits == {0, 28, 29, 284, 285, 2047, 2048, 65820, 65821, 526335, 526336,
             2^24 - 1, 2^24, 134744063, 134744064, 2^28 - 1, 2^28, 2147483647}

MCDocuments ==
  LET Leaf(n) == Value(n, <<>>)
      pairs == {Value(0, <<Leaf(m), Leaf(n)>>) : m, n \in 1..2}
  IN {Leaf(1)} \union pairs
       \union {Value(0, <<Leaf(1), p, Leaf(2)>>) : p \in pairs}
       \union {Value(0, <<Leaf(3), Value(0, <<p>>)>>) : p \in pairs}

MCTexts == UNION {[1..n -> {"user", "begin", "end", "nl"}] : n \in 0..5}
MCConfigs == [windows : BOOLEAN, exit : BOOLEAN]
MCAnchors == {"anchor A", "anchor B"}

MCAsked == Request

=============================================================================
