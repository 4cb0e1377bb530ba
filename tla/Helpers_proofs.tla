--------------------------- MODULE Helpers_proofs ----------------------------
(***************************************************************************)
(* The clients of Tor's ports stay in step with the answers they read, the *)
(* HTTP server acts only for whom it may, and what the user wrote around a *)
(* managed block survives every writing of it.                             *)
(*                                                                         *)
(* Both clients read one stream from its front.  What ties them to it is   *)
(* the place they have reached in it: what was received and is not used    *)
(* yet, and behind it what is still on the wire, is the stream from there, *)
(* as far as the peer has sent it.                                         *)
(***************************************************************************)
EXTENDS Helpers, SequenceLemmas, FiniteSetTheorems, FunctionTheorems

\* Received is in front of coming, and both are in the stream from place pos.
Follows(received, coming, stream, pos) ==
  /\ pos \in Nat /\ pos + Len(received) + Len(coming) <= Len(stream)
  /\ \A i \in 1..Len(received) : received[i] = stream[pos + i]
  /\ \A i \in 1..Len(coming) : coming[i] = stream[pos + Len(received) + i]

\* A piece of the stream arrives.
LEMMA Arrives ==
  ASSUME NEW T, NEW stream \in Seq(T), NEW b \in Seq(T), NEW w \in Seq(T), NEW pos,
         Follows(b, w, stream, pos), NEW n \in 1..Len(w)
  PROVE  LET b2 == b \o SubSeq(w, 1, n)
             w2 == SubSeq(w, n + 1, Len(w))
         IN /\ b2 \in Seq(T) /\ w2 \in Seq(T) /\ Len(b2) = Len(b) + n
            /\ Follows(b2, w2, stream, pos)
<1> DEFINE piece == SubSeq(w, 1, n)
           b2 == b \o piece
           w2 == SubSeq(w, n + 1, Len(w))
<1>1. Len(w) \in Nat /\ Len(b) \in Nat /\ n \in Nat /\ 1 <= n /\ n <= Len(w)
  OBVIOUS
<1>2. piece \in Seq(T) /\ Len(piece) = n /\ \A i \in 1..n : piece[i] = w[i]
  BY <1>1
<1>3. w2 \in Seq(T) /\ Len(w2) = Len(w) - n /\ \A i \in 1..(Len(w) - n) : w2[i] = w[n + i]
  BY <1>1
<1> HIDE DEF piece, w2
<1>4. /\ b2 \in Seq(T) /\ Len(b2) = Len(b) + n
      /\ \A i \in 1..(Len(b) + n) : b2[i] = IF i <= Len(b) THEN b[i] ELSE piece[i - Len(b)]
  BY <1>2, ConcatProperties
<1> HIDE DEF b2
<1>5. ASSUME NEW i \in 1..Len(b2) PROVE b2[i] = stream[pos + i]
  <2>1. CASE i <= Len(b)
    <3>1. i \in 1..Len(b)
      BY <1>1, <1>4, <2>1
    <3> QED BY <3>1, <2>1, <1>4 DEF Follows
  <2>2. CASE ~(i <= Len(b))
    <3>1. /\ i - Len(b) \in 1..n /\ i - Len(b) \in 1..Len(w)
          /\ (pos + Len(b)) + (i - Len(b)) = pos + i
      BY <1>1, <1>4, <2>2 DEF Follows
    <3>2. b2[i] = w[i - Len(b)]
      BY <3>1, <2>2, <1>2, <1>4
    <3> QED BY <3>1, <3>2 DEF Follows
  <2> QED BY <2>1, <2>2
<1>6. ASSUME NEW i \in 1..Len(w2) PROVE w2[i] = stream[pos + Len(b2) + i]
  <2>1. /\ i \in 1..(Len(w) - n) /\ n + i \in 1..Len(w)
        /\ pos + Len(b2) + i = pos + Len(b) + (n + i)
    BY <1>1, <1>3, <1>4 DEF Follows
  <2> QED BY <2>1, <1>3 DEF Follows
<1>7. pos \in Nat /\ pos + Len(b2) + Len(w2) <= Len(stream)
  BY <1>1, <1>3, <1>4 DEF Follows
<1> QED BY <1>3, <1>4, <1>5, <1>6, <1>7 DEF Follows, b2, w2, piece

\* The end of the stream is lost.
LEMMA BreaksOff ==
  ASSUME NEW T, NEW stream \in Seq(T), NEW b \in Seq(T), NEW w \in Seq(T), NEW pos,
         Follows(b, w, stream, pos), NEW n \in 0..Len(w)
  PROVE  SubSeq(w, 1, n) \in Seq(T) /\ Follows(b, SubSeq(w, 1, n), stream, pos)
<1>1. /\ n \in Nat /\ n <= Len(w) /\ Len(w) \in Nat /\ Len(b) \in Nat
      /\ SubSeq(w, 1, n) \in Seq(T) /\ Len(SubSeq(w, 1, n)) = n
      /\ \A i \in 1..n : SubSeq(w, 1, n)[i] = w[i] /\ i \in 1..Len(w)
  OBVIOUS
<1> QED BY <1>1 DEF Follows

\* The first k elements that have arrived are used.
LEMMA IsUsed ==
  ASSUME NEW T, NEW stream \in Seq(T), NEW b \in Seq(T), NEW w \in Seq(T), NEW pos,
         Follows(b, w, stream, pos), NEW k \in 0..Len(b)
  PROVE  LET b2 == SubSeq(b, k + 1, Len(b))
         IN /\ b2 \in Seq(T) /\ Len(b2) = Len(b) - k
            /\ Follows(b2, w, stream, pos + k)
<1> DEFINE b2 == SubSeq(b, k + 1, Len(b))
<1>1. k \in Nat /\ k <= Len(b) /\ Len(w) \in Nat /\ Len(b) \in Nat /\ pos \in Nat
  BY DEF Follows
<1>2. b2 \in Seq(T) /\ Len(b2) = Len(b) - k /\ \A i \in 1..(Len(b) - k) : b2[i] = b[k + i]
  BY <1>1
<1> HIDE DEF b2
<1>3. ASSUME NEW i \in 1..Len(b2) PROVE b2[i] = stream[pos + k + i]
  <2>1. i \in 1..(Len(b) - k) /\ k + i \in 1..Len(b) /\ pos + (k + i) = pos + k + i
    BY <1>1, <1>2
  <2> QED BY <2>1, <1>2 DEF Follows
<1>4. ASSUME NEW i \in 1..Len(w) PROVE w[i] = stream[pos + k + Len(b2) + i]
  <2>1. pos + k + Len(b2) + i = pos + Len(b) + i
    BY <1>1, <1>2
  <2> QED BY <2>1 DEF Follows
<1>5. pos + k \in Nat /\ pos + k + Len(b2) + Len(w) <= Len(stream)
  BY <1>1, <1>2 DEF Follows
<1> QED BY <1>2, <1>3, <1>4, <1>5 DEF Follows, b2

\* Nothing is left of a stream that was used to its end.
LEMMA UsedUp ==
  ASSUME NEW T, NEW b \in Seq(T), NEW w \in Seq(T), NEW stream \in Seq(T),
         Follows(b, w, stream, Len(stream))
  PROVE  b = <<>> /\ w = <<>>
<1>1. Len(b) = 0 /\ Len(w) = 0
  BY DEF Follows
<1> QED BY <1>1

\* A new stream, of which none has arrived, or which was never sent.
LEMMA Begins0 ==
  ASSUME NEW T, NEW stream \in Seq(T), NEW b \in Seq(T), NEW w \in Seq(T),
         b = <<>>, w = stream \/ w = <<>>
  PROVE  Follows(b, w, stream, 0)
BY DEF Follows

-----------------------------------------------------------------------------
(* TorControl *)

Part == [re : Nat, code : {"2", "5", "dot", "short", "CR", "LF"},
         sep : {"space", "dash", "plus", "none"}]

\* A reply nothing follows the end of.
Good(reply) ==
  reply \in Seq(Part) /\ \A i \in 1..(Len(reply) - 1) : ~C!IsEnd(reply, i)

\* The reply that is being read, and that its first n lines are.
Latest == sent[Len(sent)]
Midway(n) ==
  /\ Follows(buf, wire, C!OnWire(Latest), 3 * n)
  /\ lines = C!Says(Latest)[n]
  /\ data <=> C!InData(Latest, n + 1)

ControlTypes ==
  /\ at \in {"idle", "over"} \union C!Asking
  /\ wire \in Seq(Part) /\ open \in BOOLEAN /\ buf \in Seq(Part)
  /\ sent \in Seq(Seq(Part)) /\ got \in Seq(Seq(Part))
  /\ lines \in Seq(Part) /\ data \in BOOLEAN

\* What was taken is what was said, and the next reply is being read.
ControlOK ==
  /\ ControlTypes
  /\ Len(got) <= Len(sent) /\ \A k \in 1..Len(got) : got[k] = C!Said(sent[k])
  /\ result # "tunnel"
  /\ at = "idle" =>
       wire = <<>> /\ buf = <<>> /\ sent = <<>> /\ got = <<>> /\ lines = <<>> /\ ~data
  /\ at \in C!Asking =>
       /\ Len(sent) = Len(got) + 1 /\ Good(Latest)
       /\ \E n \in 0..Len(Latest) : Midway(n)

LEMMA Commands ==
  /\ C!Asking = {"PROTOCOLINFO", "AUTHENTICATE", "question"}
  /\ \A i \in 1..3 : C!Command[i] \in C!Asking
<1>1. DOMAIN C!Command = 1..3
  BY DEF C!Command
<1>2. /\ C!Command[1] = "PROTOCOLINFO" /\ C!Command[2] = "AUTHENTICATE"
      /\ C!Command[3] = "question"
  BY DEF C!Command
<1>3. \A i \in 1..3 : i = 1 \/ i = 2 \/ i = 3
  OBVIOUS
<1>4. 1 \in 1..3 /\ 2 \in 1..3 /\ 3 \in 1..3
  OBVIOUS
<1>5. C!Asking = {C!Command[i] : i \in 1..3}
  BY <1>1 DEF C!Asking, C!ToSet
<1> QED BY <1>2, <1>3, <1>4, <1>5

\* A line every three elements.
LEMMA LinesOnWire ==
  ASSUME NEW reply \in Seq(Part)
  PROVE  /\ C!OnWire(reply) \in Seq(Part) /\ Len(C!OnWire(reply)) = 3 * Len(reply)
         /\ \A n \in 0..(Len(reply) - 1) : C!OnWire(reply)[3 * n + 1] = reply[n + 1]
<1>1. Len(reply) \in Nat
  OBVIOUS
<1>2. ASSUME NEW i \in 1..(3 * Len(reply)) PROVE C!OnWire(reply)[i] \in Part
  <2>1. i % 3 = 0 \/ i % 3 = 1 \/ i % 3 = 2
    BY <1>1
  <2>2. CASE i % 3 = 1
    <3>1. (i + 2) \div 3 \in 1..Len(reply)
      BY <1>1, <2>2
    <3> QED BY <3>1, <2>2 DEF C!OnWire
  <2>3. CASE i % 3 = 2
    <3>1. (i + 1) \div 3 \in 1..Len(reply)
      BY <1>1, <2>3
    <3> DEFINE line == reply[(i + 1) \div 3]
    <3>2. line \in Part
      BY <3>1
    <3>3. C!OnWire(reply)[i] = C!Line(line.re, "CR", "none")
      BY <2>3 DEF C!OnWire
    <3> HIDE DEF line
    <3> QED BY <3>2, <3>3 DEF Part, C!Line
  <2>4. CASE i % 3 = 0
    <3>1. i \div 3 \in 1..Len(reply)
      BY <1>1, <2>4
    <3> DEFINE line == reply[i \div 3]
    <3>2. line \in Part
      BY <3>1
    <3>3. C!OnWire(reply)[i] = C!Line(line.re, "LF", "none")
      BY <2>4 DEF C!OnWire
    <3> HIDE DEF line
    <3> QED BY <3>2, <3>3 DEF Part, C!Line
  <2> QED BY <2>1, <2>2, <2>3, <2>4
<1>3. 3 * Len(reply) \in Nat /\ DOMAIN C!OnWire(reply) = 1..(3 * Len(reply))
  BY <1>1 DEF C!OnWire
<1>4. C!OnWire(reply) \in [1..(3 * Len(reply)) -> Part]
  BY <1>2 DEF C!OnWire
<1>5. ASSUME NEW n \in 0..(Len(reply) - 1)
      PROVE  C!OnWire(reply)[3 * n + 1] = reply[n + 1]
  <2>1. /\ 3 * n + 1 \in 1..(3 * Len(reply)) /\ (3 * n + 1) % 3 = 1
        /\ (3 * n + 1 + 2) \div 3 = n + 1
    BY <1>1
  <2> QED BY <2>1, SMTT(30) DEF C!OnWire
<1>6. C!OnWire(reply) \in Seq(Part) /\ Len(C!OnWire(reply)) = 3 * Len(reply)
  BY <1>3, <1>4
<1> QED BY <1>5, <1>6

\* What a reply says, line by line.
LEMMA SaysStep ==
  ASSUME NEW reply \in Seq(Part)
  PROVE  /\ C!Says(reply)[0] = <<>>
         /\ \A n \in 0..Len(reply) : C!Says(reply)[n] \in Seq(Part)
         /\ \A n \in 1..Len(reply) :
              C!Says(reply)[n] = IF reply[n].code = "dot" THEN C!Says(reply)[n - 1]
                                 ELSE Append(C!Says(reply)[n - 1], reply[n])
<1> DEFINE N == Len(reply)
           Step == [p \in Seq(Part) \X (1..N) |->
                      IF reply[p[2]].code = "dot" THEN p[1] ELSE Append(p[1], reply[p[2]])]
           Is(g) == g = [n \in 0..N |->
                           IF n = 0 THEN <<>>
                           ELSE IF reply[n].code = "dot" THEN g[n - 1]
                           ELSE Append(g[n - 1], reply[n])]
<1>1. N \in Nat /\ \A n \in 1..N : reply[n] \in Part
  OBVIOUS
<1>2. Step \in [Seq(Part) \X (1..N) -> Seq(Part)]
  <2>1. ASSUME NEW p \in Seq(Part) \X (1..N) PROVE Step[p] \in Seq(Part)
    <3>1. p[1] \in Seq(Part) /\ reply[p[2]] \in Part
      BY <1>1
    <3> QED BY <3>1
  <2> QED BY <2>1
<1>3. <<>> \in Seq(Part)
  OBVIOUS
<1>4. PICK g \in [0..N -> Seq(Part)] :
        g[0] = <<>> /\ \A i \in 1..N : g[i] = Step[<<g[i - 1], i>>]
  <2> DEFINE Parts == Seq(Part)
             nothing == <<>>
  <2>1. Step \in [Parts \X (1..N) -> Parts] /\ nothing \in Parts
    BY <1>2, <1>3
  <2> HIDE DEF N, Step, Parts, nothing
  <2>2. \E g : Computes(g, N, Parts, nothing, Step)
    BY <1>1, <2>1, StepByStep
  <2> QED BY <2>2 DEF Computes, Parts, nothing
<1>5. Is(g)
  <2>1. ASSUME NEW n \in 0..N, n # 0
        PROVE  g[n] = IF reply[n].code = "dot" THEN g[n - 1] ELSE Append(g[n - 1], reply[n])
    <3>1. n \in 1..N /\ n - 1 \in 0..N
      BY <1>1, <2>1
    <3>2. <<g[n - 1], n>> \in Seq(Part) \X (1..N)
      BY <3>1
    <3> QED BY <3>1, <3>2, <1>4
  <2> HIDE DEF Step
  <2> QED BY <2>1, <1>4
<1>6. Is(C!Says(reply))
  <2>1. C!Says(reply) = CHOOSE h : Is(h)
    BY DEF C!Says
  <2> HIDE DEF Is
  <2> QED BY <2>1, <1>5
<1> DEFINE f == C!Says(reply)
<1>7. f[0] = <<>>
  <2>1. 0 \in 0..N
    BY <1>1
  <2> QED BY <1>6, <2>1
<1>8. \A n \in 1..N : f[n] = IF reply[n].code = "dot" THEN f[n - 1] ELSE Append(f[n - 1], reply[n])
  <2>1. \A n \in 1..N : n \in 0..N /\ n # 0
    BY <1>1
  <2> QED BY <1>6, <2>1
<1>9. \A n \in 0..N : f[n] \in Seq(Part)
  <2> DEFINE P == {n \in 0..N : f[n] \in Seq(Part)}
  <2> HIDE DEF f, Is
  <2>0. f[0] \in Seq(Part)
    BY <1>7
  <2>1. 0 \in P
    BY <1>1, <2>0
  <2>2. ASSUME NEW i \in 0..N, i \in P, i + 1 \in 0..N PROVE i + 1 \in P
    <3>1. i + 1 \in 1..N /\ (i + 1) - 1 = i
      BY <1>1, <2>2
    <3>2. f[i + 1] = IF reply[i + 1].code = "dot" THEN f[i] ELSE Append(f[i], reply[i + 1])
      BY <3>1, <1>8
    <3>3. f[i] \in Seq(Part) /\ reply[i + 1] \in Part
      BY <3>1, <2>2, <1>1
    <3>4. Append(f[i], reply[i + 1]) \in Seq(Part)
      BY <3>3
    <3>5. f[i + 1] \in Seq(Part)
      BY <3>2, <3>3, <3>4
    <3> QED BY <3>5, <2>2
  <2>3. P \in SUBSET (0..N)
    OBVIOUS
  <2>4. P = 0..N
    <3> HIDE DEF P, N
    <3> QED BY <1>1, <2>1, <2>2, <2>3, UpTo
  <2> QED BY <2>4
<1> HIDE DEF Is
<1> QED BY <1>7, <1>8, <1>9

\* A line decides with the state before it whether data follows.
LEMMA DataStep ==
  ASSUME NEW reply \in Seq(Part), NEW n \in 1..Len(reply)
  PROVE  C!InData(reply, n + 1) <=>
           IF C!InData(reply, n) THEN reply[n].code # "dot"
                                 ELSE reply[n].code = "2" /\ reply[n].sep = "plus"
<1>1. n \in Nat /\ (n + 1) - 1 = n /\ n >= 1
  OBVIOUS
<1>2. ASSUME C!InData(reply, n), reply[n].code # "dot" PROVE C!InData(reply, n + 1)
  <2>1. PICK j \in 1..(n - 1) :
          /\ reply[j].code = "2" /\ reply[j].sep = "plus"
          /\ \A k \in (j + 1)..(n - 1) : reply[k].code # "dot"
    BY <1>2 DEF C!InData
  <2>2. j \in 1..n /\ \A k \in (j + 1)..n : k \in (j + 1)..(n - 1) \/ k = n
    BY <1>1
  <2>3. \A k \in (j + 1)..n : reply[k].code # "dot"
    BY <2>1, <2>2, <1>2
  <2> QED BY <1>1, <2>1, <2>2, <2>3 DEF C!InData
<1>3. ASSUME reply[n].code = "2", reply[n].sep = "plus" PROVE C!InData(reply, n + 1)
  <2>1. n \in 1..n /\ (n + 1)..n = {}
    BY <1>1
  <2> QED BY <1>1, <1>3, <2>1 DEF C!InData
<1>4. ASSUME C!InData(reply, n + 1)
      PROVE  \/ C!InData(reply, n) /\ reply[n].code # "dot"
             \/ reply[n].code = "2" /\ reply[n].sep = "plus"
  <2>1. PICK j \in 1..n :
          /\ reply[j].code = "2" /\ reply[j].sep = "plus"
          /\ \A k \in (j + 1)..n : reply[k].code # "dot"
    BY <1>1, <1>4 DEF C!InData
  <2>2. CASE j = n
    BY <2>1, <2>2
  <2>3. CASE j # n
    <3>1. j \in 1..(n - 1) /\ n \in (j + 1)..n /\ (j + 1)..(n - 1) \subseteq (j + 1)..n
      BY <1>1, <2>3
    <3> QED BY <3>1, <2>1 DEF C!InData
  <2> QED BY <2>2, <2>3
<1> QED BY <1>2, <1>3, <1>4

LEMMA NoDataYet == ASSUME NEW reply PROVE ~C!InData(reply, 1)
BY DEF C!InData

\* What Tor answers is a reply in good order.
LEMMA RepliesGood ==
  ASSUME NEW re \in Nat, NEW answer \in Answers
  PROVE  Good(C!Reply(re, answer))
<1> DEFINE reply == C!Reply(re, answer)
<1>1. answer \in Seq(C!Shape) /\ \A i \in 1..(Len(answer) - 1) : ~C!IsEnd(answer, i)
  BY AnswersAreReplies DEF C!AnswersAssumption
<1>2. Len(answer) \in Nat /\ \A i \in 1..Len(answer) : answer[i] \in C!Shape
  BY <1>1
<1>3. \A i \in 1..Len(answer) :
        /\ reply[i] \in Part
        /\ reply[i].code = answer[i].code /\ reply[i].sep = answer[i].sep
  BY <1>2 DEF C!Reply, C!Line, C!Shape, Part
<1>4. reply \in Seq(Part) /\ Len(reply) = Len(answer)
  <2>1. reply \in [1..Len(answer) -> Part]
    BY <1>3 DEF C!Reply
  <2> QED BY <2>1, <1>2
<1> HIDE DEF reply
<1>5. ASSUME NEW i \in 1..(Len(answer) - 1) PROVE ~C!IsEnd(reply, i)
  <2>1. i \in 1..Len(answer) /\ \A j \in 1..(i - 1) : j \in 1..Len(answer)
    BY <1>2
  <2>2. \A j \in 1..(i - 1) : \A k \in (j + 1)..(i - 1) : k \in 1..Len(answer)
    BY <1>2
  <2>3. C!InData(reply, i) <=> C!InData(answer, i)
    BY <2>1, <2>2, <1>3 DEF C!InData
  <2>4. ~C!IsEnd(answer, i)
    BY <1>1
  <2> QED BY <2>1, <2>3, <2>4, <1>3 DEF C!IsEnd
<1> QED BY <1>4, <1>5 DEF Good, reply

\* A command is sent, and what Tor answers to it comes alone.
LEMMA AsksNext ==
  ASSUME sent \in Seq(Seq(Part)), wire = <<>>, buf' = <<>>, open \in BOOLEAN,
         lines' = <<>>, ~data', data' \in BOOLEAN,
         NEW i \in 1..3, C!Asks(i)
  PROVE  /\ at' \in C!Asking /\ wire' \in Seq(Part)
         /\ sent' \in Seq(Seq(Part)) /\ Len(sent') = Len(sent) + 1
         /\ \A k \in 1..Len(sent) : sent'[k] = sent[k]
         /\ Good(Latest') /\ Midway(0)'
<1>1. PICK answer \in Answers :
        C!Sends(C!Reply(i, answer), C!OnWire(C!Reply(i, answer)))
  BY DEF C!Asks
<1> DEFINE reply == IF open THEN C!Reply(i, answer) ELSE <<>>
           onwire == C!OnWire(C!Reply(i, answer))
<1>2. Good(C!Reply(i, answer)) /\ Good(<<>>)
  <2>1. i \in Nat
    OBVIOUS
  <2>2. <<>> \in Seq(Part) /\ 1..(Len(<<>>) - 1) = {}
    OBVIOUS
  <2> QED BY <2>1, <2>2, RepliesGood DEF Good
<1>3. Good(reply) /\ reply \in Seq(Part) /\ onwire \in Seq(Part)
  BY <1>2, LinesOnWire DEF Good
<1>4. sent' = Append(sent, reply) /\ wire' = (IF open THEN wire \o onwire ELSE wire)
  BY <1>1 DEF C!Sends
<1>5. wire' = (IF open THEN onwire ELSE <<>>) /\ wire' \in Seq(Part)
  BY <1>3, <1>4
<1>6. wire' = C!OnWire(reply) \/ wire' = <<>>
  BY <1>5
<1>7. C!OnWire(reply) \in Seq(Part) /\ C!Says(reply)[0] = <<>> /\ ~C!InData(reply, 1)
  BY <1>3, LinesOnWire, SaysStep, NoDataYet
<1> HIDE DEF reply, onwire
<1>8. /\ sent' \in Seq(Seq(Part)) /\ Len(sent') = Len(sent) + 1 /\ Len(sent) \in Nat
      /\ \A k \in 1..Len(sent) : sent'[k] = sent[k]
      /\ sent'[Len(sent) + 1] = reply
  <2> DEFINE Replies == Seq(Part)
  <2>1. sent \in Seq(Replies) /\ reply \in Replies
    BY <1>3
  <2> HIDE DEF Replies
  <2>2. /\ Append(sent, reply) \in Seq(Replies) /\ Len(Append(sent, reply)) = Len(sent) + 1
        /\ Len(sent) \in Nat
        /\ \A k \in 1..Len(sent) : Append(sent, reply)[k] = sent[k]
        /\ Append(sent, reply)[Len(sent) + 1] = reply
    BY <2>1
  <2> QED BY <2>2, <1>4 DEF Replies
<1>9. Latest' = reply
  BY <1>8 DEF Latest
<1>10. Follows(buf', wire', C!OnWire(reply), 0)
  <2> DEFINE received == buf'
             coming == wire'
             stream == C!OnWire(reply)
  <2>1. received = <<>> /\ (coming = stream \/ coming = <<>>) /\ received \in Seq(Part)
        /\ coming \in Seq(Part) /\ stream \in Seq(Part)
    BY <1>5, <1>6, <1>7
  <2> HIDE DEF received, coming, stream
  <2>2. Follows(received, coming, stream, 0)
    BY <2>1, Begins0
  <2> QED BY <2>2 DEF received, coming, stream
<1>11. Midway(0)'
  <2>1. 3 * 0 = 0 /\ 0 + 1 = 1
    OBVIOUS
  <2> QED BY <1>7, <1>9, <1>10, <2>1 DEF Midway
<1>12. at' \in C!Asking
  BY Commands DEF C!Asks
<1> QED BY <1>3, <1>5, <1>8, <1>9, <1>11, <1>12

\* Taking a line takes the next one of the reply.
LEMMA ReadsNext ==
  ASSUME ControlTypes, Latest \in Seq(Part), NEW n \in 0..Len(Latest), Midway(n),
         NEW l, C!Reads(l)
  PROVE  /\ n + 1 \in 1..Len(Latest) /\ l = Latest[n + 1] /\ l \in Part
         /\ buf' \in Seq(Part)
         /\ Follows(buf', wire, C!OnWire(Latest), 3 * (n + 1))
<1> DEFINE stream == C!OnWire(Latest)
<1>1. /\ stream \in Seq(Part) /\ Len(stream) = 3 * Len(Latest)
      /\ \A m \in 0..(Len(Latest) - 1) : stream[3 * m + 1] = Latest[m + 1]
  BY LinesOnWire
<1>2. /\ Len(buf) >= 3 /\ l = Head(buf) /\ buf' = SubSeq(buf, 4, Len(buf))
      /\ buf \in Seq(Part) /\ wire \in Seq(Part)
      /\ Len(buf) \in Nat /\ Len(wire) \in Nat /\ Len(Latest) \in Nat
  BY DEF C!Reads, C!HasLine, ControlTypes
<1>3. Follows(buf, wire, stream, 3 * n)
  BY DEF Midway
<1> HIDE DEF stream
<1>4. 3 * n + Len(buf) + Len(wire) <= 3 * Len(Latest)
  BY <1>1, <1>3 DEF Follows
<1>5. n + 1 \in 1..Len(Latest) /\ n \in 0..(Len(Latest) - 1)
  BY <1>2, <1>4
<1>6. buf[1] = stream[3 * n + 1]
  BY <1>2, <1>3 DEF Follows
<1>7. l = Latest[n + 1]
  BY <1>1, <1>2, <1>5, <1>6
<1>8. l \in Part
  BY <1>5, <1>7
<1>9. 3 \in 0..Len(buf) /\ 3 + 1 = 4 /\ 3 * n + 3 = 3 * (n + 1)
  BY <1>2
<1>10. buf' \in Seq(Part) /\ Follows(buf', wire, stream, 3 * (n + 1))
  <2>1. LET b2 == SubSeq(buf, 3 + 1, Len(buf))
        IN b2 \in Seq(Part) /\ Follows(b2, wire, stream, 3 * n + 3)
    BY <1>1, <1>2, <1>3, <1>9, IsUsed
  <2> QED BY <2>1, <1>2, <1>9
<1> QED BY <1>5, <1>7, <1>8, <1>10 DEF stream

\* The session is over, and the last reply was not taken.
LEMMA ControlEnds ==
  ASSUME ControlOK, at' = "over", result' # "tunnel",
         UNCHANGED <<open, sent, got, lines, data>>,
         wire' \in Seq(Part), buf' \in Seq(Part)
  PROVE  ControlOK'
<1>1. "over" \notin C!Asking /\ "over" # "idle"
  BY Commands
<1>2. ControlTypes'
  BY DEF ControlOK, ControlTypes
<1>3. (Len(got) <= Len(sent) /\ \A k \in 1..Len(got) : got[k] = C!Said(sent[k]))'
  BY DEF ControlOK
<1> QED BY <1>1, <1>2, <1>3 DEF ControlOK

\* The next line was read, and the reply goes on.
LEMMA ReadsOn ==
  ASSUME ControlOK, at \in C!Asking, NEW l, C!Reads(l),
         UNCHANGED <<at, wire, open, sent, got, result>>,
         lines' = IF l.code = "dot" THEN lines ELSE Append(lines, l),
         data' \in BOOLEAN,
         data' <=> IF data THEN l.code # "dot" ELSE l.code = "2" /\ l.sep = "plus"
  PROVE  ControlOK'
<1>1. PICK n \in 0..Len(Latest) : Midway(n)
  BY DEF ControlOK
<1>2. Latest \in Seq(Part) /\ ControlTypes /\ Latest' = Latest
  BY DEF ControlOK, Good, Latest
<1>3. /\ n + 1 \in 1..Len(Latest) /\ l = Latest[n + 1] /\ l \in Part
      /\ buf' \in Seq(Part)
      /\ Follows(buf', wire, C!OnWire(Latest), 3 * (n + 1))
  BY <1>1, <1>2, ReadsNext
<1>4. Len(Latest) \in Nat /\ n + 1 \in 0..Len(Latest) /\ (n + 1) - 1 = n
  BY <1>2, <1>3
<1>5. lines' = C!Says(Latest)[n + 1]
  <2>1. lines = C!Says(Latest)[n]
    BY <1>1 DEF Midway
  <2>2. C!Says(Latest)[n + 1] = IF Latest[n + 1].code = "dot" THEN C!Says(Latest)[(n + 1) - 1]
                                ELSE Append(C!Says(Latest)[(n + 1) - 1], Latest[n + 1])
    BY <1>2, <1>3, SaysStep
  <2> QED BY <1>3, <1>4, <2>1, <2>2
<1>6. lines' \in Seq(Part)
  BY <1>2, <1>4, <1>5, SaysStep
<1>7. data' <=> C!InData(Latest, (n + 1) + 1)
  BY <1>1, <1>2, <1>3, DataStep DEF Midway
<1>8. Midway(n + 1)'
  BY <1>2, <1>3, <1>5, <1>7 DEF Midway
<1>9. ControlTypes'
  BY <1>2, <1>3, <1>6 DEF ControlTypes
<1>10. Good(Latest') /\ n + 1 \in 0..Len(Latest') /\ at' \in C!Asking /\ at' # "idle"
  BY <1>2, <1>4, Commands DEF ControlOK
<1>11. (Len(got) <= Len(sent) /\ \A k \in 1..Len(got) : got[k] = C!Said(sent[k]))'
  BY DEF ControlOK
<1>12. Len(sent') = Len(got') + 1 /\ result' # "tunnel"
  BY DEF ControlOK
<1> QED BY <1>8, <1>9, <1>10, <1>11, <1>12 DEF ControlOK

LEMMA DialsOK == ASSUME ControlOK, C!Dials PROVE ControlOK'
<1>1. /\ at = "idle" /\ wire = <<>> /\ buf = <<>> /\ sent = <<>> /\ got = <<>>
      /\ lines = <<>> /\ ~data /\ ControlTypes
      /\ UNCHANGED <<open, buf, got, lines, data>>
  BY DEF ControlOK, C!Dials
<1>2. CASE C!Asks(1) /\ UNCHANGED result
  <2>1. sent \in Seq(Seq(Part)) /\ open \in BOOLEAN /\ data' \in BOOLEAN /\ 1 \in 1..3
    BY <1>1 DEF ControlTypes
  <2>2. /\ at' \in C!Asking /\ wire' \in Seq(Part)
        /\ sent' \in Seq(Seq(Part)) /\ Len(sent') = Len(sent) + 1
        /\ Good(Latest') /\ Midway(0)'
    BY <1>1, <1>2, <2>1, AsksNext
  <2>3. Len(sent') = 1 /\ Len(got') = 0 /\ 0 \in 0..Len(Latest')
    BY <1>1, <2>2 DEF Good
  <2>4. ControlTypes'
    BY <1>1, <2>2 DEF ControlTypes
  <2>5. at' # "idle" /\ result' # "tunnel"
    BY <2>2, <1>2, Commands DEF ControlOK
  <2>6. Len(got') <= Len(sent') /\ 1..Len(got') = {} /\ Len(sent') = Len(got') + 1
    BY <2>3
  <2> QED BY <2>2, <2>3, <2>4, <2>5, <2>6 DEF ControlOK
<1>3. CASE C!Ends("OSError") /\ UNCHANGED <<wire, sent>>
  <2>1. at' = "over" /\ result' # "tunnel" /\ wire' \in Seq(Part) /\ buf' \in Seq(Part)
    BY <1>1, <1>3 DEF C!Ends, ControlTypes
  <2> QED BY <1>1, <1>3, <2>1, ControlEnds
<1> QED BY <1>2, <1>3 DEF C!Dials

LEMMA RecvOK == ASSUME ControlOK, C!Recv PROVE ControlOK'
<1>1. at \in C!Asking /\ ControlTypes
  BY DEF ControlOK, C!Recv
<1>2. CASE C!Receives(4096) /\ UNCHANGED <<at, open, sent, got, lines, data, need, result>>
  <2>1. PICK n \in 0..Len(Latest) : Midway(n)
    BY <1>1 DEF ControlOK
  <2>2. Latest \in Seq(Part) /\ Latest' = Latest
    BY <1>1, <1>2 DEF ControlOK, Good, Latest
  <2>3. PICK m \in 1..Len(wire) :
          buf' = buf \o SubSeq(wire, 1, m) /\ wire' = SubSeq(wire, m + 1, Len(wire))
    BY <1>2, SMTT(30) DEF C!Receives
  <2>4. buf' \in Seq(Part) /\ wire' \in Seq(Part) /\ Follows(buf', wire', C!OnWire(Latest), 3 * n)
    <3> DEFINE stream == C!OnWire(Latest)
               pos == 3 * n
    <3>1. stream \in Seq(Part) /\ buf \in Seq(Part) /\ wire \in Seq(Part)
          /\ Follows(buf, wire, stream, pos)
      BY <2>1, <2>2, <1>1, LinesOnWire DEF Midway, ControlTypes
    <3> HIDE DEF stream, pos
    <3> QED BY <3>1, <2>3, Arrives DEF stream, pos
  <2>5. Midway(n)'
    BY <2>1, <2>2, <2>4, <1>2 DEF Midway
  <2>6. ControlTypes'
    BY <1>1, <1>2, <2>4 DEF ControlTypes
  <2>7. (Len(got) <= Len(sent) /\ \A k \in 1..Len(got) : got[k] = C!Said(sent[k]))'
    BY <1>2 DEF ControlOK
  <2>8. /\ at' # "idle" /\ result' # "tunnel" /\ Len(sent') = Len(got') + 1
        /\ Good(Latest') /\ n \in 0..Len(Latest')
    BY <1>1, <1>2, <2>2, Commands DEF ControlOK
  <2> QED BY <2>5, <2>6, <2>7, <2>8 DEF ControlOK
<1>3. CASE C!Starves(IF at = "question" THEN "empty" ELSE "ControlError", "OSError")
  <2>1. /\ at' = "over" /\ result' # "tunnel" /\ wire' \in Seq(Part) /\ buf' \in Seq(Part)
        /\ UNCHANGED <<open, sent, got, lines, data>>
    BY <1>1, <1>3 DEF C!Starves, C!Ends, ControlTypes
  <2> QED BY <2>1, ControlEnds
<1> QED BY <1>2, <1>3 DEF C!Recv

LEMMA DataLineOK == ASSUME ControlOK, C!DataLine PROVE ControlOK'
<1>1. PICK l : /\ C!Reads(l) /\ data /\ l.code # "dot"
               /\ lines' = Append(lines, l)
               /\ UNCHANGED <<at, wire, open, sent, got, data, need, result>>
  BY DEF C!DataLine
<1>2. at \in C!Asking /\ data' \in BOOLEAN
  BY <1>1 DEF C!Reads, ControlOK, ControlTypes
<1> QED BY <1>1, <1>2, ReadsOn

LEMMA DataEndsOK == ASSUME ControlOK, C!DataEnds PROVE ControlOK'
<1>1. PICK l : /\ C!Reads(l) /\ data /\ l.code = "dot"
               /\ data' = FALSE
               /\ UNCHANGED <<at, wire, open, sent, got, lines, need, result>>
  BY DEF C!DataEnds
<1>2. at \in C!Asking
  BY <1>1 DEF C!Reads
<1> QED BY <1>1, <1>2, ReadsOn

LEMMA MiddleLineOK == ASSUME ControlOK, C!MiddleLine PROVE ControlOK'
<1>1. PICK l : /\ C!Reads(l) /\ ~data /\ l.code = "2" /\ l.sep # "space"
               /\ lines' = Append(lines, l)
               /\ data' = (l.sep = "plus")
               /\ UNCHANGED <<at, wire, open, sent, got, need, result>>
  BY DEF C!MiddleLine
<1>2. at \in C!Asking
  BY <1>1 DEF C!Reads
<1>3. data' \in BOOLEAN /\ (data' <=> l.sep = "plus")
  BY <1>1
<1>4. lines' = IF l.code = "dot" THEN lines ELSE Append(lines, l)
  BY <1>1
<1>5. data' <=> IF data THEN l.code # "dot" ELSE l.code = "2" /\ l.sep = "plus"
  BY <1>1, <1>3
<1> QED BY <1>1, <1>2, <1>3, <1>4, <1>5, ReadsOn

\* The last line of a reply completes it, and leaves nothing behind it.
LEMMA LastLineOK == ASSUME ControlOK, C!LastLine PROVE ControlOK'
<1>1. PICK l : /\ C!Reads(l) /\ ~data /\ l.code = "2" /\ l.sep = "space"
               /\ C!Completes(Append(lines, l))
               /\ UNCHANGED <<open, need>>
  BY DEF C!LastLine
<1>2. at \in C!Asking /\ ControlTypes /\ Good(Latest) /\ Latest \in Seq(Part)
  BY <1>1 DEF C!Reads, ControlOK, Good
<1>3. PICK n \in 0..Len(Latest) : Midway(n)
  BY <1>2 DEF ControlOK
<1>4. /\ n + 1 \in 1..Len(Latest) /\ l = Latest[n + 1] /\ l \in Part
      /\ buf' \in Seq(Part)
      /\ Follows(buf', wire, C!OnWire(Latest), 3 * (n + 1))
  BY <1>1, <1>2, <1>3, ReadsNext
<1>5. Len(Latest) \in Nat /\ n + 1 \in 0..Len(Latest) /\ (n + 1) - 1 = n /\ n \in Nat
  BY <1>2, <1>4
<1>6. C!IsEnd(Latest, n + 1)
  BY <1>1, <1>3, <1>4 DEF C!IsEnd, Midway
<1>7. n + 1 = Len(Latest)
  <2>1. n + 1 \notin 1..(Len(Latest) - 1)
    BY <1>2, <1>6 DEF Good
  <2> QED BY <2>1, <1>4, <1>5
<1>8. buf' = <<>> /\ wire = <<>>
  <2> DEFINE stream == C!OnWire(Latest)
             left == buf'
  <2>1. /\ stream \in Seq(Part) /\ Len(stream) = 3 * Len(Latest)
        /\ left \in Seq(Part) /\ wire \in Seq(Part)
        /\ Follows(left, wire, stream, 3 * (n + 1))
    BY <1>2, <1>4, LinesOnWire DEF ControlTypes
  <2> HIDE DEF stream, left
  <2>2. Follows(left, wire, stream, Len(stream))
    BY <2>1, <1>7
  <2>3. left = <<>> /\ wire = <<>>
    BY <2>1, <2>2, UsedUp
  <2> QED BY <2>3 DEF left
<1> DEFINE reply == Append(lines, l)
<1>9. reply = C!Said(Latest) /\ reply \in Seq(Part)
  <2>1. lines = C!Says(Latest)[n]
    BY <1>3 DEF Midway
  <2>2. C!Says(Latest)[n + 1] = IF Latest[n + 1].code = "dot" THEN C!Says(Latest)[(n + 1) - 1]
                                ELSE Append(C!Says(Latest)[(n + 1) - 1], Latest[n + 1])
    BY <1>2, <1>4, SaysStep
  <2>3. reply = C!Says(Latest)[n + 1]
    BY <1>1, <1>4, <1>5, <2>1, <2>2
  <2>4. C!Says(Latest)[n + 1] \in Seq(Part)
    BY <1>2, <1>5, SaysStep
  <2> QED BY <2>3, <2>4, <1>7 DEF C!Said
<1> HIDE DEF reply
<1>10. /\ got' = Append(got, reply) /\ lines' = <<>> /\ data' = FALSE
       /\ \/ at = "PROTOCOLINFO" /\ C!Asks(2) /\ UNCHANGED result
          \/ /\ at = "PROTOCOLINFO" /\ UNCHANGED <<wire, sent>>
             /\ \E why \in {"OSError", "ControlError"} : C!Ends(why)
          \/ at = "AUTHENTICATE" /\ C!Asks(3) /\ UNCHANGED result
          \/ at = "question" /\ C!Ends("value") /\ UNCHANGED <<wire, sent>>
  BY <1>1 DEF C!Completes, reply
<1>11. /\ got' \in Seq(Seq(Part)) /\ Len(got') = Len(got) + 1 /\ Len(got) \in Nat
       /\ \A k \in 1..Len(got) : got'[k] = got[k]
       /\ got'[Len(got) + 1] = reply
  <2> DEFINE Replies == Seq(Part)
  <2>1. got \in Seq(Replies) /\ reply \in Replies
    BY <1>2, <1>9 DEF ControlTypes
  <2> HIDE DEF Replies
  <2>2. /\ Append(got, reply) \in Seq(Replies) /\ Len(Append(got, reply)) = Len(got) + 1
        /\ Len(got) \in Nat
        /\ \A k \in 1..Len(got) : Append(got, reply)[k] = got[k]
        /\ Append(got, reply)[Len(got) + 1] = reply
    BY <2>1
  <2> QED BY <2>2, <1>10 DEF Replies
<1>12. Len(sent) = Len(got') /\ \A k \in 1..Len(got') : got'[k] = C!Said(sent[k])
  <2>1. Len(sent) = Len(got) + 1 /\ \A k \in 1..Len(got) : got[k] = C!Said(sent[k])
    BY <1>2 DEF ControlOK
  <2>2. \A k \in 1..Len(got') : k \in 1..Len(got) \/ k = Len(got) + 1
    BY <1>11
  <2>3. reply = C!Said(sent[Len(got) + 1])
    BY <2>1, <1>9 DEF Latest
  <2> QED BY <2>1, <2>2, <2>3, <1>11
<1>13. CASE \E i \in 1..3 : C!Asks(i) /\ UNCHANGED result
  <2>1. PICK i \in 1..3 : C!Asks(i) /\ UNCHANGED result
    BY <1>13
  <2>2. /\ sent \in Seq(Seq(Part)) /\ open \in BOOLEAN /\ data' \in BOOLEAN
        /\ lines' = <<>> /\ ~data'
    BY <1>2, <1>10 DEF ControlTypes
  <2>3. /\ at' \in C!Asking /\ wire' \in Seq(Part)
        /\ sent' \in Seq(Seq(Part)) /\ Len(sent') = Len(sent) + 1
        /\ \A k \in 1..Len(sent) : sent'[k] = sent[k]
        /\ Good(Latest') /\ Midway(0)'
    BY <2>1, <2>2, <1>8, AsksNext
  <2>4. 0 \in 0..Len(Latest') /\ Len(sent') = Len(got') + 1 /\ Len(got') <= Len(sent')
    BY <2>3, <1>11, <1>12 DEF Good
  <2>5. \A k \in 1..Len(got') : got'[k] = C!Said(sent'[k])
    BY <2>3, <1>12
  <2>6. ControlTypes'
    <3>1. <<>> \in Seq(Part)
      OBVIOUS
    <3> QED BY <3>1, <2>2, <2>3, <1>1, <1>2, <1>4, <1>11 DEF ControlTypes
  <2>7. at' # "idle" /\ result' # "tunnel"
    BY <2>1, <2>3, Commands DEF ControlOK
  <2> QED BY <2>3, <2>4, <2>5, <2>6, <2>7 DEF ControlOK
<1>14. CASE /\ UNCHANGED <<wire, sent>>
            /\ \E why \in {"OSError", "ControlError", "value"} : C!Ends(why)
  <2>1. at' = "over" /\ result' # "tunnel"
    BY <1>14 DEF C!Ends
  <2>2. "over" \notin C!Asking /\ "over" # "idle"
    BY Commands
  <2>3. ControlTypes'
    <3>1. <<>> \in Seq(Part)
      OBVIOUS
    <3> QED BY <3>1, <2>1, <1>1, <1>2, <1>4, <1>10, <1>11, <1>14 DEF ControlTypes
  <2>4. Len(got') <= Len(sent') /\ \A k \in 1..Len(got') : got'[k] = C!Said(sent'[k])
    BY <1>11, <1>12, <1>14
  <2> QED BY <2>1, <2>2, <2>3, <2>4 DEF ControlOK
<1>15. \/ \E i \in 1..3 : C!Asks(i) /\ UNCHANGED result
       \/ /\ UNCHANGED <<wire, sent>>
          /\ \E why \in {"OSError", "ControlError", "value"} : C!Ends(why)
  <2>1. 2 \in 1..3 /\ 3 \in 1..3
    OBVIOUS
  <2> QED BY <2>1, <1>10
<1> QED BY <1>13, <1>14, <1>15

LEMMA BadLineOK == ASSUME ControlOK, C!BadLine PROVE ControlOK'
<1>1. PICK l : C!Reads(l) /\ C!Errs /\ UNCHANGED <<wire, open, sent, got, lines, data, need>>
  BY DEF C!BadLine
<1>2. buf \in Seq(Part) /\ Len(buf) >= 3 /\ buf' = SubSeq(buf, 4, Len(buf)) /\ wire \in Seq(Part)
  BY <1>1 DEF ControlOK, ControlTypes, C!Reads, C!HasLine
<1>3. buf' \in Seq(Part)
  BY <1>2
<1>4. at' = "over" /\ result' # "tunnel" /\ wire' \in Seq(Part)
  BY <1>1, <1>2 DEF C!Errs, C!Ends
<1> QED BY <1>1, <1>3, <1>4, ControlEnds

LEMMA ControlClosesOK ==
  ASSUME ControlOK, Closes PROVE ControlOK'
<1>1. PICK m \in 0..Len(wire) : wire' = SubSeq(wire, 1, m)
  BY DEF Closes
<1>2. /\ at \in C!Asking /\ ControlTypes /\ open' = FALSE /\ Latest \in Seq(Part)
      /\ UNCHANGED <<at, buf, sent, got, lines, data, need, result>> /\ Latest' = Latest
  BY DEF Closes, ControlOK, ControlTypes, Good, Latest
<1>3. PICK n \in 0..Len(Latest) : Midway(n)
  BY <1>2 DEF ControlOK
<1>4. wire' \in Seq(Part) /\ Follows(buf', wire', C!OnWire(Latest), 3 * n)
  <2> DEFINE stream == C!OnWire(Latest)
             pos == 3 * n
  <2>1. /\ stream \in Seq(Part) /\ buf \in Seq(Part) /\ wire \in Seq(Part)
        /\ Follows(buf, wire, stream, pos)
    BY <1>2, <1>3, LinesOnWire DEF Midway, ControlTypes
  <2> HIDE DEF stream, pos
  <2>2. SubSeq(wire, 1, m) \in Seq(Part) /\ Follows(buf, SubSeq(wire, 1, m), stream, pos)
    BY <2>1, BreaksOff
  <2> QED BY <2>2, <1>1, <1>2 DEF stream, pos
<1>5. Midway(n)'
  BY <1>2, <1>3, <1>4 DEF Midway
<1>6. ControlTypes'
  BY <1>2, <1>4 DEF ControlTypes
<1>7. (Len(got) <= Len(sent) /\ \A k \in 1..Len(got) : got[k] = C!Said(sent[k]))'
  BY <1>2 DEF ControlOK
<1>8. /\ at' # "idle" /\ result' # "tunnel" /\ Len(sent') = Len(got') + 1
      /\ Good(Latest') /\ n \in 0..Len(Latest')
  BY <1>2, Commands DEF ControlOK
<1> QED BY <1>5, <1>6, <1>7, <1>8 DEF ControlOK

LEMMA ControlStepOK == ASSUME ControlOK, C!ControlStep PROVE ControlOK'
BY DialsOK, RecvOK, DataLineOK, DataEndsOK, MiddleLineOK, LastLineOK, BadLineOK
   DEF C!ControlStep

-----------------------------------------------------------------------------
(* socks5_connect *)

Octet == [re : Nat, i : Nat, value : 0..255]

\* An answer to the request, and the tunnel behind it.
Stream(grant) == S!Bytes(2, grant) \o S!Bytes(3, Tunnelled)

Granting(grant) == grant[1] = 5 /\ grant[2] = 0 /\ grant[4] \in {1, 3, 4}

SocksTypes ==
  /\ at \in {"idle", "method", "head", "length", "address", "over"}
  /\ wire \in Seq(Octet) /\ open \in BOOLEAN /\ buf \in Seq(Octet) /\ need \in Nat

\* How far the client has read, and that it waits for no byte of the tunnel.
SocksOK ==
  /\ SocksTypes
  /\ at = "idle" => wire = <<>> /\ buf = <<>>
  /\ at # "over" => result = "none"
  /\ at \notin {"idle", "over"} => Len(buf) <= need
  /\ at = "method" =>
       need = 2 /\ \E reply \in Greetings : Follows(buf, wire, S!Bytes(1, reply), 0)
  /\ at = "head" =>
       need = 4 /\ \E grant \in Grants : Follows(buf, wire, Stream(grant), 0)
  /\ at = "length" =>
       need = 1 /\ \E grant \in Grants :
         Granting(grant) /\ grant[4] = 3 /\ Follows(buf, wire, Stream(grant), 4)
  /\ at = "address" =>
       \E grant \in Grants :
         need <= Len(grant) /\ Follows(buf, wire, Stream(grant), Len(grant) - need)
  /\ result = "tunnel" =>
       at = "over" /\ buf = <<>>
         /\ \E grant \in Grants : Follows(buf, wire, Stream(grant), Len(grant))

LEMMA BytesAre ==
  ASSUME NEW re \in Nat, NEW values \in Seq(0..255)
  PROVE  /\ S!Bytes(re, values) \in Seq(Octet) /\ Len(S!Bytes(re, values)) = Len(values)
         /\ \A i \in 1..Len(values) :
              S!Bytes(re, values)[i] = S!Byte(re, i, values[i])
              /\ S!Bytes(re, values)[i].value = values[i]
<1>1. Len(values) \in Nat /\ \A i \in 1..Len(values) : i \in Nat /\ values[i] \in 0..255
  <2> DEFINE Octets == 0..255
  <2>1. values \in Seq(Octets)
    OBVIOUS
  <2> HIDE DEF Octets
  <2>2. Len(values) \in Nat /\ \A i \in 1..Len(values) : values[i] \in Octets
    BY <2>1
  <2> QED BY <2>2 DEF Octets
<1>2. \A i \in 1..Len(values) :
        S!Byte(re, i, values[i]) \in Octet /\ S!Byte(re, i, values[i]).value = values[i]
  BY <1>1 DEF S!Byte, Octet
<1>3. S!Bytes(re, values) \in [1..Len(values) -> Octet]
  BY <1>2 DEF S!Bytes
<1>4. \A i \in 1..Len(values) : S!Bytes(re, values)[i] = S!Byte(re, i, values[i])
  BY DEF S!Bytes
<1> QED BY <1>1, <1>2, <1>3, <1>4

\* The stream is the answer, byte for byte, and then the tunnel.
LEMMA Streamed ==
  ASSUME NEW grant \in Grants
  PROVE  /\ grant \in Seq(0..255) /\ Len(grant) \in Nat /\ Len(grant) >= 4
         /\ Stream(grant) \in Seq(Octet)
         /\ Len(Stream(grant)) = Len(grant) + Len(S!Bytes(3, Tunnelled))
         /\ \A i \in 1..Len(grant) : Stream(grant)[i].value = grant[i]
         /\ S!Bytes(3, Tunnelled) \in Seq(Octet)
         /\ \A i \in 1..Len(S!Bytes(3, Tunnelled)) :
              Stream(grant)[Len(grant) + i] = S!Bytes(3, Tunnelled)[i]
<1>1. grant \in Seq(0..255) /\ Tunnelled \in Seq(0..255) /\ Len(grant) >= 4
  BY ProxySpeaksSocks DEF S!SocksAssumption
<1>2. /\ S!Bytes(2, grant) \in Seq(Octet) /\ Len(S!Bytes(2, grant)) = Len(grant)
      /\ \A i \in 1..Len(grant) : S!Bytes(2, grant)[i].value = grant[i]
      /\ S!Bytes(3, Tunnelled) \in Seq(Octet)
  BY <1>1, BytesAre
<1> DEFINE answer == S!Bytes(2, grant)
           tunnel == S!Bytes(3, Tunnelled)
<1>3. answer \in Seq(Octet) /\ tunnel \in Seq(Octet) /\ Len(answer) = Len(grant)
  BY <1>2
<1>4. Stream(grant) = answer \o tunnel
  BY DEF Stream
<1> HIDE DEF answer, tunnel
<1>5. /\ answer \o tunnel \in Seq(Octet)
      /\ Len(answer \o tunnel) = Len(answer) + Len(tunnel)
      /\ \A i \in 1..(Len(answer) + Len(tunnel)) :
           (answer \o tunnel)[i] = IF i <= Len(answer) THEN answer[i] ELSE tunnel[i - Len(answer)]
  BY <1>3, ConcatProperties
<1>6. Len(answer) \in Nat /\ Len(tunnel) \in Nat
  BY <1>3
<1>7. ASSUME NEW i \in 1..Len(grant) PROVE Stream(grant)[i] = answer[i]
  <2>1. i \in 1..(Len(answer) + Len(tunnel)) /\ i <= Len(answer)
    BY <1>3, <1>6
  <2> QED BY <2>1, <1>4, <1>5
<1>8. ASSUME NEW i \in 1..Len(tunnel) PROVE Stream(grant)[Len(grant) + i] = tunnel[i]
  <2>1. /\ Len(grant) + i \in 1..(Len(answer) + Len(tunnel)) /\ ~(Len(grant) + i <= Len(answer))
        /\ (Len(grant) + i) - Len(answer) = i
    BY <1>3, <1>6
  <2> QED BY <2>1, <1>4, <1>5
<1> QED BY <1>1, <1>2, <1>3, <1>4, <1>5, <1>6, <1>7, <1>8 DEF answer, tunnel

\* Nothing of a stream was received or is coming, at any place of it.
LEMMA NothingSent ==
  ASSUME NEW T, NEW stream \in Seq(T), NEW b \in Seq(T), NEW w \in Seq(T),
         b = <<>>, w = <<>>, NEW pos \in 0..Len(stream)
  PROVE  Follows(b, w, stream, pos)
BY DEF Follows

\* All that was waited for has come.
LEMMA WholeNow ==
  ASSUME SocksOK, at \notin {"idle", "over"}, Len(buf) >= need
  PROVE  Len(buf) = need
<1>1. Len(buf) \in Nat /\ need \in Nat /\ Len(buf) <= need
  BY DEF SocksOK, SocksTypes
<1> QED BY <1>1

LEMMA AllUsed ==
  ASSUME SocksTypes, NEW stream \in Seq(Octet), NEW pos, Follows(buf, wire, stream, pos)
  PROVE  Follows(<<>>, wire, stream, pos + Len(buf)) /\ <<>> \in Seq(Octet)
<1>1. buf \in Seq(Octet) /\ wire \in Seq(Octet) /\ Len(buf) \in 0..Len(buf)
  BY DEF SocksTypes
<1>2. SubSeq(buf, Len(buf) + 1, Len(buf)) = <<>>
  BY <1>1
<1>3. Follows(SubSeq(buf, Len(buf) + 1, Len(buf)), wire, stream, pos + Len(buf))
  BY <1>1, IsUsed
<1>4. <<>> \in Seq(Octet)
  OBVIOUS
<1> QED BY <1>2, <1>3, <1>4

LEMMA ConnectsOK == ASSUME SocksOK, S!Connects PROVE SocksOK'
<1>1. /\ at = "idle" /\ wire = <<>> /\ buf = <<>> /\ buf' = <<>> /\ open' = open /\ SocksTypes
      /\ buf \in Seq(Octet) /\ wire \in Seq(Octet)
  BY DEF S!Connects, SocksOK, SocksTypes
<1>2. ASSUME NEW reply \in Greetings, S!Needs(2, "method"), S!Sends(reply, S!Bytes(1, reply))
      PROVE  SocksOK'
  <2>1. reply \in Seq(0..255)
    BY ProxySpeaksSocks DEF S!SocksAssumption
  <2> DEFINE stream == S!Bytes(1, reply)
             coming == wire'
  <2>2. stream \in Seq(Octet)
    BY <2>1, BytesAre
  <2> HIDE DEF stream
  <2>3. (coming = stream \/ coming = <<>>) /\ coming \in Seq(Octet)
    <3>1. coming = (IF open THEN wire \o stream ELSE wire)
      BY <1>2 DEF S!Sends, stream
    <3>2. <<>> \o stream = stream
      BY <2>2
    <3> QED BY <3>1, <3>2, <2>2, <1>1
  <2> HIDE DEF coming
  <2>4. Follows(buf, coming, stream, 0)
    BY <1>1, <2>2, <2>3, Begins0
  <2>5. at' = "method" /\ need' = 2 /\ result' = "none" /\ Len(buf') = 0
    BY <1>1, <1>2 DEF S!Needs, SocksOK
  <2>6. SocksTypes'
    BY <1>1, <2>3, <2>5 DEF SocksTypes, coming
  <2>7. Follows(buf', wire', S!Bytes(1, reply), 0)
    BY <1>1, <2>4 DEF coming, stream
  <2> QED BY <2>5, <2>6, <2>7 DEF SocksOK
<1>3. ASSUME C!Ends("OSError"), UNCHANGED <<wire, sent, need>> PROVE SocksOK'
  <2>1. at' = "over" /\ result' = "OSError" /\ SocksTypes'
    BY <1>1, <1>3 DEF C!Ends, SocksTypes
  <2> QED BY <2>1 DEF SocksOK
<1>4. C!Ends("OSError") <=> S!Ends("OSError")
  BY DEF C!Ends, S!Ends
<1> QED BY <1>2, <1>3, <1>4 DEF S!Connects

\* Wherever the client is, it follows the stream of an answer.
LEMMA RecvExactOK == ASSUME SocksOK, S!RecvExact PROVE SocksOK'
<1>1. /\ at \notin {"idle", "over"} /\ SocksTypes /\ Len(buf) <= need /\ result = "none"
      /\ wire \in Seq(Octet) /\ buf \in Seq(Octet) /\ Len(buf) \in Nat /\ need \in Nat
      /\ Len(buf) < need
  BY DEF SocksOK, SocksTypes, S!RecvExact
<1>2. ASSUME S!Receives(need - Len(buf)),
             UNCHANGED <<at, open, sent, got, lines, data, need, result>>
      PROVE  SocksOK'
  <2>1. PICK n \in 1..Len(wire) :
          /\ n <= need - Len(buf)
          /\ buf' = buf \o SubSeq(wire, 1, n)
          /\ wire' = SubSeq(wire, n + 1, Len(wire))
    BY <1>2 DEF S!Receives
  <2>2. /\ buf \o SubSeq(wire, 1, n) \in Seq(Octet)
        /\ SubSeq(wire, n + 1, Len(wire)) \in Seq(Octet)
        /\ Len(buf \o SubSeq(wire, 1, n)) = Len(buf) + n
    <3>1. SubSeq(wire, 1, n) \in Seq(Octet) /\ Len(SubSeq(wire, 1, n)) = n
      BY <1>1
    <3>2. SubSeq(wire, n + 1, Len(wire)) \in Seq(Octet)
      BY <1>1
    <3> HIDE DEF Octet
    <3>3. /\ buf \o SubSeq(wire, 1, n) \in Seq(Octet)
          /\ Len(buf \o SubSeq(wire, 1, n)) = Len(buf) + Len(SubSeq(wire, 1, n))
      BY <1>1, <3>1, ConcatProperties
    <3> QED BY <3>1, <3>2, <3>3
  <2>3. buf' \in Seq(Octet) /\ wire' \in Seq(Octet) /\ Len(buf') <= need'
    <3>1. Len(buf') = Len(buf) + n
      BY <2>1, <2>2
    <3> QED BY <3>1, <2>1, <2>2, <1>1, <1>2
  <2>4. ASSUME NEW stream \in Seq(Octet), NEW pos, Follows(buf, wire, stream, pos)
        PROVE  Follows(buf', wire', stream, pos)
    BY <2>1, <2>4, <1>1, Arrives
  <2>5. SocksTypes'
    BY <1>1, <1>2, <2>3 DEF SocksTypes
  <2>6. ASSUME at = "method"
        PROVE  need' = 2 /\ \E reply \in Greetings : Follows(buf', wire', S!Bytes(1, reply), 0)
    <3>1. PICK reply \in Greetings : Follows(buf, wire, S!Bytes(1, reply), 0)
      BY <2>6 DEF SocksOK
    <3>2. reply \in Seq(0..255)
      BY ProxySpeaksSocks DEF S!SocksAssumption
    <3>3. S!Bytes(1, reply) \in Seq(Octet)
      BY <3>2, BytesAre
    <3> QED BY <3>1, <3>3, <2>4, <2>6, <1>2 DEF SocksOK
  <2>7. ASSUME at = "head"
        PROVE  need' = 4 /\ \E grant \in Grants : Follows(buf', wire', Stream(grant), 0)
    BY <2>4, <2>7, <1>2, Streamed DEF SocksOK
  <2>8. ASSUME at = "length"
        PROVE  need' = 1 /\ \E grant \in Grants :
                 Granting(grant) /\ grant[4] = 3 /\ Follows(buf', wire', Stream(grant), 4)
    BY <2>4, <2>8, <1>2, Streamed DEF SocksOK
  <2>9. ASSUME at = "address"
        PROVE  \E grant \in Grants :
                 need' <= Len(grant) /\ Follows(buf', wire', Stream(grant), Len(grant) - need')
    BY <2>4, <2>9, <1>2, Streamed DEF SocksOK
  <2>10. at' = at /\ result' = "none" /\ at' # "idle"
    BY <1>1, <1>2
  <2> QED BY <2>3, <2>5, <2>6, <2>7, <2>8, <2>9, <2>10 DEF SocksOK
<1>3. ASSUME S!Starves("SocksError", "OSError") PROVE SocksOK'
  <2>1. /\ at' = "over" /\ result' # "tunnel"
        /\ UNCHANGED <<wire, open, buf, need>>
    BY <1>3 DEF S!Starves, S!Ends
  <2>2. SocksTypes'
    BY <1>1, <2>1 DEF SocksTypes
  <2> QED BY <2>1, <2>2 DEF SocksOK
<1> QED BY <1>2, <1>3 DEF S!RecvExact

LEMMA SocksFails ==
  ASSUME SocksOK, buf' = <<>>, open' = open, S!Fails PROVE SocksOK'
<1>1. /\ at' = "over" /\ result' = "SocksError" /\ wire' = wire /\ need' = need
      /\ buf' \in Seq(Octet)
  BY DEF S!Fails, S!Ends
<1>2. SocksTypes'
  BY <1>1 DEF SocksOK, SocksTypes
<1> QED BY <1>1, <1>2 DEF SocksOK

LEMMA ParsesMethodOK == ASSUME SocksOK, S!ParsesMethod PROVE SocksOK'
<1>1. /\ at = "method" /\ buf' = <<>> /\ open' = open /\ SocksTypes /\ need = 2
      /\ Len(buf) = need /\ buf \in Seq(Octet) /\ wire \in Seq(Octet)
  BY WholeNow DEF S!ParsesMethod, S!Whole, SocksOK, SocksTypes
<1>2. wire = <<>>
  <2>1. PICK reply \in Greetings : Follows(buf, wire, S!Bytes(1, reply), 0)
    BY <1>1 DEF SocksOK
  <2>2. reply \in Seq(0..255) /\ Len(reply) = 2
    BY ProxySpeaksSocks DEF S!SocksAssumption
  <2>3. Len(S!Bytes(1, reply)) = 2
    BY <2>2, BytesAre
  <2>4. Len(wire) = 0
    BY <1>1, <2>1, <2>3 DEF Follows
  <2> QED BY <2>4, <1>1
<1>3. ASSUME NEW grant \in Grants, S!Needs(4, "head"),
             S!Sends(grant, S!Bytes(2, grant) \o S!Bytes(3, Tunnelled))
      PROVE  SocksOK'
  <2> DEFINE stream == Stream(grant)
             coming == wire'
  <2>2. stream \in Seq(Octet)
    BY Streamed
  <2>3. (coming = stream \/ coming = <<>>) /\ coming \in Seq(Octet)
    <3>1. coming = (IF open THEN wire \o stream ELSE wire)
      BY <1>3 DEF S!Sends, Stream
    <3> HIDE DEF stream
    <3>2. <<>> \o stream = stream
      BY <2>2
    <3> QED BY <3>1, <3>2, <2>2, <1>1, <1>2
  <2> HIDE DEF coming, stream
  <2>4. buf' \in Seq(Octet)
    BY <1>1
  <2> DEFINE received == buf'
  <2>5. received = <<>> /\ received \in Seq(Octet)
    BY <1>1, <2>4
  <2> HIDE DEF received
  <2>6. Follows(received, coming, stream, 0)
    BY <2>2, <2>3, <2>5, Begins0
  <2>7. at' = "head" /\ need' = 4 /\ result' = "none" /\ Len(buf') = 0
    BY <1>1, <1>3 DEF S!Needs, SocksOK
  <2>8. SocksTypes'
    BY <1>1, <2>3, <2>4, <2>7 DEF SocksTypes, coming
  <2>9. Follows(buf', wire', Stream(grant), 0)
    BY <2>6 DEF coming, stream, received
  <2> QED BY <2>7, <2>8, <2>9 DEF SocksOK
<1>4. CASE S!Fails
  BY <1>1, <1>4, SocksFails
<1> QED BY <1>3, <1>4 DEF S!ParsesMethod

\* The first four bytes are those of the answer.
LEMMA HeadRead ==
  ASSUME SocksOK, NEW grant \in Grants, NEW pos \in Nat, Follows(buf, wire, Stream(grant), pos),
         NEW i \in 1..Len(buf), pos + i <= Len(grant)
  PROVE  S!Value(i) = grant[pos + i]
<1>1. pos + i \in 1..Len(grant) /\ buf[i] = Stream(grant)[pos + i]
  <2>1. Len(buf) \in Nat /\ Len(grant) \in Nat
    BY Streamed DEF SocksOK, SocksTypes
  <2> QED BY <2>1 DEF Follows
<1> QED BY <1>1, Streamed DEF S!Value

LEMMA ParsesHeadOK == ASSUME SocksOK, S!ParsesHead PROVE SocksOK'
<1>1. /\ at = "head" /\ buf' = <<>> /\ open' = open /\ SocksTypes /\ need = 4
      /\ Len(buf) = need /\ buf \in Seq(Octet) /\ wire \in Seq(Octet) /\ result = "none"
  BY WholeNow DEF S!ParsesHead, S!Whole, SocksOK, SocksTypes
<1>2. PICK grant \in Grants : Follows(buf, wire, Stream(grant), 0)
  BY <1>1 DEF SocksOK
<1>3. /\ grant \in Seq(0..255) /\ Len(grant) \in Nat /\ Len(grant) >= 4
      /\ Stream(grant) \in Seq(Octet)
  BY Streamed
<1>4. \A i \in {1, 2, 4} : S!Value(i) = grant[i]
  <2>1. \A i \in {1, 2, 4} : i \in 1..Len(buf) /\ 0 + i <= Len(grant) /\ 0 + i = i
    BY <1>1, <1>3
  <2>2. \A i \in {1, 2, 4} : S!Value(i) = grant[0 + i]
    BY <2>1, <1>2, HeadRead
  <2> QED BY <2>1, <2>2
<1>5. Follows(<<>>, wire, Stream(grant), 4) /\ <<>> \in Seq(Octet)
  <2>1. Follows(<<>>, wire, Stream(grant), 0 + Len(buf)) /\ <<>> \in Seq(Octet)
    BY <1>1, <1>2, <1>3, AllUsed
  <2> QED BY <2>1, <1>1
<1>6. CASE S!Fails
  BY <1>1, <1>6, SocksFails
<1>7. ASSUME S!Value(1) = 5, S!Value(2) = 0, S!Value(4) \in {1, 3, 4},
             IF S!Value(4) = 3 THEN S!Needs(1, "length")
                               ELSE S!Needs(S!BoundLen(S!Value(4)) + 2, "address"),
             UNCHANGED <<wire, sent>>
      PROVE  SocksOK'
  <2>1. Granting(grant)
    BY <1>4, <1>7 DEF Granting
  <2>2. CASE grant[4] = 3
    <3>1. at' = "length" /\ need' = 1 /\ result' = "none" /\ Len(buf') = 0
      BY <1>1, <1>4, <1>7, <2>2 DEF S!Needs
    <3>2. SocksTypes'
      BY <1>1, <1>5, <1>7, <3>1 DEF SocksTypes
    <3>3. Follows(buf', wire', Stream(grant), 4)
      BY <1>1, <1>5, <1>7
    <3> QED BY <2>1, <2>2, <3>1, <3>2, <3>3 DEF SocksOK
  <2>3. CASE grant[4] # 3
    <3>1. /\ at' = "address" /\ need' = S!BoundLen(grant[4]) + 2 /\ result' = "none"
          /\ Len(buf') = 0
      BY <1>1, <1>4, <1>7, <2>3 DEF S!Needs
    <3>2. need' \in Nat /\ Len(grant) = need' + 4
      <4>1. grant[4] = 1 \/ grant[4] = 4
        BY <2>1, <2>3 DEF Granting
      <4>2. (grant[4] = 1 => Len(grant) = 10) /\ (grant[4] = 4 => Len(grant) = 22)
        BY <2>1, ProxySpeaksSocks DEF S!SocksAssumption, Granting
      <4> QED BY <3>1, <4>1, <4>2 DEF S!BoundLen
    <3>3. SocksTypes'
      BY <1>1, <1>5, <1>7, <3>1, <3>2 DEF SocksTypes
    <3>4. need' <= Len(grant) /\ Len(grant) - need' = 4
      <4> DEFINE more == need'
                 size == Len(grant)
      <4>1. more \in Nat /\ size = more + 4
        BY <3>2
      <4> HIDE DEF more, size
      <4>2. more <= size /\ size - more = 4
        BY <4>1
      <4> QED BY <4>2 DEF more, size
    <3>5. Follows(buf', wire', Stream(grant), Len(grant) - need')
      BY <1>1, <1>5, <1>7, <3>4
    <3>6. Len(buf') <= need'
      BY <3>1, <3>2
    <3> QED BY <3>1, <3>3, <3>4, <3>5, <3>6 DEF SocksOK
  <2> QED BY <2>2, <2>3
<1> QED BY <1>6, <1>7 DEF S!ParsesHead

LEMMA ParsesLengthOK == ASSUME SocksOK, S!ParsesLength PROVE SocksOK'
<1>1. /\ at = "length" /\ buf' = <<>> /\ SocksTypes /\ need = 1
      /\ Len(buf) = need /\ buf \in Seq(Octet) /\ wire \in Seq(Octet) /\ result = "none"
      /\ S!Needs(S!Value(1) + 2, "address")
      /\ UNCHANGED <<wire, open, sent, got, lines, data>>
  BY WholeNow DEF S!ParsesLength, S!Whole, SocksOK, SocksTypes
<1>2. PICK grant \in Grants :
        Granting(grant) /\ grant[4] = 3 /\ Follows(buf, wire, Stream(grant), 4)
  BY <1>1 DEF SocksOK
<1>3. grant \in Seq(0..255) /\ Stream(grant) \in Seq(Octet)
  BY Streamed
<1>4. Len(grant) >= 5 /\ Len(grant) = 7 + grant[5]
  BY <1>2, ProxySpeaksSocks DEF S!SocksAssumption, Granting
<1>5. Len(grant) \in Nat /\ grant[5] \in Nat
  <2> DEFINE Octets == 0..255
  <2>1. grant \in Seq(Octets) /\ Len(grant) \in Nat
    BY <1>3
  <2> HIDE DEF Octets
  <2>2. grant[5] \in Octets
    BY <2>1, <1>4
  <2>3. \A x \in Octets : x \in Nat
    BY DEF Octets
  <2> QED BY <2>1, <2>2, <2>3
<1>6. S!Value(1) = grant[5]
  <2>1. 1 \in 1..Len(buf) /\ 4 + 1 <= Len(grant) /\ 4 + 1 = 5 /\ 4 \in Nat
    BY <1>1, <1>4
  <2>2. S!Value(1) = grant[4 + 1]
    BY <2>1, <1>2, HeadRead
  <2> QED BY <2>1, <2>2
<1>7. at' = "address" /\ need' = grant[5] + 2 /\ result' = "none" /\ Len(buf') = 0
  BY <1>1, <1>6 DEF S!Needs
<1>8. need' \in Nat /\ need' <= Len(grant) /\ Len(grant) - need' = 5 /\ Len(buf') <= need'
  BY <1>4, <1>5, <1>7
<1>9. Follows(<<>>, wire, Stream(grant), 5) /\ <<>> \in Seq(Octet)
  <2>1. Follows(<<>>, wire, Stream(grant), 4 + Len(buf)) /\ <<>> \in Seq(Octet)
    BY <1>1, <1>2, <1>3, AllUsed
  <2> QED BY <2>1, <1>1
<1>10. SocksTypes'
  BY <1>1, <1>7, <1>8, <1>9 DEF SocksTypes
<1>11. Follows(buf', wire', Stream(grant), Len(grant) - need')
  BY <1>1, <1>8, <1>9
<1> QED BY <1>7, <1>8, <1>10, <1>11 DEF SocksOK

LEMMA SkipsAddressOK == ASSUME SocksOK, S!SkipsAddress PROVE SocksOK'
<1>1. /\ at = "address" /\ buf' = <<>> /\ SocksTypes
      /\ Len(buf) = need /\ buf \in Seq(Octet) /\ wire \in Seq(Octet) /\ need \in Nat
      /\ at' = "over" /\ UNCHANGED <<wire, open, sent, got, lines, data, need>>
  BY WholeNow DEF S!SkipsAddress, S!Whole, S!Ends, SocksOK, SocksTypes
<1>2. PICK grant \in Grants :
        need <= Len(grant) /\ Follows(buf, wire, Stream(grant), Len(grant) - need)
  BY <1>1 DEF SocksOK
<1>3. Len(grant) \in Nat /\ Stream(grant) \in Seq(Octet)
  BY Streamed
<1>4. (Len(grant) - need) + Len(buf) = Len(grant)
  BY <1>1, <1>3
<1>5. Follows(<<>>, wire, Stream(grant), Len(grant)) /\ <<>> \in Seq(Octet)
  <2>1. /\ Follows(<<>>, wire, Stream(grant), (Len(grant) - need) + Len(buf))
        /\ <<>> \in Seq(Octet)
    BY <1>1, <1>2, <1>3, AllUsed
  <2> QED BY <2>1, <1>4
<1>6. SocksTypes'
  BY <1>1, <1>5 DEF SocksTypes
<1>7. Follows(buf', wire', Stream(grant), Len(grant))
  BY <1>1, <1>5
<1> QED BY <1>1, <1>6, <1>7 DEF SocksOK

LEMMA SocksClosesOK == ASSUME SocksOK, Closes PROVE SocksOK'
<1>1. /\ at \notin {"idle", "over"} /\ SocksTypes /\ result = "none"
      /\ wire \in Seq(Octet) /\ buf \in Seq(Octet)
      /\ UNCHANGED <<at, buf, sent, got, lines, data, need, result>> /\ open' = FALSE
  BY DEF SocksOK, SocksTypes, Closes
<1>2. PICK n \in 0..Len(wire) : wire' = SubSeq(wire, 1, n)
  BY DEF Closes
<1>3. wire' \in Seq(Octet)
  BY <1>1, <1>2
<1>4. ASSUME NEW stream \in Seq(Octet), NEW pos, Follows(buf, wire, stream, pos)
      PROVE  Follows(buf', wire', stream, pos)
  <2>1. Follows(buf, SubSeq(wire, 1, n), stream, pos)
    BY <1>1, <1>4, BreaksOff
  <2> QED BY <2>1, <1>1, <1>2
<1>5. SocksTypes'
  BY <1>1, <1>3 DEF SocksTypes
<1>6. ASSUME at = "method"
      PROVE  need' = 2 /\ \E reply \in Greetings : Follows(buf', wire', S!Bytes(1, reply), 0)
  <2>1. PICK reply \in Greetings : Follows(buf, wire, S!Bytes(1, reply), 0)
    BY <1>6 DEF SocksOK
  <2>2. reply \in Seq(0..255)
    BY ProxySpeaksSocks DEF S!SocksAssumption
  <2>3. S!Bytes(1, reply) \in Seq(Octet)
    BY <2>2, BytesAre
  <2> QED BY <2>1, <2>3, <1>1, <1>4, <1>6 DEF SocksOK
<1>7. ASSUME at = "head"
      PROVE  need' = 4 /\ \E grant \in Grants : Follows(buf', wire', Stream(grant), 0)
  BY <1>1, <1>4, <1>7, Streamed DEF SocksOK
<1>8. ASSUME at = "length"
      PROVE  need' = 1 /\ \E grant \in Grants :
               Granting(grant) /\ grant[4] = 3 /\ Follows(buf', wire', Stream(grant), 4)
  BY <1>1, <1>4, <1>8, Streamed DEF SocksOK
<1>9. ASSUME at = "address"
      PROVE  \E grant \in Grants :
               need' <= Len(grant) /\ Follows(buf', wire', Stream(grant), Len(grant) - need')
  BY <1>1, <1>4, <1>9, Streamed DEF SocksOK
<1>10. Len(buf') <= need'
  BY <1>1 DEF SocksOK
<1> QED BY <1>1, <1>5, <1>6, <1>7, <1>8, <1>9, <1>10 DEF SocksOK

LEMMA SocksStepOK == ASSUME SocksOK, S!SocksStep PROVE SocksOK'
BY ConnectsOK, RecvExactOK, ParsesMethodOK, ParsesHeadOK, ParsesLengthOK, SkipsAddressOK
   DEF S!SocksStep

\* What is left when the tunnel stands is the tunnel.
LEMMA LeavesTunnel == SocksOK => TunnelClean
<1>1. SUFFICES ASSUME SocksOK, result = "tunnel"
               PROVE  buf = <<>> /\ IsPrefix(wire, S!Bytes(3, Tunnelled))
  BY DEF TunnelClean
<1>2. PICK grant \in Grants : buf = <<>> /\ Follows(buf, wire, Stream(grant), Len(grant))
  BY <1>1 DEF SocksOK
<1> DEFINE tunnel == S!Bytes(3, Tunnelled)
<1>3. /\ tunnel \in Seq(Octet) /\ wire \in Seq(Octet) /\ Len(buf) = 0 /\ Len(grant) \in Nat
      /\ Len(Stream(grant)) = Len(grant) + Len(tunnel)
      /\ \A i \in 1..Len(tunnel) : Stream(grant)[Len(grant) + i] = tunnel[i]
  BY <1>1, <1>2, Streamed DEF SocksOK, SocksTypes
<1> HIDE DEF tunnel
<1>4. Len(wire) \in Nat /\ Len(tunnel) \in Nat
  BY <1>3
<1>5. Len(wire) <= Len(tunnel)
  BY <1>2, <1>3, <1>4 DEF Follows
<1>6. ASSUME NEW i \in 1..Len(wire) PROVE wire[i] = tunnel[i]
  <2>1. i \in 1..Len(tunnel) /\ Len(grant) + Len(buf) + i = Len(grant) + i
    BY <1>3, <1>4, <1>5
  <2> QED BY <2>1, <1>2, <1>3 DEF Follows
<1>7. SubSeq(wire, 1, Len(wire)) = SubSeq(tunnel, 1, Len(wire))
  BY <1>3, <1>4, <1>5, <1>6
<1> QED BY <1>2, <1>5, <1>7 DEF IsPrefix, tunnel

-----------------------------------------------------------------------------
(* The HTTP server *)

\* What a GET runs.
LEMMA GetRuns ==
  ASSUME NEW r \in Request
  PROVE  \/ DoGet(r).runs = "nothing" /\ (r.path \in Changing => DoGet(r).status # Ok)
         \/ /\ DoGet(r).runs \in Reading /\ DoGet(r).runs = r.path
            /\ HostOk(r) /\ TokenOk(r)
            /\ DoGet(r).status \in {Ok, Failed}
<1>1. CASE ~HostOk(r)
  BY <1>1 DEF DoGet, Refuse, Reply, Ok, Forbidden
<1>2. CASE HostOk(r) /\ r.path \in Pages
  <2>1. r.path \notin Changing
    BY <1>2 DEF Pages, Changing
  <2>2. DoGet(r).runs = "nothing"
    BY <1>2 DEF DoGet, Refuse, Reply, Api
  <2> QED BY <2>1, <2>2
<1>3. CASE HostOk(r) /\ Api(r.path) /\ ~TokenOk(r)
  BY <1>3 DEF DoGet, Refuse, Reply, Api, Ok, Unauthorized
<1>4. CASE HostOk(r) /\ Api(r.path) /\ TokenOk(r)
  <2>1. DoGet(r) = ApiGet(r)
    BY <1>4 DEF DoGet, Api
  <2>2. CASE r.path \notin Reading
    BY <2>1, <2>2 DEF ApiGet, Refuse, Reply, Ok, NotFound
  <2>3. CASE r.path \in Reading
    <3>1. /\ ApiGet(r).runs \in {"nothing", r.path} /\ ApiGet(r).status \in {Ok, Failed}
          /\ r.path \notin Changing
      BY <2>3 DEF ApiGet, Reply, Reading, Changing
    <3> QED BY <2>1, <2>3, <3>1, <1>4
  <2> QED BY <2>2, <2>3
<1>5. CASE HostOk(r) /\ r.path \notin Pages /\ ~Api(r.path)
  BY <1>5 DEF DoGet, Refuse, Reply, Ok, NotFound
<1> QED BY <1>1, <1>2, <1>3, <1>4, <1>5

\* What a POST runs.
LEMMA PostRuns ==
  ASSUME NEW r \in Request
  PROVE  \/ DoPost(r).runs = "nothing" /\ (r.path \in Changing => DoPost(r).status # Ok)
         \/ /\ DoPost(r).runs \in Changing /\ DoPost(r).runs = r.path
            /\ HostOk(r) /\ TokenOk(r) /\ OriginOk(r) /\ BodyOk(r)
            /\ DoPost(r).status \in {Ok, BadRequest, Failed}
<1>1. CASE ~HostOk(r)
  BY <1>1 DEF DoPost, Refuse, Reply, Ok, Forbidden
<1>2. CASE HostOk(r) /\ ~Api(r.path)
  BY <1>2 DEF DoPost, Refuse, Reply, Ok, NotFound
<1>3. CASE HostOk(r) /\ Api(r.path) /\ ~TokenOk(r)
  BY <1>3 DEF DoPost, Refuse, Reply, Ok, Unauthorized
<1>4. CASE HostOk(r) /\ Api(r.path) /\ TokenOk(r) /\ ~OriginOk(r)
  BY <1>4 DEF DoPost, Refuse, Reply, Ok, Forbidden
<1>5. CASE HostOk(r) /\ Api(r.path) /\ TokenOk(r) /\ OriginOk(r)
  <2>1. DoPost(r) = ApiPost(r)
    BY <1>5 DEF DoPost
  <2>2. CASE ~BodyOk(r)
    BY <2>1, <2>2 DEF ApiPost, Refuse, Reply, Ok, BadRequest
  <2>3. CASE BodyOk(r) /\ r.path \notin Changing
    BY <2>1, <2>3 DEF ApiPost, Refuse, Reply
  <2>4. CASE BodyOk(r) /\ r.path \in Changing
    <3>1. r.raises \in {"nothing", "ValueError", "other"}
      BY DEF Request
    <3>2. ApiPost(r).runs = r.path /\ ApiPost(r).status \in {Ok, BadRequest, Failed}
      BY <2>4, <3>1 DEF ApiPost, Reply
    <3> QED BY <2>1, <2>4, <3>2, <1>5
  <2> QED BY <2>2, <2>3, <2>4
<1> QED BY <1>1, <1>2, <1>3, <1>4, <1>5

\* The rule of who may make the daemon act, for one request.
LEMMA Gates ==
  ASSUME NEW r \in Request
  PROVE  LET reply == Handle(r)
         IN /\ reply.runs # "nothing" => r.host = "ours" /\ "ours" \in {r.header, r.query}
            /\ reply.runs \in Changing =>
                 r.method = "POST" /\ r.header = "ours" /\ r.origin # "other" /\ r.body = "good"
            /\ reply.status \in {Unauthorized, Forbidden, NotFound} => reply.runs = "nothing"
            /\ reply.status = Ok /\ r.path \in Changing => reply.runs = r.path
<1>1. "nothing" \notin Changing /\ Reading \intersect Changing = {}
  BY DEF Reading, Changing
<1>2. {Ok, BadRequest, Failed} \intersect {Unauthorized, Forbidden, NotFound} = {}
  BY DEF Ok, BadRequest, Failed, Unauthorized, Forbidden, NotFound
<1>3. CASE r.method = "POST"
  <2>1. Handle(r) = DoPost(r)
    BY <1>3 DEF Handle
  <2>2. CASE DoPost(r).runs = "nothing" /\ (r.path \in Changing => DoPost(r).status # Ok)
    BY <2>1, <2>2, <1>1
  <2>3. CASE /\ DoPost(r).runs \in Changing /\ DoPost(r).runs = r.path
             /\ HostOk(r) /\ TokenOk(r) /\ OriginOk(r) /\ BodyOk(r)
             /\ DoPost(r).status \in {Ok, BadRequest, Failed}
    <3>1. r.host = "ours" /\ r.header = "ours" /\ r.origin # "other" /\ r.body = "good"
      BY <2>3, <1>3 DEF HostOk, TokenOk, OriginOk, BodyOk
    <3> QED BY <2>1, <2>3, <3>1, <1>2, <1>3
  <2> QED BY <2>2, <2>3, PostRuns
<1>4. CASE r.method # "POST"
  <2>1. Handle(r) = DoGet(r)
    BY <1>4 DEF Handle
  <2>2. CASE DoGet(r).runs = "nothing" /\ (r.path \in Changing => DoGet(r).status # Ok)
    BY <2>1, <2>2, <1>1
  <2>3. CASE /\ DoGet(r).runs \in Reading /\ DoGet(r).runs = r.path
             /\ HostOk(r) /\ TokenOk(r)
             /\ DoGet(r).status \in {Ok, Failed}
    <3>1. r.host = "ours" /\ "ours" \in {r.header, r.query}
      BY <2>3 DEF HostOk, TokenOk
    <3>2. DoGet(r).runs \notin Changing
      BY <2>3, <1>1
    <3> QED BY <2>1, <2>3, <3>1, <3>2, <1>2
  <2> QED BY <2>2, <2>3, GetRuns
<1> QED BY <1>3, <1>4

\* Only a question about a request has a method.
LEMMA OnlyRequests ==
  ASSUME question \in Questions, "method" \in DOMAIN question
  PROVE  question \in Request
<1>1. question \notin [table : Tables, n : Numbers]
  OBVIOUS
<1>2. /\ question \notin [tree : Trees, version : {4}, bits : Bits(2)]
      /\ question \notin [tree : Trees, version : {6}, bits : Bits(3)]
  OBVIOUS
<1>3. question \notin [limit : Limits, beside : Limits]
  OBVIOUS
<1>4. question \notin [document : Documents, away : SUBSET (1..5)]
  OBVIOUS
<1>5. question \notin [torrc : Texts, cfg : Configs, next : Configs]
  OBVIOUS
<1>6. question \notin [pfconf : Texts, anchor : Anchors, next : Anchors]
  OBVIOUS
<1>7. question \in Asked
  BY <1>1, <1>2, <1>3, <1>4, <1>5, <1>6 DEF Questions
<1> QED BY <1>7, AskedAreRequests

-----------------------------------------------------------------------------
(* Managed blocks *)

\* Pieces of text.  They are strings; the union names those of the daemon,
\* which the provers do not know for strings by themselves.
Piece == STRING \union {"begin", "end", "nl", "load",
                        "dns_port", "socks_port", "trans_port", "exit_nodes"}
Text == Seq(Piece)

\* What is the user's of the first n pieces.
OwnTo(text) ==
  CHOOSE f : f = [n \in 0..Len(text) |->
                    IF n = 0 THEN <<>>
                    ELSE IF text[n] = "nl" \/ Inside(text, n) THEN f[n - 1]
                    ELSE Append(f[n - 1], text[n])]

\* It is told piece by piece.
LEMMA OwnStep ==
  ASSUME NEW text \in Text
  PROVE  /\ OwnTo(text)[0] = <<>> /\ Own(text) = OwnTo(text)[Len(text)]
         /\ \A n \in 0..Len(text) : OwnTo(text)[n] \in Text
         /\ \A n \in 1..Len(text) :
              OwnTo(text)[n] = IF text[n] = "nl" \/ Inside(text, n) THEN OwnTo(text)[n - 1]
                               ELSE Append(OwnTo(text)[n - 1], text[n])
<1> DEFINE N == Len(text)
           Out(n) == ~(text[n] = "nl" \/ Inside(text, n))
           Step == [p \in Text \X (1..N) |-> IF Out(p[2]) THEN Append(p[1], text[p[2]]) ELSE p[1]]
           Is(g) == g = [n \in 0..N |->
                           IF n = 0 THEN <<>>
                           ELSE IF text[n] = "nl" \/ Inside(text, n) THEN g[n - 1]
                           ELSE Append(g[n - 1], text[n])]
<1>1. N \in Nat /\ \A n \in 1..N : text[n] \in Piece
  BY DEF Text
<1>2. Step \in [Text \X (1..N) -> Text]
  <2>1. ASSUME NEW p \in Text \X (1..N) PROVE Step[p] \in Text
    <3>1. p[1] \in Text /\ text[p[2]] \in Piece
      BY <1>1
    <3>2. Append(p[1], text[p[2]]) \in Text
      BY <3>1 DEF Text
    <3> HIDE DEF Out
    <3> QED BY <3>1, <3>2
  <2> HIDE DEF Out
  <2> QED BY <2>1
<1>3. <<>> \in Text
  BY DEF Text
<1>4. PICK g \in [0..N -> Text] :
        g[0] = <<>> /\ \A i \in 1..N : g[i] = Step[<<g[i - 1], i>>]
  <2> DEFINE nothing == <<>>
  <2>1. Step \in [Text \X (1..N) -> Text] /\ nothing \in Text
    BY <1>2, <1>3
  <2> HIDE DEF N, Step, nothing
  <2>2. \E g : Computes(g, N, Text, nothing, Step)
    BY <1>1, <2>1, StepByStep
  <2> QED BY <2>2 DEF Computes, nothing
<1>5. Is(g)
  <2>1. ASSUME NEW n \in 0..N, n # 0
        PROVE  g[n] = IF text[n] = "nl" \/ Inside(text, n) THEN g[n - 1] ELSE Append(g[n - 1], text[n])
    <3>1. n \in 1..N /\ n - 1 \in 0..N
      BY <1>1, <2>1
    <3>2. <<g[n - 1], n>> \in Text \X (1..N)
      BY <3>1
    <3>3. g[n] = Step[<<g[n - 1], n>>]
      BY <3>1, <1>4
    <3>4. Step[<<g[n - 1], n>>] = IF Out(n) THEN Append(g[n - 1], text[n]) ELSE g[n - 1]
      <4> HIDE DEF Out
      <4> QED BY <3>2
    <3> QED BY <3>3, <3>4
  <2> HIDE DEF Step
  <2> QED BY <2>1, <1>4
<1>6. Is(OwnTo(text))
  <2>1. OwnTo(text) = CHOOSE h : Is(h)
    BY DEF OwnTo
  <2> HIDE DEF Is
  <2> QED BY <2>1, <1>5
<1> DEFINE f == OwnTo(text)
<1>7. f[0] = <<>>
  <2>1. 0 \in 0..N
    BY <1>1
  <2> QED BY <1>6, <2>1
<1>8. \A n \in 1..N : f[n] = IF text[n] = "nl" \/ Inside(text, n) THEN f[n - 1] ELSE Append(f[n - 1], text[n])
  <2>1. \A n \in 1..N : n \in 0..N /\ n # 0
    BY <1>1
  <2> QED BY <1>6, <2>1
<1>9. \A n \in 0..N : f[n] \in Text
  <2> DEFINE P == {n \in 0..N : f[n] \in Text}
  <2> HIDE DEF f, Is
  <2>0. f[0] \in Text
    BY <1>7, <1>3
  <2>1. 0 \in P
    BY <1>1, <2>0
  <2>2. ASSUME NEW i \in 0..N, i \in P, i + 1 \in 0..N PROVE i + 1 \in P
    <3>1. i + 1 \in 1..N /\ (i + 1) - 1 = i
      BY <1>1, <2>2
    <3>2. f[i + 1] = f[i] \/ f[i + 1] = Append(f[i], text[i + 1])
      BY <3>1, <1>8
    <3>3. f[i] \in Text /\ text[i + 1] \in Piece
      BY <3>1, <2>2, <1>1
    <3>4. Append(f[i], text[i + 1]) \in Text
      BY <3>3 DEF Text
    <3>5. f[i + 1] \in Text
      BY <3>2, <3>3, <3>4
    <3> QED BY <3>5, <2>2
  <2>3. P \in SUBSET (0..N)
    OBVIOUS
  <2>4. P = 0..N
    <3> HIDE DEF P, N
    <3> QED BY <1>1, <2>1, <2>2, <2>3, UpTo
  <2> QED BY <2>4
<1>10. Own(text) = f[N]
  BY DEF Own, OwnTo
<1> HIDE DEF Is
<1> QED BY <1>7, <1>8, <1>9, <1>10

\* Two texts, one behind the other.
LEMMA Joined ==
  ASSUME NEW A \in Text, NEW B \in Text
  PROVE  /\ A \o B \in Text /\ Len(A \o B) = Len(A) + Len(B)
         /\ Len(A) \in Nat /\ Len(B) \in Nat
         /\ \A i \in 1..Len(A) : (A \o B)[i] = A[i]
         /\ \A i \in 1..Len(B) : (A \o B)[Len(A) + i] = B[i]
<1>1. Len(A) \in Nat /\ Len(B) \in Nat
  BY DEF Text
<1>2. /\ A \o B \in Text /\ Len(A \o B) = Len(A) + Len(B)
      /\ \A i \in 1..(Len(A) + Len(B)) :
           (A \o B)[i] = IF i <= Len(A) THEN A[i] ELSE B[i - Len(A)]
  BY ConcatProperties DEF Text
<1>3. \A i \in 1..Len(A) : i \in 1..(Len(A) + Len(B)) /\ i <= Len(A)
  BY <1>1
<1>4. \A i \in 1..Len(B) : /\ Len(A) + i \in 1..(Len(A) + Len(B)) /\ ~(Len(A) + i <= Len(A))
                           /\ (Len(A) + i) - Len(A) = i
  BY <1>1
<1> QED BY <1>1, <1>2, <1>3, <1>4

\* Every block of the text has its end.
Closed(text) ==
  \A j \in 1..Len(text) : text[j] = "begin" => \E k \in j..Len(text) : text[k] = "end"

\* Whether a place is inside a block says the text up to it.
LEMMA InsideFront ==
  ASSUME NEW A \in Text, NEW B \in Text, NEW i \in 1..Len(A)
  PROVE  Inside(A \o B, i) <=> Inside(A, i)
<1>0. Len(A) \in Nat
  BY Joined
<1>1. \A j \in 1..i : j \in 1..Len(A) /\ \A k \in j..(i - 1) : k \in 1..Len(A)
  BY <1>0
<1>2. \A j \in 1..i : (A \o B)[j] = A[j] /\ \A k \in j..(i - 1) : (A \o B)[k] = A[k]
  BY <1>1, Joined
<1> QED BY <1>2 DEF Inside

\* Behind a text whose blocks are closed it is as if that text was not there.
LEMMA InsideBehind ==
  ASSUME NEW A \in Text, NEW B \in Text, Closed(A), NEW i \in 1..Len(B)
  PROVE  Inside(A \o B, Len(A) + i) <=> Inside(B, i)
<1> DEFINE n == Len(A)
           T == A \o B
<1>1. /\ n \in Nat /\ Len(B) \in Nat /\ \A j \in 1..n : T[j] = A[j]
      /\ \A j \in 1..Len(B) : T[n + j] = B[j]
  BY Joined
<1> HIDE DEF T
<1>2. ASSUME Inside(B, i) PROVE Inside(T, n + i)
  <2>1. PICK j \in 1..i : B[j] = "begin" /\ \A k \in j..(i - 1) : B[k] # "end"
    BY <1>2 DEF Inside
  <2>2. n + j \in 1..(n + i) /\ T[n + j] = "begin"
    BY <1>1, <2>1, SMTT(30)
  <2>3. ASSUME NEW k \in (n + j)..(n + i - 1) PROVE T[k] # "end"
    <3>1. k - n \in j..(i - 1) /\ k - n \in 1..Len(B) /\ n + (k - n) = k
      BY <1>1, <2>1
    <3> QED BY <3>1, <2>1, <1>1
  <2> QED BY <2>2, <2>3 DEF Inside
<1>3. ASSUME Inside(T, n + i) PROVE Inside(B, i)
  <2>1. PICK j \in 1..(n + i) : T[j] = "begin" /\ \A k \in j..(n + i - 1) : T[k] # "end"
    BY <1>3 DEF Inside
  <2>2. CASE j <= n
    <3>1. j \in 1..n /\ A[j] = "begin"
      BY <1>1, <2>1, <2>2
    <3>2. PICK k \in j..n : A[k] = "end"
      BY <3>1 DEF Closed
    <3>3. k \in 1..n /\ k \in j..(n + i - 1)
      BY <1>1, <3>1
    <3> QED BY <3>2, <3>3, <2>1, <1>1
  <2>3. CASE ~(j <= n)
    <3>1. j - n \in 1..i /\ j - n \in 1..Len(B) /\ n + (j - n) = j
      BY <1>1, <2>3
    <3>2. ASSUME NEW k \in (j - n)..(i - 1) PROVE B[k] # "end"
      <4>1. n + k \in j..(n + i - 1) /\ k \in 1..Len(B)
        BY <1>1, <3>1
      <4> QED BY <4>1, <2>1, <1>1
    <3>3. B[j - n] = "begin"
      BY <3>1, <2>1, <1>1
    <3> QED BY <3>1, <3>2, <3>3 DEF Inside
  <2> QED BY <2>2, <2>3
<1> QED BY <1>2, <1>3 DEF T

\* What is the user's in the first of two texts.
LEMMA OwnFront ==
  ASSUME NEW A \in Text, NEW B \in Text
  PROVE  \A n \in 0..Len(A) : OwnTo(A \o B)[n] = OwnTo(A)[n]
<1> DEFINE N == Len(A)
           T == A \o B
           f == OwnTo(T)
           g == OwnTo(A)
           P == {n \in 0..N : f[n] = g[n]}
<1>1. N \in Nat /\ \A n \in 1..N : n \in 1..Len(T) /\ T[n] = A[n]
  BY Joined
<1>2. T \in Text
  BY Joined
<1>3. /\ f[0] = <<>>
      /\ \A n \in 1..Len(T) : f[n] = IF T[n] = "nl" \/ Inside(T, n) THEN f[n - 1]
                                     ELSE Append(f[n - 1], T[n])
  BY <1>2, OwnStep
<1>4. /\ g[0] = <<>>
      /\ \A n \in 1..N : g[n] = IF A[n] = "nl" \/ Inside(A, n) THEN g[n - 1]
                                ELSE Append(g[n - 1], A[n])
  BY OwnStep
<1>5. \A n \in 1..N : Inside(T, n) <=> Inside(A, n)
  BY InsideFront
<1> HIDE DEF T, f, g
<1>6. 0 \in P
  BY <1>1, <1>3, <1>4
<1>7. ASSUME NEW i \in 0..N, i \in P, i + 1 \in 0..N PROVE i + 1 \in P
  <2>1. i + 1 \in 1..N /\ (i + 1) - 1 = i /\ f[i] = g[i]
    BY <1>1, <1>7
  <2>2. T[i + 1] = A[i + 1] /\ i + 1 \in 1..Len(T)
    BY <2>1, <1>1
  <2>3. CASE A[i + 1] = "nl" \/ Inside(A, i + 1)
    <3>1. f[i + 1] = f[i] /\ g[i + 1] = g[i]
      BY <2>1, <2>2, <2>3, <1>3, <1>4, <1>5
    <3> QED BY <2>1, <3>1
  <2>4. CASE ~(A[i + 1] = "nl" \/ Inside(A, i + 1))
    <3>1. f[i + 1] = Append(f[i], A[i + 1]) /\ g[i + 1] = Append(g[i], A[i + 1])
      BY <2>1, <2>2, <2>4, <1>3, <1>4, <1>5
    <3>2. f[i + 1] = g[i + 1]
      BY <2>1, <3>1
    <3> HIDE DEF N
    <3> QED BY <1>7, <3>2
  <2> QED BY <2>3, <2>4
<1>8. P \in SUBSET (0..N)
  OBVIOUS
<1>9. P = 0..N
  <2> HIDE DEF P, N
  <2> QED BY <1>1, <1>6, <1>7, <1>8, UpTo
<1> QED BY <1>9 DEF f, g, T

\* Nothing of what follows is the user's.
LEMMA OwnSkip ==
  ASSUME NEW A \in Text, NEW B \in Text,
         \A i \in 1..Len(B) : B[i] = "nl" \/ Inside(A \o B, Len(A) + i)
  PROVE  Own(A \o B) = Own(A)
<1> DEFINE N == Len(A)
           M == Len(B)
           T == A \o B
           f == OwnTo(T)
           P == {n \in 0..M : f[N + n] = Own(A)}
<1>1. /\ N \in Nat /\ M \in Nat /\ T \in Text /\ Len(T) = N + M
      /\ \A n \in 1..M : T[N + n] = B[n]
  BY Joined
<1>3. /\ Own(T) = f[Len(T)]
      /\ \A n \in 1..Len(T) : f[n] = IF T[n] = "nl" \/ Inside(T, n) THEN f[n - 1]
                                     ELSE Append(f[n - 1], T[n])
  BY <1>1, OwnStep
<1>4. f[N + 0] = Own(A)
  <2>1. f[N] = OwnTo(A)[N]
    BY <1>1, OwnFront
  <2>2. Own(A) = OwnTo(A)[N]
    BY OwnStep
  <2> QED BY <1>1, <2>1, <2>2
<1>5. \A n \in 1..M : T[N + n] = "nl" \/ Inside(T, N + n)
  BY <1>1
<1> HIDE DEF T, f
<1>6. 0 \in P
  BY <1>1, <1>4
<1>7. ASSUME NEW i \in 0..M, i \in P, i + 1 \in 0..M PROVE i + 1 \in P
  <2>1. /\ i + 1 \in 1..M /\ N + (i + 1) \in 1..Len(T) /\ (N + (i + 1)) - 1 = N + i
        /\ f[N + i] = Own(A)
    BY <1>1, <1>7
  <2>2. f[N + (i + 1)] = f[N + i]
    BY <2>1, <1>3, <1>5
  <2> QED BY <2>1, <2>2
<1>8. P \in SUBSET (0..M)
  OBVIOUS
<1>9. P = 0..M
  <2> HIDE DEF P, M
  <2> QED BY <1>1, <1>6, <1>7, <1>8, UpTo
<1>10. M \in P
  BY <1>1, <1>9
<1> QED BY <1>1, <1>3, <1>10 DEF T

LEMMA AppendBehind ==
  ASSUME NEW x \in Text, NEW y \in Text, NEW z \in Piece
  PROVE  Append(x \o y, z) = x \o Append(y, z)
<1>0. x \o y \in Text
  BY Joined
<1>1. <<z>> \in Text /\ x \o y \in Text
  <2>1. ASSUME NEW Q, NEW e \in Q PROVE <<e>> \in Seq(Q)
    OBVIOUS
  <2>2. <<z>> \in Seq(Piece)
    BY <2>1
  <2> QED BY <1>0, <2>2 DEF Text
<1>2. Append(x \o y, z) = (x \o y) \o <<z>> /\ Append(y, z) = y \o <<z>>
  BY <1>1, AppendIsConcat DEF Text
<1> DEFINE w == <<z>>
<1> HIDE DEF w
<1>3. (x \o y) \o w = x \o (y \o w)
  BY <1>1, ConcatAssociative DEF Text, w
<1> QED BY <1>2, <1>3 DEF w

\* Behind closed blocks.
LEMMA OwnJoin ==
  ASSUME NEW A \in Text, NEW B \in Text, Closed(A)
  PROVE  Own(A \o B) = Own(A) \o Own(B)
<1> DEFINE N == Len(A)
           M == Len(B)
           T == A \o B
           f == OwnTo(T)
           g == OwnTo(B)
           P == {n \in 0..M : f[N + n] = Own(A) \o g[n]}
<1>1. /\ N \in Nat /\ M \in Nat /\ T \in Text /\ Len(T) = N + M
      /\ \A n \in 1..M : T[N + n] = B[n]
  BY Joined
<1>3. /\ Own(T) = f[Len(T)]
      /\ \A n \in 1..Len(T) : f[n] = IF T[n] = "nl" \/ Inside(T, n) THEN f[n - 1]
                                     ELSE Append(f[n - 1], T[n])
  BY <1>1, OwnStep
<1>4. /\ Own(B) = g[M] /\ g[0] = <<>>
      /\ \A n \in 0..M : g[n] \in Text
      /\ \A n \in 1..M : g[n] = IF B[n] = "nl" \/ Inside(B, n) THEN g[n - 1]
                                ELSE Append(g[n - 1], B[n])
  BY OwnStep
<1>5. Own(A) \in Text
  <2>1. N \in 0..N
    BY <1>1
  <2> QED BY <2>1, OwnStep
<1>6. f[N + 0] = Own(A) \o g[0]
  <2>1. f[N] = OwnTo(A)[N]
    BY <1>1, OwnFront
  <2>2. Own(A) = OwnTo(A)[N]
    BY OwnStep
  <2>3. Own(A) \o <<>> = Own(A)
    BY <1>5 DEF Text
  <2> QED BY <1>1, <1>4, <2>1, <2>2, <2>3
<1>7. \A n \in 1..M : Inside(T, N + n) <=> Inside(B, n)
  BY InsideBehind
<1>8. \A n \in 1..M : B[n] \in Piece
  BY DEF Text
<1> HIDE DEF T, f, g
<1>9. 0 \in P
  BY <1>1, <1>6
<1>10. ASSUME NEW i \in 0..M, i \in P, i + 1 \in 0..M PROVE i + 1 \in P
  <2>1. /\ i + 1 \in 1..M /\ (i + 1) - 1 = i /\ N + (i + 1) \in 1..Len(T)
        /\ (N + (i + 1)) - 1 = N + i /\ f[N + i] = Own(A) \o g[i]
    BY <1>1, <1>10
  <2>2. CASE B[i + 1] = "nl" \/ Inside(B, i + 1)
    <3>1. f[N + (i + 1)] = f[N + i] /\ g[i + 1] = g[i]
      BY <2>1, <2>2, <1>1, <1>3, <1>4, <1>7
    <3>2. f[N + (i + 1)] = Own(A) \o g[i + 1]
      BY <2>1, <3>1
    <3> HIDE DEF N, M
    <3> QED BY <1>10, <3>2
  <2>3. CASE ~(B[i + 1] = "nl" \/ Inside(B, i + 1))
    <3>1. f[N + (i + 1)] = Append(f[N + i], B[i + 1]) /\ g[i + 1] = Append(g[i], B[i + 1])
      BY <2>1, <2>3, <1>1, <1>3, <1>4, <1>7
    <3>2. g[i] \in Text /\ B[i + 1] \in Piece
      BY <1>4, <1>8, <1>10, <2>1
    <3>3. Append(Own(A) \o g[i], B[i + 1]) = Own(A) \o Append(g[i], B[i + 1])
      BY <3>2, <1>5, AppendBehind
    <3>4. f[N + (i + 1)] = Own(A) \o g[i + 1]
      BY <2>1, <3>1, <3>3
    <3> HIDE DEF N, M
    <3> QED BY <1>10, <3>4
  <2> QED BY <2>2, <2>3
<1>11. P \in SUBSET (0..M)
  OBVIOUS
<1>12. P = 0..M
  <2> HIDE DEF P, M
  <2> QED BY <1>1, <1>9, <1>10, <1>11, UpTo
<1>13. M \in P
  <2> HIDE DEF P, M
  <2> QED BY <1>1, <1>12
<1> QED BY <1>1, <1>3, <1>4, <1>13 DEF T

\* What find returns: the first such place, or 0.
LEMMA FindMeans ==
  ASSUME NEW text \in Text, NEW piece, NEW from \in Nat \ {0}
  PROVE  LET f == Find(text, piece, from)
         IN \/ f = 0 /\ \A i \in from..Len(text) : text[i] # piece
            \/ /\ f \in from..Len(text) /\ text[f] = piece
               /\ \A i \in from..(f - 1) : text[i] # piece
<1> DEFINE places == {i \in from..Len(text) : text[i] = piece}
           f == Find(text, piece, from)
<1>1. Len(text) \in Nat
  BY DEF Text
<1>2. f = IF places = {} THEN 0 ELSE CHOOSE i \in places : \A j \in places : i <= j
  BY DEF Find
<1>3. CASE places = {}
  BY <1>2, <1>3
<1>4. CASE places # {}
  <2>1. places \in SUBSET Nat
    BY <1>1
  <2>2. f = Min(places)
    BY <1>2, <1>4 DEF Min
  <2>3. f \in places /\ \A x \in places : f <= x
    <3> HIDE DEF places, f
    <3> QED BY <1>4, <2>1, <2>2, MinLeast
  <2>4. \A i \in from..(f - 1) : i \in from..Len(text) /\ ~(f <= i)
    BY <1>1, <2>3
  <2> QED BY <2>3, <2>4
<1> QED BY <1>3, <1>4

\* The first such piece is at place i.
FirstAt(text, piece, from, i) ==
  /\ i \in from..Len(text) /\ text[i] = piece
  /\ \A j \in from..(i - 1) : text[j] # piece

\* That place is the one found.
LEMMA Finds ==
  ASSUME NEW text \in Text, NEW piece, NEW from \in Nat \ {0},
         NEW i, FirstAt(text, piece, from, i)
  PROVE  Find(text, piece, from) = i
<1> DEFINE f == Find(text, piece, from)
<1>0. /\ i \in from..Len(text) /\ text[i] = piece
      /\ \A j \in from..(i - 1) : text[j] # piece
  BY DEF FirstAt
<1>1. Len(text) \in Nat
  BY DEF Text
<1>2. \/ f = 0 /\ \A k \in from..Len(text) : text[k] # piece
      \/ /\ f \in from..Len(text) /\ text[f] = piece
         /\ \A k \in from..(f - 1) : text[k] # piece
  BY FindMeans
<1> HIDE DEF f
<1>3. f \in from..Len(text) /\ ~(i \in from..(f - 1)) /\ ~(f \in from..(i - 1))
  BY <1>0, <1>2
<1>4. f = i
  BY <1>0, <1>1, <1>3
<1> QED BY <1>4 DEF f

NoBegin(text) == \A i \in 1..Len(text) : text[i] # "begin"

\* Where no block begins there is none to cut out.
LEMMA NothingFound ==
  ASSUME NEW text \in Text
  PROVE  NoBegin(text) <=> Find(text, "begin", 1) = 0
<1>1. Len(text) \in Nat
  BY DEF Text
<1> DEFINE f == Find(text, "begin", 1)
<1>2. \/ f = 0 /\ \A i \in 1..Len(text) : text[i] # "begin"
      \/ /\ f \in 1..Len(text) /\ text[f] = "begin"
         /\ \A i \in 1..(f - 1) : text[i] # "begin"
  BY FindMeans
<1> HIDE DEF f
<1>3. f \in 1..Len(text) => f # 0
  BY <1>1
<1>4. NoBegin(text) <=> f = 0
  BY <1>2, <1>3 DEF NoBegin
<1> QED BY <1>4 DEF f

\* A piece of text that is all of the daemon's.
Ours(M) == \A i \in 1..Len(M) : M[i] = "nl" \/ Inside(M, i)

\* The first block and what is around it.
LEMMA Cut ==
  ASSUME NEW text \in Text, NEW b, b = Find(text, "begin", 1), b # 0,
         NEW e, e = Find(text, "end", b), e # 0
  PROVE  /\ Before(text, b) \in Text /\ Behind(text, e) \in Text
         /\ NoBegin(Before(text, b))
         /\ \E M \in Text : /\ text = Before(text, b) \o (M \o Behind(text, e))
                            /\ Len(M) > 0 /\ M[1] = "begin" /\ Ours(M) /\ Closed(M)
<1> DEFINE N == Len(text)
           h == IF e < N /\ text[e + 1] = "nl" THEN e + 1 ELSE e
           M == SubSeq(text, b, h)
           A == SubSeq(text, 1, b - 1)
           Z == SubSeq(text, h + 1, N)
<1>1. N \in Nat /\ text \in Seq(Piece)
  BY DEF Text
<1>2. b \in 1..N /\ text[b] = "begin" /\ \A i \in 1..(b - 1) : text[i] # "begin"
  BY FindMeans
<1>3. e \in b..N /\ text[e] = "end" /\ \A i \in b..(e - 1) : text[i] # "end"
  <2>1. b \in Nat \ {0}
    BY <1>1, <1>2
  <2> QED BY <2>1, FindMeans
<1>4. /\ h \in b..N /\ b <= e /\ e <= h /\ h <= e + 1
      /\ h = e + 1 => text[h] = "nl"
  BY <1>1, <1>2, <1>3
<1>5. Before(text, b) = A /\ Behind(text, e) = Z
  BY <1>1, <1>3, SMTT(30) DEF Before, Behind
<1> HIDE DEF h
<1>6. /\ A \in Text /\ Z \in Text /\ M \in Text
      /\ Len(A) = b - 1 /\ Len(M) = h - b + 1
      /\ \A i \in 1..(b - 1) : A[i] = text[i]
      /\ \A i \in 1..(h - b + 1) : M[i] = text[b + i - 1]
  BY <1>1, <1>2, <1>4, SubSeqProperties, SMTT(30) DEF Text
<1>7. text = A \o (M \o Z)
  <2>0. /\ b \in 1..(N + 1) /\ h \in (b - 1)..N /\ N \in h..N
        /\ 1 \in 1..(N + 1) /\ b - 1 \in (1 - 1)..N /\ N \in (b - 1)..N
    BY <1>1, <1>2, <1>4
  <2>1. SubSeq(text, b, h) \o SubSeq(text, h + 1, N) = SubSeq(text, b, N)
    BY <1>1, <2>0, ConcatAdjacentSubSeq
  <2>2. SubSeq(text, 1, b - 1) \o SubSeq(text, (b - 1) + 1, N) = SubSeq(text, 1, N)
    BY <1>1, <2>0, ConcatAdjacentSubSeq
  <2>3. SubSeq(text, 1, N) = text /\ (b - 1) + 1 = b
    BY <1>1, <1>2
  <2> QED BY <2>1, <2>2, <2>3
<1>12. /\ b \in Nat \ {0} /\ e \in Nat /\ h \in Nat /\ N \in Nat
       /\ b <= e /\ e <= h /\ h <= e + 1 /\ h <= N
  BY <1>1, <1>2, <1>3, <1>4
<1> HIDE DEF A, Z, M, N
<1>8. NoBegin(A)
  BY <1>2, <1>6 DEF NoBegin
<1>9. Ours(M)
  <2> SUFFICES ASSUME NEW i \in 1..Len(M), M[i] # "nl" PROVE Inside(M, i)
    BY DEF Ours
  <2>1. i \in 1..(h - b + 1) /\ M[i] = text[b + i - 1]
    BY <1>6
  <2>2. b + i - 1 # e + 1
    BY <2>1, <1>12, <1>3, <1>4, SMTT(30)
  <2>3. b + i - 1 <= e /\ 1 \in 1..i /\ 1 \in 1..(h - b + 1) /\ b + 1 - 1 = b
    BY <2>1, <2>2, <1>12, SMTT(30)
  <2>4. M[1] = "begin"
    BY <2>3, <1>2, <1>6
  <2>5. ASSUME NEW k \in 1..(i - 1) PROVE M[k] # "end"
    <3>1. k \in 1..(h - b + 1) /\ b + k - 1 \in b..(e - 1)
      <4>1. i \in Nat /\ i <= h - b + 1 /\ k \in Nat \ {0} /\ k < i
        BY <2>1, <1>12
      <4> QED BY <4>1, <2>3, <1>12, SMTT(30)
    <3> QED BY <3>1, <1>3, <1>6
  <2> QED BY <2>3, <2>4, <2>5 DEF Inside
<1>10. Closed(M)
  <2> SUFFICES ASSUME NEW j \in 1..Len(M), M[j] = "begin"
               PROVE  \E k \in j..Len(M) : M[k] = "end"
    BY DEF Closed
  <2>1. j \in 1..(h - b + 1) /\ M[j] = text[b + j - 1]
    BY <1>6
  <2>2. b + j - 1 # e + 1
    BY <2>1, <1>2, <1>3, <1>4, SMTT(30)
  <2>3. /\ e - b + 1 \in j..Len(M) /\ e - b + 1 \in 1..(h - b + 1)
        /\ b + (e - b + 1) - 1 = e
    <3>1. b + j - 1 <= e
      BY <2>1, <2>2, <1>12
    <3>2. Len(M) = h - b + 1
      BY <1>6
    <3> QED BY <3>1, <3>2, <2>1, <1>12, SMTT(30)
  <2> QED BY <2>3, <1>3, <1>6
<1>11. Len(M) > 0
  BY <1>6, <1>12
<1>13. M[1] = "begin"
  <2>1. 1 \in 1..(h - b + 1) /\ b + 1 - 1 = b
    BY <1>12
  <2> QED BY <2>1, <1>2, <1>6
<1> QED BY <1>5, <1>6, <1>7, <1>8, <1>9, <1>10, <1>11, <1>13

\* The same for one that was cut short.
LEMMA CutOpen ==
  ASSUME NEW text \in Text, NEW b, b = Find(text, "begin", 1), b # 0,
         Find(text, "end", b) = 0
  PROVE  /\ Before(text, b) \in Text /\ NoBegin(Before(text, b))
         /\ \E M \in Text : /\ text = Before(text, b) \o M
                            /\ Len(M) > 0 /\ M[1] = "begin" /\ Ours(M)
<1> DEFINE N == Len(text)
           M == SubSeq(text, b, N)
           A == SubSeq(text, 1, b - 1)
<1>1. N \in Nat /\ text \in Seq(Piece)
  BY DEF Text
<1>2. b \in 1..N /\ text[b] = "begin" /\ \A i \in 1..(b - 1) : text[i] # "begin"
  BY FindMeans
<1>3. \A i \in b..N : text[i] # "end"
  <2>1. b \in Nat \ {0}
    BY <1>1, <1>2
  <2>2. ~(Find(text, "end", b) \in b..N)
    BY <1>1, <2>1
  <2> QED BY <2>1, <2>2, FindMeans
<1>4. Before(text, b) = A
  BY DEF Before
<1>5. /\ A \in Text /\ M \in Text
      /\ Len(A) = b - 1 /\ Len(M) = N - b + 1
      /\ \A i \in 1..(b - 1) : A[i] = text[i]
      /\ \A i \in 1..(N - b + 1) : M[i] = text[b + i - 1]
  BY <1>1, <1>2, SubSeqProperties DEF Text
<1>6. text = A \o M
  <2>0. 1 \in 1..(N + 1) /\ b - 1 \in (1 - 1)..N /\ N \in (b - 1)..N
    BY <1>1, <1>2
  <2>1. SubSeq(text, 1, b - 1) \o SubSeq(text, (b - 1) + 1, N) = SubSeq(text, 1, N)
    BY <1>1, <2>0, ConcatAdjacentSubSeq
  <2>2. SubSeq(text, 1, N) = text /\ (b - 1) + 1 = b
    BY <1>1, <1>2
  <2> QED BY <2>1, <2>2
<1> HIDE DEF A, M, N
<1>7. NoBegin(A)
  BY <1>2, <1>5 DEF NoBegin
<1>8. ASSUME NEW i \in 1..Len(M) PROVE Inside(M, i)
  <2>1. i \in 1..(N - b + 1) /\ 1 \in 1..i /\ 1 \in 1..(N - b + 1) /\ b + 1 - 1 = b
    BY <1>1, <1>2, <1>5, SMTT(30)
  <2>2. M[1] = "begin"
    BY <2>1, <1>2, <1>5
  <2>3. ASSUME NEW k \in 1..(i - 1) PROVE M[k] # "end"
    <3>1. k \in 1..(N - b + 1) /\ b + k - 1 \in b..N
      BY <2>1, <1>1, <1>2
    <3> QED BY <3>1, <1>3, <1>5
  <2> QED BY <2>1, <2>2, <2>3 DEF Inside
<1>9. Len(M) > 0
  BY <1>1, <1>2, <1>5
<1>10. M[1] = "begin"
  <2>1. 1 \in 1..(N - b + 1) /\ b + 1 - 1 = b
    BY <1>1, <1>2
  <2> QED BY <2>1, <1>2, <1>5
<1> QED BY <1>4, <1>5, <1>6, <1>7, <1>8, <1>9, <1>10 DEF Ours

LEMMA NoBeginClosed == \A text : NoBegin(text) => Closed(text)
BY DEF NoBegin, Closed

LEMMA OwnOurs ==
  ASSUME NEW M \in Text, Ours(M)
  PROVE  Own(M) = <<>>
<1> DEFINE nothing == <<>>
<1>1. nothing \in Text /\ Len(nothing) = 0 /\ nothing \o M = M
  BY DEF Text
<1>2. \A i \in 1..Len(M) : 0 + i = i
  BY DEF Text
<1>3. Own(nothing) = nothing
  <2>1. Own(nothing) = OwnTo(nothing)[0] /\ OwnTo(nothing)[0] = <<>>
    <3> HIDE DEF nothing
    <3> QED BY <1>1, OwnStep
  <2> QED BY <2>1
<1> HIDE DEF nothing
<1>4. Own(nothing \o M) = Own(nothing)
  BY <1>1, <1>2, OwnSkip DEF Ours
<1> QED BY <1>1, <1>3, <1>4 DEF nothing

LEMMA OwnIsText == ASSUME NEW text \in Text PROVE Own(text) \in Text
<1>1. Len(text) \in 0..Len(text)
  BY DEF Text
<1> QED BY <1>1, OwnStep

\* One block is cut out.
LEMMA StripOne ==
  ASSUME NEW text \in Text
  PROVE  /\ StripFirst(text) \in Text /\ Own(StripFirst(text)) = Own(text)
         /\ NoBegin(text) => StripFirst(text) = text
         /\ ~NoBegin(text) => Len(StripFirst(text)) < Len(text)
<1> DEFINE b == Find(text, "begin", 1)
           e == Find(text, "end", b)
           A == Before(text, b)
           Z == Behind(text, e)
<1>1. NoBegin(text) <=> b = 0
  BY NothingFound
<1>2. CASE b = 0
  BY <1>1, <1>2 DEF StripFirst
<1>3. CASE b # 0 /\ e = 0
  <2>1. StripFirst(text) = A
    BY <1>3 DEF StripFirst
  <2>2. A \in Text /\ NoBegin(A)
    BY <1>3, CutOpen
  <2>3. PICK M \in Text : text = A \o M /\ Len(M) > 0 /\ Ours(M)
    BY <1>3, CutOpen
  <2> HIDE DEF A, b, e
  <2>4. Own(text) = Own(A) \o Own(M) /\ Own(M) = <<>> /\ Own(A) \in Text
    BY <2>2, <2>3, OwnJoin, OwnOurs, OwnIsText, NoBeginClosed
  <2>5. Own(text) = Own(A)
    BY <2>4, ConcatEmptySeq DEF Text
  <2>6. Len(A) < Len(text)
    <3>1. Len(text) = Len(A) + Len(M) /\ Len(A) \in Nat /\ Len(M) \in Nat
      BY <2>2, <2>3, Joined
    <3> QED BY <3>1, <2>3
  <2> QED BY <1>1, <1>3, <2>1, <2>2, <2>5, <2>6
<1>4. CASE b # 0 /\ e # 0
  <2>1. StripFirst(text) = A \o Z
    BY <1>4 DEF StripFirst
  <2>2. A \in Text /\ NoBegin(A) /\ Z \in Text
    BY <1>4, Cut
  <2>3. PICK M \in Text : text = A \o (M \o Z) /\ Len(M) > 0 /\ Ours(M) /\ Closed(M)
    BY <1>4, Cut
  <2> HIDE DEF A, Z, b, e
  <2>4. M \o Z \in Text /\ A \o Z \in Text
    BY <2>2, Joined
  <2>5. Own(text) = Own(A) \o Own(M \o Z)
    BY <2>2, <2>3, <2>4, OwnJoin, NoBeginClosed
  <2>6. Own(A \o Z) = Own(A) \o Own(Z)
    BY <2>2, OwnJoin, NoBeginClosed
  <2>7. Own(M \o Z) = Own(M) \o Own(Z) /\ Own(M) = <<>> /\ Own(Z) \in Text
    BY <2>2, <2>3, OwnJoin, OwnOurs, OwnIsText
  <2>8. Own(M \o Z) = Own(Z)
    BY <2>7, ConcatEmptySeq DEF Text
  <2>9. Len(A \o Z) < Len(text)
    <3>1. /\ Len(A) \in Nat /\ Len(M) \in Nat /\ Len(Z) \in Nat
          /\ Len(text) = Len(A) + Len(M \o Z) /\ Len(M \o Z) = Len(M) + Len(Z)
          /\ Len(A \o Z) = Len(A) + Len(Z)
      BY <2>2, <2>3, <2>4, Joined
    <3> QED BY <3>1, <2>3
  <2> QED BY <1>1, <1>4, <2>1, <2>4, <2>5, <2>6, <2>8, <2>9
<1> QED BY <1>2, <1>3, <1>4

\* What is left after n of them.
Strip(text) ==
  CHOOSE f : f = [n \in 0..Len(text) |-> IF n = 0 THEN text ELSE StripFirst(f[n - 1])]

LEMMA StripStep ==
  ASSUME NEW text \in Text
  PROVE  /\ Strip(text)[0] = text /\ StripBlocks(text) = Strip(text)[Len(text)]
         /\ \A n \in 1..Len(text) : Strip(text)[n] = StripFirst(Strip(text)[n - 1])
<1> DEFINE N == Len(text)
           Step == [p \in Text \X (1..N) |-> StripFirst(p[1])]
           Is(g) == g = [n \in 0..N |-> IF n = 0 THEN text ELSE StripFirst(g[n - 1])]
<1>1. N \in Nat
  BY DEF Text
<1>2. Step \in [Text \X (1..N) -> Text]
  BY StripOne
<1>4. PICK g \in [0..N -> Text] :
        g[0] = text /\ \A i \in 1..N : g[i] = Step[<<g[i - 1], i>>]
  <2> HIDE DEF N, Step
  <2>2. \E g : Computes(g, N, Text, text, Step)
    BY <1>1, <1>2, StepByStep
  <2> QED BY <2>2 DEF Computes
<1>5. Is(g)
  <2>1. ASSUME NEW n \in 0..N, n # 0 PROVE g[n] = StripFirst(g[n - 1])
    <3>1. n \in 1..N /\ n - 1 \in 0..N
      BY <1>1, <2>1
    <3>2. <<g[n - 1], n>> \in Text \X (1..N)
      BY <3>1
    <3>3. g[n] = Step[<<g[n - 1], n>>]
      BY <3>1, <1>4
    <3> QED BY <3>2, <3>3
  <2> HIDE DEF Step
  <2> QED BY <2>1, <1>4
<1>6. Is(Strip(text))
  <2>1. Strip(text) = CHOOSE h : Is(h)
    BY DEF Strip
  <2> HIDE DEF Is
  <2> QED BY <2>1, <1>5
<1>7. Strip(text)[0] = text
  <2>1. 0 \in 0..N
    BY <1>1
  <2> QED BY <1>6, <2>1
<1>8. \A n \in 1..N : Strip(text)[n] = StripFirst(Strip(text)[n - 1])
  <2>1. \A n \in 1..N : n \in 0..N /\ n # 0
    BY <1>1
  <2> QED BY <1>6, <2>1
<1>9. StripBlocks(text) = Strip(text)[N]
  BY DEF StripBlocks, Strip
<1> QED BY <1>7, <1>8, <1>9

\* All blocks are cut out, and nothing that is the user's.
LEMMA StripAll ==
  ASSUME NEW text \in Text
  PROVE  /\ StripBlocks(text) \in Text /\ NoBegin(StripBlocks(text))
         /\ Own(StripBlocks(text)) = Own(text)
         /\ NoBegin(text) => StripBlocks(text) = text
<1> DEFINE N == Len(text)
           f == Strip(text)
           Fine(n) == /\ f[n] \in Text /\ Own(f[n]) = Own(text)
                      /\ NoBegin(f[n]) \/ Len(f[n]) + n <= N
                      /\ NoBegin(text) => f[n] = text
           P == {n \in 0..N : Fine(n)}
<1>1. N \in Nat
  BY DEF Text
<1>2. /\ f[0] = text /\ StripBlocks(text) = f[N]
      /\ \A n \in 1..N : f[n] = StripFirst(f[n - 1])
  BY StripStep
<1> HIDE DEF f
<1>3. 0 \in P
  BY <1>1, <1>2
<1>4. ASSUME NEW i \in 0..N, i \in P, i + 1 \in 0..N PROVE i + 1 \in P
  <2>1. i + 1 \in 1..N /\ (i + 1) - 1 = i
    BY <1>1, <1>4
  <2>2. f[i + 1] = StripFirst(f[i])
    BY <2>1, <1>2
  <2>3. Fine(i)
    BY <1>4
  <2>4. /\ f[i + 1] \in Text /\ Own(f[i + 1]) = Own(f[i])
        /\ NoBegin(f[i]) => f[i + 1] = f[i]
        /\ ~NoBegin(f[i]) => Len(f[i + 1]) < Len(f[i])
    BY <2>2, <2>3, StripOne
  <2>5. NoBegin(f[i + 1]) \/ Len(f[i + 1]) + (i + 1) <= N
    <3>1. CASE NoBegin(f[i])
      BY <3>1, <2>4
    <3>2. CASE ~NoBegin(f[i])
      <4>1. Len(f[i + 1]) \in Nat /\ Len(f[i]) \in Nat
        BY <2>3, <2>4 DEF Text
      <4>2. Len(f[i + 1]) < Len(f[i]) /\ Len(f[i]) + i <= N
        BY <3>2, <2>3, <2>4
      <4>3. \A x, y, n, k \in Nat : x < y /\ y + k <= n => x + (k + 1) <= n
        OBVIOUS
      <4>4. i \in Nat
        BY <1>1
      <4> QED BY <4>1, <4>2, <4>3, <4>4, <1>1
    <3> QED BY <3>1, <3>2
  <2>6. NoBegin(text) => f[i + 1] = text
    BY <2>3, <2>4
  <2>7. Fine(i + 1)
    BY <2>3, <2>4, <2>5, <2>6
  <2> HIDE DEF Fine
  <2> QED BY <1>4, <2>7
<1>5. P = 0..N
  <2>1. P \in SUBSET (0..N)
    OBVIOUS
  <2> HIDE DEF P, N
  <2> QED BY <1>1, <1>3, <1>4, <2>1, UpTo
<1>6. Fine(N)
  <2>1. N \in P
    <3> HIDE DEF P, N
    <3> QED BY <1>1, <1>5
  <2> HIDE DEF Fine
  <2> QED BY <2>1
<1>7. NoBegin(f[N])
  <2>1. CASE Len(f[N]) + N <= N
    <3>1. Len(f[N]) \in Nat
      BY <1>6 DEF Text
    <3>2. Len(f[N]) = 0
      BY <3>1, <2>1, <1>1
    <3> QED BY <3>2 DEF NoBegin
  <2> QED BY <2>1, <1>6
<1> QED BY <1>2, <1>6, <1>7

\* What the daemon writes: a block with its end and its last newline.
IsBlock(K) ==
  /\ K \in Text /\ Len(K) >= 4
  /\ K[1] = "begin" /\ K[Len(K) - 1] = "end" /\ K[Len(K)] = "nl"
  /\ \A i \in 2..(Len(K) - 2) : K[i] \notin {"begin", "end"}

Words == Piece \ {"begin", "end"}

LEMMA BlockIs ==
  ASSUME NEW d \in Seq(Words)
  PROVE  IsBlock(Block(d))
<1> DEFINE front == <<"begin", "nl">>
           back == <<"end", "nl">>
           n == Len(d)
           K == Block(d)
<1>1. /\ d \in Text /\ n \in Nat /\ \A i \in 1..n : d[i] \notin {"begin", "end"}
  BY DEF Words, Text
<1>2. /\ front \in Text /\ Len(front) = 2 /\ front[1] = "begin" /\ front[2] = "nl"
      /\ back \in Text /\ Len(back) = 2 /\ back[1] = "end" /\ back[2] = "nl"
  <2>1. "begin" \in Piece /\ "end" \in Piece /\ "nl" \in Piece
    BY DEF Piece
  <2>2. \A x, y \in Piece : <<x, y>> \in Seq(Piece)
    OBVIOUS
  <2> QED BY <2>1, <2>2 DEF Text
<1>3. K = (front \o d) \o back
  BY DEF Block
<1> HIDE DEF front, back
<1>4. /\ front \o d \in Text /\ Len(front \o d) = 2 + n
      /\ \A i \in 1..2 : (front \o d)[i] = front[i]
      /\ \A i \in 1..n : (front \o d)[2 + i] = d[i]
  <2>1. /\ front \o d \in Text /\ Len(front \o d) = Len(front) + Len(d)
        /\ \A i \in 1..Len(front) : (front \o d)[i] = front[i]
        /\ \A i \in 1..Len(d) : (front \o d)[Len(front) + i] = d[i]
    BY <1>1, <1>2, Joined
  <2> QED BY <2>1, <1>2
<1> DEFINE F1 == front \o d
<1> HIDE DEF F1
<1>5. /\ F1 \o back \in Text /\ Len(F1 \o back) = (2 + n) + 2
      /\ \A i \in 1..(2 + n) : (F1 \o back)[i] = F1[i]
      /\ \A i \in 1..2 : (F1 \o back)[(2 + n) + i] = back[i]
  <2>0. F1 \in Text /\ Len(F1) = 2 + n
    BY <1>4 DEF F1
  <2>1. /\ F1 \o back \in Text /\ Len(F1 \o back) = Len(F1) + Len(back)
        /\ \A i \in 1..Len(F1) : (F1 \o back)[i] = F1[i]
        /\ \A i \in 1..Len(back) : (F1 \o back)[Len(F1) + i] = back[i]
    BY <1>2, <2>0, Joined
  <2> HIDE DEF n
  <2> QED BY <2>0, <2>1, <1>2
<1>6. /\ K \in Text /\ Len(K) = n + 4
      /\ \A i \in 1..(2 + n) : K[i] = F1[i]
      /\ \A i \in 1..2 : K[(2 + n) + i] = back[i]
  <2>1. K = F1 \o back /\ (2 + n) + 2 = n + 4
    BY <1>1, <1>3 DEF F1
  <2> QED BY <1>5, <2>1
<1> HIDE DEF K
<1>7. 1 \in 1..2 /\ 2 \in 1..2 /\ 1 \in 1..(2 + n) /\ 2 \in 1..(2 + n)
  BY <1>1
<1>8. K[1] = "begin" /\ K[2] = "nl"
  BY <1>2, <1>4, <1>6, <1>7 DEF F1
<1>9. K[Len(K) - 1] = "end" /\ K[Len(K)] = "nl"
  <2>1. Len(K) - 1 = (2 + n) + 1 /\ Len(K) = (2 + n) + 2
    BY <1>1, <1>6
  <2> QED BY <2>1, <1>2, <1>6, <1>7
<1>10. ASSUME NEW i \in 2..(Len(K) - 2) PROVE K[i] \notin {"begin", "end"}
  <2>1. CASE i = 2
    BY <2>1, <1>8
  <2>2. CASE i # 2
    <3>1. i \in 1..(2 + n) /\ i - 2 \in 1..n /\ 2 + (i - 2) = i
      BY <2>2, <1>1, <1>6
    <3>2. K[i] = d[i - 2]
      BY <3>1, <1>4, <1>6 DEF F1
    <3> QED BY <3>1, <3>2, <1>1
  <2> QED BY <2>1, <2>2
<1> QED BY <1>1, <1>6, <1>8, <1>9, <1>10 DEF IsBlock, K

LEMMA DirectivesAreWords ==
  ASSUME NEW cfg \in [windows : BOOLEAN, exit : BOOLEAN]
  PROVE  Directives(cfg) \in Seq(Words)
<1>1. {"dns_port", "socks_port", "trans_port", "exit_nodes", "nl"} \subseteq Words
  BY DEF Words, Piece
<1> DEFINE ports == <<"dns_port", "nl", "socks_port", "nl">>
           trans == IF cfg.windows THEN <<>> ELSE <<"trans_port", "nl">>
           exits == IF cfg.exit THEN <<"exit_nodes", "nl">> ELSE <<>>
<1>2. \A a, c \in Words : <<a, c>> \in Seq(Words) /\ <<>> \in Seq(Words)
  OBVIOUS
<1>3. \A a, c, d \in Words : <<a, c, d, c>> \in Seq(Words)
  OBVIOUS
<1>4. ports \in Seq(Words)
  BY <1>1, <1>3
<1>5. trans \in Seq(Words) /\ exits \in Seq(Words)
  BY <1>1, <1>2
<1>6. Directives(cfg) = (ports \o trans) \o exits
  BY DEF Directives
<1> HIDE DEF ports, trans, exits
<1>7. ports \o trans \in Seq(Words)
  BY <1>4, <1>5, ConcatProperties
<1>8. (ports \o trans) \o exits \in Seq(Words)
  BY <1>5, <1>7, ConcatProperties
<1> QED BY <1>6, <1>8

LEMMA HookIs ==
  ASSUME NEW anchor \in Words
  PROVE  IsBlock(Hook(anchor))
<1>1. "nl" \in Words /\ "load" \in Words
  BY DEF Words, Piece
<1>2. \A a, c, d \in Words : <<a, c, d, a, c>> \in Seq(Words)
  OBVIOUS
<1>3. <<anchor, "nl", "load", anchor, "nl">> \in Seq(Words)
  BY <1>1, <1>2
<1> QED BY <1>3, BlockIs DEF Hook

\* A and Z are around the first block of X.
Surround(X, A, Z) ==
  \E b, e : /\ b = Find(X, "begin", 1) /\ b # 0
            /\ e = Find(X, "end", b) /\ e # 0
            /\ Before(X, b) = A /\ Behind(X, e) = Z

\* A block behind the user's text, and what follows it.
LEMMA BlockBehind ==
  ASSUME NEW A \in Text, NoBegin(A), NEW K, IsBlock(K), NEW Z \in Text,
         NEW X, X = (A \o K) \o Z
  PROVE  Surround(X, A, Z)
<1> DEFINE a == Len(A)
           n == Len(K)
           c == Len(Z)
           b == a + 1
           e == a + n - 1
<1>1. /\ K \in Text /\ K[1] = "begin" /\ K[n - 1] = "end" /\ K[n] = "nl" /\ n >= 4
      /\ \A i \in 2..(n - 2) : K[i] # "end"
  BY DEF IsBlock
<1>2. /\ A \o K \in Text /\ Len(A \o K) = a + n
      /\ \A i \in 1..a : (A \o K)[i] = A[i]
      /\ \A i \in 1..n : (A \o K)[a + i] = K[i]
  BY <1>1, Joined
<1>3. a \in Nat /\ n \in Nat /\ c \in Nat /\ n >= 4
  BY <1>1 DEF Text
<1>4. /\ X \in Text /\ Len(X) = (a + n) + c
      /\ \A i \in 1..(a + n) : X[i] = (A \o K)[i]
      /\ \A i \in 1..c : X[(a + n) + i] = Z[i]
  <2>1. /\ X \in Text /\ Len(X) = Len(A \o K) + Len(Z)
        /\ \A i \in 1..Len(A \o K) : X[i] = (A \o K)[i]
        /\ \A i \in 1..Len(Z) : X[Len(A \o K) + i] = Z[i]
    BY <1>2, Joined
  <2> HIDE DEF a, n
  <2> QED BY <2>1, <1>2
<1>5. /\ \A i \in 1..a : X[i] = A[i]
      /\ \A i \in 1..n : X[a + i] = K[i]
  <2>1. \A i \in 1..a : i \in 1..(a + n)
    BY <1>3
  <2>2. \A i \in 1..n : a + i \in 1..(a + n)
    BY <1>3
  <2> QED BY <2>1, <2>2, <1>2, <1>4
<1> HIDE DEF a, n, c
<1>14. b \in Nat \ {0} /\ e \in Nat \ {0} /\ a < b /\ b < e /\ e + 1 = a + n
  BY <1>3
<1>15. Len(X) \in Nat /\ Len(X) = (e + 1) + c
  BY <1>3, <1>4, <1>14
<1>6. X[b] = "begin" /\ X[e] = "end" /\ X[e + 1] = "nl"
  <2>1. 1 \in 1..n /\ n - 1 \in 1..n /\ n \in 1..n /\ a + (n - 1) = e /\ a + n = e + 1
    BY <1>3
  <2>2. X[a + 1] = "begin" /\ X[a + (n - 1)] = "end" /\ X[a + n] = "nl"
    BY <2>1, <1>1, <1>5
  <2> QED BY <2>1, <2>2
<1>7. Find(X, "begin", 1) = b
  <2> DEFINE first == 1
  <2>1. first \in Nat \ {0} /\ b \in first..Len(X)
    BY <1>3, <1>14, <1>15
  <2>2. \A i \in first..(b - 1) : X[i] # "begin"
    <3>1. \A i \in first..(b - 1) : i \in 1..a
      BY <1>3, <1>14
    <3> QED BY <3>1, <1>5 DEF NoBegin, a
  <2>3. X \in Text
    BY <1>4
  <2> HIDE DEF b, e, first
  <2>4. FirstAt(X, "begin", first, b)
    BY <2>1, <2>2, <1>6 DEF FirstAt
  <2>5. Find(X, "begin", first) = b
    BY <2>1, <2>3, <2>4, Finds
  <2> QED BY <2>5 DEF first
<1>8. Find(X, "end", b) = e
  <2>1. e \in b..Len(X) /\ b \in Nat \ {0}
    BY <1>3, <1>14, <1>15
  <2>2. ASSUME NEW i \in b..(e - 1) PROVE X[i] # "end"
    <3>1. CASE i = b
      BY <3>1, <1>6
    <3>2. CASE i # b
      <4>1. i - a \in 2..(n - 2) /\ i - a \in 1..n /\ a + (i - a) = i
        BY <3>2, <1>3
      <4> QED BY <4>1, <1>1, <1>5
    <3> QED BY <3>1, <3>2
  <2>3. X \in Text
    BY <1>4
  <2> HIDE DEF b, e
  <2>4. FirstAt(X, "end", b, e)
    BY <2>1, <2>2, <1>6 DEF FirstAt
  <2> QED BY <2>1, <2>3, <2>4, Finds
<1>9. Before(X, b) = A
  <2>1. /\ SubSeq(X, 1, a) \in Seq(Piece) /\ Len(SubSeq(X, 1, a)) = a
        /\ \A i \in 1..a : SubSeq(X, 1, a)[i] = X[i]
    <3>1. X \in Seq(Piece) /\ a \in 0..Len(X)
      BY <1>3, <1>4, <1>14, <1>15 DEF Text
    <3> QED BY <3>1
  <2>2. SubSeq(X, 1, a) = A
    BY <2>1, <1>5 DEF Text, a
  <2>3. b - 1 = a
    BY <1>3
  <2> QED BY <2>2, <2>3 DEF Before
<1>10. SubSeq(X, e + 2, Len(X)) = Z
  <2> DEFINE D == SubSeq(X, e + 2, Len(X))
  <2>1. e + 2 = (a + n) + 1 /\ e + 2 \in 1..(Len(X) + 1) /\ Len(X) \in Nat
    BY <1>3, <1>14, <1>15
  <2>2. /\ D \in Seq(Piece) /\ Len(D) = c
        /\ \A i \in 1..c : D[i] = X[(a + n) + i]
    <3>0. X \in Seq(Piece) /\ \A i \in (e + 2)..Len(X) : i \in 1..Len(X)
      BY <2>1, <1>4, <1>14 DEF Text
    <3>2. /\ D \in Seq(Piece)
          /\ Len(D) = IF e + 2 <= Len(X) THEN Len(X) - (e + 2) + 1 ELSE 0
          /\ \A i \in 1..(Len(X) - (e + 2) + 1) : D[i] = X[(e + 2) + i - 1]
      <4> DEFINE lo == e + 2
                 hi == Len(X)
      <4>1. X \in Seq(Piece) /\ lo \in 1..(Len(X) + 1) /\ hi = Len(X) /\ hi \in Nat
        BY <2>1, <3>0
      <4> HIDE DEF lo, hi
      <4>2. /\ SubSeq(X, lo, hi) \in Seq(Piece)
            /\ Len(SubSeq(X, lo, hi)) = IF lo <= hi THEN hi - lo + 1 ELSE 0
            /\ \A i \in 1..(hi - lo + 1) : SubSeq(X, lo, hi)[i] = X[lo + i - 1]
        <5>1. CASE lo <= hi
          <6>1. lo \in 1..Len(X) /\ hi \in lo..Len(X)
            BY <4>1, <5>1
          <6> QED BY <4>1, <6>1, SMTT(30)
        <5>2. CASE ~(lo <= hi)
          <6>1. hi < lo /\ lo \in Int /\ hi \in Int /\ hi - lo + 1 = 0
            BY <4>1, <5>2
          <6>2. SubSeq(X, lo, hi) = <<>>
            BY <6>1, SubSeqEmpty
          <6>3. <<>> \in Seq(Piece) /\ Len(<<>>) = 0 /\ 1..0 = {}
            OBVIOUS
          <6> QED BY <5>2, <6>1, <6>2, <6>3
        <5> QED BY <5>1, <5>2
      <4> QED BY <4>2 DEF lo, hi
    <3>3. Len(X) - (e + 2) + 1 = c /\ \A i \in 1..c : (e + 2) + i - 1 = (a + n) + i
      BY <2>1, <1>3, <1>14, <1>15
    <3>4. Len(D) = c
      BY <3>2, <3>3, <2>1, <1>3, <1>14, <1>15
    <3> QED BY <3>2, <3>3, <3>4
  <2> HIDE DEF D
  <2>3. D = Z
    <3>1. D \in Seq(Piece) /\ Z \in Seq(Piece) /\ Len(Z) = c
      BY <2>2 DEF Text, c
    <3>2. \A i \in 1..c : D[i] = Z[i]
      BY <2>2, <1>4
    <3> QED BY <3>1, <3>2, <2>2
  <2> QED BY <2>3 DEF D
<1>11. Behind(X, e) = Z
  <2>1. e < Len(X)
    BY <1>3, <1>4
  <2> QED BY <2>1, <1>6, <1>10 DEF Behind
<1>12. b # 0 /\ e # 0
  BY <1>1, <1>3
<1> HIDE DEF b, e
<1> QED BY <1>7, <1>8, <1>9, <1>11, <1>12 DEF Surround

\* A block is the daemon's, also behind one that was cut short, and ends.
LEMMA BlockIsOurs ==
  ASSUME NEW A \in Text, NEW K, IsBlock(K)
  PROVE  Own(A \o K) = Own(A) /\ Closed(A \o K)
<1> DEFINE a == Len(A)
           n == Len(K)
           T == A \o K
<1>1. /\ K \in Text /\ K[1] = "begin" /\ K[n - 1] = "end" /\ K[n] = "nl"
      /\ \A i \in 2..(n - 2) : K[i] # "end"
  BY DEF IsBlock
<1>2. a \in Nat /\ n \in Nat /\ n >= 4
  BY DEF IsBlock, Text
<1>3. Len(T) = a + n /\ \A i \in 1..n : T[a + i] = K[i]
  BY <1>1, Joined
<1> HIDE DEF a, n, T
<1>4. T[a + 1] = "begin" /\ T[a + (n - 1)] = "end" /\ T[a + n] = "nl"
  <2>1. 1 \in 1..n /\ n - 1 \in 1..n /\ n \in 1..n
    BY <1>2
  <2> QED BY <2>1, <1>1, <1>3
<1>5. ASSUME NEW i \in 1..n, i # n PROVE Inside(T, a + i)
  <2> DEFINE p == a + i
  <2>1. a + 1 \in 1..p
    BY <1>2
  <2>2. ASSUME NEW k \in (a + 1)..(p - 1) PROVE T[k] # "end"
    <3>1. CASE k = a + 1
      BY <3>1, <1>4
    <3>2. CASE k # a + 1
      <4>1. k - a \in 2..(n - 2) /\ k - a \in 1..n /\ a + (k - a) = k
        BY <3>2, <1>2, <1>5
      <4> QED BY <4>1, <1>1, <1>3
    <3> QED BY <3>1, <3>2
  <2> HIDE DEF p
  <2>3. Inside(T, p)
    BY <2>1, <2>2, <1>4 DEF Inside
  <2> QED BY <2>3 DEF p
<1>6. Own(T) = Own(A)
  <2>1. \A i \in 1..n : K[i] = "nl" \/ Inside(T, a + i)
    BY <1>1, <1>5
  <2> QED BY <2>1, <1>1, OwnSkip DEF a, n, T
<1>7. Closed(T)
  <2> SUFFICES ASSUME NEW j \in 1..Len(T), T[j] = "begin"
               PROVE  \E k \in j..Len(T) : T[k] = "end"
    BY DEF Closed
  <2>1. j # a + n
    BY <1>4
  <2>2. a + (n - 1) \in j..Len(T)
    BY <2>1, <1>2, <1>3
  <2> QED BY <2>2, <1>4
<1> QED BY <1>6, <1>7 DEF T

LEMMA OneBegin ==
  ASSUME NEW A \in Text, NoBegin(A), NEW K, IsBlock(K), NEW Z \in Text, NoBegin(Z)
  PROVE  Begins((A \o K) \o Z) = 1
<1> DEFINE a == Len(A)
           n == Len(K)
           c == Len(Z)
           X == (A \o K) \o Z
           begins == {i \in DOMAIN X : X[i] = "begin"}
<1>1. /\ K \in Text /\ K[1] = "begin" /\ K[n - 1] = "end" /\ K[n] = "nl"
      /\ \A i \in 2..(n - 2) : K[i] # "begin"
  BY DEF IsBlock
<1>2. a \in Nat /\ n \in Nat /\ n >= 4 /\ c \in Nat
  BY DEF IsBlock, Text
<1>3. /\ A \o K \in Text /\ Len(A \o K) = a + n
      /\ \A i \in 1..a : (A \o K)[i] = A[i]
      /\ \A i \in 1..n : (A \o K)[a + i] = K[i]
  BY <1>1, Joined
<1>4. /\ X \in Text /\ Len(X) = (a + n) + c
      /\ \A i \in 1..(a + n) : X[i] = (A \o K)[i]
      /\ \A i \in 1..c : X[(a + n) + i] = Z[i]
  <2>1. /\ X \in Text /\ Len(X) = Len(A \o K) + Len(Z)
        /\ \A i \in 1..Len(A \o K) : X[i] = (A \o K)[i]
        /\ \A i \in 1..Len(Z) : X[Len(A \o K) + i] = Z[i]
    BY <1>3, Joined
  <2> HIDE DEF a, n
  <2> QED BY <2>1, <1>3
<1>5. DOMAIN X = 1..Len(X)
  BY <1>4 DEF Text
<1>6. /\ \A i \in 1..a : A[i] # "begin"
      /\ \A i \in 1..c : Z[i] # "begin"
  BY DEF NoBegin
<1> HIDE DEF a, n, c, X
<1>7. a + 1 \in DOMAIN X /\ X[a + 1] = "begin"
  <2>1. 1 \in 1..n /\ a + 1 \in 1..(a + n) /\ a + 1 \in 1..Len(X)
    BY <1>2, <1>4
  <2> QED BY <2>1, <1>1, <1>3, <1>4, <1>5
<1>8. ASSUME NEW i \in 1..Len(X), X[i] = "begin" PROVE i = a + 1
  <2>1. CASE i <= a
    <3>1. i \in 1..a /\ i \in 1..(a + n)
      BY <2>1, <1>2
    <3> QED BY <3>1, <1>3, <1>4, <1>6, <1>8
  <2>2. CASE a < i /\ i <= a + n
    <3>1. i - a \in 1..n /\ a + (i - a) = i /\ i \in 1..(a + n)
      BY <2>2, <1>2
    <3>2. K[i - a] = "begin"
      BY <3>1, <1>3, <1>4, <1>8
    <3>3. i - a # n /\ i - a # n - 1 /\ i - a \notin 2..(n - 2)
      BY <3>2, <1>1
    <3> QED BY <3>1, <3>3, <1>2
  <2>3. CASE a + n < i
    <3>1. i - (a + n) \in 1..c /\ (a + n) + (i - (a + n)) = i
      BY <2>3, <1>2, <1>4
    <3> QED BY <3>1, <1>4, <1>6, <1>8
  <2> QED BY <2>1, <2>2, <2>3, <1>2
<1>9. begins = {a + 1}
  BY <1>5, <1>7, <1>8
<1>10. Cardinality({a + 1}) = 1
  BY FS_Singleton
<1> QED BY <1>9, <1>10 DEF Begins, X

\* How many blocks begin in a text, and in two texts together.
LEMMA CountBegins ==
  ASSUME NEW text \in Text
  PROVE  /\ Begins(text) \in Nat
         /\ NoBegin(text) <=> Begins(text) = 0
<1> DEFINE begins == {i \in DOMAIN text : text[i] = "begin"}
<1>1. DOMAIN text = 1..Len(text) /\ Len(text) \in Nat
  BY DEF Text
<1>2. IsFiniteSet(begins)
  <2>1. IsFiniteSet(1..Len(text)) /\ begins \subseteq 1..Len(text)
    BY <1>1, FS_Interval
  <2> QED BY <2>1, FS_Subset
<1>3. begins = {} <=> NoBegin(text)
  BY <1>1 DEF NoBegin
<1>4. Cardinality(begins) \in Nat /\ (Cardinality(begins) = 0 <=> begins = {})
  BY <1>2, FS_CardinalityType, FS_EmptySet
<1> QED BY <1>3, <1>4 DEF Begins

LEMMA BeginsJoin ==
  ASSUME NEW A \in Text, NEW B \in Text
  PROVE  Begins(A \o B) = Begins(A) + Begins(B)
<1> DEFINE X == A \o B
           a == Len(A)
           c == Len(B)
           inA == {i \in 1..a : A[i] = "begin"}
           inB == {i \in 1..c : B[i] = "begin"}
           moved == {i \in (a + 1)..(a + c) : B[i - a] = "begin"}
           f == [i \in inB |-> a + i]
<1>1. /\ a \in Nat /\ c \in Nat /\ X \in Text /\ Len(X) = a + c
      /\ \A i \in 1..a : X[i] = A[i]
      /\ \A i \in 1..c : X[a + i] = B[i]
  BY Joined
<1>2. DOMAIN A = 1..a /\ DOMAIN B = 1..c /\ DOMAIN X = 1..(a + c)
  BY <1>1 DEF Text
<1> HIDE DEF X, a, c
<1>3. {i \in 1..(a + c) : X[i] = "begin"} = inA \union moved
  <2>1. \A i \in 1..(a + c) : i \in 1..a \/ i \in (a + 1)..(a + c)
    BY <1>1
  <2>2. ASSUME NEW i \in (a + 1)..(a + c)
        PROVE  i \in 1..(a + c) /\ X[i] = B[i - a] /\ i \notin 1..a
    <3>1. i - a \in 1..c /\ a + (i - a) = i
      BY <1>1
    <3>2. X[a + (i - a)] = B[i - a]
      BY <3>1, <1>1
    <3> QED BY <3>1, <3>2, <1>1
  <2>3. \A i \in 1..a : i \in 1..(a + c)
    BY <1>1
  <2> QED BY <2>1, <2>2, <2>3, <1>1
<1>4. inA \intersect moved = {}
  BY <1>1
<1>5. IsFiniteSet(inA) /\ IsFiniteSet(inB) /\ IsFiniteSet(moved)
  BY <1>1, FS_Interval, FS_Subset
<1>6. Cardinality(moved) = Cardinality(inB)
  <2>1. f \in Bijection(inB, moved)
    <3>1. ASSUME NEW i \in inB PROVE a + i \in moved
      BY <1>1
    <3>2. ASSUME NEW i \in moved PROVE i - a \in inB /\ a + (i - a) = i
      BY <1>1
    <3>3. \A i, j \in inB : a + i = a + j => i = j
      BY <1>1
    <3>4. f \in [inB -> moved] /\ \A i \in inB : f[i] = a + i
      BY <3>1
    <3>5. \A u \in moved : \E i \in inB : f[i] = u
      BY <3>2, <3>4
    <3> HIDE DEF f, inB, moved
    <3> QED BY <3>3, <3>4, <3>5, Fun_IsBij
  <2> HIDE DEF f, inB, moved
  <2> QED BY <2>1, <1>5, FS_Bijection DEF ExistsBijection
<1>7. Cardinality(inA \union moved) = Cardinality(inA) + Cardinality(moved)
  <2> HIDE DEF inA, moved
  <2>1. Cardinality(inA \union moved) =
          Cardinality(inA) + Cardinality(moved) - Cardinality(inA \intersect moved)
    BY <1>5, FS_Union
  <2>2. Cardinality(inA \intersect moved) = 0
    BY <1>4, FS_EmptySet
  <2>3. Cardinality(inA) \in Nat /\ Cardinality(moved) \in Nat
    BY <1>5, FS_CardinalityType
  <2> QED BY <2>1, <2>2, <2>3
<1> QED BY <1>2, <1>3, <1>6, <1>7 DEF Begins, X

LEMMA Terminates ==
  ASSUME NEW text \in Text
  PROVE  /\ Terminate(text) \in Text /\ Own(Terminate(text)) = Own(text)
         /\ NoBegin(text) => NoBegin(Terminate(text))
         /\ Begins(Terminate(text)) = Begins(text)
         /\ Terminate(Terminate(text)) = Terminate(text)
<1>1. CASE Terminated(text)
  BY <1>1 DEF Terminate
<1>2. CASE ~Terminated(text)
  <2> DEFINE nl == <<"nl">>
             T == Append(text, "nl")
  <2>1. Terminate(text) = T
    BY <1>2 DEF Terminate
  <2>2. "nl" \in Piece
    BY DEF Piece
  <2>3. nl \in Text /\ Len(nl) = 1 /\ nl[1] = "nl"
    <3>1. \A x \in Piece : <<x>> \in Seq(Piece)
      OBVIOUS
    <3> QED BY <2>2, <3>1 DEF Text
  <2>4. T = text \o nl
    BY <2>2, AppendIsConcat DEF Text
  <2>5. /\ T \in Text /\ Len(T) = Len(text) + 1 /\ Len(text) \in Nat
        /\ \A i \in 1..Len(text) : T[i] = text[i]
        /\ T[Len(text) + 1] = "nl"
    BY <2>2, AppendProperties DEF Text
  <2> HIDE DEF nl, T
  <2>6. Own(T) = Own(text)
    <3>1. \A i \in 1..Len(nl) : nl[i] = "nl"
      BY <2>3
    <3>2. Own(text \o nl) = Own(text)
      BY <3>1, <2>3, OwnSkip
    <3> QED BY <3>2, <2>4
  <2>7. NoBegin(text) => NoBegin(T)
    <3>1. \A i \in 1..Len(T) : i \in 1..Len(text) \/ i = Len(text) + 1
      BY <2>5
    <3> QED BY <3>1, <2>5 DEF NoBegin
  <2>8. Terminated(T)
    BY <2>5 DEF Terminated, Last
  <2>9. Begins(T) = Begins(text)
    <3>1. NoBegin(nl)
      BY <2>3 DEF NoBegin
    <3>2. Begins(nl) = 0 /\ Begins(text) \in Nat
      BY <2>3, <3>1, CountBegins
    <3> QED BY <2>3, <2>4, <3>2, BeginsJoin
  <2> QED BY <2>1, <2>5, <2>6, <2>7, <2>8, <2>9 DEF Terminate
<1> QED BY <1>1, <1>2

\* merge_torrc keeps the text before the first block and what is left of the
\* text behind it without its blocks, whichever directives come between.
LEMMA Merged ==
  ASSUME NEW text \in Text
  PROVE  \E A, Z \in Text :
           /\ NoBegin(A) /\ NoBegin(Z) /\ Own(text) = Own(A) \o Own(Z)
           /\ \A K : IsBlock(K) => MergeTorrc(text, K) = (A \o K) \o Z
<1> DEFINE b == Find(text, "begin", 1)
           e == Find(text, "end", b)
           A == Before(text, b)
           rest == Behind(text, e)
           none == <<>>
<1>1. /\ none \in Text /\ NoBegin(none) /\ Own(none) = none
      /\ \A x \in Text : x \o none = x
  <2>1. none \in Text /\ NoBegin(none) /\ Ours(none)
    BY DEF Text, NoBegin, Ours
  <2>2. \A x \in Text : x \o <<>> = x
    BY ConcatEmptySeq DEF Text
  <2>3. Own(none) = <<>>
    <3> HIDE DEF none
    <3> QED BY <2>1, OwnOurs
  <2> QED BY <2>1, <2>2, <2>3
<1>2. CASE b = 0
  <2> DEFINE gap == IF text = <<>> THEN <<>> ELSE <<"nl">>
             front == Terminate(text) \o gap
  <2>1. gap \in Text /\ NoBegin(gap) /\ Ours(gap)
    <3>1. \A x \in Piece : <<x>> \in Seq(Piece)
      OBVIOUS
    <3>2. <<"nl">> \in Text
      BY <3>1 DEF Text, Piece
    <3>3. NoBegin(<<"nl">>) /\ Ours(<<"nl">>)
      BY DEF NoBegin, Ours
    <3>4. <<>> \in Text /\ NoBegin(<<>>) /\ Ours(<<>>)
      BY DEF Text, NoBegin, Ours
    <3> QED BY <3>2, <3>3, <3>4
  <2>2. /\ Terminate(text) \in Text /\ Own(Terminate(text)) = Own(text)
        /\ NoBegin(Terminate(text))
    BY <1>2, NothingFound, Terminates
  <2> HIDE DEF gap
  <2>3. front \in Text /\ NoBegin(front)
    <3>1. /\ front \in Text /\ Len(front) = Len(Terminate(text)) + Len(gap)
          /\ Len(Terminate(text)) \in Nat /\ Len(gap) \in Nat
          /\ \A i \in 1..Len(Terminate(text)) : front[i] = Terminate(text)[i]
          /\ \A i \in 1..Len(gap) : front[Len(Terminate(text)) + i] = gap[i]
      BY <2>1, <2>2, Joined
    <3> DEFINE t == Len(Terminate(text))
    <3>2. ASSUME NEW i \in 1..Len(front) PROVE front[i] # "begin"
      <4>1. CASE i <= t
        <5>1. i \in 1..t
          BY <4>1, <3>1
        <5> QED BY <5>1, <3>1, <2>2 DEF NoBegin
      <4>2. CASE ~(i <= t)
        <5>1. i - t \in 1..Len(gap) /\ t + (i - t) = i
          BY <4>2, <3>1
        <5> QED BY <5>1, <3>1, <2>1 DEF NoBegin
      <4> QED BY <4>1, <4>2
    <3> QED BY <3>1, <3>2 DEF NoBegin
  <2>4. Own(front) = Own(text)
    <3>1. Own(front) = Own(Terminate(text)) \o Own(gap)
      BY <2>1, <2>2, OwnJoin, NoBeginClosed
    <3>2. Own(gap) = none
      BY <2>1, OwnOurs
    <3>3. Own(text) \in Text
      BY OwnIsText
    <3> HIDE DEF none
    <3> QED BY <3>1, <3>2, <3>3, <2>2, <1>1
  <2>5. Own(front) \o Own(none) = Own(text)
    <3>1. Own(text) \in Text
      BY OwnIsText
    <3> HIDE DEF none
    <3> QED BY <2>4, <3>1, <1>1
  <2>6. ASSUME NEW K, IsBlock(K) PROVE MergeTorrc(text, K) = (front \o K) \o none
    <3>1. front \o K \in Text
      BY <2>3, <2>6, Joined DEF IsBlock
    <3>2. MergeTorrc(text, K) = front \o K
      BY <1>2 DEF MergeTorrc, gap
    <3> HIDE DEF none
    <3> QED BY <3>1, <3>2, <1>1
  <2> HIDE DEF front, none
  <2> QED BY <2>3, <2>5, <2>6, <1>1
<1>3. CASE b # 0 /\ e = 0
  <2>1. A \in Text /\ NoBegin(A)
    BY <1>3, CutOpen
  <2>2. PICK M \in Text : text = A \o M /\ Len(M) > 0 /\ Ours(M)
    BY <1>3, CutOpen
  <2>3. ASSUME NEW K, IsBlock(K) PROVE MergeTorrc(text, K) = (A \o K) \o none
    <3>1. A \o K \in Text
      BY <2>1, <2>3, Joined DEF IsBlock
    <3>2. MergeTorrc(text, K) = A \o K
      BY <1>3 DEF MergeTorrc
    <3> HIDE DEF none
    <3> QED BY <3>1, <3>2, <1>1
  <2> HIDE DEF A, none, b, e
  <2>4. Own(text) = Own(A) \o Own(none)
    <3>1. Own(A \o M) = Own(A) \o Own(M)
      BY <2>1, <2>2, OwnJoin, NoBeginClosed
    <3>2. Own(M) = none
      BY <2>2, OwnOurs DEF none
    <3> QED BY <3>1, <3>2, <2>2, <1>1
  <2> QED BY <2>1, <2>3, <2>4, <1>1
<1>4. CASE b # 0 /\ e # 0
  <2> DEFINE Z == StripBlocks(rest)
  <2>1. A \in Text /\ NoBegin(A) /\ rest \in Text
    BY <1>4, Cut
  <2>2. PICK M \in Text : text = A \o (M \o rest) /\ Len(M) > 0 /\ Ours(M) /\ Closed(M)
    BY <1>4, Cut
  <2>3. ASSUME NEW K, IsBlock(K) PROVE MergeTorrc(text, K) = (A \o K) \o Z
    BY <1>4 DEF MergeTorrc
  <2> HIDE DEF A, rest, none, b, e
  <2>4. Z \in Text /\ NoBegin(Z) /\ Own(Z) = Own(rest)
    BY <2>1, StripAll
  <2>5. Own(text) = Own(A) \o Own(Z)
    <3>1. M \o rest \in Text
      BY <2>1, Joined
    <3>2. Own(text) = Own(A) \o Own(M \o rest)
      BY <2>1, <2>2, <3>1, OwnJoin, NoBeginClosed
    <3>3. Own(M \o rest) = Own(M) \o Own(rest) /\ Own(M) = <<>> /\ Own(rest) \in Text
      BY <2>1, <2>2, OwnJoin, OwnOurs, OwnIsText
    <3>4. Own(M \o rest) = Own(rest)
      BY <3>3, ConcatEmptySeq DEF Text
    <3> QED BY <3>2, <3>4, <2>4
  <2> HIDE DEF Z
  <2> QED BY <2>1, <2>3, <2>4, <2>5
<1> QED BY <1>2, <1>3, <1>4

\* It is in the file whatever was before it, and nothing of the user's is out.
LEMMA HoldsBehind ==
  ASSUME NEW A \in Text, NEW K, IsBlock(K)
  PROVE  /\ A \o K \in Text /\ Holds(A \o K, K) /\ Own(A \o K) = Own(A)
         /\ Find(A \o K, "begin", 1) # 0
<1> DEFINE X == A \o K
           a == Len(A)
           n == Len(K)
<1>1. K \in Text /\ n >= 4 /\ n \in Nat /\ a \in Nat /\ K[1] = "begin"
  BY DEF IsBlock, Text
<1>2. X \in Text /\ Len(X) = a + n /\ \A i \in 1..n : X[a + i] = K[i]
  BY <1>1, Joined
<1>3. Own(X) = Own(A)
  BY BlockIsOurs
<1> HIDE DEF X, a, n
<1>4. SubSeq(X, a + 1, a + n) = K
  <2> DEFINE lo == a + 1
             hi == a + n
             D == SubSeq(X, lo, hi)
  <2>1. X \in Seq(Piece) /\ lo \in 1..Len(X) /\ hi \in lo..Len(X)
    BY <1>1, <1>2 DEF Text
  <2> HIDE DEF lo, hi
  <2>2. /\ D \in Seq(Piece) /\ Len(D) = hi - lo + 1
        /\ \A i \in 1..(hi - lo + 1) : D[i] = X[lo + i - 1]
    BY <2>1
  <2>3. hi - lo + 1 = n /\ \A i \in 1..n : lo + i - 1 = a + i
    BY <1>1 DEF lo, hi
  <2> HIDE DEF D
  <2>4. D \in Seq(Piece) /\ K \in Seq(Piece) /\ Len(D) = n /\ Len(K) = n
    BY <2>2, <2>3, <1>1 DEF Text, n
  <2>5. \A i \in 1..n : D[i] = K[i]
    BY <2>2, <2>3, <1>2
  <2>6. D = K
    BY <2>4, <2>5
  <2> QED BY <2>6 DEF D, lo, hi
<1>5. Holds(X, K)
  <2>1. a \in 0..(Len(X) - n)
    BY <1>1, <1>2
  <2> QED BY <2>1, <1>4 DEF Holds, n
<1>6. Find(X, "begin", 1) # 0
  <2>1. 1 \in 1..n /\ a + 1 \in 1..Len(X)
    BY <1>1, <1>2
  <2>2. X[a + 1] = "begin"
    BY <2>1, <1>1, <1>2
  <2>3. ~NoBegin(X)
    BY <2>1, <2>2 DEF NoBegin
  <2> QED BY <2>3, <1>2, NothingFound
<1> QED BY <1>2, <1>3, <1>5, <1>6 DEF X

LEMMA HoldsInFront ==
  ASSUME NEW A \in Text, NEW K, IsBlock(K), NEW Z \in Text, Holds(A, K)
  PROVE  Holds(A \o Z, K)
<1> DEFINE n == Len(K)
<1>1. n \in Nat /\ n >= 4 /\ Len(A) \in Nat /\ Len(Z) \in Nat
  BY DEF IsBlock, Text
<1>2. PICK i \in 0..(Len(A) - n) : SubSeq(A, i + 1, i + n) = K
  BY DEF Holds
<1>3. Len(A \o Z) = Len(A) + Len(Z)
  BY Joined
<1> HIDE DEF n
<1>4. i + 1 \in 1..Len(A) /\ i + n \in 1..Len(A) /\ i \in 0..(Len(A \o Z) - n)
  BY <1>1, <1>2, <1>3
<1>5. SubSeq(A \o Z, i + 1, i + n) = SubSeq(A, i + 1, i + n)
  BY <1>4, SubSeqOfConcat1 DEF Text
<1> QED BY <1>2, <1>4, <1>5 DEF Holds, n

LEMMA StringsAreText == \A text \in Seq(STRING) : text \in Text
<1>1. STRING \subseteq Piece
  BY DEF Piece
<1>2. ASSUME NEW Q, NEW T, Q \subseteq T, NEW s \in Seq(Q) PROVE s \in Seq(T)
  <2>1. Len(s) \in Nat /\ s \in [1..Len(s) -> T]
    BY <1>2
  <2> QED BY <2>1
<1> QED BY <1>1, <1>2 DEF Text

\* merge_torrc.
LEMMA TorrcIsRight ==
  ASSUME NEW q \in [torrc : Texts, cfg : Configs, next : Configs]
  PROVE  TorrcRight(q)
<1> DEFINE K == Block(Directives(q.cfg))
           L == Block(Directives(q.next))
           text == q.torrc
           merged == MergeTorrc(text, K)
<1>1. text \in Text
  <2>1. text \in Seq(STRING)
    BY FilesAreTexts
  <2> QED BY <2>1, StringsAreText
<1>2. IsBlock(K) /\ IsBlock(L)
  <2>1. /\ q.cfg \in [windows : BOOLEAN, exit : BOOLEAN]
        /\ q.next \in [windows : BOOLEAN, exit : BOOLEAN]
    BY FilesAreTexts
  <2> QED BY <2>1, DirectivesAreWords, BlockIs
<1> HIDE DEF K, L, text
<1>3. PICK A \in Text, Z \in Text :
        /\ NoBegin(A) /\ NoBegin(Z) /\ Own(text) = Own(A) \o Own(Z)
        /\ \A N : IsBlock(N) => MergeTorrc(text, N) = (A \o N) \o Z
  BY <1>1, Merged
<1>4. merged = (A \o K) \o Z /\ MergeTorrc(text, L) = (A \o L) \o Z
  BY <1>2, <1>3
<1>5. Begins(merged) = 1
  BY <1>2, <1>3, <1>4, OneBegin
<1>10. Holds(merged, K)
  <2>1. A \o K \in Text /\ Holds(A \o K, K)
    BY <1>2, <1>3, HoldsBehind
  <2> QED BY <2>1, <1>2, <1>3, <1>4, HoldsInFront
<1> HIDE DEF merged
<1>6. PICK b, e : /\ b = Find(merged, "begin", 1) /\ b # 0
                  /\ e = Find(merged, "end", b) /\ e # 0
                  /\ Before(merged, b) = A /\ Behind(merged, e) = Z
  <2>1. Surround(merged, A, Z)
    BY <1>2, <1>3, <1>4, BlockBehind
  <2> QED BY <2>1 DEF Surround
<1>7. MergeTorrc(merged, L) = (A \o L) \o StripBlocks(Z)
  BY <1>6 DEF MergeTorrc
<1>8. MergeTorrc(merged, L) = MergeTorrc(text, L)
  BY <1>3, <1>4, <1>7, StripAll
<1>9. Own(merged) = Own(text)
  <2>1. A \o K \in Text
    BY <1>2, <1>3, Joined DEF IsBlock
  <2>2. Own(A \o K) = Own(A) /\ Closed(A \o K)
    BY <1>2, <1>3, BlockIsOurs
  <2>3. Own(merged) = Own(A \o K) \o Own(Z)
    BY <2>1, <2>2, <1>3, <1>4, OwnJoin
  <2> QED BY <2>2, <2>3, <1>3
<1> QED BY <1>5, <1>8, <1>9, <1>10 DEF TorrcRight, K, L, text, merged

\* unwire_pf_conf cuts as merge_torrc does, one block.
LEMMA UnwireOne == \A text : Unwire(text) = StripFirst(text)
BY DEF Unwire, StripFirst

\* With a block at least one beginning is cut out.
LEMMA UnwireFewer ==
  ASSUME NEW text \in Text, ~NoBegin(text)
  PROVE  Unwire(text) \in Text /\ Begins(Unwire(text)) < Begins(text)
<1> DEFINE b == Find(text, "begin", 1)
           e == Find(text, "end", b)
           A == Before(text, b)
           Z == Behind(text, e)
<1>1. b # 0
  BY NothingFound
<1>2. Unwire(text) \in Text
  BY StripOne, UnwireOne
<1>3. ASSUME NEW M \in Text, Len(M) > 0, M[1] = "begin"
      PROVE  Begins(M) \in Nat /\ Begins(M) > 0
  <2>1. 1 \in 1..Len(M)
    BY <1>3 DEF Text
  <2>2. ~NoBegin(M)
    BY <1>3, <2>1 DEF NoBegin
  <2> QED BY <2>2, CountBegins
<1>4. CASE e = 0
  <2>1. Unwire(text) = A
    BY <1>1, <1>4 DEF Unwire
  <2>2. A \in Text
    BY <1>1, <1>4, CutOpen
  <2>3. PICK M \in Text : text = A \o M /\ Len(M) > 0 /\ M[1] = "begin"
    BY <1>1, <1>4, CutOpen
  <2> HIDE DEF A, b, e
  <2>4. Begins(text) = Begins(A) + Begins(M) /\ Begins(A) \in Nat
    BY <2>2, <2>3, BeginsJoin, CountBegins
  <2> QED BY <1>2, <1>3, <2>1, <2>3, <2>4
<1>5. CASE e # 0
  <2>1. Unwire(text) = A \o Z
    BY <1>1, <1>5 DEF Unwire
  <2>2. A \in Text /\ Z \in Text
    BY <1>1, <1>5, Cut
  <2>3. PICK M \in Text : text = A \o (M \o Z) /\ Len(M) > 0 /\ M[1] = "begin"
    BY <1>1, <1>5, Cut
  <2> HIDE DEF A, Z, b, e
  <2>4. M \o Z \in Text
    BY <2>2, Joined
  <2>5. /\ Begins(text) = Begins(A) + (Begins(M) + Begins(Z))
        /\ Begins(A \o Z) = Begins(A) + Begins(Z)
    BY <2>2, <2>3, <2>4, BeginsJoin
  <2>6. Begins(A) \in Nat /\ Begins(Z) \in Nat
    BY <2>2, CountBegins
  <2> QED BY <1>2, <1>3, <2>1, <2>3, <2>5, <2>6
<1> QED BY <1>4, <1>5

\* A hook that was put in can be found and taken out again.
LEMMA Hooked ==
  ASSUME NEW A \in Text, NoBegin(A), NEW K, IsBlock(K)
  PROVE  /\ A \o K \in Text /\ Find(A \o K, "begin", 1) # 0
         /\ Unwire(A \o K) = A /\ Begins(A \o K) = 1
<1> DEFINE X == A \o K
           none == <<>>
<1>1. X \in Text
  BY Joined DEF IsBlock
<1>2. none \in Text /\ NoBegin(none)
  BY DEF Text, NoBegin
<1>3. X = (A \o K) \o none
  BY <1>1, ConcatEmptySeq DEF Text
<1> HIDE DEF none, X
<1>4. PICK b, e : /\ b = Find(X, "begin", 1) /\ b # 0 /\ e = Find(X, "end", b) /\ e # 0
                  /\ Before(X, b) = A /\ Behind(X, e) = none
  <2>1. Surround(X, A, none)
    BY <1>2, <1>3, BlockBehind
  <2> QED BY <2>1 DEF Surround
<1>5. Begins(X) = 1
  BY <1>2, <1>3, OneBegin
<1>6. Unwire(X) = A \o none
  BY <1>4 DEF Unwire
<1>7. A \o none = A
  BY ConcatEmptySeq DEF Text, none
<1> QED BY <1>1, <1>4, <1>5, <1>6, <1>7 DEF X

\* Wiring leaves one block where there was at most one, and never more of them.
LEMMA WiresOnce ==
  ASSUME NEW text \in Text, NEW K, IsBlock(K)
  PROVE  /\ Wire(text, K) \in Text
         /\ Begins(text) <= 1 => Begins(Wire(text, K)) = 1
         /\ Begins(text) > 1 => Begins(Wire(text, K)) \in 1..Begins(text)
<1> DEFINE U == Unwire(text)
           A == Terminate(U)
           none == <<>>
<1>1. Begins(text) \in Nat /\ (NoBegin(text) <=> Begins(text) = 0)
  BY CountBegins
<1>2. Find(text, "begin", 1) = 0 <=> NoBegin(text)
  BY NothingFound
<1>3. CASE Wire(text, K) = text /\ Find(text, "begin", 1) # 0
  BY <1>1, <1>2, <1>3
<1>4. CASE Wire(text, K) = A \o K
  <2>1. U \in Text /\ Begins(U) \in Nat
    BY StripOne, UnwireOne, CountBegins
  <2>2. (NoBegin(text) => U = text) /\ (~NoBegin(text) => Begins(U) < Begins(text))
    BY StripOne, UnwireOne, UnwireFewer
  <2> HIDE DEF U
  <2>3. A \in Text /\ Begins(A) = Begins(U)
    BY <2>1, Terminates
  <2>4. K \in Text /\ none \in Text /\ NoBegin(none)
    BY DEF IsBlock, Text, NoBegin
  <2>5. Begins(K) = 1
    <3>1. none \o K = K
      BY <2>4, ConcatEmptySeq DEF Text
    <3> HIDE DEF none
    <3>2. Begins(none \o K) = 1
      BY <2>4, Hooked
    <3> QED BY <3>1, <3>2
  <2> HIDE DEF A
  <2>6. A \o K \in Text /\ Begins(A \o K) = Begins(U) + 1
    BY <2>3, <2>4, <2>5, Joined, BeginsJoin
  <2> QED BY <1>1, <1>4, <2>1, <2>2, <2>6
<1> QED BY <1>3, <1>4 DEF Wire

\* wire_pf_conf and unwire_pf_conf.
LEMMA PfConfIsRight ==
  ASSUME NEW q \in [pfconf : Texts, anchor : Anchors, next : Anchors]
  PROVE  PfConfRight(q)
<1> DEFINE K == Hook(q.anchor)
           L == Hook(q.next)
           text == q.pfconf
           wired == Wire(text, K)
           A == Terminate(Unwire(text))
<1>1. text \in Text
  <2>1. text \in Seq(STRING)
    BY FilesAreTexts
  <2> QED BY <2>1, StringsAreText
<1>2. IsBlock(K) /\ IsBlock(L)
  <2>1. q.anchor \in Words /\ q.next \in Words
    BY FilesAreTexts DEF Words, Piece
  <2> QED BY <2>1, HookIs
<1> HIDE DEF K, L, text
<1>3. A \in Text /\ Own(A) = Own(text)
  BY <1>1, StripOne, UnwireOne, Terminates
<1>4. (wired = text /\ Find(text, "begin", 1) # 0 /\ Holds(text, K)) \/ wired = A \o K
  BY DEF Wire
<1> HIDE DEF A
<1>5. /\ Holds(wired, K) /\ Own(wired) = Own(text) /\ Find(wired, "begin", 1) # 0
  <2>1. CASE wired = A \o K
    BY <2>1, <1>2, <1>3, HoldsBehind
  <2> QED BY <2>1, <1>4
<1>6. Wire(wired, K) = wired
  <2> HIDE DEF wired
  <2> QED BY <1>5 DEF Wire
<1>7. /\ wired \in Text
      /\ Begins(text) <= 1 => Begins(wired) = 1
      /\ Begins(text) > 1 => Begins(wired) \in 1..Begins(text)
  BY <1>1, <1>2, WiresOnce
<1>8. Begins(text) \in Nat /\ Begins(wired) \in Nat
  BY <1>1, <1>7, CountBegins
<1>9. /\ Begins(text) <= 1 => Begins(Wire(wired, L)) = 1
      /\ Begins(text) > 1 => Begins(Wire(wired, L)) <= Begins(text)
  <2> HIDE DEF wired
  <2>1. /\ Begins(wired) <= 1 => Begins(Wire(wired, L)) = 1
        /\ Begins(wired) > 1 => Begins(Wire(wired, L)) \in 1..Begins(wired)
    BY <1>2, <1>7, WiresOnce
  <2> QED BY <1>7, <1>8, <2>1
<1>10. ASSUME Begins(text) = 0
       PROVE  Unwire(wired) = Terminate(text)
  <2> DEFINE T == Terminate(text)
  <2>1. NoBegin(text)
    BY <1>1, <1>10, CountBegins
  <2>2. Unwire(text) = text /\ Find(text, "begin", 1) = 0
    BY <1>1, <2>1, StripOne, UnwireOne, NothingFound
  <2>3. wired = T \o K
    BY <2>2 DEF Wire
  <2>4. T \in Text /\ NoBegin(T)
    BY <1>1, <2>1, Terminates
  <2> HIDE DEF wired, T
  <2>5. Unwire(wired) = T
    BY <1>2, <2>3, <2>4, Hooked
  <2> QED BY <2>5 DEF T
<1> QED BY <1>5, <1>6, <1>7, <1>9, <1>10 DEF PfConfRight, K, L, text, wired

\* The questions about a text.
LEMMA OnlyTorrc ==
  ASSUME question \in Questions, "torrc" \in DOMAIN question
  PROVE  question \in [torrc : Texts, cfg : Configs, next : Configs]
<1>1. question \notin [table : Tables, n : Numbers]
  OBVIOUS
<1>2. /\ question \notin [tree : Trees, version : {4}, bits : Bits(2)]
      /\ question \notin [tree : Trees, version : {6}, bits : Bits(3)]
  OBVIOUS
<1>3. question \notin [limit : Limits, beside : Limits]
  OBVIOUS
<1>4. question \notin [document : Documents, away : SUBSET (1..5)]
  OBVIOUS
<1>5. question \notin [pfconf : Texts, anchor : Anchors, next : Anchors]
  OBVIOUS
<1>6. question \notin Asked
  <2>1. question \notin Request
    BY DEF Request
  <2> QED BY <2>1, AskedAreRequests
<1> QED BY <1>1, <1>2, <1>3, <1>4, <1>5, <1>6 DEF Questions

LEMMA OnlyPfConf ==
  ASSUME question \in Questions, "pfconf" \in DOMAIN question
  PROVE  question \in [pfconf : Texts, anchor : Anchors, next : Anchors]
<1>1. question \notin [table : Tables, n : Numbers]
  OBVIOUS
<1>2. /\ question \notin [tree : Trees, version : {4}, bits : Bits(2)]
      /\ question \notin [tree : Trees, version : {6}, bits : Bits(3)]
  OBVIOUS
<1>3. question \notin [limit : Limits, beside : Limits]
  OBVIOUS
<1>4. question \notin [document : Documents, away : SUBSET (1..5)]
  OBVIOUS
<1>5. question \notin [torrc : Texts, cfg : Configs, next : Configs]
  OBVIOUS
<1>6. question \notin Asked
  <2>1. question \notin Request
    BY DEF Request
  <2> QED BY <2>1, AskedAreRequests
<1> QED BY <1>1, <1>2, <1>3, <1>4, <1>5, <1>6 DEF Questions

-----------------------------------------------------------------------------
(* The sessions and the questions *)

IInv ==
  /\ answered \in BOOLEAN
  /\ \/ subject = "control" /\ question = <<>> /\ ControlOK
     \/ subject = "socks" /\ question = <<>> /\ SocksOK
     \/ subject = "question" /\ question \in Questions /\ at = "idle" /\ result = "none"

LEMMA InitInv == Init => IInv
<1>1. SUFFICES ASSUME Init PROVE IInv
  OBVIOUS
<1>2. /\ at = "idle" /\ wire = <<>> /\ open = TRUE /\ buf = <<>> /\ sent = <<>>
      /\ got = <<>> /\ lines = <<>> /\ data = FALSE /\ need = 0 /\ result = "none"
      /\ answered = FALSE
  BY <1>1 DEF Init, SocketInit
<1>3. /\ <<>> \in Seq(Part) /\ <<>> \in Seq(Octet) /\ <<>> \in Seq(Seq(Part))
      /\ Len(<<>>) = 0 /\ 1..0 = {}
  OBVIOUS
<1>4. ControlOK
  <2>1. ControlTypes /\ at \notin C!Asking
    BY <1>2, <1>3, Commands DEF ControlTypes
  <2>2. Len(got) = 0 /\ Len(sent) = 0 /\ 1..Len(got) = {}
    BY <1>2, <1>3
  <2> QED BY <1>2, <2>1, <2>2 DEF ControlOK
<1>5. SocksOK
  BY <1>2, <1>3 DEF SocksOK, SocksTypes
<1> QED BY <1>1, <1>2, <1>4, <1>5 DEF Init, IInv

LEMMA NextInv == IInv /\ [Next]_vars => IInv'
<1>1. SUFFICES ASSUME IInv, [Next]_vars PROVE IInv'
  OBVIOUS
<1>2. CASE Begin
  BY <1>1, <1>2 DEF Begin, IInv, socket
<1>3. CASE subject = "control" /\ C!ControlStep /\ UNCHANGED <<subject, question, answered>>
  <2>1. ControlOK' /\ question = <<>>
    BY <1>1, <1>3, ControlStepOK DEF IInv
  <2> QED BY <1>1, <1>3, <2>1 DEF IInv
<1>4. CASE subject = "socks" /\ S!SocksStep /\ UNCHANGED <<subject, question, answered>>
  <2>1. SocksOK' /\ question = <<>>
    BY <1>1, <1>4, SocksStepOK DEF IInv
  <2> QED BY <1>1, <1>4, <2>1 DEF IInv
<1>5. CASE Closes /\ UNCHANGED <<subject, question, answered>>
  <2>1. CASE subject = "control"
    BY <1>1, <1>5, <2>1, ControlClosesOK DEF IInv
  <2>2. CASE subject = "socks"
    BY <1>1, <1>5, <2>2, SocksClosesOK DEF IInv
  <2>3. subject \in {"control", "socks"}
    BY <1>1, <1>5 DEF IInv, Closes
  <2> QED BY <2>1, <2>2, <2>3
<1>6. CASE UNCHANGED vars
  <2>1. /\ UNCHANGED <<at, wire, open, buf, sent, got, lines, data, need, result>>
        /\ UNCHANGED <<subject, question, answered>>
    BY <1>6 DEF vars, socket
  <2>2. ControlOK => ControlOK'
    BY <2>1 DEF ControlOK, ControlTypes, Latest, Midway
  <2>3. SocksOK => SocksOK'
    BY <2>1 DEF SocksOK, SocksTypes
  <2> QED BY <1>1, <2>1, <2>2, <2>3 DEF IInv
<1> QED BY <1>1, <1>2, <1>3, <1>4, <1>5, <1>6 DEF Next

\* In every session and for every question, whatever Tor and the proxy answer
\* in good order, in whatever pieces, and wherever it breaks off.
THEOREM Invariant == Spec => []IInv
BY InitInv, NextInv, PTL DEF Spec

\* Every reply TorControl took is the whole answer to the command it was sent
\* for, also one whose data look like an end, and nothing of the proxy's
\* answer is left in the tunnel socks5_connect returns, for every length of
\* the address in it.
THEOREM InStep == Spec => []RepliesInStep
<1>1. IInv => RepliesInStep
  <2>1. ASSUME ControlOK PROVE (\A k \in DOMAIN got : got[k] = C!Said(sent[k])) /\ TunnelClean
    <3>1. DOMAIN got = 1..Len(got)
      BY <2>1 DEF ControlOK, ControlTypes
    <3> QED BY <2>1, <3>1 DEF ControlOK, TunnelClean
  <2>2. SocksOK => TunnelClean
    BY LeavesTunnel
  <2>3. result = "none" => TunnelClean
    BY DEF TunnelClean
  <2> QED BY <2>1, <2>2, <2>3 DEF IInv, RepliesInStep, ControlInStep
<1> QED BY <1>1, Invariant, PTL

\* The handler acts only for whom it may: for every request, and whatever the
\* operation behind it does.
THEOREM OnlyWhenAllowed == Spec => []ActsOnlyWhenAllowed
<1>1. IInv => ActsOnlyWhenAllowed
  <2>1. SUFFICES ASSUME IInv, "method" \in DOMAIN question
                 PROVE  question \in Request
    BY Gates DEF ActsOnlyWhenAllowed, Answered
  <2>2. DOMAIN <<>> = {}
    OBVIOUS
  <2> QED BY <2>1, <2>2, OnlyRequests DEF IInv
<1> QED BY <1>1, Invariant, PTL

\* Whatever is in torrc and pf.conf: several blocks, one inside another, one
\* without its end, marks that stand alone.  What is outside of blocks stays,
\* in its order (behind a mark without an end nothing is outside), and the
\* directives of the configuration are in the file: in torrc in one block that
\* the next write replaces, in pf.conf in one block if there was at most one,
\* and otherwise beside no more older ones than there were.
THEOREM Blocks == Spec => []BlocksReplaced
<1>1. IInv => BlocksReplaced
  <2>1. DOMAIN <<>> = {}
    OBVIOUS
  <2>2. ASSUME IInv, "torrc" \in DOMAIN question PROVE TorrcRight(question)
    <3>1. question \in Questions
      BY <2>1, <2>2 DEF IInv
    <3> QED BY <3>1, <2>2, OnlyTorrc, TorrcIsRight
  <2>3. ASSUME IInv, "pfconf" \in DOMAIN question PROVE PfConfRight(question)
    <3>1. question \in Questions
      BY <2>1, <2>3 DEF IInv
    <3> QED BY <3>1, <2>3, OnlyPfConf, PfConfIsRight
  <2> QED BY <2>2, <2>3 DEF BlocksReplaced, Answered
<1> QED BY <1>1, Invariant, PTL

=============================================================================
