---------------------------- MODULE LogBus_proofs ----------------------------
(* Proofs about LogBus: the invariant is IInv of that module. *)
EXTENDS LogBus, SequenceTheorems, TLAPS

-----------------------------------------------------------------------------
(* Lists in the order of logging *)

\* A line appended after everything its emitter logged before leaves a list in
\* order.
LEMMA AppendInOrder ==
  ASSUME NEW s \in Seq(Record), NEW r \in Record, InOrder(s),
         \A i \in DOMAIN s : s[i].from = r.from => s[i].left > r.left
  PROVE  InOrder(Append(s, r))
<1> DEFINE t == Append(s, r)
<1>1. /\ Len(s) \in Nat /\ DOMAIN s = 1..Len(s) /\ DOMAIN t = 1..(Len(s) + 1)
      /\ \A i \in 1..Len(s) : t[i] = s[i]
      /\ t[Len(s) + 1] = r
  OBVIOUS
<1> HIDE DEF t
<1>2. ASSUME NEW i \in DOMAIN t, NEW j \in DOMAIN t, i < j, t[i].from = t[j].from
      PROVE  t[i].left > t[j].left
  <2>1. i \in 1..Len(s) /\ t[i] = s[i]
    BY <1>1, <1>2
  <2>2. CASE j \in 1..Len(s)
    BY <1>1, <1>2, <2>1, <2>2 DEF InOrder
  <2>3. CASE j = Len(s) + 1
    BY <1>1, <1>2, <2>1, <2>3
  <2> QED BY <1>1, <2>2, <2>3
<1> QED BY <1>2 DEF InOrder, t

\* What deque(maxlen) drops is the oldest line.
LEMMA KeptInOrder ==
  ASSUME NEW s \in Seq(Record), InOrder(s), Len(s) <= RingSize + 1
  PROVE  /\ Kept(s) \in Seq(Record) /\ InOrder(Kept(s)) /\ Len(Kept(s)) <= RingSize
         /\ \A i \in DOMAIN Kept(s) : \E j \in DOMAIN s : Kept(s)[i] = s[j]
<1>1. CASE Len(s) > RingSize
  <2> DEFINE t == Tail(s)
  <2>1. RingSize \in Nat \ {0} /\ Len(s) \in Nat
    BY LogBusAssumption
  <2>2. s # <<>>
    BY <1>1, <2>1
  <2>3. /\ t \in Seq(Record) /\ Len(t) = Len(s) - 1
        /\ DOMAIN s = 1..Len(s) /\ DOMAIN t = 1..(Len(s) - 1)
        /\ \A i \in 1..(Len(s) - 1) : t[i] = s[i + 1]
    BY <2>2
  <2>4. Kept(s) = t
    BY <1>1 DEF Kept
  <2> HIDE DEF t
  <2>5. \A i \in DOMAIN t : i + 1 \in DOMAIN s /\ t[i] = s[i + 1]
    BY <2>1, <2>3
  <2>6. InOrder(t)
    <3>1. ASSUME NEW i \in DOMAIN t, NEW j \in DOMAIN t, i < j, t[i].from = t[j].from
          PROVE  t[i].left > t[j].left
      <4>1. i + 1 \in DOMAIN s /\ j + 1 \in DOMAIN s /\ i + 1 < j + 1
        BY <2>1, <2>3, <2>5, <3>1
      <4>2. t[i] = s[i + 1] /\ t[j] = s[j + 1]
        BY <2>5
      <4> QED BY <3>1, <4>1, <4>2 DEF InOrder
    <3> QED BY <3>1 DEF InOrder
  <2>7. Len(t) <= RingSize
    BY <2>1, <2>3
  <2> QED BY <2>3, <2>4, <2>5, <2>6, <2>7
<1>2. CASE ~(Len(s) > RingSize)
  <2>1. RingSize \in Nat /\ Len(s) \in Nat
    BY LogBusAssumption
  <2> QED BY <1>2, <2>1 DEF Kept
<1> QED BY <1>1, <1>2

\* What is left of a list in order when a stretch of it is dropped.
LEMMA DropInOrder ==
  ASSUME NEW a \in Seq(Record), NEW b \in Seq(Record), NEW c \in Seq(Record),
         InOrder(a \o b \o c)
  PROVE  /\ InOrder(a \o c)
         /\ \A i \in DOMAIN (a \o c) : \E j \in DOMAIN (a \o b \o c) :
              (a \o c)[i] = (a \o b \o c)[j]
<1> DEFINE s == a \o b \o c
           t == a \o c
           At(i) == IF i <= Len(a) THEN i ELSE i + Len(b)
<1>1. /\ Len(a) \in Nat /\ Len(b) \in Nat /\ Len(c) \in Nat
      /\ DOMAIN t = 1..(Len(a) + Len(c))
      /\ DOMAIN s = 1..(Len(a) + Len(b) + Len(c))
  OBVIOUS
<1>2. \A i \in 1..(Len(a) + Len(c)) :
        t[i] = IF i <= Len(a) THEN a[i] ELSE c[i - Len(a)]
  OBVIOUS
<1>3. \A i \in 1..(Len(a) + Len(b) + Len(c)) :
        s[i] = IF i <= Len(a) THEN a[i]
               ELSE IF i <= Len(a) + Len(b) THEN b[i - Len(a)]
               ELSE c[i - (Len(a) + Len(b))]
  OBVIOUS
<1> HIDE DEF s, t
<1>4. \A i \in DOMAIN t : At(i) \in DOMAIN s
  BY <1>1
<1>5. ASSUME NEW i \in DOMAIN t PROVE t[i] = s[At(i)]
  <2>1. CASE i <= Len(a)
    BY <1>1, <1>2, <1>3, <2>1
  <2>2. CASE i > Len(a)
    <3>1. /\ At(i) > Len(a) + Len(b) /\ At(i) - (Len(a) + Len(b)) = i - Len(a)
          /\ At(i) > Len(a) /\ At(i) \in 1..(Len(a) + Len(b) + Len(c))
      BY <1>1, <2>2
    <3> HIDE DEF At
    <3>2. s[At(i)] = c[At(i) - (Len(a) + Len(b))]
      BY <1>1, <1>3, <1>4, <3>1
    <3>3. t[i] = c[i - Len(a)]
      BY <1>1, <1>2, <2>2
    <3> QED BY <3>1, <3>2, <3>3
  <2> QED BY <1>1, <2>1, <2>2
<1>6. \A i, j \in DOMAIN t : i < j => At(i) < At(j)
  BY <1>1
<1>7. InOrder(s)
  BY DEF s
<1> HIDE DEF At
<1>8. InOrder(t)
  BY <1>4, <1>5, <1>6, <1>7 DEF InOrder
<1>9. \A i \in DOMAIN t : \E j \in DOMAIN s : t[i] = s[j]
  BY <1>4, <1>5
<1> QED BY <1>8, <1>9 DEF s, t

\* A list in order holds no line twice.
LEMMA InOrderOnce ==
  ASSUME NEW s \in Seq(Record), InOrder(s)
  PROVE  IsInjective(s)
<1>1. DOMAIN s \subseteq Nat /\ \A i \in DOMAIN s : s[i].left \in Nat
  <2>1. DOMAIN s \subseteq Nat /\ \A i \in DOMAIN s : s[i] \in Record
    OBVIOUS
  <2>2. \A r \in Record : r.left \in Nat
    BY LogBusAssumption DEF Record
  <2> QED BY <2>1, <2>2
<1>2. ASSUME NEW i \in DOMAIN s, NEW j \in DOMAIN s, s[i] = s[j], i # j
      PROVE  FALSE
  BY <1>1, <1>2 DEF InOrder
<1> QED BY <1>2 DEF IsInjective

\* Two places of a way may be taken together.
LEMMA Together ==
  ASSUME NEW S, NEW a \in Seq(S), NEW b \in Seq(S), NEW c \in Seq(S), NEW d \in Seq(S)
  PROVE  a \o b \o c \o d = a \o (b \o c) \o d
<1>1. a \o b \o c = a \o (b \o c)
  BY ConcatAssociative, SMTT(30)
<1> QED BY <1>1

\* A line handed from one place to the next stays where it is in the whole.
LEMMA Handed ==
  ASSUME NEW a \in Seq(Record), NEW s \in Seq(Record), s # <<>>
  PROVE  a \o <<Head(s)>> \o Tail(s) = a \o s
<1>1. /\ Head(s) \in Record /\ <<Head(s)>> \in Seq(Record) /\ Tail(s) \in Seq(Record)
      /\ <<Head(s)>> \o Tail(s) = s
  OBVIOUS
<1> QED BY <1>1, ConcatAssociative

-----------------------------------------------------------------------------
(* The invariant *)

LEMMA WayType ==
  ASSUME TypeOK, NEW c \in Client
  PROVE  /\ got[c] \in Seq(Record) /\ hand[c] \in Seq(Record)
         /\ replay[c] \in Seq(Record) /\ queue[c] \in Seq(Record)
         /\ Way(c) \in Seq(Record)
         /\ \A i \in DOMAIN Way(c) : Way(c)[i] \in Record
<1>1. /\ got[c] \in Seq(Record) /\ hand[c] \in Seq(Record)
      /\ replay[c] \in Seq(Record) /\ queue[c] \in Seq(Record)
  BY DEF TypeOK
<1>2. Way(c) \in Seq(Record)
  BY <1>1 DEF Way
<1> QED BY <1>1, <1>2

\* The way of a page with some of its places taken together.
LEMMA WayTogether ==
  ASSUME TypeOK, NEW c \in Client
  PROVE  /\ Way(c) = got[c] \o (hand[c] \o replay[c]) \o queue[c]
         /\ Way(c) = got[c] \o (hand[c] \o replay[c] \o queue[c]) \o <<>>
<1>1. PICK g \in Seq(Record), h \in Seq(Record), r \in Seq(Record), q \in Seq(Record) :
        g = got[c] /\ h = hand[c] /\ r = replay[c] /\ q = queue[c]
  BY WayType
<1>2. g \o h \o r \o q = g \o (h \o r) \o q
  BY Together, SMTT(30)
<1>3. g \o h \o r \o q = g \o (h \o r \o q) \o <<>>
  <2>1. h \o r \in Seq(Record)
    OBVIOUS
  <2>2. PICK hr \in Seq(Record) : hr = h \o r
    BY <2>1, Zenon
  <2>3. hr \o q \in Seq(Record)
    OBVIOUS
  <2>4. PICK rest \in Seq(Record) : rest = hr \o q
    BY <2>3, Zenon
  <2>5. g \o hr \o q = g \o (hr \o q)
    BY ConcatAssociative, SMTT(30)
  <2>6. g \o rest \in Seq(Record) /\ g \o rest \o <<>> = g \o rest
    BY ConcatEmptySeq
  <2> QED BY <1>2, <2>2, <2>4, <2>5, <2>6
<1> QED BY <1>1, <1>2, <1>3 DEF Way

LEMMA Fields ==
  ASSUME NEW r \in Record
  PROVE  r.from \in Emitter /\ r.left \in 0..Lines
BY DEF Record

\* A step that leaves the way of a page as it is, and what was logged logged.
LEMMA SameWay ==
  ASSUME TypeOK, NEW c \in Client, WayFine(c), Way(c)' = Way(c),
         \A r \in Record : Passed(c, r) => Passed(c, r)'
  PROVE  WayFine(c)'
<1>1. ASSUME NEW i \in DOMAIN Way(c)' PROVE Passed(c, Way(c)[i])'
  <2>1. PICK r \in Record : r = Way(c)[i] /\ Passed(c, r)
    BY <1>1, WayType DEF WayFine
  <2>2. Passed(c, r)' /\ Way(c)'[i] = r
    BY <2>1
  <2> QED BY <2>2 DEF Passed, Logged
<1> QED BY <1>1 DEF WayFine, InOrder

\* What is put into the queue of a page is at the end of its way.
LEMMA AppendWay ==
  ASSUME TypeOK, NEW c \in Client, NEW r \in Record,
         queue' = [queue EXCEPT ![c] = Append(@, r)], UNCHANGED streams
  PROVE  Way(c)' = Append(Way(c), r)
<1> DEFINE before == got[c] \o hand[c] \o replay[c]
<1>1. before \in Seq(Record) /\ queue[c] \in Seq(Record)
  BY WayType
<1>2. Way(c) = before \o queue[c] /\ Way(c)' = before \o Append(queue[c], r)
  BY DEF TypeOK, Way, streams
<1> HIDE DEF before
<1> QED BY <1>1, <1>2, SMTT(30)

\* Nothing is logged yet.
LEMMA InitInv == Init => IInv
<1> SUFFICES ASSUME Init PROVE IInv
  OBVIOUS
<1>1. TypeOK
  BY LogBusAssumption DEF Init, TypeOK, Emitter
<1>2. Emitting /\ OnlyOperationsAsk
  BY LogBusAssumption DEF Init, Emitting, OnlyOperationsAsk, Emitter
<1>3. Phases
  BY DEF Init, Phases
<1>4. RingInOrder
  BY DEF Init, RingInOrder, InOrder
<1>5. WaysFine
  <2> SUFFICES ASSUME NEW c \in Client PROVE Way(c) = <<>>
    BY DEF WaysFine, WayFine, InOrder
  <2> QED BY DEF Init, Way
<1> QED BY <1>1, <1>2, <1>3, <1>4, <1>5 DEF IInv

\* A thread asks for the lock, gets it, or begins to serve: it has logged
\* nothing yet.
LEMMA BeginsInv ==
  ASSUME IInv, NEW e \in Emitter, Asked(e) \/ Enter(e) \/ Serve(e)
  PROVE  IInv'
<1>1. /\ at[e] \in {"new", "asked"}
      /\ UNCHANGED <<buf, subs, queue, left, pending, streams>>
  BY DEF Asked, Enter, Serve
<1>2. PICK next \in {"asked", "log"} : at' = [at EXCEPT ![e] = next]
  BY DEF Asked, Enter, Serve
<1>3. oplock' \in Operation \union {NoOne}
  <2>1. CASE Enter(e)
    <3>1. e \in Operation
      BY <2>1 DEF IInv, OnlyOperationsAsk, Enter
    <3> QED BY <2>1, <3>1 DEF Enter
  <2>2. CASE Asked(e) \/ Serve(e)
    BY <2>2 DEF IInv, TypeOK, Asked, Serve
  <2> QED BY <2>1, <2>2
<1>4. TypeOK'
  BY <1>1, <1>2, <1>3 DEF IInv, TypeOK, streams
<1>5. Emitting' /\ OnlyOperationsAsk'
  BY <1>1, <1>2 DEF IInv, TypeOK, Emitting, OnlyOperationsAsk, Asked, Enter, Serve
<1>6. Phases'
  BY <1>1 DEF IInv, Phases, streams
<1>7. \A r \in Record : Logged(r) => Logged(r)'
  BY <1>1, <1>2, Fields DEF IInv, TypeOK, Logged
<1>8. RingInOrder'
  BY <1>1, <1>7 DEF IInv, TypeOK, RingInOrder, InOrder
<1>9. WaysFine'
  <2>1. \A c \in Client : Way(c)' = Way(c)
    BY <1>1 DEF Way, streams
  <2>2. \A c \in Client, r \in Record : Passed(c, r) => Passed(c, r)'
    BY <1>1, <1>7 DEF Passed
  <2> QED BY <2>1, <2>2, SameWay DEF IInv, WaysFine
<1> QED BY <1>4, <1>5, <1>6, <1>8, <1>9 DEF IInv

\* The line that is appended is the first of its emitter after all that are in
\* the ring and on the ways.
LEMMA EmitInv == ASSUME IInv, NEW e \in Emitter, Emit(e) PROVE IInv'
<1>1. LineOf(e) \in Record /\ LineOf(e).from = e /\ LineOf(e).left = left[e]
  BY DEF IInv, TypeOK, LineOf, Record
<1>2. PICK line \in Record : line = LineOf(e) /\ line.from = e /\ line.left = left[e]
  BY <1>1
<1>3. /\ Append(buf, line) \in Seq(Record) /\ Len(Append(buf, line)) <= RingSize + 1
      /\ DOMAIN Append(buf, line) = DOMAIN buf \union {Len(buf) + 1}
      /\ \A i \in DOMAIN buf : Append(buf, line)[i] = buf[i]
      /\ Append(buf, line)[Len(buf) + 1] = line
  BY LogBusAssumption DEF IInv, TypeOK
<1>4. \A r \in Record : r.from = e /\ Logged(r) => r.left > left[e]
  BY DEF Emit, Logged
<1>5. \A i \in DOMAIN buf : buf[i] \in Record /\ Logged(buf[i])
  BY DEF IInv, TypeOK, RingInOrder
<1>6. InOrder(Append(buf, line))
  BY <1>2, <1>4, <1>5, AppendInOrder DEF IInv, TypeOK, RingInOrder
<1>7. /\ buf' \in Seq(Record) /\ InOrder(buf') /\ Len(buf') <= RingSize
      /\ \A i \in DOMAIN buf' : \E j \in DOMAIN Append(buf, line) :
           buf'[i] = Append(buf, line)[j]
  BY <1>2, <1>3, <1>6, KeptInOrder DEF Emit
<1>8. TypeOK'
  BY <1>7 DEF IInv, TypeOK, Emit, streams
<1>9. Emitting' /\ OnlyOperationsAsk'
  BY DEF IInv, TypeOK, Emitting, OnlyOperationsAsk, Emit
<1>10. Phases'
  BY DEF IInv, TypeOK, Phases, Emit, streams
<1>11. \A r \in Record : Logged(r) => Logged(r)'
  BY Fields DEF IInv, TypeOK, Logged, Emit
<1>12. RingInOrder'
  <2>1. Logged(line)'
    BY <1>2 DEF IInv, TypeOK, Logged, Emit
  <2>2. ASSUME NEW i \in DOMAIN buf' PROVE Logged(buf[i])'
    <3>1. PICK j \in DOMAIN Append(buf, line) : buf'[i] = Append(buf, line)[j]
      BY <1>7
    <3>2. PICK r \in Record : buf'[i] = r /\ Logged(r)'
      BY <1>2, <1>3, <1>5, <1>11, <2>1, <3>1
    <3> QED BY <3>2 DEF Logged
  <2> QED BY <1>7, <2>2 DEF RingInOrder
<1>13. WaysFine'
  <2>1. \A c \in Client : Way(c)' = Way(c)
    BY DEF Way, Emit, streams
  <2>2. \A c \in Client, r \in Record : Passed(c, r) => Passed(c, r)'
    <3> SUFFICES ASSUME NEW c \in Client, NEW r \in Record, Passed(c, r)
                 PROVE  Passed(c, r)'
      OBVIOUS
    <3>1. Logged(r) /\ Logged(r)' /\ r.from \in Emitter /\ left' = left
      BY <1>11, Fields DEF Passed, Emit
    <3>2. CASE r.from = e
      BY <1>4, <3>1, <3>2 DEF Passed
    <3>3. CASE r.from # e
      BY <3>1, <3>3 DEF IInv, TypeOK, Passed, Emit
    <3> QED BY <3>2, <3>3
  <2> QED BY <2>1, <2>2, SameWay DEF IInv, WaysFine
<1> QED BY <1>8, <1>9, <1>10, <1>12, <1>13 DEF IInv

\* The put brings a page a line that is not on its way yet, after all of the
\* same emitter that are.
LEMMA PutInv == ASSUME IInv, NEW e \in Emitter, Put(e) PROVE IInv'
<1>1. LineOf(e) \in Record /\ LineOf(e).from = e /\ LineOf(e).left = left[e]
  BY DEF IInv, TypeOK, LineOf, Record
<1>2. PICK line \in Record : line = LineOf(e) /\ line.from = e /\ line.left = left[e]
  BY <1>1
<1>3. PICK c \in pending[e] :
        /\ Len(queue[c]) < QueueSize
        /\ queue' = [queue EXCEPT ![c] = Append(@, line)]
        /\ pending' = [pending EXCEPT ![e] = @ \ {c}]
  BY <1>2 DEF Put
<1>4. /\ at[e] = "put" /\ c \in Client
      /\ UNCHANGED <<buf, subs, oplock, at, left, streams>>
  BY DEF Put, IInv, TypeOK
<1>5. TypeOK'
  <2>1. Append(queue[c], line) \in Seq(Record) /\ Len(Append(queue[c], line)) <= QueueSize
    BY <1>3, <1>4, LogBusAssumption DEF IInv, TypeOK
  <2>2. queue' \in [Client -> Seq(Record)] /\ \A d \in Client : Len(queue'[d]) <= QueueSize
    BY <1>3, <1>4, <2>1 DEF IInv, TypeOK
  <2>3. pending' \in [Emitter -> SUBSET Client]
    BY <1>3 DEF IInv, TypeOK
  <2> QED BY <1>4, <2>2, <2>3 DEF IInv, TypeOK, streams
<1>6. Emitting' /\ OnlyOperationsAsk'
  BY <1>3, <1>4 DEF IInv, TypeOK, Emitting, OnlyOperationsAsk
<1>7. Phases'
  BY <1>3, <1>4 DEF IInv, TypeOK, Phases, streams
<1>8. RingInOrder'
  BY <1>4 DEF IInv, RingInOrder, InOrder, Logged
<1>9. \A d \in Client, r \in Record : Passed(d, r) => Passed(d, r)'
  BY <1>3, <1>4, Fields DEF IInv, TypeOK, Passed, Logged
<1>10. ASSUME NEW d \in Client, d # c PROVE WayFine(d)'
  <2>1. Way(d)' = Way(d)
    BY <1>3, <1>4, <1>10 DEF IInv, TypeOK, Way, streams
  <2> QED BY <1>9, <2>1, SameWay DEF IInv, WaysFine
<1>11. WayFine(c)'
  <2>1. Way(c)' = Append(Way(c), line)
    BY <1>3, <1>4, AppendWay DEF IInv
  <2>2. Way(c) \in Seq(Record) /\ \A i \in DOMAIN Way(c) : Passed(c, Way(c)[i])
    BY <1>4, WayType DEF IInv, WayFine, WaysFine
  <2>3. \A i \in DOMAIN Way(c) : Way(c)[i].from = line.from => Way(c)[i].left > line.left
    BY <1>2, <1>3, <2>2 DEF Passed
  <2>4. InOrder(Append(Way(c), line))
    BY <1>4, <2>2, <2>3, AppendInOrder DEF IInv, WayFine, WaysFine
  <2>5. Passed(c, line)'
    BY <1>2, <1>3, <1>4 DEF IInv, TypeOK, Passed, Logged
  <2>6. ASSUME NEW i \in DOMAIN Way(c)' PROVE Passed(c, Way(c)[i])'
    <3>1. \/ Append(Way(c), line)[i] = line
          \/ i \in DOMAIN Way(c) /\ Append(Way(c), line)[i] = Way(c)[i]
      BY <2>1, <2>2, <2>6
    <3>2. PICK r \in Record : Way(c)'[i] = r /\ Passed(c, r)'
      BY <1>4, <1>9, <2>1, <2>2, <2>5, <3>1
    <3> QED BY <3>2 DEF Passed, Logged
  <2> QED BY <2>1, <2>4, <2>6 DEF WayFine
<1> QED BY <1>5, <1>6, <1>7, <1>8, <1>10, <1>11 DEF IInv, WaysFine

\* The line just logged is now one of those before the emitter's next.
LEMMA EmittedInv == ASSUME IInv, NEW e \in Emitter, Emitted(e) PROVE IInv'
<1>1. /\ at[e] = "put" /\ pending[e] = {} /\ left[e] \in Nat /\ left[e] > 0
      /\ left' = [left EXCEPT ![e] = @ - 1]
      /\ at' = [at EXCEPT ![e] = IF left[e] = 1 THEN "done" ELSE "log"]
      /\ oplock' \in Operation \union {NoOne}
      /\ UNCHANGED <<buf, subs, queue, pending, streams>>
  BY LogBusAssumption DEF IInv, TypeOK, Emitting, Emitted
<1>2. left'[e] = left[e] - 1 /\ \A d \in Emitter : d # e => left'[d] = left[d]
  BY <1>1 DEF IInv, TypeOK
<1>3. left' \in [Emitter -> 0..Lines]
  BY <1>1, LogBusAssumption DEF IInv, TypeOK
<1>4. TypeOK'
  BY <1>1, <1>3 DEF IInv, TypeOK, streams
<1>5. Emitting' /\ OnlyOperationsAsk'
  BY <1>1, <1>2 DEF IInv, TypeOK, Emitting, OnlyOperationsAsk
<1>6. Phases'
  BY <1>1 DEF IInv, TypeOK, Phases, streams
<1>7. ASSUME NEW r \in Record, Logged(r) PROVE Logged(r)'
  <2>1. r.from \in Emitter /\ r.left \in Nat
    BY Fields, LogBusAssumption
  <2>2. CASE r.from = e
    BY <1>1, <1>2, <1>7, <2>1, <2>2 DEF Logged
  <2>3. CASE r.from # e
    BY <1>1, <1>2, <1>7, <2>1, <2>3 DEF IInv, TypeOK, Logged
  <2> QED BY <2>2, <2>3
<1>8. RingInOrder'
  BY <1>1, <1>7 DEF IInv, TypeOK, RingInOrder, InOrder
<1>9. WaysFine'
  <2>1. \A c \in Client : Way(c)' = Way(c)
    BY <1>1 DEF Way, streams
  <2>2. \A c \in Client, r \in Record : Passed(c, r) => Passed(c, r)'
    BY <1>1, <1>2, <1>7, Fields DEF Passed
  <2> QED BY <2>1, <2>2, SameWay DEF IInv, WaysFine
<1> QED BY <1>4, <1>5, <1>6, <1>8, <1>9 DEF IInv

-----------------------------------------------------------------------------
(* Connections *)

\* A step of a connection leaves the emitters alone; what is on the way of a
\* page is as it was, or part of it, or the ring.
LEMMA WaysInv ==
  ASSUME IInv, UNCHANGED <<buf, emitters>>,
         \A c \in Client : \/ Way(c)' = Way(c)
                           \/ /\ InOrder(Way(c)')
                              /\ \A i \in DOMAIN Way(c)' :
                                   \E j \in DOMAIN Way(c) : Way(c)'[i] = Way(c)[j]
                           \/ Way(c)' = buf /\ \A e \in Emitter : c \notin pending[e]
  PROVE  Emitting' /\ OnlyOperationsAsk' /\ RingInOrder' /\ WaysFine'
<1>1. UNCHANGED <<buf, at, left, pending>>
  BY DEF emitters
<1>2. Emitting' /\ OnlyOperationsAsk' /\ RingInOrder'
  BY <1>1 DEF IInv, Emitting, OnlyOperationsAsk, RingInOrder, InOrder, Logged
<1>3. \A c \in Client, r \in Record : Passed(c, r) => Passed(c, r)'
  BY <1>1 DEF Passed, Logged
<1>4. ASSUME NEW c \in Client PROVE WayFine(c)'
  <2>1. InOrder(Way(c))'
    BY <1>4 DEF IInv, RingInOrder, WaysFine, WayFine, InOrder
  <2>2. ASSUME NEW i \in DOMAIN Way(c)' PROVE Passed(c, Way(c)[i])'
    <3>1. \/ \E j \in DOMAIN Way(c) : Way(c)'[i] = Way(c)[j]
          \/ i \in DOMAIN buf /\ Way(c)'[i] = buf[i] /\ \A e \in Emitter : c \notin pending[e]
      BY <2>2
    <3>2. PICK r \in Record : Way(c)'[i] = r /\ Passed(c, r)
      <4>1. CASE \E j \in DOMAIN Way(c) : Way(c)'[i] = Way(c)[j]
        BY <4>1, WayType DEF IInv, WaysFine, WayFine
      <4>2. CASE /\ i \in DOMAIN buf /\ Way(c)'[i] = buf[i]
                 /\ \A e \in Emitter : c \notin pending[e]
        BY <4>2, Fields DEF IInv, TypeOK, RingInOrder, Passed
      <4> QED BY <3>1, <4>1, <4>2
    <3>3. Passed(c, r)'
      BY <1>3, <3>2
    <3> QED BY <3>2, <3>3 DEF Passed, Logged
  <2> QED BY <2>1, <2>2 DEF WayFine
<1> QED BY <1>2, <1>4 DEF WaysFine

\* The stream of a page that connects begins with the ring.
LEMMA OpenInv == ASSUME IInv, NEW c \in Client, Open(c) PROVE IInv'
<1>1. TypeOK' /\ Phases'
  BY DEF IInv, TypeOK, Phases, Open, emitters
<1>2. Way(c)' = buf /\ \A e \in Emitter : c \notin pending[e]
  <2>1. got[c] = <<>> /\ hand[c] = <<>> /\ queue[c] = <<>>
    BY DEF IInv, Phases, Open
  <2>2. Way(c)' = <<>> \o <<>> \o buf \o <<>>
    BY <2>1 DEF IInv, TypeOK, Way, Open
  <2>3. Way(c)' = buf
    BY <2>2, ConcatEmptySeq DEF IInv, TypeOK
  <2>4. \A e \in Emitter : c \notin pending[e]
    BY DEF IInv, Phases, Open
  <2> QED BY <2>3, <2>4
<1>3. \A d \in Client : d # c => Way(d)' = Way(d)
  BY DEF IInv, TypeOK, Way, Open
<1>4. Emitting' /\ OnlyOperationsAsk' /\ RingInOrder' /\ WaysFine'
  BY <1>2, <1>3, WaysInv DEF Open
<1> QED BY <1>1, <1>4 DEF IInv

\* A stream moves a record on the way of its page from one place to the next.
LEMMA StreamWay ==
  ASSUME IInv, NEW c \in Client, StreamStep(c)
  PROVE  Way(c)' = Way(c)
<1> USE DEF StreamStep, Subscribe, Take, Write
<1>0. /\ got[c] \in Seq(Record) /\ hand[c] \in Seq(Record)
      /\ replay[c] \in Seq(Record) /\ queue[c] \in Seq(Record)
  BY WayType DEF IInv
<1>1. CASE Subscribe(c)
  BY <1>1 DEF Way
<1>2. CASE Take(c) /\ sse[c] = "replay"
  <2>1. /\ hand[c] = <<>> /\ replay[c] # <<>>
        /\ Way(c)' = got[c] \o <<Head(replay[c])>> \o Tail(replay[c]) \o queue[c]
    BY <1>2 DEF IInv, TypeOK, Way
  <2>2. got[c] \o <<>> \o replay[c] = got[c] \o <<Head(replay[c])>> \o Tail(replay[c])
    BY <1>0, <2>1, Handed, ConcatEmptySeq, ZenonT(30)
  <2> QED BY <2>1, <2>2 DEF Way
<1>3. CASE Take(c) /\ sse[c] = "live"
  <2>1. /\ hand[c] = <<>> /\ replay[c] = <<>> /\ queue[c] # <<>>
        /\ Way(c)' = got[c] \o <<Head(queue[c])>> \o <<>> \o Tail(queue[c])
    BY <1>3 DEF IInv, TypeOK, Phases, Way
  <2>2. <<Head(queue[c])>> \in Seq(Record) /\ got[c] \o <<Head(queue[c])>> \in Seq(Record)
    BY <1>0, <2>1
  <2>3. Way(c)' = got[c] \o <<Head(queue[c])>> \o Tail(queue[c])
    BY <2>1, <2>2, ConcatEmptySeq
  <2>4. Way(c) = got[c] \o queue[c]
    BY <1>0, <2>1, ConcatEmptySeq DEF Way
  <2> QED BY <1>0, <2>1, <2>3, <2>4, Handed
<1>4. CASE Write(c)
  <2>1. Way(c)' = got[c] \o hand[c] \o <<>> \o replay[c] \o queue[c]
    BY <1>4 DEF IInv, TypeOK, Way
  <2>2. got[c] \o hand[c] \o <<>> = got[c] \o hand[c]
    BY <1>0
  <2> QED BY <2>1, <2>2 DEF Way
<1> QED BY <1>1, <1>2, <1>3, <1>4

\* It keeps the invariant.
LEMMA StreamInv == ASSUME IInv, NEW c \in Client, StreamStep(c) PROVE IInv'
<1> USE DEF StreamStep, Subscribe, Take, Write
<1>1. UNCHANGED <<buf, emitters>>
  OBVIOUS
<1>2. /\ got[c] \in Seq(Record) /\ hand[c] \in Seq(Record)
      /\ replay[c] \in Seq(Record) /\ queue[c] \in Seq(Record)
  BY WayType DEF IInv
<1>3. TypeOK'
  <2>1. CASE Subscribe(c)
    BY <2>1 DEF IInv, TypeOK, emitters
  <2>2. CASE Take(c)
    <3>1. replay[c] # <<>> =>
            /\ <<Head(replay[c])>> \in Seq(Record) /\ Len(<<Head(replay[c])>>) <= 1
            /\ Tail(replay[c]) \in Seq(Record)
      BY <1>2
    <3>2. queue[c] # <<>> =>
            /\ <<Head(queue[c])>> \in Seq(Record) /\ Len(<<Head(queue[c])>>) <= 1
            /\ Tail(queue[c]) \in Seq(Record)
            /\ Len(Tail(queue[c])) <= QueueSize
      BY <1>2, LogBusAssumption DEF IInv, TypeOK
    <3>3. CASE sse[c] = "replay"
      BY <2>2, <3>1, <3>3, ZenonT(30) DEF IInv, TypeOK, emitters
    <3>4. CASE sse[c] = "live"
      BY <2>2, <3>2, <3>4, ZenonT(30) DEF IInv, TypeOK, emitters
    <3> QED BY <2>2, <3>3, <3>4
  <2>3. CASE Write(c)
    BY <1>2, <2>3 DEF IInv, TypeOK, emitters
  <2> QED BY <2>1, <2>2, <2>3
<1>4. Phases'
  BY DEF IInv, TypeOK, Phases, emitters
<1>5. \A d \in Client : d # c => Way(d)' = Way(d)
  BY DEF IInv, TypeOK, Way
<1>6. Way(c)' = Way(c)
  BY StreamWay
<1>7. Emitting' /\ OnlyOperationsAsk' /\ RingInOrder' /\ WaysFine'
  BY <1>1, <1>5, <1>6, WaysInv
<1> QED BY <1>3, <1>4, <1>7 DEF IInv

\* A page that leaves loses what it had not been sent.
LEMMA CloseInv == ASSUME IInv, NEW c \in Client, Close(c) PROVE IInv'
<1>1. TypeOK' /\ Phases'
  BY DEF IInv, TypeOK, Phases, Close, emitters
<1>2. \A d \in Client : d # c => Way(d)' = Way(d)
  BY DEF IInv, TypeOK, Way, Close
<1>3. /\ got[c] \in Seq(Record) /\ hand[c] \in Seq(Record)
      /\ replay[c] \in Seq(Record) /\ queue[c] \in Seq(Record)
      /\ InOrder(Way(c))
  BY WayType DEF IInv, WaysFine, WayFine
<1> DEFINE lost == hand[c] \o replay[c]
<1>4. lost \in Seq(Record) /\ Way(c) = got[c] \o lost \o queue[c]
  <2>1. lost \in Seq(Record)
    BY <1>3
  <2> QED BY <2>1, WayTogether DEF IInv
<1>5. Way(c)' = got[c] \o queue[c]
  <2>1. Way(c)' = got[c] \o <<>> \o <<>> \o queue[c]
    BY DEF IInv, TypeOK, Way, Close
  <2> QED BY <1>3, <2>1
<1> HIDE DEF lost
<1>6. /\ InOrder(Way(c)')
      /\ \A i \in DOMAIN Way(c)' : \E j \in DOMAIN Way(c) : Way(c)'[i] = Way(c)[j]
  <2>1. InOrder(got[c] \o lost \o queue[c])
    BY <1>3, <1>4
  <2>2. /\ InOrder(got[c] \o queue[c])
        /\ \A i \in DOMAIN (got[c] \o queue[c]) : \E j \in DOMAIN (got[c] \o lost \o queue[c]) :
             (got[c] \o queue[c])[i] = (got[c] \o lost \o queue[c])[j]
    BY <1>3, <1>4, <2>1, DropInOrder, ZenonT(30)
  <2> QED BY <1>4, <1>5, <2>2
<1>7. Emitting' /\ OnlyOperationsAsk' /\ RingInOrder' /\ WaysFine'
  BY <1>2, <1>6, WaysInv DEF Close
<1> QED BY <1>1, <1>7 DEF IInv

\* One that stops reading keeps everything where it is.
LEMMA StallInv == ASSUME IInv, NEW c \in Client, Stall(c) PROVE IInv'
<1>1. TypeOK' /\ Phases'
  BY DEF IInv, TypeOK, Phases, Stall, emitters
<1>2. \A d \in Client : Way(d)' = Way(d)
  BY DEF Way, Stall
<1>3. Emitting' /\ OnlyOperationsAsk' /\ RingInOrder' /\ WaysFine'
  BY <1>2, WaysInv DEF Stall
<1> QED BY <1>1, <1>3 DEF IInv

LEMMA NextInv == IInv /\ [Next]_vars => IInv'
<1> SUFFICES ASSUME IInv, [Next]_vars PROVE IInv'
  OBVIOUS
<1>1. ASSUME NEW e \in Emitter, Asked(e) \/ Serve(e) \/ EmitterStep(e) PROVE IInv'
  BY <1>1, BeginsInv, EmitInv, PutInv, EmittedInv DEF EmitterStep
<1>2. ASSUME NEW c \in Client, Open(c) \/ StreamStep(c) \/ Close(c) \/ Stall(c) PROVE IInv'
  BY <1>2, OpenInv, StreamInv, CloseInv, StallInv
<1>3. CASE UNCHANGED vars
  <2>1. UNCHANGED <<buf, emitters>> /\ \A c \in Client : Way(c)' = Way(c)
    BY <1>3 DEF vars, streams, Way
  <2>2. TypeOK' /\ Phases'
    BY <1>3 DEF vars, streams, emitters, IInv, TypeOK, Phases
  <2> QED BY <2>1, <2>2, WaysInv DEF IInv
<1> QED BY <1>1, <1>2, <1>3 DEF Next

\* The invariant holds however many operations, requests and pages there are,
\* whatever the capacities of the ring and of the queues, and whichever pages
\* stop reading or leave.
THEOREM Invariant == Spec => []IInv
BY InitInv, NextInv, PTL DEF Spec

\* Whatever a page has received or will receive is in the order of logging.
THEOREM Ordered == Spec => []LinesInOrder
<1>1. ASSUME IInv PROVE LinesInOrder
  BY <1>1 DEF IInv, WaysFine, WayFine, InOrder, LinesInOrder
<1> QED BY <1>1, Invariant, PTL

\* And so no page is sent a line twice.
THEOREM Once == Spec => [](\A c \in Client : IsInjective(Way(c)))
<1>1. ASSUME IInv PROVE \A c \in Client : IsInjective(Way(c))
  BY <1>1, WayType, InOrderOnce DEF IInv, WaysFine, WayFine
<1> QED BY <1>1, Invariant, PTL

-----------------------------------------------------------------------------
(* LogBus implements LogFeed *)

\* The variables of the feed.
Owing  == UNION {Owed(e) : e \in Emitter}
Stream == [c \in Client |-> IF sse[c] = "closed" THEN got[c] ELSE Way(c)]

\* What is owed, line by line.
LEMMA OwingMeans ==
  /\ \A e \in Emitter : \A c \in pending[e] : F!Due(c, LineOf(e)) \in Owing
  /\ \A d \in Owing : \E e \in Emitter : \E c \in pending[e] : d = F!Due(c, LineOf(e))
BY DEF Owing, Owed, F!Due

\* A step that moves nothing in a stream and owes nobody more or less.
LEMMA Unnoticed ==
  ASSUME UNCHANGED <<buf, sse, got>>,
         \A c \in Client : sse[c] # "closed" => Way(c)' = Way(c),
         \A e \in Emitter : Owed(e)' = Owed(e)
  PROVE  [F!Next]_(F!vars)
<1>1. Owing' = Owing
  BY DEF Owing
<1>2. Stream' = Stream
  BY DEF Stream
<1> QED BY <1>1, <1>2 DEF F!vars, Owing, Stream

\* What an emitter owes as long as it stays at its line.
LEMMA SameOwed ==
  ASSUME NEW e \in Emitter, pending'[e] = pending[e],
         left'[e] = left[e] \/ pending[e] = {}
  PROVE  Owed(e)' = Owed(e)
BY DEF Owed, LineOf

\* A line is logged: its emitter owes it to every page that follows.
LEMMA EmitFeeds ==
  ASSUME IInv, NEW e \in Emitter, Emit(e)
  PROVE  [F!Next]_(F!vars)
<1>1. PICK r \in Record : r = LineOf(e) /\ r.from = e
  <2>1. LineOf(e) \in Record /\ LineOf(e).from = e
    BY DEF IInv, TypeOK, LineOf, Record
  <2> QED BY <2>1
<1>2. /\ pending[e] = {} /\ pending' = [pending EXCEPT ![e] = subs]
      /\ UNCHANGED <<left, sse, got>> /\ \A c \in Client : Way(c)' = Way(c)
  BY DEF Emit, IInv, Emitting, Way, streams
<1>3. subs = {c \in Client : sse[c] = "live"}
  BY DEF IInv, TypeOK, Phases
<1>4. \A d \in Owing : d.line.from # r.from
  <2> SUFFICES ASSUME NEW d \in Owing PROVE d.line.from # e
    BY <1>1
  <2>1. PICK f \in Emitter : pending[f] # {} /\ d.line = LineOf(f)
    BY OwingMeans DEF F!Due
  <2> QED BY <1>2, <2>1 DEF LineOf
<1>5. buf' \in {Append(buf, r), Tail(Append(buf, r))}
  BY <1>1 DEF Emit, Kept
<1>6. Owing' = Owing \union {F!Due(c, r) : c \in {c \in Client : sse[c] = "live"}}
  <2>1. Owed(e) = {} /\ Owed(e)' = {F!Due(c, r) : c \in {c \in Client : sse[c] = "live"}}
    BY <1>1, <1>2, <1>3 DEF Owed, LineOf, F!Due, IInv, TypeOK
  <2>2. \A f \in Emitter : f # e => Owed(f)' = Owed(f)
    BY <1>2, SameOwed DEF IInv, TypeOK
  <2> QED BY <2>1, <2>2 DEF Owing
<1>7. Stream' = Stream
  BY <1>2 DEF Stream
<1>8. F!Log(r)
  BY <1>2, <1>4, <1>5, <1>6, <1>7 DEF F!Log, Owing, Stream
<1> QED BY <1>8 DEF F!Next

\* A line is put into a queue: it is the next one in the stream of that page.
LEMMA PutFeeds ==
  ASSUME IInv, NEW e \in Emitter, Put(e)
  PROVE  [F!Next]_(F!vars)
<1>1. PICK r \in Record : r = LineOf(e) /\ r.from = e
  <2>1. LineOf(e) \in Record /\ LineOf(e).from = e
    BY DEF IInv, TypeOK, LineOf, Record
  <2> QED BY <2>1
<1>2. PICK c \in pending[e] :
        /\ queue' = [queue EXCEPT ![c] = Append(@, r)]
        /\ pending' = [pending EXCEPT ![e] = @ \ {c}]
  BY <1>1 DEF Put
<1>3. /\ c \in Client /\ sse[c] \in {"live", "closed"}
      /\ UNCHANGED <<buf, left, sse, got, streams>>
  BY DEF Put, IInv, TypeOK, Phases, streams
<1>4. F!Due(c, r) \in Owing
  BY <1>1, OwingMeans
<1>5. Owing' = Owing \ {F!Due(c, r)}
  <2>1. Owed(e)' = Owed(e) \ {F!Due(c, r)}
    BY <1>1, <1>2, <1>3 DEF Owed, LineOf, F!Due, IInv, TypeOK
  <2>2. \A f \in Emitter : f # e => Owed(f)' = Owed(f)
    BY <1>2, <1>3, SameOwed DEF IInv, TypeOK
  <2>3. \A f \in Emitter : f # e => F!Due(c, r) \notin Owed(f)
    <3>1. \A f \in Emitter : f # e => LineOf(f) # r
      BY <1>1 DEF LineOf
    <3> QED BY <3>1 DEF Owed, F!Due
  <2> QED BY <2>1, <2>2, <2>3 DEF Owing
<1>6. Stream' = [Stream EXCEPT ![c] = IF sse[c] = "live" THEN Append(@, r) ELSE @]
  <2>1. Way(c)' = Append(Way(c), r)
    BY <1>2, <1>3, AppendWay DEF IInv
  <2>2. \A d \in Client : d # c => Way(d)' = Way(d)
    BY <1>2, <1>3 DEF IInv, TypeOK, Way, streams
  <2> QED BY <1>3, <2>1, <2>2 DEF Stream
<1>7. F!Deliver(c, r)
  BY <1>3, <1>4, <1>5, <1>6 DEF F!Deliver, Owing, Stream
<1> QED BY <1>3, <1>7 DEF F!Next

\* The other steps of an emitter owe nothing and put nothing.
LEMMA EmitterFeeds ==
  ASSUME IInv, NEW e \in Emitter, Asked(e) \/ Serve(e) \/ EmitterStep(e)
  PROVE  [F!Next]_(F!vars)
<1>1. CASE Emit(e)
  BY <1>1, EmitFeeds
<1>2. CASE Put(e)
  BY <1>2, PutFeeds
<1>3. CASE Asked(e) \/ Serve(e) \/ Enter(e) \/ Emitted(e)
  <2>1. /\ UNCHANGED <<buf, queue, pending, streams>>
        /\ \A f \in Emitter : left'[f] = left[f] \/ pending[f] = {}
    BY <1>3 DEF Asked, Serve, Enter, Emitted, IInv, TypeOK
  <2>2. \A f \in Emitter : Owed(f)' = Owed(f)
    BY <2>1, SameOwed
  <2>3. \A c \in Client : Way(c)' = Way(c)
    BY <2>1 DEF Way, streams
  <2> QED BY <2>1, <2>2, <2>3, Unnoticed DEF streams
<1> QED BY <1>1, <1>2, <1>3 DEF EmitterStep

\* The next record of a list, followed by others.
LEMMA NextIsPrefix ==
  ASSUME NEW s \in Seq(Record), NEW r \in Record, NEW rest \in Seq(Record)
  PROVE  IsPrefix(Append(s, r), s \o <<r>> \o rest)
<1> DEFINE t == Append(s, r)
           u == t \o rest
<1>1. t \in Seq(Record) /\ t = s \o <<r>> /\ Len(t) \in Nat
  OBVIOUS
<1> HIDE DEF t
<1>2. u \in Seq(Record) /\ Len(u) = Len(t) + Len(rest) /\ Len(rest) \in Nat
      /\ \A i \in 1..Len(t) : u[i] = t[i]
  BY <1>1, ConcatProperties
<1> HIDE DEF u
<1>3. SubSeq(t, 1, Len(t)) = SubSeq(u, 1, Len(t))
  BY <1>1, <1>2, SMTT(30)
<1>4. IsPrefix(t, u)
  BY <1>1, <1>2, <1>3, SMTT(30) DEF IsPrefix
<1> QED BY <1>1, <1>4 DEF t, u

\* The record in hand is written: it was the next of the stream.
LEMMA WriteFeeds ==
  ASSUME IInv, NEW c \in Client, Write(c)
  PROVE  [F!Next]_(F!vars)
<1>1. PICK r \in Record : hand[c] = <<r>>
  <2>1. hand[c] \in Seq(Record) /\ hand[c] # <<>> /\ Len(hand[c]) <= 1
    BY DEF Write, IInv, TypeOK
  <2>2. hand[c][1] \in Record /\ hand[c] = <<hand[c][1]>>
    BY <2>1
  <2> QED BY <2>2
<1>2. /\ sse[c] \in {"replay", "live"}
      /\ got' = [got EXCEPT ![c] = @ \o <<r>>]
      /\ UNCHANGED <<buf, sse, pending, left>>
  BY <1>1 DEF Write, IInv, TypeOK, Phases, emitters
<1>3. \A d \in Client : Way(d)' = Way(d)
  <2>1. Way(c)' = Way(c)
    BY StreamWay DEF StreamStep
  <2>2. \A d \in Client : d # c => Way(d)' = Way(d)
    BY DEF Write, IInv, TypeOK, Way
  <2> QED BY <2>1, <2>2
<1>4. got' = [got EXCEPT ![c] = Append(@, r)]
  <2>1. got[c] \in Seq(Record) /\ got[c] \o <<r>> = Append(got[c], r)
    BY DEF IInv, TypeOK
  <2> QED BY <1>2, <2>1
<1>5. IsPrefix(Append(got[c], r), Way(c))
  <2>1. /\ got[c] \in Seq(Record) /\ replay[c] \in Seq(Record) /\ queue[c] \in Seq(Record)
        /\ replay[c] \o queue[c] \in Seq(Record)
    BY WayType DEF IInv
  <2>2. Way(c) = got[c] \o <<r>> \o (replay[c] \o queue[c])
    <3>1. got[c] \o <<r>> \in Seq(Record)
      BY <2>1
    <3>2. PICK front \in Seq(Record), s \in Seq(Record), q \in Seq(Record) :
            front = got[c] \o <<r>> /\ s = replay[c] /\ q = queue[c]
      BY <2>1, <3>1, Zenon
    <3>3. front \o s \o q = front \o (s \o q)
      BY ConcatAssociative
    <3> QED BY <1>1, <3>2, <3>3 DEF Way
  <2> QED BY <2>1, <2>2, NextIsPrefix
<1>6. Stream' = Stream /\ Stream[c] = Way(c)
  <2>1. \A d \in Client : sse[d] = "closed" => got'[d] = got[d]
    BY <1>2 DEF IInv, TypeOK
  <2> QED BY <1>2, <1>3, <2>1 DEF Stream
<1>7. Owing' = Owing
  BY <1>2 DEF Owing, Owed, LineOf
<1>8. F!Receive(c)
  <2>1. UNCHANGED <<buf, Owing, sse, Stream>>
    BY <1>2, <1>6, <1>7
  <2>2. IsPrefix(Append(got[c], r), Stream[c])
    BY <1>5, <1>6
  <2> QED BY <1>2, <1>4, <2>1, <2>2 DEF F!Receive, F!IsPrefix, IsPrefix, Owing, Stream
<1> QED BY <1>8 DEF F!Next

\* A connection opens, subscribes, takes a record, writes it, closes or stalls.
LEMMA StreamFeeds ==
  ASSUME IInv, NEW c \in Client, Open(c) \/ StreamStep(c) \/ Close(c) \/ Stall(c)
  PROVE  [F!Next]_(F!vars)
<1>1. \A e \in Emitter : Owed(e)' = Owed(e)
  <2>1. UNCHANGED <<pending, left>>
    BY DEF Open, StreamStep, Subscribe, Take, Write, Close, Stall, emitters
  <2> QED BY <2>1, SameOwed
<1>2. Owing' = Owing
  BY <1>1 DEF Owing
<1>3. CASE Open(c)
  <2>1. Way(c)' = buf
    <3>1. Way(c)' = <<>> \o <<>> \o buf \o <<>>
      BY <1>3 DEF IInv, TypeOK, Phases, Way, Open
    <3> QED BY <3>1, ConcatEmptySeq DEF IInv, TypeOK
  <2>2. \A d \in Client : d # c => Way(d)' = Way(d)
    BY <1>3 DEF IInv, TypeOK, Way, Open
  <2>3. sse[c] = "new" /\ sse' = [sse EXCEPT ![c] = "replay"] /\ UNCHANGED <<buf, got>>
    BY <1>3 DEF Open
  <2>4. Stream' = [Stream EXCEPT ![c] = buf]
    BY <2>1, <2>2, <2>3 DEF Stream, IInv, TypeOK
  <2>5. F!Open(c)
    BY <1>2, <2>3, <2>4 DEF F!Open, Owing, Stream
  <2> QED BY <2>5 DEF F!Next
<1>4. CASE Subscribe(c)
  <2>1. /\ sse[c] = "replay" /\ sse' = [sse EXCEPT ![c] = "live"]
        /\ UNCHANGED <<buf, queue, replay, hand, got>>
    BY <1>4 DEF Subscribe
  <2>2. Way(c) = got[c]
    <3>1. got[c] \in Seq(Record) /\ Way(c) = got[c] \o <<>> \o <<>> \o <<>>
      BY <1>4 DEF Subscribe, IInv, TypeOK, Phases, Way
    <3> QED BY <3>1, ConcatEmptySeq
  <2>3. Stream' = Stream /\ Stream[c] = got[c]
    BY <2>1, <2>2 DEF Stream, Way, IInv, TypeOK
  <2>4. F!Follow(c)
    BY <1>2, <2>1, <2>3 DEF F!Follow, Owing, Stream
  <2> QED BY <2>4 DEF F!Next
<1>5. CASE Take(c)
  <2>1. UNCHANGED <<buf, sse, got>> /\ Way(c)' = Way(c)
    BY <1>5, StreamWay DEF Take, StreamStep
  <2>2. \A d \in Client : d # c => Way(d)' = Way(d)
    BY <1>5 DEF Take, IInv, TypeOK, Way
  <2> QED BY <1>1, <2>1, <2>2, Unnoticed
<1>6. CASE Write(c)
  BY <1>6, WriteFeeds
<1>7. CASE Close(c)
  <2>1. /\ sse[c] \in {"replay", "live"} /\ sse' = [sse EXCEPT ![c] = "closed"]
        /\ UNCHANGED <<buf, got>>
    BY <1>7 DEF Close
  <2>2. \A d \in Client : d # c => Way(d)' = Way(d)
    BY <1>7 DEF Close, IInv, TypeOK, Way
  <2>3. Stream' = [Stream EXCEPT ![c] = got[c]]
    BY <2>1, <2>2 DEF Stream, IInv, TypeOK
  <2>4. F!Leave(c)
    BY <1>2, <2>1, <2>3 DEF F!Leave, Owing, Stream
  <2> QED BY <2>4 DEF F!Next
<1>8. CASE Stall(c)
  BY <1>1, <1>8, Unnoticed DEF Stall, Way
<1> QED BY <1>3, <1>4, <1>5, <1>6, <1>7, <1>8 DEF StreamStep

\* The bus is one stream without a bound for each page: no line that was logged
\* while the page followed is lost between the snapshot of the subscribers, the
\* full queues and the record in hand, whatever the other pages do.
THEOREM Refinement == Spec => ImplementsFeed
<1>1. Init => F!Init
  <2> SUFFICES ASSUME Init PROVE F!Init
    OBVIOUS
  <2>1. Owing = {}
    BY DEF Init, Owing, Owed
  <2>2. Stream = [c \in Client |-> <<>>]
    <3>1. \A c \in Client : Way(c) = <<>> \o <<>> \o <<>> \o <<>>
      BY DEF Init, Way
    <3>2. \A c \in Client : Way(c) = <<>>
      BY <3>1
    <3> QED BY <3>2 DEF Init, Stream
  <2> QED BY <2>1, <2>2 DEF Init, F!Init, Owing, Stream
<1>2. IInv /\ [Next]_vars => [F!Next]_(F!vars)
  <2> SUFFICES ASSUME IInv, [Next]_vars PROVE [F!Next]_(F!vars)
    OBVIOUS
  <2>1. CASE UNCHANGED vars
    <3>1. \A c \in Client : Way(c)' = Way(c)
      BY <2>1 DEF vars, streams, Way
    <3>2. \A e \in Emitter : Owed(e)' = Owed(e)
      BY <2>1 DEF vars, emitters, Owed, LineOf
    <3> QED BY <2>1, <3>1, <3>2, Unnoticed DEF vars, streams
  <2>2. ASSUME NEW e \in Emitter, Asked(e) \/ Serve(e) \/ EmitterStep(e)
        PROVE  [F!Next]_(F!vars)
    BY <2>2, EmitterFeeds
  <2>3. ASSUME NEW c \in Client, Open(c) \/ StreamStep(c) \/ Close(c) \/ Stall(c)
        PROVE  [F!Next]_(F!vars)
    BY <2>3, StreamFeeds
  <2> QED BY <2>1, <2>2, <2>3 DEF Next
<1> QED BY <1>1, <1>2, Invariant, PTL DEF Spec, ImplementsFeed, F!Spec

=============================================================================
