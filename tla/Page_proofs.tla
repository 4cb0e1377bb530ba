----------------------------- MODULE Page_proofs -----------------------------
(* Proofs about Page: the invariant is IInv of that module. *)
EXTENDS Page, SequenceTheorems, TLAPS

\* A list of steps and what is left of it after the first.
LEMMA Rest ==
  ASSUME NEW S, NEW s \in Seq(S), s # <<>>
  PROVE  /\ Head(s) = s[1] /\ 1 \in DOMAIN s /\ Head(s) \in S
         /\ Tail(s) \in Seq(S) /\ Len(Tail(s)) = Len(s) - 1
         /\ \A i \in DOMAIN Tail(s) :
              /\ i \in Nat \ {0} /\ i + 1 \in DOMAIN s
              /\ Tail(s)[i] = s[i + 1]
OBVIOUS

\* What a status is read as is one, and true when the host is in order.
LEMMA Read ==
  ASSUME TypeOK, NEW active \in BOOLEAN
  PROVE  /\ Snapshot(active) \in Status
         /\ PinnedBehindRules => Snapshot(active).held
         /\ Seen(active) \in Status /\ Seen(active).held
         /\ NoStatus \in Status /\ NoStatus.held
BY DEF TypeOK, Snapshot, Status, Seen, NoStatus, PinnedBehindRules, Boot

\* An answer takes its place among the requests.
LEMMA Placed ==
  ASSUME IInv, NEW c \in Call, NEW s \in Status, s.held,
         NEW at \in {"idle", "sent", "half", "done", "refused"}, Becomes(c, at, s)
  PROVE  /\ call' \in [Call -> [at : {"idle", "sent", "half", "done", "refused"},
                                is : Status]]
         /\ call'[c].at = at /\ \A d \in Call : d # c => call'[d] = call[d]
         /\ \A d \in Call : call'[d].is.held
BY DEF IInv, TypeOK, TrueWhenRead, Becomes, Is

\* What is left to do of an operation whose first step is done.
LEMMA Shorter ==
  ASSUME IInv, op.todo # <<>>,
         Head(op.todo) = "arm" => armed',
         Head(op.todo) = "unpin" => (pinned' => stuck')
  PROVE  \A i \in DOMAIN Tail(op.todo) :
           /\ Tail(op.todo)[i] = "pin" => i = 1 /\ armed'
           /\ Tail(op.todo)[i] = "disarm" => i = 1 /\ (pinned' => stuck')
<1>1. op.todo \in Seq(Step)
  BY DEF IInv, TypeOK
<1> SUFFICES ASSUME NEW i \in DOMAIN Tail(op.todo)
             PROVE  /\ Tail(op.todo)[i] = "pin" => i = 1 /\ armed'
                    /\ Tail(op.todo)[i] = "disarm" => i = 1 /\ (pinned' => stuck')
  OBVIOUS
<1>2. /\ i \in Nat \ {0} /\ i + 1 \in DOMAIN op.todo
      /\ Tail(op.todo)[i] = op.todo[i + 1] /\ Head(op.todo) = op.todo[1]
  BY <1>1, Rest
<1>3. i + 1 # 1 /\ (i + 1 = 2 => i = 1)
  BY <1>2
<1> QED BY <1>2, <1>3 DEF IInv, StepsInOrder

\* Two steps and what comes after them.
LEMMA TwoSteps ==
  ASSUME NEW S, NEW s \in Seq(S), NEW t \in Seq(S), Len(s) = 2
  PROVE  /\ s \o t \in Seq(S) /\ Len(t) \in Nat /\ DOMAIN (s \o t) = 1..(2 + Len(t))
         /\ \A i \in 1..(2 + Len(t)) :
              (s \o t)[i] = IF i <= 2 THEN s[i] ELSE t[i - 2]
<1>1. Len(s \o t) = 2 + Len(t) /\ s \o t \in Seq(S) /\ Len(t) \in Nat
  BY ConcatProperties, SMTT(30)
<1> QED BY <1>1, ConcatProperties

\* The lists that operations begin with and fall back to.
LEMMA Lists ==
  /\ \A does, who : Steps(does) \o Report(who) \in Seq(Step)
  /\ \A does, who : \A i \in DOMAIN (Steps(does) \o Report(who)) :
       /\ (Steps(does) \o Report(who))[i] = "pin"
            => i = 2 /\ (Steps(does) \o Report(who))[1] = "arm"
       /\ (Steps(does) \o Report(who))[i] = "disarm"
            => i = 2 /\ (Steps(does) \o Report(who))[1] = "unpin"
  /\ <<"unpin">> \in Seq(Step) /\ <<"unpin", "disarm">> \in Seq(Step)
<1>1. <<"unpin">> \in Seq(Step) /\ <<"unpin", "disarm">> \in Seq(Step)
  BY DEF Step
<1>2. ASSUME NEW does, NEW who
      PROVE  /\ Steps(does) \o Report(who) \in Seq(Step)
             /\ \A i \in DOMAIN (Steps(does) \o Report(who)) :
                  /\ (Steps(does) \o Report(who))[i] = "pin"
                       => i = 2 /\ (Steps(does) \o Report(who))[1] = "arm"
                  /\ (Steps(does) \o Report(who))[i] = "disarm"
                       => i = 2 /\ (Steps(does) \o Report(who))[1] = "unpin"
  <2> DEFINE s == Steps(does)
             t == Report(who)
  <2>1. /\ s \in Seq(Step) /\ Len(s) = 2
        /\ \/ s[1] = "arm" /\ s[2] = "pin"
           \/ s[1] = "unpin" /\ s[2] = "disarm"
    <3>1. /\ <<"arm", "pin">> \in Seq(Step) /\ <<"unpin", "disarm">> \in Seq(Step)
          /\ Len(<<"arm", "pin">>) = 2 /\ Len(<<"unpin", "disarm">>) = 2
      BY DEF Step
    <3>2. CASE does = "connect"
      BY <3>1, <3>2 DEF Steps
    <3>3. CASE does # "connect"
      BY <3>1, <3>3 DEF Steps
    <3> QED BY <3>2, <3>3
  <2>2. t \in Seq(Step) /\ \A i \in 1..Len(t) : t[i] \in {"rules", "nameserver"}
    <3>1. /\ <<"rules", "nameserver">> \in Seq(Step) /\ <<>> \in Seq(Step)
          /\ Len(<<"rules", "nameserver">>) = 2
      BY DEF Step
    <3>2. CASE who = "page"
      <4>1. \A i \in 1..2 : <<"rules", "nameserver">>[i] \in {"rules", "nameserver"}
        OBVIOUS
      <4> QED BY <3>1, <3>2, <4>1 DEF Report
    <3>3. CASE who # "page"
      BY <3>1, <3>3 DEF Report
    <3> QED BY <3>2, <3>3
  <2> HIDE DEF s, t
  <2>3. /\ s \o t \in Seq(Step) /\ Len(t) \in Nat /\ DOMAIN (s \o t) = 1..(2 + Len(t))
        /\ \A i \in 1..(2 + Len(t)) :
             (s \o t)[i] = IF i <= 2 THEN s[i] ELSE t[i - 2]
    BY <2>1, <2>2, TwoSteps
  <2>4. ASSUME NEW i \in 1..(2 + Len(t)), i > 2
        PROVE  (s \o t)[i] \in {"rules", "nameserver"}
    BY <2>2, <2>3, <2>4
  <2>5. (s \o t)[1] = s[1] /\ (s \o t)[2] = s[2]
    BY <2>3
  <2>6. \A i \in 1..(2 + Len(t)) : i = 1 \/ i = 2 \/ i > 2
    BY <2>3
  <2>7. \A i \in DOMAIN (s \o t) :
          /\ (s \o t)[i] = "pin" => i = 2 /\ (s \o t)[1] = "arm"
          /\ (s \o t)[i] = "disarm" => i = 2 /\ (s \o t)[1] = "unpin"
    BY <2>1, <2>3, <2>4, <2>5, <2>6
  <2> QED BY <2>3, <2>7 DEF s, t
<1> QED BY <1>1, <1>2

\* Nothing is under way, and the host is connected or not.
LEMMA InitInv == Init => IInv
<1> SUFFICES ASSUME Init PROVE IInv
  OBVIOUS
<1>1. NoStatus \in Status /\ NoStatus.held
  BY DEF NoStatus, Status, Boot
<1>2. TypeOK
  <2>1. op \in [who : {"nobody", "page", "other"}, todo : Seq(Step),
               raised : BOOLEAN, active : BOOLEAN]
    BY DEF Init, NoOp
  <2>2. call \in [Call -> [at : {"idle", "sent", "half", "done", "refused"}, is : Status]]
        /\ call["click"].at = "idle"
    BY <1>1 DEF Init, Nowhere, Is, Call
  <2>3. stream \in Seq(Status) /\ Len(stream) <= MaxBuffer /\ checks \in 0..MaxChecks
    BY PageAssumption DEF Init
  <2> QED BY <1>1, <2>1, <2>2, <2>3 DEF Init, TypeOK
<1>3. PinnedBehindRules /\ StepsInOrder /\ ClickWaits
  BY DEF Init, PinnedBehindRules, StepsInOrder, ClickWaits, NoOp
<1>5. RoomToSend
  BY PageAssumption DEF Init, RoomToSend
<1>4. TrueWhenRead
  BY <1>1 DEF Init, TrueWhenRead, Nowhere, Is
<1> QED BY <1>2, <1>3, <1>4, <1>5 DEF IInv

-----------------------------------------------------------------------------
(* Operations *)

\* One begins when none runs.
LEMMA BeginsInv ==
  ASSUME IInv, NEW who \in {"page", "other"}, NEW does, Begins(who, does),
         UNCHANGED call, who = "page" => call["click"].at = "sent"
  PROVE  IInv'
<1> DEFINE todo == Steps(does) \o Report(who)
<1>1. /\ todo \in Seq(Step)
      /\ \A i \in DOMAIN todo : /\ todo[i] = "pin" => i = 2 /\ todo[1] = "arm"
                                /\ todo[i] = "disarm" => i = 2 /\ todo[1] = "unpin"
  BY Lists
<1> HIDE DEF todo
<1>2. /\ op' = [NoOp EXCEPT !.who = who, !.todo = todo]
      /\ UNCHANGED <<armed, pinned, stuck, boot, stream, page>>
  BY DEF Begins, todo
<1>3. TypeOK'
  BY <1>1, <1>2 DEF IInv, TypeOK, NoOp, page
<1>4. PinnedBehindRules' /\ StepsInOrder' /\ ClickWaits'
  BY <1>1, <1>2 DEF IInv, PinnedBehindRules, StepsInOrder, ClickWaits, NoOp
<1>5. RoomToSend' /\ TrueWhenRead'
  BY <1>2 DEF IInv, RoomToSend, TrueWhenRead, page
<1> QED BY <1>3, <1>4, <1>5 DEF IInv

\* A step of connect, disconnect or a rollback: the rules stay until the
\* resolver is given back.
LEMMA HostInv ==
  ASSUME IInv, Arm \/ Pin \/ Unpin \/ Disarm \/ ReadsRules
  PROVE  IInv'
<1>1. op.todo # <<>> /\ Inside
  BY DEF Arm, Pin, Unpin, Disarm, ReadsRules, At
<1>2. /\ op.todo \in Seq(Step) /\ Tail(op.todo) \in Seq(Step)
      /\ Head(op.todo) = op.todo[1] /\ 1 \in DOMAIN op.todo
  BY <1>1, Rest DEF IInv, TypeOK
<1>3. /\ armed' \in BOOLEAN /\ pinned' \in BOOLEAN /\ stuck' \in BOOLEAN
      /\ PinnedBehindRules'
      /\ Head(op.todo) = "arm" => armed' \/ op'.todo = <<"unpin">>
      /\ Head(op.todo) = "unpin" => (pinned' => stuck')
  <2> USE <1>2 DEF At, IInv, TypeOK, PinnedBehindRules, StepsInOrder
  <2>1. CASE Arm
    <3>1. CASE armed' = TRUE
      BY <2>1, <3>1 DEF Arm
    <3>2. CASE RollsBack(<<"unpin">>) /\ UNCHANGED armed
      BY <2>1, <3>2 DEF Arm, RollsBack
    <3> QED BY <2>1, <3>1, <3>2 DEF Arm
  <2>2. CASE Pin
    BY <2>2 DEF Pin
  <2>3. CASE Unpin
    <3>1. CASE pinned' = FALSE /\ stuck' = FALSE
      BY <2>3, <3>1 DEF Unpin
    <3>2. CASE stuck' = pinned /\ UNCHANGED pinned
      BY <2>3, <3>2 DEF Unpin
    <3> QED BY <2>3, <3>1, <3>2 DEF Unpin
  <2>4. CASE Disarm
    BY <2>4 DEF Disarm
  <2>5. CASE ReadsRules
    BY <2>5 DEF ReadsRules
  <2> QED BY <2>1, <2>2, <2>3, <2>4, <2>5
<1>4. /\ op' \in [who : {"nobody", "page", "other"}, todo : Seq(Step),
                  raised : BOOLEAN, active : BOOLEAN]
      /\ op'.who = op.who
      /\ op'.todo \in {Tail(op.todo), <<"unpin">>, <<"unpin", "disarm">>}
  BY <1>2, Lists DEF Arm, Pin, Unpin, Disarm, ReadsRules, Done, RollsBack, IInv, TypeOK
<1>5. TypeOK'
  BY <1>1, <1>3, <1>4 DEF Inside, IInv, TypeOK, page
<1>6. StepsInOrder'
  <2>1. CASE op'.todo = Tail(op.todo) /\ op'.todo # <<"unpin">>
    BY <1>1, <1>3, <2>1, Shorter DEF StepsInOrder
  <2>2. CASE op'.todo \in {<<"unpin">>, <<"unpin", "disarm">>}
    BY <2>2 DEF StepsInOrder
  <2> QED BY <1>4, <2>1, <2>2
<1>7. ClickWaits' /\ RoomToSend' /\ TrueWhenRead'
  BY <1>1, <1>4 DEF Inside, IInv, ClickWaits, RoomToSend, TrueWhenRead, page
<1> QED BY <1>3, <1>5, <1>6, <1>7 DEF IInv

\* The status at its end is read when the host is in order.
LEMMA EndsInv == ASSUME IInv, Ends PROVE IInv'
<1>1. /\ op' = NoOp /\ UNCHANGED <<armed, pinned, stuck, boot, events, stream, page>>
  BY DEF Ends
<1>2. /\ Snapshot(op.active) \in Status /\ Snapshot(op.active).held
      /\ "click" \in Call /\ "stream" \in Call /\ "stream" # "click"
  BY Read DEF IInv, TypeOK, Call
<1>3. /\ call' \in [Call -> [at : {"idle", "sent", "half", "done", "refused"}, is : Status]]
      /\ \A d \in Call : call'[d].is.held
      /\ call'["click"].at = "idle" <=> call["click"].at = "idle"
      /\ call'["stream"] = call["stream"]
  <2>1. CASE op.who = "page"
    <3>1. PICK at \in {"done", "refused"} : Becomes("click", at, Snapshot(op.active))
      BY <2>1 DEF Ends
    <3>2. call["click"].at = "sent"
      BY <2>1 DEF IInv, ClickWaits
    <3> QED BY <1>2, <3>1, <3>2, Placed
  <2>2. CASE op.who # "page"
    BY <2>2 DEF Ends, IInv, TypeOK, TrueWhenRead
  <2> QED BY <2>1, <2>2
<1>4. TypeOK'
  BY <1>1, <1>3 DEF IInv, TypeOK, NoOp, page
<1>5. PinnedBehindRules' /\ StepsInOrder' /\ ClickWaits'
  BY <1>1 DEF IInv, PinnedBehindRules, StepsInOrder, ClickWaits, NoOp
<1>6. RoomToSend' /\ TrueWhenRead'
  BY <1>1, <1>3 DEF IInv, RoomToSend, TrueWhenRead, page
<1> QED BY <1>4, <1>5, <1>6 DEF IInv

-----------------------------------------------------------------------------
(* Requests, the stream, and the page *)

\* A step that leaves the operations alone.
LEMMA Beside ==
  ASSUME IInv, UNCHANGED <<armed, pinned, stuck, op>>,
         op.who = "page" => call'["click"].at = "sent"
  PROVE  PinnedBehindRules' /\ StepsInOrder' /\ ClickWaits'
BY DEF IInv, PinnedBehindRules, StepsInOrder, ClickWaits

LEMMA BootInv == ASSUME IInv, Bootstraps PROVE IInv'
<1>1. TypeOK' /\ RoomToSend' /\ TrueWhenRead'
  BY DEF Bootstraps, IInv, TypeOK, RoomToSend, TrueWhenRead, page, Boot
<1> QED BY <1>1, Beside DEF Bootstraps, IInv, ClickWaits

\* status() for a GET: half of it at a time.
LEMMA AnswersInv ==
  ASSUME IInv, NEW c \in Call, Reads(c) \/ Answers(c)
  PROVE  IInv'
<1>1. call[c].is.active \in BOOLEAN /\ armed \in BOOLEAN
  BY DEF IInv, TypeOK, Status
<1>2. PICK at \in {"half", "done"}, s \in Status :
        s.held /\ Becomes(c, at, s)
  BY <1>1, Read DEF Reads, Answers, IInv
<1>3. c # "click" /\ c # "stream" /\ UNCHANGED <<host, events, stream, page>>
  BY DEF Reads, Answers
<1>4. /\ call' \in [Call -> [at : {"idle", "sent", "half", "done", "refused"}, is : Status]]
      /\ \A d \in Call : call'[d].is.held
      /\ call'["click"] = call["click"] /\ call'["stream"] = call["stream"]
  <2>1. "click" \in Call /\ "stream" \in Call
    BY DEF Call
  <2> QED BY <1>2, <1>3, <2>1, Placed
<1>5. TypeOK' /\ RoomToSend' /\ TrueWhenRead'
  BY <1>3, <1>4 DEF IInv, TypeOK, RoomToSend, TrueWhenRead, host, page
<1> QED BY <1>3, <1>4, <1>5, Beside DEF IInv, ClickWaits, host

\* What the stream sends was read as any other status is.
LEMMA StreamInv ==
  ASSUME IInv, StreamTells \/ StreamSends \/ Drops
  PROVE  IInv'
<1>1. /\ call["stream"].is.active \in BOOLEAN /\ armed \in BOOLEAN
      /\ "stream" \in Call /\ "stream" # "click" /\ "click" \in Call
  BY DEF IInv, TypeOK, Status, Call
<1>2. PICK at \in {"half", "idle"}, s \in Status :
        s.held /\ Becomes("stream", at, s) /\ (at = "half" => StreamTells)
  BY <1>1, Read DEF StreamTells, StreamSends, Drops, IInv
<1>3. UNCHANGED <<host, page>>
  BY DEF StreamTells, StreamSends, Drops
<1>4. /\ call' \in [Call -> [at : {"idle", "sent", "half", "done", "refused"}, is : Status]]
      /\ \A d \in Call : call'[d].is.held
      /\ call'["stream"].at = at /\ call'["click"] = call["click"]
  BY <1>1, <1>2, Placed
<1>5. /\ stream' \in Seq(Status) /\ Len(stream') <= MaxBuffer
      /\ \A i \in DOMAIN stream' : stream'[i].held
  <2>1. CASE StreamTells
    BY <2>1 DEF StreamTells, IInv, TypeOK, TrueWhenRead
  <2>2. CASE Drops
    BY <2>2, PageAssumption DEF Drops
  <2>3. CASE StreamSends
    <3>1. PICK sent \in Status : sent.held /\ stream' = Append(stream, sent)
      BY <1>1, <2>3, Read DEF StreamSends, IInv
    <3>2. stream \in Seq(Status) /\ Len(stream) < MaxBuffer /\ MaxBuffer \in Nat
      BY <2>3, PageAssumption DEF StreamSends, IInv, TypeOK, RoomToSend
    <3>3. \A i \in DOMAIN stream : stream[i].held
      BY DEF IInv, TrueWhenRead
    <3> QED BY <3>1, <3>2, <3>3
  <2> QED BY <2>1, <2>2, <2>3
<1>6. TypeOK' /\ TrueWhenRead'
  BY <1>3, <1>4, <1>5 DEF IInv, TypeOK, TrueWhenRead, host, page
<1>7. RoomToSend'
  BY <1>2, <1>4 DEF StreamTells, RoomToSend
<1> QED BY <1>3, <1>4, <1>6, <1>7, Beside DEF IInv, ClickWaits, host

\* However many exit checks begin, no more than the bound are in flight.
LEMMA Checks ==
  ASSUME TypeOK, NEW n \in Nat, Checking(n)
  PROVE  checks' \in 0..MaxChecks
BY PageAssumption DEF TypeOK, Checking

\* The page renders a status it was sent.
LEMMA RenderInv ==
  ASSUME IInv, NEW s \in Status, s.held, NEW exit \in Exit \union {"none"}, NEW n \in Nat,
         Render(s, exit, n)
  PROVE  /\ shown' \in Status /\ shown'.held /\ lastExit' \in Exit \union {"none"}
         /\ checks' \in 0..MaxChecks
<1>1. n + One(s.active /\ exit = "none") \in Nat
  BY DEF One
<1> QED BY <1>1, Checks DEF IInv, Render

\* The page takes the answer to a request of its own, or learns that it failed.
LEMMA TakenInv ==
  ASSUME IInv, NEW c \in Call \ {"stream"}, NEW at \in {"idle", "sent"}, NEW s \in Status,
         s.held, Becomes(c, at, s), UNCHANGED <<host, stream>>,
         c = "click" => at = "idle" /\ busy' = FALSE /\ op.who # "page",
         c # "click" => UNCHANGED busy,
         shown' \in Status, shown'.held, lastExit' \in Exit \union {"none"},
         checks' \in 0..MaxChecks
  PROVE  IInv'
<1>1. "click" \in Call /\ "stream" \in Call
  BY DEF Call
<1>2. /\ call' \in [Call -> [at : {"idle", "sent", "half", "done", "refused"}, is : Status]]
      /\ \A d \in Call : call'[d].is.held
      /\ call'[c].at = at /\ \A d \in Call : d # c => call'[d] = call[d]
  BY Placed
<1>3. TypeOK'
  BY <1>1, <1>2 DEF IInv, TypeOK, host
<1>4. RoomToSend' /\ TrueWhenRead'
  BY <1>1, <1>2 DEF IInv, RoomToSend, TrueWhenRead
<1> QED BY <1>1, <1>2, <1>3, <1>4, Beside DEF IInv, ClickWaits, host

LEMMA FirstInv == ASSUME IInv, FirstAnswered \/ FirstFails PROVE IInv'
<1>1. /\ "first" \in Call \ {"stream"} /\ "first" # "click"
      /\ call["first"].is \in Status /\ call["first"].is.held
      /\ NoStatus \in Status /\ NoStatus.held
  BY Read DEF IInv, TypeOK, TrueWhenRead, Call
<1>2. /\ Becomes("first", "idle", NoStatus) /\ UNCHANGED <<host, stream, busy>>
  BY DEF FirstAnswered, FirstFails
<1>3. /\ shown' \in Status /\ shown'.held /\ lastExit' \in Exit \union {"none"}
      /\ checks' \in 0..MaxChecks
  <2>1. CASE FirstAnswered
    <3>1. One(call["first"].is.active) \in Nat /\ lastExit \in Exit \union {"none"}
      BY DEF One, IInv, TypeOK
    <3> QED BY <1>1, <2>1, <3>1, RenderInv DEF FirstAnswered
  <2>2. CASE FirstFails
    BY <2>2 DEF FirstFails, IInv, TypeOK, TrueWhenRead
  <2> QED BY <2>1, <2>2
<1> QED BY <1>1, <1>2, <1>3, TakenInv

LEMMA PollInv == ASSUME IInv, NEW p \in Poll, PollBegins(p) \/ PollAnswered(p) PROVE IInv'
<1>1. /\ p \in Call \ {"stream"} /\ p # "click"
      /\ call[p].is \in Status /\ call[p].is.held
      /\ NoStatus \in Status /\ NoStatus.held
  BY Read, PageAssumption DEF IInv, TypeOK, TrueWhenRead, Call
<1>2. PICK at \in {"idle", "sent"} :
        Becomes(p, at, NoStatus) /\ UNCHANGED <<host, stream, busy>>
  BY DEF PollBegins, PollAnswered, page
<1>3. /\ shown' \in Status /\ shown'.held /\ lastExit' \in Exit \union {"none"}
      /\ checks' \in 0..MaxChecks
  <2>1. CASE PollAnswered(p)
    <3>1. 0 \in Nat /\ lastExit \in Exit \union {"none"}
      BY DEF IInv, TypeOK
    <3> QED BY <1>1, <2>1, <3>1, RenderInv DEF PollAnswered
  <2>2. CASE PollBegins(p)
    BY <2>2 DEF PollBegins, IInv, TypeOK, TrueWhenRead, page
  <2> QED BY <2>1, <2>2
<1> QED BY <1>1, <1>2, <1>3, TakenInv

\* An answer to the button comes when its operation has ended.
LEMMA ClickedInv == ASSUME IInv, ClickAnswered \/ ClickRefused PROVE IInv'
<1>1. /\ "click" \in Call \ {"stream"} /\ op.who # "page"
      /\ call["click"].is \in Status /\ call["click"].is.held
      /\ NoStatus \in Status /\ NoStatus.held
  BY Read DEF IInv, TypeOK, TrueWhenRead, ClickWaits, Call, ClickAnswered, ClickRefused
<1>2. /\ Becomes("click", "idle", NoStatus) /\ busy' = FALSE /\ UNCHANGED <<host, stream>>
  BY DEF ClickAnswered, ClickRefused
<1>3. /\ shown' \in Status /\ shown'.held /\ lastExit' \in Exit \union {"none"}
      /\ checks' \in 0..MaxChecks
  <2>1. CASE ClickAnswered
    <3> DEFINE s == call["click"].is
               exit == IF s.active THEN lastExit ELSE "none"
    <3>1. One(s.active) \in Nat /\ exit \in Exit \union {"none"}
      BY DEF One, IInv, TypeOK
    <3>2. Render(s, exit, One(s.active))
      BY <2>1 DEF ClickAnswered
    <3> HIDE DEF exit
    <3> QED BY <1>1, <3>1, <3>2, RenderInv
  <2>2. CASE ClickRefused
    BY <2>2 DEF ClickRefused, IInv, TypeOK, TrueWhenRead
  <2> QED BY <2>1, <2>2
<1> QED BY <1>1, <1>2, <1>3, TakenInv

\* The button is pressed when no request of it is on its way.
LEMMA ClickInv == ASSUME IInv, Click PROVE IInv'
<1>1. /\ "click" \in Call /\ "stream" \in Call /\ "stream" # "click"
      /\ Seen(shown.active) \in Status /\ Seen(shown.active).held
  <2>1. shown.active \in BOOLEAN
    BY DEF IInv, TypeOK, Status
  <2> QED BY <2>1, Read DEF IInv, Call
<1>2. /\ Becomes("click", "sent", Seen(shown.active)) /\ busy' = TRUE
      /\ UNCHANGED <<armed, pinned, stuck, boot, op, stream, shown, lastExit, checks>>
  BY DEF Click
<1>3. /\ call' \in [Call -> [at : {"idle", "sent", "half", "done", "refused"}, is : Status]]
      /\ \A d \in Call : call'[d].is.held
      /\ call'["click"].at = "sent" /\ call'["stream"] = call["stream"]
  BY <1>1, <1>2, Placed
<1>4. TypeOK' /\ RoomToSend' /\ TrueWhenRead'
  BY <1>2, <1>3 DEF IInv, TypeOK, RoomToSend, TrueWhenRead
<1> QED BY <1>2, <1>3, <1>4, Beside DEF IInv

\* The stream delivers, an exit check is answered, a new one begins: nothing is
\* asked of the daemon.
LEMMA RestInv == ASSUME IInv, StreamDelivers \/ NewIdentity \/ ExitAnswered PROVE IInv'
<1>1. UNCHANGED <<host, call, busy>>
  BY DEF StreamDelivers, NewIdentity, ExitAnswered
<1>2. /\ stream' \in Seq(Status) /\ Len(stream') <= Len(stream)
      /\ \A i \in DOMAIN stream' : stream'[i].held
  <2>1. stream \in Seq(Status) /\ \A i \in DOMAIN stream : stream[i].held
    BY DEF IInv, TypeOK, TrueWhenRead
  <2>2. CASE stream' = stream
    BY <2>1, <2>2
  <2>3. CASE stream # <<>> /\ stream' = Tail(stream)
    BY <2>1, <2>3, Rest
  <2> QED BY <2>2, <2>3 DEF StreamDelivers, NewIdentity, ExitAnswered
<1>3. /\ shown' \in Status /\ shown'.held /\ lastExit' \in Exit \union {"none"}
      /\ checks' \in 0..MaxChecks
  <2>1. CASE StreamDelivers
    <3>1. Head(stream) \in Status /\ Head(stream).held /\ lastExit \in Exit \union {"none"}
      BY <2>1, Rest DEF StreamDelivers, IInv, TypeOK, TrueWhenRead
    <3> QED BY <2>1, <3>1, RenderInv DEF StreamDelivers
  <2>2. CASE NewIdentity
    BY <2>2, Checks DEF NewIdentity, IInv, TypeOK, TrueWhenRead
  <2>3. CASE ExitAnswered
    BY <2>3, PageAssumption DEF ExitAnswered, IInv, TypeOK, TrueWhenRead
  <2> QED BY <2>1, <2>2, <2>3
<1>4. TypeOK'
  BY <1>1, <1>2, <1>3, PageAssumption DEF IInv, TypeOK, host
<1>5. RoomToSend' /\ TrueWhenRead'
  BY <1>1, <1>2, <1>3, PageAssumption DEF IInv, TypeOK, RoomToSend, TrueWhenRead
<1> QED BY <1>1, <1>4, <1>5, Beside DEF IInv, ClickWaits, host

LEMMA NextInv == IInv /\ [Next]_vars => IInv'
<1> SUFFICES ASSUME IInv, [Next]_vars PROVE IInv'
  OBVIOUS
<1>1. CASE OtherBegins \/ ClickBegins
  BY <1>1, BeginsInv DEF OtherBegins, ClickBegins
<1>2. CASE Operating
  BY <1>2, HostInv, EndsInv DEF Operating
<1>3. CASE UNCHANGED vars
  <2>1. TypeOK' /\ RoomToSend' /\ TrueWhenRead'
    BY <1>3 DEF vars, host, page, IInv, TypeOK, RoomToSend, TrueWhenRead
  <2> QED BY <1>3, <2>1, Beside DEF vars, host, IInv, ClickWaits
<1> QED BY <1>1, <1>2, <1>3, BootInv, AnswersInv, StreamInv, FirstInv, PollInv,
           ClickedInv, ClickInv, RestInv DEF Next

\* The invariant holds whatever fails, for any number of polls, operations and
\* exit checks, and statuses of the stream in flight.
THEOREM Invariant == Spec => []IInv
BY InitInv, NextInv, PTL DEF Spec

\* The button is busy exactly while its request is on its way.
THEOREM TypeCorrect == Spec => []TypeOK
<1>1. IInv => TypeOK
  BY DEF IInv
<1> QED BY <1>1, Invariant, PTL

\* A page that shows the killswitch on and the DNS via Tor shows what was true
\* at an instant of the status() it got.
THEOREM RoutedTrue == Spec => []RoutedWasTrue
<1>1. IInv => RoutedWasTrue
  BY DEF IInv, TrueWhenRead, RoutedWasTrue
<1> QED BY <1>1, Invariant, PTL

=============================================================================
