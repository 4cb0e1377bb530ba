------------------------------- MODULE LogBus -------------------------------
(***************************************************************************)
(* The log bus of the daemon (_LogBus in backend/torando_gui/app.py) with  *)
(* its two kinds of users: operations of App that log while they hold      *)
(* _oplock, requests that log one line without it (log_message in          *)
(* server.py), and the Server-Sent-Events connections that replay the ring *)
(* buffer and then follow the bus (App.events, _serve_events).             *)
(*                                                                         *)
(* emit puts the record into one bounded queue per subscriber, outside the *)
(* lock of the bus, and waits while a queue is full.  A client may stop    *)
(* reading, or go away; the handler notices only when it writes.           *)
(*                                                                         *)
(* A connection is used once: a page that reconnects is another member of  *)
(* Client, as it is another queue in the code.                             *)
(***************************************************************************)
EXTENDS Naturals, Sequences, SequencesExt

CONSTANTS
  Operation,  \* threads that run connect or disconnect
  Request,    \* threads that serve any other request
  Client,     \* connections to /api/events
  NoOne,
  Lines,      \* how many lines an operation logs
  RingSize,   \* capacity of the ring buffer (500)
  QueueSize,  \* capacity of the queue of a subscriber (256)
  MayStall,   \* clients may stop reading for ever
  MayLeave    \* clients may go away

ASSUME LogBusAssumption ==
  /\ Operation \intersect Request = {} /\ NoOne \notin Operation
  /\ Lines \in Nat \ {0} /\ RingSize \in Nat \ {0} /\ QueueSize \in Nat \ {0}
  /\ MayStall \in BOOLEAN /\ MayLeave \in BOOLEAN

VARIABLES
  buf,        \* the ring buffer
  subs,       \* the subscribers
  queue,      \* the queue of each connection
  oplock,     \* _oplock of App
  at,         \* where each emitter is
  left,       \* how many lines it has still to log
  pending,    \* the queues of the snapshot it has still to put into
  sse,        \* where each connection is
  replay,     \* the snapshot of the ring it is replaying
  hand,       \* the record it took and has not written yet
  got,        \* what its client has received
  reading     \* its client reads what is written

emitters == <<oplock, at, left, pending>>
streams  == <<sse, replay, hand, got, reading>>
vars     == <<buf, subs, queue, emitters, streams>>

Emitter == Operation \union Request

\* The k-th line of an emitter, counted down: unique in a behaviour.
Record == [from : Emitter, left : 0..Lines]
LineOf(e) == [from |-> e, left |-> left[e]]

\* Mutant: a list without a bound.
KeptForEver(s) == s

\* deque(maxlen=RingSize)
Kept(s) == IF Len(s) > RingSize THEN Tail(s) ELSE s

-----------------------------------------------------------------------------
(* Emitters *)

\* A request for an operation arrives; it waits for the lock.
Asked(e) ==
  /\ e \in Operation /\ at[e] = "new"
  /\ at' = [at EXCEPT ![e] = "asked"]
  /\ UNCHANGED <<buf, subs, queue, oplock, left, pending, streams>>

Enter(e) ==
  /\ at[e] = "asked" /\ oplock = NoOne
  /\ oplock' = e
  /\ at' = [at EXCEPT ![e] = "log"]
  /\ UNCHANGED <<buf, subs, queue, left, pending, streams>>

Serve(e) ==
  /\ e \in Request /\ at[e] = "new"
  /\ at' = [at EXCEPT ![e] = "log"]
  /\ UNCHANGED <<buf, subs, queue, oplock, left, pending, streams>>

\* Mutant: appendleft for append.
EmitInFront(e) ==
  /\ at[e] = "log"
  /\ buf' = Kept(<<LineOf(e)>> \o buf)
  /\ pending' = [pending EXCEPT ![e] = subs]
  /\ at' = [at EXCEPT ![e] = "put"]
  /\ UNCHANGED <<subs, queue, oplock, left, streams>>

\* emit, under the lock of the bus: the ring and a snapshot of the subscribers.
Emit(e) ==
  /\ at[e] = "log"
  /\ buf' = Kept(Append(buf, LineOf(e)))
  /\ pending' = [pending EXCEPT ![e] = subs]
  /\ at' = [at EXCEPT ![e] = "put"]
  /\ UNCHANGED <<subs, queue, oplock, left, streams>>

\* Mutant: put_nowait, whose Full is ignored.
PutOrDrop(e) ==
  /\ at[e] = "put"
  /\ \E c \in pending[e] :
       /\ queue' = IF Len(queue[c]) < QueueSize
                   THEN [queue EXCEPT ![c] = Append(@, LineOf(e))] ELSE queue
       /\ pending' = [pending EXCEPT ![e] = @ \ {c}]
  /\ UNCHANGED <<buf, subs, oplock, at, left, streams>>

\* emit, outside of it: q.put(rec) waits for room.
Put(e) ==
  /\ at[e] = "put"
  /\ \E c \in pending[e] :
       /\ Len(queue[c]) < QueueSize
       /\ queue' = [queue EXCEPT ![c] = Append(@, LineOf(e))]
       /\ pending' = [pending EXCEPT ![e] = @ \ {c}]
  /\ UNCHANGED <<buf, subs, oplock, at, left, streams>>

\* Mutant: the operation ends without releasing _oplock.
EmittedLocked(e) ==
  /\ at[e] = "put" /\ pending[e] = {}
  /\ left' = [left EXCEPT ![e] = @ - 1]
  /\ at' = [at EXCEPT ![e] = IF left[e] = 1 THEN "done" ELSE "log"]
  /\ UNCHANGED <<buf, subs, queue, oplock, pending, streams>>

\* emit returns: the next line, or the end of the operation or the request.
Emitted(e) ==
  /\ at[e] = "put" /\ pending[e] = {}
  /\ left' = [left EXCEPT ![e] = @ - 1]
  /\ at' = [at EXCEPT ![e] = IF left[e] = 1 THEN "done" ELSE "log"]
  /\ oplock' = IF left[e] = 1 /\ oplock = e THEN NoOne ELSE oplock
  /\ UNCHANGED <<buf, subs, queue, pending, streams>>

-----------------------------------------------------------------------------
(* Connections *)

\* The replay: recent() is read once, when the stream starts.
Open(c) ==
  /\ sse[c] = "new"
  /\ sse' = [sse EXCEPT ![c] = "replay"]
  /\ replay' = [replay EXCEPT ![c] = buf]
  /\ UNCHANGED <<buf, subs, queue, emitters, hand, got, reading>>

\* Mutant: the queue of a new subscriber begins with the lines of the ring.
SubscribeWithHistory(c) ==
  /\ sse[c] = "replay" /\ replay[c] = <<>> /\ hand[c] = <<>>
  /\ sse' = [sse EXCEPT ![c] = "live"]
  /\ subs' = subs \union {c}
  /\ queue' = [queue EXCEPT ![c] = buf]
  /\ UNCHANGED <<buf, emitters, replay, hand, got, reading>>

\* Only then does it subscribe.
Subscribe(c) ==
  /\ sse[c] = "replay" /\ replay[c] = <<>> /\ hand[c] = <<>>
  /\ sse' = [sse EXCEPT ![c] = "live"]
  /\ subs' = subs \union {c}
  /\ UNCHANGED <<buf, queue, emitters, replay, hand, got, reading>>

Take(c) ==
  /\ hand[c] = <<>>
  /\ \/ /\ sse[c] = "replay" /\ replay[c] # <<>>
        /\ hand' = [hand EXCEPT ![c] = <<Head(replay[c])>>]
        /\ replay' = [replay EXCEPT ![c] = Tail(@)]
        /\ UNCHANGED queue
     \/ /\ sse[c] = "live" /\ queue[c] # <<>>
        /\ hand' = [hand EXCEPT ![c] = <<Head(queue[c])>>]
        /\ queue' = [queue EXCEPT ![c] = Tail(@)]
        /\ UNCHANGED replay
  /\ UNCHANGED <<buf, subs, emitters, sse, got, reading>>

\* wfile.write waits while the client does not read.
Write(c) ==
  /\ hand[c] # <<>> /\ reading[c]
  /\ got' = [got EXCEPT ![c] = @ \o hand[c]]
  /\ hand' = [hand EXCEPT ![c] = <<>>]
  /\ UNCHANGED <<buf, subs, queue, emitters, sse, replay, reading>>

\* The client is gone: a write (of a record, or of the status every two
\* seconds) fails, and the generator is closed and unsubscribes.
Close(c) ==
  /\ MayLeave /\ sse[c] \in {"replay", "live"}
  /\ sse' = [sse EXCEPT ![c] = "closed"]
  /\ subs' = subs \ {c}
  /\ replay' = [replay EXCEPT ![c] = <<>>]
  /\ hand' = [hand EXCEPT ![c] = <<>>]
  /\ UNCHANGED <<buf, queue, emitters, got, reading>>

Stall(c) ==
  /\ MayStall /\ reading[c]
  /\ sse[c] \in {"replay", "live"}
  /\ reading' = [reading EXCEPT ![c] = FALSE]
  /\ UNCHANGED <<buf, subs, queue, emitters, sse, replay, hand, got>>

-----------------------------------------------------------------------------

Init ==
  /\ buf = <<>> /\ subs = {} /\ oplock = NoOne
  /\ queue = [c \in Client |-> <<>>]
  /\ at = [e \in Emitter |-> "new"]
  /\ left = [e \in Emitter |-> IF e \in Operation THEN Lines ELSE 1]
  /\ pending = [e \in Emitter |-> {}]
  /\ sse = [c \in Client |-> "new"]
  /\ replay = [c \in Client |-> <<>>]
  /\ hand = [c \in Client |-> <<>>]
  /\ got = [c \in Client |-> <<>>]
  /\ reading = [c \in Client |-> TRUE]

EmitterStep(e) == Enter(e) \/ Emit(e) \/ Put(e) \/ Emitted(e)
StreamStep(c) == Subscribe(c) \/ Take(c) \/ Write(c)

Next ==
  \/ \E e \in Emitter : Asked(e) \/ Serve(e) \/ EmitterStep(e)
  \/ \E c \in Client : Open(c) \/ StreamStep(c) \/ Close(c) \/ Stall(c)

Spec == Init /\ [][Next]_vars

\* Threads run when they can; nobody has to ask, to connect or to leave.
FairSpec == /\ Spec
            /\ \A e \in Emitter : WF_vars(EmitterStep(e))
            /\ \A c \in Client : WF_vars(StreamStep(c))

-----------------------------------------------------------------------------
(* Properties *)

\* Every variable has its type; no ring or queue is over its capacity.
TypeOK ==
  /\ buf \in Seq(Record) /\ Len(buf) <= RingSize
  /\ subs \subseteq Client /\ oplock \in Operation \union {NoOne}
  /\ queue \in [Client -> Seq(Record)]
  /\ \A c \in Client : Len(queue[c]) <= QueueSize
  /\ at \in [Emitter -> {"new", "asked", "log", "put", "done"}]
  /\ left \in [Emitter -> 0..Lines]
  /\ pending \in [Emitter -> SUBSET Client]
  /\ sse \in [Client -> {"new", "replay", "live", "closed"}]
  /\ replay \in [Client -> Seq(Record)] /\ hand \in [Client -> Seq(Record)]
  /\ \A c \in Client : Len(hand[c]) <= 1
  /\ got \in [Client -> Seq(Record)] /\ reading \in [Client -> BOOLEAN]

\* What a page has received and will receive of the lines logged so far, in
\* that order: it comes from the ring first and from the live queue afterwards.
Way(c) == got[c] \o hand[c] \o replay[c] \o queue[c]

\* The lines of one emitter are in the order they were logged, and none is there
\* twice, wherever the change from the ring to the queue falls between the append
\* to the one and the put into the other.
LinesInOrder ==
  \A c \in Client : \A i, j \in DOMAIN Way(c) :
    i < j /\ Way(c)[i].from = Way(c)[j].from => Way(c)[i].left > Way(c)[j].left

\* The bus keeps the promise of LogFeed: ring, queues, the record in hand and the
\* replay are one stream for the page, into which every line goes that is logged
\* while it follows, and out of which none comes but by being received.
Owed(e) == {[to |-> c, line |-> LineOf(e)] : c \in pending[e]}
F == INSTANCE LogFeed WITH
       ring <- buf, page <- sse,
       due <- UNION {Owed(e) : e \in Emitter},
       stream <- [c \in Client |-> IF sse[c] = "closed" THEN got[c] ELSE Way(c)]
ImplementsFeed == F!Spec

\* Nobody has stopped reading or left.
Heeded == \A c \in Client : reading[c] /\ sse[c] # "closed"

\* A line logged while a page is subscribed reaches the page, through queues
\* that are full: nothing is dropped on the way as long as the pages read.
SubscribersGetEveryLine ==
  \A c \in Client, e \in Emitter : \A n \in 1..Lines :
    c \in pending[e] /\ left[e] = n
      ~> [from |-> e, left |-> n] \in ToSet(got[c]) \/ ~Heeded

\* The same for operations, disconnect among them ("so the user always regains
\* a working resolver"): whoever asks for one gets it done, although logging
\* waits for the pages and the lock waits for the logging.
OperationsEndWhenHeeded ==
  \A e \in Operation : at[e] = "asked" ~> at[e] = "done" \/ ~Heeded

-----------------------------------------------------------------------------
(* The inductive invariant *)

\* Lines of one emitter in the order it logs them, which is counted down.
InOrder(s) ==
  \A i, j \in DOMAIN s : i < j /\ s[i].from = s[j].from => s[i].left > s[j].left

\* An emitter that has not ended has a line to log, and waits for queues only
\* after it has appended one.
Emitting ==
  \A e \in Emitter : /\ left[e] > 0 <=> at[e] # "done"
                     /\ at[e] # "put" => pending[e] = {}

OnlyOperationsAsk == \A e \in Emitter : at[e] = "asked" => e \in Operation

\* Where a connection holds records, by its place in the stream.
Phases ==
  \A c \in Client :
    /\ c \in subs <=> sse[c] = "live"
    /\ sse[c] = "new" => got[c] = <<>>
    /\ sse[c] # "replay" => replay[c] = <<>>
    /\ sse[c] \in {"new", "closed"} => hand[c] = <<>>
    /\ sse[c] \in {"new", "replay"} => queue[c] = <<>>
    /\ \A e \in Emitter : c \in pending[e] => sse[c] \in {"live", "closed"}

\* The record was logged: before the line its emitter is at, or it is that one.
Logged(r) ==
  \/ r.left > left[r.from]
  \/ r.left = left[r.from] /\ at[r.from] = "put"

\* The ring holds what was logged, in order.
RingInOrder == InOrder(buf) /\ \A i \in DOMAIN buf : Logged(buf[i])

\* It was logged and is not waiting to be put into the queue of that page.
Passed(c, r) ==
  Logged(r) /\ (c \in pending[r.from] => r.left > left[r.from])

\* So does the way of a page, and what an emitter has still to put into its queue
\* is not on it: the snapshot of the ring was taken before that line.
WayFine(c) ==
  InOrder(Way(c)) /\ \A i \in DOMAIN Way(c) : Passed(c, Way(c)[i])

WaysFine == \A c \in Client : WayFine(c)

IInv == TypeOK /\ Emitting /\ OnlyOperationsAsk /\ Phases /\ RingInOrder /\ WaysFine

=============================================================================
