-------------------------------- MODULE Page ---------------------------------
(***************************************************************************)
(* The page (backend/torando_gui/webroot/app.js): what it shows of the     *)
(* host, next to App.status, connect and disconnect of app.py that it      *)
(* learns it from.  Statuses reach the page on three ways that nothing     *)
(* orders among themselves: the event stream, the poll while Tor           *)
(* bootstraps, and the answer to the button; exit checks are answered      *)
(* whenever the check service answers.                                     *)
(*                                                                         *)
(*  - status() reads the rules first and the nameserver last, and takes no *)
(*    lock: an operation of another thread may run in between.             *)
(*  - The host is two bits: the rules are in, the resolver is pinned.      *)
(*    lock_resolv is on, a user is selected, and the resolver he has of    *)
(*    his own is not 127.0.0.1.  What fails inside an operation is in      *)
(*    LinuxFirewall, ResolvConf and Daemon; here it fails as a whole.      *)
(*  - Somebody else (another tab, the command line) connects and           *)
(*    disconnects too.  The daemon is not restarted: the page would need a *)
(*    new token.                                                           *)
(*  - The settings, the map and the console of the page are left out.      *)
(***************************************************************************)
EXTENDS Naturals, Sequences

CONSTANTS
  Poll,       \* the polls that may be in flight at the same time
  MaxBuffer,  \* statuses of the stream in flight
  MaxEvents,  \* operations and losses of the stream in a behaviour
  MaxChecks,  \* exit checks in flight
  Faults      \* what fails: "arm", "pin", "unpin", "first" (the requests the
              \* page starts with)

ASSUME PageAssumption ==
  /\ MaxBuffer \in Nat \ {0} /\ MaxEvents \in Nat
  /\ MaxChecks \in Nat \ {0}
  /\ Poll \intersect {"first", "click", "stream"} = {}

VARIABLES
  armed, pinned,  \* the host
  stuck,          \* the resolver could not be given back
  boot,           \* the bootstrap of Tor: "some" or "done", as good as
                  \* which is no control port at all
  op,             \* the operation that holds _oplock
  events,         \* how many there were, and losses of the stream
  call,           \* the requests of the page, and the stream's status()
  stream,         \* statuses sent on the stream and not yet rendered
  stage,          \* the page is "loading" or "open"
  shown,          \* lastStatus
  lastExit,       \* the last exit check, "none" if null
  checks,         \* exit checks in flight
  busy,           \* the button waits for its answer
  timer           \* bootTimer runs

host == <<armed, pinned, stuck, boot, op>>
page == <<stage, shown, lastExit, checks, busy, timer>>
vars == <<host, events, call, stream, page>>

Call == Poll \union {"first", "click", "stream"}
Boot == {"some", "done"}

\* To the page an exit check that failed is as good as one that found Tor.
Exit == {"not_tor", "checked"}

\* held is history: if the status shows a pinned resolver, the rules were in
\* at the instant it was read, or it was known to be stuck.
Snapshot(active) ==
  [active |-> active, via_tor |-> active /\ pinned, boot |-> boot,
   held |-> active /\ pinned => armed \/ stuck]
NoStatus == [active |-> FALSE, via_tor |-> FALSE, boot |-> "unknown", held |-> TRUE]
Status ==
  [active : BOOLEAN, via_tor : BOOLEAN, boot : Boot \union {"unknown"}, held : BOOLEAN]
Seen(active) == [NoStatus EXCEPT !.active = active]

\* Where a request is: "idle", "sent", "half" (the rules are read), "done",
\* or "refused".
Is(at, s) == [at |-> at, is |-> s]
Nowhere == Is("idle", NoStatus)
Becomes(c, at, s) == call' = [call EXCEPT ![c] = Is(at, s)]

-----------------------------------------------------------------------------
(* App: connect and disconnect *)

Event == events < MaxEvents /\ events' = events + 1

NoOp == [who |-> "nobody", todo |-> <<>>, raised |-> FALSE, active |-> FALSE]

Step == {"arm", "pin", "unpin", "disarm", "rules", "nameserver"}

\* Mutant: the rules go before the resolver is given back.
StepsSwapped(does) ==
  IF does = "connect" THEN <<"arm", "pin">> ELSE <<"disarm", "unpin">>

Steps(does) ==
  IF does = "connect" THEN <<"arm", "pin">> ELSE <<"unpin", "disarm">>

\* The status() at the end matters to the page only.
Report(who) == IF who = "page" THEN <<"rules", "nameserver">> ELSE <<>>

Begins(who, does) ==
  /\ op = NoOp
  /\ op' = [NoOp EXCEPT !.who = who, !.todo = Steps(does) \o Report(who)]
  /\ UNCHANGED <<armed, pinned, stuck, boot, stream, page>>

OtherBegins ==
  /\ Event
  /\ \E does \in {"connect", "disconnect"} : Begins("other", does)
  /\ UNCHANGED call

\* The click carries what it asked for in the status it started from.
ClickBegins ==
  /\ call["click"].at = "sent"
  /\ Begins("page", IF call["click"].is.active THEN "disconnect" ELSE "connect")
  /\ UNCHANGED <<events, call>>

At(step) == op.todo # <<>> /\ Head(op.todo) = step
Done == op' = [op EXCEPT !.todo = Tail(@)]
RollsBack(steps) == op' = [op EXCEPT !.todo = steps, !.raised = (op.who = "page")]
Inside == UNCHANGED <<boot, events, call, stream, page>>

Arm ==
  /\ At("arm")
  /\ \/ armed' = TRUE /\ Done
     \/ "arm" \in Faults /\ RollsBack(<<"unpin">>) /\ UNCHANGED armed
  /\ UNCHANGED <<pinned, stuck>> /\ Inside

Pin ==
  /\ At("pin")
  /\ \/ pinned' = TRUE /\ Done
     \/ "pin" \in Faults /\ RollsBack(<<"unpin", "disarm">>) /\ pinned' \in BOOLEAN
  /\ UNCHANGED <<armed, stuck>> /\ Inside

Unpin ==
  /\ At("unpin") /\ Done
  /\ \/ pinned' = FALSE /\ stuck' = FALSE
     \/ "unpin" \in Faults /\ stuck' = pinned /\ UNCHANGED pinned
  /\ UNCHANGED armed /\ Inside

Disarm ==
  /\ At("disarm") /\ Done
  /\ armed' = FALSE
  /\ UNCHANGED <<pinned, stuck>> /\ Inside

\* The status() they return, under the lock.
ReadsRules ==
  /\ At("rules")
  /\ op' = [op EXCEPT !.todo = Tail(@), !.active = armed]
  /\ UNCHANGED <<armed, pinned, stuck>> /\ Inside

Ends ==
  /\ op # NoOp
  /\ op.todo = <<>> \/ At("nameserver")
  /\ op' = NoOp
  /\ IF op.who = "page"
     THEN Becomes("click", IF op.raised THEN "refused" ELSE "done", Snapshot(op.active))
     ELSE UNCHANGED call
  /\ UNCHANGED <<armed, pinned, stuck, boot, events, stream, page>>

Bootstraps ==
  /\ boot = "some" /\ boot' = "done"
  /\ UNCHANGED <<armed, pinned, stuck, op, events, call, stream, page>>

-----------------------------------------------------------------------------
(* App.status for a GET and for the stream *)

Reads(c) ==
  /\ c \notin {"click", "stream"} /\ call[c].at = "sent"
  /\ Becomes(c, "half", Seen(armed))
  /\ UNCHANGED <<host, events, stream, page>>

Answers(c) ==
  /\ c \notin {"click", "stream"} /\ call[c].at = "half"
  /\ Becomes(c, "done", Snapshot(call[c].is.active))
  /\ UNCHANGED <<host, events, stream, page>>

\* Mutant: last_status is never set again, a stream tells one status.
StreamTellsOnce ==
  /\ stage = "open" /\ call["stream"].at = "idle" /\ Len(stream) < MaxBuffer
  /\ IF shown = NoStatus THEN Becomes("stream", "half", Seen(armed)) ELSE UNCHANGED call
  /\ UNCHANGED <<host, events, stream, page>>

\* Every two seconds, or when the socket takes more.
StreamTells ==
  /\ stage = "open" /\ call["stream"].at = "idle" /\ Len(stream) < MaxBuffer
  /\ Becomes("stream", "half", Seen(armed))
  /\ UNCHANGED <<host, events, stream, page>>

StreamSends ==
  /\ call["stream"].at = "half"
  /\ stream' = Append(stream, Snapshot(call["stream"].is.active))
  /\ Becomes("stream", "idle", NoStatus)
  /\ UNCHANGED <<host, events, page>>

\* The stream is lost, and opened again by the browser.
Drops ==
  /\ stage = "open" /\ Event
  /\ call["stream"].at = "half" \/ stream # <<>>
  /\ stream' = <<>> /\ Becomes("stream", "idle", NoStatus)
  /\ UNCHANGED <<host, page>>

-----------------------------------------------------------------------------
(* The page *)

\* deriveState
State(s, exit) ==
  CASE s.active /\ (~s.via_tor \/ exit = "not_tor")     -> "leak"
    [] s.active /\ s.via_tor /\ exit # "not_tor" /\ s.boot # "some" -> "routed"
    [] ~s.active /\ s.boot # "some"                     -> "direct"
    [] OTHER                                            -> "bootstrapping"

\* n more exit checks begin.
Checking(n) == checks' = IF checks + n > MaxChecks THEN MaxChecks ELSE checks + n
One(condition) == IF condition THEN 1 ELSE 0

\* render(s), with this lastExit, after which the caller begins n more checks.
Render(s, exit, n) ==
  /\ shown' = s /\ lastExit' = exit
  /\ timer' = (State(s, exit) = "bootstrapping")
  /\ Checking(n + One(s.active /\ exit = "none"))

FirstAnswered ==
  /\ call["first"].at = "done"
  /\ Render(call["first"].is, lastExit, One(call["first"].is.active))
  /\ stage' = "open"
  /\ Becomes("first", "idle", NoStatus)
  /\ UNCHANGED <<host, events, stream, busy>>

FirstFails ==
  /\ "first" \in Faults
  /\ call["first"].at = "sent"
  /\ stage' = "open"
  /\ Becomes("first", "idle", NoStatus)
  /\ UNCHANGED <<host, events, stream, shown, lastExit, checks, busy, timer>>

StreamDelivers ==
  /\ stream # <<>> /\ stream' = Tail(stream)
  /\ Render(Head(stream), lastExit, 0)
  /\ UNCHANGED <<host, events, call, stage, busy>>

\* The interval fires whether or not the poll before was answered.
PollBegins(p) ==
  /\ timer /\ call[p].at = "idle"
  /\ Becomes(p, "sent", NoStatus)
  /\ UNCHANGED <<host, events, stream, page>>

PollAnswered(p) ==
  /\ call[p].at = "done"
  /\ Render(call[p].is, lastExit, 0)
  /\ Becomes(p, "idle", NoStatus)
  /\ UNCHANGED <<host, events, stream, stage, busy>>

\* toggleAction: what it asks for is the opposite of what is shown.
Click ==
  /\ shown # NoStatus /\ ~busy
  /\ Event
  /\ Becomes("click", "sent", Seen(shown.active))
  /\ busy' = TRUE
  /\ UNCHANGED <<armed, pinned, stuck, boot, op, stream,
                 stage, shown, lastExit, checks, timer>>

ClickAnswered ==
  /\ call["click"].at = "done"
  /\ LET s == call["click"].is
     IN Render(s, IF s.active THEN lastExit ELSE "none", One(s.active))
  /\ Becomes("click", "idle", NoStatus)
  /\ busy' = FALSE
  /\ UNCHANGED <<host, events, stream, stage>>

\* Mutant: withBusy without its "finally".
ClickForgotten ==
  /\ call["click"].at = "refused"
  /\ Becomes("click", "idle", NoStatus)
  /\ UNCHANGED <<host, events, stream, page>>

ClickRefused ==
  /\ call["click"].at = "refused"
  /\ Becomes("click", "idle", NoStatus)
  /\ busy' = FALSE
  /\ UNCHANGED <<host, events, stream, stage, shown, lastExit, checks, timer>>

\* newIdentity
NewIdentity ==
  /\ shown # NoStatus /\ State(shown, lastExit) = "routed"
  /\ checks < MaxChecks
  /\ Checking(1)
  /\ UNCHANGED <<host, events, call, stream, stage, shown, lastExit, busy, timer>>

\* refreshExit
ExitAnswered ==
  /\ checks > 0
  /\ \E exit \in Exit :
       /\ lastExit' = exit
       /\ timer' = (shown # NoStatus /\ State(shown, exit) = "bootstrapping")
  /\ checks' = checks - 1
  /\ UNCHANGED <<host, events, call, stream, stage, shown, busy>>

-----------------------------------------------------------------------------

Init ==
  /\ \E on \in BOOLEAN : armed = on /\ pinned = on
  /\ stuck = FALSE /\ boot \in Boot
  /\ op = NoOp /\ events = 0
  /\ call = [c \in Call |-> IF c = "first" THEN Is("sent", NoStatus) ELSE Nowhere]
  /\ stream = <<>>
  /\ stage = "loading" /\ shown = NoStatus /\ lastExit = "none" /\ checks = 0
  /\ busy = FALSE /\ timer = FALSE

Operating == Arm \/ Pin \/ Unpin \/ Disarm \/ ReadsRules \/ Ends

Next ==
  \/ OtherBegins \/ ClickBegins \/ Operating \/ Bootstraps
  \/ \E c \in Call : Reads(c) \/ Answers(c)
  \/ StreamTells \/ StreamSends \/ Drops \/ StreamDelivers
  \/ FirstAnswered \/ FirstFails
  \/ \E p \in Poll : PollBegins(p) \/ PollAnswered(p)
  \/ Click \/ ClickAnswered \/ ClickRefused \/ NewIdentity \/ ExitAnswered

\* Threads and callbacks are scheduled, Tor bootstraps, the check service
\* answers or times out; nobody has to click, nor the network to drop.
Fairness ==
  /\ WF_vars(ClickBegins) /\ WF_vars(Operating) /\ WF_vars(Bootstraps)
  /\ \A c \in Call : WF_vars(Reads(c) \/ Answers(c))
  /\ WF_vars(StreamTells) /\ WF_vars(StreamSends) /\ WF_vars(StreamDelivers)
  /\ WF_vars(FirstAnswered)
  /\ \A p \in Poll : WF_vars(PollAnswered(p))
  /\ WF_vars(ClickAnswered \/ ClickRefused) /\ WF_vars(ExitAnswered)

Spec == Init /\ [][Next]_vars /\ Fairness

-----------------------------------------------------------------------------

(* Properties *)

\* The button is busy exactly while its request is on its way, whatever the
\* answer.
TypeOK ==
  /\ boot \in Boot
  /\ armed \in BOOLEAN /\ pinned \in BOOLEAN /\ stuck \in BOOLEAN
  /\ op \in [who : {"nobody", "page", "other"}, todo : Seq(Step),
             raised : BOOLEAN, active : BOOLEAN]
  /\ call \in [Call -> [at : {"idle", "sent", "half", "done", "refused"}, is : Status]]
  /\ stream \in Seq(Status) /\ Len(stream) <= MaxBuffer
  /\ shown \in Status /\ lastExit \in Exit \union {"none"}
  /\ checks \in 0..MaxChecks
  /\ busy = (call["click"].at # "idle")

\* Whatever order the answers come in, a page that shows the killswitch on
\* and the DNS via Tor shows what was true at an instant of the status() it
\* got: no mixture of two sessions, or of a half undone one, looks secured.
RoutedWasTrue == shown.active /\ shown.via_tor => shown.held

\* When nobody connects or disconnects any more, the page comes to show the
\* host and stays there, its button usable, the poll stopped and the exit
\* known: no late answer is the last word, no lost stream.
Settled ==
  /\ shown.active = armed
  /\ shown.via_tor = (armed /\ pinned)
  /\ shown.boot = boot
  /\ ~busy
  /\ armed => lastExit # "none"
  /\ timer => boot # "done"
PageSettles == <>[]Settled

-----------------------------------------------------------------------------
(* The inductive invariant *)

\* The resolver is pinned only behind the rules, or where it could not be given
\* back; whoever is about to pin has armed, and whoever is about to disarm has
\* given the resolver back, or tried to.
PinnedBehindRules == pinned => armed \/ stuck

StepsInOrder ==
  \A i \in DOMAIN op.todo :
    /\ op.todo[i] = "pin" =>
         (i = 1 /\ armed) \/ (i = 2 /\ op.todo[1] = "arm")
    /\ op.todo[i] = "disarm" =>
         (i = 1 /\ (pinned => stuck)) \/ (i = 2 /\ op.todo[1] = "unpin")

\* The operation of this page runs while its request is on its way.
ClickWaits == op.who = "page" => call["click"].at = "sent"

\* The stream reads a status when there is room to send it.
RoomToSend == call["stream"].at = "half" => Len(stream) < MaxBuffer

\* Every status on its way was true when its resolver was read.
TrueWhenRead ==
  /\ \A c \in Call : call[c].is.held
  /\ \A i \in DOMAIN stream : stream[i].held
  /\ shown.held

IInv ==
  /\ TypeOK /\ PinnedBehindRules /\ StepsInOrder /\ ClickWaits
  /\ RoomToSend /\ TrueWhenRead

=============================================================================
