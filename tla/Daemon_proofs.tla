---------------------------- MODULE Daemon_proofs ----------------------------
(***************************************************************************)
(* Proofs about Daemon: the invariant is IInv of DaemonInv.  Frame is      *)
(* proved of every daemon; each of the other parts is then proved on top   *)
(* of it, under its hypothesis.                                            *)
(***************************************************************************)
EXTENDS DaemonInv, SequenceLemmas, TLAPS

-----------------------------------------------------------------------------
(* The rules of a configuration *)

\* The lists of a configuration hold its rules, and the two that route and
\* block its user are in each.
LEMMA RulesTyped ==
  ASSUME NEW c \in Config
  PROVE  /\ Ruleset(c) \in Seq(Rule) /\ Removals(c) \subseteq Seq(Rule)
         /\ Route(c) \in ToSet(Ruleset(c)) /\ Drop(c) \in ToSet(Ruleset(c))
         /\ Drop6(c) \in ToSet(Ruleset(c)) <=> c.ipv6_killswitch
         /\ ToSet(Ruleset(c)) \subseteq RulesOf(c)
         /\ "ip6" \notin Faults => \A list \in Removals(c) : ToSet(list) = RulesOf(c)
<1>1. Route(c) \in Rule /\ Drop(c) \in Rule /\ Drop6(c) \in Rule
  BY DEF Rule, RulesOf
<1>2. \A x, y, z \in Rule : <<x, y, z>> \in Seq(Rule) /\ <<x, y>> \in Seq(Rule)
  OBVIOUS
<1>3. Ruleset(c) \in Seq(Rule) /\ Removals(c) \subseteq Seq(Rule)
  BY <1>1, <1>2 DEF Ruleset, Removals
<1>4. \A x, y, z : ToSet(<<x, y, z>>) = {x, y, z} /\ ToSet(<<x, y>>) = {x, y}
  BY DEF ToSet
<1>5. ToSet(Ruleset(c)) = IF c.ipv6_killswitch THEN {Route(c), Drop(c), Drop6(c)}
                                               ELSE {Route(c), Drop(c)}
  BY <1>4 DEF Ruleset
<1>6. Drop6(c) # Route(c) /\ Drop6(c) # Drop(c)
  BY DEF Drop6, Drop, Route
<1>7. "ip6" \notin Faults => \A list \in Removals(c) : ToSet(list) = RulesOf(c)
  BY <1>4 DEF Removals, RulesOf
<1> QED BY <1>3, <1>5, <1>6, <1>7 DEF RulesOf

\* The empty list is a list of rules.
LEMMA EmptyTyped == <<>> \in Seq(Rule)
OBVIOUS

\* A look at the rules that cannot fail tells what is there; one that can
\* never reports a killswitch that is not.
LEMMA ProbeTells ==
  ASSUME NEW c
  PROVE  /\ TRUE \in Probes(c) => Killswitch(c)
         /\ "probe" \notin Faults /\ ("ip6" \in Faults => ~c.ipv6_killswitch) =>
              Probes(c) = {Killswitch(c)}
<1>1. Killswitch(c) \in BOOLEAN
  BY DEF Killswitch
<1> QED BY <1>1 DEF Probes

\* A process outside the firewall has no list, no undo list and no answer.
LEMMA NoCallIdle ==
  /\ FW!NoCall \in FW!Calls /\ FW!NoCall.op = "idle" /\ FW!NoCall.added = <<>>
  /\ FW!NoCall.existed = "unread"
<1>1. FW!NoCall \in FW!Calls
  BY EmptyTyped DEF FW!NoCall, FW!Doing, FW!Calls
<1>2. /\ FW!NoCall.op = "idle" /\ FW!NoCall.added = <<>>
      /\ FW!NoCall.existed = "unread"
  BY DEF FW!NoCall, FW!Doing
<1> QED BY <1>1, <1>2

-----------------------------------------------------------------------------
(* Frame: who is where, and with what *)

\* The frame when the daemon first starts.
LEMMA InitFrame == Init => Frame
<1> SUFFICES ASSUME Init PROVE Frame
  OBVIOUS
<1>1. TypeOK
  BY NoCallIdle, DaemonAssumption DEF Init, TypeOK, NoHost, Places, FW!FwInit, FW!FwTypeOK
<1>2. LockIsHeld /\ CommandsDisconnect
  BY DaemonAssumption
     DEF Init, LockIsHeld, CommandsDisconnect, Locked, Connecting, Disconnecting, Process
<1>3. CallsInPlace /\ CallsOfConfig /\ DeadIsIdle
  BY NoCallIdle DEF Init, CallsInPlace, CallsOfConfig, DeadIsIdle, FW!FwInit, Process
<1>4. UsesConfig
  BY DEF Init, UsesConfig, Process, Locked, Connecting, Disconnecting
<1> QED BY <1>1, <1>2, <1>3, <1>4 DEF Frame

\* An operation begins: of a thread that takes the lock, with the
\* configuration in force.
LEMMA StartsFrame ==
  ASSUME Frame, NEW t \in Thread, MayEnter(t), NEW place \in {"torrc", "restore", "save"},
         cfg' \in Config, oplock' = t, Starts(t, cfg', place),
         place = "torrc" => cfg'.uid # NoUid,
         UNCHANGED <<saved, tor, up, dns, installed, call>>
  PROVE  Frame'
<1> USE DEF Frame, MayEnter, Starts, Goto, Process
<1>1. TypeOK'
  BY DEF TypeOK, Host, Places, Locked, Connecting, Disconnecting, FW!FwTypeOK
<1>2. LockIsHeld' /\ CommandsDisconnect'
  BY DaemonAssumption
     DEF TypeOK, LockIsHeld, CommandsDisconnect, Locked, Connecting, Disconnecting
<1>3. CallsInPlace' /\ DeadIsIdle'
  BY NoCallIdle DEF TypeOK, CallsInPlace, DeadIsIdle
<1>4. CallsOfConfig'
  BY NoCallIdle DEF TypeOK, CallsInPlace, CallsOfConfig
<1>5. UsesConfig'
  <2>1. \A u \in Thread : u # t => pc'[u] = pc[u] /\ pc[u] \notin Locked
    BY DaemonAssumption DEF LockIsHeld, TypeOK
  <2>2. pc'[t] = place /\ using'[t] = cfg' /\ applied'[t] = FALSE
    BY DEF TypeOK
  <2> QED BY <2>1, <2>2 DEF UsesConfig, Locked, Connecting, Disconnecting
<1> QED BY <1>1, <1>2, <1>3, <1>4, <1>5

\* An operation goes on, outside the firewall.
LEMMA GoesOnFrame ==
  ASSUME Frame, NEW p \in Process, NEW place, Continues(p, place), call[p] = FW!NoCall,
         \/ p \in Thread /\ pc[p] \in Connecting /\ place \in {"unpin", "unarm", "failed"}
         \/ p \in Thread /\ pc[p] = "torrc" /\ place = "probe"
         \/ p \in Thread /\ pc[p] \in {"pin", "save"} /\ place = "report"
         \/ pc[p] \in Disconnecting /\ place \in {"remove", "report"},
         saved' \in Config, tor' \in BOOLEAN, dns' \in {"real", "pin"},
         UNCHANGED <<cfg, up, oplock, installed, call>>
  PROVE  Frame'
<1> USE DEF Frame, Continues, Goto
<1>1. TypeOK'
  BY DEF TypeOK, Places, Locked, Connecting, Disconnecting, FW!FwTypeOK
<1>2. LockIsHeld' /\ CommandsDisconnect'
  BY DaemonAssumption
     DEF TypeOK, LockIsHeld, CommandsDisconnect, Locked, Connecting, Disconnecting, Process
<1>3. CallsInPlace'
  BY NoCallIdle DEF TypeOK, CallsInPlace, Disconnecting
<1>4. CallsOfConfig'
  BY DEF TypeOK, CallsOfConfig
<1>5. DeadIsIdle' /\ UsesConfig'
  BY DaemonAssumption
     DEF TypeOK, DeadIsIdle, UsesConfig, Process, Locked, Connecting, Disconnecting,
         CommandsDisconnect
<1> QED BY <1>1, <1>2, <1>3, <1>4, <1>5

\* An operation answers: what it leaves behind is nothing.
LEMMA AnswersFrame ==
  ASSUME Frame, NEW p \in Process, pc[p] \in {"failed", "report", "save", "restore"},
         Answers(p), UNCHANGED <<cfg, saved, tor, up, dns, installed, call>>
  PROVE  Frame'
<1> USE DEF Frame, Answers
<1>1. TypeOK'
  BY DaemonAssumption DEF TypeOK, Places, NoHost, FW!FwTypeOK
<1>2. LockIsHeld' /\ CommandsDisconnect'
  BY DaemonAssumption
     DEF TypeOK, LockIsHeld, CommandsDisconnect, Locked, Connecting, Disconnecting, Process
<1>3. call[p] = FW!NoCall
  BY DEF CallsInPlace
<1>4. CallsInPlace' /\ CallsOfConfig'
  BY <1>3, NoCallIdle DEF TypeOK, CallsInPlace, CallsOfConfig
<1>5. DeadIsIdle' /\ UsesConfig'
  BY DEF TypeOK, DeadIsIdle, UsesConfig, Locked, Connecting, Disconnecting, Process
<1> QED BY <1>1, <1>2, <1>4, <1>5

\* A process enters the firewall, moves inside it, or leaves it for place; d
\* is its call afterwards and b its rules_applied.
LEMMA CallFrame ==
  ASSUME Frame, NEW p \in Process, NEW place, NEW d \in FW!Calls, NEW b \in BOOLEAN,
         pc[p] \in {"probe", "arm", "unarm", "remove"},
         pc' = [pc EXCEPT ![p] = place], call' = [call EXCEPT ![p] = d],
         pc[p] \in {"probe", "arm", "unarm"} =>
           p \in Thread /\ place \in {"arm", "pin", "report", "unpin", "unarm", "failed"},
         pc[p] = "remove" => place \in {"remove", "report"},
         \/ d = FW!NoCall /\ place # "arm"
         \/ d.op \in {"apply", "undo"} /\ place = "arm"
         \/ d.op = "remove" /\ place = "remove"
         \/ d.op = "remove" /\ place = "unarm" /\ applied[p],
         d.existed # "unread" => d.op = "apply" /\ d.todo # <<>>,
         d.op \in {"apply", "undo"} =>
           ToSet(d.todo) \union ToSet(d.added) \subseteq ToSet(Ruleset(using[p])),
         applied' = [applied EXCEPT ![p] = b], applied[p] => b,
         place = "arm" => b = applied[p], place = "pin" => b,
         place = "pin" => pc[p] = "arm",
         place = "arm" => pc[p] \in {"probe", "arm"},
         installed' \subseteq Rule,
         UNCHANGED <<cfg, saved, tor, up, dns, oplock, using, found>>
  PROVE  Frame'
<1> USE DEF Frame
<1>1. TypeOK'
  BY DEF TypeOK, Places, Locked, Connecting, Disconnecting, FW!FwTypeOK
<1>2. LockIsHeld' /\ CommandsDisconnect'
  BY DaemonAssumption
     DEF TypeOK, LockIsHeld, CommandsDisconnect, Locked, Connecting, Disconnecting, Process
<1>3. /\ pc'[p] = place /\ call'[p] = d /\ (applied[p] => applied'[p])
      /\ \A q \in Process : q # p => /\ pc'[q] = pc[q] /\ call'[q] = call[q]
                                     /\ applied'[q] = applied[q]
  BY DEF TypeOK, FW!FwTypeOK
<1>4. CallsInPlace'
  BY <1>3, NoCallIdle DEF CallsInPlace
<1>5. CallsOfConfig'
  BY <1>3 DEF CallsOfConfig
<1>6. DeadIsIdle'
  BY <1>3 DEF DeadIsIdle, Process
<1>7. UsesConfig'
  <2>1. \A u \in Thread : u # p => /\ pc'[u] = pc[u] /\ using'[u] = using[u]
                                   /\ applied'[u] = applied[u]
    BY <1>3 DEF Process
  <2>2. CASE p \in Thread
    <3>1. using[p] = cfg /\ (place \in Connecting => cfg.uid # NoUid)
      BY <2>2 DEF UsesConfig, Locked, Connecting, Disconnecting
    <3>2. place = "arm" => ~applied'[p]
      BY <2>2 DEF UsesConfig, TypeOK
    <3>3. place = "pin" => applied'[p]
      BY DEF TypeOK
    <3>4. place \notin {"torrc", "probe"}
      OBVIOUS
    <3> QED BY <1>3, <2>1, <3>1, <3>2, <3>3, <3>4 DEF UsesConfig
  <2>3. CASE p \notin Thread
    BY <2>1, <2>3 DEF UsesConfig
  <2> QED BY <2>2, <2>3
<1> QED BY <1>1, <1>2, <1>4, <1>5, <1>6, <1>7

\* apply begins with nothing added and the whole list to do.
LEMMA ProbeTorFrame ==
  ASSUME Frame, NEW t \in Thread, ProbeTor(t)
  PROVE  Frame'
<1> USE DEF Frame, Process
<1>1. using[t] \in Config /\ pc[t] = "probe" /\ call[t] = FW!NoCall
  BY DEF ProbeTor, TypeOK, CallsInPlace
<1>2. CASE ~tor /\ Continues(t, "unpin") /\ UNCHANGED <<installed, call>>
  BY <1>1, <1>2, GoesOnFrame DEF ProbeTor, Memory, TypeOK, Connecting
<1>3. CASE tor /\ Continues(t, "arm") /\ FW!ApplyRules(t, using[t])
  <2> DEFINE begun == FW!Doing("apply", Ruleset(using[t]), <<>>)
  <2>1. /\ call' = [call EXCEPT ![t] = begun]
        /\ pc' = [pc EXCEPT ![t] = "arm"] /\ applied' = applied
        /\ UNCHANGED <<installed, dns, up, oplock, cfg, saved, tor, using, found>>
    BY <1>3 DEF ProbeTor, FW!ApplyRules, FW!Calling, Memory, Continues, Goto
  <2>2. /\ begun.op = "apply" /\ begun.todo = Ruleset(using[t])
        /\ begun.added = <<>> /\ begun.existed = "unread" /\ begun \in FW!Calls
    <3>1. Ruleset(using[t]) \in Seq(Rule) /\ <<>> \in Seq(Rule)
      BY <1>1, RulesTyped, EmptyTyped
    <3>2. begun \in FW!Calls
      BY <3>1 DEF FW!Doing, FW!Calls
    <3>3. /\ begun.op = "apply" /\ begun.todo = Ruleset(using[t])
          /\ begun.added = <<>> /\ begun.existed = "unread"
      BY DEF FW!Doing
    <3> QED BY <3>2, <3>3
  <2> HIDE DEF begun
  <2>3. ToSet(begun.todo) \union ToSet(begun.added) \subseteq ToSet(Ruleset(using[t]))
    BY <2>2, EmptySet
  <2>4. /\ installed' \subseteq Rule
        /\ applied' = [applied EXCEPT ![t] = applied[t]] /\ applied[t] \in BOOLEAN
    BY <2>1 DEF TypeOK, FW!FwTypeOK
  <2> QED BY <1>1, <2>1, <2>2, <2>3, <2>4, CallFrame
<1> QED BY <1>2, <1>3 DEF ProbeTor

\* A step inside the firewall.
LEMMA FirewallStepFrame ==
  ASSUME Frame, NEW p \in Process, FirewallStep(p)
  PROVE  Frame'
<1> USE DEF Frame
<1>1. /\ call[p] \in FW!Calls /\ call[p].op # "idle" /\ using[p] \in Config
      /\ installed \subseteq Rule /\ call[p].todo # <<>>
      /\ call[p].todo \in Seq(Rule) /\ call[p].added \in Seq(Rule)
  BY DEF FirewallStep, FW!Inside, FW!Probe, FW!Ensure, FW!ApplyFails, FW!Delete,
         TypeOK, FW!FwTypeOK, FW!Calls, CallsInPlace
<1>2. /\ Head(call[p].todo) \in Rule /\ Tail(call[p].todo) \in Seq(Rule)
      /\ ToSet(call[p].todo) = {Head(call[p].todo)} \union ToSet(Tail(call[p].todo))
  BY <1>1, HeadTail
<1>3. ASSUME NEW d \in FW!Calls, call' = [call EXCEPT ![p] = d],
             d.op = call[p].op \/ (call[p].op = "apply" /\ d.op = "undo"),
             d.existed # "unread" => d.op = "apply" /\ d.todo # <<>>,
             d.op \in {"apply", "undo"} =>
               ToSet(d.todo) \union ToSet(d.added)
                 \subseteq ToSet(call[p].todo) \union ToSet(call[p].added),
             installed' \subseteq Rule
      PROVE  Frame'
  <2>1. /\ pc[p] \in {"arm", "unarm", "remove"} /\ (pc[p] \in {"arm", "unarm"} => p \in Thread)
        /\ \/ call[p].op \in {"apply", "undo"} /\ pc[p] = "arm"
           \/ call[p].op = "remove" /\ pc[p] = "remove"
           \/ call[p].op = "remove" /\ pc[p] = "unarm" /\ applied[p]
    BY <1>1, NoCallIdle DEF CallsInPlace, CommandsDisconnect, Disconnecting, Process
  <2>2. \/ d.op \in {"apply", "undo"} /\ pc[p] = "arm"
        \/ d.op = "remove" /\ pc[p] = "remove"
        \/ d.op = "remove" /\ pc[p] = "unarm" /\ applied[p]
    BY <1>3, <2>1
  <2>3. d.op \in {"apply", "undo"} =>
          ToSet(d.todo) \union ToSet(d.added) \subseteq ToSet(Ruleset(using[p]))
    <3>1. d.op \in {"apply", "undo"} => call[p].op \in {"apply", "undo"}
      BY <1>3
    <3> QED BY <1>3, <3>1 DEF CallsOfConfig
  <2>4. /\ pc' = [pc EXCEPT ![p] = pc[p]]
        /\ applied' = [applied EXCEPT ![p] = applied[p]] /\ applied[p] \in BOOLEAN
        /\ UNCHANGED <<cfg, saved, tor, up, dns, oplock, using, found>>
    BY DEF FirewallStep, Memory, own, TypeOK
  <2> QED BY <1>3, <2>1, <2>2, <2>3, <2>4, CallFrame
<1>4. CASE FW!Probe(p)
  <2> DEFINE d == [call[p] EXCEPT !.existed =
                     IF Head(call[p].todo) \in installed THEN "yes" ELSE "no"]
  <2>1. /\ call' = [call EXCEPT ![p] = d] /\ installed' = installed
        /\ call[p].op = "apply"
    BY <1>4 DEF FW!Probe
  <2>2. /\ d \in FW!Calls /\ d.op = "apply"
        /\ d.todo = call[p].todo /\ d.added = call[p].added
    BY <1>1, <2>1 DEF FW!Calls
  <2> HIDE DEF d
  <2> QED BY <1>1, <1>3, <2>1, <2>2
<1>5. CASE FW!Ensure(p)
  <2> DEFINE added == IF call[p].existed = "no" THEN Append(call[p].added, Head(call[p].todo))
                                                ELSE call[p].added
             d == FW!Doing("apply", Tail(call[p].todo), added)
  <2>1. /\ call' = [call EXCEPT ![p] = d] /\ call[p].op = "apply"
        /\ installed' = installed \union {Head(call[p].todo)}
    BY <1>5 DEF FW!Ensure
  <2>2. added \in Seq(Rule) /\ ToSet(added) \subseteq ToSet(call[p].todo) \union ToSet(call[p].added)
    BY <1>1, <1>2, AppendSet
  <2> HIDE DEF added
  <2>3. d \in FW!Calls
    BY <1>2, <2>2 DEF FW!Doing, FW!Calls
  <2>4. /\ d.op = "apply" /\ d.todo = Tail(call[p].todo) /\ d.added = added
        /\ d.existed = "unread"
    BY DEF FW!Doing
  <2> HIDE DEF d
  <2> QED BY <1>1, <1>2, <1>3, <2>1, <2>2, <2>3, <2>4
<1>6. CASE FW!ApplyFails(p)
  <2> DEFINE d == FW!Doing("undo", Reverse(call[p].added), <<>>)
  <2> HIDE DEF d
  <2>1. call' = [call EXCEPT ![p] = d] /\ call[p].op = "apply" /\ installed' = installed
    BY <1>6 DEF FW!ApplyFails, FW!Calling, FW!Reverse, Reverse, d
  <2>2. /\ Reverse(call[p].added) \in Seq(Rule)
        /\ ToSet(Reverse(call[p].added)) = ToSet(call[p].added)
    BY <1>1, ReverseSet
  <2>3. d \in FW!Calls
    BY <2>2, EmptyTyped DEF d, FW!Doing, FW!Calls
  <2>4. /\ d.op = "undo" /\ d.todo = Reverse(call[p].added) /\ d.added = <<>>
        /\ d.existed = "unread"
    BY DEF d, FW!Doing
  <2> QED BY <1>1, <1>3, <2>1, <2>2, <2>3, <2>4, EmptySet
<1>7. CASE FW!Delete(p)
  <2> DEFINE d == [call[p] EXCEPT !.todo = Tail(call[p].todo)]
  <2>1. /\ call' = [call EXCEPT ![p] = d] /\ installed' \subseteq installed
        /\ call[p].op \in {"undo", "remove"}
    BY <1>7 DEF FW!Delete
  <2>2. /\ d \in FW!Calls /\ d.op = call[p].op /\ d.todo = Tail(call[p].todo)
        /\ d.added = call[p].added /\ d.existed = call[p].existed
    BY <1>1, <1>2 DEF FW!Calls
  <2> HIDE DEF d
  <2>3. call[p].existed = "unread"
    BY <2>1 DEF CallsInPlace
  <2> QED BY <1>1, <1>2, <1>3, <2>1, <2>2, <2>3
<1> QED BY <1>4, <1>5, <1>6, <1>7 DEF FirewallStep, FW!Inside

\* A call of the firewall ends.
LEMMA ReturnFrame ==
  ASSUME Frame, NEW p \in Process, NEW place, NEW b \in BOOLEAN,
         pc[p] \in {"arm", "unarm", "remove"},
         pc[p] \in {"arm", "unarm"} =>
           p \in Thread /\ place \in {"pin", "report", "unpin", "failed"},
         pc[p] = "remove" => place = "report",
         place = "pin" => pc[p] = "arm", applied[p] => b, place = "pin" => b,
         pc' = [pc EXCEPT ![p] = place], call' = [call EXCEPT ![p] = FW!NoCall],
         applied' = [applied EXCEPT ![p] = b],
         installed' = installed,
         UNCHANGED <<cfg, saved, tor, up, dns, oplock, using, found>>
  PROVE  Frame'
<1>1. /\ FW!NoCall \in FW!Calls /\ FW!NoCall.existed = "unread"
      /\ FW!NoCall.op \notin {"apply", "undo"}
  BY NoCallIdle
<1>2. installed' \subseteq Rule
  BY DEF Frame, TypeOK, FW!FwTypeOK
<1> QED BY <1>1, <1>2, CallFrame

\* A removal begins.
LEMMA RemovalFrame ==
  ASSUME Frame, NEW p \in Process, FW!RemoveRules(p, using[p]),
         \/ pc[p] = "remove"
         \/ p \in Thread /\ pc[p] = "unarm" /\ applied[p],
         UNCHANGED <<Memory, oplock, own, dns>>
  PROVE  Frame'
<1>1. PICK list \in Removals(using[p]) :
        call' = [call EXCEPT ![p] = FW!Doing("remove", list, <<>>)]
  BY DEF FW!RemoveRules, FW!Calling
<1> DEFINE d == FW!Doing("remove", list, <<>>)
<1>2. list \in Seq(Rule)
  BY RulesTyped DEF Frame, TypeOK
<1>3. d \in FW!Calls
  BY <1>2, EmptyTyped DEF FW!Doing, FW!Calls
<1>4. d.op = "remove" /\ d.existed = "unread"
  BY DEF FW!Doing
<1>5. call' = [call EXCEPT ![p] = d]
  BY <1>1
<1> HIDE DEF d
<1>6. /\ pc' = [pc EXCEPT ![p] = pc[p]] /\ installed' \subseteq Rule
      /\ applied' = [applied EXCEPT ![p] = applied[p]] /\ applied[p] \in BOOLEAN
      /\ UNCHANGED <<cfg, saved, tor, up, dns, oplock, using, found>>
  BY DEF FW!RemoveRules, Memory, own, Frame, TypeOK, FW!FwTypeOK
<1> QED BY <1>3, <1>4, <1>5, <1>6, CallFrame

\* The steps of an operation that has begun.
LEMMA StepFrame ==
  ASSUME Frame, NEW p \in Process, Step(p)
  PROVE  Frame'
<1> USE DEF Memory
<1>1. /\ TypeOK
      /\ pc[p] \notin Disconnecting \union {"report", "idle"} => p \in Thread
      /\ pc[p] \notin {"arm", "remove", "unarm"} \/ call[p].op = "idle" => call[p] = FW!NoCall
      /\ applied[p] \in BOOLEAN
  BY NoCallIdle DEF Frame, CommandsDisconnect, CallsInPlace, Process, TypeOK
<1>2. CASE TorrcStep(p)
  BY <1>1, <1>2, GoesOnFrame DEF TorrcStep, TypeOK, Connecting, Disconnecting
<1>3. CASE ProbeTor(p)
  BY <1>1, <1>3, ProbeTorFrame DEF ProbeTor, Disconnecting
<1>4. CASE ArmDone(p)
  <2> DEFINE place == IF using[p].lock_resolv THEN "pin" ELSE "report"
  <2>1. /\ pc[p] = "arm" /\ pc' = [pc EXCEPT ![p] = place]
        /\ call' = [call EXCEPT ![p] = FW!NoCall] /\ applied' = [applied EXCEPT ![p] = TRUE]
        /\ UNCHANGED <<installed, dns, up, oplock, cfg, saved, tor, using, found>>
    BY <1>4 DEF ArmDone, FW!ApplyReturns, FW!Returning, Goto
  <2>2. place \in {"pin", "report"}
    OBVIOUS
  <2> HIDE DEF place
  <2> QED BY <1>1, <2>1, <2>2, ReturnFrame DEF Disconnecting
<1>5. CASE ArmFailed(p)
  <2>1. /\ pc[p] = "arm" /\ pc' = [pc EXCEPT ![p] = "unpin"]
        /\ call' = [call EXCEPT ![p] = FW!NoCall] /\ applied' = applied
        /\ UNCHANGED <<installed, dns, up, oplock, cfg, saved, tor, using, found>>
    BY <1>5 DEF ArmFailed, FW!ApplyRaises, FW!Returning, Continues, Goto
  <2>2. applied' = [applied EXCEPT ![p] = applied[p]]
    BY <1>1, <2>1 DEF TypeOK
  <2> QED BY <1>1, <2>1, <2>2, ReturnFrame DEF Disconnecting
<1>6. CASE Pin(p)
  BY <1>1, <1>6, GoesOnFrame DEF Pin, TypeOK, Connecting, Disconnecting
<1>7. CASE RollbackDns(p)
  BY <1>1, <1>7, GoesOnFrame
     DEF RollbackDns, Unlocks, UnlockRaises, TypeOK, Connecting, Disconnecting
<1>8. CASE RollbackRules(p)
  <2>1. CASE applied[p] /\ FW!RemoveRules(p, using[p]) /\ UNCHANGED own
    BY <1>1, <1>8, <2>1, RemovalFrame DEF RollbackRules, Disconnecting
  <2>2. CASE ~applied[p] /\ Continues(p, "failed") /\ UNCHANGED <<installed, call>>
    BY <1>1, <1>8, <2>2, GoesOnFrame DEF RollbackRules, TypeOK, Connecting, Disconnecting
  <2> QED BY <1>8, <2>1, <2>2 DEF RollbackRules
<1>9. CASE RollbackDone(p) \/ DisarmDone(p)
  <2>1. CASE RollbackDone(p)
    <3>1. /\ pc[p] = "unarm" /\ pc' = [pc EXCEPT ![p] = "failed"]
          /\ call' = [call EXCEPT ![p] = FW!NoCall] /\ applied' = [applied EXCEPT ![p] = applied[p]]
          /\ UNCHANGED <<installed, dns, up, oplock, cfg, saved, tor, using, found>>
      BY <1>1, <2>1 DEF RollbackDone, FW!RemoveReturns, FW!Returning, Continues, Goto, TypeOK
    <3> QED BY <1>1, <3>1, ReturnFrame DEF Disconnecting
  <2>2. CASE DisarmDone(p)
    <3>1. /\ pc[p] = "remove" /\ pc' = [pc EXCEPT ![p] = "report"]
          /\ call' = [call EXCEPT ![p] = FW!NoCall] /\ applied' = [applied EXCEPT ![p] = applied[p]]
          /\ UNCHANGED <<installed, dns, up, oplock, cfg, saved, tor, using, found>>
      BY <1>1, <2>2 DEF DisarmDone, FW!RemoveReturns, FW!Returning, Continues, Goto, TypeOK
    <3> QED BY <1>1, <3>1, ReturnFrame DEF Disconnecting
  <2> QED BY <1>9, <2>1, <2>2
<1>10. CASE RestoreDns(p)
  <2>1. CASE UnlockRaises /\ Answers(p)
    BY <1>10, <2>1, AnswersFrame DEF RestoreDns, UnlockRaises
  <2>2. CASE /\ Unlocks /\ UNCHANGED oplock
             /\ Continues(p, IF using[p].uid = NoUid THEN "report" ELSE "remove")
    BY <1>1, <1>10, <2>2, GoesOnFrame DEF RestoreDns, Unlocks, TypeOK, Disconnecting
  <2> QED BY <1>10, <2>1, <2>2 DEF RestoreDns
<1>11. CASE Disarm(p)
  BY <1>11, RemovalFrame DEF Disarm
<1>12. CASE ConnectRaises(p) \/ Report(p)
  BY <1>12, AnswersFrame DEF ConnectRaises, Report
<1>13. CASE Save(p)
  <2>1. CASE UNCHANGED saved /\ Answers(p)
    BY <1>13, <2>1, AnswersFrame DEF Save
  <2>2. CASE saved' = cfg /\ Continues(p, "report") /\ UNCHANGED oplock
    BY <1>1, <1>13, <2>2, GoesOnFrame DEF Save, TypeOK, Disconnecting
  <2> QED BY <1>13, <2>1, <2>2 DEF Save
<1>14. CASE FirewallStep(p)
  BY <1>14, FirewallStepFrame
<1> QED
  BY <1>2, <1>3, <1>4, <1>5, <1>6, <1>7, <1>8, <1>9, <1>10, <1>11, <1>12, <1>13, <1>14
  DEF Step, ConnectStep, DisconnectStep

\* Operations begin.
LEMMA ThreadFrame ==
  ASSUME Frame, NEW t \in Thread, ThreadNext(t)
  PROVE  Frame'
<1> USE DEF Memory
<1>1. TypeOK
  BY DEF Frame
<1>2. CASE Connect(t)
  BY <1>1, <1>2, StartsFrame DEF Connect, TypeOK
<1>3. CASE Disconnect(t)
  BY <1>1, <1>3, StartsFrame DEF Disconnect, TypeOK
<1>4. ASSUME NEW new \in Config, UpdateConfig(t, new) PROVE Frame'
  BY <1>4, StartsFrame DEF UpdateConfig
<1> QED BY <1>2, <1>3, <1>4, StepFrame DEF ThreadNext, Process

\* The commands have a lock and a configuration of their own.
LEMMA CommandFrame ==
  ASSUME Frame, NEW p \in Cli, CliNext(p)
  PROVE  Frame'
<1> USE DEF Frame, Process
<1>1. CASE CliDisconnect(p)
  <2> USE <1>1 DEF CliDisconnect, Starts, Goto, Memory
  <2>1. TypeOK'
    BY DEF TypeOK, Host, Places, Locked, Disconnecting, FW!FwTypeOK
  <2>2. LockIsHeld' /\ CommandsDisconnect'
    BY DaemonAssumption DEF TypeOK, LockIsHeld, CommandsDisconnect, Disconnecting
  <2>3. CallsInPlace' /\ CallsOfConfig'
    BY NoCallIdle DEF TypeOK, CallsInPlace, CallsOfConfig
  <2>4. DeadIsIdle' /\ UsesConfig'
    BY DaemonAssumption DEF TypeOK, DeadIsIdle, UsesConfig
  <2> QED BY <2>1, <2>2, <2>3, <2>4
<1>2. CASE CliRestoreDns(p)
  <2>1. dns' \in {"real", "pin"}
        /\ UNCHANGED <<cfg, saved, tor, up, oplock, own, installed, call>>
    BY <1>2 DEF CliRestoreDns, Unlocks, Memory, TypeOK
  <2>2. TypeOK'
    BY <2>1 DEF TypeOK, FW!FwTypeOK, own
  <2> QED BY <2>1, <2>2 DEF own, LockIsHeld, CommandsDisconnect, CallsInPlace,
         CallsOfConfig, DeadIsIdle, UsesConfig
<1> QED BY <1>1, <1>2, StepFrame DEF CliNext

\* Deaths leave no thread behind, and a start no operation of before.
LEMMA LifeFrame ==
  ASSUME Frame, Life
  PROVE  Frame'
<1> USE DEF Frame, Process
<1>1. CASE Crash
  <2> USE <1>1 DEF Crash, Gone
  <2>1. /\ \A t \in Thread : pc'[t] = "idle" /\ call'[t] = FW!NoCall
        /\ \A p \in Cli : pc'[p] = pc[p] /\ call'[p] = call[p] /\ using'[p] = using[p]
                          /\ (applied'[p] <=> applied[p])
        /\ oplock' = NoOne /\ up' = "down"
    BY DaemonAssumption DEF TypeOK
  <2>2. TypeOK'
    BY NoCallIdle, DaemonAssumption DEF TypeOK, NoHost, Places, FW!FwTypeOK
  <2>3. LockIsHeld' /\ CommandsDisconnect'
    BY <2>1, DaemonAssumption
       DEF LockIsHeld, CommandsDisconnect, Locked, Connecting, Disconnecting
  <2>4. CallsInPlace' /\ CallsOfConfig'
    BY <2>1, NoCallIdle DEF CallsInPlace, CallsOfConfig
  <2>5. DeadIsIdle' /\ UsesConfig'
    BY <2>1 DEF DeadIsIdle, UsesConfig, Locked, Connecting, Disconnecting
  <2> QED BY <2>2, <2>3, <2>4, <2>5
<1>2. CASE Reboot
  <2> USE <1>2 DEF Reboot, Gone, FW!Flush
  <2>1. /\ \A p \in Process : pc'[p] = "idle" /\ call'[p] = FW!NoCall
        /\ oplock' = NoOne /\ up' = "down" /\ installed' = {}
    OBVIOUS
  <2>2. TypeOK'
    BY NoCallIdle, DaemonAssumption DEF TypeOK, NoHost, Places, FW!FwTypeOK
  <2>3. LockIsHeld' /\ CommandsDisconnect'
    BY <2>1, DaemonAssumption
       DEF LockIsHeld, CommandsDisconnect, Locked, Connecting, Disconnecting
  <2>4. CallsInPlace' /\ CallsOfConfig'
    BY <2>1, NoCallIdle DEF CallsInPlace, CallsOfConfig
  <2>5. DeadIsIdle' /\ UsesConfig'
    BY <2>1 DEF DeadIsIdle, UsesConfig, Locked, Connecting, Disconnecting
  <2> QED BY <2>2, <2>3, <2>4, <2>5
<1>3. CASE Start \/ RecoverChecks \/ RecoverRestores \/ DhcpReplacesPin \/ TorChanges
  <2>1. /\ UNCHANGED <<oplock, own, installed, call, saved>>
        /\ cfg' = cfg \/ (up # "serving" /\ cfg' = saved)
        /\ tor' \in BOOLEAN /\ dns' \in {"real", "pin"}
        /\ up' \in {"down", "starting", "orphaned", "serving"}
        /\ up' = "serving" \/ up # "serving"
    BY <1>3 DEF Start, RecoverChecks, RecoverRestores, DhcpReplacesPin, TorChanges, Memory,
                TypeOK
  <2> USE <2>1 DEF own
  <2>2. TypeOK'
    BY DEF TypeOK, FW!FwTypeOK
  <2>3. LockIsHeld' /\ CommandsDisconnect' /\ CallsInPlace' /\ CallsOfConfig' /\ DeadIsIdle'
    BY DEF LockIsHeld, CommandsDisconnect, CallsInPlace, CallsOfConfig, DeadIsIdle
  <2>4. UsesConfig'
    BY DEF UsesConfig, DeadIsIdle, Locked, Connecting, Disconnecting
  <2> QED BY <2>2, <2>3, <2>4
<1> QED BY <1>1, <1>2, <1>3 DEF Life

\* The frame holds of every daemon, with any commands beside it and any
\* faults.
LEMMA FrameHolds == Spec => []Frame
<1>1. Frame /\ [Next]_vars => Frame'
  <2>1. Frame /\ UNCHANGED vars => Frame'
    BY DEF vars, own, Frame, TypeOK, FW!FwTypeOK, LockIsHeld, CommandsDisconnect,
           CallsInPlace, CallsOfConfig, DeadIsIdle, UsesConfig
  <2> QED BY <2>1, ThreadFrame, CommandFrame, LifeFrame DEF Next
<1> QED BY <1>1, InitFrame, PTL DEF Spec

\* Only the operation that holds the lock is inside the firewall.
LEMMA OneCaller ==
  ASSUME Frame, NEW t \in Thread, call[t].op # "idle"
  PROVE  /\ oplock = t /\ up = "serving"
         /\ \A u \in Thread \ {t} : call[u] = FW!NoCall /\ pc[u] \notin Locked
<1> USE DEF Frame, Process
<1>2. pc[t] \in {"arm", "remove", "unarm"}
  BY NoCallIdle DEF CallsInPlace
<1>3. oplock = t
  BY <1>2 DEF LockIsHeld, Locked, Connecting, Disconnecting
<1>4. up = "serving"
  BY <1>2 DEF DeadIsIdle
<1>5. ASSUME NEW u \in Thread, u # t PROVE call[u] = FW!NoCall /\ pc[u] \notin Locked
  <2>1. pc[u] \notin Locked
    BY <1>3, <1>5 DEF LockIsHeld
  <2> QED BY <2>1 DEF CallsInPlace, Locked, Connecting, Disconnecting
<1> QED BY <1>3, <1>4, <1>5

\* What a step inside the firewall does, rule by rule: h is the rule in hand,
\* rest what is left to do after it.
LEMMA InsideMeans ==
  ASSUME Frame, NEW p \in Process, FirewallStep(p)
  PROVE  \E h \in Rule, rest \in SUBSET Rule :
           /\ ToSet(call[p].todo) = {h} \union rest
           /\ h = Head(call[p].todo)
           /\ \/ /\ call[p].op = "apply" /\ call'[p].op = "apply" /\ installed' = installed
                 /\ ToSet(call'[p].todo) = ToSet(call[p].todo) /\ Head(call'[p].todo) = h
                 /\ ToSet(call'[p].added) = ToSet(call[p].added)
                 /\ call'[p].existed = IF h \in installed THEN "yes" ELSE "no"
              \/ /\ call[p].op = "apply" /\ call'[p].op = "apply"
                 /\ call[p].existed \in {"yes", "no"} /\ call'[p].existed = "unread"
                 /\ installed' = installed \union {h} /\ ToSet(call'[p].todo) = rest
                 /\ ToSet(call'[p].added) =
                      ToSet(call[p].added) \union IF call[p].existed = "no" THEN {h} ELSE {}
              \/ /\ call[p].op = "apply" /\ call'[p].op = "undo" /\ installed' = installed
                 /\ ToSet(call'[p].todo) = ToSet(call[p].added)
                 /\ ToSet(call'[p].added) = {} /\ call'[p].existed = "unread"
              \/ /\ call[p].op \in {"undo", "remove"} /\ call'[p].op = call[p].op
                 /\ call[p].existed = "unread" /\ call'[p].existed = "unread"
                 /\ ToSet(call'[p].added) = ToSet(call[p].added)
                 /\ ToSet(call'[p].todo) = rest
                 /\ \/ installed' = installed \ {h}
                    \/ "delete" \in Faults /\ installed' = installed
<1> USE DEF Frame
<1> DEFINE h == Head(call[p].todo)
           rest == ToSet(Tail(call[p].todo))
<1>1. /\ call[p] \in FW!Calls /\ call[p].op # "idle" /\ call[p].todo # <<>>
      /\ call[p].todo \in Seq(Rule) /\ call[p].added \in Seq(Rule)
      /\ call[p].existed \in {"unread", "yes", "no"}
      /\ call[p].existed # "unread" => call[p].op = "apply"
  BY DEF FirewallStep, FW!Inside, FW!Probe, FW!Ensure, FW!ApplyFails, FW!Delete,
         TypeOK, FW!FwTypeOK, FW!Calls, CallsInPlace
<1>2. /\ h \in Rule /\ Tail(call[p].todo) \in Seq(Rule) /\ rest \in SUBSET Rule
      /\ ToSet(call[p].todo) = {h} \union rest
  <2>1. /\ h \in Rule /\ Tail(call[p].todo) \in Seq(Rule)
        /\ ToSet(call[p].todo) = {h} \union rest
    BY <1>1, HeadTail
  <2>2. \A s \in Seq(Rule) : ToSet(s) \subseteq Rule
    BY DEF ToSet
  <2> QED BY <2>1, <2>2
<1>3. ASSUME NEW d, call' = [call EXCEPT ![p] = d] PROVE call'[p] = d
  BY <1>3 DEF TypeOK, FW!FwTypeOK
<1>4. CASE FW!Probe(p)
  <2> DEFINE d == [call[p] EXCEPT !.existed = IF h \in installed THEN "yes" ELSE "no"]
  <2>1. /\ call'[p] = d /\ installed' = installed /\ call[p].op = "apply"
    BY <1>3, <1>4 DEF FW!Probe
  <2>2. /\ d.op = "apply" /\ d.todo = call[p].todo /\ d.added = call[p].added
        /\ d.existed = IF h \in installed THEN "yes" ELSE "no"
    BY <1>1, <2>1 DEF FW!Calls
  <2> HIDE DEF d
  <2> QED BY <1>2, <2>1, <2>2
<1>5. CASE FW!Ensure(p)
  <2> DEFINE added == IF call[p].existed = "no" THEN Append(call[p].added, h) ELSE call[p].added
             d == FW!Doing("apply", Tail(call[p].todo), added)
  <2>1. /\ call'[p] = d /\ call[p].op = "apply" /\ call[p].existed # "unread"
        /\ installed' = installed \union {h}
    BY <1>3, <1>5 DEF FW!Ensure
  <2>2. ToSet(added) = ToSet(call[p].added) \union IF call[p].existed = "no" THEN {h} ELSE {}
    BY <1>1, <1>2, AppendSet
  <2> HIDE DEF added
  <2>3. /\ d.op = "apply" /\ d.todo = Tail(call[p].todo) /\ d.added = added
        /\ d.existed = "unread"
    BY DEF FW!Doing
  <2> HIDE DEF d
  <2> QED BY <1>1, <1>2, <2>1, <2>2, <2>3
<1>6. CASE FW!ApplyFails(p)
  <2> DEFINE d == FW!Doing("undo", Reverse(call[p].added), <<>>)
  <2> HIDE DEF d
  <2>1. call'[p] = d /\ call[p].op = "apply" /\ installed' = installed
    BY <1>3, <1>6 DEF FW!ApplyFails, FW!Calling, FW!Reverse, Reverse, d
  <2>2. ToSet(Reverse(call[p].added)) = ToSet(call[p].added)
    BY <1>1, ReverseSet
  <2>3. /\ d.op = "undo" /\ d.todo = Reverse(call[p].added) /\ d.added = <<>>
        /\ d.existed = "unread"
    BY DEF d, FW!Doing
  <2> QED BY <1>2, <2>1, <2>2, <2>3, EmptySet
<1>7. CASE FW!Delete(p)
  <2> DEFINE d == [call[p] EXCEPT !.todo = Tail(call[p].todo)]
  <2>1. /\ call'[p] = d /\ call[p].op \in {"undo", "remove"}
        /\ installed' = installed \ {h} \/ ("delete" \in Faults /\ installed' = installed)
    BY <1>3, <1>7 DEF FW!Delete
  <2>2. /\ d.op = call[p].op /\ d.todo = Tail(call[p].todo)
        /\ d.added = call[p].added /\ d.existed = call[p].existed
    BY <1>1 DEF FW!Calls
  <2> HIDE DEF d
  <2> QED BY <1>1, <1>2, <2>1, <2>2
<1> QED BY <1>4, <1>5, <1>6, <1>7 DEF FirewallStep, FW!Inside

-----------------------------------------------------------------------------
(* Why a pinned resolver has armed rules behind it *)

\* A connect that takes the lock has neither armed nor pinned anything yet.
LEMMA ConnectInv ==
  ASSUME Alone, Frame, Guarded, NEW t \in Thread, Connect(t)
  PROVE  Guarded'
<1> USE DEF Alone, Frame, Guarded, Connect, MayEnter, Starts, Goto, Memory, Process
<1>3. ApplyInstalls'
  BY NoCallIdle DEF TypeOK, CallsInPlace, DeadIsIdle, ApplyInstalls
<1>4. PinIsLast' /\ UnpinIsFirst' /\ PinIsGuarded'
  BY DEF TypeOK, PinIsLast, UnpinIsFirst, UsesConfig, PinIsGuarded, Armed, Spares
<1> QED BY <1>3, <1>4

\* A disconnect that takes the lock leaves the host alone until it unpins.
LEMMA DisconnectInv ==
  ASSUME Alone, Frame, Guarded, NEW t \in Thread, Disconnect(t)
  PROVE  Guarded'
<1> USE DEF Alone, Frame, Guarded, Disconnect, MayEnter, Starts, Goto, Memory, Process
<1>3. ApplyInstalls'
  BY NoCallIdle DEF TypeOK, CallsInPlace, DeadIsIdle, ApplyInstalls
<1>4. PinIsLast' /\ UnpinIsFirst' /\ PinIsGuarded'
  BY DEF TypeOK, PinIsLast, UnpinIsFirst, UsesConfig, PinIsGuarded, Armed, Spares
<1> QED BY <1>3, <1>4

\* A configuration change touches no rule and no resolver.
LEMMA UpdateConfigInv ==
  ASSUME Alone, Frame, Guarded, NEW t \in Thread, NEW new \in Config, UpdateConfig(t, new)
  PROVE  Guarded'
<1> USE DEF Alone, Frame, Guarded, UpdateConfig, MayEnter, Starts, Goto, Memory, Process
<1>3. ApplyInstalls'
  BY NoCallIdle DEF TypeOK, CallsInPlace, DeadIsIdle, ApplyInstalls
<1>4. PinIsLast' /\ UnpinIsFirst' /\ PinIsGuarded'
  BY DEF TypeOK, PinIsLast, UnpinIsFirst, UsesConfig, PinIsGuarded, Armed, Spares
<1> QED BY <1>3, <1>4

\* Writing torrc changes only where the connect is.
LEMMA TorrcStepInv ==
  ASSUME Alone, Frame, Guarded, NEW t \in Thread, TorrcStep(t)
  PROVE  Guarded'
<1> USE DEF Alone, Frame, Guarded, TorrcStep, Continues, Goto, Process
<1>3. ApplyInstalls'
  BY NoCallIdle DEF TypeOK, CallsInPlace, DeadIsIdle, ApplyInstalls
<1>4. PinIsLast' /\ UnpinIsFirst' /\ PinIsGuarded'
  BY DEF TypeOK, PinIsLast, UnpinIsFirst, UsesConfig, PinIsGuarded, Armed, Spares
<1> QED BY <1>3, <1>4

\* A step that ends an operation changes nothing of the host.
LEMMA AnswersInv ==
  ASSUME Alone, Frame, Guarded, NEW t \in Thread,
         pc[t] \in {"failed", "report", "save", "restore"}, Answers(t),
         cfg' \in Config, saved' \in Config,
         UNCHANGED <<tor, up, dns, installed, call>>
  PROVE  Guarded'
<1> USE DEF Alone, Frame, Guarded, Answers, Process
<1>5. ApplyInstalls'
  <2>1. pc[t] \notin {"arm", "remove", "unarm"}
    OBVIOUS
  <2>2. call[t] = FW!NoCall
    BY <2>1 DEF CallsInPlace
  <2> QED BY <2>2, NoCallIdle DEF TypeOK, ApplyInstalls
<1>6. PinIsLast' /\ UnpinIsFirst' /\ PinIsGuarded'
  BY DEF TypeOK, PinIsLast, UnpinIsFirst, UsesConfig, PinIsGuarded, Armed, Spares
<1> QED BY <1>5, <1>6

\* Saving, or failing to save, changes only the file and where the call is.
LEMMA SaveInv ==
  ASSUME Alone, Frame, Guarded, NEW t \in Thread, Save(t)
  PROVE  Guarded'
<1> USE DEF Alone, Frame, Guarded, Process
<1>1. CASE Answers(t)
  BY <1>1, AnswersInv DEF Save, TypeOK
<1>2. CASE saved' = cfg /\ Continues(t, "report") /\ UNCHANGED oplock
  <2> USE <1>2 DEF Save, Continues, Goto
  <2>3. ApplyInstalls'
    BY NoCallIdle DEF TypeOK, CallsInPlace, DeadIsIdle, ApplyInstalls
  <2>4. PinIsLast' /\ UnpinIsFirst' /\ PinIsGuarded'
    BY DEF TypeOK, PinIsLast, UnpinIsFirst, UsesConfig, PinIsGuarded, Armed, Spares
  <2> QED BY <2>3, <2>4
<1> QED BY <1>1, <1>2 DEF Save

\* apply begins with nothing added and the whole list to do.
LEMMA ProbeTorInv ==
  ASSUME Alone, Frame, Guarded, NEW t \in Thread, ProbeTor(t)
  PROVE  Guarded'
<1> USE DEF Alone, Frame, Guarded, Memory, Process, Continues, Goto
<1>1. using[t] \in Config /\ pc[t] = "probe" /\ call[t] = FW!NoCall
  BY DEF ProbeTor, TypeOK, CallsInPlace
<1>2. CASE ~tor /\ Continues(t, "unpin") /\ UNCHANGED <<installed, call>>
  <2> USE <1>2 DEF ProbeTor
  <2>3. ApplyInstalls'
    BY NoCallIdle DEF TypeOK, CallsInPlace, DeadIsIdle, ApplyInstalls
  <2>4. PinIsLast' /\ UnpinIsFirst' /\ PinIsGuarded'
    BY DEF TypeOK, PinIsLast, UnpinIsFirst, UsesConfig, PinIsGuarded, Armed, Spares
  <2> QED BY <2>3, <2>4
<1>3. CASE tor /\ Continues(t, "arm") /\ FW!ApplyRules(t, using[t])
  <2> DEFINE begun == FW!Doing("apply", Ruleset(using[t]), <<>>)
  <2>1. /\ call' = [call EXCEPT ![t] = begun]
        /\ UNCHANGED <<installed, dns, up, oplock, cfg, saved, tor>>
    BY <1>3 DEF ProbeTor, FW!ApplyRules, FW!Calling
  <2>2. /\ begun.op = "apply" /\ begun.todo = Ruleset(using[t])
        /\ begun.added = <<>> /\ begun.existed = "unread" /\ begun \in FW!Calls
    <3>1. Ruleset(using[t]) \in Seq(Rule) /\ <<>> \in Seq(Rule)
      BY <1>1, RulesTyped, EmptyTyped
    <3>2. begun \in FW!Calls
      BY <3>1 DEF FW!Doing, FW!Calls
    <3>3. /\ begun.op = "apply" /\ begun.todo = Ruleset(using[t])
          /\ begun.added = <<>> /\ begun.existed = "unread"
      BY DEF FW!Doing
    <3> QED BY <3>2, <3>3
  <2> HIDE DEF begun
  <2>6. ApplyInstalls'
    BY <1>3, <2>1, <2>2 DEF TypeOK, ApplyInstalls, FW!FwTypeOK
  <2>7. PinIsLast' /\ UnpinIsFirst'
    BY <1>1, <1>3, <2>1 DEF TypeOK, PinIsLast, UnpinIsFirst, UsesConfig, Armed
  <2>8. PinIsGuarded'
    BY <1>3, <2>1, <2>2, EmptySet DEF TypeOK, PinIsGuarded, Armed, Spares, FW!FwTypeOK
  <2> QED BY <2>6, <2>7, <2>8
<1> QED BY <1>2, <1>3 DEF ProbeTor

\* apply returns with its whole list installed: what the pin relies on.
LEMMA ArmDoneInv ==
  ASSUME Alone, Frame, Guarded, NEW t \in Thread, ArmDone(t)
  PROVE  Guarded'
<1> USE DEF Alone, Frame, Guarded, Memory, Process
<1>1. /\ pc[t] = "arm" /\ call[t].op = "apply" /\ call[t].todo = <<>>
      /\ call' = [call EXCEPT ![t] = FW!NoCall]
      /\ UNCHANGED <<installed, dns, up, oplock, cfg, saved, tor, using, found>>
      /\ applied' = [applied EXCEPT ![t] = TRUE]
      /\ pc' = [pc EXCEPT ![t] = IF using[t].lock_resolv THEN "pin" ELSE "report"]
  BY DEF ArmDone, FW!ApplyReturns, FW!Returning, Goto
<1>3. Armed(using[t])
  BY <1>1, EmptySet, RulesTyped DEF TypeOK, ApplyInstalls, Armed
<1>8. ApplyInstalls'
  BY <1>1, NoCallIdle DEF TypeOK, ApplyInstalls, FW!FwTypeOK
<1>9. PinIsLast' /\ UnpinIsFirst'
  BY <1>1, <1>3 DEF TypeOK, PinIsLast, UnpinIsFirst, UsesConfig, Armed
<1>10. PinIsGuarded'
  BY <1>1, NoCallIdle, EmptySet DEF TypeOK, PinIsGuarded, Armed, Spares, FW!FwTypeOK
<1> QED BY <1>8, <1>9, <1>10

\* apply raises with rules_applied still False: the rollback removes nothing.
LEMMA ArmFailedInv ==
  ASSUME Alone, Frame, Guarded, NEW t \in Thread, ArmFailed(t)
  PROVE  Guarded'
<1> USE DEF Alone, Frame, Guarded, Memory, Process
<1>1. /\ pc[t] = "arm"
      /\ call' = [call EXCEPT ![t] = FW!NoCall]
      /\ UNCHANGED <<installed, dns, up, oplock, cfg, saved, tor, using, applied, found>>
      /\ pc' = [pc EXCEPT ![t] = "unpin"]
  BY DEF ArmFailed, FW!ApplyRaises, FW!Returning, Continues, Goto
<1>7. ApplyInstalls'
  BY <1>1, NoCallIdle DEF TypeOK, ApplyInstalls, FW!FwTypeOK
<1>8. PinIsLast' /\ UnpinIsFirst'
  BY <1>1 DEF TypeOK, PinIsLast, UnpinIsFirst, UsesConfig, Armed
<1>9. PinIsGuarded'
  BY <1>1, NoCallIdle, EmptySet DEF TypeOK, PinIsGuarded, Armed, Spares, FW!FwTypeOK
<1> QED BY <1>7, <1>8, <1>9

-----------------------------------------------------------------------------
(* The same inside the firewall *)

\* What such a step may do to the invariant: d is the call after it.
LEMMA InsideInv ==
  ASSUME Alone, Frame, Guarded, NEW t \in Thread, call[t].op # "idle",
         NEW d \in FW!Calls, call' = [call EXCEPT ![t] = d],
         d.op = call[t].op \/ (call[t].op = "apply" /\ d.op = "undo"),
         d.existed # "unread" => d.op = "apply" /\ d.todo # <<>>,
         installed' \subseteq Rule, UNCHANGED <<Memory, oplock, own, dns>>,
         d.op = "apply" =>
           ToSet(Ruleset(using[t])) \subseteq installed' \union ToSet(d.todo),
         \A r : dns = "pin" /\ r \in installed /\ Spares(t, r) =>
           /\ r \in installed' /\ r \notin ToSet(d.added)
           /\ d.op = "undo" => r \notin ToSet(d.todo)
           /\ d.existed = "no" => Head(d.todo) # r
  PROVE  Guarded'
<1> USE DEF Alone, Frame, Guarded, Memory, own, Process
<1>1. call'[t] = d /\ \A u \in Thread : u # t => call'[u] = call[u]
  BY DEF TypeOK, FW!FwTypeOK
<1>2. /\ oplock = t
      /\ \A u \in Thread \ {t} : call[u] = FW!NoCall /\ pc[u] \notin Locked
  BY OneCaller
<1>3. pc[t] \in {"arm", "remove", "unarm"}
  BY NoCallIdle DEF CallsInPlace
<1>5. UnpinIsFirst'
  BY DEF LockIsHeld, DeadIsIdle, UnpinIsFirst
<1>7. ApplyInstalls'
  BY <1>1, <1>2, NoCallIdle DEF ApplyInstalls
<1>8. PinIsLast'
  BY <1>2, <1>3 DEF PinIsLast, Locked, Connecting
<1>9. PinIsGuarded'
  <2>1. SUFFICES ASSUME dns = "pin" PROVE PinIsGuarded'
    BY DEF PinIsGuarded
  <2>2. up = "serving"
    BY OneCaller
  <2>3. PICK c \in Config :
          Armed(c) /\ \A u \in Thread : Spares(u, Route(c)) /\ Spares(u, Drop(c))
    BY <2>1, <2>2 DEF PinIsGuarded
  <2>4. Armed(c)'
    BY <2>1, <2>3 DEF Armed
  <2>5. Spares(t, Route(c))' /\ Spares(t, Drop(c))'
    BY <1>1, <2>1, <2>3 DEF Armed, Spares
  <2>6. \A u \in Thread : u # t => Spares(u, Route(c))' /\ Spares(u, Drop(c))'
    BY <1>1, <2>3 DEF Spares
  <2> QED BY <2>4, <2>5, <2>6 DEF PinIsGuarded
<1> QED BY <1>5, <1>7, <1>8, <1>9

\* Looking at a rule: "no" is answered only of a rule that is not there.
LEMMA ProbeInv ==
  ASSUME Alone, Frame, Guarded, NEW t \in Thread, FW!Probe(t),
         UNCHANGED <<Memory, oplock, own, dns>>
  PROVE  Guarded'
<1> DEFINE d == [call[t] EXCEPT !.existed =
                   IF Head(call[t].todo) \in installed THEN "yes" ELSE "no"]
<1>1. /\ call[t] \in FW!Calls /\ call[t].op = "apply" /\ call[t].todo # <<>>
      /\ call' = [call EXCEPT ![t] = d] /\ installed' = installed
      /\ installed \subseteq Rule
  BY DEF FW!Probe, Frame, Guarded, TypeOK, FW!FwTypeOK, Process
<1>2. /\ d \in FW!Calls /\ d.op = "apply"
      /\ d.todo = call[t].todo /\ d.added = call[t].added
      /\ d.existed = "no" => Head(d.todo) \notin installed
  BY <1>1 DEF FW!Calls
<1> HIDE DEF d
<1>3. ToSet(Ruleset(using[t])) \subseteq installed' \union ToSet(d.todo)
  BY <1>1, <1>2 DEF Frame, Guarded, ApplyInstalls
<1>4. \A r : dns = "pin" /\ r \in installed /\ Spares(t, r) =>
        /\ r \in installed' /\ r \notin ToSet(d.added)
        /\ d.existed = "no" => Head(d.todo) # r
  BY <1>1, <1>2 DEF Spares
<1> QED BY <1>1, <1>2, <1>3, <1>4, InsideInv

\* Adding a rule: it is remembered for the rollback only if it was not there.
LEMMA EnsureInv ==
  ASSUME Alone, Frame, Guarded, NEW t \in Thread, FW!Ensure(t),
         UNCHANGED <<Memory, oplock, own, dns>>
  PROVE  Guarded'
<1> DEFINE first == Head(call[t].todo)
           added == IF call[t].existed = "no" THEN Append(call[t].added, first)
                                              ELSE call[t].added
           d == FW!Doing("apply", Tail(call[t].todo), added)
<1>1. /\ call[t] \in FW!Calls /\ call[t].op = "apply"
      /\ call' = [call EXCEPT ![t] = d]
      /\ installed' = installed \union {first}
      /\ installed \subseteq Rule /\ call[t].todo # <<>>
      /\ call[t].todo \in Seq(Rule) /\ call[t].added \in Seq(Rule)
  BY DEF FW!Ensure, Frame, Guarded, TypeOK, FW!FwTypeOK, Process, FW!Calls, CallsInPlace
<1>2. /\ first \in Rule /\ Tail(call[t].todo) \in Seq(Rule)
      /\ ToSet(call[t].todo) = {first} \union ToSet(Tail(call[t].todo))
  BY <1>1, HeadTail
<1>3. /\ added \in Seq(Rule)
      /\ \A r \in ToSet(added) :
           r \in ToSet(call[t].added) \/ (call[t].existed = "no" /\ r = first)
  BY <1>1, <1>2, AppendSet
<1> HIDE DEF first, added
<1>4. d \in FW!Calls
  BY <1>2, <1>3 DEF FW!Doing, FW!Calls
<1>5. /\ d.op = "apply" /\ d.todo = Tail(call[t].todo) /\ d.added = added
      /\ d.existed = "unread"
  BY DEF FW!Doing
<1> HIDE DEF d
<1>6. ToSet(Ruleset(using[t])) \subseteq installed' \union ToSet(d.todo)
  BY <1>1, <1>2, <1>5 DEF Frame, Guarded, ApplyInstalls
<1>7. \A r : dns = "pin" /\ r \in installed /\ Spares(t, r) =>
        r \in installed' /\ r \notin ToSet(d.added)
  BY <1>1, <1>3, <1>5 DEF Spares, first
<1> QED BY <1>1, <1>2, <1>4, <1>5, <1>6, <1>7, InsideInv

\* The rollback of apply goes through what this call added, and nothing else.
LEMMA ApplyFailsInv ==
  ASSUME Alone, Frame, Guarded, NEW t \in Thread, FW!ApplyFails(t),
         UNCHANGED <<Memory, oplock, own, dns>>
  PROVE  Guarded'
<1> DEFINE d == FW!Doing("undo", Reverse(call[t].added), <<>>)
<1> HIDE DEF d
<1>1. /\ call[t] \in FW!Calls /\ call[t].op = "apply"
      /\ call' = [call EXCEPT ![t] = d] /\ installed' = installed
      /\ installed \subseteq Rule /\ call[t].added \in Seq(Rule)
  <2>1. call' = [call EXCEPT ![t] = d]
    BY DEF FW!ApplyFails, FW!Calling, FW!Reverse, Reverse, d
  <2> QED BY <2>1 DEF FW!ApplyFails, Frame, Guarded, TypeOK, FW!FwTypeOK, Process, FW!Calls
<1>2. /\ Reverse(call[t].added) \in Seq(Rule)
      /\ ToSet(Reverse(call[t].added)) = ToSet(call[t].added)
  BY <1>1, ReverseSet
<1>3. d \in FW!Calls
  BY <1>2, EmptyTyped DEF d, FW!Doing, FW!Calls
<1>4. /\ d.op = "undo" /\ d.todo = Reverse(call[t].added) /\ d.added = <<>>
      /\ d.existed = "unread"
  BY DEF d, FW!Doing
<1>5. \A r : dns = "pin" /\ r \in installed /\ Spares(t, r) =>
        /\ r \in installed' /\ r \notin ToSet(d.added)
        /\ d.op = "undo" => r \notin ToSet(d.todo)
  BY <1>1, <1>2, <1>4, EmptySet DEF Spares
<1> QED BY <1>1, <1>3, <1>4, <1>5, InsideInv

\* A deletion takes the head of a list that spares the rules behind the pin.
LEMMA DeleteInv ==
  ASSUME Alone, Frame, Guarded, NEW t \in Thread, FW!Delete(t),
         UNCHANGED <<Memory, oplock, own, dns>>
  PROVE  Guarded'
<1> DEFINE d == [call[t] EXCEPT !.todo = Tail(call[t].todo)]
<1>1. /\ call[t] \in FW!Calls /\ call[t].op \in {"undo", "remove"}
      /\ call[t].todo # <<>> /\ call[t].todo \in Seq(Rule)
      /\ call' = [call EXCEPT ![t] = d]
      /\ installed \ {Head(call[t].todo)} \subseteq installed'
      /\ installed' \subseteq Rule
  BY DEF FW!Delete, Frame, Guarded, TypeOK, FW!FwTypeOK, Process, FW!Calls
<1>2. /\ Tail(call[t].todo) \in Seq(Rule)
      /\ ToSet(call[t].todo) =
           {Head(call[t].todo)} \union ToSet(Tail(call[t].todo))
  BY <1>1, HeadTail
<1>3. /\ d \in FW!Calls /\ d.op = call[t].op /\ d.todo = Tail(call[t].todo)
      /\ d.added = call[t].added /\ d.existed = call[t].existed
  BY <1>1, <1>2 DEF FW!Calls
<1> HIDE DEF d
<1>4. dns = "pin" => call[t].op = "undo"
  BY <1>1, NoCallIdle DEF Frame, Guarded, CallsInPlace, UnpinIsFirst, Process
<1>5. call[t].existed = "unread"
  BY <1>1 DEF Frame, CallsInPlace, Process
<1>6. \A r : dns = "pin" /\ r \in installed /\ Spares(t, r) =>
        /\ r \in installed' /\ r \notin ToSet(d.added)
        /\ d.op = "undo" => r \notin ToSet(d.todo)
        /\ d.existed = "no" => Head(d.todo) # r
  BY <1>1, <1>2, <1>3, <1>4, <1>5 DEF Spares
<1> QED BY <1>1, <1>3, <1>5, <1>6, InsideInv

\* Every step inside the firewall keeps the invariant.
LEMMA FirewallStepInv ==
  ASSUME Alone, Frame, Guarded, NEW t \in Thread, FirewallStep(t)
  PROVE  Guarded'
BY ProbeInv, EnsureInv, ApplyFailsInv, DeleteInv DEF FirewallStep, FW!Inside

-----------------------------------------------------------------------------
(* The same when the resolver changes *)

\* The resolver is pinned: the rules of this session are behind it, and the
\* lock keeps every other thread away from them.
LEMMA PinInv ==
  ASSUME Alone, Frame, Guarded, NEW t \in Thread, Pin(t)
  PROVE  Guarded'
<1> USE DEF Alone, Frame, Guarded, Pin, Continues, Goto, Memory, Process
<1>3. ApplyInstalls'
  BY NoCallIdle DEF TypeOK, CallsInPlace, DeadIsIdle, ApplyInstalls
<1>4. PinIsLast'
  BY DEF TypeOK, PinIsLast, Armed
<1>5. /\ using[t] \in Config /\ Armed(using[t]) /\ oplock = t
      /\ \A u \in Thread : call[u] = FW!NoCall
      /\ \A u \in Thread : u # t => pc[u] \notin Locked
  <2>1. using[t] \in Config /\ Armed(using[t]) /\ oplock = t
    BY DEF TypeOK, PinIsLast, LockIsHeld, Locked, Connecting
  <2>2. ASSUME NEW u \in Thread, call[u].op # "idle" PROVE FALSE
    <3>1. u = t
      BY <2>1, <2>2, OneCaller
    <3>2. call[t] = FW!NoCall
      BY DEF CallsInPlace
    <3> QED BY <2>2, <3>1, <3>2, NoCallIdle
  <2> QED BY <2>1, <2>2, NoCallIdle DEF CallsInPlace, LockIsHeld
<1>6. UnpinIsFirst'
  BY <1>5 DEF TypeOK, UnpinIsFirst, Locked, Connecting, Disconnecting
<1>7. PinIsGuarded'
  <2>1. \A r : \A u \in Thread : Spares(u, r)'
    BY <1>5, NoCallIdle, EmptySet DEF Spares
  <2>2. Armed(using[t])'
    BY <1>5 DEF Armed
  <2> QED BY <1>5, <2>1, <2>2 DEF PinIsGuarded
<1> QED BY <1>3, <1>4, <1>6, <1>7

\* The resolver of a host on its own is written back or the call raises.
LEMMA UnlocksMeans ==
  ASSUME Alone, Unlocks
  PROVE  dns' = "real"
BY DEF Alone, Unlocks

\* The rollback of connect unpins before it removes rules.
LEMMA RollbackDnsInv ==
  ASSUME Alone, Frame, Guarded, NEW t \in Thread, RollbackDns(t)
  PROVE  Guarded'
<1> USE DEF Alone, Frame, Guarded, RollbackDns, Continues, Goto, Memory, Process
<1>1. dns' = "real" \/ dns' = dns
  BY UnlocksMeans DEF UnlockRaises
<1>2. pc'[t] = "unarm" => dns' = "real" \/ ~using[t].lock_resolv
  BY UnlocksMeans DEF TypeOK
<1>5. ApplyInstalls'
  BY NoCallIdle DEF TypeOK, CallsInPlace, DeadIsIdle, ApplyInstalls
<1>6. PinIsLast'
  BY DEF TypeOK, PinIsLast, Armed
<1>7. UnpinIsFirst'
  BY <1>1, <1>2 DEF TypeOK, UnpinIsFirst
<1>8. PinIsGuarded'
  BY <1>1 DEF PinIsGuarded, Armed, Spares
<1> QED BY <1>5, <1>6, <1>7, <1>8

\* disconnect unpins before it removes rules.
LEMMA RestoreDnsInv ==
  ASSUME Alone, Frame, Guarded, NEW t \in Thread, RestoreDns(t)
  PROVE  Guarded'
<1> USE DEF Alone, Frame, Guarded, RestoreDns, Memory, Process
<1>1. CASE UnlockRaises /\ Answers(t)
  BY <1>1, AnswersInv DEF UnlockRaises, TypeOK
<1>2. CASE /\ Unlocks /\ UNCHANGED oplock
           /\ Continues(t, IF using[t].uid = NoUid THEN "report" ELSE "remove")
  <2> USE DEF Continues, Goto
  <2>1. dns' = "real"
    BY <1>2, UnlocksMeans
  <2>4. ApplyInstalls'
    BY <1>2, NoCallIdle DEF TypeOK, CallsInPlace, DeadIsIdle, ApplyInstalls
  <2>5. PinIsLast' /\ UnpinIsFirst' /\ PinIsGuarded'
    BY <1>2, <2>1 DEF TypeOK, PinIsLast, UnpinIsFirst, UsesConfig, PinIsGuarded, Armed
  <2> QED BY <2>4, <2>5
<1> QED BY <1>1, <1>2

-----------------------------------------------------------------------------
(* The same when a removal begins and ends *)

\* A removal begins: the resolver is the user's own, so nothing depends on
\* the rules any more.
LEMMA RemovalInv ==
  ASSUME Alone, Frame, Guarded, NEW t \in Thread, FW!RemoveRules(t, using[t]),
         pc[t] = "remove" \/ (pc[t] = "unarm" /\ applied[t]),
         UNCHANGED <<Memory, oplock, own, dns>>
  PROVE  Guarded'
<1> USE DEF Alone, Frame, Guarded, Memory, own, Process
<1>1. PICK list \in Removals(using[t]) :
        call' = [call EXCEPT ![t] = FW!Doing("remove", list, <<>>)]
  BY DEF FW!RemoveRules, FW!Calling
<1> DEFINE d == FW!Doing("remove", list, <<>>)
<1>2. list \in Seq(Rule)
  BY RulesTyped DEF TypeOK
<1>3. d \in FW!Calls
  BY <1>2, EmptyTyped DEF FW!Doing, FW!Calls
<1>4. d.op = "remove" /\ d.existed = "unread"
  BY DEF FW!Doing
<1> HIDE DEF d
<1>5. call' = [call EXCEPT ![t] = d] /\ installed' = installed
  BY <1>1 DEF d, FW!RemoveRules
<1>6. dns = "real"
  BY DEF UnpinIsFirst
<1>8. UnpinIsFirst'
  BY DEF LockIsHeld, DeadIsIdle, UnpinIsFirst
<1>9. ApplyInstalls'
  BY <1>4, <1>5 DEF CallsInPlace, ApplyInstalls, TypeOK, FW!FwTypeOK
<1>10. PinIsLast' /\ PinIsGuarded'
  BY <1>5, <1>6 DEF PinIsLast, PinIsGuarded, Armed
<1> QED BY <1>8, <1>9, <1>10

\* The rollback removes rules only from behind an unpinned resolver.
LEMMA RollbackRulesInv ==
  ASSUME Alone, Frame, Guarded, NEW t \in Thread, RollbackRules(t)
  PROVE  Guarded'
<1> USE DEF Alone, Frame, Guarded, RollbackRules, Process
<1>1. CASE applied[t] /\ FW!RemoveRules(t, using[t]) /\ UNCHANGED own
  BY <1>1, RemovalInv
<1>2. CASE ~applied[t] /\ Continues(t, "failed") /\ UNCHANGED <<installed, call>>
  <2> USE <1>2 DEF Continues, Goto, Memory
  <2>3. ApplyInstalls'
    BY NoCallIdle DEF TypeOK, CallsInPlace, DeadIsIdle, ApplyInstalls
  <2>4. PinIsLast' /\ UnpinIsFirst' /\ PinIsGuarded'
    BY DEF TypeOK, PinIsLast, UnpinIsFirst, UsesConfig, PinIsGuarded, Armed, Spares
  <2> QED BY <2>3, <2>4
<1> QED BY <1>1, <1>2

\* So does disconnect.
LEMMA DisarmInv ==
  ASSUME Alone, Frame, Guarded, NEW t \in Thread, Disarm(t)
  PROVE  Guarded'
BY RemovalInv DEF Disarm

\* A removal ends.
LEMMA RemovedInv ==
  ASSUME Alone, Frame, Guarded, NEW t \in Thread, FW!RemoveReturns(t),
         pc[t] \in {"unarm", "remove"},
         Continues(t, IF pc[t] = "unarm" THEN "failed" ELSE "report"),
         UNCHANGED <<Memory, oplock, dns>>
  PROVE  Guarded'
<1> USE DEF Alone, Frame, Guarded, Memory, Process, Continues, Goto
<1>1. call' = [call EXCEPT ![t] = FW!NoCall] /\ installed' = installed
  BY DEF FW!RemoveReturns, FW!Returning
<1>4. ApplyInstalls'
  BY <1>1, NoCallIdle DEF TypeOK, CallsInPlace, DeadIsIdle, ApplyInstalls, FW!FwTypeOK
<1>5. PinIsLast' /\ UnpinIsFirst'
  BY <1>1 DEF TypeOK, PinIsLast, UnpinIsFirst, UsesConfig, Armed
<1>6. PinIsGuarded'
  BY <1>1, NoCallIdle, EmptySet DEF TypeOK, PinIsGuarded, Armed, Spares, FW!FwTypeOK
<1> QED BY <1>4, <1>5, <1>6

-----------------------------------------------------------------------------
(* The same when the daemon dies and starts *)

\* A killed daemon leaves the rules behind its pin where they are.
LEMMA CrashInv == ASSUME Alone, Frame, Guarded, Crash PROVE Guarded'
<1> USE DEF Alone, Frame, Guarded, Crash, Gone, Process
<1>1. /\ \A t \in Thread : pc'[t] = "idle" /\ call'[t] = FW!NoCall
      /\ oplock' = NoOne /\ up' = "down"
  OBVIOUS
<1>4. ApplyInstalls'
  BY <1>1, NoCallIdle DEF CallsInPlace, DeadIsIdle, ApplyInstalls
<1>5. PinIsLast' /\ UnpinIsFirst'
  BY <1>1 DEF PinIsLast, UnpinIsFirst
<1>6. PinIsGuarded'
  BY <1>1, NoCallIdle, EmptySet DEF PinIsGuarded, Armed, Spares
<1> QED BY <1>4, <1>5, <1>6

\* A reboot takes every rule, and the daemon is not serving.
LEMMA RebootInv == ASSUME Alone, Frame, Guarded, Reboot PROVE Guarded'
<1> USE DEF Alone, Frame, Guarded, Reboot, Gone, Process, FW!Flush
<1>1. /\ \A t \in Thread : pc'[t] = "idle" /\ call'[t] = FW!NoCall
      /\ oplock' = NoOne /\ up' = "down" /\ installed' = {}
  OBVIOUS
<1>4. ApplyInstalls'
  BY <1>1, NoCallIdle DEF CallsInPlace, DeadIsIdle, ApplyInstalls
<1>5. PinIsLast' /\ UnpinIsFirst'
  BY <1>1 DEF PinIsLast, UnpinIsFirst
<1>6. PinIsGuarded'
  BY <1>1 DEF PinIsGuarded
<1> QED BY <1>4, <1>5, <1>6

\* A start, a change of Tor, and what happens to the resolver alone: no
\* thread moves, no rule changes, and the resolver is never newly pinned.
LEMMA LifeInv ==
  ASSUME Alone, Frame, Guarded, UNCHANGED <<oplock, own, installed, call>>,
         cfg' \in Config, saved' \in Config, tor' \in BOOLEAN,
         up' \in {"down", "starting", "orphaned", "serving"},
         dns' \in {dns, "real"}, up = "serving" => up' = "serving",
         up # "serving" /\ up' = "serving" /\ dns' = "pin" => installed # {}
  PROVE  Guarded'
<1> USE DEF Alone, Frame, Guarded, own, Process
<1>2. ApplyInstalls'
  BY DEF LockIsHeld, CallsInPlace, DeadIsIdle, ApplyInstalls
<1>3. PinIsLast' /\ UnpinIsFirst'
  BY DEF PinIsLast, UnpinIsFirst, Armed
<1>4. PinIsGuarded'
  BY DEF PinIsGuarded, Armed, Spares
<1> QED BY <1>2, <1>3, <1>4

\* The recovery at start serves with a pin only over an armed killswitch.
LEMMA RecoveryInv ==
  ASSUME Alone, Frame, Guarded, Start \/ RecoverChecks \/ RecoverRestores
  PROVE  Guarded'
<1>1. TypeOK
  BY DEF Frame
<1>2. CASE Start
  BY <1>1, <1>2, LifeInv DEF Start, TypeOK
<1>3. CASE RecoverChecks
  <2>1. dns' = dns /\ UNCHANGED <<cfg, saved, tor, oplock, own, installed, call>>
    BY <1>3 DEF RecoverChecks
  <2>2. up' = "serving" /\ dns' = "pin" => Drop(cfg) \in installed
    <3>1. PICK routing \in Probes(cfg) :
            up' = IF dns = "pin" /\ ~routing THEN "orphaned" ELSE "serving"
      BY <1>3 DEF RecoverChecks
    <3>2. routing \in BOOLEAN
      BY DEF Probes, Killswitch
    <3>3. routing => Killswitch(cfg)
      BY <3>2, ProbeTells
    <3> QED BY <2>1, <3>1, <3>3 DEF Killswitch
  <2>3. up = "starting" /\ up' \in {"orphaned", "serving"}
    BY <1>3 DEF RecoverChecks
  <2> QED BY <1>1, <2>1, <2>2, <2>3, LifeInv DEF TypeOK
<1>4. CASE RecoverRestores
  <2>1. /\ up = "orphaned" /\ up' = "serving"
        /\ UNCHANGED <<cfg, saved, tor, oplock, own, installed, call>>
    BY <1>4 DEF RecoverRestores
  <2>2. CASE dns' = "real"
    BY <1>1, <2>1, <2>2, LifeInv DEF TypeOK
  <2>3. CASE dns' = dns /\ "blind" \in Faults
    <3>1. dns = "pin" => installed # {}
      BY <2>3 DEF Alone, Frame, Guarded, PinIsGuarded, Armed
    <3> QED BY <1>1, <2>1, <2>3, <3>1, LifeInv DEF TypeOK
  <2> QED BY <1>4, <2>2, <2>3 DEF RecoverRestores
<1> QED BY <1>2, <1>3, <1>4

\* Every step of the process, the host and Tor keeps the invariant.
LEMMA EnvironmentInv ==
  ASSUME Alone, Frame, Guarded, TorChanges \/ DhcpReplacesPin
  PROVE  Guarded'
<1>1. TypeOK
  BY DEF Frame
<1>2. CASE TorChanges
  BY <1>1, <1>2, LifeInv DEF TorChanges, TypeOK
<1>3. CASE DhcpReplacesPin
  BY <1>1, <1>3, LifeInv DEF DhcpReplacesPin, TypeOK, Memory
<1> QED BY <1>2, <1>3

\* Every step of a handler thread keeps the invariant.
LEMMA ThreadInv ==
  ASSUME Alone, Frame, Guarded, NEW t \in Thread, ThreadNext(t)
  PROVE  Guarded'
<1>1. CASE Connect(t) \/ Disconnect(t)
  BY <1>1, ConnectInv, DisconnectInv
<1>2. CASE \E new \in Config : UpdateConfig(t, new)
  BY <1>2, UpdateConfigInv
<1>3. CASE TorrcStep(t) \/ ProbeTor(t) \/ ArmDone(t) \/ ArmFailed(t) \/ Pin(t)
  BY <1>3, TorrcStepInv, ProbeTorInv, ArmDoneInv, ArmFailedInv, PinInv
<1>4. CASE RollbackDns(t) \/ RollbackRules(t) \/ RestoreDns(t) \/ Disarm(t)
  BY <1>4, RollbackDnsInv, RollbackRulesInv, RestoreDnsInv, DisarmInv
<1>5. CASE RollbackDone(t)
  BY <1>5, RemovedInv DEF RollbackDone
<1>6. CASE DisarmDone(t)
  BY <1>6, RemovedInv DEF DisarmDone
<1>7. CASE ConnectRaises(t) \/ Report(t)
  BY <1>7, AnswersInv DEF ConnectRaises, Report, Memory, Frame, Guarded, TypeOK
<1>8. CASE FirewallStep(t) \/ Save(t)
  BY <1>8, FirewallStepInv, SaveInv
<1> QED
  BY <1>1, <1>2, <1>3, <1>4, <1>5, <1>6, <1>7, <1>8
  DEF ThreadNext, Step, ConnectStep, DisconnectStep

\* The order of pin and rules, for a daemon on its own.
LEMMA GuardedHolds == ASSUME Alone PROVE Spec => []Guarded
<1>1. Init => Guarded
  BY NoCallIdle DEF Init, Guarded, ApplyInstalls, PinIsLast, UnpinIsFirst, PinIsGuarded,
                    FW!FwInit, Process
<1>2. ASSUME Frame, Guarded, [Next]_vars PROVE Guarded'
  <2>1. ASSUME NEW t \in Thread, ThreadNext(t) PROVE Guarded'
    BY <1>2, <2>1, ThreadInv
  <2>2. CASE Life
    BY <1>2, <2>2, CrashInv, RebootInv, RecoveryInv, EnvironmentInv DEF Life
  <2>3. CASE UNCHANGED vars
    <3>1. /\ up' = up /\ dns' = dns /\ TypeOK
          /\ UNCHANGED <<cfg, saved, tor, oplock, own, installed, call>>
      BY <1>2, <2>3 DEF vars, Frame
    <3> QED BY <1>2, <3>1, LifeInv DEF TypeOK
  <2> QED BY <1>2, <2>1, <2>2, <2>3 DEF Next, Alone
<1> QED BY <1>1, <1>2, FrameHolds, PTL DEF Spec

-----------------------------------------------------------------------------
(* Why a failed first connect leaves nothing *)

\* Only the thread that moves can be inside a connect.
LEMMA OneTraces ==
  ASSUME Frame, Traced, NEW t \in Thread, pc[t] \in Locked \/ MayEnter(t),
         \A u \in Thread : u # t => pc'[u] = pc[u],
         TracesOwnSteps(t)'
  PROVE  Traced'
<1>1. ASSUME NEW u \in Thread, u # t PROVE pc'[u] \notin Connecting
  BY <1>1, DaemonAssumption DEF Frame, LockIsHeld, MayEnter, Locked
<1> QED BY <1>1 DEF Traced, TracesOwnSteps

\* A step that leaves the connect, or is of another operation.
LEMMA OutsideTraces ==
  ASSUME Frame, Traced, NEW t \in Thread, pc[t] \in Locked \/ MayEnter(t), NEW place,
         pc' = [pc EXCEPT ![t] = place], place \notin Connecting
  PROVE  Traced'
<1>1. pc'[t] = place /\ \A u \in Thread : u # t => pc'[u] = pc[u]
  BY DEF Frame, TypeOK, Process
<1>2. TracesOwnSteps(t)'
  BY <1>1 DEF TracesOwnSteps
<1> QED BY <1>1, <1>2, OneTraces

\* A connect begins: it finds an untouched host or another.
LEMMA ConnectTraces ==
  ASSUME Frame, Traced, NEW t \in Thread, Connect(t)
  PROVE  Traced'
<1>1. /\ pc'[t] = "torrc" /\ applied'[t] = FALSE /\ found'[t] = Host /\ call'[t] = FW!NoCall
      /\ \A u \in Thread : u # t => pc'[u] = pc[u]
      /\ UNCHANGED <<dns, installed>>
  BY DEF Connect, MayEnter, Starts, Goto, Frame, TypeOK, CallsInPlace, Process
<1>2. Host = NoHost => installed = {} /\ dns = "real"
  BY DEF Host, NoHost
<1>3. NoHost' = NoHost
  BY DEF NoHost
<1>4. TracesOwnSteps(t)'
  BY <1>1, <1>2, <1>3, NoCallIdle DEF TracesOwnSteps, OnlyBefore
<1> QED BY <1>1, <1>4, OneTraces DEF Connect

\* A connect goes on outside the firewall.
LEMMA GoesOnTraces ==
  ASSUME Frame, Traced, NEW t \in Thread, pc[t] \in Connecting \ {"arm"},
         NEW place \in {"probe", "unpin", "unarm", "failed"}, Continues(t, place),
         place = "failed" => ~applied[t],
         dns' \in {dns, "real"}, call[t] = FW!NoCall, UNCHANGED <<installed, call>>
  PROVE  Traced'
<1>1. /\ pc'[t] = place /\ place \in Connecting \ {"arm"}
      /\ \A u \in Thread : u # t => pc'[u] = pc[u]
      /\ UNCHANGED <<using, applied, found>>
  BY DEF Continues, Goto, Frame, TypeOK, Process, Connecting
<1>2. TracesOwnSteps(t)'
  BY <1>1, NoCallIdle DEF Traced, TracesOwnSteps, OnlyBefore, NoHost
<1> QED BY <1>1, <1>2, OneTraces DEF Locked

\* apply begins on a host without rules.
LEMMA ProbeTorTraces ==
  ASSUME Frame, Traced, NEW t \in Thread, ProbeTor(t)
  PROVE  Traced'
<1>1. pc[t] = "probe" /\ ~applied[t] /\ call[t] = FW!NoCall
  BY DEF ProbeTor, Frame, CallsInPlace, UsesConfig, Process
<1>2. CASE ~tor /\ Continues(t, "unpin") /\ UNCHANGED <<installed, call>>
  BY <1>1, <1>2, GoesOnTraces DEF ProbeTor, Connecting
<1>3. CASE tor /\ Continues(t, "arm") /\ FW!ApplyRules(t, using[t])
  <2>1. /\ call'[t] = FW!Doing("apply", Ruleset(using[t]), <<>>)
        /\ pc'[t] = "arm" /\ \A u \in Thread : u # t => pc'[u] = pc[u]
        /\ UNCHANGED <<dns, installed, using, applied, found>>
    BY <1>3 DEF ProbeTor, FW!ApplyRules, FW!Calling, Continues, Goto, Frame, TypeOK,
                FW!FwTypeOK, Process
  <2>2. call'[t].op = "apply" /\ call'[t].existed = "unread"
    BY <2>1 DEF FW!Doing
  <2>3. TracesOwnSteps(t)'
    BY <1>1, <2>1, <2>2
       DEF Traced, TracesOwnSteps, OnlyAdded, OnlyBefore, Connecting, NoHost
  <2> QED BY <1>1, <2>1, <2>3, OneTraces DEF Locked, Connecting
<1> QED BY <1>2, <1>3 DEF ProbeTor

\* A call of the firewall ends with nothing left to do: everything is in, or
\* everything it added is out.
LEMMA ReturnTraces ==
  ASSUME Frame, Traced, NEW t \in Thread, ArmDone(t) \/ ArmFailed(t) \/ RollbackDone(t)
  PROVE  Traced'
<1>1. /\ pc[t] \in {"arm", "unarm"} /\ call[t].todo = <<>> /\ call'[t] = FW!NoCall
      /\ \A u \in Thread : u # t => pc'[u] = pc[u]
      /\ UNCHANGED <<dns, installed, using, found>>
      /\ \/ /\ pc[t] = "arm" /\ call[t].op = "apply" /\ applied'[t]
            /\ pc'[t] \in {"pin", "report"}
         \/ /\ pc[t] = "arm" /\ call[t].op = "undo" /\ applied'[t] = applied[t]
            /\ pc'[t] = "unpin"
         \/ /\ pc[t] = "unarm" /\ call[t].op = "remove" /\ applied'[t] = applied[t]
            /\ pc'[t] = "failed"
  BY DEF ArmDone, ArmFailed, RollbackDone, FW!ApplyReturns, FW!ApplyRaises,
         FW!RemoveReturns, FW!Returning, Continues, Goto, Frame, TypeOK, FW!FwTypeOK, Process
<1>2. ToSet(call[t].todo) = {} /\ (pc[t] = "arm" => ~applied[t])
  BY <1>1, EmptySet DEF Frame, UsesConfig
<1>3. call[t].op = "apply" => ToSet(call[t].added) \subseteq ToSet(Ruleset(using[t]))
  BY DEF Frame, CallsOfConfig, Process
<1>4. NoHost' = NoHost /\ OnlyBefore(t)'
  BY <1>1, NoCallIdle DEF NoHost, OnlyBefore
<1>5. TracesOwnSteps(t)'
  <2>1. SUFFICES ASSUME pc'[t] \in Connecting, found[t] = NoHost PROVE TracesOwnSteps(t)'
    BY <1>1, <1>4 DEF TracesOwnSteps
  <2>2. pc[t] \in Connecting
    BY <1>1 DEF Connecting
  <2>3. /\ dns = "real" /\ OnlyBefore(t) /\ (pc[t] = "arm" => OnlyAdded(t))
    BY <2>1, <2>2 DEF Traced, TracesOwnSteps
  <2>4. CASE pc[t] = "arm" /\ call[t].op = "apply"
    <3>1. installed \subseteq ToSet(Ruleset(using[t]))
      BY <1>3, <2>3, <2>4 DEF OnlyAdded
    <3> QED BY <1>1, <1>4, <2>3, <2>4, <3>1 DEF TracesOwnSteps
  <2>5. CASE ~(pc[t] = "arm" /\ call[t].op = "apply")
    <3>1. installed = {}
      BY <1>1, <1>2, <2>3, <2>5 DEF OnlyAdded, OnlyBefore
    <3> QED BY <1>1, <1>4, <2>3, <2>5, <3>1 DEF TracesOwnSteps
  <2> QED BY <2>4, <2>5
<1> QED BY <1>1, <1>5, OneTraces DEF Locked, Connecting

\* Inside the firewall: what this connect added grows or shrinks, and a
\* removal comes down to nothing.
LEMMA InsideTraces ==
  ASSUME Undoable, Frame, Traced, NEW t \in Thread, FirewallStep(t)
  PROVE  Traced'
<1>1. /\ UNCHANGED <<pc, using, applied, found, dns>> /\ pc[t] \in Locked
      /\ pc[t] = "arm" <=> call[t].op \in {"apply", "undo"}
      /\ pc[t] # "arm" => call[t].op = "remove"
      /\ pc[t] = "arm" => ~applied[t]
      /\ pc[t] = "unarm" => applied[t]
      /\ pc[t] \in {"arm", "unarm", "remove"}
  BY NoCallIdle
     DEF FirewallStep, own, FW!Inside, FW!Probe, FW!Ensure, FW!ApplyFails, FW!Delete,
         Frame, CallsInPlace, UsesConfig, Process, Locked, Connecting, Disconnecting
<1>2. SUFFICES ASSUME pc[t] \in Connecting, found[t] = NoHost PROVE TracesOwnSteps(t)'
  <2>1. NoHost' = NoHost
    BY DEF NoHost
  <2>2. ~(pc[t] \in Connecting /\ found[t] = NoHost) => TracesOwnSteps(t)'
    BY <1>1, <2>1 DEF TracesOwnSteps
  <2> QED BY <1>1, <1>2, <2>2, OneTraces
<1>3. PICK h \in Rule, rest \in SUBSET Rule :
        /\ ToSet(call[t].todo) = {h} \union rest
        /\ h = Head(call[t].todo)
        /\ \/ /\ call[t].op = "apply" /\ call'[t].op = "apply" /\ installed' = installed
              /\ ToSet(call'[t].todo) = ToSet(call[t].todo) /\ Head(call'[t].todo) = h
              /\ ToSet(call'[t].added) = ToSet(call[t].added)
              /\ call'[t].existed = IF h \in installed THEN "yes" ELSE "no"
           \/ /\ call[t].op = "apply" /\ call'[t].op = "apply"
              /\ call[t].existed \in {"yes", "no"} /\ call'[t].existed = "unread"
              /\ installed' = installed \union {h} /\ ToSet(call'[t].todo) = rest
              /\ ToSet(call'[t].added) =
                   ToSet(call[t].added) \union IF call[t].existed = "no" THEN {h} ELSE {}
           \/ /\ call[t].op = "apply" /\ call'[t].op = "undo" /\ installed' = installed
              /\ ToSet(call'[t].todo) = ToSet(call[t].added)
              /\ ToSet(call'[t].added) = {} /\ call'[t].existed = "unread"
           \/ /\ call[t].op \in {"undo", "remove"} /\ call'[t].op = call[t].op
              /\ call[t].existed = "unread" /\ call'[t].existed = "unread"
              /\ ToSet(call'[t].added) = ToSet(call[t].added)
              /\ ToSet(call'[t].todo) = rest /\ installed' = installed \ {h}
  BY InsideMeans DEF Process, Undoable
<1>4. /\ dns = "real" /\ OnlyBefore(t)
      /\ pc[t] = "arm" => OnlyAdded(t)
      /\ applied[t] => installed \subseteq ToSet(Ruleset(using[t]))
  BY <1>2 DEF Traced, TracesOwnSteps
<1>5. pc[t] = "arm" => OnlyAdded(t)'
  BY <1>1, <1>3, <1>4 DEF OnlyAdded
<1>6. OnlyBefore(t)'
  BY <1>3, <1>4 DEF OnlyBefore
<1>7. applied[t] => installed' \subseteq installed
  BY <1>1, <1>3
<1>8. applied'[t] => installed' \subseteq ToSet(Ruleset(using'[t]))
  BY <1>1, <1>4, <1>7
<1>9. pc'[t] # "failed" /\ (pc'[t] # "arm" => applied'[t])
  BY <1>1, <1>2 DEF Connecting
<1> QED BY <1>1, <1>4, <1>5, <1>6, <1>8, <1>9 DEF TracesOwnSteps

\* A removal begins with every rule there can be before it.
LEMMA RollbackRulesTraces ==
  ASSUME Undoable, Frame, Traced, NEW t \in Thread, RollbackRules(t)
  PROVE  Traced'
<1>1. pc[t] = "unarm" /\ call[t] = FW!NoCall
  BY NoCallIdle DEF RollbackRules, Frame, CallsInPlace, Process
<1>2. CASE ~applied[t] /\ Continues(t, "failed") /\ UNCHANGED <<installed, call>>
  BY <1>1, <1>2, GoesOnTraces DEF RollbackRules, Connecting
<1>3. CASE applied[t] /\ FW!RemoveRules(t, using[t]) /\ UNCHANGED own
  <2>1. PICK list \in Removals(using[t]) : call'[t] = FW!Doing("remove", list, <<>>)
    BY <1>3 DEF FW!RemoveRules, FW!Calling, Frame, TypeOK, FW!FwTypeOK, Process
  <2>2. /\ call'[t].op = "remove" /\ call'[t].todo = list
        /\ UNCHANGED <<pc, using, applied, found, dns, installed>>
    BY <1>3, <2>1 DEF FW!Doing, own, RollbackRules, FW!RemoveRules
  <2>3. ToSet(Ruleset(using[t])) \subseteq ToSet(list)
    BY RulesTyped, SMTT(30) DEF Undoable, Frame, TypeOK, Process
  <2>4. TracesOwnSteps(t)'
    BY <1>1, <1>3, <2>2, <2>3 DEF Traced, TracesOwnSteps, OnlyBefore, NoHost
  <2> QED BY <1>1, <2>2, <2>4, OneTraces DEF Locked, Connecting
<1> QED BY <1>2, <1>3 DEF RollbackRules

\* Every step of a thread.
LEMMA ThreadTraces ==
  ASSUME Undoable, Frame, Traced, NEW t \in Thread, ThreadNext(t)
  PROVE  Traced'
<1>1. /\ pc[t] \notin {"arm", "remove", "unarm"} \/ call[t].op = "idle" => call[t] = FW!NoCall
      /\ pc[t] \in {"torrc", "probe"} => ~applied[t]
      /\ TypeOK
  BY NoCallIdle DEF Frame, CallsInPlace, Process, UsesConfig
<1>2. CASE Connect(t)
  BY <1>2, ConnectTraces
<1>3. CASE Disconnect(t) \/ \E new \in Config : UpdateConfig(t, new)
  BY <1>3, OutsideTraces DEF Disconnect, UpdateConfig, Starts, Goto, Connecting
<1>4. CASE TorrcStep(t)
  BY <1>1, <1>4, GoesOnTraces DEF TorrcStep, Connecting
<1>5. CASE ProbeTor(t)
  BY <1>5, ProbeTorTraces
<1>6. CASE ArmDone(t) \/ ArmFailed(t) \/ RollbackDone(t)
  BY <1>6, ReturnTraces
<1>7. CASE Pin(t)
  <2>1. CASE Continues(t, "report")
    BY <1>7, <2>1, OutsideTraces DEF Pin, Continues, Goto, Connecting, Locked
  <2>2. CASE Continues(t, "unpin") /\ UNCHANGED dns
    BY <1>1, <1>7, <2>2, GoesOnTraces DEF Pin, Connecting
  <2> QED BY <1>7, <2>1, <2>2 DEF Pin, Undoable
<1>8. CASE RollbackDns(t)
  <2>1. Continues(t, "unarm") /\ dns' \in {dns, "real"}
    BY <1>8 DEF RollbackDns, Unlocks, UnlockRaises, Undoable
  <2> QED BY <1>1, <1>8, <2>1, GoesOnTraces DEF RollbackDns, Connecting
<1>9. CASE RollbackRules(t)
  BY <1>9, RollbackRulesTraces
<1>10. CASE RestoreDns(t) \/ Save(t) \/ DisarmDone(t)
  <2>1. PICK place \in {"report", "remove", "idle"} : pc' = [pc EXCEPT ![t] = place]
    BY <1>10 DEF RestoreDns, Save, DisarmDone, Continues, Goto, Answers
  <2>2. pc[t] \in Locked /\ place \notin Connecting
    BY <1>10 DEF RestoreDns, Save, DisarmDone, Locked, Connecting, Disconnecting
  <2> QED BY <2>1, <2>2, OutsideTraces
<1>11. CASE ConnectRaises(t) \/ Report(t)
  BY <1>11, OutsideTraces
     DEF ConnectRaises, Report, Answers, Locked, Connecting, Disconnecting
<1>12. CASE Disarm(t)
  <2>1. pc[t] = "remove" /\ pc' = pc
    BY <1>12 DEF Disarm, own
  <2>2. pc' = [pc EXCEPT ![t] = "remove"]
    BY <1>1, <2>1 DEF TypeOK, Process
  <2> QED BY <2>1, <2>2, OutsideTraces DEF Locked, Connecting, Disconnecting
<1>13. CASE FirewallStep(t)
  BY <1>13, InsideTraces
<1> QED
  BY <1>2, <1>3, <1>4, <1>5, <1>6, <1>7, <1>8, <1>9, <1>10, <1>11, <1>12, <1>13
  DEF ThreadNext, Step, ConnectStep, DisconnectStep

\* What a connect on an untouched host has done is in its own lists.
LEMMA TracedHolds == ASSUME Undoable PROVE Spec => []Traced
<1>1. Init => Traced
  BY DEF Init, Traced, TracesOwnSteps, Connecting, Process
<1>2. ASSUME Frame, Traced, [Next]_vars PROVE Traced'
  <2>1. ASSUME NEW t \in Thread, ThreadNext(t) PROVE Traced'
    BY <1>2, <2>1, ThreadTraces
  <2>2. CASE Crash \/ Reboot
    BY <2>2 DEF Crash, Reboot, Gone, Traced, TracesOwnSteps, Connecting, Process
  <2>3. CASE Start \/ RecoverChecks \/ RecoverRestores
    <3>1. \A t \in Thread : pc'[t] = "idle"
      BY <1>2, <2>3 DEF Start, RecoverChecks, RecoverRestores, own, Frame, DeadIsIdle
    <3> QED BY <3>1 DEF Traced, TracesOwnSteps, Connecting
  <2>4. CASE TorChanges \/ DhcpReplacesPin \/ UNCHANGED vars
    <3>1. UNCHANGED <<own, installed, call>> /\ dns' \in {dns, "real"}
      BY <2>4 DEF TorChanges, DhcpReplacesPin, vars
    <3> QED BY <1>2, <3>1
        DEF own, Traced, TracesOwnSteps, OnlyAdded, OnlyBefore, NoHost
  <2> QED BY <1>2, <2>1, <2>2, <2>3, <2>4 DEF Next, Life, Undoable
<1> QED BY <1>1, <1>2, FrameHolds, PTL DEF Spec

-----------------------------------------------------------------------------
(* Why no rule of an earlier session is left *)

\* A step that takes place outside the firewall and leaves the configuration.
LEMMA OutsideSettles ==
  ASSUME Settled, UNCHANGED <<cfg, installed, call>>,
         \A t \in Thread : pc'[t] = "arm" /\ call[t].op # "idle" => pc[t] = "arm"
  PROVE  Settled'
BY DEF Settled, Whole, Mine, Settles, OnlyBefore, OnlyAdded, Again

\* A step of a thread into, inside or out of the firewall.
LEMMA CallSettles ==
  ASSUME Frame, Settled, NEW t \in Thread, pc[t] \in Locked,
         \A u \in Thread : u # t => call'[u] = call[u],
         UNCHANGED <<cfg, up>>, Settles(t)', call'[t].op = "idle" => Whole'
  PROVE  Settled'
<1>1. up = "serving" /\ oplock = t
  BY DEF Frame, DeadIsIdle, LockIsHeld, Locked, Connecting, Disconnecting
<1>2. \A u \in Thread : u # t => call[u].op = "idle"
  BY <1>1, NoCallIdle
     DEF Frame, LockIsHeld, CallsInPlace, Process, Locked, Connecting, Disconnecting
<1>3. \A u \in Thread : u # t => Settles(u)'
  BY <1>2 DEF Settles
<1> QED BY <1>3 DEF Settled

\* Whoever holds the lock outside the firewall finds there are no rules, or
\* those of the configuration; and so does whoever may take it.
LEMMA OutsideWhole ==
  ASSUME Frame, Settled, NEW t \in Thread,
         MayEnter(t) \/ (pc[t] \in Locked /\ call[t] = FW!NoCall)
  PROVE  Whole
<1>1. \A u \in Thread : u # t => pc[u] \notin Locked
  BY DaemonAssumption DEF Frame, LockIsHeld, MayEnter
<1>2. \A u \in Thread : call[u].op = "idle"
  BY <1>1, NoCallIdle
     DEF Frame, CallsInPlace, Process, MayEnter, Locked, Connecting, Disconnecting
<1> QED BY <1>2 DEF Settled

\* The rules of a configuration are those that its user and its ports decide.
LEMMA SameRules ==
  ASSUME Steady, NEW c \in Config, NEW d \in Config, SameRouting(c, d)
  PROVE  Ruleset(c) = Ruleset(d)
BY DEF Steady, SameRouting, Ruleset, Route, Drop, Drop6

\* A new configuration comes with no rules in, or with rules it shares.
LEMMA UpdateConfigSettles ==
  ASSUME Steady, Frame, Settled, NEW t \in Thread, NEW new \in Config, UpdateConfig(t, new)
  PROVE  Settled'
<1>1. Whole /\ \A u \in Thread : call[u].op = "idle"
  <2>1. Whole
    BY OutsideWhole DEF UpdateConfig
  <2>2. \A u \in Thread : call[u].op = "idle"
    BY DaemonAssumption, NoCallIdle
       DEF UpdateConfig, MayEnter, Frame, LockIsHeld, CallsInPlace, Process, Locked,
           Connecting, Disconnecting
  <2> QED BY <2>1, <2>2
<1>2. UNCHANGED <<installed, call, up>> /\ cfg' = new /\ up = "serving" /\ cfg \in Config
  BY DEF UpdateConfig, MayEnter, Frame, TypeOK
<1>3. CASE installed = {}
  BY <1>1, <1>2, <1>3 DEF Settled, Whole, Settles
<1>4. CASE cfg.uid # NoUid /\ installed = Mine
  <2>1. Killswitch(cfg)
    BY <1>2, <1>4, RulesTyped DEF Killswitch, Mine
  <2>2. SameRouting(new, cfg)
    <3>1. Probes(cfg) = {TRUE}
      BY <2>1, ProbeTells DEF Steady, Killswitch
    <3> QED BY <3>1 DEF UpdateConfig
  <2>3. Ruleset(new) = Ruleset(cfg) /\ new.uid = cfg.uid
    BY <1>2, <2>2, SameRules DEF SameRouting
  <2>4. Whole'
    BY <1>2, <1>4, <2>3 DEF Whole, Mine
  <2> QED BY <1>1, <1>2, <2>4 DEF Settled, Settles
<1> QED BY <1>1, <1>3, <1>4 DEF Whole

\* apply begins: on a host without rules, or with all of its own.
LEMMA ProbeTorSettles ==
  ASSUME Steady, Frame, Settled, NEW t \in Thread, ProbeTor(t)
  PROVE  Settled'
<1>1. /\ pc[t] = "probe" /\ call[t] = FW!NoCall /\ using[t] = cfg /\ Whole
      /\ up = "serving" /\ \A u \in Thread : pc'[u] = "arm" => u = t \/ pc[u] = "arm"
  <2>1. pc[t] = "probe" /\ pc[t] \in Locked
    BY DEF ProbeTor, Locked, Connecting
  <2>2. call[t] = FW!NoCall /\ using[t] = cfg /\ up = "serving"
    BY <2>1 DEF Frame, CallsInPlace, UsesConfig, DeadIsIdle, Process
  <2>3. Whole
    BY <2>1, <2>2, OutsideWhole
  <2>4. \A u \in Thread : u # t => pc'[u] = pc[u]
    BY DEF ProbeTor, Continues, Goto, Frame, TypeOK, Process
  <2> QED BY <2>1, <2>2, <2>3, <2>4
<1>2. CASE ~tor /\ Continues(t, "unpin") /\ UNCHANGED <<installed, call>>
  BY <1>1, <1>2, NoCallIdle, OutsideSettles DEF ProbeTor, Memory
<1>3. CASE tor /\ Continues(t, "arm") /\ FW!ApplyRules(t, using[t])
  <2>1. /\ call' = [call EXCEPT ![t] = FW!Doing("apply", Ruleset(cfg), <<>>)]
        /\ UNCHANGED <<cfg, up, installed>> /\ pc'[t] = "arm"
    BY <1>1, <1>3
       DEF ProbeTor, Memory, FW!ApplyRules, FW!Calling, Continues, Goto, Frame, TypeOK, Process
  <2>2. /\ call'[t].op = "apply" /\ call'[t].todo = Ruleset(cfg)
        /\ ToSet(call'[t].added) = {} /\ call'[t].existed = "unread"
        /\ \A u \in Thread : u # t => call'[u] = call[u]
    BY <2>1, EmptySet DEF FW!Doing, Frame, TypeOK, FW!FwTypeOK, Process
  <2>3. installed \subseteq Mine
    BY <1>1 DEF Whole
  <2>4. (OnlyAdded(t) \/ Again(t))'
    BY <1>1, <2>1, <2>2 DEF Whole, OnlyAdded, Again, Mine
  <2>5. Settles(t)'
    BY <2>1, <2>2, <2>3, <2>4 DEF Settles, OnlyBefore, Mine
  <2> QED BY <1>1, <2>1, <2>2, <2>5, CallSettles DEF Locked, Connecting
<1> QED BY <1>2, <1>3 DEF ProbeTor

\* A call ends: apply with every rule in, its rollback and remove with none, or
\* with those of the session before it.
LEMMA ReturnSettles ==
  ASSUME Steady, Frame, Settled, NEW t \in Thread,
         ArmDone(t) \/ ArmFailed(t) \/ RollbackDone(t) \/ DisarmDone(t)
  PROVE  Settled'
<1>1. /\ pc[t] \in {"arm", "unarm", "remove"} /\ call[t].todo = <<>>
      /\ call' = [call EXCEPT ![t] = FW!NoCall] /\ UNCHANGED <<cfg, up, installed>>
      /\ \/ pc[t] = "arm" /\ call[t].op = "apply"
         \/ pc[t] = "arm" /\ call[t].op = "undo"
         \/ call[t].op = "remove"
  BY DEF ArmDone, ArmFailed, RollbackDone, DisarmDone, FW!ApplyReturns, FW!ApplyRaises,
         FW!RemoveReturns, FW!Returning, Memory
<1>2. ToSet(call[t].todo) = {} /\ Settles(t) /\ (pc[t] = "arm" => cfg.uid # NoUid)
  BY <1>1, EmptySet DEF Settled, Frame, UsesConfig, Connecting
<1>3. Whole
  BY <1>1, <1>2 DEF Settles, OnlyBefore, OnlyAdded, Again, Whole
<1>4. Whole'
  BY <1>1, <1>3 DEF Whole, Mine
<1>5. call'[t].op = "idle" /\ \A u \in Thread : u # t => call'[u] = call[u]
  BY <1>1, NoCallIdle DEF Frame, TypeOK, FW!FwTypeOK, Process
<1>6. Settles(t)'
  BY <1>5 DEF Settles
<1> QED BY <1>1, <1>4, <1>5, <1>6, CallSettles DEF Locked, Connecting, Disconnecting

\* A removal begins with the whole list.
LEMMA RemovalSettles ==
  ASSUME Steady, Frame, Settled, NEW t \in Thread, pc[t] \in {"unarm", "remove"},
         FW!RemoveRules(t, using[t]), UNCHANGED <<own, cfg, up>>
  PROVE  Settled'
<1>1. call[t] = FW!NoCall /\ using[t] = cfg /\ cfg \in Config
  BY NoCallIdle
     DEF FW!RemoveRules, Frame, TypeOK, CallsInPlace, UsesConfig, Process, Locked,
         Connecting, Disconnecting
<1>2. PICK list \in Removals(cfg) : call' = [call EXCEPT ![t] = FW!Doing("remove", list, <<>>)]
  BY <1>1 DEF FW!RemoveRules, FW!Calling
<1>3. /\ call'[t].op = "remove" /\ call'[t].todo = list
      /\ \A u \in Thread : u # t => call'[u] = call[u]
      /\ installed' = installed /\ pc'[t] = pc[t]
  BY <1>2 DEF FW!Doing, FW!RemoveRules, own, Frame, TypeOK, FW!FwTypeOK, Process
<1>4. Whole
  BY <1>1, OutsideWhole DEF Locked, Connecting, Disconnecting
<1>5. installed \subseteq Mine /\ Mine \subseteq ToSet(list)
  BY <1>1, <1>4, RulesTyped DEF Whole, Mine, Steady
<1>6. Settles(t)'
  BY <1>3, <1>5 DEF Settles, OnlyBefore, Mine
<1> QED BY <1>3, <1>6, CallSettles DEF Locked, Connecting, Disconnecting

\* A step inside the firewall, of each kind.
LEMMA InsideSettles ==
  ASSUME Steady, Frame, Settled, NEW t \in Thread, FirewallStep(t)
  PROVE  Settled'
<1>1. /\ UNCHANGED <<pc, cfg, up>> /\ call[t].op # "idle" /\ using[t] = cfg
      /\ pc[t] \in {"arm", "unarm", "remove"}
      /\ pc[t] = "arm" <=> call[t].op \in {"apply", "undo"}
      /\ pc[t] # "arm" => call[t].op = "remove"
      /\ \A u \in Thread : u # t => call'[u] = call[u]
  <2>1. /\ UNCHANGED <<pc, cfg, up>> /\ call[t].op # "idle"
        /\ \A u \in Thread : u # t => call'[u] = call[u]
    BY DEF FirewallStep, Memory, own, FW!Inside, FW!Probe, FW!Ensure, FW!ApplyFails,
           FW!Delete, FW!Calling, Frame, TypeOK, FW!FwTypeOK, Process
  <2>2. /\ pc[t] \in {"arm", "unarm", "remove"}
        /\ pc[t] = "arm" <=> call[t].op \in {"apply", "undo"}
        /\ pc[t] # "arm" => call[t].op = "remove"
    BY <2>1, NoCallIdle DEF Frame, CallsInPlace, Process
  <2>3. using[t] = cfg
    BY <2>2 DEF Frame, UsesConfig, Locked, Connecting, Disconnecting
  <2> QED BY <2>1, <2>2, <2>3
<1>2. PICK h \in Rule, rest \in SUBSET Rule :
        /\ ToSet(call[t].todo) = {h} \union rest
        /\ h = Head(call[t].todo)
        /\ \/ /\ call[t].op = "apply" /\ call'[t].op = "apply" /\ installed' = installed
              /\ ToSet(call'[t].todo) = ToSet(call[t].todo) /\ Head(call'[t].todo) = h
              /\ ToSet(call'[t].added) = ToSet(call[t].added)
              /\ call'[t].existed = IF h \in installed THEN "yes" ELSE "no"
           \/ /\ call[t].op = "apply" /\ call'[t].op = "apply"
              /\ call[t].existed \in {"yes", "no"} /\ call'[t].existed = "unread"
              /\ installed' = installed \union {h} /\ ToSet(call'[t].todo) = rest
              /\ ToSet(call'[t].added) =
                   ToSet(call[t].added) \union IF call[t].existed = "no" THEN {h} ELSE {}
           \/ /\ call[t].op = "apply" /\ call'[t].op = "undo" /\ installed' = installed
              /\ ToSet(call'[t].todo) = ToSet(call[t].added)
              /\ ToSet(call'[t].added) = {} /\ call'[t].existed = "unread"
           \/ /\ call[t].op \in {"undo", "remove"} /\ call'[t].op = call[t].op
              /\ call[t].existed = "unread" /\ call'[t].existed = "unread"
              /\ ToSet(call'[t].added) = ToSet(call[t].added)
              /\ ToSet(call'[t].todo) = rest /\ installed' = installed \ {h}
  <2>1. t \in Process /\ "delete" \notin Faults
    BY DEF Process, Steady
  <2> QED BY <2>1, InsideMeans
<1>3. /\ installed \subseteq Mine /\ OnlyBefore(t)
      /\ pc[t] = "arm" => OnlyAdded(t) \/ Again(t)
      /\ call[t].op = "apply" => Mine \subseteq installed \union ToSet(call[t].todo)
      /\ call[t].op = "apply" => h \in Mine
  <2>1. Settles(t)
    BY DEF Settled
  <2>2. call[t].op = "apply" => h \in Mine
    BY <1>1, <1>2 DEF Frame, CallsOfConfig, Process, Mine
  <2> QED BY <1>1, <2>1, <2>2 DEF Settles
<1>4. Mine' = Mine
  BY <1>1 DEF Mine
<1>5. installed' \subseteq Mine /\ OnlyBefore(t)'
  BY <1>2, <1>3 DEF OnlyBefore
<1>6. call'[t].op = "apply" => Mine \subseteq installed' \union ToSet(call'[t].todo)
  BY <1>2, <1>3
<1>7. CASE pc[t] = "arm" /\ OnlyAdded(t)
  <2>1. OnlyAdded(t)'
    BY <1>1, <1>2, <1>7 DEF OnlyAdded
  <2>2. Settles(t)'
    BY <1>4, <1>5, <1>6, <2>1 DEF Settles
  <2> QED BY <1>1, <1>2, <2>2, CallSettles DEF Locked, Connecting, Disconnecting
<1>8. CASE pc[t] = "arm" /\ Again(t)
  <2>1. Again(t)'
    BY <1>1, <1>2, <1>3, <1>4, <1>8 DEF Again
  <2>2. Settles(t)'
    BY <1>4, <1>5, <1>6, <2>1 DEF Settles
  <2> QED BY <1>1, <1>2, <2>2, CallSettles DEF Locked, Connecting, Disconnecting
<1>9. CASE pc[t] # "arm"
  <2>1. Settles(t)'
    BY <1>1, <1>4, <1>5, <1>6, <1>9 DEF Settles
  <2> QED BY <1>1, <1>2, <2>1, CallSettles DEF Locked, Connecting, Disconnecting
<1> QED BY <1>3, <1>7, <1>8, <1>9

\* Every step of a thread.
LEMMA ThreadSettles ==
  ASSUME Steady, Frame, Settled, NEW t \in Thread, ThreadNext(t)
  PROVE  Settled'
<1>1. ASSUME NEW place \in Places \ {"arm"}, pc' = [pc EXCEPT ![t] = place],
             UNCHANGED <<cfg, up, installed, call>>
      PROVE  Settled'
  <2>1. \A u \in Thread : pc'[u] = "arm" => pc[u] = "arm"
    BY <1>1 DEF Frame, TypeOK, Process
  <2> QED BY <1>1, <2>1, OutsideSettles DEF Settled
<1> USE DEF Places, Locked, Connecting, Disconnecting
<1>2. CASE Connect(t) \/ Disconnect(t)
  BY <1>1, <1>2 DEF Connect, Disconnect, Starts, Goto, Memory
<1>3. CASE \E new \in Config : UpdateConfig(t, new)
  BY <1>3, UpdateConfigSettles
<1>4. CASE TorrcStep(t)
  BY <1>1, <1>4 DEF TorrcStep, Continues, Goto
<1>5. CASE ProbeTor(t)
  BY <1>5, ProbeTorSettles
<1>6. CASE ArmDone(t) \/ ArmFailed(t) \/ RollbackDone(t) \/ DisarmDone(t)
  BY <1>6, ReturnSettles
<1>7. CASE Pin(t) \/ RollbackDns(t)
  BY <1>1, <1>7 DEF Pin, RollbackDns, Continues, Goto, Memory
<1>8. CASE RollbackRules(t)
  <2>1. CASE ~applied[t] /\ Continues(t, "failed") /\ UNCHANGED <<installed, call>>
    BY <1>1, <1>8, <2>1 DEF RollbackRules, Continues, Goto, Memory
  <2>2. CASE applied[t] /\ FW!RemoveRules(t, using[t]) /\ UNCHANGED own
    BY <1>8, <2>2, RemovalSettles DEF RollbackRules, Memory
  <2> QED BY <1>8, <2>1, <2>2 DEF RollbackRules
<1>9. CASE Disarm(t)
  BY <1>9, RemovalSettles DEF Disarm, Memory
<1>10. CASE RestoreDns(t) \/ Save(t) \/ ConnectRaises(t) \/ Report(t)
  <2>1. PICK place \in {"report", "remove", "idle"} : pc' = [pc EXCEPT ![t] = place]
    BY <1>10 DEF RestoreDns, Save, ConnectRaises, Report, Continues, Goto, Answers
  <2> QED BY <1>1, <1>10, <2>1 DEF RestoreDns, Save, ConnectRaises, Report, Memory
<1>11. CASE FirewallStep(t)
  BY <1>11, InsideSettles
<1> QED
  BY <1>2, <1>3, <1>4, <1>5, <1>6, <1>7, <1>8, <1>9, <1>10, <1>11
  DEF ThreadNext, Step, ConnectStep, DisconnectStep

\* A step that adds no rule, and saves nothing.
LEMMA KeepsFileRoutes ==
  ASSUME FileRoutes, UNCHANGED <<cfg, saved, up>>, installed' \subseteq installed,
         \A u \in Thread : pc[u] = "save" => pc'[u] = "save"
  PROVE  FileRoutes'
BY DEF FileRoutes

\* Such a step of one thread: it was not about to save.
LEMMA StepKeepsFileRoutes ==
  ASSUME Frame, FileRoutes, NEW t \in Thread, NEW place, pc[t] # "save",
         pc' = [pc EXCEPT ![t] = place],
         UNCHANGED <<cfg, saved, up>>, installed' \subseteq installed
  PROVE  FileRoutes'
<1>1. \A u \in Thread : pc[u] = "save" => pc'[u] = "save"
  BY DEF Frame, TypeOK, Process
<1> QED BY <1>1, KeepsFileRoutes

\* While rules are in, a new configuration shares them with the old one, and
\* so with the file.
LEMMA UpdateConfigFileRoutes ==
  ASSUME Steady, Frame, Settled, FileRoutes, NEW t \in Thread, NEW new \in Config,
         UpdateConfig(t, new)
  PROVE  FileRoutes'
<1>1. /\ UNCHANGED <<saved, up, installed>> /\ cfg' = new /\ up = "serving"
      /\ pc'[t] = "save" /\ cfg \in Config
  BY DEF UpdateConfig, MayEnter, Starts, Goto, Frame, TypeOK, Process
<1>2. Whole
  BY OutsideWhole DEF UpdateConfig
<1>3. CASE installed = {}
  BY <1>1, <1>3 DEF FileRoutes
<1>4. CASE installed # {}
  <2>1. cfg.uid # NoUid /\ installed = Mine
    BY <1>2, <1>4 DEF Whole
  <2>2. Killswitch(cfg)
    BY <1>1, <2>1, RulesTyped DEF Killswitch, Mine
  <2>3. SameRouting(new, cfg)
    <3>1. Probes(cfg) = {TRUE}
      BY <2>2, ProbeTells DEF Steady, Killswitch
    <3> QED BY <3>1 DEF UpdateConfig
  <2> QED BY <1>1, <1>4, <2>3 DEF FileRoutes, SameRouting
<1> QED BY <1>3, <1>4

\* A thread that adds a rule holds the lock: nobody is about to save.
LEMMA InsideFileRoutes ==
  ASSUME Frame, FileRoutes, NEW t \in Thread, FirewallStep(t)
  PROVE  FileRoutes'
<1>1. UNCHANGED <<pc, cfg, saved, up>> /\ call[t].op # "idle"
  BY DEF FirewallStep, Memory, own, FW!Inside, FW!Probe, FW!Ensure, FW!ApplyFails, FW!Delete
<1>2. up = "serving" /\ \A u \in Thread : u # t => pc[u] \notin Locked
  BY <1>1, OneCaller
<1>3. pc[t] # "save"
  BY <1>1, NoCallIdle DEF Frame, CallsInPlace, Process
<1> QED BY <1>1, <1>2, <1>3 DEF FileRoutes, Locked

\* Every step of a thread.
LEMMA ThreadFileRoutes ==
  ASSUME Steady, Frame, Settled, FileRoutes, NEW t \in Thread, ThreadNext(t)
  PROVE  FileRoutes'
<1>1. CASE Connect(t) \/ Disconnect(t)
  BY <1>1, StepKeepsFileRoutes DEF Connect, Disconnect, MayEnter, Starts, Goto, Memory
<1>2. CASE \E new \in Config : UpdateConfig(t, new)
  BY <1>2, UpdateConfigFileRoutes
<1>3. CASE TorrcStep(t)
  BY <1>3, StepKeepsFileRoutes DEF TorrcStep, Continues, Goto
<1>4. CASE ProbeTor(t)
  BY <1>4, StepKeepsFileRoutes DEF ProbeTor, Continues, Goto, FW!ApplyRules, Memory
<1>5. CASE ArmDone(t) \/ ArmFailed(t) \/ RollbackDone(t) \/ DisarmDone(t)
  BY <1>5, StepKeepsFileRoutes
     DEF ArmDone, ArmFailed, RollbackDone, DisarmDone, FW!ApplyReturns, FW!ApplyRaises,
         FW!RemoveReturns, Continues, Goto, Memory
<1>6. CASE Pin(t) \/ RollbackDns(t)
  BY <1>6, StepKeepsFileRoutes DEF Pin, RollbackDns, Continues, Goto, Memory
<1>7. CASE RollbackRules(t) \/ Disarm(t)
  <2>1. PICK place : pc' = [pc EXCEPT ![t] = place]
    BY <1>7 DEF RollbackRules, Disarm, Continues, Goto, own, Frame, TypeOK
  <2>2. UNCHANGED <<cfg, saved, up, installed>> /\ pc[t] # "save"
    BY <1>7 DEF RollbackRules, Disarm, FW!RemoveRules, Memory
  <2> QED BY <2>1, <2>2, StepKeepsFileRoutes
<1>8. CASE RestoreDns(t) \/ ConnectRaises(t) \/ Report(t)
  <2>1. PICK place : pc' = [pc EXCEPT ![t] = place]
    BY <1>8 DEF RestoreDns, ConnectRaises, Report, Answers, Continues, Goto
  <2>2. UNCHANGED <<cfg, saved, up, installed>> /\ pc[t] # "save"
    BY <1>8 DEF RestoreDns, ConnectRaises, Report, Memory
  <2> QED BY <2>1, <2>2, StepKeepsFileRoutes
<1>9. CASE Save(t)
  <2>1. UNCHANGED <<cfg, up, installed>> /\ up = "serving"
    BY <1>9 DEF Save, Frame, DeadIsIdle
  <2> QED BY <1>9, <2>1 DEF Save, FileRoutes, SameRouting, Steady
<1>10. CASE FirewallStep(t)
  BY <1>10, InsideFileRoutes
<1> QED
  BY <1>1, <1>2, <1>3, <1>4, <1>5, <1>6, <1>7, <1>8, <1>9, <1>10
  DEF ThreadNext, Step, ConnectStep, DisconnectStep

\* The daemon stops, its host reboots, it starts again and recovers.
LEMMA LifeSettles ==
  ASSUME Steady, Frame, Settled, FileRoutes, Life
  PROVE  Settled' /\ FileRoutes'
<1>1. CASE Crash
  <2>1. /\ UNCHANGED <<cfg, saved, installed>> /\ up' = "down" /\ "stop" \in Faults
        /\ \A t \in Thread : call[t].op = "idle" /\ call'[t] = FW!NoCall
    BY <1>1 DEF Crash, Steady, Process
  <2>2. Settled'
    BY <2>1, NoCallIdle DEF Settled, Whole, Mine, Settles
  <2>3. FileRoutes'
    BY <2>1 DEF FileRoutes
  <2> QED BY <2>2, <2>3
<1>2. CASE Reboot
  <2>1. Settled'
    BY <1>2, NoCallIdle DEF Reboot, FW!Flush, Settled, Whole, Settles, Process
  <2> QED BY <1>2, <2>1 DEF Reboot, FW!Flush, FileRoutes
<1>3. CASE Start
  <2>1. /\ \A t \in Thread : call[t].op = "idle" /\ pc[t] # "save"
        /\ UNCHANGED <<installed, call>> /\ cfg' = saved /\ saved' = saved
        /\ cfg \in Config /\ saved \in Config
    BY <1>3, NoCallIdle DEF Start, Frame, TypeOK, DeadIsIdle, CallsInPlace, Process
  <2>2. installed = {} \/ SameRouting(saved, cfg)
    BY <1>3, <2>1 DEF FileRoutes, Start
  <2>3. Whole
    BY <2>1 DEF Settled
  <2>4. Whole'
    <3>1. CASE installed = {}
      BY <2>1, <3>1 DEF Whole
    <3>2. CASE SameRouting(saved, cfg) /\ cfg.uid # NoUid /\ installed = Mine
      <4>1. Ruleset(saved) = Ruleset(cfg) /\ saved.uid # NoUid
        BY <2>1, <3>2, SameRules DEF SameRouting
      <4> QED BY <2>1, <3>2, <4>1 DEF Whole, Mine
    <3> QED BY <2>2, <2>3, <3>1, <3>2 DEF Whole
  <2>5. Settled'
    BY <2>1, <2>4 DEF Settled, Settles
  <2>6. FileRoutes'
    BY <2>1 DEF FileRoutes, SameRouting
  <2> QED BY <2>5, <2>6
<1>4. CASE RecoverChecks \/ RecoverRestores \/ TorChanges \/ DhcpReplacesPin
  <2>1. /\ UNCHANGED <<cfg, saved, installed, call, pc>>
        /\ up = "serving" => up' = "serving"
        /\ up = "down" => up' = "down"
    BY <1>4 DEF RecoverChecks, RecoverRestores, TorChanges, DhcpReplacesPin, own, Memory
  <2>2. Settled'
    BY <2>1, OutsideSettles
  <2>3. FileRoutes'
    BY <2>1 DEF FileRoutes
  <2> QED BY <2>2, <2>3
<1> QED BY <1>1, <1>2, <1>3, <1>4 DEF Life

\* The rules are those of the configuration in force, and of the one a restart
\* comes back to.
LEMMA SettledHolds == ASSUME Steady PROVE Spec => []Settled /\ []FileRoutes
<1>1. Init => Settled /\ FileRoutes
  BY NoCallIdle
     DEF Init, Settled, Whole, Settles, FileRoutes, SameRouting, FW!FwInit, Process
<1>2. ASSUME Frame, Settled, FileRoutes, [Next]_vars PROVE Settled' /\ FileRoutes'
  <2>1. ASSUME NEW t \in Thread, ThreadNext(t) PROVE Settled' /\ FileRoutes'
    BY <1>2, <2>1, ThreadSettles, ThreadFileRoutes
  <2>2. CASE Life
    BY <1>2, <2>2, LifeSettles
  <2>3. CASE UNCHANGED vars
    <3>1. Settled'
      BY <1>2, <2>3, OutsideSettles DEF vars, own
    <3>2. FileRoutes'
      BY <1>2, <2>3, KeepsFileRoutes DEF vars, own
    <3> QED BY <3>1, <3>2
  <2> QED BY <1>2, <2>1, <2>2, <2>3 DEF Next, Steady
<1> QED BY <1>1, <1>2, FrameHolds, PTL DEF Spec
-----------------------------------------------------------------------------
(* Why nobody but the configured user is blocked *)

\* A step that adds no rule, and saves nothing.
LEMMA KeepsOwned ==
  ASSUME Owned, UNCHANGED <<cfg, saved, up>>, installed' \subseteq installed,
         \A u \in Thread : pc[u] = "save" => pc'[u] = "save"
  PROVE  Owned'
<1>1. OnlyUserBlocked' /\ (~Mortal => (up' # "serving" => installed' = {}))
  BY DEF Owned, OnlyUserBlocked
<1>2. FileNamesUser'
  BY DEF Owned, FileNamesUser, NooneBlocked
<1> QED BY <1>1, <1>2 DEF Owned

\* Such a step of one process: it was not about to save.
LEMMA StepKeepsOwned ==
  ASSUME Frame, Owned, NEW p \in Process, NEW place, p \in Cli \/ pc[p] # "save",
         pc' = [pc EXCEPT ![p] = place],
         UNCHANGED <<cfg, saved, up>>, installed' \subseteq installed
  PROVE  Owned'
<1>1. \A u \in Thread : pc[u] = "save" => pc'[u] = "save"
  BY DaemonAssumption DEF Frame, TypeOK, Process
<1> QED BY <1>1, KeepsOwned

\* A blocked user is the configured one, and then the killswitch is up: the
\* configuration can change, but neither its user nor its ports.
LEMMA UpdateConfigOwned ==
  ASSUME Recorded, Frame, Owned, NEW t \in Thread, NEW new \in Config, UpdateConfig(t, new)
  PROVE  Owned'
<1>1. /\ UNCHANGED <<saved, up, installed>> /\ cfg' = new /\ up = "serving"
      /\ pc'[t] = "save" /\ cfg \in Config
  BY DEF UpdateConfig, MayEnter, Starts, Goto, Frame, TypeOK, Process
<1>2. CASE NooneBlocked
  BY <1>1, <1>2 DEF Owned, OnlyUserBlocked, FileNamesUser, NooneBlocked
<1>3. CASE ~NooneBlocked
  <2>1. PICK r \in installed : r.kind # "route"
    BY <1>3 DEF NooneBlocked
  <2>2. Killswitch(cfg)
    BY <1>1, <2>1 DEF Owned, OnlyUserBlocked, Recorded, Killswitch
  <2>3. new.uid = cfg.uid
    <3>1. Probes(cfg) = {TRUE}
      BY <1>1, <2>2, ProbeTells DEF Recorded, Killswitch
    <3> QED BY <3>1 DEF UpdateConfig, SameRouting
  <2>4. OnlyUserBlocked'
    BY <1>1, <2>3 DEF Owned, OnlyUserBlocked, Drop
  <2>5. FileNamesUser'
    BY <1>1, <1>3, <2>3 DEF Owned, FileNamesUser
  <2> QED BY <1>1, <2>4, <2>5 DEF Owned
<1> QED BY <1>2, <1>3

\* The configuration is saved, or the daemon cannot die before it is.
LEMMA SaveOwned ==
  ASSUME Recorded, Frame, Owned, NEW t \in Thread, Save(t)
  PROVE  Owned'
<1>1. UNCHANGED <<cfg, up, installed>> /\ up = "serving"
  BY DEF Save, Frame, DeadIsIdle
<1>2. OnlyUserBlocked'
  BY <1>1 DEF Owned, OnlyUserBlocked
<1>3. FileNamesUser'
  BY <1>1 DEF Save, FileNamesUser, Recorded
<1> QED BY <1>1, <1>2, <1>3 DEF Owned

\* Only a connect adds rules, those of the configuration in force; it holds
\* the lock, so that no other configuration waits to be saved.
LEMMA InsideOwned ==
  ASSUME Recorded, Frame, Owned, NEW p \in Process, FirewallStep(p)
  PROVE  Owned'
<1>1. UNCHANGED <<pc, cfg, saved, up>>
  BY DEF FirewallStep, Memory, own
<1>2. CASE installed' \subseteq installed
  BY <1>1, <1>2, KeepsOwned
<1>3. CASE ~(installed' \subseteq installed)
  <2>1. PICK h \in Rule : /\ call[p].op = "apply" /\ h \in ToSet(call[p].todo)
                          /\ installed' = installed \union {h}
    BY <1>3, InsideMeans
  <2>2. p \in Thread /\ pc[p] = "arm" /\ call[p].op # "idle"
    BY <2>1, NoCallIdle DEF Frame, CallsInPlace, CommandsDisconnect, Process, Disconnecting
  <2>3. using[p] = cfg /\ cfg \in Config /\ cfg.uid # NoUid
    BY <2>2 DEF Frame, TypeOK, UsesConfig, Locked, Connecting
  <2>4. h \in ToSet(Ruleset(cfg))
    BY <2>1, <2>3 DEF Frame, CallsOfConfig
  <2>5. h.kind # "route" => h = Drop(cfg)
    <3>1. ~cfg.ipv6_killswitch
      BY <2>3 DEF Recorded
    <3>2. h \in {Route(cfg), Drop(cfg)}
      BY <2>3, <2>4, <3>1, RulesTyped DEF RulesOf
    <3> QED BY <3>2 DEF Route
  <2>6. up = "serving" /\ \A u \in Thread : u # p => pc[u] \notin Locked
    BY <2>2, OneCaller
  <2>7. saved.uid = cfg.uid \/ ~Mortal
    BY <2>2, <2>6 DEF Owned, FileNamesUser, Locked
  <2>8. OnlyUserBlocked'
    BY <1>1, <2>1, <2>3, <2>5 DEF Owned, OnlyUserBlocked
  <2>9. FileNamesUser'
    BY <1>1, <2>6, <2>7 DEF FileNamesUser
  <2> QED BY <1>1, <2>6, <2>8, <2>9 DEF Owned
<1> QED BY <1>2, <1>3

\* Every step of an operation, of a thread or of a command.
LEMMA StepOwned ==
  ASSUME Recorded, Frame, Owned, NEW p \in Process,
         \/ p \in Thread /\ ThreadNext(p)
         \/ p \in Cli /\ CliNext(p)
  PROVE  Owned'
<1>1. pc \in [Process -> Places] /\ (p \in Cli => pc[p] \notin {"save"} \union Connecting)
  BY DEF Frame, TypeOK, CommandsDisconnect, Connecting, Disconnecting
<1>2. CASE Connect(p) \/ Disconnect(p) \/ CliDisconnect(p)
  BY <1>2, StepKeepsOwned DEF Connect, Disconnect, CliDisconnect, MayEnter, Starts, Goto, Memory
<1>3. CASE p \in Thread /\ \E new \in Config : UpdateConfig(p, new)
  BY <1>3, UpdateConfigOwned
<1>4. CASE TorrcStep(p)
  BY <1>4, StepKeepsOwned DEF TorrcStep, Continues, Goto
<1>5. CASE ProbeTor(p)
  BY <1>5, StepKeepsOwned DEF ProbeTor, Continues, Goto, FW!ApplyRules, Memory
<1>6. CASE ArmDone(p) \/ ArmFailed(p) \/ RollbackDone(p) \/ DisarmDone(p)
  BY <1>6, StepKeepsOwned
     DEF ArmDone, ArmFailed, RollbackDone, DisarmDone, FW!ApplyReturns, FW!ApplyRaises,
         FW!RemoveReturns, Continues, Goto, Memory
<1>7. CASE Pin(p) \/ RollbackDns(p)
  BY <1>7, StepKeepsOwned DEF Pin, RollbackDns, Continues, Goto, Memory
<1>8. CASE RollbackRules(p) \/ Disarm(p) \/ CliRestoreDns(p)
  <2>1. PICK place : pc' = [pc EXCEPT ![p] = place]
    BY <1>1, <1>8 DEF RollbackRules, Disarm, CliRestoreDns, Continues, Goto, own
  <2>2. UNCHANGED <<cfg, saved, up, installed>> /\ pc[p] # "save"
    BY <1>8 DEF RollbackRules, Disarm, CliRestoreDns, FW!RemoveRules, Memory
  <2> QED BY <2>1, <2>2, StepKeepsOwned
<1>9. CASE RestoreDns(p) \/ ConnectRaises(p) \/ Report(p)
  <2>1. PICK place : pc' = [pc EXCEPT ![p] = place]
    BY <1>9 DEF RestoreDns, ConnectRaises, Report, Answers, Continues, Goto
  <2>2. UNCHANGED <<cfg, saved, up, installed>> /\ pc[p] # "save"
    BY <1>9 DEF RestoreDns, ConnectRaises, Report, Memory
  <2> QED BY <2>1, <2>2, StepKeepsOwned
<1>10. CASE Save(p)
  <2>1. p \in Thread
    BY <1>1, <1>10 DEF Save, Process
  <2> QED BY <1>10, <2>1, SaveOwned
<1>11. CASE FirewallStep(p)
  BY <1>11, InsideOwned
<1> QED
  BY <1>2, <1>3, <1>4, <1>5, <1>6, <1>7, <1>8, <1>9, <1>10, <1>11
  DEF ThreadNext, CliNext, Step, ConnectStep, DisconnectStep

\* The daemon dies, its host reboots, it starts again and recovers.
LEMMA LifeOwned ==
  ASSUME Recorded, Frame, Owned, Life
  PROVE  Owned'
<1>1. CASE Crash
  <2>1. UNCHANGED <<cfg, saved, installed>> /\ up' = "down" /\ Mortal
    BY <1>1 DEF Crash, Mortal
  <2>2. OnlyUserBlocked'
    BY <2>1 DEF Owned, OnlyUserBlocked
  <2>3. FileNamesUser'
    BY <2>1 DEF Owned, FileNamesUser, NooneBlocked
  <2> QED BY <2>1, <2>2, <2>3 DEF Owned
<1>2. CASE Reboot
  BY <1>2 DEF Reboot, FW!Flush, Owned, OnlyUserBlocked, FileNamesUser, NooneBlocked
<1>3. CASE Start
  <2>1. /\ UNCHANGED <<saved, installed>> /\ cfg' = saved /\ up = "down"
        /\ \A t \in Thread : pc[t] = "idle"
    BY <1>3 DEF Start, Frame, DeadIsIdle
  <2>2. saved.uid = cfg.uid \/ NooneBlocked
    BY <2>1 DEF Owned, FileNamesUser
  <2>3. OnlyUserBlocked'
    BY <2>1, <2>2 DEF Owned, OnlyUserBlocked, NooneBlocked, Drop
  <2>4. FileNamesUser'
    BY <2>1 DEF FileNamesUser
  <2> QED BY <2>1, <2>3, <2>4 DEF Owned
<1>4. CASE RecoverChecks \/ RecoverRestores
  <2>1. /\ UNCHANGED <<cfg, saved, installed>> /\ up \in {"starting", "orphaned"}
        /\ \A t \in Thread : pc[t] = "idle"
    BY <1>4 DEF RecoverChecks, RecoverRestores, Frame, DeadIsIdle
  <2>2. OnlyUserBlocked'
    BY <2>1 DEF Owned, OnlyUserBlocked
  <2>3. FileNamesUser'
    BY <2>1 DEF Owned, FileNamesUser
  <2> QED BY <2>1, <2>2, <2>3 DEF Owned
<1>5. CASE TorChanges \/ DhcpReplacesPin
  BY <1>5, KeepsOwned DEF TorChanges, DhcpReplacesPin, own, Memory
<1> QED BY <1>1, <1>2, <1>3, <1>4, <1>5 DEF Life

\* Whoever the kernel blocks is the configured user, here and after a restart.
LEMMA OwnedHolds == ASSUME Recorded PROVE Spec => []Owned
<1>1. Init => Owned
  BY DEF Init, FW!FwInit, Owned, OnlyUserBlocked, FileNamesUser
<1>2. ASSUME Frame, Owned, [Next]_vars PROVE Owned'
  <2>1. CASE UNCHANGED vars
    BY <1>2, <2>1, KeepsOwned DEF vars, own
  <2>2. ASSUME NEW t \in Thread, ThreadNext(t) PROVE Owned'
    <3>1. t \in Process
      BY DEF Process
    <3>2. t \in Thread /\ ThreadNext(t)
      BY <2>2
    <3> QED BY <1>2, <3>1, <3>2, StepOwned
  <2>3. ASSUME NEW p \in Cli, CliNext(p) PROVE Owned'
    BY <1>2, <2>3, StepOwned DEF Process
  <2>4. CASE Life
    BY <1>2, <2>4, LifeOwned
  <2> QED BY <1>2, <2>1, <2>2, <2>3, <2>4 DEF Next
<1> QED BY <1>1, <1>2, FrameHolds, PTL DEF Spec
-----------------------------------------------------------------------------
(* The theorems *)

\* The inductive invariant holds of every daemon: each part of it under the
\* hypothesis that is its own.
THEOREM Invariant == Spec => []IInv
<1>1. Spec => [](Alone => Guarded)
  <2>1. CASE Alone
    BY <2>1, GuardedHolds, PTL
  <2>2. CASE ~Alone
    BY <2>2, PTL
  <2> QED BY <2>1, <2>2
<1>2. Spec => [](Undoable => Traced)
  <2>1. CASE Undoable
    BY <2>1, TracedHolds, PTL
  <2>2. CASE ~Undoable
    BY <2>2, PTL
  <2> QED BY <2>1, <2>2
<1>3. Spec => [](Steady => Settled /\ FileRoutes)
  <2>1. CASE Steady
    BY <2>1, SettledHolds, PTL
  <2>2. CASE ~Steady
    BY <2>2, PTL
  <2> QED BY <2>1, <2>2
<1>4. Spec => [](Recorded => Owned)
  <2>1. CASE Recorded
    BY <2>1, OwnedHolds, PTL
  <2>2. CASE ~Recorded
    BY <2>2, PTL
  <2> QED BY <2>1, <2>2
<1> QED BY FrameHolds, <1>1, <1>2, <1>3, <1>4, PTL DEF IInv

\* Every variable keeps its type, whatever fails and whoever runs.
THEOREM TypeCorrect == Spec => []TypeOK
<1>1. Frame => TypeOK
  BY DEF Frame
<1> QED BY <1>1, FrameHolds, PTL

\* connect, disconnect, their rollbacks, crashes, reboots and the recovery at
\* start, with any number of threads, users, ports and configurations: while
\* the daemon serves, a pinned resolver has armed rules behind it.
THEOREM PinnedArmed == Alone /\ Spec => []PinnedOnlyWhileArmed
<1> SUFFICES ASSUME Alone PROVE Spec => []PinnedOnlyWhileArmed
  OBVIOUS
<1>1. Guarded => PinnedOnlyWhileArmed
  BY DEF Guarded, PinIsGuarded, PinnedOnlyWhileArmed, SomeoneArmed
<1> QED BY <1>1, GuardedHolds, PTL

\* The rollback of connect, from whatever step of it failed: the connect of an
\* untouched host leaves neither a rule nor a pin.
THEOREM FirstFailureLeavesNothing ==
  Undoable /\ Spec => []FailedFirstConnectLeavesNothing
<1> SUFFICES ASSUME Undoable PROVE Spec => []FailedFirstConnectLeavesNothing
  OBVIOUS
<1>1. Traced => FailedFirstConnectLeavesNothing
  BY DEF Traced, TracesOwnSteps, FailedFirstConnectLeavesNothing, Connecting, Host, NoHost
<1> QED BY <1>1, TracedHolds, PTL

\* update_config refuses what would leave rules behind: every rule in the
\* kernel is one of the configuration in force, at every step of every call.
THEOREM NothingStale == Steady /\ Spec => []NoStaleRules
<1> SUFFICES ASSUME Steady PROVE Spec => []NoStaleRules
  OBVIOUS
<1>1. Frame /\ Settled => NoStaleRules
  <2> SUFFICES ASSUME Frame, Settled PROVE installed \subseteq RulesOf(cfg)
    BY DEF NoStaleRules
  <2>1. installed \subseteq Mine
    BY DEF Settled, Whole, Settles
  <2> QED BY <2>1, RulesTyped DEF Frame, TypeOK, Mine
<1> QED BY <1>1, FrameHolds, SettledHolds, PTL

\* The same of a daemon that is killed at any step, next to commands that
\* remove its rules: the only user who is blocked is the configured one, before
\* and after a restart.
THEOREM NobodyStranded == Recorded /\ Spec => []NoStrandedUser
<1> SUFFICES ASSUME Recorded PROVE Spec => []NoStrandedUser
  OBVIOUS
<1>1. Owned => NoStrandedUser
  BY DEF Owned, OnlyUserBlocked, NoStrandedUser, Drop
<1> QED BY <1>1, OwnedHolds, PTL

-----------------------------------------------------------------------------
(* Daemon implements Session *)

\* Steps that leave the rules, the resolver and the process alone.
LEMMA Unnoticed ==
  ASSUME UNCHANGED <<dns, installed, up>>
  PROVE  [S!Next]_(S!vars)
BY DEF S!vars, SomeoneArmed, Armed

\* Steps of the resolver alone.
LEMMA ResolverStep ==
  ASSUME UNCHANGED <<installed, up>>,
         dns' \in {dns, "real"} \/ (SomeoneArmed /\ dns' = "pin")
  PROVE  [S!Next]_(S!vars)
BY DEF S!vars, S!Next, S!Unpin, S!Pin, SomeoneArmed, Armed

\* A step inside the firewall: rules only go in, or only go out.
LEMMA RulesStep ==
  ASSUME Frame, Guarded, Guarded', NEW t \in Thread, FirewallStep(t)
  PROVE  [S!Next]_(S!vars)
<1>1. UNCHANGED <<dns, up>>
  BY DEF FirewallStep, Memory
<1>2. installed \subseteq installed' \/ installed' \subseteq installed
  BY DEF FirewallStep, FW!Inside, FW!Probe, FW!Ensure, FW!ApplyFails, FW!Delete
<1>3. SomeoneArmed \in BOOLEAN /\ SomeoneArmed' \in BOOLEAN
  BY DEF SomeoneArmed
<1>4. call[t].op # "idle"
  BY DEF FirewallStep, FW!Inside, FW!Probe, FW!Ensure, FW!ApplyFails, FW!Delete,
         Frame, CallsInPlace, Process
<1>5. up = "serving"
  BY <1>4, OneCaller
<1>6. CASE SomeoneArmed' = SomeoneArmed
  BY <1>1, <1>6 DEF S!vars
<1>7. CASE ~SomeoneArmed /\ SomeoneArmed'
  BY <1>1, <1>7 DEF S!Next, S!Arm
<1>8. CASE SomeoneArmed /\ ~SomeoneArmed'
  <2>1. dns' = "real"
    BY <1>1, <1>5, <1>8 DEF Frame, TypeOK, Guarded, PinIsGuarded, SomeoneArmed
  <2> QED BY <1>1, <1>8, <2>1 DEF S!Next, S!Disarm
<1> QED BY <1>3, <1>6, <1>7, <1>8

\* The process, the host and Tor: a death, a start, or a change of the resolver
\* alone.
LEMMA LifeStep ==
  ASSUME Alone, Frame, Guarded, Guarded', Life
  PROVE  [S!Next]_(S!vars)
<1>1. CASE Crash
  <2>1. UNCHANGED <<dns, installed>> /\ up' = "down"
    BY <1>1 DEF Crash
  <2> QED BY <2>1 DEF S!Next, S!Die, SomeoneArmed, Armed
<1>2. CASE Reboot
  <2>1. UNCHANGED dns /\ up' = "down" /\ installed' = {}
    BY <1>2 DEF Reboot, FW!Flush
  <2>2. SomeoneArmed' = FALSE
    BY <2>1 DEF SomeoneArmed, Armed
  <2> QED BY <2>1, <2>2 DEF S!Next, S!Reboot
<1>3. CASE Start \/ RecoverChecks \/ RecoverRestores
  <2>1. up # "serving" /\ installed' = installed /\ dns' \in {dns, "real"}
    BY <1>3 DEF Start, RecoverChecks, RecoverRestores
  <2>2. SomeoneArmed' = SomeoneArmed
    BY <2>1 DEF SomeoneArmed, Armed
  <2>3. up' = "serving" /\ dns' = "pin" => SomeoneArmed'
    BY DEF Guarded, PinIsGuarded, SomeoneArmed
  <2>4. CASE up' = "serving"
    BY <2>1, <2>2, <2>3, <2>4 DEF S!Next, S!Serve
  <2>5. CASE up' # "serving"
    <3>1. dns' = dns
      BY <1>3, <2>5 DEF Start, RecoverChecks, RecoverRestores
    <3> QED BY <2>1, <2>2, <2>5, <3>1 DEF S!vars
  <2> QED BY <2>4, <2>5
<1>4. CASE TorChanges
  BY <1>4, Unnoticed DEF TorChanges
<1>5. CASE DhcpReplacesPin
  BY <1>5, ResolverStep DEF DhcpReplacesPin, Memory
<1> QED BY <1>1, <1>2, <1>3, <1>4, <1>5 DEF Life

\* A handler thread: only apply arms, only pin pins, and only behind an
\* unpinned resolver does anything disarm.
LEMMA ThreadStep ==
  ASSUME Alone, Frame, Guarded, Guarded', NEW t \in Thread, ThreadNext(t)
  PROVE  [S!Next]_(S!vars)
<1> USE DEF Memory
<1>1. CASE Connect(t) \/ Disconnect(t)
  BY <1>1, Unnoticed DEF Connect, Disconnect
<1>2. CASE \E new \in Config : UpdateConfig(t, new)
  BY <1>2, Unnoticed DEF UpdateConfig
<1>3. CASE TorrcStep(t) \/ ProbeTor(t) \/ ArmDone(t) \/ ArmFailed(t)
  BY <1>3, Unnoticed
  DEF TorrcStep, ProbeTor, ArmDone, ArmFailed, FW!ApplyRules, FW!ApplyReturns,
      FW!ApplyRaises
<1>4. CASE Pin(t)
  <2>1. SomeoneArmed
    BY <1>4 DEF Pin, Frame, TypeOK, Guarded, PinIsLast, SomeoneArmed, Process
  <2> QED BY <1>4, <2>1, ResolverStep DEF Pin
<1>5. CASE RollbackDns(t) \/ RestoreDns(t)
  BY <1>5, ResolverStep, UnlocksMeans DEF RollbackDns, RestoreDns, UnlockRaises
<1>6. CASE RollbackRules(t) \/ RollbackDone(t) \/ Disarm(t) \/ DisarmDone(t)
  BY <1>6, Unnoticed
  DEF RollbackRules, RollbackDone, Disarm, DisarmDone, FW!RemoveRules, FW!RemoveReturns
<1>7. CASE ConnectRaises(t) \/ Report(t) \/ Save(t)
  BY <1>7, Unnoticed DEF ConnectRaises, Report, Save
<1>8. CASE FirewallStep(t)
  BY <1>8, RulesStep
<1> QED
  BY <1>1, <1>2, <1>3, <1>4, <1>5, <1>6, <1>7, <1>8
  DEF ThreadNext, Step, ConnectStep, DisconnectStep

\* The daemon keeps the promise of Session: the firewall is armed before the
\* resolver is pinned and taken away after it is the user's own again, at
\* every step of every interleaving, and no request is served over an orphaned
\* pin.
THEOREM Refinement == Alone /\ Spec => ImplementsSession
<1> SUFFICES ASSUME Alone PROVE Spec => ImplementsSession
  OBVIOUS
<1>1. Init => S!Init
  <2> SUFFICES ASSUME Init PROVE S!Init
    OBVIOUS
  <2>1. dns = "real" /\ up = "serving" /\ installed = {}
    BY DEF Init, FW!FwInit
  <2> QED BY <2>1 DEF S!Init, SomeoneArmed, Armed
<1>2. Frame /\ Guarded /\ Guarded' /\ [Next]_vars => [S!Next]_(S!vars)
  <2> SUFFICES ASSUME Frame, Guarded, Guarded', [Next]_vars PROVE [S!Next]_(S!vars)
    OBVIOUS
  <2>1. CASE UNCHANGED vars
    BY <2>1, Unnoticed DEF vars
  <2>2. ASSUME NEW t \in Thread, ThreadNext(t) PROVE [S!Next]_(S!vars)
    BY <2>2, ThreadStep
  <2>3. CASE Life
    BY <2>3, LifeStep
  <2> QED BY <2>1, <2>2, <2>3 DEF Next, Alone
<1>3. Spec => []Frame /\ []Guarded
  BY FrameHolds, GuardedHolds
<1> QED BY <1>1, <1>2, <1>3, PTL DEF Spec, ImplementsSession, S!Spec

=============================================================================
