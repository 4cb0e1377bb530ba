--------------------------- MODULE Machine_proofs ----------------------------
(***************************************************************************)
(* Proofs about Machine: the invariant is IInv of MachineInv.  Steps are   *)
(* grouped by whose variables they change: inside the Windows firewall,    *)
(* inside pf, inside the resolver, and between the calls.                  *)
(***************************************************************************)
EXTENDS MachineInv, SequenceLemmas

-----------------------------------------------------------------------------
(* Lists and loops *)

\* The lists the code loops through.
LEMMA Lists ==
  /\ Profiles \in Seq(W!Profile) \ {<<>>} /\ ToSet(Profiles) = W!Profile
  /\ \A cfg \in Config : /\ W!Whitelist(cfg) \in Seq(W!Rule) \ {<<>>}
                         /\ W!Needed \subseteq ToSet(W!Whitelist(cfg))
<1>1. Profiles \in Seq(W!Profile) \ {<<>>}
  BY MachineAssumption DEF W!Profile
<1>2. ToSet(Profiles) = W!Profile
  BY MachineAssumption DEF W!Profile, ToSet
<1>3. ASSUME NEW cfg \in Config
      PROVE  /\ W!Whitelist(cfg) \in Seq(W!Rule) \ {<<>>}
             /\ W!Needed \subseteq ToSet(W!Whitelist(cfg))
  <2> DEFINE first == <<"tor", "loopback4", "loopback6">>
             dhcp == IF cfg.allow_dhcp THEN <<"dhcp">> ELSE <<>>
             lan == IF cfg.allow_lan THEN <<"lan">> ELSE <<>>
  <2>1. first \in Seq(W!Rule) /\ dhcp \in Seq(W!Rule) /\ lan \in Seq(W!Rule)
    <3>1. {"tor", "loopback4", "loopback6", "dhcp", "lan"} = W!Rule
      BY DEF W!Rule, W!Needed
    <3>2. first \in Seq(W!Rule)
      BY <3>1
    <3>3. <<"dhcp">> \in Seq(W!Rule) /\ <<"lan">> \in Seq(W!Rule) /\ <<>> \in Seq(W!Rule)
      BY <3>1
    <3> QED BY <3>2, <3>3
  <2>2. W!Needed \subseteq ToSet(first)
    <3>1. DOMAIN first = 1..3 /\ first[1] = "tor" /\ first[2] = "loopback4" /\ first[3] = "loopback6"
      OBVIOUS
    <3> HIDE DEF first
    <3> QED BY <3>1 DEF W!Needed, ToSet
  <2> HIDE DEF first, dhcp, lan
  <2>3. /\ first \o dhcp \in Seq(W!Rule) /\ W!Needed \subseteq ToSet(first \o dhcp)
    BY <2>1, <2>2, ConcatSet
  <2>4. /\ (first \o dhcp) \o lan \in Seq(W!Rule)
        /\ W!Needed \subseteq ToSet((first \o dhcp) \o lan)
    <3> DEFINE both == first \o dhcp
    <3>1. both \in Seq(W!Rule) /\ W!Needed \subseteq ToSet(both)
      BY <2>3
    <3> HIDE DEF both
    <3>2. both \o lan \in Seq(W!Rule) /\ W!Needed \subseteq ToSet(both \o lan)
      BY <2>1, <3>1, ConcatSet
    <3> QED BY <3>2 DEF both
  <2>5. W!Whitelist(cfg) = (first \o dhcp) \o lan
    BY DEF W!Whitelist, first, dhcp, lan
  <2>6. W!Whitelist(cfg) # <<>>
    <3>1. "tor" \in W!Needed
      BY DEF W!Needed
    <3> QED BY <2>4, <2>5, <3>1, EmptySet
  <2> QED BY <2>4, <2>5, <2>6
<1> QED BY <1>1, <1>2, <1>3

\* Either turn of a loop, as what is behind the loop.
LEMMA TurnOfLoop ==
  ASSUME NEW S, todo \in Seq(S) \ {<<>>}, NEW next, NEW list, W!Turn(next, list)
  PROVE  /\ Head(todo) \in S
         /\ \/ /\ pc' = pc /\ todo' \in Seq(S) \ {<<>>}
               /\ ToSet(todo) = {Head(todo)} \union ToSet(todo')
            \/ /\ pc' = next /\ todo' = list /\ ToSet(todo) = {Head(todo)}
<1>1. /\ Head(todo) \in S /\ Tail(todo) \in Seq(S)
      /\ ToSet(todo) = {Head(todo)} \union ToSet(Tail(todo))
  BY HeadTail
<1>2. Len(todo) \in Nat /\ Len(todo) > 0 /\ Len(Tail(todo)) = Len(todo) - 1
  OBVIOUS
<1>3. CASE Len(todo) > 1
  <2>1. Tail(todo) # <<>>
    <3>1. Len(Tail(todo)) # 0 /\ Len(<<>>) = 0
      BY <1>2, <1>3, SMTT(30)
    <3> QED BY <3>1
  <2> QED BY <1>1, <1>3, <2>1 DEF W!Turn
<1>4. CASE ~(Len(todo) > 1)
  <2>1. Tail(todo) = <<>>
    BY <1>1, <1>2, <1>4
  <2>2. ToSet(todo) = {Head(todo)}
    BY <1>1, <2>1, EmptySet
  <2> QED BY <1>1, <1>4, <2>2 DEF W!Turn
<1> QED BY <1>3, <1>4

\* No step counts more faults than there may be.
LEMMA FaultCount ==
  ASSUME FrameOK, UNCHANGED faults \/ (faults < MaxFaults /\ faults' = faults + 1)
  PROVE  faults' \in 0..MaxFaults
BY CallsAssumption DEF FrameOK

\* The adapters among a set are listed in the order of the list, and nothing
\* else.
LEMMA AmongSet ==
  ASSUME NEW S
  PROVE  D!Among(S) \in Seq(D!Adapter) /\ ToSet(D!Among(S)) = D!Adapter \intersect S
<1> DEFINE n == Len(Adapters)
           Rec(f, i) == CASE i = 0 -> <<>>
                          [] i > 0 /\ Adapters[i] \in S -> Append(f[i - 1], Adapters[i])
                          [] OTHER -> f[i - 1]
           Is(f) == f = [i \in 0..n |-> Rec(f, i)]
           Up(m) == {Adapters[i] : i \in 1..m} \intersect S
           Good(m) == \E f \in [0..m -> Seq(D!Adapter)] : \A i \in 0..m : f[i] = Rec(f, i)
<1>1. n \in Nat /\ Adapters \in Seq(D!Adapter) /\ DOMAIN Adapters = 1..n
      /\ D!Adapter = {Adapters[i] : i \in 1..n}
  BY MachineAssumption DEF D!Adapter, D!ToSet, ToSet
<1>2. ASSUME NEW i \in 0..n, NEW f, i # 0, f[i - 1] \in Seq(D!Adapter)
      PROVE  /\ Rec(f, i) \in Seq(D!Adapter)
             /\ ToSet(Rec(f, i)) = ToSet(f[i - 1]) \union ({Adapters[i]} \intersect S)
  <2>1. i \in 1..n /\ i > 0 /\ Adapters[i] \in D!Adapter
    BY <1>1, <1>2
  <2>2. CASE Adapters[i] \in S
    <3>1. Rec(f, i) = Append(f[i - 1], Adapters[i])
      BY <1>2, <2>1, <2>2
    <3> QED BY <3>1, <2>1, <2>2, <1>2, AppendSet
  <2>3. CASE Adapters[i] \notin S
    <3>1. Rec(f, i) = f[i - 1]
      BY <1>2, <2>1, <2>3
    <3> QED BY <3>1, <2>1, <2>3, <1>2
  <2> QED BY <2>2, <2>3
<1>3. \A i \in 0..n : Good(i)
  <2> DEFINE Full == {i \in 0..n : Good(i)}
  <2>1. Good(0)
    <3>1. [i \in 0..0 |-> <<>>] \in [0..0 -> Seq(D!Adapter)]
      OBVIOUS
    <3>2. \A i \in 0..0 : [j \in 0..0 |-> <<>>][i] = Rec([j \in 0..0 |-> <<>>], i)
      OBVIOUS
    <3> QED BY <3>1, <3>2
  <2>2. ASSUME NEW m \in 0..n, Good(m), m + 1 \in 0..n PROVE Good(m + 1)
    <3>1. PICK f \in [0..m -> Seq(D!Adapter)] : \A i \in 0..m : f[i] = Rec(f, i)
      BY <2>2
    <3> DEFINE g == [i \in 0..(m + 1) |-> IF i <= m THEN f[i] ELSE Rec(f, m + 1)]
    <3>2. f[m] \in Seq(D!Adapter) /\ (m + 1) - 1 = m /\ m + 1 # 0 /\ m \in Nat
      BY <1>1
    <3>3. Rec(f, m + 1) \in Seq(D!Adapter)
      <4>1. f[(m + 1) - 1] \in Seq(D!Adapter)
        BY <3>2
      <4> HIDE DEF Rec
      <4> QED BY <4>1, <3>2, <2>2, <1>2
    <3>4. g \in [0..(m + 1) -> Seq(D!Adapter)]
      <4> HIDE DEF Rec
      <4> QED BY <3>2, <3>3
    <3>5. ASSUME NEW i \in 0..(m + 1) PROVE g[i] = Rec(g, i)
      <4>1. i = 0 \/ i - 1 \in 0..m
        BY <3>2
      <4>2. i # 0 => g[i - 1] = f[i - 1]
        <5> HIDE DEF Rec
        <5> QED BY <4>1
      <4>3. Rec(g, i) = Rec(f, i)
        <5> HIDE DEF g
        <5> QED BY <4>2, <3>2
      <4>4. CASE i <= m
        <5>1. g[i] = f[i] /\ i \in 0..m
          <6> HIDE DEF Rec
          <6> QED BY <4>4, <3>2
        <5> HIDE DEF g, Rec
        <5> QED BY <5>1, <4>3, <3>1
      <4>5. CASE ~(i <= m)
        <5>1. i = m + 1
          BY <4>5, <3>2
        <5>2. g[m + 1] = Rec(f, m + 1)
          <6> HIDE DEF Rec
          <6> QED BY <3>2
        <5> HIDE DEF g, Rec
        <5> QED BY <5>1, <5>2, <4>3
      <4> QED BY <4>4, <4>5
    <3> HIDE DEF g, Rec
    <3> QED BY <3>4, <3>5
  <2>3. Full \in SUBSET (0..n) /\ 0 \in Full
    BY <2>1, <1>1
  <2>4. \A i \in 0..n : i \in Full /\ i + 1 \in 0..n => i + 1 \in Full
    <3> HIDE DEF Good
    <3> QED BY <2>2
  <2> HIDE DEF Good
  <2>5. Full = 0..n
    <3> HIDE DEF Full
    <3> QED BY <2>3, <2>4, <1>1, UpTo
  <2> QED BY <2>5
<1>4. PICK f : Is(f)
  <2>1. PICK f \in [0..n -> Seq(D!Adapter)] : \A i \in 0..n : f[i] = Rec(f, i)
    <3>1. n \in 0..n
      BY <1>1
    <3> HIDE DEF Rec
    <3> QED BY <3>1, <1>3
  <2>2. f = [i \in 0..n |-> f[i]]
    OBVIOUS
  <2>3. f = [i \in 0..n |-> Rec(f, i)]
    <3> HIDE DEF Rec
    <3> QED BY <2>1, <2>2
  <2> QED BY <2>3
<1> DEFINE F == CHOOSE g : Is(g)
<1>5. Is(F)
  <2> HIDE DEF Is
  <2> QED BY <1>4
<1>6. D!Among(S) = F[n]
  BY DEF D!Among
<1> HIDE DEF F
<1>7. \A i \in 0..n : F[i] = Rec(F, i)
  BY <1>5
<1>8. \A i \in 0..n : F[i] \in Seq(D!Adapter) /\ ToSet(F[i]) = Up(i)
  <2> DEFINE Full == {i \in 0..n : F[i] \in Seq(D!Adapter) /\ ToSet(F[i]) = Up(i)}
  <2>1. 0 \in Full
    <3>1. 0 \in 0..n /\ F[0] = <<>>
      BY <1>1, <1>7
    <3>2. Up(0) = {}
      OBVIOUS
    <3>3. F[0] \in Seq(D!Adapter) /\ ToSet(F[0]) = Up(0)
      BY <3>1, <3>2, EmptySet
    <3> QED BY <3>1, <3>3
  <2>2. ASSUME NEW m \in 0..n, m \in Full, m + 1 \in 0..n PROVE m + 1 \in Full
    <3>1. m + 1 # 0 /\ (m + 1) - 1 = m
      BY <1>1
    <3>2. /\ F[m + 1] \in Seq(D!Adapter)
          /\ ToSet(F[m + 1]) = ToSet(F[m]) \union ({Adapters[m + 1]} \intersect S)
      <4>1. F[(m + 1) - 1] \in Seq(D!Adapter) /\ F[m + 1] = Rec(F, m + 1)
        BY <3>1, <2>2, <1>7
      <4> HIDE DEF Rec
      <4> QED BY <4>1, <3>1, <2>2, <1>2
    <3>3. Up(m + 1) = Up(m) \union ({Adapters[m + 1]} \intersect S)
      <4>1. \A i : i \in 1..(m + 1) <=> i \in 1..m \/ i = m + 1
        BY <1>1
      <4> QED BY <4>1
    <3> QED BY <3>2, <3>3, <2>2
  <2> HIDE DEF Full
  <2>3. Full = 0..n
    <3>1. Full \in SUBSET (0..n)
      BY DEF Full
    <3> QED BY <2>1, <2>2, <3>1, <1>1, UpTo
  <2> QED BY <2>3 DEF Full
<1>9. n \in 0..n /\ Up(n) = D!Adapter \intersect S
  BY <1>1
<1> QED BY <1>6, <1>8, <1>9

-----------------------------------------------------------------------------
(* Inside the Windows firewall *)

\* What the state file may hold.
KeptType == [is : {"absent", "no_policy", "policy"},
             policy : [W!Profile -> W!Policy], proxy : {"own", "ours", "off"}]
LEMMA KeptTypes ==
  /\ W!NoState \in KeptType
  /\ \A how \in {"no_policy", "policy"}, pol \in [W!Profile -> W!Policy] :
       proxy \in {"own", "ours", "off"} => W!State(how, pol) \in KeptType
<1>1. W!NoPolicy \in [W!Profile -> W!Policy]
  BY DEF W!NoPolicy, W!Policy, W!Fallback
<1> QED BY <1>1 DEF W!NoState, W!State, KeptType

\* Setting one profile leaves the others.
LEMMA SetOne ==
  ASSUME W!WinfwTypeOK, NEW p \in W!Profile, NEW pol \in W!Policy, W!Sets(p, pol)
  PROVE  /\ policy' \in [W!Profile -> W!Policy]
         /\ policy'[p] = pol
         /\ \A q \in W!Profile : q # p => policy'[q] = policy[q]
BY DEF W!WinfwTypeOK, W!Sets

\* What is set is a policy.
LEMMA PolicyTypes ==
  /\ W!WinfwTypeOK => \A p \in W!Profile : kept.policy[p] \in W!Policy
  /\ \A pol \in W!Policy : W!Blocking(pol) \in W!Policy /\ W!Blocking(pol).out = "block"
  /\ W!Users \in W!Policy /\ W!Users.out = "allow"
<1>1. W!WinfwTypeOK => \A p \in W!Profile : kept.policy[p] \in W!Policy
  BY DEF W!WinfwTypeOK
<1>2. \A pol \in W!Policy : W!Blocking(pol) \in W!Policy /\ W!Blocking(pol).out = "block"
  BY DEF W!Policy, W!Blocking
<1>3. W!Users \in W!Policy /\ W!Users.out = "allow"
  BY DEF W!Policy, W!Users
<1> QED BY <1>1, <1>2, <1>3

OnWindows ==
  /\ IInv /\ os = "windows" /\ up = "serving" /\ call \in {"arm", "disarming", "remove"}
  /\ UNCHANGED <<os, user, up, app, past, pf, dns>>

\* The parts of the invariant that the steps inside WindowsFirewall disturb.
WindowsPart ==
  /\ TypeOK /\ InPlace /\ BlockedBehind /\ StaysEnforced
  /\ PolicyIsRead => WindowsInv

\* The first connect records the policy, later ones keep the record.
LEMMA CaptureInv ==
  ASSUME OnWindows, W!Capture
  PROVE  WindowsPart'
<1> USE DEF OnWindows, IInv, app, past, pf, dns, W!Capture, W!Captured, W!Captures, W!Fine,
     W!Fault,
            W!Goto, W!Returns
<1>1. TypeOK'
  <2>1. FrameOK'
    <3>1. UNCHANGED faults \/ (faults < MaxFaults /\ faults' = faults + 1)
      OBVIOUS
    <3> QED BY <3>1, FaultCount DEF TypeOK, FrameOK
  <2>2. W!WinfwTypeOK'
    <3>1. kept' \in KeptType
      <4>1. /\ kept \in KeptType /\ policy \in [W!Profile -> W!Policy]
            /\ proxy \in {"own", "ours", "off"}
        BY DEF TypeOK, W!WinfwTypeOK, KeptType
      <4>2. W!NoPolicy \in [W!Profile -> W!Policy]
        BY DEF W!NoPolicy, W!Fallback, W!Policy
      <4>3. \A seen \in W!Readings : seen \in KeptType
        BY <4>1, <4>2, KeptTypes DEF W!Readings
      <4>4. \A seen \in KeptType : [seen EXCEPT !.proxy = "off"] \in KeptType
        BY DEF KeptType
      <4> QED BY <4>1, <4>3, <4>4
    <3> QED BY <3>1 DEF TypeOK, W!WinfwTypeOK, KeptType
  <2> QED BY <2>1, <2>2 DEF TypeOK, P!PfTypeOK, D!DnsTypeOK
<1>2. InPlace'
  BY Lists DEF InPlace, Applying, Undoing, Removing, Loading, Unloading
<1>3. BlockedBehind' /\ StaysEnforced'
  BY Lists DEF BlockedBehind, Behind, StaysEnforced, InPlace, HasArmed, W!Killswitch,
     W!Blocked, TypeOK, W!WinfwTypeOK, Applying, Undoing, Removing, W!Sets
<1>4. ASSUME PolicyIsRead PROVE Recorded'
  BY <1>4 DEF PolicyIsRead, WindowsInv, Recorded, W!UsersProxy, Undoing, Removing,
     W!UsersPolicy,
     W!Users, W!Blocking, W!NoState, W!Readings, W!State, TypeOK, W!WinfwTypeOK, RestoredBehind
<1>5. ASSUME PolicyIsRead PROVE AllowedFirst' /\ NeverLockedOut'
  BY <1>5 DEF PolicyIsRead, WindowsInv, AllowedFirst, NeverLockedOut, W!Blocked,
     Recorded, W!UsersProxy, RestoredBehind, W!UsersPolicy, W!Users, Undoing, Removing
<1>6. ASSUME PolicyIsRead PROVE RestoredBehind' /\ WindowsCleared'
  BY <1>6, Lists DEF PolicyIsRead, WindowsInv, RestoredBehind, Behind, WindowsCleared,
     StaysEnforced, FirewallIsUsers, W!UsersPolicy, Recorded, W!UsersProxy,
     InPlace, Applying, Undoing, Removing
<1> QED BY <1>1, <1>2, <1>3, <1>4, <1>5, <1>6 DEF WindowsPart, WindowsInv

\* One more allow rule, or the beginning of the teardown.
LEMMA AllowInv ==
  ASSUME OnWindows, W!Allow
  PROVE  WindowsPart'
<1> USE DEF OnWindows, IInv, app, past, pf, dns, W!Allow, W!Captured, W!Fine, W!Fault,
            W!Goto, W!Returns
<1> DEFINE Turns ==
             /\ UNCHANGED result
             /\ \/ /\ pc' = pc /\ todo' \in Seq(W!Rule) \ {<<>>}
                   /\ ToSet(todo) = {Head(todo)} \union ToSet(todo')
                \/ pc' = "block" /\ todo' = Profiles /\ ToSet(todo) = {Head(todo)}
<1>1. Head(todo) \in W!Rule /\ todo \in Seq(W!Rule) \ {<<>>}
  BY HeadTail DEF InPlace
<1>2. ASSUME W!Turn("block", Profiles), UNCHANGED result PROVE Turns
  BY <1>1, <1>2, TurnOfLoop
<1>3. TypeOK'
  <2>1. FrameOK'
    <3>1. UNCHANGED faults \/ (faults < MaxFaults /\ faults' = faults + 1)
      OBVIOUS
    <3> QED BY <1>1, <1>2, <3>1, FaultCount DEF TypeOK, FrameOK, W!Advance
  <2>2. W!WinfwTypeOK'
    BY <1>1, <1>2, KeptTypes DEF TypeOK, W!WinfwTypeOK, KeptType, W!Readings
  <2> QED BY <2>1, <2>2 DEF TypeOK, P!PfTypeOK, D!DnsTypeOK
<1>4. InPlace'
  BY <1>1, <1>2, Lists DEF W!Advance, InPlace, Applying, Undoing, Removing, Loading, Unloading
<1>5. BlockedBehind' /\ StaysEnforced'
  BY <1>1, <1>2, Lists DEF W!Advance, BlockedBehind, Behind, StaysEnforced, InPlace, HasArmed,
     W!Killswitch, W!Blocked, TypeOK, W!WinfwTypeOK, Applying, Undoing, Removing, W!Sets
<1>6. ASSUME PolicyIsRead PROVE Recorded'
  BY <1>1, <1>2, <1>6 DEF W!Advance, PolicyIsRead, WindowsInv, Recorded, W!UsersProxy,
     Undoing, Removing,
     W!UsersPolicy, W!Users, W!Blocking, W!NoState, W!Readings, W!State, TypeOK,
     W!WinfwTypeOK, RestoredBehind
<1>7. ASSUME PolicyIsRead PROVE AllowedFirst' /\ NeverLockedOut'
  BY <1>1, <1>2, <1>7 DEF W!Advance, PolicyIsRead, WindowsInv, AllowedFirst, NeverLockedOut,
     W!Blocked, Recorded, W!UsersProxy, RestoredBehind, W!UsersPolicy, W!Users, Undoing,
     Removing
<1>8. ASSUME PolicyIsRead PROVE RestoredBehind' /\ WindowsCleared'
  BY <1>1, <1>2, <1>8, Lists DEF W!Advance, PolicyIsRead, WindowsInv, RestoredBehind, Behind,
     WindowsCleared, StaysEnforced, FirewallIsUsers, W!UsersPolicy, Recorded, W!UsersProxy,
     InPlace,
     Applying, Undoing, Removing
<1> QED BY <1>3, <1>4, <1>5, <1>6, <1>7, <1>8 DEF WindowsPart, WindowsInv

\* One more profile is blocked, after Tor and loopback were allowed.
LEMMA BlockInv ==
  ASSUME OnWindows, W!Block
  PROVE  WindowsPart'
<1> USE DEF OnWindows, IInv, app, past, pf, dns, W!Block, W!Captured, W!Fine, W!Fault,
            W!Goto, W!Returns
<1> DEFINE Turns ==
             /\ UNCHANGED result
             /\ \/ /\ pc' = pc /\ todo' \in Seq(W!Profile) \ {<<>>}
                   /\ ToSet(todo) = {Head(todo)} \union ToSet(todo')
                \/ pc' = "proxy" /\ todo' = <<>> /\ ToSet(todo) = {Head(todo)}
<1>1. Head(todo) \in W!Profile /\ todo \in Seq(W!Profile) \ {<<>>}
  BY HeadTail DEF InPlace
<1>2. ASSUME W!Turn("proxy", <<>>), UNCHANGED result PROVE Turns
  BY <1>1, <1>2, TurnOfLoop
<1>3. W!Blocking(kept.policy[Head(todo)]) \in W!Policy
  BY <1>1, PolicyTypes DEF TypeOK
<1>4. \/ UNCHANGED policy
      \/ /\ policy' \in [W!Profile -> W!Policy]
         /\ policy'[Head(todo)] = W!Blocking(kept.policy[Head(todo)])
         /\ \A q \in W!Profile : q # Head(todo) => policy'[q] = policy[q]
  BY <1>1, <1>3, SetOne DEF TypeOK
<1>5. TypeOK'
  <2>1. FrameOK'
    <3>1. UNCHANGED faults \/ (faults < MaxFaults /\ faults' = faults + 1)
      OBVIOUS
    <3> QED BY <1>1, <1>2, <1>3, <1>4, PolicyTypes, <3>1, FaultCount DEF TypeOK, FrameOK,
       W!Advance
  <2>2. W!WinfwTypeOK'
    BY <1>1, <1>2, <1>3, <1>4, PolicyTypes, KeptTypes DEF TypeOK, W!WinfwTypeOK, KeptType,
       W!Readings
  <2> QED BY <2>1, <2>2 DEF TypeOK, P!PfTypeOK, D!DnsTypeOK
<1>6. InPlace'
  BY <1>1, <1>2, <1>3, <1>4, PolicyTypes, Lists DEF W!Advance, InPlace, Applying, Undoing,
     Removing, Loading, Unloading
<1>7. BlockedBehind' /\ StaysEnforced'
  BY <1>1, <1>2, <1>3, <1>4, PolicyTypes, Lists DEF W!Advance, BlockedBehind, Behind,
     StaysEnforced, InPlace, HasArmed, W!Killswitch, W!Blocked, TypeOK, W!WinfwTypeOK,
     Applying, Undoing, Removing, W!Sets
<1>8. ASSUME PolicyIsRead PROVE Recorded'
  BY <1>1, <1>2, <1>3, <1>4, PolicyTypes, <1>8 DEF W!Advance, PolicyIsRead, WindowsInv,
     Recorded, W!UsersProxy, Undoing, Removing, W!UsersPolicy, W!Users, W!Blocking,
     W!NoState, W!Readings,
     W!State, TypeOK, W!WinfwTypeOK, RestoredBehind
<1>9. ASSUME PolicyIsRead PROVE AllowedFirst' /\ NeverLockedOut'
  BY <1>1, <1>2, <1>3, <1>4, PolicyTypes, <1>9 DEF W!Advance, PolicyIsRead, WindowsInv,
     AllowedFirst, NeverLockedOut, W!Blocked, Recorded, W!UsersProxy, RestoredBehind,
     W!UsersPolicy,
     W!Users, Undoing, Removing
<1>10. ASSUME PolicyIsRead PROVE RestoredBehind' /\ WindowsCleared'
  BY <1>1, <1>2, <1>3, <1>4, PolicyTypes, <1>10, Lists DEF W!Advance, PolicyIsRead,
     WindowsInv, RestoredBehind, Behind, WindowsCleared, StaysEnforced, FirewallIsUsers,
     W!UsersProxy,
     W!UsersPolicy, Recorded, W!UsersProxy, InPlace, Applying, Undoing, Removing
<1> QED BY <1>5, <1>6, <1>7, <1>8, <1>9, <1>10 DEF WindowsPart, WindowsInv

\* One more profile is the user's, or lost.
LEMMA UndoPolicyInv ==
  ASSUME OnWindows, W!UndoPolicy
  PROVE  WindowsPart'
<1> USE DEF OnWindows, IInv, app, past, pf, dns, W!UndoPolicy, W!Captured, W!Fine, W!Fault,
            W!Goto, W!Returns
<1> DEFINE Turns ==
             /\ UNCHANGED result
             /\ \/ /\ pc' = pc /\ todo' \in Seq(W!Profile) \ {<<>>}
                   /\ ToSet(todo) = {Head(todo)} \union ToSet(todo')
                \/ pc' = "undo_rules" /\ todo' = <<>> /\ ToSet(todo) = {Head(todo)}
<1>1. Head(todo) \in W!Profile /\ todo \in Seq(W!Profile) \ {<<>>}
  BY HeadTail DEF InPlace
<1>2. ASSUME W!Turn("undo_rules", <<>>), UNCHANGED result PROVE Turns
  BY <1>1, <1>2, TurnOfLoop
<1>3. kept.policy[Head(todo)] \in W!Policy
  BY <1>1, PolicyTypes DEF TypeOK
<1>4. \/ UNCHANGED policy
      \/ /\ policy' \in [W!Profile -> W!Policy]
         /\ policy'[Head(todo)] = kept.policy[Head(todo)]
         /\ \A q \in W!Profile : q # Head(todo) => policy'[q] = policy[q]
  BY <1>1, <1>3, SetOne DEF TypeOK
<1>5. ASSUME PolicyIsRead, ~lost'
      PROVE  /\ policy'[Head(todo)] = W!Users
             /\ \A q \in W!Profile : q # Head(todo) => policy'[q] = policy[q]
  <2>1. /\ ~lost /\ kept.policy = W!UsersPolicy
        /\ policy[Head(todo)] = W!Users \/ policy[Head(todo)] = W!Blocking(W!Users)
    BY <1>1, <1>5 DEF WindowsInv, Recorded, W!UsersProxy, Undoing, TypeOK, W!WinfwTypeOK
  <2>2. kept.policy[Head(todo)] = W!Users
    BY <2>1, <1>1 DEF W!UsersPolicy
  <2>3. CASE W!Sets(Head(todo), kept.policy[Head(todo)])
    BY <2>2, <2>3, <1>1, <1>3, SetOne DEF TypeOK
  <2>4. CASE UNCHANGED policy /\ policy[Head(todo)].out # "block"
    BY <2>1, <2>4, PolicyTypes
  <2> QED BY <2>3, <2>4, <1>5 DEF TypeOK, W!WinfwTypeOK
<1>6. TypeOK'
  <2>1. FrameOK'
    <3>1. UNCHANGED faults \/ (faults < MaxFaults /\ faults' = faults + 1)
      OBVIOUS
    <3> QED BY <1>1, <1>2, <1>3, <1>4, PolicyTypes, <3>1, FaultCount DEF TypeOK, FrameOK,
       W!Advance
  <2>2. W!WinfwTypeOK'
    BY <1>1, <1>2, <1>3, <1>4, PolicyTypes, KeptTypes DEF TypeOK, W!WinfwTypeOK, KeptType,
       W!Readings
  <2> QED BY <2>1, <2>2 DEF TypeOK, P!PfTypeOK, D!DnsTypeOK
<1>7. InPlace'
  BY <1>1, <1>2, <1>3, <1>4, PolicyTypes, Lists DEF W!Advance, InPlace, Applying, Undoing,
     Removing, Loading, Unloading
<1>8. BlockedBehind' /\ StaysEnforced'
  BY <1>1, <1>2, <1>3, <1>4, PolicyTypes, Lists DEF W!Advance, BlockedBehind, Behind,
     StaysEnforced, InPlace, HasArmed, W!Killswitch, W!Blocked, TypeOK, W!WinfwTypeOK,
     Applying, Undoing, Removing, W!Sets
<1>9. ASSUME PolicyIsRead PROVE Recorded'
  BY <1>1, <1>2, <1>3, <1>4, PolicyTypes, <1>9 DEF W!Advance, PolicyIsRead, WindowsInv,
     Recorded, W!UsersProxy, Undoing, Removing, W!UsersPolicy, W!Users, W!Blocking,
     W!NoState, W!Readings,
     W!State, TypeOK, W!WinfwTypeOK, RestoredBehind
<1>10. ASSUME PolicyIsRead PROVE AllowedFirst'
  BY <1>1, <1>2, <1>10 DEF W!Advance, WindowsInv, AllowedFirst
<1>11. ASSUME PolicyIsRead PROVE NeverLockedOut'
  <2>1. ASSUME ~lost', NEW p \in W!Profile, W!Blocked(p)' PROVE W!Blocked(p)
    BY <1>1, <1>4, <1>11, <2>1, PolicyTypes DEF WindowsInv, Recorded, W!UsersProxy,
       Undoing, Removing,
       W!Blocked, W!UsersPolicy, W!Sets
  <2>2. ~lost' => ~lost
    BY DEF TypeOK, W!WinfwTypeOK
  <2> QED BY <1>11, <2>1, <2>2 DEF WindowsInv, NeverLockedOut
<1>12. ASSUME PolicyIsRead PROVE RestoredBehind'
  <2>1. ASSUME \A q \in W!Profile : policy'[q] = W!Users PROVE policy' = W!UsersPolicy
    BY <1>6, <2>1 DEF TypeOK, W!WinfwTypeOK, W!UsersPolicy
  <2>2. Turns
    BY <1>2 DEF W!Advance
  <2>3. ASSUME ~lost', NEW q \in W!Profile, q \notin ToSet(todo') \/ pc' # pc
        PROVE  policy'[q] = W!Users
    <3>1. ~lost
      BY <2>3 DEF TypeOK, W!WinfwTypeOK
    <3> QED BY <1>12, <1>5, <2>2, <2>3, <3>1 DEF WindowsInv, RestoredBehind, Behind
  <2>4. CASE pc' = pc
    BY <2>3, <2>4 DEF RestoredBehind, Behind
  <2>5. CASE pc' # pc
    BY <2>1, <2>2, <2>3, <2>5 DEF RestoredBehind
  <2> QED BY <2>4, <2>5
<1>13. WindowsCleared'
  BY <1>2 DEF W!Advance, WindowsCleared, StaysEnforced, InPlace
<1> QED BY <1>6, <1>7, <1>8, <1>9, <1>10, <1>11, <1>12, <1>13 DEF WindowsPart, WindowsInv

\* One more profile is the user's, or its failure is remembered.
LEMMA RestorePolicyInv ==
  ASSUME OnWindows, W!RestorePolicy
  PROVE  WindowsPart'
<1> USE DEF OnWindows, IInv, app, past, pf, dns, W!RestorePolicy, W!Captured, W!Fine, W!Fault,
            W!Goto, W!Returns
<1> DEFINE Turns ==
             /\ UNCHANGED result
             /\ \/ /\ pc' = pc /\ todo' \in Seq(W!Profile) \ {<<>>}
                   /\ ToSet(todo) = {Head(todo)} \union ToSet(todo')
                \/ pc' = "restore_proxy" /\ todo' = <<>> /\ ToSet(todo) = {Head(todo)}
<1>1. Head(todo) \in W!Profile /\ todo \in Seq(W!Profile) \ {<<>>}
  BY HeadTail DEF InPlace
<1>2. ASSUME W!Turn("restore_proxy", <<>>), UNCHANGED result PROVE Turns
  BY <1>1, <1>2, TurnOfLoop
<1>3. kept.policy[Head(todo)] \in W!Policy
  BY <1>1, PolicyTypes DEF TypeOK
<1>4. \/ UNCHANGED policy
      \/ /\ policy' \in [W!Profile -> W!Policy]
         /\ policy'[Head(todo)] = kept.policy[Head(todo)]
         /\ \A q \in W!Profile : q # Head(todo) => policy'[q] = policy[q]
  BY <1>1, <1>3, SetOne DEF TypeOK
<1>5. ASSUME PolicyIsRead, ~lost', ~failed'
      PROVE  /\ policy'[Head(todo)] = W!Users
             /\ \A q \in W!Profile : q # Head(todo) => policy'[q] = policy[q]
  BY <1>1, <1>4, <1>5 DEF WindowsInv, Recorded, W!UsersProxy, Undoing, Removing,
     W!UsersPolicy, W!Users,
     W!Blocking, TypeOK, W!WinfwTypeOK, W!Sets
<1>6. TypeOK'
  <2>1. FrameOK'
    <3>1. UNCHANGED faults \/ (faults < MaxFaults /\ faults' = faults + 1)
      OBVIOUS
    <3> QED BY <1>1, <1>2, <1>3, <1>4, PolicyTypes, <3>1, FaultCount DEF TypeOK, FrameOK
  <2>2. W!WinfwTypeOK'
    BY <1>1, <1>2, <1>3, <1>4, PolicyTypes, KeptTypes DEF TypeOK, W!WinfwTypeOK, KeptType,
       W!Readings
  <2> QED BY <2>1, <2>2 DEF TypeOK, P!PfTypeOK, D!DnsTypeOK
<1>7. InPlace'
  BY <1>1, <1>2, <1>3, <1>4, PolicyTypes, Lists DEF InPlace, Applying, Undoing, Removing,
     Loading, Unloading
<1>8. BlockedBehind' /\ StaysEnforced'
  BY <1>1, <1>2, <1>3, <1>4, PolicyTypes, Lists DEF BlockedBehind, Behind, StaysEnforced,
     InPlace, HasArmed, W!Killswitch, W!Blocked, TypeOK, W!WinfwTypeOK, Applying, Undoing,
     Removing, W!Sets
<1>9. ASSUME PolicyIsRead PROVE Recorded'
  BY <1>1, <1>2, <1>3, <1>4, PolicyTypes, <1>9, SMTT(30) DEF PolicyIsRead, WindowsInv,
     Recorded, W!UsersProxy,
     Undoing, Removing, W!UsersPolicy, W!Users, W!Blocking, W!NoState, W!Readings, W!State,
     TypeOK, W!WinfwTypeOK, RestoredBehind
<1>10. ASSUME PolicyIsRead PROVE AllowedFirst'
  BY <1>1, <1>2, <1>10 DEF WindowsInv, AllowedFirst
<1>11. ASSUME PolicyIsRead PROVE NeverLockedOut'
  <2>1. ASSUME ~lost', NEW p \in W!Profile, W!Blocked(p)' PROVE W!Blocked(p)
    BY <1>1, <1>4, <1>11, <2>1, PolicyTypes DEF WindowsInv, Recorded, W!UsersProxy,
       Undoing, Removing,
       W!Blocked, W!UsersPolicy, W!Sets
  <2> QED BY <1>11, <2>1 DEF WindowsInv, NeverLockedOut
<1>12. ASSUME PolicyIsRead PROVE RestoredBehind'
  <2>1. ASSUME \A q \in W!Profile : policy'[q] = W!Users PROVE policy' = W!UsersPolicy
    BY <1>6, <2>1 DEF TypeOK, W!WinfwTypeOK, W!UsersPolicy
  <2>2. Turns
    BY <1>2 DEF W!Advance
  <2>3. ASSUME ~lost', ~failed', NEW q \in W!Profile, q \notin ToSet(todo') \/ pc' # pc
        PROVE  policy'[q] = W!Users
    BY <1>12, <1>5, <2>2, <2>3 DEF WindowsInv, RestoredBehind, Behind
  <2>4. CASE pc' = pc
    BY <2>3, <2>4 DEF RestoredBehind, Behind
  <2>5. CASE pc' # pc
    BY <2>1, <2>2, <2>3, <2>5 DEF RestoredBehind
  <2> QED BY <2>4, <2>5
<1>13. WindowsCleared'
  BY <1>2 DEF WindowsCleared, StaysEnforced, InPlace
<1> QED BY <1>6, <1>7, <1>8, <1>9, <1>10, <1>11, <1>12, <1>13 DEF WindowsPart, WindowsInv

\* The places that are no loop: the proxy, the rules and the record.  The rules
\* go when all profiles are the user's, the record last.
LEMMA StraightInv ==
  ASSUME OnWindows,
         \/ W!SetProxy \/ W!UndoRules \/ W!UndoProxy \/ W!UndoState
         \/ W!RestoreProxy \/ W!DeleteRules \/ W!Forget
  PROVE  WindowsPart'
<1> USE DEF OnWindows, IInv, app, past, pf, dns, W!SetProxy, W!UndoRules, W!UndoProxy,
            W!UndoState, W!RestoreProxy, W!DeleteRules, W!Forget, W!Captured, W!Fine, W!Fault,
            W!Goto, W!Returns
<1>1. TypeOK'
  <2>1. FrameOK'
    <3>1. UNCHANGED faults \/ (faults < MaxFaults /\ faults' = faults + 1)
      OBVIOUS
    <3> QED BY <3>1, FaultCount DEF TypeOK, FrameOK
  <2>2. W!WinfwTypeOK'
    BY KeptTypes DEF TypeOK, W!WinfwTypeOK, KeptType, W!Readings
  <2> QED BY <2>1, <2>2 DEF TypeOK, P!PfTypeOK, D!DnsTypeOK
<1>2. InPlace'
  BY Lists DEF InPlace, Applying, Undoing, Removing, Loading, Unloading
<1>3. BlockedBehind' /\ StaysEnforced'
  BY Lists DEF BlockedBehind, Behind, StaysEnforced, InPlace, HasArmed, W!Killswitch,
     W!Blocked, TypeOK, W!WinfwTypeOK, Applying, Undoing, Removing, W!Sets
<1>4. ASSUME PolicyIsRead PROVE Recorded'
  BY <1>4 DEF PolicyIsRead, WindowsInv, Recorded, W!UsersProxy, Undoing, Removing,
     W!UsersPolicy,
     W!Users, W!Blocking, W!NoState, W!Readings, W!State, TypeOK, W!WinfwTypeOK, RestoredBehind
<1>5. ASSUME PolicyIsRead PROVE AllowedFirst' /\ NeverLockedOut'
  BY <1>5 DEF PolicyIsRead, WindowsInv, AllowedFirst, NeverLockedOut, W!Blocked,
     Recorded, W!UsersProxy, RestoredBehind, W!UsersPolicy, W!Users, Undoing, Removing
<1>6. ASSUME PolicyIsRead PROVE RestoredBehind' /\ WindowsCleared'
  BY <1>6, Lists DEF PolicyIsRead, WindowsInv, RestoredBehind, Behind, WindowsCleared,
     StaysEnforced, FirewallIsUsers, W!UsersPolicy, Recorded, W!UsersProxy,
     InPlace, Applying, Undoing, Removing
<1> QED BY <1>1, <1>2, <1>3, <1>4, <1>5, <1>6 DEF WindowsPart, WindowsInv

\* A step inside the Windows firewall touches neither pf nor a resolver.
LEMMA WindowsStep == ASSUME OnWindows, W!Step PROVE IInv'
<1>1. WindowsPart'
  BY CaptureInv, AllowInv, BlockInv, UndoPolicyInv, RestorePolicyInv, StraightInv DEF W!Step
<1>2. Loaded' /\ MacCleared'
  BY <1>1 DEF WindowsPart, InPlace, Applying, Undoing, Removing, OnWindows, app, Loaded,
     MacCleared
<1>3. ASSUME AdaptersAreRead PROVE ResolverInv'
  BY <1>1, <1>3 DEF OnWindows, IInv, WindowsPart, InPlace, Applying, Undoing, Removing, app,
     past, dns, ResolverInv, Remembered, RecordFits, AdaptersDone, GivenBack, DnsIsUsers,
     StaysEnforced, D!Listed, D!Present
<1>4. ASSUME PolicyIsRead, AdaptersAreRead PROVE NothingLeft'
  BY <1>1, <1>4 DEF OnWindows, IInv, app, past, dns, NothingLeft, DnsIsUsers, StaysEnforced
<1> QED BY <1>1, <1>2, <1>3, <1>4 DEF IInv, WindowsPart

-----------------------------------------------------------------------------
(* Inside pf *)

OnMacos ==
  /\ IInv /\ os = "macos" /\ up = "serving" /\ call \in {"arm", "disarming", "remove"}
  /\ UNCHANGED <<os, user, up, app, past, winfw, dns>>

\* The parts of the invariant that the steps inside PfFirewall disturb.
MacPart ==
  /\ TypeOK /\ InPlace /\ Loaded /\ StaysEnforced
  /\ AnchorEmpties => MacCleared

\* The file is armed first, then the hook, pf, the anchor and the main ruleset;
\* the file is empty first, then the anchor.
LEMMA MacStepPart == ASSUME OnMacos, P!PfStep PROVE MacPart'
<1> USE DEF OnMacos, IInv, app, past, winfw, dns, P!PfStep, P!WriteAnchor, P!EnsureWired,
            P!EnablePf, P!LoadAnchor, P!ReloadMain, P!SetSocks, P!DisarmFile, P!FlushAnchor,
            P!UnsetSocks, P!Refused, P!pf, P!Fine, P!Fault, P!Goto, P!Returns
<1>1. TypeOK'
  <2>1. FrameOK'
    <3>1. UNCHANGED faults \/ (faults < MaxFaults /\ faults' = faults + 1)
      OBVIOUS
    <3> QED BY <3>1, FaultCount DEF TypeOK, FrameOK
  <2>2. P!PfTypeOK'
    BY DEF TypeOK, P!PfTypeOK, P!Truncates, P!Flushes, P!LoadsMain
  <2> QED BY <2>1, <2>2 DEF TypeOK, W!WinfwTypeOK, D!DnsTypeOK
<1>2. InPlace'
  BY DEF InPlace, Applying, Undoing, Removing, Loading, Unloading
<1>3. Loaded' /\ StaysEnforced'
  BY DEF P!LoadsMain, Loaded, StaysEnforced, HasArmed, Holds, Hooked, P!Enforced, InPlace,
     Loading, Unloading
<1>4. ASSUME AnchorEmpties PROVE MacCleared'
  BY <1>4 DEF P!Flushes, AnchorEmpties, MacCleared, Empty, StaysEnforced, InPlace,
     Loading, Unloading
<1> QED BY <1>1, <1>2, <1>3, <1>4 DEF MacPart

\* A step inside pf touches neither the Windows firewall nor a resolver.
LEMMA MacStep == ASSUME OnMacos, P!PfStep PROVE IInv'
<1>1. MacPart'
  BY MacStepPart
<1>2. pc' \notin Applying \union Undoing \union Removing /\ os' = "macos"
  BY <1>1 DEF MacPart, InPlace, Loading, Unloading, OnMacos, app, Applying, Undoing, Removing
<1>3. BlockedBehind' /\ (PolicyIsRead => WindowsInv')
  BY <1>2 DEF OnMacos, IInv, winfw, app, past, BlockedBehind, WindowsInv, Recorded,
     W!UsersProxy,
     AllowedFirst, NeverLockedOut, RestoredBehind, WindowsCleared, W!Captured, W!Blocked,
     Applying, Undoing, Removing
<1>4. ASSUME AdaptersAreRead PROVE ResolverInv'
  BY <1>1, <1>4 DEF OnMacos, IInv, MacPart, InPlace, Loading, Unloading, app,
     past, dns, ResolverInv, Remembered, RecordFits, AdaptersDone, GivenBack, DnsIsUsers,
     StaysEnforced, D!Listed, D!Present
<1>5. ASSUME PolicyIsRead, AdaptersAreRead PROVE NothingLeft'
  BY <1>1, <1>5 DEF OnMacos, IInv, app, past, dns, NothingLeft, DnsIsUsers, StaysEnforced
<1> QED BY <1>1, <1>3, <1>4, <1>5 DEF IInv, MacPart

-----------------------------------------------------------------------------
(* Inside the resolver *)

\* What the user may have set.
LEMMA Users ==
  /\ D!Adapter = ToSet(Adapters)
  /\ \A a \in D!Adapter : UsersDns[a] \in {"dhcp", "static"}
BY MachineAssumption DEF D!Adapter, D!ToSet, ToSet

OnResolver ==
  /\ IInv /\ up # "down" /\ call \in {"pin", "unpinning", "restore", "recover"}
  /\ UNCHANGED <<os, user, up, app, past, winfw, pf>>

\* The parts of the invariant that the steps inside AdapterDns disturb.
ResolverPart ==
  /\ TypeOK /\ InPlace
  /\ AdaptersAreRead => ResolverInv
  /\ PolicyIsRead /\ AdaptersAreRead => NothingLeft

\* The record lists what the list holds, and has the setting of an adapter that
\* was there and was read.
LEMMA SnapshotTaken ==
  ASSUME D!DnsTypeOK, pc = "snapshot" => todo \in Seq(D!Adapter), D!CaptureOnce
  PROVE  /\ UNCHANGED <<present, resolver>>
         /\ \/ UNCHANGED <<saved, captured, missed>> /\ saved
            \/ UNCHANGED <<saved, captured, missed>> /\ pc' = "returned"
            \/ /\ ~saved /\ saved' = TRUE /\ missed \subseteq missed' /\ missed' \subseteq D!Adapter
               /\ captured' \in [D!Adapter -> D!Setting \union {"unlisted"}]
               /\ \A a \in D!Adapter : captured'[a] # "unlisted" <=> a \in ToSet(todo)
               /\ \A a \in ToSet(todo) \ missed' :
                    a \in present /\ (resolver[a] # "loopback" => captured'[a] = resolver[a])
<1>1. UNCHANGED <<present, resolver>>
  BY DEF D!CaptureOnce
<1>2. CASE UNCHANGED <<saved, captured, missed>> /\ (saved \/ pc' = "returned")
  BY <1>1, <1>2
<1>3. CASE ~saved /\ \E fails \in SUBSET present :
             /\ saved' = TRUE
             /\ captured' = D!Snapshot(todo, D!Unread(todo, fails))
             /\ missed' = missed \union D!Unread(todo, fails)
             /\ fails \subseteq D!ToSet(todo)
  <2>1. PICK fails \in SUBSET present :
          /\ saved' = TRUE
          /\ captured' = D!Snapshot(todo, D!Unread(todo, fails))
          /\ missed' = missed \union D!Unread(todo, fails)
          /\ fails \subseteq D!ToSet(todo)
    BY <1>3
  <2> DEFINE unknown == D!Unread(todo, fails)
  <2>2. D!ToSet(todo) = ToSet(todo) /\ ToSet(todo) \subseteq D!Adapter
    BY DEF D!CaptureOnce, D!ToSet, ToSet
  <2>3. unknown \subseteq D!Adapter /\ ToSet(todo) \ unknown \subseteq present
    BY <2>1, <2>2 DEF D!Unread
  <2> HIDE DEF unknown
  <2>4. /\ captured' = [a \in D!Adapter |->
              IF a \notin ToSet(todo) THEN "unlisted"
              ELSE IF a \in unknown \/ (os = "macos" /\ resolver[a] = "loopback") THEN "dhcp"
              ELSE resolver[a]]
        /\ missed' = missed \union unknown
    BY <2>1, <2>2 DEF D!Snapshot, unknown
  <2>5. \A a \in D!Adapter : resolver[a] \in D!Setting /\ resolver[a] # "unlisted"
    BY DEF D!DnsTypeOK, D!Setting
  <2>6. captured' \in [D!Adapter -> D!Setting \union {"unlisted"}]
    BY <2>4, <2>5 DEF D!Setting
  <2> QED BY <1>1, <1>3, <2>1, <2>2, <2>3, <2>4, <2>5, <2>6 DEF D!DnsTypeOK
<1>4. \/ UNCHANGED <<saved, captured, missed>> /\ (saved \/ pc' = "returned")
      \/ ~saved /\ \E fails \in SUBSET present :
             /\ saved' = TRUE
             /\ captured' = D!Snapshot(todo, D!Unread(todo, fails))
             /\ missed' = missed \union D!Unread(todo, fails)
             /\ fails \subseteq D!ToSet(todo)
  BY DEF D!CaptureOnce, D!Returns
<1> QED BY <1>2, <1>3, <1>4

\* A step inside the resolver: the record is written before the first pin, of
\* what is there; what is pinned is on record; the record goes when all of it
\* was given back.
LEMMA ResolverSteps == ASSUME OnResolver, D!DnsStep PROVE ResolverPart'
<1> USE DEF OnResolver, IInv, app, past, winfw, pf, dns, D!DnsStep, D!CaptureOnce, D!PinOne,
            D!Pinned, D!UnpinOne, D!Unpinned, D!dns, D!Fine, D!Fault, D!Goto, D!Returns,
            D!Unread,
            D!Changes, D!Refuses
<1>1. pc \in {"snapshot", "pin", "unpin"} => todo \in Seq(D!Adapter)
  BY DEF InPlace
<1>2. pc \in {"pin", "unpin"} /\ todo # <<>> =>
        /\ Head(todo) \in D!Adapter /\ Tail(todo) \in Seq(D!Adapter)
        /\ ToSet(todo) = {Head(todo)} \union ToSet(Tail(todo))
  BY <1>1, HeadTail
<1>3. ASSUME AdaptersAreRead, D!Unpinned, ~failed, NEW a \in D!Adapter \ missed
      PROVE  resolver[a] = UsersDns[a]
  <2>1. a \notin ToSet(todo)
    BY <1>3, EmptySet
  <2>2. D!Listed(a) => resolver[a] = UsersDns[a]
    BY <1>3, <2>1 DEF ResolverInv, AdaptersDone
  <2>3. ~D!Listed(a) => resolver[a] = UsersDns[a]
    BY <1>3, Users DEF ResolverInv, Remembered, D!Listed
  <2> QED BY <2>2, <2>3
<1>4. TypeOK'
  <2>1. FrameOK'
    <3>1. UNCHANGED faults \/ (faults < MaxFaults /\ faults' = faults + 1)
      OBVIOUS
    <3> QED BY <3>1, FaultCount DEF TypeOK, FrameOK
  <2>2. D!DnsTypeOK'
    <3>1. CASE D!CaptureOnce
      <4>1. D!DnsTypeOK /\ D!CaptureOnce /\ (pc = "snapshot" => todo \in Seq(D!Adapter))
        BY <1>1, <3>1 DEF TypeOK
      <4> QED BY <4>1, SnapshotTaken DEF D!DnsTypeOK
    <3>2. CASE D!PinOne \/ D!Pinned \/ D!UnpinOne \/ D!Unpinned
      BY <1>1, <1>2, <3>2, Users, ZenonT(30) DEF TypeOK, InPlace, D!DnsTypeOK, D!Setting,
         D!Unlisted, D!WayBackOf, D!Listed
    <3> QED BY <3>1, <3>2
  <2> QED BY <2>1, <2>2 DEF TypeOK, W!WinfwTypeOK, P!PfTypeOK
<1>5. InPlace'
  BY <1>1, <1>2, EmptySet DEF InPlace, Applying, Undoing, Removing, Loading, Unloading, D!Listed
<1>6. ASSUME AdaptersAreRead PROVE Remembered'
  <2>1. CASE D!PinOne \/ D!Pinned \/ D!UnpinOne
    BY <1>1, <1>2, <1>6, <2>1, Users DEF ResolverInv, Remembered, RecordFits, AdaptersDone,
       InPlace, D!Listed, D!Present, D!Unlisted, D!WayBackOf, TypeOK, D!DnsTypeOK
  <2>3. CASE D!CaptureOnce
    <3>1. D!DnsTypeOK /\ D!CaptureOnce /\ (pc = "snapshot" => todo \in Seq(D!Adapter))
      BY <1>1, <2>3 DEF TypeOK
    <3>2. Remembered
      BY <1>6 DEF ResolverInv
    <3> QED BY <3>1, <3>2, SnapshotTaken, Users, ZenonT(30) DEF Remembered, D!Unlisted
  <2>2. CASE D!Unpinned
    <3>1. CASE UNCHANGED D!dns
      BY <1>6, <3>1 DEF ResolverInv, Remembered, D!Unlisted
    <3>2. CASE ~failed /\ captured' = D!Unlisted /\ UNCHANGED <<resolver, missed>>
      BY <1>6, <1>3, <2>2, <3>2, Users DEF Remembered, D!Unlisted
    <3> QED BY <2>2, <3>1, <3>2
  <2> QED BY <2>1, <2>2, <2>3
<1>7. ASSUME AdaptersAreRead PROVE RecordFits'
  <2>1. CASE D!CaptureOnce
    <3>1. D!DnsTypeOK /\ D!CaptureOnce /\ (pc = "snapshot" => todo \in Seq(D!Adapter))
      BY <1>1, <2>1 DEF TypeOK
    <3>2. /\ RecordFits /\ pc = "snapshot" /\ UNCHANGED os
          /\ (pc' = "pin" /\ todo' = todo) \/ pc' = "returned"
      BY <1>7, <2>1 DEF ResolverInv
    <3>3. present \subseteq D!Adapter /\ ToSet(todo) \subseteq D!Adapter
      BY <3>1, <3>2 DEF D!DnsTypeOK, ToSet
    <3>4. CASE UNCHANGED <<saved, captured, missed>>
      BY <3>1, <3>2, <3>4, SnapshotTaken DEF RecordFits, D!Listed, D!Present
    <3>5. CASE ~UNCHANGED <<saved, captured, missed>>
      <4>1. /\ missed \subseteq missed' /\ UNCHANGED present
            /\ \A a \in D!Adapter : D!Listed(a)' <=> a \in ToSet(todo)
            /\ \A a \in ToSet(todo) \ missed' : a \in present
        BY <3>1, <3>5, SnapshotTaken DEF D!Listed
      <4>2. \A a \in present \ missed : a \in ToSet(todo)
        BY <3>2 DEF RecordFits
      <4>3. saved'
        BY <3>1, <3>5, SnapshotTaken
      <4> QED BY <3>2, <3>3, <4>1, <4>2, <4>3 DEF RecordFits, D!Present
    <3> QED BY <3>4, <3>5
  <2>2. CASE D!PinOne
    BY <1>2, <1>7, <2>2 DEF ResolverInv, RecordFits, D!Listed, D!Present
  <2>3. CASE D!Pinned \/ D!UnpinOne \/ D!Unpinned
    BY <1>7, <2>3 DEF ResolverInv, RecordFits, D!Listed, D!Present
  <2> QED BY <2>1, <2>2, <2>3
<1>8. ASSUME AdaptersAreRead PROVE AdaptersDone'
  <2>1. CASE D!UnpinOne
    BY <1>1, <1>2, <1>8, <2>1, Users DEF ResolverInv, Remembered, RecordFits, AdaptersDone,
       InPlace, D!Listed, D!Present, D!WayBackOf, D!Command, TypeOK, D!DnsTypeOK, AdaptersAreRead
  <2>2. CASE D!CaptureOnce \/ D!PinOne \/ D!Pinned \/ D!Unpinned
    BY <2>2 DEF AdaptersDone
  <2> QED BY <2>1, <2>2
<1>9. ASSUME AdaptersAreRead PROVE GivenBack'
  <2>1. CASE D!Unpinned
    <3>1. UNCHANGED <<resolver, missed>>
      BY <2>1
    <3>2. result' = "ok" => DnsIsUsers'
      BY <1>3, <1>9, <2>1, <3>1 DEF DnsIsUsers
    <3> QED BY <1>9, <2>1, <3>1, <3>2 DEF ResolverInv, GivenBack, DnsIsUsers
  <2>2. CASE D!CaptureOnce \/ D!PinOne \/ D!Pinned
    <3>1. call' = "pin" /\ last' # "disconnected"
      BY <2>2 DEF InPlace, StaysEnforced
    <3> QED BY <3>1 DEF GivenBack
  <2>3. CASE D!UnpinOne
    <3>1. pc' = "unpin" /\ call' # "remove"
      BY <2>3
    <3>2. ASSUME DnsIsUsers PROVE DnsIsUsers'
      <4>1. Head(todo) \in D!Adapter \ missed => D!WayBackOf(Head(todo)) = UsersDns[Head(todo)]
        BY <1>1, <1>9, <2>3, HeadTail, Users
           DEF InPlace, ResolverInv, Remembered, D!WayBackOf, D!Listed
      <4> QED BY <1>2, <2>3, <3>2, <4>1 DEF DnsIsUsers, TypeOK, D!DnsTypeOK
    <3> QED BY <1>9, <2>3, <3>1, <3>2 DEF ResolverInv, GivenBack
  <2> QED BY <2>1, <2>2, <2>3
<1>10. ASSUME PolicyIsRead, AdaptersAreRead PROVE NothingLeft'
  <2>1. UNCHANGED <<os, call, found, last, lost, winfw, pf>>
    OBVIOUS
  <2>2. OnlyFirewall => OnlyFirewall'
    BY <2>1 DEF OnlyFirewall, FirewallIsUsers, W!UsersProxy, W!Captured, P!Enforced
  <2>3. CASE call = "pin"
    <3>4. last # "failed"
      <4>1. call \notin {"none", "recover"} => last = "none"
        BY DEF StaysEnforced
      <4> QED BY <2>3, <4>1
    <3>1. D!CaptureOnce \/ D!PinOne \/ D!Pinned
      <4>1. pc # "unpin"
        BY <2>3 DEF InPlace
      <4>2. D!UnpinOne \/ D!Unpinned => pc = "unpin"
        OBVIOUS
      <4>3. D!DnsStep
        OBVIOUS
      <4> HIDE DEF D!CaptureOnce, D!PinOne, D!Pinned, D!UnpinOne, D!Unpinned
      <4> QED BY <4>1, <4>2, <4>3
    <3>2. pc' \in {"pin", "returned"}
      BY <3>1
    <3>3. pc' = "returned" /\ result' = "raised" =>
            pc = "snapshot" /\ UNCHANGED <<resolver, missed>>
      BY <3>1
    <3> QED BY <1>10, <2>1, <2>3, <3>2, <3>3, <3>4 DEF NothingLeft, DnsIsUsers
  <2>4. CASE call # "pin"
    <3>1. DnsIsUsers => DnsIsUsers'
      <4>1. CASE D!UnpinOne
        <5>1. Head(todo) \in D!Adapter \ missed => D!WayBackOf(Head(todo)) = UsersDns[Head(todo)]
          BY <1>1, <1>10, <4>1, HeadTail, Users
             DEF InPlace, ResolverInv, Remembered, D!WayBackOf, D!Listed
        <5> QED BY <1>2, <4>1, <5>1 DEF DnsIsUsers, TypeOK, D!DnsTypeOK
      <4>2. CASE D!Unpinned
        BY <4>2 DEF DnsIsUsers
      <4>3. CASE D!CaptureOnce \/ D!PinOne \/ D!Pinned
        BY <2>4, <4>3 DEF InPlace
      <4> QED BY <4>1, <4>2, <4>3
    <3> QED BY <1>10, <2>1, <2>2, <2>4, <3>1 DEF NothingLeft
  <2> QED BY <2>3, <2>4
<1> QED BY <1>4, <1>5, <1>6, <1>7, <1>8, <1>9, <1>10 DEF ResolverPart, ResolverInv

\* A step inside the resolver touches no firewall.
LEMMA ResolverStepInv == ASSUME OnResolver, D!DnsStep PROVE IInv'
<1>1. ResolverPart'
  BY ResolverSteps
<1>2. pc' \in {"pin", "unpin", "snapshot", "returned"}
  BY <1>1 DEF ResolverPart, InPlace, OnResolver, app
<1>3. BlockedBehind' /\ Loaded' /\ StaysEnforced'
  BY <1>2 DEF OnResolver, IInv, winfw, pf, app, past, BlockedBehind, Loaded, StaysEnforced,
     HasArmed, Holds, Hooked, P!Enforced, W!Killswitch, W!Blocked
<1>4. ASSUME PolicyIsRead PROVE WindowsInv'
  BY <1>2, <1>4 DEF OnResolver, IInv, winfw, app, past, WindowsInv, Recorded, W!UsersProxy,
     AllowedFirst,
     NeverLockedOut, RestoredBehind, WindowsCleared, W!Captured, W!Blocked, Applying, Undoing,
     Removing, FirewallIsUsers, W!UsersProxy
<1>5. ASSUME AnchorEmpties PROVE MacCleared'
  BY <1>2, <1>5 DEF OnResolver, IInv, pf, app, past, MacCleared, Empty
<1> QED BY <1>1, <1>3, <1>4, <1>5 DEF IInv, ResolverPart

-----------------------------------------------------------------------------
(* Between the calls *)

\* The lists of adapters that lock may see.
LEMMA ListingsSeen ==
  ASSUME TypeOK, NEW list \in D!Listings
  PROVE  list \in Seq(D!Adapter) /\ (AdaptersAreRead => ToSet(list) = present)
<1>1. D!Among(present) \in Seq(D!Adapter) /\ ToSet(D!Among(present)) = present
  BY AmongSet DEF TypeOK, D!DnsTypeOK
<1>2. list = D!Among(present) \/ (list = <<>> /\ ~AdaptersAreRead)
  BY DEF D!Listings, AdaptersAreRead
<1>3. <<>> \in Seq(D!Adapter)
  OBVIOUS
<1> QED BY <1>1, <1>2, <1>3

\* A connect: the firewall first, then the resolver; from whatever failed it
\* goes on to un-pinning.
LEMMA ConnectsInv ==
  ASSUME IInv,
         \/ \E cfg \in Config : Connect(cfg) \/ ConnectTooEarly(cfg)
         \/ Armed \/ ArmFails \/ PinReturns
  PROVE  IInv'
<1> USE DEF IInv, app, past, winfw, pf, dns, W!winfw, P!pf, D!dns, Idle, Answers, Arms, Dies,
            Disarms, Over, frame, Finds, W!Fine, W!Fault, W!Goto, W!Returns, P!Fine, P!Goto,
            D!Fine, D!Goto, D!Returns, Connect, ConnectTooEarly, Armed, ArmFails,
            PinReturns, W!Apply, P!PfApply,
            D!Lock, D!Restore
<1>1. \A list \in D!Listings :
        list \in Seq(D!Adapter) /\ (AdaptersAreRead => ToSet(list) = present)
  BY ListingsSeen
<1>2. TypeOK'
  <2>1. FrameOK'
    <3>1. UNCHANGED faults \/ (faults < MaxFaults /\ faults' = faults + 1)
      OBVIOUS
    <3> QED BY <3>1, FaultCount DEF TypeOK, FrameOK
  <2>2. W!WinfwTypeOK'
    BY DEF TypeOK, W!WinfwTypeOK
  <2>3. UNCHANGED <<os, pf, dns>>
    OBVIOUS
  <2>4. P!PfTypeOK' /\ D!DnsTypeOK'
    BY <2>3, Users DEF TypeOK, P!PfTypeOK, D!DnsTypeOK
  <2> QED BY <2>1, <2>2, <2>4, MachineAssumption DEF TypeOK
<1>3. InPlace'
  <2>1. CASE \E cfg \in Config : Connect(cfg)
    BY <2>1, Lists DEF InPlace, Applying, Undoing, Loading, D!Listed
  <2>2. CASE Armed
    BY <1>1, <2>2 DEF InPlace, Applying, Undoing, Loading, D!Listed
  <2>3. CASE \E cfg \in Config : ConnectTooEarly(cfg)
    BY <2>3, AmongSet DEF InPlace, D!Listed
  <2>4. CASE ArmFails
    BY <2>4, AmongSet DEF InPlace, D!Listed
  <2>5. CASE PinReturns
    BY <2>5, AmongSet DEF InPlace, D!Listed
  <2> QED BY <2>1, <2>2, <2>3, <2>4, <2>5
<1>4. BlockedBehind' /\ Loaded'
  BY DEF BlockedBehind, Loaded, InPlace, W!Blocked, W!Killswitch, Behind
<1>5. StaysEnforced'
  <2>1. last' = "connected" \/ HasArmed' => HasArmed
    BY DEF HasArmed, InPlace, StaysEnforced
  <2>2. UNCHANGED <<os, policy, pf>>
    OBVIOUS
  <2>3. call' \notin {"none", "recover"} => last' = "none"
    BY DEF StaysEnforced
  <2> QED BY <2>1, <2>2, <2>3 DEF StaysEnforced, Holds, Hooked, P!Enforced, W!Killswitch,
       W!Blocked
<1>6. ASSUME PolicyIsRead PROVE Recorded'
  BY <1>6, SMTT(30) DEF WindowsInv, Recorded, W!UsersProxy, W!Captured, Undoing, Removing
<1>7. ASSUME PolicyIsRead PROVE AllowedFirst' /\ NeverLockedOut'
  BY <1>7, Lists DEF WindowsInv, AllowedFirst, NeverLockedOut, W!Blocked
<1>8. ASSUME PolicyIsRead PROVE RestoredBehind'
  BY <1>8, Lists DEF WindowsInv, RestoredBehind, Behind
<1>9. ASSUME PolicyIsRead PROVE WindowsCleared'
  BY <1>9 DEF WindowsInv, WindowsCleared, FirewallIsUsers, W!UsersProxy, InPlace,
       StaysEnforced, P!Enforced
<1>10. ASSUME AnchorEmpties PROVE MacCleared'
  BY <1>10 DEF MacCleared, Empty, InPlace, StaysEnforced
<1>11. ASSUME AdaptersAreRead PROVE Remembered' /\ RecordFits'
  BY <1>1, <1>11, AmongSet DEF ResolverInv, Remembered, RecordFits, D!Listed, D!Present,
     D!Listings, D!Unlisted, AdaptersAreRead
<1>12. ASSUME AdaptersAreRead PROVE AdaptersDone'
  BY <1>12, AmongSet, ZenonT(30) DEF ResolverInv, AdaptersDone, D!Listed, Remembered,
       StaysEnforced
<1>13. ASSUME AdaptersAreRead PROVE GivenBack'
  BY <1>13 DEF ResolverInv, GivenBack, DnsIsUsers, StaysEnforced, InPlace
<1>14. ASSUME PolicyIsRead, AdaptersAreRead PROVE NothingLeft'
  <2>1. UNCHANGED <<os, winfw, dns, pf>>
    OBVIOUS
  <2>2. /\ DnsIsUsers' <=> DnsIsUsers
        /\ FirewallIsUsers' <=> FirewallIsUsers
        /\ OnlyFirewall' <=> OnlyFirewall
    BY <2>1 DEF DnsIsUsers, FirewallIsUsers, OnlyFirewall, W!UsersProxy, W!Captured, P!Enforced
  <2>3. CASE \E cfg \in Config : Connect(cfg) \/ ConnectTooEarly(cfg)
    <3>1. found' = "untouched" => DnsIsUsers
      BY <2>3
    <3>2. call' \in {"arm", "unpinning"} /\ last' = "none"
      BY <2>3
    <3> QED BY <2>2, <3>1, <3>2 DEF NothingLeft
  <2>4. CASE Armed \/ ArmFails \/ PinReturns
    <3>1. NothingLeft /\ UNCHANGED found /\ call \in {"arm", "pin"}
      BY <1>14, <2>4
    <3>2. last' = "failed" => (call = "arm" /\ OnlyFirewall) \/ lost
      BY <1>14, <2>4 DEF WindowsInv, Recorded, OnlyFirewall, FirewallIsUsers, W!UsersProxy,
         W!Captured, StaysEnforced
    <3> QED BY <2>1, <2>2, <2>4, <3>1, <3>2 DEF NothingLeft, StaysEnforced
  <2> QED BY <2>3, <2>4
<1> QED BY <1>1, <1>2, <1>3, <1>4, <1>5, <1>6, <1>7, <1>8, <1>9, <1>10, <1>11, <1>12, <1>13, <1>14
    DEF WindowsInv, ResolverInv

\* The rest of a connect that failed, and a disconnect: the firewall goes after
\* the resolver.
LEMMA EndsInv ==
  ASSUME IInv,
         RollsBackRules \/ RolledBack \/ Disconnect \/ RestoreReturns \/ RemoveReturns
         \/ SelectUser
  PROVE  IInv'
<1> USE DEF IInv, app, past, winfw, pf, dns, W!winfw, P!pf, D!dns, Idle, Answers, Arms, Dies,
            Disarms, Over, frame, Finds, W!Fine, W!Fault, W!Goto, W!Returns, P!Fine, P!Goto,
            D!Fine, D!Goto, D!Returns, RollsBackRules, RolledBack, Disconnect,
            RestoreReturns, RemoveReturns, SelectUser,
            W!Remove, P!PfRemove, D!Restore
<1>1. TypeOK'
  <2>1. FrameOK'
    <3>1. UNCHANGED faults \/ (faults < MaxFaults /\ faults' = faults + 1)
      OBVIOUS
    <3> QED BY <3>1, FaultCount DEF TypeOK, FrameOK
  <2>2. W!WinfwTypeOK'
    BY DEF TypeOK, W!WinfwTypeOK
  <2>3. P!PfTypeOK' /\ D!DnsTypeOK'
    BY Users DEF TypeOK, P!PfTypeOK, D!DnsTypeOK
  <2> QED BY <2>1, <2>2, <2>3 DEF TypeOK
<1>2. InPlace'
  BY Lists, AmongSet DEF InPlace, Applying, Undoing, Removing, Loading, Unloading, D!Listed
<1>3. BlockedBehind' /\ Loaded'
  BY DEF BlockedBehind, Loaded, InPlace, W!Blocked, W!Killswitch, Behind
<1>4. StaysEnforced'
  BY DEF StaysEnforced, HasArmed, Holds, Hooked, P!Enforced, W!Killswitch, W!Blocked, InPlace
<1>5. ASSUME PolicyIsRead PROVE Recorded'
  <2>1. ~W!Captured => kept.is = "absent"
    <3>1. W!NoState.is = "absent"
      BY DEF W!NoState
    <3> QED BY <1>5, <3>1 DEF WindowsInv, Recorded, W!UsersProxy, W!Captured
  <2>2. UNCHANGED <<policy, rules, proxy, kept, unread>>
    OBVIOUS
  <2>3. \/ UNCHANGED lost /\ pc' \notin {"allow", "block", "proxy"} \union Undoing \union Removing
        \/ (lost' <=> lost \/ kept.is = "absent") /\ pc' = "restore"
        \/ UNCHANGED <<lost, pc>>
    BY Lists DEF Undoing, Removing
  <2> QED BY <1>5, <2>1, <2>2, <2>3 DEF WindowsInv, Recorded, W!UsersProxy, W!Captured,
       Undoing, Removing
<1>6. ASSUME PolicyIsRead PROVE AllowedFirst' /\ NeverLockedOut'
  BY <1>6, Lists DEF WindowsInv, AllowedFirst, NeverLockedOut, W!Blocked
<1>7. ASSUME PolicyIsRead PROVE RestoredBehind'
  BY <1>7, Lists DEF WindowsInv, RestoredBehind, Behind, W!UsersProxy
<1>8. ASSUME PolicyIsRead PROVE WindowsCleared'
  BY <1>8 DEF WindowsInv, WindowsCleared, FirewallIsUsers, W!UsersProxy, InPlace,
       StaysEnforced, P!Enforced
<1>9. ASSUME AnchorEmpties PROVE MacCleared'
  BY <1>9 DEF MacCleared, Empty, InPlace, StaysEnforced
<1>10. ASSUME AdaptersAreRead PROVE Remembered' /\ RecordFits'
  BY <1>10, AmongSet DEF ResolverInv, Remembered, RecordFits, D!Listed, D!Present,
     D!Listings, D!Unlisted, AdaptersAreRead
<1>11. ASSUME AdaptersAreRead PROVE AdaptersDone'
  BY <1>11, AmongSet DEF ResolverInv, AdaptersDone, D!Listed, Remembered, StaysEnforced
<1>12. ASSUME AdaptersAreRead PROVE GivenBack'
  <2>1. UNCHANGED dns
    OBVIOUS
  <2>2. call' = "remove" /\ restored' => DnsIsUsers
    BY <1>12 DEF ResolverInv, GivenBack, InPlace
  <2>3. last' = "disconnected" => DnsIsUsers
    BY <1>12 DEF ResolverInv, GivenBack, StaysEnforced
  <2> QED BY <2>1, <2>2, <2>3 DEF GivenBack, DnsIsUsers
<1>13. ASSUME PolicyIsRead, AdaptersAreRead PROVE NothingLeft'
  BY <1>13 DEF NothingLeft, WindowsInv, Recorded, W!UsersProxy, DnsIsUsers, OnlyFirewall,
     FirewallIsUsers,
     W!Captured, P!Enforced, StaysEnforced, InPlace
<1> QED BY <1>1, <1>2, <1>3, <1>4, <1>5, <1>6, <1>7, <1>8, <1>9, <1>10, <1>11, <1>12, <1>13
    DEF WindowsInv, ResolverInv

\* An adapter that goes or comes stays as it is on record, or is missed by it.
LEMMA ReplugFits ==
  ASSUME Remembered, RecordFits, NEW a, D!Unplug(a) \/ D!Plug(a), UNCHANGED <<os, pc, todo>>
  PROVE  Remembered' /\ RecordFits'
<1>1. UNCHANGED <<resolver, saved, captured>> /\ missed \subseteq missed'
  BY DEF D!Unplug, D!Plug
<1>2. Remembered'
  BY <1>1 DEF Remembered, D!Unlisted
<1>3. D!ToSet(todo) = ToSet(todo) /\ D!ToSet(todo)' = ToSet(todo)'
  BY DEF D!ToSet, ToSet
<1>4. CASE D!Unplug(a)
  BY <1>1, <1>2, <1>3, <1>4 DEF RecordFits, D!Unplug, D!Listed, D!Present
<1>5. CASE D!Plug(a)
  BY <1>1, <1>2, <1>3, <1>5 DEF RecordFits, D!Plug, D!Listed, D!Present
<1> QED BY <1>2, <1>4, <1>5

\* The daemon dies and starts, the machine restarts, another program loads
\* pf.conf, adapters come and go.
LEMMA EnvironmentInv == ASSUME IInv, Environment PROVE IInv'
<1> USE DEF IInv, app, past, winfw, pf, dns, W!winfw, P!pf, D!dns, Idle, Answers, Arms, Dies,
            Disarms, Over, frame, Finds, W!Fine, W!Fault, W!Goto, W!Returns, P!Fine, P!Goto,
            D!Fine, D!Goto, D!Returns, Environment, Crash, Reboot, OthersReload, Recovered,
            Replug,
            P!Boots, P!OthersReload, P!LoadsMain, D!Restore, D!Plug, D!Unplug
<1>0. Start =>
        /\ up = "down"
        /\ \/ up' = "starting" /\ call' = "recover" /\ D!Restore
           \/ up' = "serving" /\ UNCHANGED <<call, frame, dns>>
        /\ UNCHANGED <<os, user, lock, applied, restored, past, winfw, pf>>
  BY DEF Start
<1> USE <1>0
<1>1. TypeOK'
  <2>1. FrameOK'
    <3>1. UNCHANGED faults \/ (faults < MaxFaults /\ faults' = faults + 1)
      OBVIOUS
    <3> QED BY <3>1, FaultCount DEF TypeOK, FrameOK
  <2>2. W!WinfwTypeOK'
    BY DEF TypeOK, W!WinfwTypeOK
  <2>3. P!PfTypeOK' /\ D!DnsTypeOK'
    BY MachineAssumption, Users DEF TypeOK, P!PfTypeOK, D!DnsTypeOK
  <2> QED BY <2>1, <2>2, <2>3 DEF TypeOK
<1>2. InPlace'
  BY Lists, AmongSet DEF InPlace, Applying, Undoing, Removing, Loading, Unloading, D!Listed
<1>3. BlockedBehind' /\ Loaded'
  BY DEF BlockedBehind, Loaded, InPlace, W!Blocked, W!Killswitch, Behind
<1>4. StaysEnforced'
  BY DEF StaysEnforced, HasArmed, Holds, Hooked, P!Enforced, W!Killswitch, W!Blocked, InPlace
<1>5. ASSUME PolicyIsRead PROVE Recorded'
  BY <1>5 DEF WindowsInv, Recorded, W!UsersProxy, W!Captured, Undoing, Removing
<1>6. ASSUME PolicyIsRead PROVE AllowedFirst' /\ NeverLockedOut'
  BY <1>6, Lists DEF WindowsInv, AllowedFirst, NeverLockedOut, W!Blocked
<1>7. ASSUME PolicyIsRead PROVE RestoredBehind'
  BY <1>7, Lists DEF WindowsInv, RestoredBehind, Behind, W!UsersProxy
<1>8. ASSUME PolicyIsRead PROVE WindowsCleared'
  <2>1. UNCHANGED <<os, winfw>>
    OBVIOUS
  <2>2. /\ last' = "disconnected" => last = "disconnected"
        /\ call' \in {"remove", "disarming"} => UNCHANGED <<call, pc, result>>
    OBVIOUS
  <2>3. W!UsersProxy(proxy)' <=> W!UsersProxy(proxy)
    BY <2>1 DEF W!UsersProxy
  <2> QED BY <1>8, <2>1, <2>2, <2>3 DEF WindowsInv, WindowsCleared, FirewallIsUsers
<1>9. ASSUME AnchorEmpties PROVE MacCleared'
  BY <1>9 DEF MacCleared, Empty, InPlace, StaysEnforced
<1>10. ASSUME AdaptersAreRead PROVE Remembered' /\ RecordFits'
  <2>1. CASE \E a \in Roaming : Replug(a)
    <3>1. PICK a \in Roaming : Replug(a)
      BY <2>1
    <3>2. (D!Unplug(a) \/ D!Plug(a)) /\ UNCHANGED <<os, pc, todo>>
      BY <3>1
    <3>3. Remembered /\ RecordFits
      BY <1>10 DEF ResolverInv
    <3> QED BY <3>2, <3>3, ReplugFits
  <2>2. CASE /\ UNCHANGED <<os, dns>>
             /\ pc' \in {"idle", "unpin", "returned"} \/ UNCHANGED <<pc, todo>>
    BY <1>10, <2>2 DEF ResolverInv, Remembered, RecordFits, D!Listed, D!Present, D!Unlisted
  <2> QED BY <2>1, <2>2
<1>11. ASSUME AdaptersAreRead PROVE AdaptersDone'
  BY <1>11, AmongSet DEF ResolverInv, AdaptersDone, D!Listed, Remembered, StaysEnforced
<1>12. ASSUME AdaptersAreRead PROVE GivenBack'
  BY <1>12 DEF ResolverInv, GivenBack, DnsIsUsers, StaysEnforced, InPlace
<1>13. ASSUME PolicyIsRead, AdaptersAreRead PROVE NothingLeft'
  BY <1>13 DEF NothingLeft, WindowsInv, Recorded, W!UsersProxy, DnsIsUsers, OnlyFirewall,
     FirewallIsUsers,
     W!Captured, P!Enforced, StaysEnforced, InPlace
<1> QED BY <1>1, <1>2, <1>3, <1>4, <1>5, <1>6, <1>7, <1>8, <1>9, <1>10, <1>11, <1>12, <1>13
    DEF WindowsInv, ResolverInv

-----------------------------------------------------------------------------
(* The invariant *)

\* Nothing is in force at the start.
LEMMA InitInv == Init => IInv
<1> SUFFICES ASSUME Init PROVE IInv
  OBVIOUS
<1>1. FrameOK
  <2>1. failed = FALSE /\ result = "none" /\ faults = 0
    BY DEF Init
  <2>2. failed \in BOOLEAN /\ result \in {"none", "ok", "raised", "noted"}
    BY <2>1
  <2>3. faults \in 0..MaxFaults
    BY <2>1, CallsAssumption
  <2> QED BY <2>2, <2>3 DEF FrameOK
<1> USE DEF Init, W!WinfwInit, P!PfInit, D!DnsInit
<1>2. TypeOK
  <2>1. W!WinfwTypeOK
    BY PolicyTypes, KeptTypes DEF W!WinfwTypeOK, KeptType, W!UsersPolicy, W!Profile
  <2>2. P!PfTypeOK /\ D!DnsTypeOK
    BY MachineAssumption, Users DEF P!PfTypeOK, D!DnsTypeOK, D!Setting, D!Unlisted
  <2> QED BY <1>1, <2>1, <2>2 DEF TypeOK
<1>3. InPlace
  BY DEF InPlace
<1>4. BlockedBehind /\ Loaded /\ StaysEnforced
  BY DEF BlockedBehind, Loaded, StaysEnforced, HasArmed
<1>5. WindowsInv
  BY PolicyTypes DEF WindowsInv, Recorded, W!UsersProxy, AllowedFirst, NeverLockedOut,
     RestoredBehind,
     WindowsCleared, W!Captured, W!NoState, W!UsersPolicy, W!Blocked, Undoing, Removing
<1>6. MacCleared /\ ResolverInv /\ NothingLeft
  BY Users DEF MacCleared, ResolverInv, Remembered, RecordFits, AdaptersDone, GivenBack,
     NothingLeft, D!Unlisted
<1> QED BY <1>2, <1>3, <1>4, <1>5, <1>6 DEF IInv

\* Every step preserves it.
LEMMA NextInv == IInv /\ [Next]_vars => IInv'
<1> SUFFICES ASSUME IInv, [Next]_vars PROVE IInv'
  OBVIOUS
<1>1. CASE Operation
  <2>1. CASE FirewallStep
    BY <2>1, WindowsStep, MacStep DEF FirewallStep, OnWindows, OnMacos
  <2>2. CASE ResolverStep
    BY <2>2, ResolverStepInv DEF ResolverStep, OnResolver
  <2> QED BY <1>1, <2>1, <2>2, ConnectsInv, EndsInv DEF Operation
<1>2. CASE Environment
  BY <1>2, EnvironmentInv
<1>3. CASE UNCHANGED vars
  <2> USE <1>3 DEF vars, app, past, frame, winfw, pf, dns, IInv
  <2>1. TypeOK' /\ InPlace'
    BY DEF TypeOK, FrameOK, W!WinfwTypeOK, P!PfTypeOK, D!DnsTypeOK, InPlace, D!Listed
  <2>2. BlockedBehind' /\ Loaded' /\ StaysEnforced'
    BY DEF BlockedBehind, Behind, Loaded, StaysEnforced, HasArmed, Holds, Hooked, P!Enforced,
       W!Killswitch, W!Blocked
  <2>3. PolicyIsRead => WindowsInv'
    BY DEF WindowsInv, Recorded, W!UsersProxy, AllowedFirst, NeverLockedOut,
       RestoredBehind, Behind,
       WindowsCleared, FirewallIsUsers, W!UsersProxy, P!Enforced, W!Captured, W!Blocked
  <2>4. AnchorEmpties => MacCleared'
    BY DEF MacCleared, Empty
  <2>5. AdaptersAreRead => ResolverInv'
    BY DEF ResolverInv, Remembered, RecordFits, AdaptersDone, GivenBack, DnsIsUsers, D!Listed,
       D!Present
  <2>6. PolicyIsRead /\ AdaptersAreRead => NothingLeft'
    BY DEF NothingLeft, OnlyFirewall, FirewallIsUsers, W!UsersProxy, DnsIsUsers,
         P!Enforced, W!Captured
  <2> QED BY <2>1, <2>2, <2>3, <2>4, <2>5, <2>6
<1> QED BY <1>1, <1>2, <1>3 DEF Next

\* The invariant is inductive, whatever may go wrong; the parts that need a
\* command to be noticed or obeyed carry that as their hypothesis.
THEOREM Invariant == Spec => []IInv
<1> QED BY InitInv, NextInv, PTL DEF Spec

-----------------------------------------------------------------------------
(* The properties *)

\* From a connect that reported success until the next operation the
\* killswitch is in force, through deaths and other programs' loads of pf.conf,
\* and on Windows through reboots, whatever command is refused.  On macOS a
\* reboot may leave pf disabled, and then it is in force if something enables
\* pf (app.py:340-391, pf.py, winfw.py).
THEOREM Enforced == Spec => []EnforcedWhileConnected
<1>1. IInv => EnforcedWhileConnected
  BY DEF IInv, InPlace, StaysEnforced, Holds, Hooked, EnforcedWhileConnected, Killswitch,
     P!Enforced
<1> QED BY <1>1, Invariant, PTL

\* Outbound is never blocked unless Tor and loopback are allowed by name, as
\* long as netsh shows the policy when asked (winfw.py: the rules go in before
\* the first block and out after the last).
THEOREM LockedOut == ASSUME PolicyIsRead PROVE Spec => []NeverLockedOut
<1>1. IInv => NeverLockedOut
  BY PolicyIsRead DEF IInv, WindowsInv
<1> QED BY <1>1, Invariant, PTL

\* Whatever of ours is in force is on record with what the user had, for
\* another try, save the adapters and the proxy that could not be read when
\* they were captured (winfw.py, dns.py: capture once).
THEOREM RecordKept == ASSUME PolicyIsRead, AdaptersAreRead PROVE Spec => []WayBack
<1>1. ASSUME IInv PROVE WayBack
  <2>1. ASSUME NEW p \in W!Profile, W!Blocked(p), ~lost
        PROVE  kept.policy = W!UsersPolicy /\ W!UsersProxy(kept.proxy)
    <3>1. Recorded
      BY <1>1, PolicyIsRead DEF IInv, WindowsInv
    <3>2. W!UsersPolicy[p] = W!Users
      BY DEF W!UsersPolicy
    <3> QED BY <2>1, <3>1, <3>2, PolicyTypes DEF Recorded, W!UsersProxy, W!Blocked
  <2>2. ASSUME NEW a \in D!Adapter \ missed, resolver[a] = "loopback"
        PROVE  saved /\ captured[a] = UsersDns[a]
    <3>1. Remembered
      BY <1>1, AdaptersAreRead DEF IInv, ResolverInv
    <3> QED BY <2>2, <3>1, Users DEF Remembered, D!Unlisted
  <2> QED BY <2>1, <2>2 DEF WayBack
<1> QED BY <1>1, Invariant, PTL

\* A disconnect that gave back the resolver, was told a user and did not raise
\* has given the machine back, as far as it could be read when it was captured
\* (app.py:393-405).
THEOREM GivesBack ==
  ASSUME PolicyIsRead, AdaptersAreRead, AnchorEmpties
  PROVE  Spec => []DisconnectGivesBack
<1>1. IInv => DisconnectGivesBack
  BY PolicyIsRead, AdaptersAreRead, AnchorEmpties
     DEF IInv, TypeOK, D!DnsTypeOK, WindowsInv, WindowsCleared, MacCleared, Empty, ResolverInv,
         GivenBack, DisconnectGivesBack, FirewallIsUsers, W!UsersProxy, P!Enforced
<1> QED BY <1>1, Invariant, PTL

\* A connect that fails on an untouched machine leaves the resolver as it was,
\* and the Windows firewall as it was or on record; but for the adapters and
\* the proxy that could not be read (app.py:381-390).
THEOREM FirstFailure ==
  ASSUME PolicyIsRead, AdaptersAreRead
  PROVE  Spec => []FailedFirstConnectGivesBack
<1>1. IInv => FailedFirstConnectGivesBack
  BY PolicyIsRead, AdaptersAreRead
     DEF IInv, NothingLeft, OnlyFirewall, FailedFirstConnectGivesBack
<1> QED BY <1>1, Invariant, PTL

=============================================================================
