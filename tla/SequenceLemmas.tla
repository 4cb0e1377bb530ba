--------------------------- MODULE SequenceLemmas ----------------------------
(* Lemmas about sequences as the sets of their elements, for the proofs. *)
EXTENDS Naturals, Sequences, SequencesExt, SequenceTheorems, WellFoundedInduction, TLAPS

\* The elements of a list are its head and those of its tail.
LEMMA HeadTail ==
  ASSUME NEW S, NEW s \in Seq(S), s # <<>>
  PROVE  /\ Head(s) \in S /\ Tail(s) \in Seq(S)
         /\ Head(s) \in ToSet(s)
         /\ ToSet(s) = {Head(s)} \union ToSet(Tail(s))
<1>1. Len(s) \in Nat /\ Len(s) > 0 /\ DOMAIN s = 1..Len(s)
  OBVIOUS
<1>2. Head(s) = s[1] /\ Head(s) \in S /\ Head(s) \in ToSet(s)
  BY <1>1 DEF ToSet
<1>3. /\ Tail(s) \in Seq(S) /\ DOMAIN Tail(s) = 1..(Len(s) - 1)
      /\ \A i \in 1..(Len(s) - 1) : Tail(s)[i] = s[i + 1]
  BY <1>1
<1>4. ASSUME NEW x \in ToSet(s) PROVE x = Head(s) \/ x \in ToSet(Tail(s))
  <2>1. PICK i \in 1..Len(s) : x = s[i]
    BY <1>1, <1>4 DEF ToSet
  <2>2. CASE i = 1
    BY <2>1, <2>2, <1>2
  <2>3. CASE i # 1
    <3>1. i - 1 \in 1..(Len(s) - 1) /\ (i - 1) + 1 = i
      BY <2>3, <1>1
    <3>2. Tail(s)[i - 1] = x
      BY <3>1, <2>1, <1>3
    <3> QED BY <3>1, <3>2, <1>3 DEF ToSet
  <2> QED BY <2>2, <2>3
<1>5. ASSUME NEW x \in ToSet(Tail(s)) PROVE x \in ToSet(s)
  <2>1. PICK i \in 1..(Len(s) - 1) : x = Tail(s)[i]
    BY <1>3, <1>5 DEF ToSet
  <2>2. x = s[i + 1] /\ i + 1 \in 1..Len(s)
    BY <2>1, <1>1, <1>3
  <2> QED BY <2>2, <1>1 DEF ToSet
<1> QED BY <1>2, <1>3, <1>4, <1>5

\* Appending adds one element.
LEMMA AppendSet ==
  ASSUME NEW S, NEW s \in Seq(S), NEW e \in S
  PROVE  Append(s, e) \in Seq(S) /\ ToSet(Append(s, e)) = ToSet(s) \union {e}
<1>1. /\ Append(s, e) \in Seq(S) /\ Len(s) \in Nat
      /\ DOMAIN s = 1..Len(s) /\ DOMAIN Append(s, e) = 1..(Len(s) + 1)
      /\ \A i \in 1..Len(s) : Append(s, e)[i] = s[i]
      /\ Append(s, e)[Len(s) + 1] = e
  OBVIOUS
<1>2. \A i \in 1..(Len(s) + 1) : i \in 1..Len(s) \/ i = Len(s) + 1
  BY <1>1
<1>3. 1..Len(s) \subseteq 1..(Len(s) + 1) /\ Len(s) + 1 \in 1..(Len(s) + 1)
  BY <1>1
<1> QED BY <1>1, <1>2, <1>3 DEF ToSet

\* Reversing keeps the elements.
LEMMA ReverseSet ==
  ASSUME NEW S, NEW s \in Seq(S)
  PROVE  Reverse(s) \in Seq(S) /\ ToSet(Reverse(s)) = ToSet(s)
<1>1. Len(s) \in Nat /\ DOMAIN s = 1..Len(s) /\ DOMAIN Reverse(s) = 1..Len(s)
  BY DEF Reverse
<1>2. \A i \in 1..Len(s) : (Len(s) - i) + 1 \in 1..Len(s)
  BY <1>1
<1>3. \A i \in 1..Len(s) : Reverse(s)[i] = s[(Len(s) - i) + 1]
  BY <1>1 DEF Reverse
<1>4. \A i \in 1..Len(s) : s[i] = Reverse(s)[(Len(s) - i) + 1]
  BY <1>1, <1>2, <1>3
<1>5. Reverse(s) \in [1..Len(s) -> S]
  BY <1>1, <1>2 DEF Reverse
<1>6. Reverse(s) \in Seq(S)
  BY <1>1, <1>5
<1> QED BY <1>1, <1>2, <1>3, <1>4, <1>6 DEF ToSet

\* The empty list has no elements.
LEMMA EmptySet == ToSet(<<>>) = {}
BY DEF ToSet

\* A set of numbers that is not empty has a least element, and Min finds it.
LEMMA MinLeast ==
  ASSUME NEW S \in SUBSET Nat, S # {}
  PROVE  Min(S) \in S /\ \A x \in S : Min(S) <= x
<1> DEFINE R == OpToRel(<, Nat)
<1>1. IsWellFoundedOn(R, Nat)
  BY NatLessThanWellFounded
<1>2. \A x, y \in Nat : x < y => <<x, y>> \in R
  BY DEF OpToRel
<1> HIDE DEF R
<1>3. PICK m \in S : \A x \in S : ~(<<x, m>> \in R)
  BY <1>1, WFMin
<1>4. ASSUME NEW x \in S PROVE m <= x
  <2>1. x \in Nat /\ m \in Nat
    OBVIOUS
  <2>2. ~(x < m)
    BY <1>2, <1>3, <2>1
  <2> QED BY <2>1, <2>2
<1> QED BY <1>3, <1>4 DEF Min

\* Without its i-th element a sequence keeps the order of the others.
LEMMA RemoveOne ==
  ASSUME NEW S, NEW s \in Seq(S), NEW i \in 1..Len(s)
  PROVE  /\ RemoveAt(s, i) \in Seq(S)
         /\ Len(RemoveAt(s, i)) = Len(s) - 1
         /\ \A j \in 1..(Len(s) - 1) :
              RemoveAt(s, i)[j] = IF j < i THEN s[j] ELSE s[j + 1]
<1> DEFINE l == SubSeq(s, 1, i - 1)
           r == SubSeq(s, i + 1, Len(s))
<1>1. l \in Seq(S) /\ Len(l) = i - 1 /\ \A j \in 1..(i - 1) : l[j] = s[j]
  OBVIOUS
<1>2. r \in Seq(S) /\ Len(r) = Len(s) - i /\ \A j \in 1..(Len(s) - i) : r[j] = s[j + i]
  OBVIOUS
<1>3. RemoveAt(s, i) = l \o r
  BY DEF RemoveAt
<1> HIDE DEF l, r
<1>4. /\ l \o r \in Seq(S) /\ Len(l \o r) = Len(s) - 1
      /\ \A j \in 1..(Len(s) - 1) : (l \o r)[j] = IF j < i THEN l[j] ELSE r[j - (i - 1)]
  <2>1. /\ l \o r \in Seq(S) /\ Len(l \o r) = Len(l) + Len(r)
        /\ \A j \in 1..(Len(l) + Len(r)) :
             (l \o r)[j] = IF j <= Len(l) THEN l[j] ELSE r[j - Len(l)]
    BY <1>1, <1>2, ConcatProperties
  <2>3. Len(l) + Len(r) = Len(s) - 1 /\ \A j \in 1..(Len(s) - 1) : j < i <=> j <= Len(l)
    BY <1>1, <1>2
  <2> QED BY <1>1, <2>1, <2>3
<1>5. ASSUME NEW j \in 1..(Len(s) - 1), ~(j < i) PROVE r[j - (i - 1)] = s[j + 1]
  <2>1. j - (i - 1) \in 1..(Len(s) - i) /\ (j - (i - 1)) + i = j + 1
    BY <1>5
  <2> QED BY <2>1, <1>2
<1>6. ASSUME NEW j \in 1..(Len(s) - 1), j < i PROVE l[j] = s[j]
  BY <1>1, <1>6
<1> QED BY <1>3, <1>4, <1>5, <1>6

\* Reversing twice changes nothing.
LEMMA ReverseTwice ==
  ASSUME NEW S, NEW s \in Seq(S)
  PROVE  Reverse(Reverse(s)) = s
<1> DEFINE n == Len(s)
           r == Reverse(s)
<1>1. n \in Nat /\ r = [i \in 1..n |-> s[(n - i) + 1]]
  BY DEF Reverse
<1>2. r \in Seq(S) /\ Len(r) = n
  BY ReverseSet, <1>1
<1>3. Reverse(r) = [i \in 1..n |-> r[(n - i) + 1]]
  BY <1>2 DEF Reverse
<1>4. ASSUME NEW i \in 1..n PROVE Reverse(r)[i] = s[i]
  <2>1. (n - i) + 1 \in 1..n /\ (n - ((n - i) + 1)) + 1 = i
    BY <1>1
  <2> QED BY <2>1, <1>1, <1>3
<1>5. s = [i \in 1..n |-> s[i]]
  BY <1>1
<1> HIDE DEF n, r
<1> QED BY <1>3, <1>4, <1>5 DEF r

\* Reversed, the head of a list is the last element and its tail the front.
LEMMA ReverseTail ==
  ASSUME NEW S, NEW s \in Seq(S), s # <<>>
  PROVE  /\ Len(Reverse(s)) = Len(s) /\ Len(Reverse(Tail(s))) = Len(s) - 1
         /\ Reverse(s)[Len(s)] = Head(s)
         /\ \A i \in 1..(Len(s) - 1) : Reverse(Tail(s))[i] = Reverse(s)[i]
<1>1. /\ Len(s) \in Nat /\ Len(s) > 0 /\ Head(s) = s[1]
      /\ Tail(s) \in Seq(S) /\ Len(Tail(s)) = Len(s) - 1
      /\ \A i \in 1..(Len(s) - 1) : Tail(s)[i] = s[i + 1]
  OBVIOUS
<1>2. Reverse(s) = [i \in 1..Len(s) |-> s[(Len(s) - i) + 1]]
  BY DEF Reverse
<1>3. Reverse(Tail(s)) = [i \in 1..(Len(s) - 1) |-> Tail(s)[((Len(s) - 1) - i) + 1]]
  BY <1>1 DEF Reverse
<1>4. Reverse(s) \in Seq(S) /\ Reverse(Tail(s)) \in Seq(S)
  BY <1>1, ReverseSet
<1>5. Len(Reverse(s)) = Len(s) /\ Len(Reverse(Tail(s))) = Len(s) - 1
  <2>1. DOMAIN Reverse(s) = 1..Len(s) /\ DOMAIN Reverse(Tail(s)) = 1..(Len(s) - 1)
    BY <1>2, <1>3
  <2>2. Len(s) - 1 \in Nat
    BY <1>1
  <2>3. Len(Reverse(s)) = Len(s)
    BY <2>1, <1>4, <1>1, LenProperties
  <2>4. Len(Reverse(Tail(s))) = Len(s) - 1
    BY <2>1, <2>2, <1>4, LenProperties
  <2> QED BY <2>3, <2>4
<1>6. Len(s) \in 1..Len(s) /\ (Len(s) - Len(s)) + 1 = 1
  BY <1>1
<1>7. ASSUME NEW i \in 1..(Len(s) - 1)
      PROVE  Reverse(Tail(s))[i] = Reverse(s)[i]
  <2>1. /\ i \in 1..Len(s) /\ ((Len(s) - 1) - i) + 1 \in 1..(Len(s) - 1)
        /\ (((Len(s) - 1) - i) + 1) + 1 = (Len(s) - i) + 1
    BY <1>1
  <2> QED BY <2>1, <1>1, <1>2, <1>3
<1> QED BY <1>1, <1>2, <1>5, <1>6, <1>7

\* The elements of two lists together.
LEMMA ConcatSet ==
  ASSUME NEW S, NEW s \in Seq(S), NEW t \in Seq(S)
  PROVE  s \o t \in Seq(S) /\ ToSet(s \o t) = ToSet(s) \union ToSet(t)
<1> DEFINE u == s \o t
<1>1. /\ u \in Seq(S) /\ Len(u) = Len(s) + Len(t)
      /\ \A i \in 1..(Len(s) + Len(t)) :
           u[i] = IF i <= Len(s) THEN s[i] ELSE t[i - Len(s)]
  BY ConcatProperties
<1>2. /\ Len(s) \in Nat /\ Len(t) \in Nat /\ DOMAIN s = 1..Len(s)
      /\ DOMAIN t = 1..Len(t) /\ DOMAIN u = 1..(Len(s) + Len(t))
  BY <1>1
<1> HIDE DEF u
<1>3. ASSUME NEW x \in ToSet(u) PROVE x \in ToSet(s) \union ToSet(t)
  <2>1. PICK i \in 1..(Len(s) + Len(t)) : u[i] = x
    BY <1>2, <1>3 DEF ToSet
  <2>2. CASE i <= Len(s)
    BY <2>1, <2>2, <1>1, <1>2 DEF ToSet
  <2>3. CASE ~(i <= Len(s))
    <3>1. i - Len(s) \in 1..Len(t)
      BY <2>3, <1>2
    <3> QED BY <2>1, <2>3, <3>1, <1>1, <1>2 DEF ToSet
  <2> QED BY <2>2, <2>3
<1>4. ASSUME NEW x \in ToSet(s) PROVE x \in ToSet(u)
  <2>1. PICK i \in 1..Len(s) : s[i] = x
    BY <1>2, <1>4 DEF ToSet
  <2>2. i \in 1..(Len(s) + Len(t)) /\ u[i] = x
    BY <2>1, <1>1, <1>2
  <2> QED BY <2>2, <1>2 DEF ToSet
<1>5. ASSUME NEW x \in ToSet(t) PROVE x \in ToSet(u)
  <2>1. PICK i \in 1..Len(t) : t[i] = x
    BY <1>2, <1>5 DEF ToSet
  <2>2. /\ Len(s) + i \in 1..(Len(s) + Len(t)) /\ ~(Len(s) + i <= Len(s))
        /\ (Len(s) + i) - Len(s) = i
    BY <1>2
  <2>3. u[Len(s) + i] = x
    BY <2>1, <2>2, <1>1
  <2> QED BY <2>2, <2>3, <1>2 DEF ToSet
<1> QED BY <1>1, <1>3, <1>4, <1>5 DEF u

\* A statement about a number that holds for 0 and is passed on up to n.
LEMMA UpTo ==
  ASSUME NEW n \in Nat, NEW P \in SUBSET (0..n), 0 \in P,
         \A i \in 0..n : i \in P /\ i + 1 \in 0..n => i + 1 \in P
  PROVE  P = 0..n
<1> DEFINE Bad == (0..n) \ P
<1>1. SUFFICES ASSUME Bad # {} PROVE FALSE
  OBVIOUS
<1>2. Bad \in SUBSET Nat
  OBVIOUS
<1> DEFINE m == Min(Bad)
<1>3. m \in Bad /\ \A x \in Bad : m <= x
  BY <1>1, <1>2, MinLeast
<1> HIDE DEF m
<1>4. m # 0 /\ m \in 0..n
  BY <1>3
<1>5. m - 1 \in 0..n /\ (m - 1) + 1 = m /\ ~(m <= m - 1)
  BY <1>4
<1>6. m - 1 \in P
  BY <1>3, <1>5
<1> QED BY <1>3, <1>5, <1>6, <1>4

\* g is what Step makes of start, step by step along 1..n.
Computes(g, n, S, start, Step) ==
  /\ g \in [0..n -> S] /\ g[0] = start
  /\ \A i \in 1..n : g[i] = Step[<<g[i - 1], i>>]

\* It exists.
LEMMA StepByStep ==
  ASSUME NEW n \in Nat, NEW S, NEW start \in S, NEW Step \in [S \X (1..n) -> S]
  PROVE  \E g : Computes(g, n, S, start, Step)
<1> DEFINE Up(m) == \E g \in [0..m -> S] :
                      g[0] = start /\ \A i \in 1..m : g[i] = Step[<<g[i - 1], i>>]
           P == {m \in 0..n : Up(m)}
<1>1. 0 \in P
  <2> DEFINE g == [m \in 0..0 |-> start]
  <2>1. g \in [0..0 -> S] /\ g[0] = start /\ \A i \in 1..0 : FALSE
    OBVIOUS
  <2> HIDE DEF g
  <2> QED BY <2>1
<1>2. ASSUME NEW i \in 0..n, i \in P, i + 1 \in 0..n
      PROVE  i + 1 \in P
  <2>1. PICK g \in [0..i -> S] :
          g[0] = start /\ \A j \in 1..i : g[j] = Step[<<g[j - 1], j>>]
    BY <1>2
  <2>2. i + 1 \in 1..n /\ i \in 0..i /\ g[i] \in S
    BY <1>2, <2>1
  <2> DEFINE h == [j \in 0..(i + 1) |-> IF j = i + 1 THEN Step[<<g[i], i + 1>>] ELSE g[j]]
  <2>3. Step[<<g[i], i + 1>>] \in S
    BY <2>2
  <2>4. \A j \in 0..(i + 1) : j # i + 1 => j \in 0..i
    BY <2>2
  <2>5. h \in [0..(i + 1) -> S]
    BY <2>3, <2>4
  <2>6. h[0] = start
    BY <2>1, <2>2
  <2>7. ASSUME NEW j \in 1..(i + 1) PROVE h[j] = Step[<<h[j - 1], j>>]
    <3>1. j - 1 \in 0..i /\ j - 1 \in 0..(i + 1) /\ j - 1 # i + 1 /\ h[j - 1] = g[j - 1]
      BY <2>2
    <3>2. CASE j = i + 1
      BY <3>1, <3>2
    <3>3. CASE j # i + 1
      <4>1. j \in 1..i /\ j \in 0..(i + 1)
        BY <2>2, <3>3
      <4> QED BY <4>1, <3>1, <3>3, <2>1
    <3> QED BY <3>2, <3>3
  <2> HIDE DEF h
  <2>8. Up(i + 1)
    BY <2>5, <2>6, <2>7
  <2> QED BY <2>8, <1>2
<1> HIDE DEF Up
<1>3. P = 0..n
  <2> HIDE DEF P
  <2>1. P \in SUBSET (0..n)
    BY DEF P
  <2> QED BY <1>1, <1>2, <2>1, UpTo
<1>4. Up(n)
  BY <1>3
<1> QED BY <1>4 DEF Up, Computes

=============================================================================
