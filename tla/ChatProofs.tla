------------------------------ MODULE ChatProofs ------------------------------
(***************************************************************************)
(* Theorems about chat completions: whatever an upstream sends, what the   *)
(* client is told, and what the accounts are sent.                         *)
(*                                                                         *)
(* One behaviour is of one answer, one stream or one request; each has an  *)
(* invariant of its own, which the steps of the others leave alone.        *)
(***************************************************************************)
EXTENDS Chat, FiniteSetTheorems, WellFoundedInduction, TLAPS

-----------------------------------------------------------------------------
(* Of sequences.                                                           *)

LEMMA PrefixOfItself ==
  ASSUME NEW S, NEW s \in Seq(S)
  PROVE  IsPrefix(s, s)
BY DEF IsPrefix

LEMMA PrefixOfMore ==
  ASSUME NEW S, NEW s \in Seq(S), NEW t \in Seq(S)
  PROVE  IsPrefix(s, s \o t)
<1>1. Len(s \o t) = Len(s) + Len(t)
  OBVIOUS
<1>2. SubSeq(s \o t, 1, Len(s)) = SubSeq(s, 1, Len(s))
  OBVIOUS
<1>3. QED
  BY <1>1, <1>2 DEF IsPrefix

LEMMA AppendedLast ==
  ASSUME NEW S, NEW s \in Seq(S), NEW t \in Seq(S), NEW e \in S
  PROVE  s \o Append(t, e) = Append(s \o t, e)
OBVIOUS

LEMMA PrefixOfAppend ==
  ASSUME NEW S, NEW s \in Seq(S), NEW e \in S
  PROVE  IsPrefix(s, Append(s, e))
<1>1. Len(Append(s, e)) = Len(s) + 1
  OBVIOUS
<1>2. SubSeq(Append(s, e), 1, Len(s)) = SubSeq(s, 1, Len(s))
  OBVIOUS
<1>3. QED
  BY <1>1, <1>2 DEF IsPrefix

-----------------------------------------------------------------------------
(* Of what texts add up to.                                                *)

LEMMA Least ==
  ASSUME NEW S \in SUBSET Nat, S # {}
  PROVE  \E n \in S : \A m \in S : n <= m
<1>1. PICK n \in S : \A m \in S : <<m, n>> \notin OpToRel(<, Nat)
  BY NatLessThanWellFounded, WFMin
<1>2. \A m \in S : ~(m < n)
  BY <1>1 DEF OpToRel
<1>3. QED
  BY <1>2

LEMMA NothingBefore ==
  ASSUME NEW S, NEW s \in Seq(S)
  PROVE  <<>> \o s = s
OBVIOUS

\* f[i] is what the first i of some texts add up to.
Adds(f, ss) == f[0] = <<>> /\ \A i \in 1..Len(ss) : f[i] = f[i - 1] \o ss[i]

Sums(f, ss, S) == f \in [0..Len(ss) -> Seq(S)] /\ Adds(f, ss)

\* There is such an f, whatever the texts.
LEMMA SumsExist ==
  ASSUME NEW S, NEW ss \in Seq(Seq(S))
  PROVE  \E f : Sums(f, ss, S)
<1> DEFINE n == Len(ss)
           Runs(g, k) == /\ g \in [0..k -> Seq(S)] /\ g[0] = <<>>
                         /\ \A i \in 1..k : g[i] = g[i - 1] \o ss[i]
           Bad == {k \in 0..n : ~\E g : Runs(g, k)}
<1>1. n \in Nat /\ \A i \in 1..n : ss[i] \in Seq(S)
  OBVIOUS
<1> HIDE DEF n, Runs
<1>2. ASSUME Bad # {} PROVE FALSE
  <2>1. Bad \in SUBSET Nat
    BY <1>1
  <2> HIDE DEF Bad
  <2>2. PICK k \in Bad : \A i \in Bad : k <= i
    BY <1>2, <2>1, Least
  <2>3. k \in 0..n /\ ~\E g : Runs(g, k)
    BY <2>2 DEF Bad
  <2>4. CASE k = 0
    <3>1. Runs([i \in 0..0 |-> <<>>], 0)
      BY DEF Runs
    <3>2. QED
      BY <2>3, <2>4, <3>1
  <2>5. CASE k > 0
    <3>1. k - 1 \in 0..n /\ k - 1 \notin Bad /\ k \in 1..n
      BY <1>1, <2>2, <2>3, <2>5
    <3>2. PICK g : Runs(g, k - 1)
      BY <3>1 DEF Bad
    <3> DEFINE h == [i \in 0..k |-> IF i < k THEN g[i] ELSE g[k - 1] \o ss[k]]
    <3>3. g[k - 1] \in Seq(S) /\ ss[k] \in Seq(S)
      BY <1>1, <3>1, <3>2 DEF Runs
    <3>4. h \in [0..k -> Seq(S)] /\ h[0] = <<>>
      BY <1>1, <2>5, <3>1, <3>2, <3>3 DEF Runs
    <3>5. ASSUME NEW i \in 1..k PROVE h[i] = h[i - 1] \o ss[i]
      <4>1. i - 1 \in 0..k - 1 /\ i \in 0..k /\ i - 1 \in 0..k /\ i - 1 < k
            /\ (i < k \/ (i = k /\ ~(i < k) /\ i - 1 = k - 1))
        BY <1>1, <3>1
      <4>2. h[i - 1] = g[i - 1] /\ h[i] = IF i < k THEN g[i] ELSE g[k - 1] \o ss[k]
        BY <4>1
      <4> HIDE DEF h
      <4>3. CASE i < k
        <5>1. i \in 1..(k - 1)
          BY <1>1, <3>1, <4>3
        <5>2. g[i] = g[i - 1] \o ss[i]
          BY <3>2, <5>1 DEF Runs
        <5>3. QED
          BY <4>2, <4>3, <5>2
      <4>4. CASE i = k
        <5>1. i - 1 = k - 1 /\ ~(i < k)
          BY <4>1, <4>4
        <5>2. h[i - 1] = g[k - 1] /\ h[i] = g[k - 1] \o ss[k]
          BY <4>2, <5>1
        <5>3. QED
          BY <4>4, <5>2
      <4>5. QED
        BY <4>1, <4>3, <4>4
    <3> HIDE DEF h
    <3>6. QED
      BY <2>3, <3>4, <3>5 DEF Runs
  <2>6. QED
    BY <1>1, <2>3, <2>4, <2>5
<1>3. n \in 0..n
  BY <1>1
<1>4. PICK g : Runs(g, n)
  BY <1>2, <1>3
<1>5. QED
  BY <1>4 DEF Sums, Adds, n, Runs

\* There is only one.
LEMMA SumsAreOne ==
  ASSUME NEW S, NEW ss \in Seq(Seq(S)), NEW f, Sums(f, ss, S), NEW g, Adds(g, ss)
  PROVE  \A i \in 0..Len(ss) : g[i] = f[i]
<1> DEFINE n == Len(ss)
           Bad == {k \in 0..n : g[k] # f[k]}
<1>1. n \in Nat
  OBVIOUS
<1>2. f[0] = <<>> /\ \A i \in 1..n : f[i] = f[i - 1] \o ss[i]
  BY DEF Sums, Adds
<1> HIDE DEF n
<1>3. ASSUME Bad # {} PROVE FALSE
  <2>1. Bad \in SUBSET Nat
    BY <1>1
  <2> HIDE DEF Bad
  <2>2. PICK k \in Bad : \A i \in Bad : k <= i
    BY <1>3, <2>1, Least
  <2>3. k \in 0..n /\ g[k] # f[k]
    BY <2>2 DEF Bad
  <2>4. k # 0
    BY <1>2, <2>3 DEF Adds
  <2>5. k - 1 \in 0..n /\ k - 1 \notin Bad /\ k \in 1..n
    BY <1>1, <2>2, <2>3, <2>4
  <2>6. g[k - 1] = f[k - 1]
    BY <2>5 DEF Bad
  <2>7. g[k] = g[k - 1] \o ss[k] /\ f[k] = f[k - 1] \o ss[k]
    BY <1>2, <2>5 DEF n, Adds
  <2>8. QED
    BY <2>3, <2>6, <2>7
<1>4. QED
  BY <1>3 DEF n

\* FlattenSeq is what all of them add up to.
LEMMA FlattenIsTheSum ==
  ASSUME NEW S, NEW ss \in Seq(Seq(S)), NEW f, Sums(f, ss, S)
  PROVE  FlattenSeq(ss) = f[Len(ss)] /\ FlattenSeq(ss) \in Seq(S)
<1> DEFINE n == Len(ss)
           Step(g, i) == IF i = 1 THEN ss[i] ELSE g[i - 1] \o ss[i]
           flatten == CHOOSE g : g = [i \in 1..n |-> Step(g, i)]
<1>1. n \in Nat /\ f[n] \in Seq(S)
  BY DEF Sums, Adds
<1>2. CASE n = 0
  <2>1. ss = <<>> /\ FlattenSeq(ss) = ss
    BY <1>2 DEF FlattenSeq
  <2>2. f[n] = <<>>
    BY <1>2 DEF Sums, Adds
  <2>3. QED
    BY <1>1, <2>1, <2>2
<1>3. CASE n # 0
  <2>1. FlattenSeq(ss) = flatten[n]
    BY <1>3 DEF FlattenSeq
  <2> DEFINE h == [i \in 1..n |-> f[i]]
  <2>2. ASSUME NEW i \in 1..n PROVE h[i] = Step(h, i)
    <3>1. f[i] = f[i - 1] \o ss[i] /\ ss[i] \in Seq(S) /\ f[0] = <<>>
      BY DEF Sums, Adds
    <3>2. CASE i = 1
      <4>1. i - 1 = 0
        BY <3>2
      <4>2. f[i] = ss[i]
        BY <3>1, <4>1, NothingBefore
      <4>3. QED
        BY <3>2, <4>2
    <3>3. CASE i # 1
      <4>1. i - 1 \in 1..n
        BY <1>1, <3>3
      <4>2. QED
        BY <3>1, <3>3, <4>1
    <3>4. QED
      BY <3>2, <3>3
  <2>3. h = [i \in 1..n |-> Step(h, i)]
    BY <2>2
  <2>4. flatten = [i \in 1..n |-> Step(flatten, i)]
    <3> HIDE DEF h
    <3>1. QED
      BY <2>3
  <2> DEFINE g == [i \in 0..n |-> IF i = 0 THEN <<>> ELSE flatten[i]]
  <2> HIDE DEF flatten
  <2>5. ASSUME NEW i \in 1..n PROVE g[i] = g[i - 1] \o ss[i]
    <3>0. ss[i] \in Seq(S)
      OBVIOUS
    <3>1. flatten[i] = Step(flatten, i) /\ ss[i] \in Seq(S)
      <4> HIDE DEF Step
      <4>1. QED
        BY <2>4, <3>0
    <3>2. CASE i = 1
      <4>1. g[i] = ss[i] /\ g[i - 1] = <<>>
        <5>1. i - 1 = 0 /\ 0 \in 0..n /\ i \in 0..n /\ i # 0
          BY <1>1, <3>2
        <5>2. QED
          BY <3>1, <3>2, <5>1
      <4>2. QED
        BY <3>1, <4>1, NothingBefore
    <3>3. CASE i # 1
      <4>1. i - 1 \in 1..n /\ i - 1 # 0 /\ i # 0 /\ i \in 0..n /\ i - 1 \in 0..n
        BY <1>1, <3>3
      <4>2. g[i] = flatten[i] /\ g[i - 1] = flatten[i - 1]
        BY <4>1
      <4>3. QED
        BY <3>1, <3>3, <4>2
    <3>4. QED
      BY <3>2, <3>3
  <2>6. g[0] = <<>> /\ n \in 0..n
    BY <1>1
  <2> HIDE DEF g, Step, h
  <2>7. g[n] = f[n]
    <3>1. Adds(g, ss)
      BY <2>5, <2>6 DEF Adds
    <3>2. \A i \in 0..n : g[i] = f[i]
      BY <3>1, SumsAreOne
    <3>3. QED
      BY <2>6, <3>2
  <2>8. QED
    BY <1>1, <1>3, <2>1, <2>6, <2>7 DEF g
<1>4. QED
  BY <1>2, <1>3

LEMMA FlattenNothing == FlattenSeq(<<>>) = <<>>
BY DEF FlattenSeq

LEMMA FlattenType ==
  ASSUME NEW S, NEW ss \in Seq(Seq(S))
  PROVE  FlattenSeq(ss) \in Seq(S)
BY SumsExist, FlattenIsTheSum

LEMMA SameSeq ==
  ASSUME NEW S, NEW s \in Seq(S), NEW t \in Seq(S), Len(s) = Len(t),
         \A i \in 1..Len(s) : s[i] = t[i]
  PROVE  s = t
OBVIOUS

LEMMA TextsInARow ==
  ASSUME NEW S
  PROVE  \A s, t, u \in Seq(S) : (s \o t) \o u = s \o (t \o u)
OBVIOUS

\* One text more is added to what the others add up to; so are several.
LEMMA FlattenBoth ==
  ASSUME NEW S, NEW ss \in Seq(Seq(S)), NEW tt \in Seq(Seq(S))
  PROVE  FlattenSeq(ss \o tt) = FlattenSeq(ss) \o FlattenSeq(tt)
<1> DEFINE n == Len(ss)
           m == Len(tt)
<1>1. PICK f : Sums(f, ss, S)
  BY SumsExist
<1>2. PICK h : Sums(h, tt, S)
  BY SumsExist
<1>3. n \in Nat /\ m \in Nat /\ Len(ss \o tt) = n + m /\ ss \o tt \in Seq(Seq(S))
      /\ (\A i \in 1..n : (ss \o tt)[i] = ss[i])
      /\ (\A i \in n + 1..n + m : (ss \o tt)[i] = tt[i - n])
  OBVIOUS
<1> DEFINE g == [i \in 0..n + m |-> IF i <= n THEN f[i] ELSE f[n] \o h[i - n]]
<1>4. f \in [0..n -> Seq(S)] /\ f[0] = <<>> /\ \A i \in 1..n : f[i] = f[i - 1] \o ss[i]
  BY <1>1 DEF Sums, Adds
<1>5. h \in [0..m -> Seq(S)] /\ h[0] = <<>> /\ \A i \in 1..m : h[i] = h[i - 1] \o tt[i] /\ tt[i] \in Seq(S)
  <2>1. \A i \in 1..m : tt[i] \in Seq(S)
    OBVIOUS
  <2> HIDE DEF g
  <2>2. QED
    BY <1>2, <2>1 DEF Sums, Adds
<1> HIDE DEF n, m
<1>6. f[n] \in Seq(S) /\ \A i \in 0..m : h[i] \in Seq(S)
  BY <1>3, <1>4, <1>5
<1>7. ASSUME NEW i \in 1..n + m PROVE g[i] = g[i - 1] \o (ss \o tt)[i]
  <2>1. i \in 0..n + m /\ i - 1 \in 0..n + m /\ i \in Nat
    BY <1>3
  <2>0. /\ i <= n => g[i] = f[i]
        /\ ~(i <= n) => g[i] = f[n] \o h[i - n]
        /\ i - 1 <= n => g[i - 1] = f[i - 1]
        /\ ~(i - 1 <= n) => g[i - 1] = f[n] \o h[i - 1 - n]
    BY <2>1
  <2> HIDE DEF g
  <2>2. CASE i <= n
    <3>1. i \in 1..n /\ i - 1 <= n
      BY <1>3, <2>1, <2>2
    <3>2. g[i] = f[i] /\ g[i - 1] = f[i - 1]
      BY <2>0, <2>2, <3>1
    <3>3. QED
      BY <1>3, <1>4, <3>1, <3>2
  <2>3. CASE ~(i <= n)
    <3>1. i - n \in 1..m /\ i - 1 - n = i - n - 1 /\ i - n - 1 \in 0..m /\ i \in n + 1..n + m
      BY <1>3, <2>1, <2>3
    <3>2. g[i] = f[n] \o h[i - n]
      BY <2>0, <2>3
    <3>3. g[i - 1] = f[n] \o h[i - n - 1]
      <4>1. CASE i - 1 <= n
        <5>1. i - 1 = n /\ i - n - 1 = 0
          BY <1>3, <2>1, <2>3, <4>1
        <5>2. g[i - 1] = f[n]
          BY <2>0, <4>1, <5>1
        <5>3. h[i - n - 1] = <<>> /\ f[n] \o <<>> = f[n]
          BY <1>5, <1>6, <5>1
        <5>4. QED
          BY <5>2, <5>3
      <4>2. CASE ~(i - 1 <= n)
        BY <2>0, <3>1, <4>2
      <4>3. QED
        BY <4>1, <4>2
    <3>4. h[i - n] = h[i - n - 1] \o tt[i - n] /\ tt[i - n] \in Seq(S) /\ h[i - n - 1] \in Seq(S)
      BY <1>5, <1>6, <3>1
    <3>5. (f[n] \o h[i - n - 1]) \o tt[i - n] = f[n] \o (h[i - n - 1] \o tt[i - n])
      <4>1. \A s, t, u \in Seq(S) : (s \o t) \o u = s \o (t \o u)
        BY TextsInARow
      <4>2. QED
        BY <1>6, <3>4, <4>1
    <3>6. (ss \o tt)[i] = tt[i - n]
      BY <1>3, <3>1
    <3>7. QED
      BY <3>2, <3>3, <3>4, <3>5, <3>6
  <2>4. QED
    BY <2>2, <2>3
<1>8. g \in [0..n + m -> Seq(S)]
  <2>1. ASSUME NEW i \in 0..n + m PROVE (IF i <= n THEN f[i] ELSE f[n] \o h[i - n]) \in Seq(S)
    <3>1. CASE i <= n
      <4>1. i \in 0..n
        BY <1>3, <3>1
      <4>2. QED
        BY <1>4, <3>1, <4>1
    <3>2. CASE ~(i <= n)
      <4>1. i - n \in 0..m
        BY <1>3, <3>2
      <4>2. QED
        BY <1>6, <3>2, <4>1
    <3>3. QED
      BY <3>1, <3>2
  <2>2. QED
    BY <2>1
<1>9. g[0] = <<>>
  BY <1>3, <1>4
<1>10. ASSUME NEW k \in Nat, k = n + m PROVE g[k] = f[n] \o h[m]
  <2>1. k \in 0..n + m
    BY <1>3, <1>10
  <2>2. CASE m = 0
    <3>1. k = n /\ h[m] = <<>>
      BY <1>3, <1>5, <1>10, <2>2
    <3>2. g[k] = f[n]
      BY <1>3, <2>1, <3>1
    <3>3. QED
      BY <1>6, <3>1, <3>2
  <2>3. CASE m # 0
    <3>1. ~(k <= n) /\ k - n = m
      BY <1>3, <1>10, <2>3
    <3>2. g[k] = f[n] \o h[k - n]
      BY <2>1, <3>1
    <3>3. QED
      BY <3>1, <3>2
  <2>4. QED
    BY <2>2, <2>3
<1> HIDE DEF g
<1>11. Sums(g, ss \o tt, S)
  BY <1>3, <1>7, <1>8, <1>9 DEF Sums, Adds
<1>12. FlattenSeq(ss) = f[n] /\ FlattenSeq(tt) = h[m]
  BY <1>1, <1>2, FlattenIsTheSum DEF n, m
<1>13. FlattenSeq(ss \o tt) = g[n + m]
  BY <1>3, <1>11, FlattenIsTheSum
<1>14. n + m \in Nat
  BY <1>3
<1>15. QED
  BY <1>10, <1>12, <1>13, <1>14

LEMMA FlattenOne ==
  ASSUME NEW S, NEW s \in Seq(S)
  PROVE  FlattenSeq(<<s>>) = s
<1> DEFINE g == [i \in 0..1 |-> IF i = 0 THEN <<>> ELSE s]
<1>1. <<s>> \in Seq(Seq(S)) /\ Len(<<s>>) = 1 /\ <<s>>[1] = s
  OBVIOUS
<1>2. g \in [0..1 -> Seq(S)] /\ g[0] = <<>> /\ g[1] = s
  OBVIOUS
<1> HIDE DEF g
<1>3. \A i \in 1..1 : g[i] = g[i - 1] \o <<s>>[i]
  <2>1. g[1] = g[0] \o s
    BY <1>2
  <2>2. QED
    BY <1>1, <2>1
<1>4. Sums(g, <<s>>, S)
  BY <1>1, <1>2, <1>3 DEF Sums, Adds
<1>5. QED
  BY <1>1, <1>2, <1>4, FlattenIsTheSum

LEMMA FlattenMore ==
  ASSUME NEW S, NEW ss \in Seq(Seq(S)), NEW s \in Seq(S)
  PROVE  FlattenSeq(Append(ss, s)) = FlattenSeq(ss) \o s
<1>1. Append(ss, s) = ss \o <<s>> /\ <<s>> \in Seq(Seq(S))
  OBVIOUS
<1>2. FlattenSeq(ss \o <<s>>) = FlattenSeq(ss) \o FlattenSeq(<<s>>)
  BY <1>1, FlattenBoth
<1>3. QED
  BY <1>1, <1>2, FlattenOne

\* A sequence that is not empty has a front and a last.
LEMMA FrontAndLast ==
  ASSUME NEW T, NEW s \in Seq(T), s # <<>>
  PROVE  /\ Len(s) \in Nat \ {0} /\ s[Len(s)] \in T
         /\ [i \in 1..Len(s) - 1 |-> s[i]] \in Seq(T)
         /\ \A t \in T : [s EXCEPT ![Len(s)] = t] = Append([i \in 1..Len(s) - 1 |-> s[i]], t)
<1> DEFINE n == Len(s)
           front == [i \in 1..n - 1 |-> s[i]]
<1>1. n \in Nat \ {0} /\ s[n] \in T
  OBVIOUS
<1>2. front \in Seq(T) /\ Len(front) = n - 1
  BY <1>1
<1>3. \A i \in 1..n - 1 : front[i] = s[i]
  BY <1>1, <1>2
<1>4. ASSUME NEW t \in T PROVE [s EXCEPT ![n] = t] = Append(front, t)
  <2> DEFINE x == [s EXCEPT ![n] = t]
             y == Append(front, t)
  <2>1. x \in Seq(T) /\ Len(x) = n
    BY <1>1
  <2>2. \A i \in 1..n : x[i] = IF i = n THEN t ELSE s[i]
    BY <1>1
  <2> HIDE DEF front
  <2>3. y \in Seq(T) /\ Len(y) = n
    BY <1>1, <1>2
  <2>4. \A i \in 1..n : y[i] = IF i = n THEN t ELSE s[i]
    BY <1>1, <1>2, <1>3
  <2> HIDE DEF x, y, n
  <2>5. \A i \in 1..Len(x) : x[i] = y[i]
    BY <2>1, <2>2, <2>4
  <2>6. x = y
    BY <2>1, <2>3, <2>5, SameSeq
  <2>7. QED
    BY <2>6 DEF x, y, n
<1>5. QED
  BY <1>1, <1>2, <1>4

\* When the last text goes on, so does what they add up to.
LEMMA FlattenLonger ==
  ASSUME NEW S, NEW ss \in Seq(Seq(S)), ss # <<>>, NEW s \in Seq(S)
  PROVE  FlattenSeq([ss EXCEPT ![Len(ss)] = @ \o s]) = FlattenSeq(ss) \o s
<1> DEFINE n == Len(ss)
           front == [i \in 1..n - 1 |-> ss[i]]
           last == ss[n]
           new == last \o s
<1>1. /\ n \in Nat \ {0} /\ last \in Seq(S) /\ front \in Seq(Seq(S))
      /\ \A t \in Seq(S) : [ss EXCEPT ![n] = t] = Append(front, t)
  <2> DEFINE T == Seq(S)
  <2>1. ss \in Seq(T)
    OBVIOUS
  <2> HIDE DEF T
  <2>2. /\ n \in Nat \ {0} /\ last \in T /\ front \in Seq(T)
        /\ \A t \in T : [ss EXCEPT ![n] = t] = Append(front, t)
    BY <2>1, FrontAndLast
  <2>3. QED
    BY <2>2 DEF T
<1>2. new \in Seq(S)
  BY <1>1
<1> HIDE DEF n, front, last, new
<1>5. ss = [ss EXCEPT ![n] = last]
  BY DEF last
<1>6. FlattenSeq(ss) = FlattenSeq(front) \o last /\ FlattenSeq(front) \in Seq(S)
  BY <1>1, <1>5, FlattenMore, FlattenType
<1>7. FlattenSeq([ss EXCEPT ![n] = new]) = FlattenSeq(front) \o new
  BY <1>1, <1>2, FlattenMore
<1>8. FlattenSeq(front) \o new = FlattenSeq(ss) \o s
  <2>1. ASSUME NEW a \in Seq(S) PROVE (a \o last) \o s = a \o (last \o s)
    BY <1>1
  <2>2. QED
    BY <1>6, <2>1 DEF new
<1>9. QED
  BY <1>7, <1>8 DEF n, new, last

\* The same of texts in a row that are one more, or the last of which is longer.
LEMMA OneMoreText ==
  ASSUME NEW S, NEW ss \in Seq(Seq(S)), NEW tt \in Seq(Seq(S)), Len(tt) = Len(ss) + 1,
         \A n \in 1..Len(ss) : tt[n] = ss[n]
  PROVE  FlattenSeq(tt) = FlattenSeq(ss) \o tt[Len(ss) + 1]
<1> DEFINE T == Seq(S)
           e == tt[Len(ss) + 1]
<1>1. ss \in Seq(T) /\ tt \in Seq(T) /\ Len(ss) \in Nat
  OBVIOUS
<1>2. e \in Seq(S) /\ e \in T
  BY <1>1
<1>3. tt = Append(ss, e)
  <2> HIDE DEF T
  <2>1. Append(ss, e) \in Seq(T) /\ Len(Append(ss, e)) = Len(ss) + 1
        /\ \A n \in 1..Len(ss) : Append(ss, e)[n] = ss[n]
        /\ Append(ss, e)[Len(ss) + 1] = e
    BY <1>1, <1>2
  <2>2. ASSUME NEW n \in 1..Len(tt) PROVE tt[n] = Append(ss, e)[n]
    <3>1. n \in 1..Len(ss) \/ n = Len(ss) + 1
      BY <1>1
    <3>2. QED
      BY <2>1, <3>1
  <2> HIDE DEF e
  <2>3. QED
    BY <1>1, <2>1, <2>2, SameSeq
<1> HIDE DEF e
<1>4. QED
  BY <1>2, <1>3, FlattenMore DEF e

LEMMA LastTextLonger ==
  ASSUME NEW S, NEW ss \in Seq(Seq(S)), NEW tt \in Seq(Seq(S)), ss # <<>>, Len(tt) = Len(ss),
         \A n \in 1..Len(ss) : n # Len(ss) => tt[n] = ss[n],
         NEW s \in Seq(S), tt[Len(ss)] = ss[Len(ss)] \o s
  PROVE  FlattenSeq(tt) = FlattenSeq(ss) \o s
<1> DEFINE T == Seq(S)
           more == [ss EXCEPT ![Len(ss)] = @ \o s]
<1>1. ss \in Seq(T) /\ tt \in Seq(T) /\ Len(ss) \in Nat \ {0}
  OBVIOUS
<1>2. ss[Len(ss)] \o s \in T
  <2>1. ss[Len(ss)] \in Seq(S)
    OBVIOUS
  <2>2. QED
    BY <2>1
<1>3. tt = more
  <2> HIDE DEF T
  <2>1. more \in Seq(T) /\ Len(more) = Len(ss)
        /\ \A n \in 1..Len(ss) : more[n] = IF n = Len(ss) THEN ss[Len(ss)] \o s ELSE ss[n]
    BY <1>1, <1>2
  <2> HIDE DEF more
  <2>2. ASSUME NEW n \in 1..Len(more) PROVE more[n] = tt[n]
    <3>1. CASE n = Len(ss)
      BY <2>1, <3>1
    <3>2. CASE n # Len(ss)
      BY <2>1, <3>2
    <3>3. QED
      BY <3>1, <3>2
  <2>3. Len(more) = Len(tt)
    BY <2>1
  <2>4. more = tt
    BY <1>1, <2>1, <2>2, <2>3, SameSeq
  <2>5. QED
    BY <2>4
<1> HIDE DEF more
<1>4. QED
  BY <1>3, FlattenLonger DEF more

-----------------------------------------------------------------------------
(* Codex.                                                                  *)

\* The keys of the collector are the items the upstream named, each once.
KeysInv ==
  /\ \A n, m \in 1..Len(order) : order[n] = order[m] => n = m
  /\ \A i \in Items : Codex!Known(i) <=> i \in opened \cup closed

\* The client has a call for each of them, at the same index and with the same
\* arguments.
CallsInv ==
  /\ Len(sentTools) = Len(order)
  /\ \A n \in 1..Len(order) :
       sentTools[n].id = order[n] /\ sentTools[n].args = args[order[n]]

\* They are all that the upstream sent, unless it does not name an item in a delta as
\* it did when it opened it: then they are none until the item is done.
ArgsInv ==
  \A i \in Items :
    /\ i \notin opened \cup closed => pieces[i] = 0
    /\ args[i] = IF i \in closed \/ name.open = name.delta
                 THEN Codex!Whole(pieces[i]) ELSE <<>>

\* The reason is that there are calls, until the upstream says that it was cut short;
\* it is sent at the end, and only then, unless the upstream failed.
ReasonInv ==
  /\ codexFinish = IF codexEnded = "incomplete" THEN "length"
                   ELSE IF order = <<>> THEN "stop" ELSE "tool_calls"
  /\ sentFinish = IF codexEnded \in {"no", "failed"} THEN "none" ELSE codexFinish

CodexInv ==
  answering = "codex" => Codex!TypeOK /\ KeysInv /\ CallsInv /\ ArgsInv /\ ReasonInv /\ sentText = text

\* A record of a call, with other arguments.
LEMMA OtherArgs ==
  ASSUME NEW A, NEW B, NEW r \in [id : A, args : B], NEW x
  PROVE  [r EXCEPT !.args = x] = [id |-> r.id, args |-> x]
<1>1. PICK i \in A, b \in B : r = [id |-> i, args |-> b]
  OBVIOUS
<1>2. QED
  BY <1>1

LEMMA PiecesBounded == MaxPieces \in Nat
BY ChatAssumption DEF ChatAssumption, Codex!StreamAssumption

LEMMA NoPieces == Codex!Whole(0) = <<>>
BY DEF Codex!Whole

LEMMA CodexInitially == Init => CodexInv
<1> SUFFICES ASSUME Init, answering = "codex"
             PROVE  Codex!TypeOK /\ KeysInv /\ CallsInv /\ ArgsInv /\ ReasonInv /\ sentText = text
  BY DEF CodexInv
<1>1. Codex!CodexInit /\ sentRole /\ sentText = <<>> /\ sentTools = <<>>
      /\ sentFinish = "none" /\ ~sentDone
  BY DEF Init, SentNothing
<1> HIDE DEF Init
<1>2. Codex!TypeOK
  BY <1>1, PiecesBounded DEF Codex!CodexInit, Codex!TypeOK, Codex!Ends, Codex!Pieces, Codex!Reasons
<1>3. KeysInv /\ CallsInv
  BY <1>1 DEF Codex!CodexInit, KeysInv, CallsInv, Codex!Known
<1>4. ArgsInv
  BY <1>1, NoPieces DEF Codex!CodexInit, ArgsInv
<1>5. QED
  BY <1>1, <1>2, <1>3, <1>4 DEF Codex!CodexInit, ReasonInv

\* An item that a tool was opened for is at one place in the order.
LEMMA ToolIndexOf ==
  ASSUME KeysInv, NEW i \in Items, Codex!Known(i)
  PROVE  /\ Codex!ToolIndex(i) \in 1..Len(order)
         /\ order[Codex!ToolIndex(i)] = i
         /\ \A n \in 1..Len(order) : n # Codex!ToolIndex(i) => order[n] # i
<1>1. PICK n \in 1..Len(order) : order[n] = i
  BY DEF Codex!Known
<1>2. Codex!ToolIndex(i) \in 1..Len(order) /\ order[Codex!ToolIndex(i)] = i
  BY <1>1 DEF Codex!ToolIndex
<1>3. QED
  BY <1>2 DEF KeysInv

\* A tool that is opened is the last one, and the others are where they were.
LEMMA OpenedTool ==
  ASSUME Codex!TypeOK, NEW i \in Items, NEW a \in Seq(Codex!Pieces), Codex!OpenTool(i, a)
  PROVE  /\ order' \in Seq(Items) /\ Len(order') = Len(order) + 1 /\ order' # <<>>
         /\ order'[Len(order) + 1] = i
         /\ \A n \in 1..Len(order) : order'[n] = order[n]
         /\ sentTools' \in Seq([id : Items, args : Seq(Codex!Pieces)])
         /\ Len(sentTools') = Len(sentTools) + 1
         /\ sentTools'[Len(sentTools) + 1] = [id |-> i, args |-> a]
         /\ \A n \in 1..Len(sentTools) : sentTools'[n] = sentTools[n]
<1>1. [id |-> i, args |-> a] \in [id : Items, args : Seq(Codex!Pieces)]
  OBVIOUS
<1>2. order \in Seq(Items) /\ sentTools \in Seq([id : Items, args : Seq(Codex!Pieces)])
  BY DEF Codex!TypeOK
<1>3. order' = Append(order, i) /\ sentTools' = Append(sentTools, [id |-> i, args |-> a])
  BY DEF Codex!OpenTool, Codex!SendCall
<1>4. order' # <<>>
  <2>1. Len(order') = Len(order) + 1 /\ Len(order) \in Nat
    BY <1>2, <1>3
  <2>2. QED
    BY <2>1
<1>5. QED
  BY <1>1, <1>2, <1>3, <1>4

\* Arguments that are sent are those of one tool, which is where it was.
LEMMA AddedArgs ==
  ASSUME Codex!TypeOK, NEW n \in 1..Len(sentTools), NEW a \in Seq(Codex!Pieces),
         Codex!SendArgs(n, a)
  PROVE  /\ sentTools' \in Seq([id : Items, args : Seq(Codex!Pieces)])
         /\ Len(sentTools') = Len(sentTools)
         /\ sentTools'[n] = [id |-> sentTools[n].id, args |-> sentTools[n].args \o a]
         /\ \A m \in 1..Len(sentTools) : m # n => sentTools'[m] = sentTools[m]
<1> DEFINE T == [id : Items, args : Seq(Codex!Pieces)]
           new == [id |-> sentTools[n].id, args |-> sentTools[n].args \o a]
<1>1. sentTools \in Seq(T)
  BY DEF Codex!TypeOK
<1> HIDE DEF T
<1>2. sentTools[n] \in T
  BY <1>1
<1>3. sentTools[n].id \in Items /\ sentTools[n].args \in Seq(Codex!Pieces)
  BY <1>2 DEF T
<1>4. sentTools[n].args \o a \in Seq(Codex!Pieces)
  BY <1>3
<1>5. new \in T
  BY <1>3, <1>4 DEF T
<1>6. [sentTools[n] EXCEPT !.args = @ \o a] = new
  BY <1>2, OtherArgs DEF T
<1>7. sentTools' = [sentTools EXCEPT ![n] = new]
  BY <1>6 DEF Codex!SendArgs
<1> HIDE DEF new
<1>8. sentTools' \in Seq(T) /\ Len(sentTools') = Len(sentTools) /\ sentTools'[n] = new
      /\ \A m \in 1..Len(sentTools) : m # n => sentTools'[m] = sentTools[m]
  BY <1>1, <1>5, <1>7
<1>9. QED
  BY <1>8 DEF T, new

\* Opening a tool for an item that has none keeps the keys and the calls.
LEMMA OpenToolKeeps ==
  ASSUME Codex!TypeOK, KeysInv, CallsInv, NEW i \in Items, NEW a \in Seq(Codex!Pieces),
         Codex!OpenTool(i, a), i \notin opened \cup closed,
         (opened \cup closed)' = opened \cup closed \cup {i},
         args'[i] = a, \A j \in Items : j # i => args'[j] = args[j]
  PROVE  KeysInv' /\ CallsInv'
<1> DEFINE T == [id : Items, args : Seq(Codex!Pieces)]
           L == Len(order)
<1>1. order \in Seq(Items) /\ L \in Nat /\ Len(sentTools) = L
  BY DEF Codex!TypeOK, CallsInv
<1>2. order' \in Seq(Items) /\ Len(order') = L + 1 /\ order'[L + 1] = i
      /\ \A n \in 1..L : order'[n] = order[n]
  BY OpenedTool
<1>3. sentTools' \in Seq(T) /\ Len(sentTools') = L + 1
      /\ sentTools'[L + 1].id = i /\ sentTools'[L + 1].args = a
      /\ \A n \in 1..L : sentTools'[n] = sentTools[n]
  <2>1. sentTools'[L + 1] = [id |-> i, args |-> a]
    BY <1>1, OpenedTool
  <2>2. sentTools' \in Seq(T) /\ Len(sentTools') = L + 1 /\ \A n \in 1..L : sentTools'[n] = sentTools[n]
    BY <1>1, OpenedTool
  <2> HIDE DEF T, L
  <2>3. QED
    BY <2>1, <2>2
<1> HIDE DEF T, L
<1>4. \A n \in 1..L : order[n] \in Items /\ order[n] # i
  BY <1>1 DEF KeysInv, Codex!Known, L
<1>5. \A n \in 1..L + 1 : n \in 1..L \/ n = L + 1
  BY <1>1
<1>6. \A n, m \in 1..L + 1 : order'[n] = order'[m] => n = m
  BY <1>2, <1>4, <1>5 DEF KeysInv, L
<1>7. ASSUME NEW j \in Items PROVE Codex!Known(j)' <=> j \in opened \cup closed \cup {i}
  <2>1. Codex!Known(j) <=> \E n \in 1..L : order[n] = j
    BY DEF Codex!Known, L
  <2>2. Codex!Known(j)' <=> \E n \in 1..L + 1 : order'[n] = j
    BY <1>2 DEF Codex!Known
  <2>3. Codex!Known(j)' <=> Codex!Known(j) \/ j = i
    BY <1>1, <1>2, <1>5, <2>1, <2>2
  <2>4. QED
    BY <2>3 DEF KeysInv
<1>8. ASSUME NEW n \in 1..L + 1
      PROVE  sentTools'[n].id = order'[n] /\ sentTools'[n].args = args'[order'[n]]
  <2>1. CASE n \in 1..L
    <3>1. sentTools[n].id = order[n] /\ sentTools[n].args = args[order[n]]
      BY <2>1 DEF CallsInv, L
    <3>2. sentTools'[n] = sentTools[n] /\ order'[n] = order[n] /\ args'[order[n]] = args[order[n]]
      BY <1>2, <1>3, <1>4, <2>1
    <3>3. QED
      BY <3>1, <3>2
  <2>2. CASE n = L + 1
    BY <1>2, <1>3, <2>2
  <2>3. QED
    BY <1>5, <2>1, <2>2
<1>9. QED
  BY <1>2, <1>3, <1>6, <1>7, <1>8 DEF KeysInv, CallsInv

\* So does sending more of the arguments of a tool that is open.
LEMMA SendArgsKeeps ==
  ASSUME Codex!TypeOK, KeysInv, CallsInv, NEW i \in Items, NEW a \in Seq(Codex!Pieces),
         Codex!Known(i), Codex!SendArgs(Codex!ToolIndex(i), a), order' = order,
         (opened \cup closed)' = opened \cup closed,
         args'[i] = args[i] \o a, \A j \in Items : j # i => args'[j] = args[j]
  PROVE  KeysInv' /\ CallsInv' /\ sentTools' \in Seq([id : Items, args : Seq(Codex!Pieces)])
<1> DEFINE k == Codex!ToolIndex(i)
<1>1. order \in Seq(Items) /\ Len(order) \in Nat /\ Len(sentTools) = Len(order)
  BY DEF Codex!TypeOK, CallsInv
<1>2. k \in 1..Len(order) /\ order[k] = i /\ \A n \in 1..Len(order) : n # k => order[n] # i
  BY ToolIndexOf
<1> HIDE DEF k
<1>3. /\ sentTools' \in Seq([id : Items, args : Seq(Codex!Pieces)])
      /\ Len(sentTools') = Len(sentTools)
      /\ sentTools'[k] = [id |-> sentTools[k].id, args |-> sentTools[k].args \o a]
      /\ \A m \in 1..Len(sentTools) : m # k => sentTools'[m] = sentTools[m]
  BY <1>1, <1>2, AddedArgs DEF k
<1>4. KeysInv'
  BY DEF KeysInv, Codex!Known
<1>5. ASSUME NEW n \in 1..Len(order)
      PROVE  sentTools'[n].id = order[n] /\ sentTools'[n].args = args'[order[n]]
  <2>1. sentTools[n].id = order[n] /\ sentTools[n].args = args[order[n]]
    BY DEF CallsInv
  <2>2. CASE n = k
    <3>1. sentTools'[n] = [id |-> sentTools[n].id, args |-> sentTools[n].args \o a]
      BY <1>3, <2>2
    <3>2. sentTools'[n].id = sentTools[n].id /\ sentTools'[n].args = sentTools[n].args \o a
      BY <3>1
    <3>3. order[n] = i /\ args'[order[n]] = args[order[n]] \o a
      BY <1>2, <2>2
    <3>4. QED
      BY <2>1, <3>2, <3>3
  <2>3. CASE n # k
    <3>1. sentTools'[n] = sentTools[n] /\ order[n] \in Items /\ order[n] # i
      BY <1>1, <1>2, <1>3, <2>3
    <3>2. QED
      BY <2>1, <3>1
  <2>4. QED
    BY <2>2, <2>3
<1>6. QED
  BY <1>1, <1>3, <1>4, <1>5 DEF CallsInv

LEMMA CodexStep ==
  ASSUME CodexInv, [Next]_vars
  PROVE  CodexInv'
<1> DEFINE Inv == Codex!TypeOK /\ KeysInv /\ CallsInv /\ ArgsInv /\ ReasonInv /\ sentText = text
<1> SUFFICES ASSUME answering' = "codex"
             PROVE  Inv'
  BY DEF CodexInv
<1>1. CASE UNCHANGED vars
  BY <1>1 DEF vars, CodexInv, codexVars, sentVars, Codex!TypeOK, KeysInv, CallsInv, ArgsInv,
              ReasonInv, Codex!Known
<1>2. CASE ~UNCHANGED vars
  <2>1. answering = "codex" /\ Codex!Next
    BY <1>2 DEF Next, CodexAnswers, ClaudeAnswers, GeminiAnswers, TextAnswers,
                StreamIsRead, RequestIsMade
  <2>2. Codex!TypeOK /\ KeysInv /\ CallsInv /\ ArgsInv /\ ReasonInv /\ sentText = text
    BY <2>1 DEF CodexInv
  <2> USE <2>2, PiecesBounded
      DEF Codex!Pieces, Codex!notEnding, Codex!upVars, Codex!atEnd, Codex!SendText, Codex!SendEnd
  <2>3. CASE Codex!OutputTextDelta
    <3>1. Codex!TypeOK'
      BY <2>3 DEF Codex!OutputTextDelta, Codex!TypeOK
    <3>2. KeysInv' /\ CallsInv' /\ ArgsInv' /\ ReasonInv' /\ (sentText = text)'
      BY <2>3 DEF Codex!OutputTextDelta, KeysInv, CallsInv, ArgsInv, ReasonInv, Codex!Known
    <3>3. QED
      BY <3>1, <3>2
  <2>4. ASSUME NEW i \in Items, Codex!ItemAdded(i)
        PROVE  Inv'
    <3>1. /\ i \notin opened \cup closed /\ Codex!OpenTool(i, <<>>)
          /\ args' = args /\ pieces' = pieces /\ closed' = closed
          /\ opened' = opened \cup {i} /\ name' = name
      BY <2>4 DEF Codex!ItemAdded
    <3>2. order' \in Seq(Items) /\ sentTools' \in Seq([id : Items, args : Seq(Codex!Pieces)])
          /\ order' # <<>> /\ <<>> \in Seq(Codex!Pieces)
      <4>1. <<>> \in Seq(Codex!Pieces)
        OBVIOUS
      <4>2. QED
        BY <3>1, <4>1, OpenedTool
    <3>3. Codex!TypeOK'
      BY <3>2, <2>4 DEF Codex!ItemAdded, Codex!OpenTool, Codex!TypeOK, Codex!Reasons
    <3>4. args[i] = <<>> /\ pieces[i] = 0
      BY <3>1, NoPieces DEF ArgsInv
    <3>5. KeysInv' /\ CallsInv'
      <4>1. (opened \cup closed)' = opened \cup closed \cup {i}
        BY <3>1
      <4>2. args'[i] = <<>> /\ \A j \in Items : j # i => args'[j] = args[j]
        BY <3>1, <3>4
      <4>3. QED
        BY <3>1, <3>2, <4>1, <4>2, OpenToolKeeps
    <3>6. ArgsInv'
      BY <3>1, <3>4 DEF ArgsInv
    <3>7. ReasonInv' /\ (sentText = text)'
      BY <3>2, <2>4 DEF Codex!ItemAdded, Codex!OpenTool, ReasonInv
    <3>8. QED
      BY <3>3, <3>5, <3>6, <3>7
  <2>5. ASSUME NEW i \in Items, Codex!ArgumentsDelta(i)
        PROVE  Inv'
    <3>1. pieces' = [pieces EXCEPT ![i] = pieces[i] + 1] /\ pieces[i] \in 0..MaxPieces
          /\ pieces[i] < MaxPieces /\ i \in opened /\ i \notin closed
          /\ order' = order /\ opened' = opened /\ closed' = closed /\ name' = name
      BY <2>5 DEF Codex!ArgumentsDelta, Codex!TypeOK
    <3>2. ReasonInv' /\ (sentText = text)'
      BY <2>5 DEF Codex!ArgumentsDelta, ReasonInv
    <3>3. CASE ~Codex!Matched(i)
      <4>1. args' = args /\ sentTools' = sentTools
        BY <2>5, <3>3 DEF Codex!ArgumentsDelta
      <4>2. name.open # name.delta
        BY <3>1, <3>3 DEF Codex!Matched, KeysInv
      <4>3. Codex!TypeOK'
        <5>1. pieces' \in [Items -> 0..MaxPieces]
          BY <3>1 DEF Codex!TypeOK
        <5>2. QED
          BY <2>5, <4>1, <5>1 DEF Codex!ArgumentsDelta, Codex!TypeOK
      <4>4. KeysInv' /\ CallsInv'
        BY <3>1, <4>1 DEF KeysInv, CallsInv, Codex!Known
      <4>5. ArgsInv'
        BY <3>1, <4>1, <4>2 DEF ArgsInv, Codex!TypeOK
      <4>6. QED
        BY <3>2, <4>3, <4>4, <4>5
    <3>4. CASE Codex!Matched(i)
      <4> DEFINE p == pieces[i] + 1
      <4>1. p \in 1..MaxPieces /\ <<p>> \in Seq(Codex!Pieces)
        BY <3>1
      <4>2. args' = [args EXCEPT ![i] = Append(@, p)] /\ Codex!SendArgs(Codex!ToolIndex(i), <<p>>)
            /\ Codex!Known(i) /\ name.open = name.delta
        BY <2>5, <3>4 DEF Codex!ArgumentsDelta, Codex!Matched
      <4>3. args \in [Items -> Seq(Codex!Pieces)]
        BY DEF Codex!TypeOK
      <4>4. args'[i] = args[i] \o <<p>> /\ (\A j \in Items : j # i => args'[j] = args[j])
            /\ args' \in [Items -> Seq(Codex!Pieces)]
        BY <4>1, <4>2, <4>3
      <4>5. KeysInv' /\ CallsInv' /\ sentTools' \in Seq([id : Items, args : Seq(Codex!Pieces)])
        BY <3>1, <4>1, <4>2, <4>4, SendArgsKeeps
      <4>6. Codex!TypeOK'
        <5>1. pieces' \in [Items -> 0..MaxPieces]
          BY <3>1 DEF Codex!TypeOK
        <5>2. QED
          BY <2>5, <4>4, <4>5, <5>1 DEF Codex!ArgumentsDelta, Codex!TypeOK
      <4>7. args[i] = Codex!Whole(pieces[i])
        BY <3>1, <4>2 DEF ArgsInv
      <4>8. args'[i] = Codex!Whole(p)
        BY <3>1, <4>2, <4>3, <4>7 DEF Codex!Whole
      <4>9. ArgsInv'
        BY <3>1, <4>2, <4>4, <4>8 DEF ArgsInv, Codex!TypeOK
      <4>10. QED
        BY <3>2, <4>5, <4>6, <4>9
    <3>5. QED
      BY <3>3, <3>4
  <2>6. ASSUME NEW i \in Items, Codex!ItemDone(i)
        PROVE  Inv'
    <3>1. PICK n \in 0..MaxPieces :
            /\ pieces[i] > 0 => n = pieces[i]
            /\ pieces' = [pieces EXCEPT ![i] = n]
            /\ args'   = [args EXCEPT ![i] = @ \o Codex!DoneArgs(i, n)]
            /\ IF Codex!Known(i)
               THEN Codex!SendArgs(Codex!ToolIndex(i), Codex!DoneArgs(i, n)) /\ UNCHANGED <<order, codexFinish>>
               ELSE Codex!OpenTool(i, Codex!DoneArgs(i, n))
      BY <2>6 DEF Codex!ItemDone
    <3> DEFINE a == Codex!DoneArgs(i, n)
    <3>2. i \notin closed /\ closed' = closed \cup {i} /\ opened' = opened /\ name' = name
      BY <2>6 DEF Codex!ItemDone
    <3>3. args \in [Items -> Seq(Codex!Pieces)] /\ pieces \in [Items -> 0..MaxPieces]
      BY DEF Codex!TypeOK
    <3>4. Codex!Whole(n) \in Seq(Codex!Pieces) /\ (n > 0 => Codex!Whole(n) # <<>>) /\ (n = 0 => Codex!Whole(n) = <<>>)
      BY <3>1 DEF Codex!Whole
    <3>5. args[i] = IF name.open = name.delta THEN Codex!Whole(pieces[i]) ELSE <<>>
      BY <3>2 DEF ArgsInv
    <3>6. a \in Seq(Codex!Pieces) /\ args[i] \o a = Codex!Whole(n)
      <4>1. CASE args[i] = <<>>
        BY <3>4, <4>1 DEF Codex!DoneArgs
      <4>2. CASE args[i] # <<>>
        <5>1. args[i] = Codex!Whole(pieces[i])
          BY <3>5, <4>2
        <5>2. pieces[i] # 0
          BY <4>2, <5>1 DEF Codex!Whole
        <5>3. n = pieces[i] /\ a = <<>>
          BY <3>1, <3>3, <4>2, <5>2 DEF Codex!DoneArgs
        <5>4. QED
          BY <3>4, <5>1, <5>3
      <4>3. QED
        BY <4>1, <4>2
    <3> HIDE DEF a
    <3>7. args'[i] = args[i] \o a /\ (\A j \in Items : j # i => args'[j] = args[j])
          /\ args' \in [Items -> Seq(Codex!Pieces)] /\ pieces' \in [Items -> 0..MaxPieces]
          /\ pieces'[i] = n /\ (\A j \in Items : j # i => pieces'[j] = pieces[j])
      <4>1. args' = [args EXCEPT ![i] = args[i] \o a]
        BY <3>1, <3>3 DEF a
      <4>2. args[i] \o a \in Seq(Codex!Pieces)
        BY <3>4, <3>6
      <4>3. QED
        BY <3>1, <3>3, <4>1, <4>2
    <3>8. ArgsInv'
      BY <3>2, <3>6, <3>7 DEF ArgsInv
    <3>9. KeysInv' /\ CallsInv' /\ sentTools' \in Seq([id : Items, args : Seq(Codex!Pieces)])
          /\ order' \in Seq(Items) /\ ((order' = order /\ codexFinish' = codexFinish) \/ (order' # <<>> /\ codexFinish' = "tool_calls"))
      <4>1. CASE Codex!Known(i)
        <5>1. (opened \cup closed)' = opened \cup closed
          BY <3>2, <4>1 DEF KeysInv
        <5>2. Codex!SendArgs(Codex!ToolIndex(i), a) /\ order' = order /\ codexFinish' = codexFinish
          BY <3>1, <4>1 DEF a
        <5>3. KeysInv' /\ CallsInv' /\ sentTools' \in Seq([id : Items, args : Seq(Codex!Pieces)])
          BY <3>6, <3>7, <4>1, <5>1, <5>2, SendArgsKeeps
        <5>4. QED
          BY <5>2, <5>3 DEF Codex!TypeOK
      <4>2. CASE ~Codex!Known(i)
        <5>1. i \notin opened \cup closed /\ (opened \cup closed)' = opened \cup closed \cup {i}
          BY <3>2, <4>2 DEF KeysInv
        <5>2. Codex!OpenTool(i, a)
          BY <3>1, <4>2 DEF a
        <5>3. args[i] = <<>>
          BY <3>5, <5>1, NoPieces DEF ArgsInv
        <5>4. args'[i] = a
          BY <3>6, <3>7, <5>3
        <5>5. KeysInv' /\ CallsInv'
          BY <3>6, <3>7, <5>1, <5>2, <5>4, OpenToolKeeps
        <5>6. sentTools' \in Seq([id : Items, args : Seq(Codex!Pieces)]) /\ order' \in Seq(Items)
              /\ order' # <<>>
          BY <3>6, <5>2, OpenedTool
        <5>7. codexFinish' = "tool_calls"
          BY <5>2 DEF Codex!OpenTool
        <5>8. QED
          BY <5>5, <5>6, <5>7
      <4>3. QED
        BY <4>1, <4>2
    <3>10. Codex!TypeOK'
      BY <2>6, <3>2, <3>7, <3>9 DEF Codex!ItemDone, Codex!TypeOK, Codex!Reasons
    <3>11. ReasonInv' /\ (sentText = text)'
      BY <2>6, <3>9 DEF Codex!ItemDone, ReasonInv
    <3>12. QED
      BY <3>8, <3>9, <3>10, <3>11
  <2>7. CASE Codex!ResponseCompleted \/ Codex!ResponseIncomplete \/ Codex!ResponseFailed \/ Codex!Truncated
    <3> USE <2>7 DEF Codex!ResponseCompleted, Codex!ResponseIncomplete, Codex!ResponseFailed, Codex!Truncated
    <3>1. Codex!TypeOK'
      BY DEF Codex!TypeOK, Codex!Ends, Codex!Reasons
    <3>2. KeysInv' /\ CallsInv' /\ ArgsInv' /\ (sentText = text)'
      BY DEF KeysInv, CallsInv, ArgsInv, Codex!Known
    <3>3. ReasonInv'
      BY DEF ReasonInv
    <3>4. QED
      BY <3>1, <3>2, <3>3
  <2>8. QED
    BY <2>1, <2>3, <2>4, <2>5, <2>6, <2>7 DEF Codex!Next
<1>3. QED
  BY <1>1, <1>2

LEMMA CodexAlways == Spec => []CodexInv
<1>1. CodexInv /\ [Next]_vars => CodexInv'
  BY CodexStep
<1>2. QED
  BY <1>1, CodexInitially, PTL DEF Spec

\* What it says of an answer of Codex.
LEMMA CodexTruths ==
  ASSUME CodexInv, answering = "codex"
  PROVE  /\ Codex!ArgumentsWhole /\ Codex!StreamMatchesAggregate
         /\ Codex!ReasonFits
<1>1. Codex!TypeOK /\ KeysInv /\ CallsInv /\ ArgsInv /\ ReasonInv /\ sentText = text
  BY DEF CodexInv
<1>2. Codex!ArgumentsWhole
  BY <1>1 DEF ArgsInv, Codex!ArgumentsWhole, Codex!TypeOK
<1>3. Codex!StreamMatchesAggregate
  <2> DEFINE T == [id : Items, args : Seq(Codex!Pieces)]
  <2>0. sentTools \in Seq(T) /\ order \in Seq(Items)
    BY <1>1 DEF Codex!TypeOK
  <2>1. Len(sentTools) = Len(order) /\ Len(order) \in Nat
        /\ \A n \in 1..Len(order) : /\ sentTools[n] \in T
                                    /\ sentTools[n].id = order[n] /\ sentTools[n].args = args[order[n]]
    <3> HIDE DEF T
    <3>1. QED
      BY <1>1, <2>0 DEF CallsInv
  <2>2. Len(Codex!ToolCalls) = Len(order)
    BY <2>1 DEF Codex!ToolCalls
  <2>3. ASSUME NEW n \in 1..Len(order)
        PROVE  [sentTools[n] EXCEPT !.args = Codex!OrObject(@)] = Codex!ToolCalls[n]
    <3>1. [sentTools[n] EXCEPT !.args = Codex!OrObject(sentTools[n].args)]
            = [id |-> sentTools[n].id, args |-> Codex!OrObject(sentTools[n].args)]
      BY <2>1, OtherArgs
    <3>2. Codex!ToolCalls[n] = [id |-> order[n], args |-> Codex!OrObject(args[order[n]])]
      BY DEF Codex!ToolCalls
    <3>3. QED
      BY <2>1, <3>1, <3>2
  <2>5. codexEnded \in {"completed", "incomplete"} => sentFinish = codexFinish
    BY <1>1 DEF ReasonInv
  <2>6. QED
    BY <1>1, <2>1, <2>2, <2>3, <2>5 DEF Codex!StreamMatchesAggregate, Codex!AddUpTo
<1>4. Codex!ReasonFits
  BY <1>1 DEF ReasonInv, Codex!ReasonFits, Codex!TypeOK, Codex!Ends
<1>5. QED
  BY <1>2, <1>3, <1>4

-----------------------------------------------------------------------------
(* Of what is written.                                                     *)

ToolsGrow ==
  /\ Len(sentTools) <= Len(sentTools')
  /\ \A n \in 1..Len(sentTools) :
       /\ sentTools'[n].id = sentTools[n].id
       /\ IsPrefix(sentTools[n].args, sentTools'[n].args)

\* Calls that are as they were, or have arguments added, grow.
LEMMA CallsGrow ==
  ASSUME NEW A, NEW B, sentTools \in Seq([id : A, args : Seq(B)]),
         Len(sentTools) <= Len(sentTools'),
         \A n \in 1..Len(sentTools) :
           \/ sentTools'[n] = sentTools[n]
           \/ \E a \in Seq(B) :
                sentTools'[n] = [id |-> sentTools[n].id, args |-> sentTools[n].args \o a]
  PROVE  ToolsGrow
<1> SUFFICES ASSUME NEW n \in 1..Len(sentTools)
             PROVE  /\ sentTools'[n].id = sentTools[n].id
                    /\ IsPrefix(sentTools[n].args, sentTools'[n].args)
  BY DEF ToolsGrow
<1> DEFINE T == [id : A, args : Seq(B)]
<1>1. sentTools[n] \in T
  <2>1. sentTools \in Seq(T)
    OBVIOUS
  <2> HIDE DEF T
  <2>2. QED
    BY <2>1
<1>2. sentTools[n].args \in Seq(B)
  BY <1>1
<1> HIDE DEF T
<1>3. CASE sentTools'[n] = sentTools[n]
  BY <1>2, <1>3, PrefixOfItself
<1>4. CASE \E a \in Seq(B) :
             sentTools'[n] = [id |-> sentTools[n].id, args |-> sentTools[n].args \o a]
  <2>1. PICK a \in Seq(B) :
          sentTools'[n] = [id |-> sentTools[n].id, args |-> sentTools[n].args \o a]
    BY <1>4
  <2>2. IsPrefix(sentTools[n].args, sentTools[n].args \o a)
    BY <1>2, PrefixOfMore
  <2>3. QED
    BY <2>1, <2>2
<1>5. QED
  BY <1>3, <1>4

LEMMA CallsStay ==
  ASSUME NEW A, NEW B, sentTools \in Seq([id : A, args : Seq(B)]), sentTools' = sentTools
  PROVE  ToolsGrow
<1> DEFINE T == [id : A, args : Seq(B)]
<1>1. Len(sentTools) \in Nat
  <2>1. sentTools \in Seq(T)
    OBVIOUS
  <2> HIDE DEF T
  <2>2. QED
    BY <2>1
<1>2. Len(sentTools) <= Len(sentTools') /\ \A n \in 1..Len(sentTools) : sentTools'[n] = sentTools[n]
  BY <1>1
<1>3. QED
  BY <1>2, CallsGrow

LEMMA NoToolsGrow ==
  ASSUME sentTools = <<>>, sentTools' = sentTools
  PROVE  ToolsGrow
BY DEF ToolsGrow

LEMMA TextGrows ==
  ASSUME NEW S, sentText \in Seq(S),
         \/ sentText' = sentText
         \/ \E e \in S : sentText' = Append(sentText, e)
         \/ \E t \in Seq(S) : sentText' = sentText \o t
  PROVE  IsPrefix(sentText, sentText')
<1>1. CASE sentText' = sentText
  <2>1. IsPrefix(sentText, sentText)
    BY PrefixOfItself
  <2>2. QED
    BY <1>1, <2>1
<1>2. CASE \E e \in S : sentText' = Append(sentText, e)
  BY <1>2, PrefixOfAppend
<1>3. CASE \E t \in Seq(S) : sentText' = sentText \o t
  BY <1>3, PrefixOfMore
<1>4. QED
  BY <1>1, <1>2, <1>3

LEMMA CodexWrites ==
  ASSUME CodexInv, CodexInv', CodexAnswers
  PROVE  Write
<1>1. Codex!Next /\ Codex!TypeOK /\ Codex!TypeOK' /\ CallsInv /\ ReasonInv /\ KeysInv
  BY DEF CodexAnswers, CodexInv
<1>2. codexEnded = "no"
  BY <1>1 DEF Codex!Next, Codex!OutputTextDelta, Codex!ItemAdded, Codex!ArgumentsDelta,
              Codex!ItemDone, Codex!ResponseCompleted, Codex!ResponseIncomplete,
              Codex!ResponseFailed, Codex!Truncated
<1>3. ~sentDone /\ sentRole /\ sentRole' /\ sentFinish = "none"
  BY <1>1, <1>2 DEF ReasonInv, Codex!TypeOK
<1>4. sentText \in Seq(Codex!Pieces) /\ sentTools \in Seq([id : Items, args : Seq(Codex!Pieces)])
      /\ Len(sentTools) \in Nat
  <2> DEFINE T == [id : Items, args : Seq(Codex!Pieces)]
  <2>1. sentTools \in Seq(T)
    BY <1>1 DEF Codex!TypeOK
  <2>2. Len(sentTools) \in Nat
    <3> HIDE DEF T
    <3>1. QED
      BY <2>1
  <2>3. QED
    BY <1>1, <2>1, <2>2 DEF Codex!TypeOK
<1>5. IsPrefix(sentText, sentText')
  <2>1. sentText' = sentText \/ \E p \in Codex!Pieces : sentText' = Append(sentText, p)
    <3>1. CASE Codex!OutputTextDelta
      <4>1. Len(text) + 1 \in Codex!Pieces
        BY <1>1, <3>1, PiecesBounded DEF Codex!OutputTextDelta, Codex!TypeOK, Codex!Pieces
      <4>2. QED
        BY <3>1, <4>1 DEF Codex!OutputTextDelta, Codex!SendText
    <3>2. CASE ~Codex!OutputTextDelta
      BY <1>1, <3>2 DEF Codex!Next, Codex!ItemAdded, Codex!ArgumentsDelta, Codex!ItemDone,
              Codex!ResponseCompleted, Codex!ResponseIncomplete, Codex!ResponseFailed,
              Codex!Truncated, Codex!atEnd
    <3>3. QED
      BY <3>1, <3>2
  <2>2. QED
    BY <1>4, <2>1, TextGrows
<1>6. \/ sentTools' = sentTools
      \/ \E i \in Items, a \in Seq(Codex!Pieces) : Codex!OpenTool(i, a)
      \/ \E n \in 1..Len(sentTools), a \in Seq(Codex!Pieces) : Codex!SendArgs(n, a)
  <2>1. CASE \E i \in Items : Codex!ItemAdded(i)
    <3>1. <<>> \in Seq(Codex!Pieces)
      OBVIOUS
    <3>2. QED
      BY <2>1, <3>1 DEF Codex!ItemAdded
  <2>2. CASE \E i \in Items : Codex!ArgumentsDelta(i)
    <3>1. PICK i \in Items : Codex!ArgumentsDelta(i)
      BY <2>2
    <3>2. pieces[i] + 1 \in Codex!Pieces
      BY <1>1, <3>1, PiecesBounded DEF Codex!ArgumentsDelta, Codex!TypeOK, Codex!Pieces
    <3>3. <<pieces[i] + 1>> \in Seq(Codex!Pieces)
      BY <3>2
    <3>4. CASE Codex!Matched(i)
      <4>1. Codex!ToolIndex(i) \in 1..Len(sentTools)
        BY <1>1, <3>4, ToolIndexOf DEF Codex!Matched, CallsInv
      <4>2. QED
        BY <3>1, <3>3, <3>4, <4>1 DEF Codex!ArgumentsDelta
    <3>5. CASE ~Codex!Matched(i)
      BY <3>1, <3>5 DEF Codex!ArgumentsDelta
    <3>6. QED
      BY <3>4, <3>5
  <2>3. CASE \E i \in Items : Codex!ItemDone(i)
    <3>1. PICK i \in Items : Codex!ItemDone(i)
      BY <2>3
    <3>2. PICK n \in 0..MaxPieces :
            IF Codex!Known(i)
            THEN Codex!SendArgs(Codex!ToolIndex(i), Codex!DoneArgs(i, n))
            ELSE Codex!OpenTool(i, Codex!DoneArgs(i, n))
      BY <3>1 DEF Codex!ItemDone
    <3>3. Codex!DoneArgs(i, n) \in Seq(Codex!Pieces)
      <4>1. Codex!Whole(n) \in Seq(Codex!Pieces)
        BY PiecesBounded DEF Codex!Whole, Codex!Pieces
      <4>2. QED
        BY <4>1 DEF Codex!DoneArgs
    <3>4. CASE Codex!Known(i)
      <4>1. Codex!ToolIndex(i) \in 1..Len(sentTools)
        BY <1>1, <3>4, ToolIndexOf DEF CallsInv
      <4>2. QED
        BY <3>2, <3>3, <3>4, <4>1
    <3>5. CASE ~Codex!Known(i)
      BY <3>2, <3>3, <3>5
    <3>6. QED
      BY <3>4, <3>5
  <2>4. CASE ~\E i \in Items : Codex!ItemAdded(i) \/ Codex!ArgumentsDelta(i) \/ Codex!ItemDone(i)
    BY <1>1, <2>4 DEF Codex!Next, Codex!OutputTextDelta, Codex!ResponseCompleted,
            Codex!ResponseIncomplete, Codex!ResponseFailed, Codex!Truncated, Codex!atEnd
  <2>5. QED
    BY <2>1, <2>2, <2>3, <2>4
<1>7. ToolsGrow
  <2>1. CASE sentTools' = sentTools
    BY <1>4, <2>1, CallsStay
  <2>2. CASE \E i \in Items, a \in Seq(Codex!Pieces) : Codex!OpenTool(i, a)
    <3>1. /\ Len(sentTools') = Len(sentTools) + 1
          /\ \A n \in 1..Len(sentTools) : sentTools'[n] = sentTools[n]
      BY <1>1, <2>2, OpenedTool
    <3>2. Len(sentTools) <= Len(sentTools')
      BY <1>4, <3>1
    <3>3. QED
      BY <1>4, <3>1, <3>2, CallsGrow
  <2>3. CASE \E n \in 1..Len(sentTools), a \in Seq(Codex!Pieces) : Codex!SendArgs(n, a)
    <3>1. PICK n \in 1..Len(sentTools), a \in Seq(Codex!Pieces) : Codex!SendArgs(n, a)
      BY <2>3
    <3>2. /\ Len(sentTools') = Len(sentTools)
          /\ sentTools'[n] = [id |-> sentTools[n].id, args |-> sentTools[n].args \o a]
          /\ \A m \in 1..Len(sentTools) : m # n => sentTools'[m] = sentTools[m]
      BY <1>1, <3>1, AddedArgs
    <3>3. Len(sentTools) <= Len(sentTools')
      BY <1>4, <3>2
    <3>4. \A m \in 1..Len(sentTools) :
            \/ sentTools'[m] = sentTools[m]
            \/ \E b \in Seq(Codex!Pieces) :
                 sentTools'[m] = [id |-> sentTools[m].id, args |-> sentTools[m].args \o b]
      BY <3>2
    <3>5. QED
      BY <1>4, <3>3, <3>4, CallsGrow
  <2>4. QED
    BY <1>6, <2>1, <2>2, <2>3
<1>8. QED
  BY <1>3, <1>5, <1>7 DEF Write, Grows, ToolsGrow

-----------------------------------------------------------------------------
(* Grok and Cursor.                                                        *)

TextInv == answering = "text" => Text!TypeOK /\ Text!NothingTruncated

LEMMA TextFlatten == \A s : Text!FlattenSeq(s) = FlattenSeq(s)
BY DEF FlattenSeq, Text!FlattenSeq

TextFrames == [kind : Text!LineKinds \cup Text!FrameKinds, deltas : Seq(Nat)]

\* What a frame says, and some frames.
Says(frame)  == IF frame.kind = "corrupt gzip" THEN <<>> ELSE frame.deltas
SaidIn(fs)  == [f \in 1..Len(fs) |-> Says(fs[f])]

LEMMA SaysType ==
  ASSUME NEW frame \in TextFrames
  PROVE  Says(frame) \in Seq(Nat)
<1>1. frame.deltas \in Seq(Nat)
  BY DEF TextFrames
<1>2. CASE frame.kind = "corrupt gzip"
  <2>1. Says(frame) = <<>>
    BY <1>2 DEF Says
  <2>2. QED
    BY <2>1
<1>3. CASE frame.kind # "corrupt gzip"
  BY <1>1, <1>3 DEF Says
<1>4. QED
  BY <1>2, <1>3

LEMMA SaidType ==
  ASSUME NEW fs \in Seq(TextFrames)
  PROVE  SaidIn(fs) \in Seq(Seq(Nat)) /\ Len(SaidIn(fs)) = Len(fs)
<1>1. ASSUME NEW f \in 1..Len(fs) PROVE Says(fs[f]) \in Seq(Nat)
  <2>1. fs[f] \in TextFrames
    OBVIOUS
  <2>2. QED
    BY <2>1, SaysType
<1>2. QED
  BY <1>1 DEF SaidIn

LEMMA MoreSaid ==
  ASSUME NEW fs \in Seq(TextFrames), NEW frame \in TextFrames
  PROVE  FlattenSeq(SaidIn(Append(fs, frame)))
           = FlattenSeq(SaidIn(fs)) \o Says(frame)
<1> DEFINE ss == SaidIn(fs)
           tt == SaidIn(Append(fs, frame))
<1>1. /\ Append(fs, frame) \in Seq(TextFrames) /\ Len(Append(fs, frame)) = Len(fs) + 1
      /\ Append(fs, frame)[Len(fs) + 1] = frame
      /\ \A f \in 1..Len(fs) : Append(fs, frame)[f] = fs[f]
      /\ Len(fs) \in Nat
  OBVIOUS
<1>2. ss \in Seq(Seq(Nat)) /\ Len(ss) = Len(fs) /\ tt \in Seq(Seq(Nat)) /\ Len(tt) = Len(fs) + 1
  BY <1>1, SaidType
<1>3. /\ \A f \in 1..Len(fs) : tt[f] = ss[f]
      /\ tt[Len(fs) + 1] = Says(frame)
  BY <1>1 DEF SaidIn
<1> HIDE DEF ss, tt
<1>4. FlattenSeq(tt) = FlattenSeq(ss) \o tt[Len(ss) + 1]
  BY <1>2, <1>3, OneMoreText
<1>5. QED
  BY <1>2, <1>3, <1>4 DEF ss, tt

LEMMA SaidWhole ==
  Text!NothingTruncated <=> sentText = FlattenSeq(SaidIn(textFrames))
<1>1. Text!NothingTruncated <=> sentText = Text!FlattenSeq(SaidIn(textFrames))
  BY DEF Text!NothingTruncated, SaidIn, Says
<1>2. QED
  BY <1>1, TextFlatten

LEMMA TextInitially == Init => TextInv
<1> SUFFICES ASSUME Init, answering = "text" PROVE Text!TypeOK /\ Text!NothingTruncated
  BY DEF TextInv
<1>1. Text!TextInit /\ sentRole /\ sentText = <<>> /\ sentTools = <<>>
      /\ sentFinish = "none" /\ ~sentDone
  BY DEF Init, SentNothing
<1>2. Text!TypeOK
  BY <1>1 DEF Text!TextInit, Text!TypeOK, Text!Ends
<1>3. SaidIn(textFrames) = <<>>
  BY <1>1 DEF Text!TextInit, SaidIn
<1>4. Text!NothingTruncated
  BY <1>1, <1>3, FlattenNothing, SaidWhole
<1>5. QED
  BY <1>2, <1>4

\* The deltas of a frame are new pieces of the text.
LEMMA DeltasType ==
  ASSUME Text!TypeOK, NEW n \in Nat
  PROVE  Text!NextDeltas(n) \in Seq(Nat) /\ (n = 0 => Text!NextDeltas(n) = <<>>)
<1> DEFINE all == [f \in 1..Len(textFrames) |-> textFrames[f].deltas]
<1>1. all \in Seq(Seq(Nat))
  <2>1. textFrames \in Seq(TextFrames)
    BY DEF Text!TypeOK, TextFrames
  <2>2. ASSUME NEW f \in 1..Len(textFrames) PROVE textFrames[f].deltas \in Seq(Nat)
    <3>1. textFrames[f] \in TextFrames
      BY <2>1
    <3>2. QED
      BY <3>1 DEF TextFrames
  <2>3. QED
    BY <2>1, <2>2
<1>2. Text!NextDeltas(n) = [k \in 1..n |-> Len(FlattenSeq(all)) + k]
  BY TextFlatten DEF Text!NextDeltas
<1> HIDE DEF all
<1>3. FlattenSeq(all) \in Seq(Nat)
  BY <1>1, FlattenType
<1>4. Len(FlattenSeq(all)) \in Nat
  BY <1>3
<1>5. QED
  BY <1>2, <1>4

\* A frame is added, and what it says.
LEMMA FrameAdded ==
  ASSUME Text!TypeOK, Text!NothingTruncated, NEW frame \in TextFrames,
         textFrames' = Append(textFrames, frame),
         sentText' = sentText \o Says(frame)
  PROVE  /\ textFrames' \in Seq(TextFrames) /\ sentText' \in Seq(Nat)
         /\ Text!NothingTruncated'
<1>1. textFrames \in Seq(TextFrames) /\ sentText \in Seq(Nat)
  BY DEF Text!TypeOK, TextFrames
<1>2. Says(frame) \in Seq(Nat)
  BY SaysType
<1>3. textFrames' \in Seq(TextFrames) /\ sentText' \in Seq(Nat)
  BY <1>1, <1>2
<1>4. sentText = FlattenSeq(SaidIn(textFrames))
  BY TextFlatten DEF Text!NothingTruncated, SaidIn, Says
<1>5. FlattenSeq(SaidIn(textFrames'))
        = FlattenSeq(SaidIn(textFrames)) \o Says(frame)
  BY <1>1, MoreSaid
<1>6. sentText' = FlattenSeq(SaidIn(textFrames'))
  BY <1>4, <1>5
<1>7. Text!NothingTruncated'
  BY <1>6, TextFlatten DEF Text!NothingTruncated, SaidIn, Says
<1>8. QED
  BY <1>3, <1>7

LEMMA TextAnswered ==
  ASSUME TextInv, TextAnswers
  PROVE  TextInv' /\ Write
<1> SUFFICES Text!TypeOK' /\ Text!NothingTruncated' /\ Write
  BY DEF TextInv
<1>1. answering = "text" /\ Text!TypeOK /\ Text!NothingTruncated
  BY DEF TextInv, TextAnswers
<1>2. sentTools = <<>> /\ sentRole /\ sentText \in Seq(Nat)
  BY <1>1 DEF Text!TypeOK
<1>3. ASSUME NEW frame \in TextFrames,
             textFrames' = Append(textFrames, frame), sentText' = sentText \o Says(frame),
             textEnded = "no",
             UNCHANGED <<backend, textEnded, sentRole, sentTools, sentFinish, sentDone>>
      PROVE  Text!TypeOK' /\ Text!NothingTruncated' /\ Write
  <2>1. /\ textFrames' \in Seq(TextFrames) /\ sentText' \in Seq(Nat)
        /\ Text!NothingTruncated'
    BY <1>1, <1>3, FrameAdded
  <2>2. Text!TypeOK'
    BY <1>1, <1>3, <2>1 DEF Text!TypeOK, TextFrames
  <2>3. IsPrefix(sentText, sentText')
    BY <1>2, <1>3, SaysType, TextGrows
  <2>4. ~sentDone /\ sentFinish = "none" /\ sentRole'
    BY <1>1, <1>3, <2>2 DEF Text!TypeOK
  <2>5. ToolsGrow
    BY <1>2, <1>3, NoToolsGrow
  <2>6. QED
    BY <1>2, <2>1, <2>2, <2>3, <2>4, <2>5 DEF Write, Grows, ToolsGrow
<1>4. CASE \E kind \in Text!LineKinds : Text!Line(kind)
  <2>1. PICK kind \in Text!LineKinds : Text!Line(kind)
    BY <1>4
  <2> DEFINE deltas == Text!NextDeltas(IF kind = "token" THEN 1 ELSE 0)
             frame == [kind |-> kind, deltas |-> deltas]
  <2>2. deltas \in Seq(Nat)
    BY <1>1, DeltasType
  <2>3. textFrames' = Append(textFrames, frame) /\ sentText' = sentText \o deltas
        /\ textEnded = "no" /\ UNCHANGED <<backend, textEnded, sentRole, sentTools, sentFinish, sentDone>>
    BY <2>1 DEF Text!Line
  <2> HIDE DEF deltas
  <2>4. frame \in TextFrames /\ Says(frame) = deltas
    BY <2>2 DEF TextFrames, Text!LineKinds, Says
  <2> HIDE DEF frame
  <2>5. QED
    BY <1>3, <2>3, <2>4
<1>5. CASE \E kind \in Text!FrameKinds, n \in 0..MaxDeltas : Text!ConnectFrame(kind, n)
  <2>1. PICK kind \in Text!FrameKinds, n \in 0..MaxDeltas : Text!ConnectFrame(kind, n)
    BY <1>5
  <2> DEFINE deltas == Text!NextDeltas(n)
             frame == [kind |-> kind, deltas |-> deltas]
  <2>2. n \in Nat
    OBVIOUS
  <2>3. deltas \in Seq(Nat) /\ (n = 0 => deltas = <<>>)
    BY <1>1, <2>2, DeltasType
  <2>4. textFrames' = Append(textFrames, frame) /\ sentText' = sentText \o Text!Extract(frame)
        /\ textEnded = "no" /\ UNCHANGED <<backend, textEnded, sentRole, sentTools, sentFinish, sentDone>>
        /\ (kind = "trailer" => n = 0)
    BY <2>1 DEF Text!ConnectFrame
  <2> HIDE DEF deltas
  <2>5. frame \in TextFrames
    BY <2>3 DEF TextFrames
  <2>6. Text!Extract(frame) = Says(frame)
    BY <2>3, <2>4 DEF Text!Extract, Text!FrameKinds, Says
  <2> HIDE DEF frame
  <2>7. QED
    BY <1>3, <2>4, <2>5, <2>6
<1>6. CASE \E how \in Text!Ends \ {"no"} : Text!End(how)
  <2>1. PICK how \in Text!Ends \ {"no"} : Text!End(how)
    BY <1>6
  <2>2. /\ textEnded = "no" /\ textEnded' = how /\ sentFinish' = "stop" /\ sentDone' = TRUE
        /\ UNCHANGED <<backend, textFrames, sentRole, sentText, sentTools>>
    BY <2>1 DEF Text!End, Text!SendEnd
  <2>3. Text!TypeOK'
    BY <1>1, <2>1, <2>2 DEF Text!TypeOK
  <2>4. Text!NothingTruncated'
    BY <1>1, <2>2 DEF Text!NothingTruncated
  <2>5. IsPrefix(sentText, sentText') /\ ToolsGrow
    BY <1>2, <2>2, TextGrows, NoToolsGrow
  <2>6. ~sentDone /\ sentFinish = "none" /\ sentRole'
    BY <1>1, <2>2 DEF Text!TypeOK
  <2>7. QED
    BY <1>2, <2>3, <2>4, <2>5, <2>6 DEF Write, Grows, ToolsGrow
<1>7. QED
  BY <1>4, <1>5, <1>6 DEF TextAnswers, Text!Next

LEMMA TextStep == TextInv /\ [Next]_vars => TextInv'
<1> SUFFICES ASSUME TextInv, [Next]_vars, ~TextAnswers, answering' = "text" PROVE TextInv'
  BY TextAnswered DEF TextInv
<1>1. UNCHANGED <<answering, textVars, sentVars>>
  BY DEF Next, vars, CodexAnswers, ClaudeAnswers, GeminiAnswers, StreamIsRead, RequestIsMade
<1>2. QED
  BY <1>1 DEF TextInv, textVars, sentVars, Text!TypeOK, Text!NothingTruncated

LEMMA TextAlways == Spec => []TextInv
BY TextInitially, TextStep, PTL DEF Spec

-----------------------------------------------------------------------------
(* Claude.                                                                 *)

ClaudeBlocks == [kind : Claude!Kinds, pieces : Seq(Nat)]
ClaudeCalls  == [id : Nat, args : Seq(Nat)]

ClaudeTypes ==
  /\ phase      \in Claude!Phases
  /\ blocks     \in Seq(ClaudeBlocks)
  /\ stopReason \in Claude!Stops \cup {""}
  /\ sentText   \in Seq(Nat)
  /\ sentTools  \in Seq(ClaudeCalls)
  /\ sentFinish \in Reasons \cup {"none"}

\* The reason and the end of the stream follow the upstream's.
PhaseInv ==
  /\ sentRole \in BOOLEAN /\ (phase \in {"content", "stopping", "stopped"} => sentRole)
  /\ sentDone \in BOOLEAN /\ (sentDone <=> phase \in {"stopped", "cut"})
  /\ phase \in {"created", "content"} => stopReason = "" /\ sentFinish = "none"
  /\ sentFinish = IF stopReason = "" THEN "none" ELSE Claude!FinishOf(stopReason)

\* The blocks that are calls have an index, the last of them the last one.
IndexInv ==
  /\ nextTool = Len(sentTools)
  /\ DOMAIN toolIndexByBlock = {b \in 0..Len(blocks) - 1 : blocks[b + 1].kind = "tool_use"}
  /\ blocks # <<>> /\ blocks[Len(blocks)].kind = "tool_use" =>
       /\ nextTool > 0 /\ toolIndexByBlock[Len(blocks) - 1] = nextTool - 1
       /\ sentTools[nextTool] = [id |-> Len(blocks) - 1, args |-> blocks[Len(blocks)].pieces]

\* The text, and the calls.
ToldInv ==
  /\ sentText = Claude!Text
  /\ Len(sentTools) = Len(Claude!ToolCalls)
  /\ \A n \in 1..Len(sentTools) :
       Claude!ToolCalls[n] = [id |-> sentTools[n].id, args |-> Claude!OrObject(sentTools[n].args)]

ClaudeInv == answering = "claude" => ClaudeTypes /\ PhaseInv /\ IndexInv /\ ToldInv

\* Of the blocks of a message: what a block says, the call it is.
BlockText(block)    == IF block.kind = "text" THEN block.pieces ELSE <<>>
BlockCall(block, b) == IF block.kind = "tool_use"
                       THEN <<[id |-> b - 1, args |-> Claude!OrObject(block.pieces)]>>
                       ELSE <<>>
BlockTexts(bs) == [b \in 1..Len(bs) |-> BlockText(bs[b])]
BlockCalls(bs) == [b \in 1..Len(bs) |-> BlockCall(bs[b], b)]

LEMMA ClaudeFlatten == \A s : Claude!FlattenSeq(s) = FlattenSeq(s)
BY DEF FlattenSeq, Claude!FlattenSeq

LEMMA ClaudeSays ==
  /\ Claude!Text = FlattenSeq(BlockTexts(blocks))
  /\ Claude!Text' = FlattenSeq(BlockTexts(blocks'))
  /\ Claude!ToolCalls = FlattenSeq(BlockCalls(blocks))
  /\ Claude!ToolCalls' = FlattenSeq(BlockCalls(blocks'))
<1>1. Claude!Text = Claude!FlattenSeq(BlockTexts(blocks))
  BY DEF Claude!Text, Claude!TextOf, BlockTexts, BlockText
<1>2. Claude!Text' = Claude!FlattenSeq(BlockTexts(blocks'))
  BY DEF Claude!Text, Claude!TextOf, BlockTexts, BlockText
<1>3. Claude!ToolCalls = Claude!FlattenSeq(BlockCalls(blocks))
  BY DEF Claude!ToolCalls, Claude!CallOf, BlockCalls, BlockCall
<1>4. Claude!ToolCalls' = Claude!FlattenSeq(BlockCalls(blocks'))
  BY DEF Claude!ToolCalls, Claude!CallOf, BlockCalls, BlockCall
<1>5. QED
  BY <1>1, <1>2, <1>3, <1>4, ClaudeFlatten

LEMMA ObjectType ==
  ASSUME NEW a \in Seq(Nat)
  PROVE  Claude!OrObject(a) \in Seq(Nat)
<1>1. <<0>> \in Seq(Nat)
  OBVIOUS
<1>2. QED
  BY <1>1 DEF Claude!OrObject, Claude!EmptyObject

LEMMA BlockType ==
  ASSUME NEW block \in ClaudeBlocks, NEW b \in Nat \ {0}
  PROVE  BlockText(block) \in Seq(Nat) /\ BlockCall(block, b) \in Seq(ClaudeCalls)
<1>1. block.pieces \in Seq(Nat)
  BY DEF ClaudeBlocks
<1>2. BlockText(block) \in Seq(Nat)
  <2>1. <<>> \in Seq(Nat)
    OBVIOUS
  <2>2. BlockText(block) = block.pieces \/ BlockText(block) = <<>>
    BY DEF BlockText
  <2>3. QED
    BY <1>1, <2>1, <2>2
<1>3. BlockCall(block, b) \in Seq(ClaudeCalls)
  <2> DEFINE c == [id |-> b - 1, args |-> Claude!OrObject(block.pieces)]
  <2>1. c \in ClaudeCalls
    BY <1>1, ObjectType DEF ClaudeCalls
  <2>2. BlockCall(block, b) = <<c>> \/ BlockCall(block, b) = <<>>
    BY DEF BlockCall
  <2>3. <<>> \in Seq(ClaudeCalls) /\ <<c>> \in Seq(ClaudeCalls)
    BY <2>1
  <2> HIDE DEF c
  <2>4. QED
    BY <2>2, <2>3
<1>4. QED
  BY <1>2, <1>3

LEMMA BlocksType ==
  ASSUME NEW bs \in Seq(ClaudeBlocks)
  PROVE  /\ BlockTexts(bs) \in Seq(Seq(Nat)) /\ Len(BlockTexts(bs)) = Len(bs)
         /\ BlockCalls(bs) \in Seq(Seq(ClaudeCalls)) /\ Len(BlockCalls(bs)) = Len(bs)
<1>1. ASSUME NEW b \in 1..Len(bs)
      PROVE  BlockText(bs[b]) \in Seq(Nat) /\ BlockCall(bs[b], b) \in Seq(ClaudeCalls)
  <2>1. bs[b] \in ClaudeBlocks /\ b \in Nat \ {0}
    OBVIOUS
  <2>2. QED
    BY <2>1, BlockType
<1>2. Len(bs) \in Nat
  OBVIOUS
<1>3. QED
  BY <1>1, <1>2 DEF BlockTexts, BlockCalls

\* A block more says what it says, and is the call it is.
LEMMA BlockAdded ==
  ASSUME NEW bs \in Seq(ClaudeBlocks), NEW block \in ClaudeBlocks
  PROVE  /\ FlattenSeq(BlockTexts(Append(bs, block)))
              = FlattenSeq(BlockTexts(bs)) \o BlockText(block)
         /\ FlattenSeq(BlockCalls(Append(bs, block)))
              = FlattenSeq(BlockCalls(bs)) \o BlockCall(block, Len(bs) + 1)
         /\ FlattenSeq(BlockTexts(bs)) \in Seq(Nat)
         /\ FlattenSeq(BlockCalls(bs)) \in Seq(ClaudeCalls)
<1> DEFINE cs == Append(bs, block)
<1>1. /\ cs \in Seq(ClaudeBlocks) /\ Len(cs) = Len(bs) + 1 /\ cs[Len(bs) + 1] = block
      /\ \A b \in 1..Len(bs) : cs[b] = bs[b]
      /\ Len(bs) \in Nat
  OBVIOUS
<1> HIDE DEF cs
<1>2. /\ \A b \in 1..Len(bs) : BlockTexts(cs)[b] = BlockTexts(bs)[b]
      /\ BlockTexts(cs)[Len(bs) + 1] = BlockText(block)
  BY <1>1 DEF BlockTexts
<1>3. /\ \A b \in 1..Len(bs) : BlockCalls(cs)[b] = BlockCalls(bs)[b]
      /\ BlockCalls(cs)[Len(bs) + 1] = BlockCall(block, Len(bs) + 1)
  BY <1>1 DEF BlockCalls
<1>4. /\ BlockTexts(bs) \in Seq(Seq(Nat)) /\ Len(BlockTexts(bs)) = Len(bs)
      /\ BlockTexts(cs) \in Seq(Seq(Nat)) /\ Len(BlockTexts(cs)) = Len(bs) + 1
  BY <1>1, BlocksType
<1>5. /\ BlockCalls(bs) \in Seq(Seq(ClaudeCalls)) /\ Len(BlockCalls(bs)) = Len(bs)
      /\ BlockCalls(cs) \in Seq(Seq(ClaudeCalls)) /\ Len(BlockCalls(cs)) = Len(bs) + 1
  BY <1>1, BlocksType
<1>6. FlattenSeq(BlockTexts(cs)) = FlattenSeq(BlockTexts(bs)) \o BlockText(block)
  <2>1. FlattenSeq(BlockTexts(cs)) = FlattenSeq(BlockTexts(bs)) \o BlockTexts(cs)[Len(BlockTexts(bs)) + 1]
    BY <1>2, <1>4, OneMoreText
  <2>2. QED
    BY <1>2, <1>4, <2>1
<1>7. FlattenSeq(BlockCalls(cs)) = FlattenSeq(BlockCalls(bs)) \o BlockCall(block, Len(bs) + 1)
  <2>1. FlattenSeq(BlockCalls(cs)) = FlattenSeq(BlockCalls(bs)) \o BlockCalls(cs)[Len(BlockCalls(bs)) + 1]
    BY <1>3, <1>5, OneMoreText
  <2>2. QED
    BY <1>3, <1>5, <2>1
<1>8. QED
  BY <1>4, <1>5, <1>6, <1>7, FlattenType DEF cs

LEMMA ClaudeInitially == Init => ClaudeInv
<1> SUFFICES ASSUME Init, answering = "claude"
             PROVE  ClaudeTypes /\ PhaseInv /\ IndexInv /\ ToldInv
  BY DEF ClaudeInv
<1>1. Claude!ClaudeInit /\ ~sentRole /\ sentRole \in BOOLEAN /\ sentText = <<>> /\ sentTools = <<>>
      /\ sentFinish = "none" /\ sentDone = FALSE
  BY DEF Init, SentNothing
<1>2. phase = "created" /\ blocks = <<>> /\ stopReason = "" /\ nextTool = 0
         /\ toolIndexByBlock = [b \in {} |-> 0]
  BY <1>1 DEF Claude!ClaudeInit
<1>3. ClaudeTypes /\ PhaseInv
  <2>1. <<>> \in Seq(ClaudeBlocks) /\ <<>> \in Seq(Nat) /\ <<>> \in Seq(ClaudeCalls)
    OBVIOUS
  <2>2. QED
    BY <1>1, <1>2, <2>1 DEF ClaudeTypes, PhaseInv, Claude!Phases
<1>4. IndexInv
  <2>1. Len(blocks) = 0 /\ Len(sentTools) = 0
    BY <1>1, <1>2
  <2>2. DOMAIN toolIndexByBlock = {}
    BY <1>2
  <2>3. \A b \in 0..Len(blocks) - 1 : FALSE
    BY <2>1
  <2>4. {b \in 0..Len(blocks) - 1 : blocks[b + 1].kind = "tool_use"} = {}
    BY <2>3
  <2>5. QED
    BY <1>2, <2>1, <2>2, <2>4 DEF IndexInv
<1>5. ToldInv
  <2>1. BlockTexts(blocks) = <<>> /\ BlockCalls(blocks) = <<>>
    <3>1. blocks \in Seq(ClaudeBlocks) /\ Len(blocks) = 0
      BY <1>2, <1>3 DEF ClaudeTypes
    <3>2. /\ BlockTexts(blocks) \in Seq(Seq(Nat)) /\ Len(BlockTexts(blocks)) = 0
          /\ BlockCalls(blocks) \in Seq(Seq(ClaudeCalls)) /\ Len(BlockCalls(blocks)) = 0
      BY <3>1, BlocksType
    <3>3. QED
      BY <3>2
  <2>2. Claude!Text = <<>> /\ Claude!ToolCalls = <<>>
    BY <2>1, ClaudeSays, FlattenNothing
  <2>3. QED
    BY <1>1, <2>2 DEF ToldInv
<1>6. QED
  BY <1>3, <1>4, <1>5

LEMMA ElementAdded ==
  ASSUME NEW S, NEW s \in Seq(S), NEW e \in S
  PROVE  /\ Append(s, e) \in Seq(S) /\ Len(Append(s, e)) = Len(s) + 1
         /\ Append(s, e)[Len(s) + 1] = e
         /\ \A m \in 1..Len(s) : Append(s, e)[m] = s[m]
OBVIOUS

LEMMA ElementSet ==
  ASSUME NEW S, NEW s \in Seq(S), NEW n \in 1..Len(s), NEW e \in S
  PROVE  /\ [s EXCEPT ![n] = e] \in Seq(S) /\ Len([s EXCEPT ![n] = e]) = Len(s)
         /\ [s EXCEPT ![n] = e][n] = e
         /\ \A m \in 1..Len(s) : m # n => [s EXCEPT ![n] = e][m] = s[m]
OBVIOUS

LEMMA PieceType ==
  ASSUME blocks \in Seq(ClaudeBlocks)
  PROVE  Claude!NextPiece \in Nat
<1> DEFINE all == [b \in 1..Len(blocks) |-> blocks[b].pieces]
<1>1. ASSUME NEW b \in 1..Len(blocks) PROVE blocks[b].pieces \in Seq(Nat)
  <2>1. blocks[b] \in ClaudeBlocks
    OBVIOUS
  <2>2. QED
    BY <2>1 DEF ClaudeBlocks
<1>2. all \in Seq(Seq(Nat))
  BY <1>1
<1>3. Claude!NextPiece = Len(FlattenSeq(all)) + 1
  BY ClaudeFlatten DEF Claude!NextPiece
<1> HIDE DEF all
<1>4. FlattenSeq(all) \in Seq(Nat)
  BY <1>2, FlattenType
<1>5. QED
  BY <1>3, <1>4

\* A block, with other pieces.
LEMMA OtherPieces ==
  ASSUME NEW K, NEW P, NEW r \in [kind : K, pieces : P], NEW x
  PROVE  [r EXCEPT !.pieces = x] = [kind |-> r.kind, pieces |-> x]
<1>1. PICK k \in K, p \in P : r = [kind |-> k, pieces |-> p]
  OBVIOUS
<1>2. QED
  BY <1>1

\* A delta makes the last block longer.
LEMMA BlockLonger ==
  ASSUME ClaudeTypes, blocks # <<>>, NEW d \in Nat,
         blocks' = [blocks EXCEPT ![Len(blocks)] =
                      [kind   |-> blocks[Len(blocks)].kind,
                       pieces |-> Append(blocks[Len(blocks)].pieces, d)]]
  PROVE  LET n    == Len(blocks)
             last == blocks[n]
             new  == [kind |-> last.kind, pieces |-> Append(last.pieces, d)]
         IN  /\ n \in Nat \ {0} /\ last \in ClaudeBlocks /\ new \in ClaudeBlocks
             /\ blocks' \in Seq(ClaudeBlocks) /\ Len(blocks') = n /\ blocks'[n] = new
             /\ \A b \in 1..n : b # n => blocks'[b] = blocks[b]
             /\ \E texts \in Seq(Nat), calls \in Seq(ClaudeCalls) :
                  /\ Claude!Text       = texts \o BlockText(last)
                  /\ Claude!Text'      = texts \o BlockText(new)
                  /\ Claude!ToolCalls  = calls \o BlockCall(last, n)
                  /\ Claude!ToolCalls' = calls \o BlockCall(new, n)
<1> DEFINE n     == Len(blocks)
           last  == blocks[n]
           new   == [kind |-> last.kind, pieces |-> Append(last.pieces, d)]
           front == [i \in 1..n - 1 |-> blocks[i]]
<1>1. blocks \in Seq(ClaudeBlocks)
  BY DEF ClaudeTypes
<1>2. /\ n \in Nat \ {0} /\ last \in ClaudeBlocks /\ front \in Seq(ClaudeBlocks)
      /\ \A t \in ClaudeBlocks : [blocks EXCEPT ![n] = t] = Append(front, t)
  BY <1>1, FrontAndLast
<1>3. Len(front) = n - 1
  BY <1>2
<1>4. last.pieces \in Seq(Nat)
  BY <1>2 DEF ClaudeBlocks
<1>5. Append(last.pieces, d) \in Seq(Nat)
  BY <1>4
<1>6. new \in ClaudeBlocks
  BY <1>2, <1>5 DEF ClaudeBlocks
<1>7. blocks' = [blocks EXCEPT ![n] = new]
  OBVIOUS
<1> HIDE DEF last, new, front
<1>8. blocks = [blocks EXCEPT ![n] = last]
  BY <1>1 DEF last
<1>9. blocks = Append(front, last) /\ blocks' = Append(front, new)
  BY <1>2, <1>6, <1>7, <1>8
<1>10. /\ blocks' \in Seq(ClaudeBlocks) /\ Len(blocks') = n /\ blocks'[n] = new
       /\ \A b \in 1..n : b # n => blocks'[b] = blocks[b]
  <2>1. n \in 1..Len(blocks)
    BY <1>2
  <2> HIDE DEF n
  <2> DEFINE cs == [blocks EXCEPT ![n] = new]
  <2>2. /\ cs \in Seq(ClaudeBlocks) /\ Len(cs) = Len(blocks) /\ cs[n] = new
        /\ \A b \in 1..Len(blocks) : b # n => cs[b] = blocks[b]
    BY <1>1, <1>6, <2>1, ElementSet
  <2>3. blocks' = cs
    BY <1>7
  <2> HIDE DEF cs
  <2>4. QED
    BY <2>2, <2>3 DEF n
<1> DEFINE texts == FlattenSeq(BlockTexts(front))
           calls == FlattenSeq(BlockCalls(front))
<1>11. /\ FlattenSeq(BlockTexts(blocks)) = texts \o BlockText(last)
       /\ FlattenSeq(BlockCalls(blocks)) = calls \o BlockCall(last, n)
       /\ texts \in Seq(Nat) /\ calls \in Seq(ClaudeCalls)
  <2>1. Len(front) + 1 = n
    BY <1>2, <1>3
  <2>2. QED
    BY <1>2, <1>9, <2>1, BlockAdded
<1>12. /\ FlattenSeq(BlockTexts(blocks')) = texts \o BlockText(new)
       /\ FlattenSeq(BlockCalls(blocks')) = calls \o BlockCall(new, n)
  <2>1. Len(front) + 1 = n
    BY <1>2, <1>3
  <2>2. /\ FlattenSeq(BlockTexts(Append(front, new))) = texts \o BlockText(new)
        /\ FlattenSeq(BlockCalls(Append(front, new))) = calls \o BlockCall(new, Len(front) + 1)
    BY <1>2, <1>6, BlockAdded
  <2>3. QED
    BY <1>9, <2>1, <2>2
<1> HIDE DEF texts, calls
<1>13. \E t \in Seq(Nat), c \in Seq(ClaudeCalls) :
         /\ Claude!Text       = t \o BlockText(last)
         /\ Claude!Text'      = t \o BlockText(new)
         /\ Claude!ToolCalls  = c \o BlockCall(last, n)
         /\ Claude!ToolCalls' = c \o BlockCall(new, n)
  BY <1>11, <1>12, ClaudeSays
<1>14. QED
  BY <1>2, <1>6, <1>10, <1>13 DEF last, new

LEMMA DeltaTaken ==
  ASSUME ClaudeTypes, Claude!ContentBlockDelta
  PROVE  /\ blocks # <<>>
         /\ blocks' = [blocks EXCEPT ![Len(blocks)] =
                         [kind   |-> blocks[Len(blocks)].kind,
                          pieces |-> Append(blocks[Len(blocks)].pieces, Claude!NextPiece)]]
<1> DEFINE last == blocks[Len(blocks)]
           x    == Append(last.pieces, Claude!NextPiece)
<1>1. blocks # <<>>
  BY DEF Claude!ContentBlockDelta
<1>2. last \in ClaudeBlocks
  <2>1. blocks \in Seq(ClaudeBlocks)
    BY DEF ClaudeTypes
  <2>2. QED
    BY <1>1, <2>1, FrontAndLast
<1> HIDE DEF last, x
<1>3. [last EXCEPT !.pieces = x] = [kind |-> last.kind, pieces |-> x]
  BY <1>2, OtherPieces DEF ClaudeBlocks
<1>4. [last EXCEPT !.pieces = Append(last.pieces, Claude!NextPiece)] = [kind |-> last.kind, pieces |-> x]
  BY <1>3 DEF x
<1>5. blocks' = [blocks EXCEPT ![Len(blocks)] = [kind |-> last.kind, pieces |-> x]]
  BY <1>4 DEF last, Claude!ContentBlockDelta
<1>6. QED
  BY <1>1, <1>5 DEF last, x

\* Arguments that are sent are those of one call, which is where it was.
LEMMA ClaudeArgs ==
  ASSUME ClaudeTypes, NEW n \in 1..Len(sentTools), NEW a \in Seq(Nat), Claude!SendArgs(n, a)
  PROVE  /\ sentTools' \in Seq(ClaudeCalls) /\ Len(sentTools') = Len(sentTools)
         /\ sentTools'[n] = [id |-> sentTools[n].id, args |-> sentTools[n].args \o a]
         /\ \A m \in 1..Len(sentTools) : m # n => sentTools'[m] = sentTools[m]
<1> DEFINE new == [id |-> sentTools[n].id, args |-> sentTools[n].args \o a]
<1>1. sentTools \in Seq(ClaudeCalls)
  BY DEF ClaudeTypes
<1>2. sentTools[n] \in ClaudeCalls
  BY <1>1
<1>3. sentTools[n].id \in Nat /\ sentTools[n].args \in Seq(Nat)
  BY <1>2 DEF ClaudeCalls
<1>4. sentTools[n].args \o a \in Seq(Nat)
  BY <1>3
<1>5. new \in ClaudeCalls
  BY <1>3, <1>4 DEF ClaudeCalls
<1>6. [sentTools[n] EXCEPT !.args = @ \o a] = new
  BY <1>2, OtherArgs DEF ClaudeCalls
<1>7. sentTools' = [sentTools EXCEPT ![n] = new]
  BY <1>6 DEF Claude!SendArgs
<1> HIDE DEF new
<1>8. sentTools' \in Seq(ClaudeCalls) /\ Len(sentTools') = Len(sentTools) /\ sentTools'[n] = new
      /\ \A m \in 1..Len(sentTools) : m # n => sentTools'[m] = sentTools[m]
  BY <1>1, <1>5, <1>7, ElementSet
<1>9. QED
  BY <1>8 DEF new

\* What says nothing is written as promised.
LEMMA QuietWrite ==
  ASSUME NEW S, NEW A, NEW B, sentText \in Seq(S), sentTools \in Seq([id : A, args : Seq(B)]),
         sentText' = sentText, sentTools' = sentTools, ~sentDone, sentRole => sentRole',
         sentFinish # "none" => sentFinish' = sentFinish
  PROVE  Write
<1>1. IsPrefix(sentText, sentText')
  BY TextGrows
<1>2. ToolsGrow
  BY CallsStay
<1>3. QED
  BY <1>1, <1>2 DEF Write, Grows, ToolsGrow

\* The events that add no content.
LEMMA ClaudeQuiet ==
  ASSUME ClaudeTypes, PhaseInv, IndexInv, ToldInv,
         UNCHANGED <<blocks, toolIndexByBlock, nextTool, sentText, sentTools>>,
         \/ Claude!MessageStart
         \/ \E stop \in Claude!Stops \cup {""} : Claude!MessageDelta(stop)
         \/ Claude!MessageStop \/ Claude!Truncated
  PROVE  ClaudeTypes' /\ PhaseInv' /\ IndexInv' /\ ToldInv' /\ Write
<1>1. IndexInv'
  BY DEF IndexInv
<1>2. ToldInv'
  <2>1. Claude!Text' = Claude!Text /\ Claude!ToolCalls' = Claude!ToolCalls
    BY ClaudeSays
  <2>2. QED
    BY <2>1 DEF ToldInv
<1>3. stopReason \in Claude!Stops \cup {""} /\ sentFinish \in Reasons \cup {"none"} /\ phase \in Claude!Phases
  BY DEF ClaudeTypes
<1>4. /\ phase' \in Claude!Phases /\ stopReason' \in Claude!Stops \cup {""}
      /\ sentFinish' \in Reasons \cup {"none"}
      /\ PhaseInv' /\ ~sentDone /\ (sentRole => sentRole')
      /\ (sentFinish # "none" => sentFinish' = sentFinish)
  <2>1. CASE Claude!MessageStart
    BY <1>3, <2>1 DEF Claude!MessageStart, PhaseInv, Claude!Phases
  <2>2. CASE \E stop \in Claude!Stops \cup {""} : Claude!MessageDelta(stop)
    <3>1. PICK stop \in Claude!Stops \cup {""} : Claude!MessageDelta(stop)
      BY <2>2
    <3>2. /\ phase = "content" /\ phase' = "stopping" /\ stopReason' = stop
          /\ sentFinish' = IF stop = "" THEN sentFinish ELSE Claude!FinishOf(stop)
          /\ sentRole' = sentRole /\ sentDone' = sentDone
      BY <3>1 DEF Claude!MessageDelta
    <3>3. Claude!FinishOf(stop) \in Reasons
      BY DEF Claude!FinishOf, Reasons
    <3>4. QED
      BY <1>3, <3>2, <3>3 DEF PhaseInv, Claude!Phases
  <2>3. CASE Claude!MessageStop
    BY <1>3, <2>3 DEF Claude!MessageStop, Claude!SendEnd, PhaseInv, Claude!Phases
  <2>4. CASE Claude!Truncated
    BY <1>3, <2>4 DEF Claude!Truncated, Claude!SendEnd, PhaseInv, Claude!Phases
  <2>5. QED
    BY <2>1, <2>2, <2>3, <2>4
<1>5. ClaudeTypes'
  BY <1>4 DEF ClaudeTypes
<1>6. Write
  BY <1>4, QuietWrite DEF ClaudeTypes, ClaudeCalls
<1>7. QED
  BY <1>1, <1>2, <1>4, <1>5, <1>6

\* A block is opened.
LEMMA ClaudeStarts ==
  ASSUME ClaudeTypes, PhaseInv, IndexInv, ToldInv,
         NEW kind \in Claude!Kinds, Claude!ContentBlockStart(kind)
  PROVE  ClaudeTypes' /\ PhaseInv' /\ IndexInv' /\ ToldInv' /\ Write
<1> DEFINE n     == Len(blocks)
           block == [kind |-> kind, pieces |-> <<>>]
           call  == [id |-> n, args |-> <<>>]
<1>1. /\ phase = "content" /\ blocks' = Append(blocks, block)
      /\ UNCHANGED <<phase, stopReason, sentRole, sentText, sentFinish, sentDone>>
      /\ kind # "tool_use" => UNCHANGED <<toolIndexByBlock, nextTool, sentTools>>
      /\ kind = "tool_use" => /\ toolIndexByBlock' = Claude!Indexed(n, nextTool)
                              /\ nextTool' = nextTool + 1
                              /\ sentTools' = Append(sentTools, call)
  BY DEF Claude!ContentBlockStart, Claude!SendCall
<1>2. blocks \in Seq(ClaudeBlocks) /\ sentTools \in Seq(ClaudeCalls) /\ sentText \in Seq(Nat)
  BY DEF ClaudeTypes
<1>3. n \in Nat /\ Len(sentTools) \in Nat
  BY <1>2
<1>4. block \in ClaudeBlocks /\ call \in ClaudeCalls
  <2>1. <<>> \in Seq(Nat)
    OBVIOUS
  <2>2. QED
    BY <1>3, <2>1 DEF ClaudeBlocks, ClaudeCalls
<1> HIDE DEF n, block, call
<1>5. /\ blocks' \in Seq(ClaudeBlocks) /\ Len(blocks') = n + 1 /\ blocks'[n + 1] = block
      /\ \A b \in 1..n : blocks'[b] = blocks[b]
  BY <1>1, <1>2, <1>4 DEF n
<1>6. kind = "tool_use" =>
        /\ sentTools' \in Seq(ClaudeCalls) /\ Len(sentTools') = Len(sentTools) + 1
        /\ sentTools'[Len(sentTools) + 1] = call
        /\ \A m \in 1..Len(sentTools) : sentTools'[m] = sentTools[m]
  <2>1. kind = "tool_use" => sentTools' = Append(sentTools, call)
    BY <1>1
  <2>2. /\ Append(sentTools, call) \in Seq(ClaudeCalls)
        /\ Len(Append(sentTools, call)) = Len(sentTools) + 1
        /\ Append(sentTools, call)[Len(sentTools) + 1] = call
        /\ \A m \in 1..Len(sentTools) : Append(sentTools, call)[m] = sentTools[m]
    BY <1>2, <1>4, ElementAdded
  <2>3. QED
    BY <2>1, <2>2
<1>7. ClaudeTypes' /\ PhaseInv'
  BY <1>1, <1>2, <1>5, <1>6 DEF ClaudeTypes, PhaseInv
<1>8. /\ Claude!Text' = Claude!Text \o BlockText(block) /\ Claude!Text \in Seq(Nat)
      /\ Claude!ToolCalls' = Claude!ToolCalls \o BlockCall(block, n + 1)
      /\ Claude!ToolCalls \in Seq(ClaudeCalls)
  <2>1. blocks' = Append(blocks, block)
    BY <1>1
  <2>2. QED
    BY <1>2, <1>4, <2>1, BlockAdded, ClaudeSays DEF n
<1>9. BlockText(block) = <<>>
  BY DEF BlockText, block
<1>10. Claude!Text' = Claude!Text
  BY <1>8, <1>9
<1>11. CASE kind # "tool_use"
  <2>1. BlockCall(block, n + 1) = <<>> /\ block.kind # "tool_use"
    BY <1>11 DEF BlockCall, block
  <2>2. Claude!ToolCalls' = Claude!ToolCalls
    BY <1>8, <2>1
  <2>3. ToldInv'
    BY <1>1, <1>10, <1>11, <2>2 DEF ToldInv
  <2>4. IndexInv'
    <3>1. nextTool' = Len(sentTools')
      BY <1>1, <1>11 DEF IndexInv
    <3>2. DOMAIN toolIndexByBlock' = {b \in 0..Len(blocks') - 1 : blocks'[b + 1].kind = "tool_use"}
      <4>1. toolIndexByBlock' = toolIndexByBlock
        BY <1>1, <1>11
      <4>2. {b \in 0..Len(blocks') - 1 : blocks'[b + 1].kind = "tool_use"}
              = {b \in 0..n - 1 : blocks[b + 1].kind = "tool_use"}
        BY <1>3, <1>5, <2>1
      <4>3. QED
        BY <4>1, <4>2 DEF IndexInv, n
    <3>3. blocks'[Len(blocks')].kind # "tool_use"
      BY <1>5, <2>1
    <3>4. QED
      BY <3>1, <3>2, <3>3 DEF IndexInv
  <2>5. Write
    BY <1>1, <1>2, <1>11, QuietWrite DEF PhaseInv, ClaudeCalls
  <2>6. QED
    BY <1>7, <2>3, <2>4, <2>5
<1>12. CASE kind = "tool_use"
  <2>1. BlockCall(block, n + 1) = <<[id |-> n, args |-> Claude!OrObject(<<>>)]>> /\ block.kind = "tool_use"
        /\ block.pieces = <<>>
    BY <1>3, <1>12 DEF BlockCall, block
  <2> DEFINE told == [id |-> n, args |-> Claude!OrObject(<<>>)]
  <2>2. told \in ClaudeCalls
    <3>1. <<>> \in Seq(Nat)
      OBVIOUS
    <3>2. Claude!OrObject(<<>>) \in Seq(Nat)
      BY <3>1, ObjectType
    <3>3. QED
      BY <1>3, <3>2 DEF ClaudeCalls
  <2> HIDE DEF told
  <2>3. /\ Len(Claude!ToolCalls') = Len(Claude!ToolCalls) + 1
        /\ Claude!ToolCalls'[Len(Claude!ToolCalls) + 1] = told
        /\ \A m \in 1..Len(Claude!ToolCalls) : Claude!ToolCalls'[m] = Claude!ToolCalls[m]
    <3>1. Claude!ToolCalls' = Claude!ToolCalls \o <<told>>
      BY <1>8, <2>1 DEF told
    <3>2. QED
      BY <1>8, <2>2, <3>1
  <2>4. Len(Claude!ToolCalls) = Len(sentTools)
    BY DEF ToldInv
  <2>5. ToldInv'
    <3>1. sentText' = Claude!Text'
      BY <1>1, <1>10 DEF ToldInv
    <3>2. Len(sentTools') = Len(Claude!ToolCalls')
      BY <1>6, <1>12, <2>3, <2>4
    <3>3. ASSUME NEW m \in 1..Len(sentTools')
          PROVE  Claude!ToolCalls'[m]
                   = [id |-> sentTools'[m].id, args |-> Claude!OrObject(sentTools'[m].args)]
      <4>1. CASE m \in 1..Len(sentTools)
        BY <1>6, <1>12, <2>3, <2>4, <4>1 DEF ToldInv
      <4>2. CASE m = Len(sentTools) + 1
        <5>1. sentTools'[m].id = n /\ sentTools'[m].args = <<>>
          BY <1>6, <1>12, <4>2 DEF call
        <5>2. QED
          BY <2>3, <2>4, <4>2, <5>1 DEF told
      <4>3. QED
        BY <1>3, <1>6, <1>12, <4>1, <4>2
    <3>4. Claude!OrObject(<<>>)' = Claude!OrObject(<<>>)
      BY DEF Claude!OrObject, Claude!EmptyObject
    <3>5. QED
      BY <3>1, <3>2, <3>3 DEF ToldInv
  <2>6. IndexInv'
    <3>1. nextTool' = Len(sentTools') /\ nextTool' > 0 /\ nextTool' - 1 = nextTool
          /\ nextTool' = Len(sentTools) + 1
      BY <1>1, <1>3, <1>6, <1>12 DEF IndexInv
    <3>2. DOMAIN toolIndexByBlock' = {b \in 0..Len(blocks') - 1 : blocks'[b + 1].kind = "tool_use"}
      <4>1. DOMAIN toolIndexByBlock' = DOMAIN toolIndexByBlock \cup {n}
        BY <1>1, <1>12 DEF Claude!Indexed
      <4>2. {b \in 0..Len(blocks') - 1 : blocks'[b + 1].kind = "tool_use"}
              = {b \in 0..n - 1 : blocks[b + 1].kind = "tool_use"} \cup {n}
        BY <1>3, <1>5, <2>1
      <4>3. QED
        BY <4>1, <4>2 DEF IndexInv, n
    <3>3. toolIndexByBlock'[n] = nextTool
      BY <1>1, <1>12 DEF Claude!Indexed
    <3>4. Len(blocks') - 1 = n /\ blocks'[Len(blocks')] = block
      BY <1>3, <1>5
    <3>5. sentTools'[nextTool'] = [id |-> n, args |-> block.pieces]
      BY <1>6, <1>12, <2>1, <3>1 DEF call
    <3>6. QED
      BY <3>1, <3>2, <3>3, <3>4, <3>5 DEF IndexInv
  <2>7. Write
    <3>1. IsPrefix(sentText, sentText')
      BY <1>1, <1>2, TextGrows
    <3>2. ToolsGrow
      <4>1. Len(sentTools) <= Len(sentTools')
        BY <1>3, <1>6, <1>12
      <4>2. \A m \in 1..Len(sentTools) : sentTools'[m] = sentTools[m]
        BY <1>6, <1>12
      <4>3. QED
        BY <1>2, <4>1, <4>2, CallsGrow DEF ClaudeCalls
    <3>3. QED
      BY <1>1, <3>1, <3>2 DEF Write, Grows, ToolsGrow, PhaseInv
  <2>8. QED
    BY <1>7, <2>5, <2>6, <2>7
<1>13. QED
  BY <1>11, <1>12

\* A block goes on.
LEMMA ClaudeGoesOn ==
  ASSUME ClaudeTypes, PhaseInv, IndexInv, ToldInv, Claude!ContentBlockDelta
  PROVE  ClaudeTypes' /\ PhaseInv' /\ IndexInv' /\ ToldInv' /\ Write
<1> DEFINE n    == Len(blocks)
           last == blocks[n]
           d    == Claude!NextPiece
           new  == [kind |-> last.kind, pieces |-> Append(last.pieces, d)]
<1>1. /\ phase = "content"
      /\ last.kind = "text" => sentText' = Append(sentText, d) /\ sentTools' = sentTools
      /\ last.kind = "tool_use" /\ n - 1 \in DOMAIN toolIndexByBlock =>
           /\ Claude!SendArgs(toolIndexByBlock[n - 1] + 1, <<d>>)
           /\ sentText' = sentText
      /\ last.kind # "text" /\ n - 1 \notin DOMAIN toolIndexByBlock =>
           sentText' = sentText /\ sentTools' = sentTools
      /\ UNCHANGED <<phase, stopReason, toolIndexByBlock, nextTool, sentRole, sentFinish, sentDone>>
  <2>1. Claude!SendPiece(n, d)
    BY DEF Claude!ContentBlockDelta
  <2>2. phase = "content"
    BY DEF Claude!ContentBlockDelta
  <2>3. UNCHANGED <<phase, stopReason, toolIndexByBlock, nextTool, sentRole, sentFinish, sentDone>>
    BY DEF Claude!ContentBlockDelta
  <2> HIDE DEF d, n
  <2>4. QED
    BY <2>1, <2>2, <2>3 DEF Claude!SendPiece, Claude!SendText
<1>2. blocks \in Seq(ClaudeBlocks) /\ sentTools \in Seq(ClaudeCalls) /\ sentText \in Seq(Nat)
      /\ Len(sentTools) \in Nat
  <2>1. blocks \in Seq(ClaudeBlocks) /\ sentTools \in Seq(ClaudeCalls) /\ sentText \in Seq(Nat)
    BY DEF ClaudeTypes
  <2>2. QED
    BY <2>1
<1>3. d \in Nat
  BY <1>2, PieceType
<1>4. /\ n \in Nat \ {0} /\ last \in ClaudeBlocks /\ new \in ClaudeBlocks
      /\ blocks' \in Seq(ClaudeBlocks) /\ Len(blocks') = n /\ blocks'[n] = new
      /\ \A b \in 1..n : b # n => blocks'[b] = blocks[b]
      /\ \E texts \in Seq(Nat), calls \in Seq(ClaudeCalls) :
           /\ Claude!Text       = texts \o BlockText(last)
           /\ Claude!Text'      = texts \o BlockText(new)
           /\ Claude!ToolCalls  = calls \o BlockCall(last, n)
           /\ Claude!ToolCalls' = calls \o BlockCall(new, n)
  BY <1>3, DeltaTaken, BlockLonger
<1> HIDE DEF d
<1>5. last.pieces \in Seq(Nat) /\ last.kind \in Claude!Kinds
  BY <1>4 DEF ClaudeBlocks
<1>6. new.kind = last.kind /\ new.pieces = Append(last.pieces, d)
  OBVIOUS
<1>7. blocks # <<>> /\ n \in 1..n
  BY <1>2, <1>4
<1> HIDE DEF n, last, new
<1>8. DOMAIN toolIndexByBlock' = {b \in 0..Len(blocks') - 1 : blocks'[b + 1].kind = "tool_use"}
  <2>1. \A b \in 0..n - 1 : blocks'[b + 1].kind = blocks[b + 1].kind
    <3>1. SUFFICES ASSUME NEW b \in 0..n - 1 PROVE blocks'[b + 1].kind = blocks[b + 1].kind
      OBVIOUS
    <3>2. CASE b + 1 = n
      BY <1>4, <1>6, <3>2 DEF last
    <3>3. CASE b + 1 # n
      BY <1>4, <3>3
    <3>4. QED
      BY <3>2, <3>3
  <2>2. {b \in 0..n - 1 : blocks'[b + 1].kind = "tool_use"}
          = {b \in 0..n - 1 : blocks[b + 1].kind = "tool_use"}
    BY <2>1
  <2>3. QED
    BY <1>1, <1>4, <2>2 DEF IndexInv, n
<1>9. last.kind = "tool_use" <=> n - 1 \in DOMAIN toolIndexByBlock
  BY <1>4 DEF IndexInv, n, last
<1>10. PICK texts \in Seq(Nat), calls \in Seq(ClaudeCalls) :
         /\ Claude!Text       = texts \o BlockText(last)
         /\ Claude!Text'      = texts \o BlockText(new)
         /\ Claude!ToolCalls  = calls \o BlockCall(last, n)
         /\ Claude!ToolCalls' = calls \o BlockCall(new, n)
  BY <1>4
<1>11. PhaseInv'
  BY <1>1 DEF PhaseInv
<1>12. CASE last.kind # "tool_use"
  <2>1. sentTools' = sentTools
    BY <1>1, <1>9, <1>12
  <2>2. Claude!ToolCalls' = Claude!ToolCalls
    BY <1>6, <1>10, <1>12 DEF BlockCall
  <2>3. sentText' \in Seq(Nat) /\ sentText' = Claude!Text' /\ IsPrefix(sentText, sentText')
    <3>1. CASE last.kind = "text"
      <4>1. sentText' = Append(sentText, d)
        BY <1>1, <3>1
      <4>2. Claude!Text = texts \o last.pieces /\ Claude!Text' = texts \o Append(last.pieces, d)
        BY <1>6, <1>10, <3>1 DEF BlockText
      <4>3. texts \o Append(last.pieces, d) = Append(texts \o last.pieces, d)
        <5>1. last.pieces \in Seq(Nat)
          BY <1>5
        <5>2. QED
          BY <1>3, <5>1, AppendedLast
      <4>4. sentText' = Claude!Text'
        BY <4>1, <4>2, <4>3 DEF ToldInv
      <4>5. sentText' \in Seq(Nat)
        BY <1>2, <1>3, <4>1
      <4>6. IsPrefix(sentText, sentText')
        BY <1>2, <1>3, <4>1, TextGrows
      <4>7. QED
        BY <4>4, <4>5, <4>6
    <3>2. CASE last.kind # "text"
      <4>1. sentText' = sentText
        BY <1>1, <1>9, <1>12, <3>2
      <4>2. Claude!Text' = Claude!Text
        BY <1>6, <1>10, <3>2 DEF BlockText
      <4>3. QED
        BY <1>2, <4>1, <4>2, TextGrows DEF ToldInv
    <3>3. QED
      BY <3>1, <3>2
  <2>4. ToldInv'
    BY <2>1, <2>2, <2>3 DEF ToldInv
  <2>5. IndexInv'
    BY <1>1, <1>4, <1>6, <1>8, <1>12, <2>1 DEF IndexInv
  <2>6. ClaudeTypes'
    BY <1>1, <1>4, <2>1, <2>3 DEF ClaudeTypes
  <2>7. ToolsGrow
    BY <1>2, <2>1, CallsStay DEF ClaudeCalls
  <2>8. Write
    BY <1>1, <2>3, <2>7 DEF Write, Grows, ToolsGrow, PhaseInv
  <2>9. QED
    BY <1>11, <2>4, <2>5, <2>6, <2>8
<1>13. CASE last.kind = "tool_use"
  <2> DEFINE k == Len(sentTools)
  <2>1. /\ k > 0 /\ toolIndexByBlock[n - 1] = k - 1 /\ nextTool = k
        /\ sentTools[k] = [id |-> n - 1, args |-> last.pieces]
    BY <1>2, <1>4, <1>7, <1>13 DEF IndexInv, n, last
  <2>2. Claude!SendArgs(k, <<d>>) /\ sentText' = sentText
    <3>1. toolIndexByBlock[n - 1] + 1 = k
      BY <1>2, <2>1
    <3>2. QED
      BY <1>1, <1>9, <1>13, <3>1
  <2>3. k \in 1..Len(sentTools) /\ <<d>> \in Seq(Nat)
    BY <1>2, <1>3, <2>1
  <2>4. /\ sentTools' \in Seq(ClaudeCalls) /\ Len(sentTools') = Len(sentTools)
        /\ sentTools'[k] = [id |-> sentTools[k].id, args |-> sentTools[k].args \o <<d>>]
        /\ \A m \in 1..Len(sentTools) : m # k => sentTools'[m] = sentTools[m]
    BY <2>2, <2>3, ClaudeArgs
  <2>5. sentTools'[k] = [id |-> n - 1, args |-> new.pieces]
    <3>1. last.pieces \o <<d>> = Append(last.pieces, d)
      BY <1>3, <1>5
    <3>2. sentTools[k].id = n - 1 /\ sentTools[k].args = last.pieces
      BY <2>1
    <3> HIDE DEF k
    <3>3. QED
      BY <1>6, <2>4, <3>1, <3>2
  <2>6. Claude!Text' = Claude!Text
    BY <1>6, <1>10, <1>13 DEF BlockText
  <2> DEFINE was == [id |-> n - 1, args |-> Claude!OrObject(last.pieces)]
             is  == [id |-> n - 1, args |-> Claude!OrObject(new.pieces)]
  <2>7. Claude!ToolCalls = calls \o <<was>> /\ Claude!ToolCalls' = calls \o <<is>>
    BY <1>6, <1>10, <1>13 DEF BlockCall
  <2>8. was \in ClaudeCalls /\ is \in ClaudeCalls
    <3>1. new.pieces \in Seq(Nat)
      BY <1>4 DEF ClaudeBlocks
    <3>2. Claude!OrObject(last.pieces) \in Seq(Nat) /\ Claude!OrObject(new.pieces) \in Seq(Nat)
      BY <1>5, <3>1, ObjectType
    <3>3. QED
      BY <1>4, <3>2 DEF ClaudeCalls
  <2> HIDE DEF was, is
  <2>9. /\ Len(Claude!ToolCalls) = Len(calls) + 1 /\ Len(Claude!ToolCalls') = Len(calls) + 1
        /\ Claude!ToolCalls'[Len(calls) + 1] = is
        /\ \A m \in 1..Len(calls) : Claude!ToolCalls'[m] = Claude!ToolCalls[m]
        /\ Len(calls) \in Nat
    <3>1. ASSUME NEW e \in ClaudeCalls
          PROVE  /\ Len(calls \o <<e>>) = Len(calls) + 1 /\ (calls \o <<e>>)[Len(calls) + 1] = e
                 /\ \A m \in 1..Len(calls) : (calls \o <<e>>)[m] = calls[m]
                 /\ Len(calls) \in Nat
      OBVIOUS
    <3>2. QED
      BY <2>7, <2>8, <3>1
  <2>10. Len(calls) + 1 = k
    BY <2>9 DEF ToldInv
  <2>11. ToldInv'
    <3>1. sentText' = Claude!Text' /\ Len(sentTools') = Len(Claude!ToolCalls')
      BY <2>2, <2>4, <2>6, <2>9, <2>10 DEF ToldInv
    <3>2. ASSUME NEW m \in 1..Len(sentTools')
          PROVE  Claude!ToolCalls'[m]
                   = [id |-> sentTools'[m].id, args |-> Claude!OrObject(sentTools'[m].args)]
      <4>1. CASE m = k
        BY <2>5, <2>9, <2>10, <4>1 DEF is
      <4>2. CASE m # k
        <5>1. m \in 1..Len(calls) /\ m \in 1..Len(sentTools)
          BY <2>4, <2>9, <2>10, <4>2
        <5>2. QED
          BY <2>4, <2>9, <4>2, <5>1 DEF ToldInv
      <4>3. QED
        BY <4>1, <4>2
    <3>3. QED
      BY <3>1, <3>2 DEF ToldInv, Claude!OrObject, Claude!EmptyObject
  <2>12. IndexInv'
    <3>1. nextTool' = Len(sentTools') /\ nextTool' > 0
          /\ toolIndexByBlock'[Len(blocks') - 1] = nextTool' - 1
      BY <1>1, <1>4, <2>1, <2>3, <2>4
    <3>2. sentTools'[nextTool'] = [id |-> Len(blocks') - 1, args |-> blocks'[Len(blocks')].pieces]
      BY <1>1, <1>4, <2>1, <2>5
    <3>3. QED
      BY <1>8, <3>1, <3>2 DEF IndexInv
  <2>13. ClaudeTypes'
    BY <1>1, <1>4, <2>2, <2>4 DEF ClaudeTypes
  <2>14. IsPrefix(sentText, sentText') /\ ToolsGrow
    <3>1. Len(sentTools) <= Len(sentTools')
      BY <1>2, <2>4
    <3>2. \A m \in 1..Len(sentTools) :
            \/ sentTools'[m] = sentTools[m]
            \/ \E a \in Seq(Nat) :
                 sentTools'[m] = [id |-> sentTools[m].id, args |-> sentTools[m].args \o a]
      BY <2>3, <2>4
    <3>3. QED
      BY <1>2, <2>2, <3>1, <3>2, TextGrows, CallsGrow DEF ClaudeCalls
  <2>15. Write
    BY <1>1, <2>14 DEF Write, Grows, ToolsGrow, PhaseInv
  <2>16. QED
    BY <1>11, <2>11, <2>12, <2>13, <2>15
<1>14. QED
  BY <1>12, <1>13

LEMMA ClaudeAnswered ==
  ASSUME ClaudeInv, ClaudeAnswers
  PROVE  ClaudeInv' /\ Write
<1>1. ClaudeTypes /\ PhaseInv /\ IndexInv /\ ToldInv /\ Claude!Next
  BY DEF ClaudeInv, ClaudeAnswers
<1>2. CASE \/ Claude!MessageStart
           \/ \E stop \in Claude!Stops \cup {""} : Claude!MessageDelta(stop)
           \/ Claude!MessageStop \/ Claude!Truncated
  <2>1. UNCHANGED <<blocks, toolIndexByBlock, nextTool, sentText, sentTools>>
    BY <1>2 DEF Claude!MessageStart, Claude!MessageDelta, Claude!MessageStop, Claude!Truncated
  <2>2. QED
    BY <1>1, <1>2, <2>1, ClaudeQuiet DEF ClaudeInv
<1>3. CASE \E kind \in Claude!Kinds : Claude!ContentBlockStart(kind)
  BY <1>1, <1>3, ClaudeStarts DEF ClaudeInv
<1>4. CASE Claude!ContentBlockDelta
  BY <1>1, <1>4, ClaudeGoesOn DEF ClaudeInv
<1>5. QED
  BY <1>1, <1>2, <1>3, <1>4 DEF Claude!Next

LEMMA ClaudeStep == ClaudeInv /\ [Next]_vars => ClaudeInv'
<1> SUFFICES ASSUME ClaudeInv, [Next]_vars, ~ClaudeAnswers, answering' = "claude" PROVE ClaudeInv'
  BY ClaudeAnswered DEF ClaudeInv
<1>1. UNCHANGED <<answering, claudeVars, sentVars>>
  BY DEF Next, vars, CodexAnswers, TextAnswers, GeminiAnswers, StreamIsRead, RequestIsMade
<1>2. ClaudeTypes /\ PhaseInv /\ IndexInv /\ ToldInv
  BY <1>1 DEF ClaudeInv
<1>3. ClaudeTypes' /\ PhaseInv' /\ IndexInv'
  BY <1>1, <1>2 DEF claudeVars, sentVars, ClaudeTypes, PhaseInv, IndexInv
<1>4. Claude!Text' = Claude!Text /\ Claude!ToolCalls' = Claude!ToolCalls
  BY <1>1, ClaudeSays DEF claudeVars
<1>5. ToldInv'
  BY <1>1, <1>2, <1>4 DEF sentVars, ToldInv
<1>6. QED
  BY <1>3, <1>5 DEF ClaudeInv

LEMMA ClaudeAlways == Spec => []ClaudeInv
BY ClaudeInitially, ClaudeStep, PTL DEF Spec

\* What it says of an answer of Claude.
LEMMA ClaudeTruths ==
  ASSUME ClaudeInv, answering = "claude"
  PROVE  Claude!StreamMatchesAggregate /\ Claude!NoReasonInvented
<1>1. ClaudeTypes /\ PhaseInv /\ ToldInv
  BY DEF ClaudeInv
<1>2. sentTools \in Seq(ClaudeCalls) /\ Len(Claude!ToolCalls) = Len(sentTools)
  BY <1>1 DEF ClaudeTypes, ToldInv
<1>3. ASSUME NEW n \in 1..Len(sentTools)
      PROVE  [sentTools[n] EXCEPT !.args = Claude!OrObject(@)] = Claude!ToolCalls[n]
  <2>1. sentTools[n] \in ClaudeCalls
    BY <1>2
  <2>2. [sentTools[n] EXCEPT !.args = Claude!OrObject(sentTools[n].args)]
          = [id |-> sentTools[n].id, args |-> Claude!OrObject(sentTools[n].args)]
    BY <2>1, OtherArgs DEF ClaudeCalls
  <2>3. QED
    BY <1>1, <2>2 DEF ToldInv
<1>4. phase = "stopped" /\ stopReason # "" => sentFinish = Claude!FinishOf(stopReason)
  BY <1>1 DEF PhaseInv
<1>5. Claude!StreamMatchesAggregate
  BY <1>1, <1>2, <1>3, <1>4 DEF ToldInv, Claude!StreamMatchesAggregate, Claude!AddUpTo
<1>6. Claude!NoReasonInvented
  BY <1>1 DEF ClaudeTypes, PhaseInv, Claude!NoReasonInvented, Claude!Phases
<1>7. QED
  BY <1>5, <1>6

-----------------------------------------------------------------------------
(* Of one sequence after another.                                          *)

LEMMA BothElements ==
  ASSUME NEW T, NEW s \in Seq(T), NEW t \in Seq(T)
  PROVE  /\ s \o t \in Seq(T) /\ Len(s \o t) = Len(s) + Len(t)
         /\ Len(s) \in Nat /\ Len(t) \in Nat
         /\ \A n \in 1..Len(s) : (s \o t)[n] = s[n]
         /\ \A n \in 1..Len(t) : (s \o t)[Len(s) + n] = t[n]
OBVIOUS

LEMMA SameAsBoth ==
  ASSUME NEW T, NEW s \in Seq(T), NEW t \in Seq(T), NEW u \in Seq(T),
         Len(u) = Len(s) + Len(t),
         \A n \in 1..Len(s) : u[n] = s[n],
         \A n \in 1..Len(t) : u[Len(s) + n] = t[n]
  PROVE  u = s \o t
<1>1. ASSUME NEW n \in 1..Len(u) PROVE u[n] = (s \o t)[n]
  <2>1. n \in 1..Len(s) \/ (n - Len(s) \in 1..Len(t) /\ n = Len(s) + (n - Len(s)))
    BY BothElements
  <2>2. QED
    BY <2>1, BothElements
<1>2. s \o t \in Seq(T) /\ Len(s \o t) = Len(u)
  BY BothElements
<1>3. QED
  BY <1>1, <1>2, SameSeq

LEMMA NoLength ==
  ASSUME NEW T, NEW s \in Seq(T)
  PROVE  Len(s) \in Nat /\ (Len(s) = 0 <=> s = <<>>)
OBVIOUS

LEMMA BoundedIsSeq ==
  ASSUME NEW S, NEW n \in Nat, NEW s \in SeqOf(S, n)
  PROVE  s \in Seq(S)
<1>1. PICK m \in 0..n : s \in [1..m -> S]
  BY DEF SeqOf
<1>2. m \in Nat
  OBVIOUS
<1>3. QED
  BY <1>1, <1>2

LEMMA BothLonger ==
  ASSUME NEW T, NEW s \in Seq(T), NEW t \in Seq(T)
  PROVE  Len(s) <= Len(s \o t) /\ (s \o t = <<>> => s = <<>> /\ t = <<>>)
<1>1. Len(s) \in Nat /\ Len(t) \in Nat /\ Len(s \o t) = Len(s) + Len(t)
  OBVIOUS
<1>2. s \o t = <<>> => Len(s) = 0 /\ Len(t) = 0
  BY <1>1
<1>3. QED
  BY <1>1, <1>2, NoLength

-----------------------------------------------------------------------------
(* Gemini.                                                                 *)

GeminiCalls == [id : Nat, args : Seq(Nat)]

GeminiTypes ==
  /\ parts        \in Seq(Gemini!Kinds)
  /\ finishReason \in Gemini!Finals \cup {""}
  /\ ended        \in BOOLEAN
  /\ finish       \in Reasons
  /\ sentText     \in Seq(Nat)
  /\ sentTools    \in Seq(GeminiCalls)

\* What was sent is what the parts make; the reason goes out at the end.
PartsInv ==
  /\ sentText  = Gemini!Text
  /\ sentTools = Gemini!ToolCalls
  /\ toolIndex = Len(sentTools)
  /\ sentRole = TRUE
  /\ sentDone = ended
  /\ sentFinish = IF ended THEN finish ELSE "none"

\* What finish is, whichever frame the reason came with and calls or not.
FinishInv ==
  /\ sentTools = <<>> => finish = Gemini!Finish
  /\ finishReason = "MAX_TOKENS" => finish = "length"
  /\ finishReason = "SAFETY"     => finish = "content_filter"

GeminiInv == answering = "gemini" => GeminiTypes /\ PartsInv /\ FinishInv

\* The numbers of the parts of a kind, by part; and the calls of some numbers.
Marks(before, ps, kind) == [n \in 1..Len(ps) |-> IF ps[n] = kind THEN <<before + n>> ELSE <<>>]
CallsOf(ns)             == [k \in 1..Len(ns) |-> Gemini!Call(ns[k])]

LEMMA NumbersAre ==
  \A before, ps, kind : Gemini!Numbers(before, ps, kind) = FlattenSeq(Marks(before, ps, kind))
<1>1. \A s : Gemini!FlattenSeq(s) = FlattenSeq(s)
  BY DEF FlattenSeq, Gemini!FlattenSeq
<1>2. QED
  BY <1>1 DEF Gemini!Numbers, Marks

LEMMA MarksType ==
  ASSUME NEW before \in Nat, NEW S, NEW ps \in Seq(S), NEW kind
  PROVE  /\ Marks(before, ps, kind) \in Seq(Seq(Nat))
         /\ Len(Marks(before, ps, kind)) = Len(ps)
         /\ FlattenSeq(Marks(before, ps, kind)) \in Seq(Nat)
<1>1. ASSUME NEW n \in 1..Len(ps)
      PROVE  (IF ps[n] = kind THEN <<before + n>> ELSE <<>>) \in Seq(Nat)
  <2>1. before + n \in Nat
    OBVIOUS
  <2>2. <<before + n>> \in Seq(Nat) /\ <<>> \in Seq(Nat)
    BY <2>1
  <2>3. QED
    BY <2>2
<1>2. Len(ps) \in Nat
  OBVIOUS
<1>3. Marks(before, ps, kind) \in Seq(Seq(Nat)) /\ Len(Marks(before, ps, kind)) = Len(ps)
  BY <1>1, <1>2 DEF Marks
<1>4. QED
  BY <1>3, FlattenType

\* Parts that come after some others have the numbers after theirs.
LEMMA NumbersOfBoth ==
  ASSUME NEW S, NEW ps \in Seq(S), NEW qs \in Seq(S), NEW kind
  PROVE  Gemini!Numbers(0, ps \o qs, kind)
           = Gemini!Numbers(0, ps, kind) \o Gemini!Numbers(Len(ps), qs, kind)
<1> DEFINE m == Marks(0, ps, kind)
           k == Marks(Len(ps), qs, kind)
           both == Marks(0, ps \o qs, kind)
<1>1. /\ ps \o qs \in Seq(S) /\ Len(ps \o qs) = Len(ps) + Len(qs)
      /\ Len(ps) \in Nat /\ Len(qs) \in Nat
      /\ \A n \in 1..Len(ps) : (ps \o qs)[n] = ps[n]
      /\ \A n \in 1..Len(qs) : (ps \o qs)[Len(ps) + n] = qs[n]
  BY BothElements
<1>2. /\ m \in Seq(Seq(Nat)) /\ Len(m) = Len(ps)
      /\ k \in Seq(Seq(Nat)) /\ Len(k) = Len(qs)
      /\ both \in Seq(Seq(Nat)) /\ Len(both) = Len(ps) + Len(qs)
  <2>1. 0 \in Nat
    OBVIOUS
  <2> HIDE DEF m, k, both
  <2>2. m \in Seq(Seq(Nat)) /\ Len(m) = Len(ps)
    BY <2>1, MarksType DEF m
  <2>3. k \in Seq(Seq(Nat)) /\ Len(k) = Len(qs)
    BY <1>1, MarksType DEF k
  <2>4. both \in Seq(Seq(Nat)) /\ Len(both) = Len(ps \o qs)
    BY <1>1, <2>1, MarksType DEF both
  <2>5. QED
    BY <1>1, <2>2, <2>3, <2>4
<1>3. ASSUME NEW n \in 1..Len(ps) PROVE both[n] = m[n]
  <2>1. n \in 1..Len(ps \o qs)
    BY <1>1
  <2>2. QED
    BY <1>1, <2>1 DEF Marks
<1>4. ASSUME NEW n \in 1..Len(qs) PROVE both[Len(ps) + n] = k[n]
  <2>1. Len(ps) + n \in 1..Len(ps \o qs) /\ 0 + (Len(ps) + n) = Len(ps) + n
    BY <1>1
  <2>2. QED
    BY <1>1, <2>1 DEF Marks
<1> HIDE DEF m, k, both
<1>5. both = m \o k
  <2> DEFINE T == Seq(Nat)
  <2>1. m \in Seq(T) /\ k \in Seq(T) /\ both \in Seq(T)
    BY <1>2
  <2> HIDE DEF T
  <2>2. /\ Len(both) = Len(m) + Len(k)
        /\ \A n \in 1..Len(m) : both[n] = m[n]
        /\ \A n \in 1..Len(k) : both[Len(m) + n] = k[n]
    BY <1>2, <1>3, <1>4
  <2>3. QED
    BY <2>1, <2>2, SameAsBoth
<1>6. FlattenSeq(m \o k) = FlattenSeq(m) \o FlattenSeq(k)
  BY <1>2, FlattenBoth
<1>7. QED
  BY <1>5, <1>6, NumbersAre DEF m, k, both

LEMMA CallsType ==
  ASSUME NEW ns \in Seq(Nat)
  PROVE  /\ CallsOf(ns) \in Seq(GeminiCalls) /\ Len(CallsOf(ns)) = Len(ns)
         /\ \A k \in 1..Len(ns) : CallsOf(ns)[k] = Gemini!Call(ns[k])
<1>1. ASSUME NEW n \in Nat PROVE Gemini!Call(n) \in GeminiCalls
  <2>1. <<n>> \in Seq(Nat)
    OBVIOUS
  <2>2. QED
    BY <2>1 DEF Gemini!Call, GeminiCalls
<1>2. Len(ns) \in Nat /\ \A k \in 1..Len(ns) : ns[k] \in Nat
  OBVIOUS
<1>3. \A k \in 1..Len(ns) : Gemini!Call(ns[k]) \in GeminiCalls
  BY <1>1, <1>2
<1>4. QED
  BY <1>2, <1>3 DEF CallsOf

LEMMA CallsOfBoth ==
  ASSUME NEW ns \in Seq(Nat), NEW ms \in Seq(Nat)
  PROVE  CallsOf(ns \o ms) = CallsOf(ns) \o CallsOf(ms)
<1> DEFINE c == CallsOf(ns)
           d == CallsOf(ms)
           both == CallsOf(ns \o ms)
<1>1. /\ ns \o ms \in Seq(Nat) /\ Len(ns \o ms) = Len(ns) + Len(ms)
      /\ Len(ns) \in Nat /\ Len(ms) \in Nat
      /\ \A n \in 1..Len(ns) : (ns \o ms)[n] = ns[n]
      /\ \A n \in 1..Len(ms) : (ns \o ms)[Len(ns) + n] = ms[n]
  BY BothElements
<1>2. /\ c \in Seq(GeminiCalls) /\ Len(c) = Len(ns)
      /\ \A k \in 1..Len(ns) : c[k] = Gemini!Call(ns[k])
  BY CallsType
<1>3. /\ d \in Seq(GeminiCalls) /\ Len(d) = Len(ms)
      /\ \A k \in 1..Len(ms) : d[k] = Gemini!Call(ms[k])
  BY CallsType
<1>4. /\ both \in Seq(GeminiCalls) /\ Len(both) = Len(ns) + Len(ms)
      /\ \A k \in 1..Len(ns) + Len(ms) : both[k] = Gemini!Call((ns \o ms)[k])
  BY <1>1, CallsType
<1> HIDE DEF c, d, both
<1>5. \A n \in 1..Len(ns) : both[n] = c[n]
  BY <1>1, <1>2, <1>4
<1>6. ASSUME NEW n \in 1..Len(ms) PROVE both[Len(ns) + n] = d[n]
  <2>1. Len(ns) + n \in 1..Len(ns) + Len(ms)
    BY <1>1
  <2>2. QED
    BY <1>1, <1>3, <1>4, <2>1
<1>7. both = c \o d
  <2>1. /\ Len(both) = Len(c) + Len(d)
        /\ \A n \in 1..Len(c) : both[n] = c[n]
        /\ \A n \in 1..Len(d) : both[Len(c) + n] = d[n]
    BY <1>2, <1>3, <1>4, <1>5, <1>6
  <2>2. QED
    BY <1>2, <1>3, <1>4, <2>1, SameAsBoth
<1>8. QED
  BY <1>7 DEF c, d, both

\* Calls from the next index on are added to those there are.
LEMMA CallsSent ==
  ASSUME NEW T, sentTools \in Seq(T), NEW calls \in Seq(T),
         Gemini!SendCalls(Len(sentTools), calls)
  PROVE  sentTools' = sentTools \o calls
<1> DEFINE n == Len(sentTools)
           m == Len(calls)
<1>1. n \in Nat /\ m \in Nat
  OBVIOUS
<1>2. Gemini!Max({n, n + m}) = n + m
  BY <1>1 DEF Gemini!Max
<1>3. sentTools' = [k \in 1..n + m |-> IF k \in n + 1..n + m THEN calls[k - n] ELSE sentTools[k]]
  BY <1>2 DEF Gemini!SendCalls
<1>4. ASSUME NEW k \in 1..n + m
      PROVE  (IF k \in n + 1..n + m THEN calls[k - n] ELSE sentTools[k]) \in T
  <2>1. k \in n + 1..n + m => k - n \in 1..m
    BY <1>1
  <2>2. k \notin n + 1..n + m => k \in 1..n
    BY <1>1
  <2>3. QED
    BY <2>1, <2>2
<1> HIDE DEF n, m
<1>5. sentTools' \in Seq(T) /\ Len(sentTools') = n + m
  BY <1>1, <1>3, <1>4
<1>6. \A k \in 1..n : sentTools'[k] = sentTools[k]
  BY <1>1, <1>3
<1>7. \A k \in 1..m : sentTools'[n + k] = calls[k]
  <2>1. ASSUME NEW k \in 1..m, NEW j, j = n + k PROVE sentTools'[j] = calls[k]
    <3>1. j \in 1..n + m /\ j \in n + 1..n + m /\ j - n = k
      BY <1>1, <2>1
    <3>2. sentTools'[j] = calls[j - n]
      BY <1>3, <3>1, Zenon
    <3>3. QED
      BY <3>1, <3>2
  <2>2. QED
    BY <2>1
<1>8. QED
  BY <1>5, <1>6, <1>7, SameAsBoth DEF n, m

LEMMA GeminiSays ==
  /\ Gemini!Text = FlattenSeq(Marks(0, parts, "text"))
  /\ Gemini!ToolCalls = CallsOf(FlattenSeq(Marks(0, parts, "functionCall")))
BY NumbersAre DEF Gemini!Text, Gemini!ToolCalls, CallsOf

LEMMA GeminiInitially == Init => GeminiInv
<1> SUFFICES ASSUME Init, answering = "gemini"
             PROVE  GeminiTypes /\ PartsInv /\ FinishInv
  BY DEF GeminiInv
<1>1. /\ parts = <<>> /\ finishReason = "" /\ ended = FALSE /\ toolIndex = 0 /\ finish = "stop"
      /\ sentRole = TRUE /\ sentText = <<>> /\ sentTools = <<>> /\ sentFinish = "none"
      /\ sentDone = FALSE
  BY DEF Init, SentNothing, Gemini!GeminiInit
<1>2. GeminiTypes
  <2>1. <<>> \in Seq(Gemini!Kinds) /\ <<>> \in Seq(Nat) /\ <<>> \in Seq(GeminiCalls)
    OBVIOUS
  <2>2. QED
    BY <1>1, <2>1 DEF GeminiTypes, Reasons
<1>3. Gemini!Text = <<>> /\ Gemini!ToolCalls = <<>>
  <2>1. Marks(0, parts, "text") = <<>> /\ Marks(0, parts, "functionCall") = <<>>
    <3>1. parts \in Seq(Gemini!Kinds) /\ Len(parts) = 0 /\ 0 \in Nat
      BY <1>1, <1>2 DEF GeminiTypes
    <3>2. \A kind : Marks(0, parts, kind) \in Seq(Seq(Nat)) /\ Len(Marks(0, parts, kind)) = 0
      BY <3>1, MarksType
    <3>3. \A s \in Seq(Seq(Nat)) : Len(s) = 0 => s = <<>>
      OBVIOUS
    <3>4. QED
      BY <3>2, <3>3
  <2>2. CallsOf(<<>>) = <<>>
    BY DEF CallsOf
  <2>3. QED
    BY <2>1, <2>2, GeminiSays, FlattenNothing
<1>4. PartsInv
  <2>1. Len(sentTools) = 0
    BY <1>1
  <2>2. QED
    BY <1>1, <1>3, <2>1 DEF PartsInv
<1>5. FinishInv
  BY <1>1, <1>3 DEF FinishInv, Gemini!Finish, Gemini!FinishMap
<1>6. QED
  BY <1>2, <1>4, <1>5

\* A frame.
LEMMA GeminiGoesOn ==
  ASSUME GeminiTypes, PartsInv, FinishInv,
         NEW ps \in Seq(Gemini!Kinds), NEW reason \in Gemini!Finals \cup {""},
         Gemini!Frame(ps, reason)
  PROVE  GeminiTypes' /\ PartsInv' /\ FinishInv' /\ Write
<1> DEFINE texts == Gemini!Numbers(Len(parts), ps, "text")
           ids   == Gemini!Numbers(Len(parts), ps, "functionCall")
           calls == CallsOf(ids)
<1>1. /\ ~ended /\ finishReason = ""
      /\ parts' = parts \o ps /\ finishReason' = reason
      /\ sentText' = sentText \o texts
      /\ Gemini!SendCalls(toolIndex, calls)
      /\ toolIndex' = toolIndex + Len(ids)
      /\ finish' = Gemini!FinishMap(reason, IF ids = <<>> THEN finish ELSE "tool_calls")
      /\ UNCHANGED <<ended, sentRole, sentFinish, sentDone>>
  BY DEF Gemini!Frame, CallsOf
<1>2. /\ parts \in Seq(Gemini!Kinds) /\ sentText \in Seq(Nat) /\ sentTools \in Seq(GeminiCalls)
      /\ finish \in Reasons /\ sentText = Gemini!Text /\ sentTools = Gemini!ToolCalls
      /\ toolIndex = Len(sentTools)
  BY DEF GeminiTypes, PartsInv
<1>3. texts \in Seq(Nat) /\ ids \in Seq(Nat)
  <2>1. Len(parts) \in Nat
    BY <1>2, BothElements
  <2>2. FlattenSeq(Marks(Len(parts), ps, "text")) \in Seq(Nat)
    BY <2>1, MarksType
  <2>3. FlattenSeq(Marks(Len(parts), ps, "functionCall")) \in Seq(Nat)
    BY <2>1, MarksType
  <2>4. QED
    BY <2>2, <2>3, NumbersAre
<1> HIDE DEF texts, ids
<1>4. calls \in Seq(GeminiCalls) /\ Len(calls) = Len(ids)
  BY <1>3, CallsType
<1>5. sentTools' = sentTools \o calls
  <2> HIDE DEF calls
  <2>1. QED
    BY <1>1, <1>2, <1>4, CallsSent
<1>6. Gemini!Text' = Gemini!Text \o texts
  <2>1. Gemini!Text' = Gemini!Numbers(0, parts', "text")
    BY DEF Gemini!Text
  <2>2. QED
    BY <1>1, <1>2, <2>1, NumbersOfBoth DEF Gemini!Text, texts
<1>7. Gemini!ToolCalls' = Gemini!ToolCalls \o calls
  <2> DEFINE before == Gemini!Numbers(0, parts, "functionCall")
  <2>1. Gemini!ToolCalls' = CallsOf(Gemini!Numbers(0, parts', "functionCall"))
        /\ Gemini!ToolCalls = CallsOf(before)
    BY DEF Gemini!ToolCalls, CallsOf
  <2>2. Gemini!Numbers(0, parts', "functionCall") = before \o ids
    BY <1>1, <1>2, NumbersOfBoth DEF ids
  <2>3. before \in Seq(Nat)
    <3>1. 0 \in Nat
      OBVIOUS
    <3>2. FlattenSeq(Marks(0, parts, "functionCall")) \in Seq(Nat)
      BY <1>2, <3>1, MarksType
    <3>3. QED
      BY <3>2, NumbersAre
  <2> HIDE DEF before
  <2>4. QED
    BY <1>3, <2>1, <2>2, <2>3, CallsOfBoth
<1> HIDE DEF calls
<1>8. /\ parts' \in Seq(Gemini!Kinds) /\ sentText' \in Seq(Nat) /\ sentTools' \in Seq(GeminiCalls)
      /\ Len(sentTools') = Len(sentTools) + Len(calls)
  <2>1. parts' \in Seq(Gemini!Kinds)
    BY <1>1, <1>2, BothElements
  <2>2. sentText' \in Seq(Nat)
    BY <1>1, <1>2, <1>3, BothElements
  <2>3. sentTools' \in Seq(GeminiCalls) /\ Len(sentTools') = Len(sentTools) + Len(calls)
    BY <1>2, <1>4, <1>5, BothElements
  <2>4. QED
    BY <2>1, <2>2, <2>3
<1>9. finish' \in Reasons
  BY <1>1, <1>2 DEF Gemini!FinishMap, Reasons
<1>10. GeminiTypes'
  BY <1>1, <1>8, <1>9 DEF GeminiTypes
<1>11. PartsInv'
  <2>1. sentText' = Gemini!Text' /\ sentTools' = Gemini!ToolCalls'
    BY <1>1, <1>2, <1>5, <1>6, <1>7
  <2>2. toolIndex' = Len(sentTools')
    BY <1>1, <1>2, <1>4, <1>8
  <2>3. QED
    BY <1>1, <2>1, <2>2 DEF PartsInv
<1>12. FinishInv'
  <2>1. sentTools' = <<>> => sentTools = <<>> /\ ids = <<>>
    <3>1. sentTools' = <<>> => sentTools = <<>> /\ calls = <<>>
      BY <1>2, <1>4, <1>5, BothLonger
    <3>2. calls = <<>> => ids = <<>>
      BY <1>3, <1>4, NoLength
    <3>3. QED
      BY <3>1, <3>2
  <2>2. sentTools = <<>> => finish = "stop"
    BY <1>1, <1>2 DEF FinishInv, Gemini!Finish, Gemini!FinishMap
  <2>3. sentTools' = <<>> => finish' = Gemini!FinishMap(reason, "stop")
    BY <1>1, <2>1, <2>2
  <2>4. Gemini!ToolCalls' = <<>> => Gemini!Finish' = Gemini!FinishMap(IF reason = "" THEN "STOP" ELSE reason, "stop")
    BY <1>1 DEF Gemini!Finish
  <2>5. sentTools' = <<>> => finish' = Gemini!Finish'
    BY <1>11, <2>3, <2>4 DEF PartsInv, Gemini!FinishMap
  <2>6. QED
    BY <1>1, <2>5 DEF FinishInv, Gemini!FinishMap
<1>13. Write
  <2>1. IsPrefix(sentText, sentText')
    BY <1>1, <1>2, <1>3, TextGrows
  <2>2. ToolsGrow
    <3>1. Len(sentTools) <= Len(sentTools') /\ \A n \in 1..Len(sentTools) : sentTools'[n] = sentTools[n]
      <4>1. \A n \in 1..Len(sentTools) : (sentTools \o calls)[n] = sentTools[n]
        BY <1>2, <1>4, BothElements
      <4>2. \A n \in 1..Len(sentTools) : sentTools'[n] = sentTools[n]
        BY <1>5, <4>1
      <4>3. Len(sentTools) <= Len(sentTools')
        BY <1>2, <1>4, <1>5, BothLonger
      <4>4. QED
        BY <4>2, <4>3
    <3>2. QED
      BY <1>2, <3>1, CallsGrow DEF GeminiCalls
  <2>3. QED
    BY <1>1, <2>1, <2>2 DEF Write, Grows, ToolsGrow, PartsInv
<1>14. QED
  BY <1>10, <1>11, <1>12, <1>13

LEMMA GeminiAnswered ==
  ASSUME GeminiInv, GeminiAnswers
  PROVE  GeminiInv' /\ Write
<1>1. GeminiTypes /\ PartsInv /\ FinishInv /\ Gemini!Next
  BY DEF GeminiInv, GeminiAnswers
<1>2. CASE \E ps \in Gemini!BoundedSeq(Gemini!Kinds, 2), reason \in Gemini!Finals \cup {""} :
             Gemini!Frame(ps, reason)
  <2>1. PICK ps \in Gemini!BoundedSeq(Gemini!Kinds, 2), reason \in Gemini!Finals \cup {""} :
               Gemini!Frame(ps, reason)
    BY <1>2
  <2>2. ps \in Seq(Gemini!Kinds)
    <3>1. ps \in SeqOf(Gemini!Kinds, 2)
      BY DEF SeqOf, Gemini!BoundedSeq, Gemini!SeqOf
    <3>2. QED
      BY <3>1, BoundedIsSeq
  <2>3. QED
    BY <1>1, <2>1, <2>2, GeminiGoesOn DEF GeminiInv
<1>3. CASE Gemini!End
  <2>1. /\ ~ended /\ ended' = TRUE /\ sentFinish' = finish /\ sentDone' = TRUE
        /\ UNCHANGED <<parts, finishReason, toolIndex, finish, sentRole, sentText, sentTools>>
    BY <1>3 DEF Gemini!End, Gemini!SendEnd
  <2>2. Gemini!Text' = Gemini!Text /\ Gemini!ToolCalls' = Gemini!ToolCalls /\ Gemini!Finish' = Gemini!Finish
    BY <2>1 DEF Gemini!Text, Gemini!ToolCalls, Gemini!Finish
  <2>3. GeminiTypes' /\ PartsInv' /\ FinishInv'
    BY <1>1, <2>1, <2>2 DEF GeminiTypes, PartsInv, FinishInv
  <2>4. Write
    BY <1>1, <2>1, QuietWrite DEF GeminiTypes, GeminiCalls, PartsInv
  <2>5. QED
    BY <2>3, <2>4 DEF GeminiInv
<1>4. QED
  BY <1>1, <1>2, <1>3 DEF Gemini!Next

LEMMA GeminiStep == GeminiInv /\ [Next]_vars => GeminiInv'
<1> SUFFICES ASSUME GeminiInv, [Next]_vars, ~GeminiAnswers, answering' = "gemini" PROVE GeminiInv'
  BY GeminiAnswered DEF GeminiInv
<1>1. UNCHANGED <<answering, geminiVars, sentVars>>
  BY DEF Next, vars, CodexAnswers, ClaudeAnswers, TextAnswers, StreamIsRead, RequestIsMade
<1>2. Gemini!Text' = Gemini!Text /\ Gemini!ToolCalls' = Gemini!ToolCalls /\ Gemini!Finish' = Gemini!Finish
  BY <1>1 DEF geminiVars, Gemini!Text, Gemini!ToolCalls, Gemini!Finish
<1>3. QED
  BY <1>1, <1>2 DEF GeminiInv, geminiVars, sentVars, GeminiTypes, PartsInv, FinishInv

LEMMA GeminiAlways == Spec => []GeminiInv
BY GeminiInitially, GeminiStep, PTL DEF Spec

\* What it says of an answer of Gemini.
LEMMA GeminiTruths ==
  ASSUME GeminiInv, answering = "gemini"
  PROVE  Gemini!StreamMatchesAggregate /\ Gemini!CutShortIsSaid
<1>1. GeminiTypes /\ PartsInv /\ FinishInv
  BY DEF GeminiInv
<1>2. ASSUME NEW n \in 1..Len(sentTools)
      PROVE  [sentTools[n] EXCEPT !.args = Gemini!OrObject(@)] = sentTools[n]
  <2> DEFINE calls == FlattenSeq(Marks(0, parts, "functionCall"))
  <2>1. calls \in Seq(Nat)
    <3>1. 0 \in Nat
      OBVIOUS
    <3>2. QED
      BY <1>1, <3>1, MarksType DEF GeminiTypes
  <2>2. sentTools = CallsOf(calls)
    BY <1>1, GeminiSays DEF PartsInv
  <2> HIDE DEF calls
  <2>3. sentTools[n] = Gemini!Call(calls[n])
    BY <2>1, <2>2, CallsType
  <2>4. Gemini!OrObject(<<calls[n]>>) = <<calls[n]>>
    BY DEF Gemini!OrObject
  <2>5. [sentTools[n] EXCEPT !.args = <<calls[n]>>] = sentTools[n]
    BY <2>3 DEF Gemini!Call
  <2>6. sentTools[n].args = <<calls[n]>>
    BY <2>3 DEF Gemini!Call
  <2>7. QED
    BY <2>4, <2>5, <2>6
<1>3. Gemini!StreamMatchesAggregate
  BY <1>1, <1>2 DEF PartsInv, FinishInv, Gemini!StreamMatchesAggregate, Gemini!AddUpTo
<1>4. Gemini!CutShortIsSaid
  BY <1>1 DEF PartsInv, FinishInv, Gemini!CutShortIsSaid
<1>5. QED
  BY <1>3, <1>4

-----------------------------------------------------------------------------
(* Of every answer.                                                        *)

AnswerInv == CodexInv /\ ClaudeInv /\ GeminiInv /\ TextInv

LEMMA AnswersKeepTheirInv == Spec => []AnswerInv
BY CodexAlways, ClaudeAlways, GeminiAlways, TextAlways, PTL DEF AnswerInv

\* What the upstream said is whole, whatever Codex names its items and however
\* Grok and Cursor batch their text (codex/translate.go, grokweb, cursor).
THEOREM WholeAnswers == Spec => []AnswerWhole
<1>1. AnswerInv => AnswerWhole
  BY CodexTruths DEF AnswerInv, AnswerWhole, TextInv
<1>2. QED
  BY <1>1, AnswersKeepTheirInv, PTL

\* A streaming client and another one are told the same text and the same
\* calls, by each of the translators (codex, claude and gemini/translate.go).
THEOREM SameAnswerStreamed == Spec => []StreamMatchesAggregate
<1>1. AnswerInv => StreamMatchesAggregate
  BY CodexTruths, ClaudeTruths, GeminiTruths DEF AnswerInv, StreamMatchesAggregate
<1>2. QED
  BY <1>1, AnswersKeepTheirInv, PTL

\* The finish_reason fits what the upstream did: what was cut short is not called
\* complete, and no reason is made up (codex, claude and gemini/translate.go).
THEOREM ReasonsFit == Spec => []ReasonFits
<1>1. AnswerInv => ReasonFits
  BY CodexTruths, ClaudeTruths, GeminiTruths DEF AnswerInv, ReasonFits
<1>2. QED
  BY <1>1, AnswersKeepTheirInv, PTL

\* Every translator implements the promise of ChatChunks: whatever the upstream
\* does, what is written is the legal prefix of one answer.
THEOREM PromiseKept == Spec => ChunkPromise
<1>1. Init => \E role \in BOOLEAN : SentNothing(role)
  <2>1. Init => SentNothing(answering # "claude")
    BY DEF Init
  <2>2. (answering # "claude") \in BOOLEAN
    OBVIOUS
  <2>3. QED
    BY <2>1, <2>2
<1>2. AnswerInv /\ AnswerInv' /\ [Next]_vars => [Write]_sentVars
  <2> SUFFICES ASSUME AnswerInv, AnswerInv', [Next]_vars PROVE [Write]_sentVars
    OBVIOUS
  <2>1. CASE CodexAnswers
    BY <2>1, CodexWrites DEF AnswerInv
  <2>2. CASE ClaudeAnswers
    BY <2>2, ClaudeAnswered DEF AnswerInv
  <2>3. CASE GeminiAnswers
    BY <2>3, GeminiAnswered DEF AnswerInv
  <2>4. CASE TextAnswers
    BY <2>4, TextAnswered DEF AnswerInv
  <2>5. CASE StreamIsRead \/ RequestIsMade
    BY <2>5 DEF StreamIsRead, RequestIsMade
  <2>6. CASE UNCHANGED vars
    BY <2>6 DEF vars
  <2>7. QED
    BY <2>1, <2>2, <2>3, <2>4, <2>5, <2>6 DEF Next
<1>3. QED
  BY <1>1, <1>2, AnswersKeepTheirInv, PTL DEF Spec, ChunkPromise, Promise
=============================================================================
