--------------------------- MODULE SelectionProofs ---------------------------
(***************************************************************************)
(* What Selected does with the sequences it is given, by induction on      *)
(* their length.                                                           *)
(***************************************************************************)
EXTENDS Selection, SequenceTheorems, WellFoundedInduction, TLAPS

\* Induction on the natural numbers, for a set instead of a predicate.
LEMMA Induction ==
  ASSUME NEW S, 0 \in S, \A n \in Nat : n \in S => n + 1 \in S
  PROVE  Nat \subseteq S
<1> DEFINE R == OpToRel(<, Nat)
           T == Nat \ S
<1>1. IsWellFoundedOn(R, Nat)
  BY NatLessThanWellFounded
<1>2. \A x, y \in Nat : <<y, x>> \in R <=> y < x
  BY DEF OpToRel
<1> HIDE DEF R
<1> SUFFICES ASSUME T # {} PROVE FALSE
  OBVIOUS
<1>3. PICK x \in T : \A y \in T : ~ (<<y, x>> \in R)
  BY <1>1, WFMin, T \subseteq Nat
<1>4. x \in Nat /\ x # 0 /\ x - 1 \in Nat /\ x - 1 < x
  OBVIOUS
<1>5. x - 1 \in S
  BY <1>2, <1>3, <1>4
<1> QED
  BY <1>4, <1>5

\* f is what Selected unfolds to, up to n.
Selects(f, s, keep, n) ==
  f = [i \in 0..n |-> IF i = 0 THEN <<>>
                      ELSE IF s[i] \in keep THEN Append(f[i - 1], s[i])
                      ELSE f[i - 1]]

LEMMA SelectsExists ==
  ASSUME NEW s, NEW keep
  PROVE  \A n \in Nat : \E f : Selects(f, s, keep, n)
<1> DEFINE S == {n \in Nat : \E f : Selects(f, s, keep, n)}
<1>1. 0 \in S
  <2>1. Selects([i \in 0..0 |-> <<>>], s, keep, 0)
    BY DEF Selects
  <2> QED
    BY <2>1
<1>2. ASSUME NEW n \in Nat, n \in S PROVE n + 1 \in S
  <2>1. PICK f : Selects(f, s, keep, n)
    BY <1>2
  <2> DEFINE g == [i \in 0..(n + 1) |->
                     IF i <= n THEN f[i]
                     ELSE IF s[i] \in keep THEN Append(f[i - 1], s[i]) ELSE f[i - 1]]
  <2>2. \A i \in 0..n : g[i] = f[i]
    OBVIOUS
  <2>3. ASSUME NEW i \in 0..(n + 1)
        PROVE  g[i] = IF i = 0 THEN <<>>
                      ELSE IF s[i] \in keep THEN Append(g[i - 1], s[i]) ELSE g[i - 1]
    <3>1. CASE i = 0
      BY <2>1, <2>2, <3>1 DEF Selects
    <3>2. CASE i \in 1..n
      <4>1. i - 1 \in 0..n /\ i \in 0..n
        BY <3>2
      <4> QED
        BY <2>1, <2>2, <3>2, <4>1 DEF Selects
    <3>3. CASE i = n + 1
      <4>1. i - 1 \in 0..n /\ ~(i <= n) /\ i # 0
        BY <3>3
      <4> QED
        BY <2>2, <4>1
    <3> QED
      BY <3>1, <3>2, <3>3
  <2>4. Selects(g, s, keep, n + 1)
    BY <2>3 DEF Selects
  <2> QED
    BY <2>4
<1> HIDE DEF S
<1>3. Nat \subseteq S
  BY <1>1, <1>2, Induction
<1> QED
  BY <1>3 DEF S

\* Sequences that agree select alike.
LEMMA SelectsAgree ==
  ASSUME NEW s, NEW t, NEW keep, NEW m \in Nat, NEW n \in Nat, m <= n, NEW f, NEW g,
         Selects(f, s, keep, m), Selects(g, t, keep, n), \A i \in 1..m : s[i] = t[i]
  PROVE  f[m] = g[m]
<1> DEFINE S == {k \in Nat : k <= m => f[k] = g[k]}
<1>1. 0 \in S
  BY DEF Selects
<1>2. ASSUME NEW k \in Nat, k \in S PROVE k + 1 \in S
  <2> SUFFICES ASSUME k + 1 <= m PROVE f[k + 1] = g[k + 1]
    OBVIOUS
  <2>1. /\ k + 1 \in 0..m /\ k + 1 \in 0..n /\ (k + 1) - 1 = k /\ k + 1 # 0 /\ k + 1 \in 1..m
        /\ f[k] = g[k]
    BY <1>2
  <2>2. f[k + 1] = IF s[k + 1] \in keep THEN Append(f[k], s[k + 1]) ELSE f[k]
    BY <2>1 DEF Selects
  <2>3. g[k + 1] = IF t[k + 1] \in keep THEN Append(g[k], t[k + 1]) ELSE g[k]
    BY <2>1 DEF Selects
  <2> QED
    BY <2>1, <2>2, <2>3
<1> HIDE DEF S
<1>3. Nat \subseteq S
  BY <1>1, <1>2, Induction
<1> QED
  BY <1>3 DEF S

\* Selected as the value of such an f.
LEMMA SelectedDef ==
  ASSUME NEW s, NEW keep, Len(s) \in Nat
  PROVE  \E f : Selects(f, s, keep, Len(s)) /\ Selected(s, keep) = f[Len(s)]
<1> DEFINE f == CHOOSE f : Selects(f, s, keep, Len(s))
<1>1. Selects(f, s, keep, Len(s))
  BY SelectsExists
<1>2. Selected(s, keep) = f[Len(s)]
  BY DEF Selected, Selects
<1> QED
  BY <1>1, <1>2

LEMMA SelectedEmpty == ASSUME NEW keep PROVE Selected(<<>>, keep) = <<>>
<1>1. PICK f : Selects(f, <<>>, keep, 0) /\ Selected(<<>>, keep) = f[0]
  BY SelectedDef, Len(<<>>) = 0
<1> QED
  BY <1>1 DEF Selects

LEMMA SelectedAppend ==
  ASSUME NEW Any, NEW s \in Seq(Any), NEW e \in Any, NEW keep
  PROVE  Selected(Append(s, e), keep) =
           IF e \in keep THEN Append(Selected(s, keep), e) ELSE Selected(s, keep)
<1> DEFINE t == Append(s, e)  n == Len(s)
<1>1. n \in Nat /\ Len(t) = n + 1 /\ t[n + 1] = e /\ \A i \in 1..n : s[i] = t[i]
  OBVIOUS
<1>2. PICK f : Selects(f, s, keep, n) /\ Selected(s, keep) = f[n]
  BY <1>1, SelectedDef
<1> HIDE DEF t, n
<1>3. PICK g : Selects(g, t, keep, n + 1) /\ Selected(t, keep) = g[n + 1]
  BY <1>1, SelectedDef
<1>4. f[n] = g[n]
  BY <1>1, <1>2, <1>3, SelectsAgree
<1>5. g[n + 1] = IF t[n + 1] \in keep THEN Append(g[n], t[n + 1]) ELSE g[n]
  <2>1. n + 1 \in 0..(n + 1) /\ n + 1 # 0 /\ (n + 1) - 1 = n
    BY <1>1
  <2> QED
    BY <1>3, <2>1 DEF Selects
<1> QED
  BY <1>1, <1>2, <1>3, <1>4, <1>5 DEF t

-----------------------------------------------------------------------------
\* Induction on sequences, again for a set.
LEMMA SeqInduction ==
  ASSUME NEW Any, NEW S, <<>> \in S,
         \A s \in Seq(Any), e \in Any : s \in S => Append(s, e) \in S
  PROVE  Seq(Any) \subseteq S
<1> DEFINE N == {n \in Nat : \A s \in Seq(Any) : Len(s) = n => s \in S}
<1>1. 0 \in N
  <2>1. \A s \in Seq(Any) : Len(s) = 0 => s = <<>>
    OBVIOUS
  <2> QED
    BY <2>1
<1>2. ASSUME NEW n \in Nat, n \in N PROVE n + 1 \in N
  <2> SUFFICES ASSUME NEW s \in Seq(Any), Len(s) = n + 1 PROVE s \in S
    OBVIOUS
  <2>1. s # <<>>
    OBVIOUS
  <2>2. PICK t \in Seq(Any), e \in Any : s = Append(t, e)
    BY <2>1, SequenceEmptyOrAppend
  <2>3. Len(t) = n
    BY <2>2
  <2> QED
    BY <1>2, <2>2, <2>3
<1> HIDE DEF N
<1>3. Nat \subseteq N
  BY <1>1, <1>2, Induction
<1> QED
  BY <1>3 DEF N

\* What is selected was in the sequence and is in the set, and is no longer.
LEMMA SelectedType ==
  ASSUME NEW Any, NEW s \in Seq(Any), NEW keep
  PROVE  Selected(s, keep) \in Seq(Any \cap keep) /\ Len(Selected(s, keep)) <= Len(s)
<1> DEFINE S == {t \in Seq(Any) : /\ Selected(t, keep) \in Seq(Any \cap keep)
                                  /\ Len(Selected(t, keep)) <= Len(t)}
<1>1. <<>> \in S
  <2>1. <<>> \in Seq(Any) /\ <<>> \in Seq(Any \cap keep) /\ Len(<<>>) <= Len(<<>>)
    OBVIOUS
  <2> QED
    BY <2>1, SelectedEmpty
<1>2. ASSUME NEW t \in Seq(Any), NEW e \in Any, t \in S PROVE Append(t, e) \in S
  <2> DEFINE u == Selected(t, keep)
  <2>1. u \in Seq(Any \cap keep) /\ Len(u) <= Len(t)
    BY <1>2
  <2>2. Selected(Append(t, e), keep) = IF e \in keep THEN Append(u, e) ELSE u
    BY SelectedAppend
  <2> HIDE DEF u
  <2>3. Append(t, e) \in Seq(Any) /\ Len(Append(t, e)) = Len(t) + 1 /\ Len(t) \in Nat
    OBVIOUS
  <2>4. Len(u) \in Nat
    BY <2>1
  <2>5. e \in keep => Append(u, e) \in Seq(Any \cap keep) /\ Len(Append(u, e)) = Len(u) + 1
    BY <2>1
  <2>6. Selected(Append(t, e), keep) \in Seq(Any \cap keep)
    BY <2>1, <2>2, <2>5
  <2>7. Len(Selected(Append(t, e), keep)) <= Len(t) + 1
    BY <2>1, <2>2, <2>3, <2>4, <2>5
  <2> QED
    BY <2>3, <2>6, <2>7
<1> HIDE DEF S
<1>3. Seq(Any) \subseteq S
  BY <1>1, <1>2, SeqInduction
<1> QED
  BY <1>3 DEF S

\* Selecting from a sequence in two parts.
LEMMA SelectedConcat ==
  ASSUME NEW Any, NEW s \in Seq(Any), NEW t \in Seq(Any), NEW keep
  PROVE  Selected(s \o t, keep) = Selected(s, keep) \o Selected(t, keep)
<1> DEFINE p == Selected(s, keep)
           S == {u \in Seq(Any) : Selected(s \o u, keep) = p \o Selected(u, keep)}
<1>0. p \in Seq(Any \cap keep)
  BY SelectedType
<1> HIDE DEF p
<1>1. <<>> \in S
  <2>1. s \o <<>> = s /\ p \o <<>> = p /\ <<>> \in Seq(Any)
    BY <1>0
  <2> QED
    BY <2>1, SelectedEmpty DEF p
<1>2. ASSUME NEW u \in Seq(Any), NEW e \in Any, u \in S PROVE Append(u, e) \in S
  <2> DEFINE q == Selected(u, keep)
  <2>1. q \in Seq(Any \cap keep) /\ Selected(s \o u, keep) = p \o q
    BY <1>2, SelectedType
  <2>2. s \o Append(u, e) = Append(s \o u, e) /\ s \o u \in Seq(Any)
    OBVIOUS
  <2> DEFINE v == s \o u
  <2> HIDE DEF v
  <2>3. Selected(s \o Append(u, e), keep) = IF e \in keep THEN Append(p \o q, e) ELSE p \o q
    <3>1. Selected(Append(v, e), keep) =
            IF e \in keep THEN Append(Selected(v, keep), e) ELSE Selected(v, keep)
      BY <2>2, SelectedAppend DEF v
    <3> QED
      BY <2>1, <2>2, <3>1 DEF v
  <2>4. Selected(Append(u, e), keep) = IF e \in keep THEN Append(q, e) ELSE q
    BY SelectedAppend
  <2> HIDE DEF q
  <2>5. e \in keep => p \o Append(q, e) = Append(p \o q, e)
    BY <1>0, <2>1
  <2>6. Append(u, e) \in Seq(Any)
    OBVIOUS
  <2> QED
    BY <2>3, <2>4, <2>5, <2>6
<1> HIDE DEF S
<1>3. Seq(Any) \subseteq S
  BY <1>1, <1>2, SeqInduction
<1> QED
  BY <1>3 DEF S, p

\* Everything is selected, or nothing.
LEMMA SelectedAll ==
  ASSUME NEW Any, NEW s \in Seq(Any), NEW keep, \A i \in 1..Len(s) : s[i] \in keep
  PROVE  Selected(s, keep) = s
<1> DEFINE S == {t \in Seq(Any) : (\A i \in 1..Len(t) : t[i] \in keep) => Selected(t, keep) = t}
<1>1. <<>> \in S
  BY SelectedEmpty
<1>2. ASSUME NEW t \in Seq(Any), NEW e \in Any, t \in S PROVE Append(t, e) \in S
  <2>1. Selected(Append(t, e), keep) =
          IF e \in keep THEN Append(Selected(t, keep), e) ELSE Selected(t, keep)
    BY SelectedAppend
  <2>2. ASSUME \A i \in 1..Len(Append(t, e)) : Append(t, e)[i] \in keep
        PROVE  e \in keep /\ \A i \in 1..Len(t) : t[i] \in keep
    <3>1. /\ Len(Append(t, e)) = Len(t) + 1 /\ Len(t) \in Nat
          /\ Append(t, e)[Len(t) + 1] = e /\ \A i \in 1..Len(t) : Append(t, e)[i] = t[i]
      OBVIOUS
    <3> QED
      BY <2>2, <3>1
  <2>3. Append(t, e) \in Seq(Any)
    OBVIOUS
  <2> QED
    BY <1>2, <2>1, <2>2, <2>3
<1> HIDE DEF S
<1>3. Seq(Any) \subseteq S
  BY <1>1, <1>2, SeqInduction
<1> QED
  BY <1>3 DEF S

LEMMA SelectedNone ==
  ASSUME NEW Any, NEW s \in Seq(Any), NEW keep, \A i \in 1..Len(s) : s[i] \notin keep
  PROVE  Selected(s, keep) = <<>>
<1> DEFINE S == {t \in Seq(Any) : (\A i \in 1..Len(t) : t[i] \notin keep) => Selected(t, keep) = <<>>}
<1>1. <<>> \in S
  BY SelectedEmpty
<1>2. ASSUME NEW t \in Seq(Any), NEW e \in Any, t \in S PROVE Append(t, e) \in S
  <2>1. Selected(Append(t, e), keep) =
          IF e \in keep THEN Append(Selected(t, keep), e) ELSE Selected(t, keep)
    BY SelectedAppend
  <2>2. ASSUME \A i \in 1..Len(Append(t, e)) : Append(t, e)[i] \notin keep
        PROVE  e \notin keep /\ \A i \in 1..Len(t) : t[i] \notin keep
    <3>1. /\ Len(Append(t, e)) = Len(t) + 1 /\ Len(t) \in Nat
          /\ Append(t, e)[Len(t) + 1] = e /\ \A i \in 1..Len(t) : Append(t, e)[i] = t[i]
      OBVIOUS
    <3> QED
      BY <2>2, <3>1
  <2>3. Append(t, e) \in Seq(Any)
    OBVIOUS
  <2> QED
    BY <1>2, <2>1, <2>2, <2>3
<1> HIDE DEF S
<1>3. Seq(Any) \subseteq S
  BY <1>1, <1>2, SeqInduction
<1> QED
  BY <1>3 DEF S
===============================================================================
