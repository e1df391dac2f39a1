------------------------------- MODULE FoldLemmas -------------------------------
(***************************************************************************)
(* FoldLeft of any operator, taken apart: its value is the last of a trace *)
(* that starts at the base and takes one element of the sequence a step.   *)
(* A proof about a fold names an instance of this module for its operator. *)
(***************************************************************************)
EXTENDS SequenceLemmas

CONSTANT Op(_, _)

Fold(b, s) == FoldLeft(Op, b, s)

\* What the recursion of a fold over the sets of positions of s says.
FoldEquation(g, b, s) ==
  g = [S \in SUBSET DOMAIN s |-> IF S = {} THEN b ELSE Op(g[S \ {Max(S)}], s[Max(S)])]

LEMMA FoldIs == \A b, s : Fold(b, s) = (CHOOSE g : FoldEquation(g, b, s))[DOMAIN s]
  BY DEF Fold, FoldLeft, MapThenFoldSet, FoldEquation

\* There is a function that solves the equations: one that is right for sets of
\* n positions gives one for sets of n + 1.
LEMMA FoldExists ==
  ASSUME NEW b, NEW s, NEW len \in Nat, DOMAIN s = 1..len
  PROVE  \E g : FoldEquation(g, b, s)
<1> DEFINE Body(g) == [S \in SUBSET DOMAIN s |->
                         IF S = {} THEN b ELSE Op(g[S \ {Max(S)}], s[Max(S)])]
           UpTo(n, g) == \A S \in SUBSET DOMAIN s : Cardinality(S) <= n => g[S] = Body(g)[S]
           Wrong == {n \in Nat : ~\E g : UpTo(n, g)}
<1>0. IsFiniteSet(DOMAIN s)
  BY FS_Interval
<1>1. \A S \in SUBSET DOMAIN s : /\ IsFiniteSet(S) /\ Cardinality(S) \in Nat
                                 /\ Cardinality(S) <= Cardinality(DOMAIN s)
  BY <1>0, FS_Subset, FS_CardinalityType
<1>2. 0 \notin Wrong
  <2>1. UpTo(0, [S \in SUBSET DOMAIN s |-> b])
    BY <1>1, FS_EmptySet
  <2> QED BY <2>1
<1>3. ASSUME NEW n \in Nat, n \notin Wrong PROVE n + 1 \notin Wrong
  <2>1. PICK g : UpTo(n, g)
    BY <1>3
  <2> DEFINE h == Body(g)
  <2>2. ASSUME NEW S \in SUBSET DOMAIN s, Cardinality(S) <= n + 1
        PROVE  h[S] = Body(h)[S]
    <3>1. CASE S = {}
      BY <3>1
    <3>2. CASE S # {}
      <4> DEFINE r == S \ {Max(S)}
      <4>1. r \in SUBSET DOMAIN s /\ Cardinality(r) <= n
        <5>1. Max(S) \in S
          BY <3>2, MaxOf
        <5>2. Cardinality(r) = Cardinality(S) - 1
          BY <1>1, <5>1, FS_RemoveElement
        <5> QED BY <1>1, <2>2, <5>2
      <4>2. g[r] = h[r]
        BY <2>1, <4>1
      <4> HIDE DEF h
      <4>3. h[S] = Op(g[r], s[Max(S)])
        BY <3>2 DEF h
      <4>4. Body(h)[S] = Op(h[r], s[Max(S)])
        BY <3>2
      <4> QED BY <4>2, <4>3, <4>4
    <3> QED BY <3>1, <3>2
  <2> QED BY <2>2
<1> HIDE DEF Body, UpTo
<1>4. Wrong = {}
  <2> SUFFICES ASSUME Wrong # {} PROVE FALSE
    OBVIOUS
  <2>1. PICK n \in Wrong : \A m \in Wrong : n <= m
    <3>1. Wrong \in SUBSET Nat
      OBVIOUS
    <3> QED BY <3>1, LeastOf
  <2>2. n # 0 /\ n \in Nat
    BY <1>2
  <2>3. n - 1 \in Nat /\ n - 1 \notin Wrong
    BY <2>1, <2>2
  <2> QED BY <1>3, <2>1, <2>3
<1>5. PICK g : UpTo(Cardinality(DOMAIN s), g)
  <2>1. Cardinality(DOMAIN s) \in Nat
    BY <1>1
  <2> QED BY <1>4, <2>1
<1>6. Body(g) = Body(Body(g))
  <2>1. \A S \in SUBSET DOMAIN s : g[S] = Body(g)[S]
    BY <1>1, <1>5 DEF UpTo
  <2>2. \A S \in SUBSET DOMAIN s : S \ {Max(S)} \in SUBSET DOMAIN s
    OBVIOUS
  <2> QED BY <2>1, <2>2 DEF Body
<1> QED BY <1>6 DEF Body, FoldEquation

IsTrace(t, b, s, len) ==
  /\ t[0] = b
  /\ \A k \in 1..len : t[k] = Op(t[k - 1], s[k])
  /\ Fold(b, s) = t[len]

\* The fold, one element after the other.
LEMMA FoldTrace ==
  ASSUME NEW b, NEW s, NEW len \in Nat, DOMAIN s = 1..len
  PROVE  \E t : IsTrace(t, b, s, len)
<1>1. PICK g : FoldEquation(g, b, s) /\ Fold(b, s) = g[1..len]
  <2>1. \E g : FoldEquation(g, b, s)
    BY FoldExists
  <2> QED BY <2>1, FoldIs
<1> DEFINE t == [k \in 0..len |-> g[1..k]]
<1>2. t[0] = b
  <2>1. 1..0 = {} /\ {} \in SUBSET DOMAIN s
    OBVIOUS
  <2> QED BY <1>1, <2>1 DEF FoldEquation
<1>3. ASSUME NEW k \in 1..len PROVE t[k] = Op(t[k - 1], s[k])
  <2>1. /\ 1..k \in SUBSET (1..len) /\ k \in 1..k /\ k \in Nat
        /\ k - 1 \in 0..len /\ k \in 0..len
    <3>1. \A i \in 1..k : i \in 1..len
      OBVIOUS
    <3> HIDE DEF t
    <3> QED BY <3>1
  <2>2. Max(1..k) = k
    <3>1. Max(1..k) \in 1..k /\ \A y \in 1..k : y <= Max(1..k)
      BY <2>1, MaxOf
    <3> HIDE DEF t
    <3> QED BY <2>1, <3>1
  <2>3. (1..k) \ {k} = 1..k - 1
    OBVIOUS
  <2>4. g[1..k] = Op(g[1..k - 1], s[k])
    BY <1>1, <2>1, <2>2, <2>3 DEF FoldEquation
  <2> QED BY <2>1, <2>4
<1>4. Fold(b, s) = t[len]
  BY <1>1
<1>5. IsTrace(t, b, s, len)
  BY <1>2, <1>3, <1>4 DEF IsTrace
<1> QED BY <1>5

\* What every step keeps, to the end.
LEMMA FoldKeeps ==
  ASSUME NEW b, NEW s, NEW len \in Nat, DOMAIN s = 1..len,
         NEW A, b \in A[0],
         \A k \in 1..len : \A a \in A[k - 1] : Op(a, s[k]) \in A[k]
  PROVE  Fold(b, s) \in A[len]
<1>1. PICK t : IsTrace(t, b, s, len)
  BY FoldTrace
<1> DEFINE Wrong == {k \in 0..len : t[k] \notin A[k]}
<1>2. ASSUME NEW k \in Wrong PROVE \E m \in Wrong : m < k
  <2>1. k # 0 /\ k \in 1..len /\ k - 1 \in 0..len /\ k - 1 < k
    BY <1>1 DEF IsTrace
  <2>2. k - 1 \in Wrong
    BY <1>1, <2>1 DEF IsTrace
  <2> QED BY <2>1, <2>2
<1>3. Wrong = {}
  <2>1. Wrong \in SUBSET Nat /\ \A k \in Wrong : \E m \in Wrong : m < k
    BY <1>2
  <2> HIDE DEF Wrong
  <2> QED BY <2>1, NoneLeast
<1> QED BY <1>1, <1>3 DEF IsTrace

\* There is no other trace.
LEMMA FoldEnd ==
  ASSUME NEW b, NEW s, NEW len \in Nat, DOMAIN s = 1..len,
         NEW x, x[0] = b, \A k \in 1..len : x[k] = Op(x[k - 1], s[k])
  PROVE  Fold(b, s) = x[len]
<1>1. PICK t : IsTrace(t, b, s, len)
  BY FoldTrace
<1> DEFINE Wrong == {k \in 0..len : t[k] # x[k]}
<1>2. ASSUME NEW k \in Wrong PROVE \E m \in Wrong : m < k
  <2>1. k # 0 /\ k \in 1..len /\ k - 1 \in 0..len /\ k - 1 < k
    BY <1>1 DEF IsTrace
  <2>2. k - 1 \in Wrong
    BY <1>1, <2>1 DEF IsTrace
  <2> QED BY <2>1, <2>2
<1>3. Wrong = {}
  <2>1. Wrong \in SUBSET Nat /\ \A k \in Wrong : \E m \in Wrong : m < k
    BY <1>2
  <2> HIDE DEF Wrong
  <2> QED BY <2>1, NoneLeast
<1> QED BY <1>1, <1>3 DEF IsTrace

\* No element and one.
LEMMA FoldOne == \A b, x : Fold(b, <<>>) = b /\ Fold(b, <<x>>) = Op(b, x)
<1> SUFFICES ASSUME NEW b, NEW x PROVE Fold(b, <<>>) = b /\ Fold(b, <<x>>) = Op(b, x)
  OBVIOUS
<1>1. Fold(b, <<>>) = b
  <2>1. DOMAIN <<>> = 1..0
    OBVIOUS
  <2>2. PICK t : IsTrace(t, b, <<>>, 0)
    BY <2>1, FoldTrace
  <2> QED BY <2>2 DEF IsTrace
<1>2. Fold(b, <<x>>) = Op(b, x)
  <2> DEFINE s == <<x>>
  <2>1. DOMAIN s = 1..1 /\ s[1] = x
    OBVIOUS
  <2> HIDE DEF s
  <2>2. PICK t : IsTrace(t, b, s, 1)
    BY <2>1, FoldTrace
  <2>3. 1 \in 1..1 /\ 1 - 1 = 0
    OBVIOUS
  <2>4. t[1] = Op(t[0], s[1]) /\ t[0] = b /\ Fold(b, s) = t[1]
    BY <2>2, <2>3 DEF IsTrace
  <2> QED BY <2>1, <2>4 DEF s
<1> QED BY <1>1, <1>2

\* One sequence after the other.
LEMMA FoldConcat ==
  ASSUME NEW S, NEW s \in Seq(S), NEW r \in Seq(S), NEW b
  PROVE  Fold(b, s \o r) = Fold(Fold(b, s), r)
<1> DEFINE m == Len(s)
           n == Len(r)
           c == s \o r
<1>1. /\ m \in Nat /\ n \in Nat /\ DOMAIN s = 1..m /\ DOMAIN r = 1..n /\ DOMAIN c = 1..m + n
      /\ \A k \in 1..m : c[k] = s[k]
      /\ \A k \in 1..n : c[m + k] = r[k]
  OBVIOUS
<1> HIDE DEF m, n, c
<1>2. PICK t : IsTrace(t, b, s, m)
  BY <1>1, FoldTrace
<1>3. PICK u : IsTrace(u, t[m], r, n)
  BY <1>1, FoldTrace
<1> DEFINE x == [k \in 0..m + n |-> IF k <= m THEN t[k] ELSE u[k - m]]
<1>4. x[0] = b
  BY <1>1, <1>2 DEF IsTrace
<1>5. ASSUME NEW k \in 1..m + n PROVE x[k] = Op(x[k - 1], c[k])
  <2>1. CASE k <= m
    <3>1. k \in 1..m /\ x[k] = t[k] /\ x[k - 1] = t[k - 1]
      BY <1>1, <2>1
    <3> QED BY <1>1, <1>2, <3>1 DEF IsTrace
  <2>2. CASE k = m + 1
    <3>1. 1 \in 1..n /\ 1 - 1 = 0 /\ c[m + 1] = r[1]
      BY <1>1, <2>2
    <3>2. x[k] = u[1] /\ x[k - 1] = t[m]
      BY <1>1, <2>2
    <3>3. u[1] = Op(u[0], r[1]) /\ u[0] = t[m]
      BY <1>3, <3>1 DEF IsTrace
    <3> QED BY <2>2, <3>1, <3>2, <3>3
  <2>3. CASE k > m + 1
    <3> DEFINE i == k - m
    <3>1. i \in 1..n /\ i - 1 = k - 1 - m /\ c[m + i] = r[i] /\ m + i = k
      BY <1>1, <2>3
    <3>2. x[k] = u[i] /\ x[k - 1] = u[i - 1]
      BY <1>1, <2>3
    <3> HIDE DEF i, x
    <3>3. u[i] = Op(u[i - 1], r[i])
      BY <1>3, <3>1 DEF IsTrace
    <3> QED BY <3>1, <3>2, <3>3
  <2> QED BY <1>1, <2>1, <2>2, <2>3
<1> DEFINE len == m + n
<1>6. len \in Nat /\ len \in 0..m + n /\ x[len] = u[n]
  <2>1. CASE n = 0
    BY <1>1, <1>3, <2>1, <1>2 DEF IsTrace
  <2>2. CASE n # 0
    <3>1. ~(len <= m) /\ len - m = n /\ len \in 0..m + n /\ len \in Nat
      BY <1>1, <2>2
    <3> HIDE DEF len
    <3> QED BY <3>1
  <2> QED BY <2>1, <2>2
<1>7. x[0] = b /\ DOMAIN c = 1..len /\ \A k \in 1..len : x[k] = Op(x[k - 1], c[k])
  BY <1>1, <1>4, <1>5
<1> HIDE DEF x, len
<1>8. Fold(b, c) = x[len]
  BY <1>6, <1>7, FoldEnd
<1> QED BY <1>2, <1>3, <1>6, <1>8 DEF IsTrace, c
=================================================================================
