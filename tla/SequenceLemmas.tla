----------------------------- MODULE SequenceLemmas -----------------------------
(***************************************************************************)
(* Facts the proofs share: stacks (sequences from which only the end is    *)
(* taken, and the last element of a kind in them), sums over finite sets   *)
(* and the least-element argument that stands for induction.               *)
(***************************************************************************)
EXTENDS Integers, Picking, SequencesExt, SequenceTheorems, FiniteSetTheorems,
        WellFoundedInduction, TLAPS

\* A set of naturals has a least element; this stands for induction.
LEMMA LeastOf ==
  ASSUME NEW S \in SUBSET Nat, S # {}
  PROVE  \E x \in S : \A y \in S : x <= y
<1>1. PICK x \in S : \A y \in S : <<y, x>> \notin OpToRel(<, Nat)
  BY WFMin, NatLessThanWellFounded
<1>2. \A y \in S : ~(y < x)
  BY <1>1 DEF OpToRel
<1> QED BY <1>2

\* Positions have a last one.
LEMMA MaxOf ==
  ASSUME NEW n \in Nat, NEW S \in SUBSET (1..n), S # {}
  PROVE  Max(S) \in S /\ \A y \in S : y <= Max(S)
<1> DEFINE T == {n - y : y \in S}
<1>1. T \in SUBSET Nat
  <2> SUFFICES ASSUME NEW y \in S PROVE n - y \in Nat
    BY Zenon
  <2> QED OBVIOUS
<1>2. T # {}
  <2> PICK y \in S : TRUE
    OBVIOUS
  <2> QED BY Zenon
<1>3. PICK x \in T : \A y \in T : x <= y
  BY <1>1, <1>2, LeastOf
<1>4. \A y \in S : n - x >= y
  BY <1>3
<1>5. n - x \in S
  BY <1>3
<1> QED BY <1>4, <1>5 DEF Max

\* Pushing on, cutting and popping a stack keep what is below.
LEMMA Pushed ==
  ASSUME NEW S, NEW s \in Seq(S), NEW x \in S
  PROVE  /\ Append(s, x) \in Seq(S) /\ Len(Append(s, x)) = Len(s) + 1
         /\ Append(s, x)[Len(s) + 1] = x
         /\ \A i \in 1..Len(s) : Append(s, x)[i] = s[i]
  OBVIOUS

LEMMA Cut ==
  ASSUME NEW S, NEW s \in Seq(S), NEW d \in 0..Len(s)
  PROVE  /\ SubSeq(s, 1, d) \in Seq(S) /\ Len(SubSeq(s, 1, d)) = d
         /\ \A i \in 1..d : SubSeq(s, 1, d)[i] = s[i]
  OBVIOUS

LEMMA Popped ==
  ASSUME NEW S, NEW s \in Seq(S), s # <<>>
  PROVE  /\ Front(s) \in Seq(S) /\ Len(Front(s)) = Len(s) - 1
         /\ Len(s) \in Nat \ {0} /\ Last(s) = s[Len(s)] /\ Last(s) \in S
         /\ \A i \in 1..Len(s) - 1 : Front(s)[i] = s[i]
<1>1. Len(s) \in Nat \ {0}
  OBVIOUS
<1>2. Len(s) - 1 \in 0..Len(s)
  BY <1>1
<1>3. /\ Front(s) \in Seq(S) /\ Len(Front(s)) = Len(s) - 1
      /\ \A i \in 1..Len(s) - 1 : Front(s)[i] = s[i]
  BY <1>2, Cut DEF Front
<1>4. Last(s) = s[Len(s)] /\ Last(s) \in S
  BY <1>1 DEF Last
<1> QED BY <1>1, <1>3, <1>4

\* A sequence of two, put together.
LEMMA Pair ==
  ASSUME NEW S, NEW c \in S
  PROVE  /\ Append(<<c>>, c) = <<c, c>> /\ <<c>> \o <<c>> = <<c, c>>
         /\ <<>> \o <<c>> = <<c>> /\ <<c>> \o <<>> = <<c>>
<1> DEFINE s == <<c>>
           t == <<c, c>>
<1>1. s \in Seq(S) /\ Len(s) = 1 /\ s[1] = c
  OBVIOUS
<1>2. t \in Seq(S) /\ Len(t) = 2 /\ t[1] = c /\ t[2] = c
  OBVIOUS
<1> HIDE DEF s, t
<1>3. Append(s, c) = t
  <2>1. /\ Append(s, c) \in Seq(S) /\ Len(Append(s, c)) = Len(s) + 1
        /\ Append(s, c)[Len(s) + 1] = c
        /\ \A i \in 1..Len(s) : Append(s, c)[i] = s[i]
    <3>1. s \in Seq(S) /\ c \in S
      BY <1>1
    <3> QED BY <3>1, Pushed
  <2> QED BY <1>1, <1>2, <2>1, SeqEqual
<1>4. s \o s = t
  <2>1. s \o s \in Seq(S) /\ Len(s \o s) = 2 /\ (s \o s)[1] = c /\ (s \o s)[2] = c
    BY <1>1, ConcatProperties
  <2> QED BY <1>2, <2>1, SeqEqual
<1>5. <<>> \o s = s /\ s \o <<>> = s
  BY <1>1, ConcatEmptySeq
<1> QED BY <1>3, <1>4, <1>5 DEF s, t

LEMMA Two ==
  ASSUME NEW a, NEW b
  PROVE  <<a>> \o <<b>> = <<a, b>> /\ <<a>> \o <<>> \o <<b>> = <<a, b>>
<1> DEFINE S == {a, b}
           s == <<a>>
           r == <<b>>
           t == <<a, b>>
<1>1. s \in Seq(S) /\ Len(s) = 1 /\ s[1] = a /\ r \in Seq(S) /\ Len(r) = 1 /\ r[1] = b
  OBVIOUS
<1>2. t \in Seq(S) /\ Len(t) = 2 /\ t[1] = a /\ t[2] = b
  OBVIOUS
<1> HIDE DEF s, r, t
<1>3. s \o r = t
  <2>1. /\ s \o r \in Seq(S) /\ Len(s \o r) = Len(s) + Len(r)
        /\ \A i \in 1..Len(s) + Len(r) : (s \o r)[i] = IF i <= Len(s) THEN s[i] ELSE r[i - Len(s)]
    BY <1>1, ConcatProperties
  <2>2. Len(s \o r) = 2 /\ (s \o r)[1] = a /\ (s \o r)[2] = b
    BY <1>1, <2>1
  <2>3. \A i \in 1..Len(t) : (s \o r)[i] = t[i]
    BY <1>2, <2>2
  <2> QED BY <1>2, <2>1, <2>2, <2>3, SeqEqual
<1>4. s \o <<>> = s
  BY <1>1, ConcatEmptySeq
<1> QED BY <1>3, <1>4 DEF s, r, t

\* Two and three elements, one after the other.
LEMMA Three ==
  ASSUME NEW a, NEW b, NEW c
  PROVE  Append(<<>>, a) = <<a>> /\ Append(<<a>>, b) = <<a, b>> /\ Append(<<a, b>>, c) = <<a, b, c>>
<1> DEFINE S == {a, b, c}
<1>1. ASSUME NEW s \in Seq(S), NEW x \in S, NEW t \in Seq(S), Len(t) = Len(s) + 1,
             t[Len(s) + 1] = x, \A i \in 1..Len(s) : t[i] = s[i]
      PROVE  Append(s, x) = t
  <2>1. /\ Append(s, x) \in Seq(S) /\ Len(Append(s, x)) = Len(s) + 1
        /\ Append(s, x)[Len(s) + 1] = x /\ \A i \in 1..Len(s) : Append(s, x)[i] = s[i]
    BY <1>1, Pushed
  <2>2. \A i \in 1..Len(t) : t[i] = Append(s, x)[i]
    <3>1. Len(s) \in Nat
      BY <1>1
    <3>2. \A i \in 1..Len(t) : i \in 1..Len(s) \/ i = Len(s) + 1
      BY <1>1, <3>1
    <3> QED BY <1>1, <2>1, <3>2
  <2> QED BY <1>1, <2>1, <2>2, SeqEqual
<1>2. a \in S /\ b \in S /\ c \in S
  OBVIOUS
<1> DEFINE t0 == <<>>
           t1 == <<a>>
           t2 == <<a, b>>
           t3 == <<a, b, c>>
<1>3. /\ t0 \in Seq(S) /\ t1 \in Seq(S) /\ t2 \in Seq(S) /\ t3 \in Seq(S)
  OBVIOUS
<1>4. /\ Len(t0) = 0 /\ Len(t1) = 1 /\ Len(t2) = 2 /\ Len(t3) = 3
      /\ t1[1] = a /\ t2[1] = a /\ t2[2] = b /\ t3[1] = a /\ t3[2] = b /\ t3[3] = c
  OBVIOUS
<1> HIDE DEF S, t0, t1, t2, t3
<1>5. Append(t0, a) = t1
  <2>1. Len(t1) = Len(t0) + 1 /\ t1[Len(t0) + 1] = a /\ \A i \in 1..Len(t0) : t1[i] = t0[i]
    BY <1>4
  <2> QED BY <1>1, <1>2, <1>3, <2>1
<1>6. Append(t1, b) = t2
  <2>1. Len(t2) = Len(t1) + 1 /\ t2[Len(t1) + 1] = b /\ \A i \in 1..Len(t1) : t2[i] = t1[i]
    BY <1>4
  <2> QED BY <1>1, <1>2, <1>3, <2>1
<1>7. Append(t2, c) = t3
  <2>1. Len(t3) = Len(t2) + 1 /\ t3[Len(t2) + 1] = c /\ \A i \in 1..Len(t2) : t3[i] = t2[i]
    <3>1. \A i \in 1..2 : i = 1 \/ i = 2
      OBVIOUS
    <3> QED BY <1>4, <3>1
  <2> QED BY <1>1, <1>2, <1>3, <2>1
<1> QED BY <1>5, <1>6, <1>7 DEF t0, t1, t2, t3
-------------------------------------------------------------------------------
(* Sums over finite sets: MapThenSumSet with the values in a function.  A  *)
(* fact about every finite set is proved for all cardinalities at once: no *)
(* number is the least one of which it is false.                           *)

\* No infinite descent.
LEMMA NoneLeast ==
  ASSUME NEW S \in SUBSET Nat, \A x \in S : \E y \in S : y < x
  PROVE  S = {}
<1>1. \A x, y \in S : y < x => ~(x <= y)
  OBVIOUS
<1> QED BY <1>1, LeastOf

SumOver(w, S) == MapThenSumSet(LAMBDA i : w[i], S)

Chosen(S) == CHOOSE x \in S : TRUE

\* What the recursion of a sum over the subsets of S says of its function.
SumEquation(g, w, S) ==
  g = [s \in SUBSET S |-> IF s = {} THEN 0 ELSE w[Chosen(s)] + g[s \ {Chosen(s)}]]

\* The recursion is a choice among the functions that solve it.
LEMMA SumIs == \A w, S : SumOver(w, S) = (CHOOSE g : SumEquation(g, w, S))[S]
  BY DEF SumOver, MapThenSumSet, MapThenFoldSet, SumEquation, Chosen

\* What is left when the recursion has taken one element.
LEMMA ChosenOut ==
  ASSUME NEW T, IsFiniteSet(T), T # {}
  PROVE  /\ Chosen(T) \in T /\ IsFiniteSet(T \ {Chosen(T)})
         /\ Cardinality(T) \in Nat
         /\ Cardinality(T \ {Chosen(T)}) \in Nat
         /\ Cardinality(T \ {Chosen(T)}) = Cardinality(T) - 1
<1>1. Chosen(T) \in T
  BY DEF Chosen
<1> QED BY <1>1, FS_RemoveElement, FS_CardinalityType

\* There is one: it is right for the empty set, and one that is right for sets of
\* n elements gives one for sets of n + 1.
LEMMA SumExists ==
  ASSUME NEW w, NEW S, IsFiniteSet(S)
  PROVE  \E g : SumEquation(g, w, S)
<1> DEFINE Body(g) == [s \in SUBSET S |-> IF s = {} THEN 0 ELSE w[Chosen(s)] + g[s \ {Chosen(s)}]]
           UpTo(n, g) == \A s \in SUBSET S : Cardinality(s) <= n => g[s] = Body(g)[s]
           Wrong == {n \in Nat : ~\E g : UpTo(n, g)}
<1>1. \A s \in SUBSET S : /\ IsFiniteSet(s) /\ Cardinality(s) \in Nat
                          /\ Cardinality(s) <= Cardinality(S)
  BY FS_Subset, FS_CardinalityType
<1>2. 0 \notin Wrong
  <2>1. UpTo(0, [s \in SUBSET S |-> 0])
    BY <1>1, FS_EmptySet
  <2> QED BY <2>1
<1>3. ASSUME NEW n \in Nat, n \notin Wrong PROVE n + 1 \notin Wrong
  <2>1. PICK g : UpTo(n, g)
    BY <1>3
  <2> DEFINE h == Body(g)
  <2>2. ASSUME NEW s \in SUBSET S, Cardinality(s) <= n + 1
        PROVE  h[s] = Body(h)[s]
    <3>1. CASE s = {}
      BY <3>1
    <3>2. CASE s # {}
      <4> DEFINE r == s \ {Chosen(s)}
      <4>1. r \in SUBSET S /\ Cardinality(r) <= n
        BY <1>1, <2>2, <3>2, ChosenOut
      <4>2. g[r] = h[r]
        BY <2>1, <4>1
      <4> HIDE DEF h
      <4>3. h[s] = w[Chosen(s)] + g[r]
        BY <3>2 DEF h
      <4>4. Body(h)[s] = w[Chosen(s)] + h[r]
        BY <3>2
      <4> QED BY <4>2, <4>3, <4>4
    <3> QED BY <3>1, <3>2
  <2> QED BY <2>2
<1> HIDE DEF Body, UpTo
<1>4. Wrong = {}
  <2> SUFFICES ASSUME Wrong # {} PROVE FALSE
    OBVIOUS
  <2>1. PICK n \in Wrong : \A m \in Wrong : n <= m
    <3>1. Wrong \in SUBSET Nat
      OBVIOUS
    <3> QED BY <3>1, LeastOf
  <2>2. n # 0 /\ n \in Nat
    BY <1>2
  <2>3. n - 1 \in Nat /\ n - 1 \notin Wrong
    BY <2>1, <2>2
  <2> QED BY <1>3, <2>1, <2>3
<1>5. PICK g : UpTo(Cardinality(S), g)
  BY <1>1, <1>4
<1>6. Body(g) = Body(Body(g))
  <2>1. \A s \in SUBSET S : g[s] = Body(g)[s]
    BY <1>1, <1>5 DEF UpTo
  <2>2. \A s \in SUBSET S : s \ {Chosen(s)} \in SUBSET S
    OBVIOUS
  <2> QED BY <2>1, <2>2 DEF Body
<1> QED BY <1>6 DEF Body, SumEquation

\* All functions that solve the equations give the same sum.
LEMMA SumsAgree ==
  ASSUME NEW w, NEW S, IsFiniteSet(S), NEW g, SumEquation(g, w, S), NEW T \in SUBSET S
  PROVE  g[T] = SumOver(w, T)
<1> DEFINE Off(n) == \E A, f, s : /\ IsFiniteSet(A) /\ SumEquation(f, w, A) /\ s \in SUBSET A
                                 /\ Cardinality(s) = n /\ f[s] # SumOver(w, s)
           Wrong == {n \in Nat : Off(n)}
<1>1. Wrong = {}
  <2> SUFFICES ASSUME Wrong # {} PROVE FALSE
    OBVIOUS
  <2>1. PICK n \in Wrong : \A m \in Wrong : n <= m
    <3>1. Wrong \in SUBSET Nat
      OBVIOUS
    <3> HIDE DEF Wrong
    <3> QED BY <3>1, LeastOf
  <2>2. PICK A, f, s : /\ IsFiniteSet(A) /\ SumEquation(f, w, A) /\ s \in SUBSET A
                       /\ Cardinality(s) = n /\ f[s] # SumOver(w, s)
    BY <2>1
  <2>3. IsFiniteSet(s)
    BY <2>2, FS_Subset
  <2>4. PICK h : SumEquation(h, w, s) /\ SumOver(w, s) = h[s]
    BY <2>3, SumExists, SumIs
  <2>5. CASE s = {}
    BY <2>2, <2>4, <2>5 DEF SumEquation
  <2>6. CASE s # {}
    <3> DEFINE r == s \ {Chosen(s)}
    <3>1. r \in SUBSET s /\ Cardinality(r) \in Nat /\ Cardinality(r) < n
      BY <2>2, <2>3, <2>6, ChosenOut
    <3>2. Cardinality(r) \notin Wrong
      <4> HIDE DEF Wrong
      <4>1. n \in Nat
        BY DEF Wrong
      <4> QED BY <2>1, <3>1, <4>1
    <3>3. \A B, e : /\ IsFiniteSet(B) /\ SumEquation(e, w, B) /\ r \in SUBSET B
                    => e[r] = SumOver(w, r)
      <4>1. ~Off(Cardinality(r))
        BY <3>1, <3>2
      <4> HIDE DEF r
      <4> QED BY <4>1
    <3>4. r \in SUBSET A
      BY <2>2
    <3>5. f[r] = SumOver(w, r)
      BY <2>2, <3>3, <3>4
    <3>6. h[r] = SumOver(w, r)
      BY <2>3, <2>4, <3>1, <3>3
    <3>7. f[s] = w[Chosen(s)] + f[r] /\ h[s] = w[Chosen(s)] + h[r]
      BY <2>2, <2>4, <2>6 DEF SumEquation
    <3> QED BY <2>2, <2>4, <3>5, <3>6, <3>7
  <2> QED BY <2>5, <2>6
<1>2. Cardinality(T) \in Nat
  BY FS_Subset, FS_CardinalityType
<1>3. ~Off(Cardinality(T))
  BY <1>1, <1>2
<1> QED BY <1>3

\* So the sum obeys its recursion.
LEMMA SumStep ==
  ASSUME NEW w, NEW S, IsFiniteSet(S)
  PROVE  SumOver(w, S) = IF S = {} THEN 0 ELSE w[Chosen(S)] + SumOver(w, S \ {Chosen(S)})
<1>1. PICK g : SumEquation(g, w, S)
  BY SumExists
<1>2. S \in SUBSET S /\ S \ {Chosen(S)} \in SUBSET S
  OBVIOUS
<1>3. SumOver(w, S) = g[S] /\ g[S \ {Chosen(S)}] = SumOver(w, S \ {Chosen(S)})
  BY <1>1, <1>2, SumsAgree
<1> QED BY <1>1, <1>2, <1>3 DEF SumEquation

LEMMA SumType ==
  ASSUME NEW w, NEW S, IsFiniteSet(S), \A x \in S : w[x] \in Nat
  PROVE  SumOver(w, S) \in Nat
<1> DEFINE Wrong == {n \in Nat : \E s \in SUBSET S : Cardinality(s) = n /\ SumOver(w, s) \notin Nat}
<1>0. \A s \in SUBSET S : IsFiniteSet(s) /\ Cardinality(s) \in Nat
  BY FS_Subset, FS_CardinalityType
<1>1. ASSUME NEW n \in Wrong PROVE \E m \in Wrong : m < n
  <2>1. PICK s \in SUBSET S : Cardinality(s) = n /\ SumOver(w, s) \notin Nat
    BY <1>1
  <2>2. s # {} /\ SumOver(w, s) = w[Chosen(s)] + SumOver(w, s \ {Chosen(s)})
    BY <1>0, <2>1, SumStep
  <2>3. Chosen(s) \in s /\ Cardinality(s \ {Chosen(s)}) = n - 1 /\ n - 1 \in Nat
    BY <1>0, <2>1, <2>2, ChosenOut
  <2>4. SumOver(w, s \ {Chosen(s)}) \notin Nat
    BY <2>1, <2>2, <2>3
  <2> QED BY <2>3, <2>4
<1>2. Wrong = {}
  <2>1. Wrong \in SUBSET Nat /\ \A n \in Wrong : \E m \in Wrong : m < n
    BY <1>1
  <2> HIDE DEF Wrong
  <2> QED BY <2>1, NoneLeast
<1> QED BY <1>0, <1>2

\* One element more, whichever it is.
LEMMA SumAdd ==
  ASSUME NEW w, NEW S, IsFiniteSet(S), \A x \in S : w[x] \in Nat, NEW e \in S
  PROVE  SumOver(w, S) = w[e] + SumOver(w, S \ {e})
<1> DEFINE Wrong == {n \in Nat : \E s \in SUBSET S : \E x \in s :
                        Cardinality(s) = n /\ SumOver(w, s) # w[x] + SumOver(w, s \ {x})}
<1>0. \A s \in SUBSET S : IsFiniteSet(s) /\ Cardinality(s) \in Nat /\ SumOver(w, s) \in Nat
  BY FS_Subset, FS_CardinalityType, SumType
<1>1. ASSUME NEW n \in Wrong PROVE \E m \in Wrong : m < n
  <2>0. PICK s \in SUBSET S :
          \E x \in s : Cardinality(s) = n /\ SumOver(w, s) # w[x] + SumOver(w, s \ {x})
    BY <1>1
  <2>1. PICK x \in s : Cardinality(s) = n /\ SumOver(w, s) # w[x] + SumOver(w, s \ {x})
    BY <2>0
  <2> DEFINE y == Chosen(s)
             r == s \ {y}
  <2>2. /\ SumOver(w, s) = w[y] + SumOver(w, r) /\ y \in s /\ r \in SUBSET S
        /\ Cardinality(r) = n - 1 /\ n - 1 \in Nat
    BY <1>0, <2>1, SumStep, ChosenOut
  <2> HIDE DEF y
  <2> SUFFICES ASSUME n - 1 \notin Wrong PROVE FALSE
    <3>1. n \in Nat /\ n - 1 < n
      OBVIOUS
    <3> QED BY <3>1
  <2>3. x # y
    BY <2>1, <2>2
  <2>8. n - 1 \in Nat /\ \A z \in SUBSET S : \A v \in z : 
          Cardinality(z) = n - 1 => SumOver(w, z) = w[v] + SumOver(w, z \ {v})
    BY <2>2
  <2>4. x \in r /\ y \in s \ {x} /\ s \ {x} \in SUBSET S /\ (s \ {x}) \ {y} = r \ {x}
    BY <2>2, <2>3
  <2>5. Cardinality(s \ {x}) = n - 1
    BY <1>0, <2>1, FS_RemoveElement
  <2>6. SumOver(w, r) = w[x] + SumOver(w, r \ {x})
    BY <2>8, <2>2, <2>4
  <2>7. SumOver(w, s \ {x}) = w[y] + SumOver(w, r \ {x})
    <3>1. SumOver(w, s \ {x}) = w[y] + SumOver(w, (s \ {x}) \ {y})
      BY <2>8, <2>4, <2>5
    <3> QED BY <2>4, <3>1
  <2> QED BY <1>0, <2>1, <2>2, <2>4, <2>6, <2>7
<1>2. Wrong = {}
  <2>1. Wrong \in SUBSET Nat /\ \A n \in Wrong : \E m \in Wrong : m < n
    BY <1>1
  <2> HIDE DEF Wrong
  <2> QED BY <2>1, NoneLeast
<1> QED BY <1>0, <1>2

LEMMA SumEmpty == \A w : SumOver(w, {}) = 0
  BY SumStep, FS_EmptySet

\* One element that was not there.
LEMMA SumWith ==
  ASSUME NEW w, NEW S, IsFiniteSet(S), \A x \in S : w[x] \in Nat,
         NEW e, e \notin S, w[e] \in Nat
  PROVE  SumOver(w, S \cup {e}) = SumOver(w, S) + w[e]
<1>1. IsFiniteSet(S \cup {e}) /\ \A x \in S \cup {e} : w[x] \in Nat
  BY FS_AddElement
<1>2. (S \cup {e}) \ {e} = S
  OBVIOUS
<1>3. SumOver(w, S \cup {e}) = w[e] + SumOver(w, S)
  BY <1>1, <1>2, SumAdd
<1>4. SumOver(w, S) \in Nat
  BY SumType
<1> QED BY <1>3, <1>4

\* A part sums to no more than the whole.
LEMMA SumMonotone ==
  ASSUME NEW w, NEW T, IsFiniteSet(T), \A x \in T : w[x] \in Nat, NEW S \in SUBSET T
  PROVE  SumOver(w, S) <= SumOver(w, T)
<1> DEFINE Wrong == {n \in Nat : \E U \in SUBSET T : /\ S \subseteq U /\ Cardinality(U) = n
                                                   /\ ~(SumOver(w, S) <= SumOver(w, U))}
<1>0. \A U \in SUBSET T : IsFiniteSet(U) /\ Cardinality(U) \in Nat /\ SumOver(w, U) \in Nat
  BY FS_Subset, FS_CardinalityType, SumType
<1>1. ASSUME NEW n \in Wrong PROVE \E m \in Wrong : m < n
  <2>1. PICK U \in SUBSET T : /\ S \subseteq U /\ Cardinality(U) = n
                              /\ ~(SumOver(w, S) <= SumOver(w, U))
    BY <1>1
  <2>2. PICK e \in U : e \notin S
    <3>1. S # U
      BY <1>0, <2>1
    <3> QED BY <2>1, <3>1
  <2>3. SumOver(w, U) = w[e] + SumOver(w, U \ {e})
    BY <1>0, <2>1, SumAdd
  <2>4. Cardinality(U \ {e}) = n - 1 /\ n - 1 \in Nat
    <3>1. Cardinality(U \ {e}) = n - 1
      BY <1>0, <2>1, FS_RemoveElement
    <3>2. U \ {e} \in SUBSET T
      OBVIOUS
    <3> QED BY <1>0, <3>1, <3>2
  <2>5. U \ {e} \in SUBSET T /\ S \subseteq U \ {e} /\ w[e] \in Nat
    BY <2>1, <2>2
  <2>6. ~(SumOver(w, S) <= SumOver(w, U \ {e}))
    BY <1>0, <2>1, <2>3, <2>5
  <2> QED BY <2>4, <2>5, <2>6
<1>2. Wrong = {}
  <2>1. Wrong \in SUBSET Nat /\ \A n \in Wrong : \E m \in Wrong : m < n
    BY <1>1
  <2> HIDE DEF Wrong
  <2> QED BY <2>1, NoneLeast
<1> QED BY <1>0, <1>2

\* Only the values at the elements count.
LEMMA SumSame ==
  ASSUME NEW w, NEW v, NEW S, IsFiniteSet(S), \A x \in S : w[x] = v[x]
  PROVE  SumOver(w, S) = SumOver(v, S)
<1> DEFINE Wrong == {n \in Nat : \E s \in SUBSET S :
                        Cardinality(s) = n /\ SumOver(w, s) # SumOver(v, s)}
<1>0. \A s \in SUBSET S : IsFiniteSet(s) /\ Cardinality(s) \in Nat
  BY FS_Subset, FS_CardinalityType
<1>1. ASSUME NEW n \in Wrong PROVE \E m \in Wrong : m < n
  <2>1. PICK s \in SUBSET S : Cardinality(s) = n /\ SumOver(w, s) # SumOver(v, s)
    BY <1>1
  <2>2. s # {}
    BY <2>1, SumEmpty
  <2>3. /\ SumOver(w, s) = w[Chosen(s)] + SumOver(w, s \ {Chosen(s)})
        /\ SumOver(v, s) = v[Chosen(s)] + SumOver(v, s \ {Chosen(s)})
    BY <1>0, <2>2, SumStep
  <2>4. Chosen(s) \in s /\ Cardinality(s \ {Chosen(s)}) = n - 1 /\ n - 1 \in Nat
    BY <1>0, <2>1, <2>2, ChosenOut
  <2>5. SumOver(w, s \ {Chosen(s)}) # SumOver(v, s \ {Chosen(s)})
    BY <2>1, <2>3, <2>4
  <2> QED BY <2>4, <2>5
<1>2. Wrong = {}
  <2>1. Wrong \in SUBSET Nat /\ \A n \in Wrong : \E m \in Wrong : m < n
    BY <1>1
  <2> HIDE DEF Wrong
  <2> QED BY <2>1, NoneLeast
<1> QED BY <1>0, <1>2
-------------------------------------------------------------------------------
(* The elements of a set of positions in their order.                      *)

Lowest(S, k) == {j \in S : j <= k}

LEMMA RankStep ==
  ASSUME NEW m \in Nat, NEW S \in SUBSET (1..m)
  PROVE  /\ Cardinality(Lowest(S, 0)) = 0 /\ Lowest(S, m) = S
         /\ \A k \in Nat : /\ IsFiniteSet(Lowest(S, k)) /\ Cardinality(Lowest(S, k)) \in Nat
                           /\ Cardinality(Lowest(S, k + 1)) =
                                Cardinality(Lowest(S, k)) + (IF k + 1 \in S THEN 1 ELSE 0)
<1>0. \A j \in S : j \in Nat /\ 1 <= j /\ j <= m
  OBVIOUS
<1>1. \A k \in Nat : IsFiniteSet(Lowest(S, k)) /\ Cardinality(Lowest(S, k)) \in Nat
  <2>1. IsFiniteSet(S)
    <3>1. IsFiniteSet(1..m)
      BY FS_Interval
    <3> QED BY <3>1, FS_Subset
  <2> QED BY <2>1, FS_Subset, FS_CardinalityType DEF Lowest
<1>2. Cardinality(Lowest(S, 0)) = 0
  <2>1. Lowest(S, 0) = {}
    <3>1. \A j \in S : ~(j <= 0)
      BY <1>0
    <3> QED BY <3>1 DEF Lowest
  <2> QED BY <2>1, FS_EmptySet
<1>3. Lowest(S, m) = S
  BY <1>0 DEF Lowest
<1>4. ASSUME NEW k \in Nat
      PROVE  Cardinality(Lowest(S, k + 1)) = Cardinality(Lowest(S, k)) + (IF k + 1 \in S THEN 1 ELSE 0)
  <2>1. Lowest(S, k + 1) = IF k + 1 \in S THEN Lowest(S, k) \cup {k + 1} ELSE Lowest(S, k)
    <3>1. \A j \in S : j <= k + 1 <=> j <= k \/ j = k + 1
      BY <1>0
    <3> QED BY <1>0, <3>1 DEF Lowest
  <2>2. k + 1 \notin Lowest(S, k)
    BY DEF Lowest
  <2> QED BY <1>1, <2>1, <2>2, FS_AddElement
<1> QED BY <1>1, <1>2, <1>3, <1>4

\* There is one at each rank ...
LEMMA RankFound ==
  ASSUME NEW m \in Nat, NEW S \in SUBSET (1..m), NEW n \in 1..Cardinality(S)
  PROVE  \E i \in S : Cardinality(Lowest(S, i)) = n
<1> DEFINE Reached == {i \in Nat : Cardinality(Lowest(S, i)) >= n}
<1>1. m \in Reached /\ Reached \in SUBSET Nat /\ n \in Nat \ {0}
  BY RankStep
<1>2. PICK i \in Reached : \A j \in Reached : i <= j
  BY <1>1, LeastOf
<1>3. i \in Nat /\ i # 0 /\ i <= m /\ Cardinality(Lowest(S, i)) >= n
  BY <1>1, <1>2, RankStep
<1>4. i - 1 \in Nat /\ ~(Cardinality(Lowest(S, i - 1)) >= n)
  BY <1>2, <1>3
<1>5. Cardinality(Lowest(S, i)) = Cardinality(Lowest(S, i - 1)) + (IF i \in S THEN 1 ELSE 0)
  <2>1. (i - 1) + 1 = i
    BY <1>3
  <2> QED BY <1>4, <2>1, RankStep
<1>6. Cardinality(Lowest(S, i)) \in Nat /\ Cardinality(Lowest(S, i - 1)) \in Nat
  BY <1>3, <1>4, RankStep
<1> QED BY <1>1, <1>3, <1>4, <1>5, <1>6

\* ... and ranks follow the order.
LEMMA RankGrows ==
  ASSUME NEW m \in Nat, NEW S \in SUBSET (1..m), NEW i \in S, NEW j \in S, i < j
  PROVE  Cardinality(Lowest(S, i)) < Cardinality(Lowest(S, j))
<1>0. /\ i \in Nat /\ j \in Nat /\ ~(j <= i) /\ j <= j
      /\ \A k \in S : k <= i => k <= j
  <2>1. \A k \in S : k \in Nat
    OBVIOUS
  <2> QED BY <2>1
<1>1. Lowest(S, i) \in SUBSET Lowest(S, j) /\ j \in Lowest(S, j) /\ j \notin Lowest(S, i)
      /\ i \in Nat /\ j \in Nat
  BY <1>0 DEF Lowest
<1>2. Lowest(S, i) # Lowest(S, j)
  BY <1>1
<1>3. /\ IsFiniteSet(Lowest(S, j)) /\ Cardinality(Lowest(S, i)) \in Nat
      /\ Cardinality(Lowest(S, j)) \in Nat
  BY <1>1, RankStep
<1>4. /\ Cardinality(Lowest(S, i)) <= Cardinality(Lowest(S, j))
      /\ Cardinality(Lowest(S, i)) = Cardinality(Lowest(S, j)) => Lowest(S, i) = Lowest(S, j)
  BY <1>1, <1>3, FS_Subset
<1> QED BY <1>2, <1>3, <1>4

\* So the n-th of a set of positions is one of them, and each is one.
LEMMA NthIs ==
  ASSUME NEW m \in Nat, NEW S \in SUBSET (1..m)
  PROVE  /\ IsFiniteSet(S) /\ Cardinality(S) \in Nat
         /\ \A n \in 1..Cardinality(S) : Nth(S, n) \in S
         /\ \A i \in S : \E n \in 1..Cardinality(S) : Nth(S, n) = i
<1>0. IsFiniteSet(S) /\ Cardinality(S) \in Nat /\ \A k \in S : k \in Nat /\ k <= m /\ k >= 1
  <2>1. IsFiniteSet(1..m)
    BY FS_Interval
  <2>2. \A k \in S : k \in Nat /\ k <= m /\ k >= 1
    OBVIOUS
  <2>3. IsFiniteSet(S) /\ Cardinality(S) \in Nat
    BY <2>1, FS_Subset, FS_CardinalityType
  <2> QED BY <2>2, <2>3
<1>1. ASSUME NEW n \in 1..Cardinality(S) PROVE Nth(S, n) \in S
  BY RankFound DEF Nth, Lowest
<1>2. ASSUME NEW i \in S PROVE \E n \in 1..Cardinality(S) : Nth(S, n) = i
  <2> DEFINE n == Cardinality(Lowest(S, i))
  <2>1. n \in 1..Cardinality(S)
    <3>1. Lowest(S, i) \in SUBSET S /\ i \in Lowest(S, i)
      BY <1>0 DEF Lowest
    <3>2. n \in Nat /\ n <= Cardinality(S)
      BY <1>0, <3>1, FS_Subset, FS_CardinalityType
    <3>3. n # 0
      <4>1. IsFiniteSet(Lowest(S, i))
        BY <1>0, <3>1, FS_Subset
      <4> QED BY <3>1, <4>1, FS_EmptySet
    <3> HIDE DEF n
    <3> QED BY <1>0, <3>2, <3>3
  <2>2. \A j \in S : Cardinality(Lowest(S, j)) = n => j = i
    <3> SUFFICES ASSUME NEW j \in S, Cardinality(Lowest(S, j)) = n, j # i PROVE FALSE
      OBVIOUS
    <3>1. j < i \/ i < j
      BY <1>0
    <3>2. /\ Cardinality(Lowest(S, i)) \in Nat /\ Cardinality(Lowest(S, j)) \in Nat
      BY <1>0, RankStep
    <3>3. j < i => Cardinality(Lowest(S, j)) < Cardinality(Lowest(S, i))
      BY RankGrows
    <3>4. i < j => Cardinality(Lowest(S, i)) < Cardinality(Lowest(S, j))
      BY RankGrows
    <3> QED BY <3>1, <3>2, <3>3, <3>4
  <2>3. Nth(S, n) = i
    BY <2>2 DEF Nth, Lowest
  <2> QED BY <2>1, <2>3
<1> QED BY <1>0, <1>1, <1>2

\* Picking takes the elements at the positions and no others.
LEMMA PickedIs ==
  ASSUME NEW T, NEW s \in Seq(T), NEW S \in SUBSET (1..Len(s))
  PROVE  /\ IsFiniteSet(S) /\ Cardinality(S) \in Nat
         /\ Picked(s, S) \in Seq(T) /\ Len(Picked(s, S)) = Cardinality(S)
         /\ DOMAIN Picked(s, S) = 1..Cardinality(S)
         /\ \A n \in 1..Cardinality(S) : \E i \in S : Nth(S, n) = i /\ Picked(s, S)[n] = s[i]
         /\ \A i \in S : \E n \in 1..Cardinality(S) : Nth(S, n) = i /\ Picked(s, S)[n] = s[i]
<1>1. /\ IsFiniteSet(S) /\ Cardinality(S) \in Nat
      /\ \A n \in 1..Cardinality(S) : Nth(S, n) \in S
      /\ \A i \in S : \E n \in 1..Cardinality(S) : Nth(S, n) = i
  <2>1. Len(s) \in Nat
    OBVIOUS
  <2> QED BY <2>1, NthIs
<1>2. \A i \in S : s[i] \in T
  OBVIOUS
<1>3. /\ Picked(s, S) \in Seq(T) /\ Len(Picked(s, S)) = Cardinality(S)
      /\ DOMAIN Picked(s, S) = 1..Cardinality(S)
      /\ \A n \in 1..Cardinality(S) : Picked(s, S)[n] = s[Nth(S, n)]
  <2> DEFINE c == Cardinality(S)
             picked == Picked(s, S)
  <2>1. \A n \in 1..c : s[Nth(S, n)] \in T
    BY <1>1, <1>2
  <2>2. picked \in [1..c -> T] /\ \A n \in 1..c : picked[n] = s[Nth(S, n)]
    BY <2>1 DEF Picked
  <2>3. c \in Nat
    BY <1>1
  <2> HIDE DEF c, picked
  <2>4. picked \in Seq(T) /\ Len(picked) = c /\ DOMAIN picked = 1..c
    BY <2>2, <2>3
  <2> QED BY <2>2, <2>4 DEF c, picked
<1> QED BY <1>1, <1>3
=================================================================================
