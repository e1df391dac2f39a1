---------------------------- MODULE WideEventProofs ----------------------------
(***************************************************************************)
(* Proofs about WideEvent, for any keys, paths, schemas and integer types, *)
(* and about the two serializers of EventLine, for any log: the line they  *)
(* write is the same, at every moment, for every event user code can build,*)
(* and a reader of JSON finds in it what the event and its log hold.       *)
(***************************************************************************)
EXTENDS EventLine, SequenceLemmas

-------------------------------------------------------------------------------
(* Paths.                                                                  *)

LEMMA PathTypes ==
  /\ <<>> \in Seq(Keys) /\ Len(<<>>) = 0
  /\ \A o \in Events : o \in Seq(Keys) /\ Len(o) \in Nat
  /\ \A p \in Paths : Len(p) > 0
  /\ \A p \in Paths, o \in Events : Above(o, p) => p # o /\ ~Above(p, o)
  /\ \A p \in Paths : Above(<<>>, p)
<1>1. \A o \in Events : o \in Seq(Keys) /\ Len(o) \in Nat
  BY PathsAssumption, EmptySeq, LenProperties DEF Events
<1>2. \A p \in Paths : Len(p) > 0
  BY <1>1, PathsAssumption, EmptySeq DEF Events
<1> QED
  BY <1>1, <1>2, EmptySeq DEF Above, Events

\* What lies above a path forms a chain.
LEMMA AboveChain ==
  ASSUME NEW o \in Events, NEW q \in Events, NEW p \in Events
  PROVE  /\ Above(o, q) /\ Above(q, p) => Above(o, p)
         /\ Above(o, p) /\ Above(q, p) => o = q \/ Above(o, q) \/ Above(q, o)
<1>1. o \in Seq(Keys) /\ q \in Seq(Keys) /\ p \in Seq(Keys)
      /\ Len(o) \in Nat /\ Len(q) \in Nat /\ Len(p) \in Nat
  BY PathTypes
<1>2. Above(o, q) /\ Above(q, p) => Above(o, p)
  BY <1>1 DEF Above
<1>3. ASSUME Above(o, p), Above(q, p), ~Above(o, q), ~Above(q, o)
      PROVE  o = q
  <2>1. Len(o) = Len(q)
    BY <1>1, <1>3 DEF Above
  <2>2. \A i \in 1..Len(o) : o[i] = q[i]
    BY <1>1, <1>3, <2>1 DEF Above
  <2> QED
    BY <1>1, <2>1, <2>2, SeqEqual
<1> QED
  BY <1>2, <1>3

\* The step from o towards p is the only child of o at or above p.
LEMMA StepProperties ==
  ASSUME NEW o \in Events, NEW p \in Paths, Above(o, p)
  PROVE  /\ Step(o, p) \in Paths
         /\ Above(o, Step(o, p)) /\ Len(Step(o, p)) = Len(o) + 1
         /\ Step(o, p) = p \/ Above(Step(o, p), p)
         /\ \A q \in Paths : /\ Above(o, q) /\ Len(q) = Len(o) + 1
                             /\ q = p \/ Above(q, p)
                             => q = Step(o, p)
<1> DEFINE s == Step(o, p)
<1>1. o \in Seq(Keys) /\ p \in Seq(Keys) /\ Len(o) \in Nat /\ Len(p) \in Nat
      /\ Len(o) + 1 \in 1..Len(p)
  BY PathTypes DEF Above, Events
<1>2. s \in Paths
  BY <1>1, PathsAssumption DEF Step
<1>3. Len(s) = Len(o) + 1 /\ \A i \in 1..Len(o) + 1 : s[i] = p[i]
  <2>1. \A i \in 1..Len(o) + 1 : p[i] \in Keys
    BY <1>1, LenProperties
  <2> QED
    BY <1>1, <2>1, SubSeqProperties DEF Step
<1>4. Above(o, s)
  BY <1>1, <1>3 DEF Above
<1>5. s \in Seq(Keys)
  BY <1>2, PathTypes DEF Events
<1>6. s = p \/ Above(s, p)
  <2>1. CASE Len(s) = Len(p)
    BY <1>1, <1>3, <1>5, <2>1, SeqEqual
  <2>2. CASE Len(s) # Len(p)
    BY <1>1, <1>3, <2>2 DEF Above
  <2> QED
    BY <2>1, <2>2
<1>7. ASSUME NEW q \in Paths, Len(q) = Len(o) + 1, q = p \/ Above(q, p)
      PROVE  q = s
  <2>1. q \in Seq(Keys) /\ \A i \in 1..Len(q) : q[i] = p[i]
    BY <1>7, PathTypes DEF Events, Above
  <2> QED
    BY <1>1, <1>3, <1>5, <1>7, <2>1, SeqEqual
<1> QED
  BY <1>2, <1>3, <1>4, <1>6, <1>7
-------------------------------------------------------------------------------
(* A write at a path.                                                      *)

Slots == [Paths -> Scalar \cup {None, Object}]

\* The kinds of slot differ in their type.
LEMMA SlotKinds ==
  /\ None # Object
  /\ \A v \in Scalar : v # None /\ v # Object
BY DEF None, Object, Scalar, Settable, Integral, U64, I64, Other

LEMMA StoredTyped ==
  ASSUME NEW w \in Slots, NEW p \in Paths, NEW v \in Scalar
  PROVE  Stored(w, p, v) \in Slots
BY DEF Slots, Stored

\* What an owned tree of events gives the code for free and the flat slots have
\* to be shown: what holds something lies inside of nested events only.
Tree(w) == \A p, q \in Paths : Above(q, p) /\ w[p] # None => w[q] = Object
Shape == Tree(values)

\* A write leaves a tree.
LEMMA StoredTree ==
  ASSUME NEW w, Tree(w), NEW p \in Paths, NEW v \in Scalar
  PROVE  Tree(Stored(w, p, v))
<1> DEFINE w2 == Stored(w, p, v)
<1> SUFFICES ASSUME NEW a \in Paths, NEW b \in Paths, Above(b, a), w2[a] # None
             PROVE  w2[b] = Object
  BY DEF Tree
<1>1. /\ \A q \in Paths : Above(p, q) => q # p /\ ~Above(q, p)
      /\ \A q \in Paths : Above(q, p) => q # p
  BY PathTypes DEF Events
<1>2. ~Above(p, a)
  BY <1>1 DEF Stored
<1>3. CASE a = p \/ Above(a, p)
  <2>1. Above(b, p)
    BY <1>3, AboveChain DEF Events
  <2> QED
    BY <1>1, <2>1 DEF Stored
<1>4. CASE a # p /\ ~Above(a, p)
  <2>1. w[b] = Object
    BY <1>2, <1>4 DEF Stored, Tree
  <2>2. b # p /\ ~Above(p, b)
    BY <1>2, AboveChain DEF Events
  <2> QED
    BY <2>1, <2>2 DEF Stored
<1> QED
  BY <1>3, <1>4

LEMMA PresentFinite ==
  ASSUME NEW w, NEW o
  PROVE  IsFiniteSet(Present(w, o)) /\ InUse(w, o) \in Nat
<1>1. Present(w, o) \in SUBSET Paths
  BY DEF Present
<1> QED
  BY <1>1, PathsAssumption, FS_Subset, FS_CardinalityType DEF InUse

\* A write changes the count of a nested event by as much as the number of
\* its slots in use, and leaves nothing inside of the value written.
LEMMA CountedTracks ==
  ASSUME NEW w, NEW c, NEW p \in Paths, NEW v \in Scalar, NEW o \in Events
  PROVE  /\ o = p \/ Above(p, o) =>
              /\ Counted(c, w, p)[o] = 0
              /\ InUse(Stored(w, p, v), o) = 0
         /\ o # p /\ ~Above(p, o) =>
              /\ InUse(Stored(w, p, v), o) = InUse(w, o) +
                   (IF Above(o, p) /\ w[Step(o, p)] = None THEN 1 ELSE 0)
              /\ Counted(c, w, p)[o] =
                   IF Above(o, p) /\ w[Step(o, p)] = None THEN c[o] + 1 ELSE c[o]
<1> DEFINE w2 == Stored(w, p, v)
<1>0. \A q \in Paths : w2[q] # None <=>
        \/ q = p
        \/ Above(q, p)
        \/ ~Above(p, q) /\ w[q] # None
  BY SlotKinds, PathTypes DEF Stored, Events
<1>1. ASSUME o = p \/ Above(p, o)
      PROVE  InUse(w2, o) = 0
  <2>1. ASSUME NEW q \in Paths, Above(o, q)
        PROVE  w2[q] = None
    <3>1. Above(p, q)
      BY <1>1, <2>1, AboveChain DEF Events
    <3>2. q # p /\ ~Above(q, p)
      BY <3>1, PathTypes DEF Events
    <3> QED
      BY <3>1, <3>2 DEF Stored
  <2>2. Present(w2, o) = {}
    BY <2>1 DEF Present
  <2> QED
    BY <2>2, FS_EmptySet DEF InUse
<1>2. ASSUME Above(o, p)
      PROVE  InUse(w2, o) = InUse(w, o) + (IF w[Step(o, p)] = None THEN 1 ELSE 0)
  <2> DEFINE s == Step(o, p)
  <2>1. /\ s \in Paths /\ Above(o, s) /\ Len(s) = Len(o) + 1
        /\ s = p \/ Above(s, p)
        /\ \A q \in Paths : /\ Above(o, q) /\ Len(q) = Len(o) + 1
                            /\ q = p \/ Above(q, p)
                            => q = s
    BY <1>2, StepProperties
  <2>2. \A q \in Paths : Len(q) = Len(o) + 1 => ~Above(p, q)
    BY <1>2, PathTypes DEF Above, Events
  <2>3. Present(w2, o) = Present(w, o) \cup {s}
    BY <1>0, <2>1, <2>2 DEF Present
  <2>4. s \in Present(w, o) <=> w[s] # None
    BY <2>1 DEF Present
  <2>5. Cardinality(Present(w, o) \cup {s}) =
          IF s \in Present(w, o) THEN Cardinality(Present(w, o))
                                 ELSE Cardinality(Present(w, o)) + 1
    BY PresentFinite, FS_AddElement
  <2> QED
    BY <2>3, <2>4, <2>5, PresentFinite DEF InUse
<1>3. ASSUME o # p, ~Above(p, o), ~Above(o, p)
      PROVE  InUse(w2, o) = InUse(w, o)
  <2>1. ASSUME NEW q \in Paths, Above(o, q)
        PROVE  q # p /\ ~Above(q, p) /\ ~Above(p, q)
    BY <1>3, <2>1, AboveChain DEF Events
  <2>2. Present(w2, o) = Present(w, o)
    BY <1>0, <2>1 DEF Present
  <2> QED
    BY <2>2 DEF InUse
<1>4. o = p \/ Above(p, o) => Counted(c, w, p)[o] = 0
  BY DEF Counted
<1>5. o # p /\ ~Above(p, o) =>
        Counted(c, w, p)[o] = IF Above(o, p) /\ w[Step(o, p)] = None THEN c[o] + 1 ELSE c[o]
  BY DEF Counted
<1> QED
  BY <1>1, <1>2, <1>3, <1>4, <1>5, PresentFinite
-------------------------------------------------------------------------------
(* The invariant.                                                          *)

IInv == TypeOK /\ Shape /\ CountsPresent /\ LineIsStamped /\ IdSurvives

LEMMA IntegersTyped ==
  ASSUME NEW v \in Scalar \cup {None, Object}
  PROVE  /\ inc(v) \in Scalar /\ dec(v) \in Scalar
         /\ \A n \in Amounts : add_n(v, n) \in Scalar
<1> USE NumbersAssumption
<1>1. \A i \in Int : wrap_u64(i) \in 0..MAX_U64 /\ clamp_u64(i) \in 0..MAX_U64
  <2>1. \A i \in Int : i % (MAX_U64 + 1) \in 0..MAX_U64
    OBVIOUS
  <2> QED
    BY <2>1 DEF wrap_u64, clamp_u64
<1>2. \A i \in Int : wrap_i64(i) \in MIN_I64..MAX_I64
  <2>1. \A i \in Int : i % (MAX_I64 - MIN_I64 + 1) \in 0..MAX_I64 - MIN_I64
    OBVIOUS
  <2> QED
    BY <2>1 DEF wrap_i64
<1>3. /\ \A i \in 0..MAX_U64 : U64(i) \in Scalar
      /\ \A i \in MIN_I64..MAX_I64 : I64(i) \in Scalar
  BY DEF Scalar, Settable, Integral
<1>4. \A n \in Amounts : n \in MIN_I64..MAX_I64
  OBVIOUS
<1>5. CASE v.type = "U64"
  <2>1. v.n \in 0..MAX_U64
    BY <1>5 DEF Scalar, Settable, Integral, U64, I64, Other, None, Object
  <2> QED
    BY <1>1, <1>3, <1>4, <1>5, <2>1 DEF inc, dec, add_n
<1>6. CASE v.type = "I64"
  <2>1. v.n \in MIN_I64..MAX_I64
    BY <1>6 DEF Scalar, Settable, Integral, U64, I64, Other, None, Object
  <2> QED
    BY <1>2, <1>3, <1>4, <1>6, <2>1 DEF inc, dec, add_n
<1>7. CASE v.type # "U64" /\ v.type # "I64"
  BY <1>3, <1>4, <1>7 DEF inc, dec, add_n
<1> QED
  BY <1>5, <1>6, <1>7

\* Any write but that of the drop.
LEMMA WriteCounts ==
  ASSUME TypeOK, CountsPresent, phase # "emitted", phase' # "emitted",
         NEW p \in Paths, NEW v \in Scalar, write(p, v)
  PROVE  CountsPresent' /\ present_count' \in [Events -> Nat]
<1>1. \A o \in Events : present_count[o] = InUse(values, o)
  BY DEF CountsPresent
<1>2. ASSUME NEW o \in Events
      PROVE  present_count'[o] = InUse(values', o)
  <2>1. present_count'[o] = Counted(present_count, values, p)[o]
        /\ values' = Stored(values, p, v)
    BY DEF write
  <2> QED
    BY <1>1, <2>1, CountedTracks, PresentFinite
<1>3. present_count' = [o \in Events |-> present_count'[o]]
  BY DEF write, Counted
<1>4. \A o \in Events : present_count'[o] \in Nat
  BY <1>2, PresentFinite
<1> QED
  BY <1>2, <1>3, <1>4 DEF CountsPresent
-------------------------------------------------------------------------------
(* The drop of the guard.                                                  *)

LEMMA ParentProperties ==
  ASSUME NEW d \in Paths, Len(d) = 2
  PROVE  /\ Parent(d) \in Paths /\ Len(Parent(d)) = 1
         /\ Above(Parent(d), d) /\ Above(<<>>, Parent(d))
         /\ \A q \in Paths : Above(q, d) => q = Parent(d)
<1>1. /\ <<>> \in Events /\ Above(<<>>, d) /\ Len(<<>>) = 0
      /\ Len(<<>>) + 1 = 1
  BY PathTypes DEF Events
<1>2. Parent(d) = Step(<<>>, d)
  BY <1>1 DEF Parent, Step
<1>3. /\ Step(<<>>, d) \in Paths
      /\ Above(<<>>, Step(<<>>, d)) /\ Len(Step(<<>>, d)) = Len(<<>>) + 1
      /\ Step(<<>>, d) = d \/ Above(Step(<<>>, d), d)
      /\ \A q \in Paths : /\ Above(<<>>, q) /\ Len(q) = Len(<<>>) + 1
                          /\ q = d \/ Above(q, d)
                          => q = Step(<<>>, d)
  BY <1>1, StepProperties, Zenon
<1>4. Parent(d) # d
  BY <1>1, <1>2, <1>3
<1>5. ASSUME NEW q \in Paths, Above(q, d)
      PROVE  q = Parent(d)
  <2>1. Len(q) < 2 /\ Len(q) > 0 /\ Len(q) \in Nat
    BY <1>5, PathTypes DEF Above, Events
  <2>2. Above(<<>>, q)
    BY PathTypes
  <2> QED
    BY <1>1, <1>2, <1>3, <1>5, <2>1, <2>2
<1> QED
  BY <1>1, <1>2, <1>3, <1>4, <1>5

\* The paths whose event the guard has to make.
MissingPaths(ds) == ds \subseteq {d \in Paths : Len(d) = 2 /\ Missing(d)}

LEMMA ChildrenTree ==
  ASSUME values \in Slots, Shape, NEW ds, MissingPaths(ds)
  PROVE  Children(ds) \in Slots /\ Tree(Children(ds))
<1> DEFINE w == Children(ds)
<1>1. w \in Slots
  BY DEF Slots, Children
<1>2. ASSUME NEW a \in Paths, NEW b \in Paths, Above(b, a), w[a] # None
      PROVE  w[b] = Object
  <2>1. \A d \in ds : Parent(d) # a
    <3> SUFFICES ASSUME NEW d \in ds, Parent(d) = a PROVE FALSE
      OBVIOUS
    <3>1. Len(a) = 1 /\ Len(b) > 0
      BY ParentProperties, PathTypes DEF MissingPaths
    <3> QED
      BY <1>2, <3>1, PathTypes DEF Above, Events
  <2>2. \A d \in ds : ~Above(Parent(d), a)
    BY <1>2, <2>1 DEF Children
  <2>3. values[b] = Object
    BY <1>2, <2>1, <2>2 DEF Children, Shape, Tree
  <2>4. \A d \in ds : ~Above(Parent(d), b)
    BY <1>2, <2>2, ParentProperties, AboveChain DEF MissingPaths, Events
  <2> QED
    BY <2>3, <2>4 DEF Children
<1> QED
  BY <1>1, <1>2 DEF Tree

\* The guard's own children: exact counts inside of the event; outside, one
\* for each child made, whether or not its slot was in use.
LEMMA ChildCountsTrack ==
  ASSUME values \in Slots, Shape, NEW ds, MissingPaths(ds),
         \A o \in Events : present_count[o] = InUse(values, o)
  PROVE  /\ \A o \in Events \ {<<>>} : ChildCounts(ds)[o] = InUse(Children(ds), o)
         /\ IsFiniteSet(ds) =>
              ChildCounts(ds)[<<>>] \in
                InUse(Children(ds), <<>>)..InUse(Children(ds), <<>>) + Cardinality(ds)
<1> DEFINE w == Children(ds)
<1>1. ASSUME NEW o \in Events \ {<<>>}
      PROVE  ChildCounts(ds)[o] = InUse(w, o)
  <2>1. o \in Paths /\ Len(o) > 0
    BY PathTypes DEF Events
  <2>2. ASSUME NEW q \in Paths, Above(o, q), NEW d \in ds
        PROVE  q # Parent(d)
    BY <2>1, <2>2, ParentProperties, PathTypes DEF MissingPaths, Above, Events
  <2>3. CASE \E d \in ds : o = Parent(d) \/ Above(Parent(d), o)
    <3>1. PICK d \in ds : o = Parent(d) \/ Above(Parent(d), o)
      BY <2>3
    <3>2. ASSUME NEW q \in Paths, Above(o, q)
          PROVE  w[q] = None
      <4>1. Above(Parent(d), q)
        BY <2>1, <3>1, <3>2, ParentProperties, AboveChain DEF MissingPaths, Events
      <4> QED
        BY <2>2, <3>2, <4>1 DEF Children
    <3>3. Present(w, o) = {}
      BY <3>2 DEF Present
    <3> QED
      BY <2>1, <2>3, <3>3, FS_EmptySet DEF InUse, ChildCounts
  <2>4. CASE ~\E d \in ds : o = Parent(d) \/ Above(Parent(d), o)
    <3>1. ASSUME NEW q \in Paths, Above(o, q), Len(q) = Len(o) + 1
          PROVE  w[q] = values[q]
      <4>1. \A d \in ds : ~Above(Parent(d), q)
        <5> SUFFICES ASSUME NEW d \in ds, Above(Parent(d), q) PROVE FALSE
          OBVIOUS
        <5>1. Above(o, Parent(d))
          BY <2>1, <2>4, <3>1, ParentProperties, AboveChain DEF MissingPaths, Events
        <5> QED
          BY <2>2, <5>1, ParentProperties DEF MissingPaths
      <4> QED
        BY <2>2, <3>1, <4>1 DEF Children
    <3>2. Present(w, o) = Present(values, o)
      BY <3>1 DEF Present
    <3> QED
      BY <2>1, <2>4, <3>2 DEF InUse, ChildCounts
  <2> QED
    BY <2>3, <2>4
<1>2. ASSUME IsFiniteSet(ds)
      PROVE  ChildCounts(ds)[<<>>] \in InUse(w, <<>>)..InUse(w, <<>>) + Cardinality(ds)
  <2>1. <<>> \in Events /\ InUse(values, <<>>) \in Nat /\ InUse(w, <<>>) \in Nat
    BY PresentFinite DEF Events
  <2>2. Cardinality(ds) \in Nat
    BY <1>2, FS_CardinalityType
  <2>3. ChildCounts(ds)[<<>>] = InUse(values, <<>>) + Cardinality(ds)
    BY <2>1 DEF ChildCounts
  <2>4. InUse(values, <<>>) <= InUse(w, <<>>)
    <3>1. Present(values, <<>>) \in SUBSET Present(w, <<>>)
      <4> SUFFICES ASSUME NEW q \in Paths, Len(q) = 1, values[q] # None
                   PROVE  w[q] # None
        BY PathTypes DEF Present
      <4>1. \A d \in ds : ~Above(Parent(d), q)
        BY ParentProperties DEF MissingPaths, Above
      <4> QED
        BY <4>1, SlotKinds DEF Children
    <3> QED
      BY <3>1, PresentFinite, FS_Subset DEF InUse
  <2>5. InUse(w, <<>>) <= InUse(values, <<>>) + Cardinality(ds)
    <3> DEFINE ps == {Parent(d) : d \in ds}
    <3>1. IsFiniteSet(ps) /\ Cardinality(ps) \in Nat /\ Cardinality(ps) <= Cardinality(ds)
      <4>1. [d \in ds |-> Parent(d)] \in Surjection(ds, ps)
        BY DEF Surjection
      <4> QED
        BY <1>2, <4>1, FS_CardinalityType, FS_Surjection
    <3>2. Present(w, <<>>) \subseteq Present(values, <<>>) \cup ps
      BY DEF Present, Children
    <3> QED
      <4> DEFINE old == Present(values, <<>>)
      <4>1. IsFiniteSet(old) /\ IsFiniteSet(old \cap ps) /\ IsFiniteSet(old \cup ps)
        BY <3>1, PresentFinite, FS_Subset, FS_Union
      <4>2. Cardinality(old \cap ps) \in Nat
        BY <4>1, FS_CardinalityType
      <4>3. Cardinality(old \cup ps) =
              Cardinality(old) + Cardinality(ps) - Cardinality(old \cap ps)
        BY <3>1, <4>1, FS_Union
      <4>4. Cardinality(Present(w, <<>>)) <= Cardinality(old \cup ps)
        BY <3>2, <4>1, FS_Subset
      <4>5. Cardinality(old \cup ps) \in Nat
        BY <4>1, FS_CardinalityType
      <4> QED
        BY <2>1, <2>2, <3>1, <4>2, <4>3, <4>4, <4>5 DEF InUse
  <2> QED
    BY <2>1, <2>2, <2>3, <2>4, <2>5
<1> QED
  BY <1>1, <1>2

\* Counts of an event that the guard may be about to emit.
Covers(c, w) ==
  \A o \in Events :
    IF o = <<>> THEN c[o] \in InUse(w, o)..InUse(w, o) + 2 ELSE c[o] = InUse(w, o)

LEMMA CoversStored ==
  ASSUME NEW w, NEW c, Covers(c, w), NEW p \in Paths, NEW v \in Scalar
  PROVE  Covers(Counted(c, w, p), Stored(w, p, v))
<1> SUFFICES ASSUME NEW o \in Events
             PROVE  LET n == InUse(Stored(w, p, v), o) IN
                    IF o = <<>> THEN Counted(c, w, p)[o] \in n..n + 2
                                ELSE Counted(c, w, p)[o] = n
  BY DEF Covers
<1>1. InUse(w, o) \in Nat /\ InUse(Stored(w, p, v), o) \in Nat
  BY PresentFinite
<1>2. CASE o = <<>>
  <2>1. o # p /\ ~Above(p, o) /\ Above(o, p)
    BY <1>2, PathTypes DEF Events
  <2>2. c[o] \in InUse(w, o)..InUse(w, o) + 2
    BY <1>2 DEF Covers
  <2> QED
    BY <1>1, <1>2, <2>1, <2>2, CountedTracks
<1>3. CASE o # <<>>
  <2>1. c[o] = InUse(w, o)
    BY <1>3 DEF Covers
  <2> QED
    BY <1>1, <1>3, <2>1, CountedTracks
<1> QED
  BY <1>2, <1>3

\* Both stamps put into an event, wherever they go.
emit(w, c) ==
  LET timed == Stored(w, DURATION_PATH, Other(Elapsed)) IN
  /\ values' = Stored(timed, TIMESTAMP_PATH, Other(Now))
  /\ present_count' = Counted(Counted(c, w, DURATION_PATH), timed, TIMESTAMP_PATH)

\* With the children made, neither leaf of the fast drop misses its event.
LEMMA FastDropEmits ==
  ASSUME TypeOK, drop_fast,
         NEW ds, ds = {d \in {DURATION_PATH, TIMESTAMP_PATH} : Missing(d)}
  PROVE  emit(Children(ds), ChildCounts(ds))
<1> DEFINE made == Children(ds)
           timed == Stored(made, DURATION_PATH, Other(Elapsed))
<1>1. /\ DURATION_PATH \in Paths /\ Len(DURATION_PATH) = 2
      /\ TIMESTAMP_PATH \in Paths /\ Len(TIMESTAMP_PATH) = 2
  BY SchemaAssumption DEF drop_fast, TypeOK
<1>2. ASSUME NEW d \in {DURATION_PATH, TIMESTAMP_PATH}
      PROVE  /\ Parent(d) \in Paths /\ Len(Parent(d)) = 1
             /\ made[Parent(d)] = Object
  <2>1. Parent(d) \in Paths /\ Len(Parent(d)) = 1
    BY <1>1, ParentProperties
  <2>2. \A e \in ds : ~Above(Parent(e), Parent(d))
    BY <1>1, <2>1, ParentProperties DEF Above
  <2>3. d \notin ds => values[Parent(d)] = Object
    BY DEF Missing
  <2> QED
    BY <2>1, <2>2, <2>3 DEF Children
<1>3. timed[Parent(TIMESTAMP_PATH)] = Object
  <2>1. /\ Parent(TIMESTAMP_PATH) # DURATION_PATH
        /\ ~Above(DURATION_PATH, Parent(TIMESTAMP_PATH))
    <3>1. Len(Parent(TIMESTAMP_PATH)) = 1
      BY <1>2
    <3> QED
      BY <1>1, <3>1 DEF Above
  <2> QED
    BY <1>2, <2>1 DEF Stored
<1>4. Leaf(made, DURATION_PATH, Other(Elapsed)) = timed
  BY <1>2 DEF Leaf
<1>5. LeafCount(ChildCounts(ds), made, DURATION_PATH) =
        Counted(ChildCounts(ds), made, DURATION_PATH)
  BY <1>2 DEF LeafCount
<1>6. /\ values' = Leaf(timed, TIMESTAMP_PATH, Other(Now))
      /\ present_count' =
           LeafCount(Counted(ChildCounts(ds), made, DURATION_PATH), timed, TIMESTAMP_PATH)
  BY <1>4, <1>5 DEF drop_fast
<1>7. /\ values' = Stored(timed, TIMESTAMP_PATH, Other(Now))
      /\ present_count' =
           Counted(Counted(ChildCounts(ds), made, DURATION_PATH), timed, TIMESTAMP_PATH)
  BY <1>3, <1>6 DEF Leaf, LeafCount
<1> QED
  BY <1>7 DEF emit

\* The values and counts the drop stamps: those of the event, or those with
\* the children it made.
LEMMA DropStamps ==
  ASSUME TypeOK, Shape, CountsPresent, drop
  PROVE  \E w, c : /\ emit(w, c) /\ w \in Slots /\ Tree(w) /\ Covers(c, w)
                   /\ \/ w = values
                      \/ \E ds : /\ MissingPaths(ds) /\ w = Children(ds)
                                 /\ ds \subseteq {DURATION_PATH, TIMESTAMP_PATH}
                                 /\ Len(DURATION_PATH) = 2 /\ Len(TIMESTAMP_PATH) = 2
<1>1. values \in Slots
  BY DEF TypeOK, Slots
<1>2. \A o \in Events : present_count[o] = InUse(values, o) /\ InUse(values, o) \in Nat
  BY PresentFinite DEF drop, CountsPresent
<1>3. CASE drop_fast
  <2> DEFINE ds == {d \in {DURATION_PATH, TIMESTAMP_PATH} : Missing(d)}
  <2>1. DURATION_PATH \in Paths /\ TIMESTAMP_PATH \in Paths
    BY SchemaAssumption DEF TypeOK
  <2>2. MissingPaths(ds)
    BY <1>3, <2>1 DEF drop_fast, MissingPaths
  <2>3. IsFiniteSet(ds) /\ Cardinality(ds) \in 0..2
    <3>1. IsFiniteSet({DURATION_PATH}) /\ Cardinality({DURATION_PATH}) = 1
      BY FS_Singleton
    <3>2. {DURATION_PATH} \cup {TIMESTAMP_PATH} = {DURATION_PATH, TIMESTAMP_PATH}
      OBVIOUS
    <3>3. /\ IsFiniteSet({DURATION_PATH, TIMESTAMP_PATH})
          /\ Cardinality({DURATION_PATH, TIMESTAMP_PATH}) \in 1..2
      BY <3>1, <3>2, FS_AddElement
    <3> QED
      BY <3>3, FS_Subset, FS_CardinalityType
  <2>4. Children(ds) \in Slots /\ Tree(Children(ds))
    BY <1>1, <2>2, ChildrenTree
  <2>5. /\ \A o \in Events \ {<<>>} : ChildCounts(ds)[o] = InUse(Children(ds), o)
        /\ ChildCounts(ds)[<<>>] \in
             InUse(Children(ds), <<>>)..InUse(Children(ds), <<>>) + Cardinality(ds)
    BY <1>1, <1>2, <2>2, <2>3, ChildCountsTrack
  <2>6. InUse(Children(ds), <<>>) \in Nat
    BY PresentFinite
  <2>7. Covers(ChildCounts(ds), Children(ds))
    BY <2>3, <2>5, <2>6 DEF Covers
  <2>8. emit(Children(ds), ChildCounts(ds))
    BY <1>3, FastDropEmits
  <2> QED
    BY <1>3, <2>2, <2>4, <2>7, <2>8 DEF drop_fast
<1>4. CASE drop_slow
  <2>1. Covers(present_count, values)
    BY <1>2 DEF Covers
  <2> QED
    BY <1>1, <1>4, <2>1 DEF drop_slow, emit, Shape
<1> QED
  BY <1>3, <1>4 DEF drop

LEMMA EmitInv ==
  ASSUME TypeOK, NEW w \in Slots, NEW c, Tree(w), Covers(c, w), emit(w, c)
  PROVE  /\ values' \in Slots /\ Tree(values')
         /\ present_count' \in [Events -> Nat] /\ Covers(present_count', values')
         /\ values'[DURATION_PATH] = Other(Elapsed)
         /\ values'[TIMESTAMP_PATH] = Other(Now)
         /\ w[ID_PATH] = Other(Id) => values'[ID_PATH] = Other(Id)
<1> DEFINE s == Stored(w, DURATION_PATH, Other(Elapsed))
           c2 == Counted(c, w, DURATION_PATH)
<1>1. /\ DURATION_PATH \in Paths /\ TIMESTAMP_PATH \in Paths /\ ID_PATH \in Paths
      /\ ~Related(DURATION_PATH, TIMESTAMP_PATH)
      /\ ~Related(DURATION_PATH, ID_PATH) /\ ~Related(TIMESTAMP_PATH, ID_PATH)
  BY SchemaAssumption DEF TypeOK
<1>2. Other(Elapsed) \in Scalar /\ Other(Now) \in Scalar
  BY DEF Scalar
<1>3. values' = Stored(s, TIMESTAMP_PATH, Other(Now))
      /\ present_count' = Counted(c2, s, TIMESTAMP_PATH)
  BY DEF emit
<1>4. s \in Slots /\ Tree(s) /\ Covers(c2, s)
  BY <1>1, <1>2, StoredTyped, StoredTree, CoversStored
<1>5. values' \in Slots /\ Tree(values') /\ Covers(present_count', values')
  BY <1>1, <1>2, <1>3, <1>4, StoredTyped, StoredTree, CoversStored
<1>6. present_count' \in [Events -> Nat]
  <2>1. ASSUME NEW o \in Events
        PROVE  present_count'[o] \in Nat
    BY <1>5, PresentFinite DEF Covers
  <2>2. present_count' = [o \in Events |-> present_count'[o]]
    BY <1>3 DEF Counted
  <2> QED
    BY <2>1, <2>2
<1>7. /\ values'[DURATION_PATH] = Other(Elapsed)
      /\ values'[TIMESTAMP_PATH] = Other(Now)
      /\ values'[ID_PATH] = w[ID_PATH]
  BY <1>1, <1>3 DEF Stored, Related
<1> QED
  BY <1>5, <1>6, <1>7

\* A dropped guard's own children never take the place of the event that
\* holds the id.
LEMMA ChildrenKeepId ==
  ASSUME TypeOK, Shape, values[ID_PATH] = Other(Id), NEW ds, MissingPaths(ds),
         ds \subseteq {DURATION_PATH, TIMESTAMP_PATH}
  PROVE  Children(ds)[ID_PATH] = Other(Id)
<1>1. ID_PATH \in Paths /\ Other(Id) # None
  BY SchemaAssumption DEF Other, None
<1>2. ASSUME NEW d \in ds
      PROVE  Parent(d) # ID_PATH /\ ~Above(Parent(d), ID_PATH)
  <2>1. d \in Paths /\ Len(d) = 2 /\ values[Parent(d)] # Object
    BY DEF MissingPaths, Missing
  <2>2. ~Related(d, ID_PATH)
    BY SchemaAssumption DEF TypeOK, Related
  <2>3. Parent(d) \in Paths /\ Above(Parent(d), d)
    BY <2>1, ParentProperties
  <2> QED
    BY <1>1, <2>1, <2>2, <2>3 DEF Shape, Tree, Related
<1> QED
  BY <1>1, <1>2 DEF Children
-------------------------------------------------------------------------------
LEMMA InitInv == Init => IInv
<1> SUFFICES ASSUME Init PROVE IInv
  OBVIOUS
<1>1. TypeOK
  <2>1. Len(Defaults) \in Nat
    BY SchemaAssumption, LenProperties
  <2>2. values \in [Paths -> Scalar \cup {None, Object}]
    BY DEF Init
  <2>3. present_count \in [Events -> Nat]
    BY DEF Init
  <2>4. statement \in 1..Len(Defaults) + 1
    BY <2>1 DEF Init
  <2> QED
    BY <2>2, <2>3, <2>4 DEF Init, TypeOK
<1>2. Shape
  BY DEF Init, Shape, Tree
<1>3. CountsPresent
  <2>1. ASSUME NEW o \in Events
        PROVE  InUse(values, o) = 0
    <3>1. Present(values, o) = {}
      BY DEF Init, Present
    <3> QED
      BY <3>1, FS_EmptySet DEF InUse
  <2> QED
    BY <2>1 DEF Init, CountsPresent
<1>4. LineIsStamped /\ IdSurvives
  BY DEF Init, LineIsStamped, IdSurvives
<1> QED
  BY <1>1, <1>2, <1>3, <1>4 DEF IInv

\* The writes of the builder and of user code.
LEMMA WriteInv ==
  ASSUME IInv, phase # "emitted", phase' # "emitted",
         NEW p \in Paths, NEW v \in Scalar, write(p, v)
  PROVE  /\ values' \in Slots /\ present_count' \in [Events -> Nat]
         /\ Shape' /\ CountsPresent' /\ LineIsStamped'
<1>1. values' = Stored(values, p, v) /\ values \in Slots
  BY DEF write, IInv, TypeOK, Slots
<1>2. values' \in Slots /\ Shape'
  BY <1>1, StoredTyped, StoredTree DEF IInv, Shape
<1>3. CountsPresent' /\ present_count' \in [Events -> Nat]
  BY WriteCounts DEF IInv
<1>4. LineIsStamped'
  BY DEF LineIsStamped
<1> QED
  BY <1>2, <1>3, <1>4

\* A write that does not touch the id's path leaves the id.
LEMMA IdKept ==
  ASSUME IdSurvives, id_kept \in BOOLEAN, NEW p \in Paths, NEW v,
         write(p, v), keep_id(p)
  PROVE  IdSurvives' /\ id_kept' \in BOOLEAN
BY SchemaAssumption DEF write, keep_id, Stored, IdSurvives, Related

\* What user code writes is a scalar.
LEMMA UserWrites ==
  ASSUME TypeOK, UserStep
  PROVE  \E p \in Paths, v \in Scalar : user(p, v)
<1>1. \A p \in Paths : values[p] \in Scalar \cup {None, Object}
  BY DEF TypeOK
<1>2. Settable \subseteq Scalar
  BY DEF Scalar
<1>3. PICK p \in Paths : \/ \E v \in Settable : user(p, v)
                         \/ user(p, inc(values[p]))
                         \/ user(p, dec(values[p]))
                         \/ \E n \in Amounts : user(p, add_n(values[p], n))
  BY DEF UserStep, add_path, inc_path, dec_path, add_n_path
<1> QED
  BY <1>1, <1>2, <1>3, IntegersTyped

LEMMA NextInv == IInv /\ [Next]_vars => IInv'
<1> SUFFICES ASSUME IInv, [Next]_vars PROVE IInv'
  OBVIOUS
<1>0. /\ DURATION_PATH \in Paths /\ TIMESTAMP_PATH \in Paths /\ ID_PATH \in Paths
      /\ Len(Defaults) \in Nat
  BY SchemaAssumption, LenProperties DEF IInv, TypeOK
<1>1. CASE default_stmt
  <2>1. statement \in 1..Len(Defaults)
    BY <1>0, <1>1 DEF default_stmt, IInv, TypeOK
  <2>2. Defaults[statement].path \in Paths /\ Defaults[statement].value \in Scalar
    <3>1. Defaults[statement] \in [path : Paths, value : Scalar]
      BY <2>1, SchemaAssumption, ElementOfSeq
    <3> QED
      BY <3>1
  <2>3. /\ phase = "defaults" /\ phase' = "defaults"
        /\ write(Defaults[statement].path, Defaults[statement].value)
        /\ keep_id(Defaults[statement].path)
        /\ statement' = statement + 1 /\ DURATION_PATH' = DURATION_PATH
    BY <1>1 DEF default_stmt
  <2>4. /\ values' \in Slots /\ present_count' \in [Events -> Nat]
        /\ Shape' /\ CountsPresent' /\ LineIsStamped'
    BY <2>2, <2>3, WriteInv
  <2>5. IdSurvives' /\ id_kept' \in BOOLEAN
    BY <2>2, <2>3, IdKept DEF IInv, TypeOK
  <2>6. TypeOK'
    BY <1>0, <2>1, <2>3, <2>4, <2>5 DEF IInv, TypeOK, Slots
  <2> QED
    BY <2>4, <2>5, <2>6 DEF IInv
<1>2. CASE run_preset
  BY <1>2 DEF run_preset, IInv, TypeOK, Shape, CountsPresent, LineIsStamped, IdSurvives
<1>3. CASE build
  <2>1. /\ phase = "preset" /\ phase' = "open" /\ write(ID_PATH, Other(Id))
        /\ id_kept' = TRUE
        /\ statement' = statement /\ DURATION_PATH' = DURATION_PATH
    BY <1>3 DEF build
  <2>2. Other(Id) \in Scalar
    BY DEF Scalar
  <2>3. /\ values' \in Slots /\ present_count' \in [Events -> Nat]
        /\ Shape' /\ CountsPresent' /\ LineIsStamped'
    BY <1>0, <2>1, <2>2, WriteInv
  <2>4. IdSurvives'
    BY <1>0, <2>1 DEF write, Stored, IdSurvives
  <2>5. TypeOK'
    BY <2>1, <2>3 DEF IInv, TypeOK, Slots
  <2> QED
    BY <2>3, <2>4, <2>5 DEF IInv
<1>4. CASE UserStep
  <2>1. PICK p \in Paths, v \in Scalar : user(p, v)
    BY <1>4, UserWrites DEF IInv
  <2>2. /\ phase # "emitted" /\ phase' = phase /\ write(p, v) /\ keep_id(p)
        /\ statement' = statement /\ DURATION_PATH' = DURATION_PATH
    BY <2>1 DEF user
  <2>3. /\ values' \in Slots /\ present_count' \in [Events -> Nat]
        /\ Shape' /\ CountsPresent' /\ LineIsStamped'
    BY <2>2, WriteInv
  <2>4. IdSurvives' /\ id_kept' \in BOOLEAN
    BY <2>2, IdKept DEF IInv, TypeOK
  <2>5. TypeOK'
    BY <2>2, <2>3, <2>4 DEF IInv, TypeOK, Slots
  <2> QED
    BY <2>3, <2>4, <2>5 DEF IInv
<1>5. CASE drop
  <2>1. PICK w, c : /\ emit(w, c) /\ w \in Slots /\ Tree(w) /\ Covers(c, w)
                    /\ \/ w = values
                       \/ \E ds : /\ MissingPaths(ds) /\ w = Children(ds)
                                  /\ ds \subseteq {DURATION_PATH, TIMESTAMP_PATH}
                                  /\ Len(DURATION_PATH) = 2 /\ Len(TIMESTAMP_PATH) = 2
    BY <1>5, DropStamps DEF IInv
  <2>2. /\ phase' = "emitted" /\ statement' = statement
        /\ DURATION_PATH' = DURATION_PATH /\ id_kept' = id_kept
    BY <1>5 DEF drop
  <2>3. /\ values' \in Slots /\ Tree(values')
        /\ present_count' \in [Events -> Nat] /\ Covers(present_count', values')
        /\ values'[DURATION_PATH] = Other(Elapsed)
        /\ values'[TIMESTAMP_PATH] = Other(Now)
        /\ w[ID_PATH] = Other(Id) => values'[ID_PATH] = Other(Id)
    BY <2>1, EmitInv DEF IInv
  <2>4. IdSurvives'
    BY <2>1, <2>2, <2>3, ChildrenKeepId DEF IInv, IdSurvives
  <2>5. TypeOK' /\ Shape' /\ CountsPresent' /\ LineIsStamped'
    BY <2>2, <2>3 DEF IInv, TypeOK, Slots, Shape, CountsPresent, Covers, LineIsStamped
  <2> QED
    BY <2>4, <2>5 DEF IInv
<1>6. CASE UNCHANGED vars
  BY <1>6 DEF vars, IInv, TypeOK, Shape, CountsPresent, LineIsStamped, IdSurvives
<1> QED
  BY <1>1, <1>2, <1>3, <1>4, <1>5, <1>6 DEF Next

\* The type invariant of the event: whatever is set, incremented or added at
\* whatever path, every slot holds a value of its type within its limits, an
\* object or nothing.
THEOREM TypeCorrect == Spec => []TypeOK
<1>1. IInv => TypeOK
  BY DEF IInv
<1> QED
  BY <1>1, InitInv, NextInv, PTL DEF Spec

\* The cached counts are those of the slots in use (wide_event.rs, lines 42-45),
\* but for the excess the drop may leave in the outermost one.
THEOREM CountsPresentHolds == Spec => []CountsPresent
<1>1. IInv => CountsPresent
  BY DEF IInv
<1> QED
  BY <1>1, InitInv, NextInv, PTL DEF Spec

\* Every line emitted has its duration and its timestamp.
THEOREM LineIsStampedHolds == Spec => []LineIsStamped
<1>1. IInv => LineIsStamped
  BY DEF IInv
<1> QED
  BY <1>1, InitInv, NextInv, PTL DEF Spec

\* The id of the builder survives the drop of the guard.
THEOREM IdSurvivesHolds == Spec => []IdSurvives
<1>1. IInv => IdSurvives
  BY DEF IInv
<1> QED
  BY <1>1, InitInv, NextInv, PTL DEF Spec
-------------------------------------------------------------------------------
(* The refinement of FieldMap.                                             *)

FieldsIn(w) == [p \in Paths |-> IF w[p] = Object THEN None ELSE w[p]]

LEMMA PutStored ==
  ASSUME NEW w, NEW p \in Paths, NEW v \in Scalar
  PROVE  FieldsIn(Stored(w, p, v)) = Abstract!Put(FieldsIn(w), p, v)
<1> DEFINE map == FieldsIn(w)
<1>1. \A q \in Paths : <<p, q>> \in Conflicts <=> p # q /\ (Above(p, q) \/ Above(q, p))
  BY DEF Conflicts, Related
<1>2. ASSUME NEW q \in Paths
      PROVE  FieldsIn(Stored(w, p, v))[q] =
               IF q = p THEN v ELSE IF <<p, q>> \in Conflicts THEN None ELSE map[q]
  BY <1>1, SlotKinds, PathTypes DEF FieldsIn, Stored, Events
<1>3. FieldsIn(Stored(w, p, v)) = [q \in Paths |-> FieldsIn(Stored(w, p, v))[q]]
  BY DEF FieldsIn
<1> QED
  BY <1>2, <1>3 DEF Abstract!Put

\* Making children changes no field that the stamps leave standing.
LEMMA PutChildren ==
  ASSUME TypeOK, Shape, NEW ds, MissingPaths(ds),
         ds \subseteq {DURATION_PATH, TIMESTAMP_PATH},
         NEW e \in Scalar, NEW n \in Scalar
  PROVE  Abstract!Put(Abstract!Put(FieldsIn(Children(ds)), DURATION_PATH, e), TIMESTAMP_PATH, n)
         = Abstract!Put(Abstract!Put(FieldsIn(values), DURATION_PATH, e), TIMESTAMP_PATH, n)
<1>1. DURATION_PATH \in Paths /\ TIMESTAMP_PATH \in Paths
  BY SchemaAssumption DEF TypeOK
<1>2. ASSUME NEW q \in Paths, FieldsIn(Children(ds))[q] # FieldsIn(values)[q]
      PROVE  \E d \in ds : <<d, q>> \in Conflicts
  <2>1. Children(ds)[q] # values[q]
    BY <1>2 DEF FieldsIn
  <2>2. ASSUME NEW d \in ds, Above(Parent(d), q)
        PROVE  values[q] = None
    <3>1. Parent(d) \in Paths /\ values[Parent(d)] # Object
      BY <2>2, ParentProperties DEF MissingPaths, Missing
    <3> QED
      BY <2>2, <3>1 DEF Shape, Tree
  <2>3. PICK d \in ds : q = Parent(d)
    BY <2>1, <2>2, <1>2, SlotKinds DEF Children, FieldsIn
  <2>4. d \in Paths /\ Above(q, d) /\ d # q
    BY <2>3, ParentProperties DEF MissingPaths
  <2> QED
    BY <2>4 DEF Conflicts, Related
<1> DEFINE put(map) == Abstract!Put(Abstract!Put(map, DURATION_PATH, e), TIMESTAMP_PATH, n)
<1>3. ASSUME NEW q \in Paths
      PROVE  put(FieldsIn(Children(ds)))[q] = put(FieldsIn(values))[q]
  BY <1>2, <1>3 DEF Abstract!Put
<1> HIDE DEF FieldsIn
<1> QED
  BY <1>3 DEF Abstract!Put

LEMMA InitRefines == Init => Abstract!Init
BY SchemaAssumption DEF Init, Abstract!Init, FieldsOf

LEMMA StepRefines == IInv /\ [Next]_vars => [Abstract!Next]_Abstract!vars
<1> SUFFICES ASSUME IInv, [Next]_vars PROVE [Abstract!Next]_Abstract!vars
  OBVIOUS
<1>0. FieldsOf = FieldsIn(values) /\ FieldsOf' = FieldsIn(values')
  BY DEF FieldsOf, FieldsIn
<1>1. ASSUME NEW p \in Paths, NEW v \in Scalar, write(p, v),
             phase # "emitted", phase' # "emitted", DURATION_PATH' = DURATION_PATH
      PROVE  Abstract!Next
  <2>1. FieldsOf' = Abstract!Put(FieldsOf, p, v)
    BY <1>0, <1>1, PutStored DEF write
  <2>2. (phase = "emitted") = FALSE /\ (phase' = "emitted") = FALSE
    BY <1>1
  <2>3. Abstract!Set(p, v)
    BY <1>1, <2>1, <2>2 DEF Abstract!Set
  <2> QED
    BY <2>3 DEF Abstract!Next
<1>2. CASE default_stmt
  <2>1. statement \in 1..Len(Defaults)
    BY <1>2, SchemaAssumption, LenProperties DEF default_stmt, IInv, TypeOK
  <2>2. Defaults[statement] \in [path : Paths, value : Scalar]
    BY <2>1, SchemaAssumption, ElementOfSeq
  <2>3. Defaults[statement].path \in Paths /\ Defaults[statement].value \in Scalar
    BY <2>2
  <2> QED
    BY <1>1, <1>2, <2>3 DEF default_stmt
<1>3. CASE run_preset
  <2>1. FieldsOf' = FieldsOf /\ DURATION_PATH' = DURATION_PATH
    BY <1>3 DEF run_preset, FieldsOf
  <2>2. (phase = "emitted") = FALSE /\ (phase' = "emitted") = FALSE
    BY <1>3 DEF run_preset
  <2> QED
    BY <2>1, <2>2 DEF Abstract!vars
<1>4. CASE build
  <2>1. ID_PATH \in Paths /\ Other(Id) \in Scalar
    BY SchemaAssumption DEF Scalar
  <2> QED
    BY <1>1, <1>4, <2>1 DEF build
<1>5. CASE UserStep
  <2>1. PICK p \in Paths, v \in Scalar : user(p, v)
    BY <1>5, UserWrites DEF IInv
  <2> QED
    BY <1>1, <2>1 DEF user
<1>6. CASE drop
  <2> DEFINE put(map) ==
        Abstract!Put(Abstract!Put(map, DURATION_PATH, Other(Elapsed)), TIMESTAMP_PATH, Other(Now))
  <2>1. PICK w, c : /\ emit(w, c)
                    /\ \/ w = values
                       \/ \E ds : /\ MissingPaths(ds) /\ w = Children(ds)
                                  /\ ds \subseteq {DURATION_PATH, TIMESTAMP_PATH}
    BY <1>6, DropStamps DEF IInv
  <2>2. /\ DURATION_PATH \in Paths /\ TIMESTAMP_PATH \in Paths
        /\ Other(Elapsed) \in Scalar /\ Other(Now) \in Scalar
    BY SchemaAssumption DEF IInv, TypeOK, Scalar
  <2>3. FieldsOf' = put(FieldsIn(w))
    BY <1>0, <2>1, <2>2, PutStored DEF emit
  <2>4. put(FieldsIn(w)) = put(FieldsOf)
    BY <1>0, <2>1, <2>2, PutChildren DEF IInv
  <2>5. (phase = "emitted") = FALSE /\ (phase' = "emitted") = TRUE
        /\ DURATION_PATH' = DURATION_PATH
    BY <1>6 DEF drop
  <2>6. Abstract!Emit
    BY <2>3, <2>4, <2>5 DEF Abstract!Emit
  <2> QED
    BY <2>6 DEF Abstract!Next
<1>7. CASE UNCHANGED vars
  BY <1>7 DEF vars, FieldsOf, Abstract!vars
<1> QED
  BY <1>2, <1>3, <1>4, <1>5, <1>6, <1>7 DEF Next

\* The event with its objects, its counts and its two ways to drop does what
\* FieldMap says: a write takes away what it conflicts with and nothing else.
THEOREM EventRefinesFieldMap == Spec => ImplementsFieldMap
<1>1. Spec => []IInv
  BY InitInv, NextInv, PTL DEF Spec
<1> QED
  BY <1>1, InitRefines, StepRefines, PTL DEF Spec, ImplementsFieldMap, Abstract!Spec
-------------------------------------------------------------------------------
(* The serializers.  Both go down the tree of nested events; the recursion *)
(* ends because an event has more paths inside of it than any of its slots *)
(* (Height).                                                               *)

\* What is inside of an event, from which the recursion of the serializers goes
\* down.
Inside(o) == {q \in Paths : Above(o, q)}
Height(o) == Cardinality(Inside(o))

LEMMA HeightType ==
  /\ IsFiniteSet(Paths) /\ Cardinality(Paths) \in Nat
  /\ \A o \in Events : IsFiniteSet(Inside(o)) /\ Height(o) \in Nat
                       /\ Height(o) <= Cardinality(Paths)
<1>1. IsFiniteSet(Paths)
  BY PathsAssumption
<1>2. ASSUME NEW o \in Events
      PROVE  IsFiniteSet(Inside(o)) /\ Height(o) \in Nat /\ Height(o) <= Cardinality(Paths)
  <2>1. Inside(o) \in SUBSET Paths
    BY DEF Inside
  <2> QED BY <1>1, <2>1, FS_Subset, FS_CardinalityType DEF Height
<1> QED BY <1>1, <1>2, FS_CardinalityType

LEMMA HeightFalls ==
  ASSUME NEW o \in Events, NEW p \in Paths, Above(o, p)
  PROVE  Height(p) < Height(o)
<1>1. p \in Events
  BY DEF Events
<1>2. \A q \in Paths : Above(p, q) => Above(o, q)
  <2> SUFFICES ASSUME NEW q \in Paths, Above(p, q) PROVE Above(o, q)
    OBVIOUS
  <2>1. q \in Events
    BY DEF Events
  <2> QED BY <1>1, <2>1, AboveChain
<1>3. p \in Inside(o) /\ p \notin Inside(p) /\ Inside(p) \subseteq Inside(o)
  BY <1>1, <1>2, PathTypes DEF Inside
<1>4. Inside(p) \in SUBSET Inside(o) /\ Inside(p) # Inside(o)
  BY <1>3
<1>5. IsFiniteSet(Inside(o)) /\ Height(o) \in Nat /\ Height(p) \in Nat
  BY <1>1, HeightType
<1>6. Height(p) <= Height(o) /\ (Height(o) = Height(p) => Inside(o) = Inside(p))
  BY <1>4, <1>5, FS_Subset DEF Height
<1> QED BY <1>4, <1>5, <1>6

\* The slots of a nested event in their order.
LEMMA SlotsTyped ==
  ASSUME NEW o \in Events
  PROVE  /\ SlotsInUse(o) \in SUBSET (1..Len(KEYS)) /\ Len(KEYS) \in Nat
         /\ Cardinality(SlotsInUse(o)) \in Nat
         /\ \A i \in SlotsInUse(o) : /\ Append(o, KEYS[i]) \in Paths
                                     /\ Above(o, Append(o, KEYS[i]))
                                     /\ Len(Append(o, KEYS[i])) = Len(o) + 1
                                     /\ values[Append(o, KEYS[i])] # None
<1>1. KEYS \in Seq(Keys) /\ Len(KEYS) \in Nat /\ \A i \in 1..Len(KEYS) : KEYS[i] \in Keys
  BY LineAssumption
<1>2. SlotsInUse(o) \in SUBSET (1..Len(KEYS))
  BY DEF SlotsInUse
<1>3. Cardinality(SlotsInUse(o)) \in Nat
  <2>1. IsFiniteSet(1..Len(KEYS))
    BY <1>1, FS_Interval
  <2> QED BY <1>2, <2>1, FS_Subset, FS_CardinalityType
<1>4. ASSUME NEW i \in SlotsInUse(o)
      PROVE  /\ Append(o, KEYS[i]) \in Paths /\ Above(o, Append(o, KEYS[i]))
             /\ Len(Append(o, KEYS[i])) = Len(o) + 1 /\ values[Append(o, KEYS[i])] # None
  <2>1. o \in Seq(Keys) /\ KEYS[i] \in Keys
    BY <1>1, PathTypes DEF SlotsInUse
  <2>2. Above(o, Append(o, KEYS[i])) /\ Len(Append(o, KEYS[i])) = Len(o) + 1
    BY <2>1 DEF Above
  <2> QED BY <2>2 DEF SlotsInUse
<1> QED BY <1>1, <1>2, <1>3, <1>4

LEMMA InOrderTyped ==
  ASSUME NEW o \in Events
  PROVE  /\ Len(InOrder(o)) = Cardinality(SlotsInUse(o)) /\ Len(InOrder(o)) \in Nat
         /\ \A n \in 1..Len(InOrder(o)) :
              /\ InOrder(o)[n] \in Paths /\ Above(o, InOrder(o)[n])
              /\ InOrder(o)[n] \in Events
              /\ values[InOrder(o)[n]] # None
              /\ Height(InOrder(o)[n]) < Height(o)
<1> DEFINE S == SlotsInUse(o)
           c == Cardinality(S)
<1>1. c \in Nat /\ S \in SUBSET (1..Len(KEYS)) /\ Len(KEYS) \in Nat
  BY SlotsTyped
<1>2. Len(InOrder(o)) = c
  BY <1>1 DEF InOrder
<1>3. ASSUME NEW n \in 1..c
      PROVE  Nth(S, n) \in S /\ InOrder(o)[n] = Append(o, KEYS[Nth(S, n)])
  <2>1. \E i \in S : Cardinality(Lowest(S, i)) = n
    BY <1>1, RankFound
  <2>2. Nth(S, n) \in S
    BY <2>1 DEF Nth, Lowest
  <2> QED BY <2>2 DEF InOrder
<1> HIDE DEF S, c
<1>4. ASSUME NEW n \in 1..c
      PROVE  /\ InOrder(o)[n] \in Paths /\ Above(o, InOrder(o)[n])
             /\ values[InOrder(o)[n]] # None
  BY <1>3, SlotsTyped DEF S
<1>5. \A n \in 1..c : Height(InOrder(o)[n]) < Height(o)
  BY <1>4, HeightFalls
<1> QED BY <1>1, <1>2, <1>4, <1>5 DEF Events, c, S
-------------------------------------------------------------------------------
(* The recursions.                                                         *)

\* One step of each recursion, from what it has for the events inside.
Direct(f) ==
  [o \in Events |->
     [i \in 1..Len(InOrder(o)) |->
        Keyed(Last(InOrder(o)[i]),
              IF values[InOrder(o)[i]] = Object THEN Braced(f[InOrder(o)[i]])
              ELSE <<ValueToken(write_value(values[InOrder(o)[i]]))>>)]]
Serde(f) ==
  [o \in Events |->
     [i \in 1..Len(InOrder(o)) |->
        Keyed(Last(InOrder(o)[i]),
              IF values[InOrder(o)[i]] = Object
              THEN serialize_map(present_count[InOrder(o)[i]], f[InOrder(o)[i]])
              ELSE <<ValueToken(write_value(values[InOrder(o)[i]]))>>)]]

LEMMA Recursions ==
  /\ fields = CHOOSE f : f = Direct(f)
  /\ serialize = CHOOSE f : f = Serde(f)
BY DEF fields, serialize, Direct, Serde

\* The recursion of the direct way ends: it has a solution.
LEMMA DirectEnds == \E f : f = Direct(f)
<1> DEFINE Solves(f, n) == \A o \in Events : Height(o) < n => f[o] = Direct(f)[o]
           Wrong == {n \in Nat : ~\E f : Solves(f, n)}
<1>1. ASSUME NEW n \in Wrong PROVE \E m \in Wrong : m < n
  <2>1. CASE n = 0
    <3>1. \A o \in Events : ~(Height(o) < 0)
      BY HeightType
    <3> QED BY <2>1, <3>1
  <2>2. CASE n # 0
    <3>1. n - 1 \in Nat /\ n - 1 < n /\ n \in Nat
      BY <2>2
    <3> SUFFICES ASSUME n - 1 \notin Wrong PROVE FALSE
      BY <3>1
    <3>2. PICK f : Solves(f, n - 1)
      BY <3>1
    <3> DEFINE h == Direct(f)
    <3>3. ASSUME NEW o \in Events, Height(o) < n PROVE h[o] = Direct(h)[o]
      <4>1. ASSUME NEW i \in 1..Len(InOrder(o)) PROVE h[InOrder(o)[i]] = f[InOrder(o)[i]]
        <5>1. InOrder(o)[i] \in Events /\ Height(InOrder(o)[i]) < n - 1
          BY <3>1, <3>3, InOrderTyped, HeightType
        <5> QED BY <3>2, <5>1
      <4> HIDE DEF h
      <4>2. Direct(h)[o] = Direct(f)[o]
        BY <4>1 DEF Direct
      <4> QED BY <4>2 DEF h
    <3>4. Solves(h, n)
      BY <3>3
    <3> QED BY <3>4
  <2> QED BY <2>1, <2>2
<1>2. Wrong = {}
  <2>1. Wrong \in SUBSET Nat /\ \A n \in Wrong : \E m \in Wrong : m < n
    BY <1>1
  <2> HIDE DEF Wrong
  <2> QED BY <2>1, NoneLeast
<1> DEFINE N == Cardinality(Paths) + 1
<1>3. N \in Nat /\ \A o \in Events : Height(o) < N
  BY HeightType
<1>4. PICK f : Solves(f, N)
  BY <1>2, <1>3
<1> DEFINE g == [o \in Events |-> f[o]]
<1> HIDE DEF N
<1>5. \A o \in Events : f[o] = Direct(f)[o]
  BY <1>3, <1>4
<1>6. Direct(g) = Direct(f)
  <2>1. \A o \in Events : \A i \in 1..Len(InOrder(o)) : g[InOrder(o)[i]] = f[InOrder(o)[i]]
    BY InOrderTyped
  <2> HIDE DEF g
  <2> QED BY <2>1 DEF Direct
<1>7. g = Direct(g)
  <2>1. g = [o \in Events |-> Direct(f)[o]]
    BY <1>5
  <2>2. Direct(f) = [o \in Events |-> Direct(f)[o]]
    BY DEF Direct
  <2> QED BY <1>6, <2>1, <2>2
<1> QED BY <1>7
-------------------------------------------------------------------------------
(* They agree.                                                             *)

Joining == INSTANCE FoldLemmas WITH Op <- WithComma

LEMMA SeparatedIs == \A parts : Separated(parts) = Joining!Fold(<<>>, parts)
  BY DEF Separated, Joining!Fold, Joining!FoldLeft, Joining!MapThenFoldSet, FoldLeft,
         MapThenFoldSet, Joining!Max, Max

LEMMA NothingSeparated == Separated(<<>>) = <<>>
  BY SeparatedIs, Joining!FoldOne

\* An event that counts no slot has none to write.
LEMMA CountedEmpty ==
  ASSUME TypeOK, CountsPresent, NEW o \in Events, present_count[o] = 0
  PROVE  InOrder(o) = <<>> /\ Len(InOrder(o)) = 0
<1>1. InUse(values, o) = 0
  BY PresentFinite DEF CountsPresent
<1>2. Present(values, o) = {}
  BY <1>1, PresentFinite, FS_EmptySet DEF InUse
<1>3. SlotsInUse(o) = {}
  <2> SUFFICES ASSUME NEW i \in SlotsInUse(o) PROVE FALSE
    OBVIOUS
  <2>1. Append(o, KEYS[i]) \in Present(values, o)
    BY SlotsTyped DEF Present
  <2> QED BY <1>2, <2>1
<1>4. Cardinality(SlotsInUse(o)) = 0
  BY <1>3, FS_EmptySet
<1> QED BY <1>4 DEF InOrder

\* Told the truth about emptiness, a map is written as its parts between braces.
LEMMA MapWritten ==
  ASSUME NEW c, NEW parts, c = 0 => parts = <<>>
  PROVE  serialize_map(c, parts) = Braced(parts)
<1>1. CASE c = 0
  <2> DEFINE a == Mark("begin_object")
             b == Mark("end_object")
  <2> HIDE DEF a, b
  <2>1. Separated(parts) = <<>> /\ parts = <<>>
    BY <1>1, NothingSeparated
  <2>2. <<a>> \o <<>> \o <<b>> = <<a, b>> /\ <<a, b>> \o <<>> = <<a, b>>
    <3>1. <<a, b>> \in Seq({a, b})
      OBVIOUS
    <3> QED BY <3>1, Two, ConcatEmptySeq
  <2>3. Braced(parts) = <<a, b>>
    BY <2>1, <2>2 DEF Braced, a, b
  <2>4. serialize_map(c, parts) = <<a, b>>
    BY <1>1, <2>1, <2>2 DEF serialize_map, a, b
  <2> QED BY <2>3, <2>4
<1>2. CASE c # 0
  BY <1>2 DEF serialize_map
<1> QED BY <1>1, <1>2

\* So a step of one recursion is a step of the other.
LEMMA StepsAgree ==
  ASSUME TypeOK, CountsPresent, NEW f, f = Direct(f) \/ f = Serde(f)
  PROVE  Direct(f) = Serde(f)
<1>1. ASSUME NEW p \in Events, present_count[p] = 0 PROVE f[p] = <<>>
  <2>1. Len(InOrder(p)) = 0
    BY <1>1, CountedEmpty
  <2>2. \/ f[p] = Direct(f)[p]
        \/ f[p] = Serde(f)[p]
    OBVIOUS
  <2>3. Direct(f)[p] = <<>> /\ Serde(f)[p] = <<>>
    BY <2>1 DEF Direct, Serde
  <2> QED BY <2>2, <2>3
<1>2. ASSUME NEW p \in Events PROVE serialize_map(present_count[p], f[p]) = Braced(f[p])
  BY <1>1, <1>2, MapWritten
<1>3. \A o \in Events : \A i \in 1..Len(InOrder(o)) : InOrder(o)[i] \in Events
  BY InOrderTyped
<1> QED BY <1>2, <1>3 DEF Direct, Serde

LEMMA TokensAgree ==
  ASSUME TypeOK, CountsPresent
  PROVE  fields = serialize /\ fields = Direct(fields)
<1>1. \A f : f = Direct(f) <=> f = Serde(f)
  BY StepsAgree
<1>2. fields = serialize
  BY <1>1, Recursions
<1>3. fields = Direct(fields)
  BY DirectEnds, Recursions
<1> QED BY <1>2, <1>3

LEMMA LinesAgree == TypeOK /\ CountsPresent => SerializersAgree
<1> SUFFICES ASSUME TypeOK, CountsPresent, NEW log \in Logs
             PROVE  serialize_to(log) = to_json(log)
  BY DEF SerializersAgree
<1> DEFINE c == present_count[<<>>] + (IF log = <<>> THEN 0 ELSE 1)
           parts == fields[<<>>] \o log_part(log)
<1>1. <<>> \in Events /\ present_count[<<>>] \in Nat
  BY DEF Events, TypeOK
<1>2. ASSUME c = 0 PROVE parts = <<>>
  <2>1. log = <<>> /\ present_count[<<>>] = 0
    BY <1>1, <1>2
  <2>2. fields[<<>>] = <<>>
    <3>1. fields[<<>>] = Direct(fields)[<<>>]
      BY TokensAgree
    <3> QED BY <1>1, <2>1, <3>1, CountedEmpty DEF Direct
  <2> QED BY <2>1, <2>2 DEF log_part
<1> HIDE DEF c, parts
<1>3. serialize_map(c, parts) = Braced(parts)
  BY <1>2, MapWritten
<1> QED BY <1>3, TokensAgree DEF serialize_to, to_json, c, parts

\* The two serializers write the same line for every event that user code can
\* build, at every moment, though one of them asks the cached counts whether an
\* event is empty and the count of the whole event is not exact after the drop.
THEOREM SerializersAgreeAlways == Spec => []SerializersAgree
<1>1. IInv => SerializersAgree
  BY LinesAgree DEF IInv
<1> QED BY <1>1, InitInv, NextInv, PTL DEF Spec
-------------------------------------------------------------------------------
(* The reader.  It is a fold over tokens, so it is followed group by group: *)
(* what it makes of a line is what it makes of the pieces, one after the   *)
(* other.                                                                  *)

Reading == INSTANCE FoldLemmas WITH Op <- ReadToken
Read(r, tokens) == Reading!Fold(r, tokens)

\* The reader of a line, as an instance of the lemmas on folds.
LEMMA ReadLineIs == \A line : ReadLine(line) = Read(Reader(<<>>, "value", {}), line)
  BY DEF ReadLine, Read, Reading!Fold, Reading!FoldLeft, Reading!MapThenFoldSet, FoldLeft,
         MapThenFoldSet, Reading!Max, Max

Names == Keys \cup {LOG_KEY, LEVEL_KEY, MESSAGE_KEY}
Written ==
  {write_value(v) : v \in Scalar} \cup {e.level : e \in LogEntries}
    \cup {e.message : e \in LogEntries}
Marks == {"begin_object", "end_object", "begin_array", "end_array", "colon", "comma"}
Token ==
  {Mark(kind) : kind \in Marks} \cup {KeyToken(k) : k \in Names}
    \cup {ValueToken(v) : v \in Written}
Groups == {Group(kind, step) : kind \in {"object", "array"}, step \in Names \cup Nat}

\* Opening a group and closing it.
LEMMA Opened ==
  ASSUME NEW open \in Seq(Groups), NEW kind \in {"object", "array"}, NEW step \in Names \cup Nat
  PROVE  LET o == Append(open, Group(kind, step)) IN
         /\ o \in Seq(Groups) /\ o # <<>> /\ Last(o) = Group(kind, step) /\ Front(o) = open
         /\ Last(o).kind = kind /\ Last(o).step = step
         /\ PathOf(o) = Append(PathOf(open), step)
<1> DEFINE g == Group(kind, step)
           o == Append(open, g)
<1>1. g \in Groups
  BY DEF Groups
<1>2. g.kind = kind /\ g.step = step
  BY DEF Group
<1> HIDE DEF g
<1>3. /\ o \in Seq(Groups) /\ Len(o) = Len(open) + 1 /\ o[Len(open) + 1] = g
      /\ \A i \in 1..Len(open) : o[i] = open[i]
  BY <1>1, Pushed
<1>4. Len(open) \in Nat /\ o # <<>>
  BY <1>1
<1> HIDE DEF o
<1>5. /\ Front(o) \in Seq(Groups) /\ Len(Front(o)) = Len(o) - 1 /\ Last(o) = o[Len(o)]
      /\ \A i \in 1..Len(o) - 1 : Front(o)[i] = o[i]
  BY <1>3, <1>4, Popped
<1>6. Front(o) = open
  <2>1. Len(Front(o)) = Len(open) /\ \A i \in 1..Len(open) : Front(o)[i] = open[i]
    BY <1>3, <1>4, <1>5
  <2> QED BY <1>5, <2>1, SeqEqual
<1>7. PathOf(o) = Append(PathOf(open), step)
  <2> DEFINE p == PathOf(open)
             q == PathOf(o)
             S == {open[i].step : i \in 1..Len(open)} \cup {step}
  <2>1. p \in [1..Len(open) -> S] /\ \A i \in 1..Len(open) : p[i] = open[i].step
    BY DEF PathOf
  <2>2. p \in Seq(S) /\ Len(p) = Len(open)
    <3> HIDE DEF p, S
    <3> QED BY <1>4, <2>1
  <2>3. q \in [1..Len(open) + 1 -> S] /\ \A i \in 1..Len(open) + 1 : q[i] = o[i].step
    <3>1. \A i \in 1..Len(open) + 1 : o[i].step \in S
      <4> SUFFICES ASSUME NEW i \in 1..Len(open) + 1 PROVE o[i].step \in S
        OBVIOUS
      <4>1. i \in 1..Len(open) \/ i = Len(open) + 1
        BY <1>4
      <4>2. CASE i \in 1..Len(open)
        BY <1>3, <4>2
      <4>3. CASE i = Len(open) + 1
        BY <1>2, <1>3, <4>3
      <4> QED BY <4>1, <4>2, <4>3
    <3> QED BY <1>3, <3>1 DEF PathOf
  <2>4. q \in Seq(S) /\ Len(q) = Len(open) + 1
    <3> HIDE DEF q, S
    <3> QED BY <1>4, <2>3
  <2>5. step \in S
    OBVIOUS
  <2> HIDE DEF p, q, S
  <2>6. /\ Append(p, step) \in Seq(S) /\ Len(Append(p, step)) = Len(open) + 1
        /\ Append(p, step)[Len(open) + 1] = step
        /\ \A i \in 1..Len(open) : Append(p, step)[i] = p[i]
    BY <2>2, <2>5, Pushed
  <2>7. \A i \in 1..Len(open) + 1 : q[i] = Append(p, step)[i]
    <3> SUFFICES ASSUME NEW i \in 1..Len(open) + 1 PROVE q[i] = Append(p, step)[i]
      OBVIOUS
    <3>1. i \in 1..Len(open) \/ i = Len(open) + 1
      BY <1>4
    <3> QED BY <1>2, <1>3, <2>1, <2>3, <2>6, <3>1
  <2>8. q = Append(p, step)
    BY <2>4, <2>6, <2>7, SeqEqual
  <2> QED BY <2>8 DEF p, q
<1> QED BY <1>2, <1>3, <1>4, <1>5, <1>6, <1>7 DEF g, o

\* Nothing that is read in D has been read in R.
Fresh(R, D) == \A f \in R, d \in D : f[1] # d[1]

\* Where a value may begin.
Ready(open, expect) ==
  expect = "value" \/ (expect = "first" /\ open # <<>> /\ Last(open).kind = "array")

\* What the reader makes of one token.
LEMMA ReadValue ==
  ASSUME NEW open, NEW R, NEW v, Fresh(R, {<<PathOf(open), v>>})
  PROVE  ReadToken(Reader(open, "value", R), ValueToken(v)) =
           Reader(open, "next", R \cup {<<PathOf(open), v>>})
<1>1. ~\E f \in R : f[1] = PathOf(open)
  BY DEF Fresh
<1> DEFINE path == PathOf(open)
<1> HIDE DEF path
<1>2. ~\E f \in R : f[1] = path
  BY <1>1 DEF path
<1> QED BY <1>2 DEF ReadToken, Fits, Reader, ValueToken, path

\* A group begins where a value may.
LEMMA ReadBegin ==
  ASSUME NEW open, NEW R, NEW expect, Ready(open, expect)
  PROVE  /\ ReadToken(Reader(open, expect, R), Mark("begin_object")) =
              Reader(Append(open, Group("object", 0)), "first", R)
         /\ ReadToken(Reader(open, expect, R), Mark("begin_array")) =
              Reader(Append(open, Group("array", 1)), "first", R)
<1>1. Fits(Reader(open, expect, R), "begin_object") /\ Fits(Reader(open, expect, R), "begin_array")
  BY DEF Fits, Reader, Ready, In
<1> QED BY <1>1 DEF ReadToken, Reader, Mark

\* A group ends after its last value, or right after it has begun.
LEMMA ReadEnd ==
  ASSUME NEW open \in Seq(Groups), NEW R, NEW expect \in {"first", "next"},
         NEW step \in Names \cup Nat
  PROVE  /\ ReadToken(Reader(Append(open, Group("object", step)), expect, R),
                      Mark("end_object")) = Reader(open, "next", R)
         /\ ReadToken(Reader(Append(open, Group("array", step)), expect, R),
                      Mark("end_array")) = Reader(open, "next", R)
<1>1. ASSUME NEW kind \in {"object", "array"}, NEW mark \in {"end_object", "end_array"},
             kind = "object" <=> mark = "end_object"
      PROVE  ReadToken(Reader(Append(open, Group(kind, step)), expect, R), Mark(mark)) =
               Reader(open, "next", R)
  <2> DEFINE o == Append(open, Group(kind, step))
  <2>1. o # <<>> /\ Last(o).kind = kind /\ Front(o) = open
    BY Opened
  <2> HIDE DEF o
  <2>2. Fits(Reader(o, expect, R), mark)
    BY <1>1, <2>1 DEF Fits, Reader, In
  <2>3. ReadToken(Reader(o, expect, R), Mark(mark)) = Reader(open, "next", R)
    BY <1>1, <2>1, <2>2 DEF ReadToken, Reader, Mark
  <2> QED BY <2>3 DEF o
<1> QED BY <1>1

\* A key is the step to what is read next.
LEMMA ReadKey ==
  ASSUME NEW open \in Seq(Groups), NEW R, NEW step \in Names \cup Nat, NEW k \in Names,
         NEW expect \in {"first", "key"}
  PROVE  /\ ReadToken(Reader(Append(open, Group("object", step)), expect, R), KeyToken(k)) =
              Reader(Append(open, Group("object", k)), "colon", R)
         /\ ReadToken(Reader(Append(open, Group("object", k)), "colon", R), Mark("colon")) =
              Reader(Append(open, Group("object", k)), "value", R)
<1> DEFINE o == Append(open, Group("object", step))
           q == Append(open, Group("object", k))
<1>1. o # <<>> /\ Last(o).kind = "object" /\ Front(o) = open
  BY Opened
<1> HIDE DEF o
<1>2. Fits(Reader(o, expect, R), "key")
  BY <1>1 DEF Fits, Reader, In
<1>3. ReadToken(Reader(o, expect, R), KeyToken(k)) = Reader(q, "colon", R)
  BY <1>1, <1>2 DEF ReadToken, Reader, KeyToken
<1> HIDE DEF q
<1>4. ReadToken(Reader(q, "colon", R), Mark("colon")) = Reader(q, "value", R)
  BY DEF ReadToken, Fits, Reader, Mark
<1> QED BY <1>3, <1>4 DEF o, q

\* A comma asks for another key, or moves on to the next position.
LEMMA ReadComma ==
  ASSUME NEW open \in Seq(Groups), NEW R
  PROVE  /\ \A k \in Names \cup Nat :
              ReadToken(Reader(Append(open, Group("object", k)), "next", R), Mark("comma")) =
                Reader(Append(open, Group("object", k)), "key", R)
         /\ \A n \in Nat :
              ReadToken(Reader(Append(open, Group("array", n)), "next", R), Mark("comma")) =
                Reader(Append(open, Group("array", n + 1)), "value", R)
<1>1. ASSUME NEW k \in Names \cup Nat
      PROVE  ReadToken(Reader(Append(open, Group("object", k)), "next", R), Mark("comma")) =
               Reader(Append(open, Group("object", k)), "key", R)
  <2> DEFINE o == Append(open, Group("object", k))
  <2>1. o # <<>> /\ Last(o).kind = "object"
    BY Opened
  <2> HIDE DEF o
  <2>2. ReadToken(Reader(o, "next", R), Mark("comma")) = Reader(o, "key", R)
    BY <2>1 DEF ReadToken, Fits, In, Reader, Mark
  <2> QED BY <2>2 DEF o
<1>2. ASSUME NEW n \in Nat
      PROVE  ReadToken(Reader(Append(open, Group("array", n)), "next", R), Mark("comma")) =
               Reader(Append(open, Group("array", n + 1)), "value", R)
  <2> DEFINE o == Append(open, Group("array", n))
             q == Append(open, Group("array", n + 1))
  <2>1. o # <<>> /\ Last(o).kind = "array" /\ Last(o).step = n /\ Front(o) = open
    BY Opened
  <2> HIDE DEF o
  <2>2. Append(Front(o), Group("array", Last(o).step + 1)) = q
    BY <2>1
  <2> HIDE DEF q
  <2>3. ReadToken(Reader(o, "next", R), Mark("comma")) = Reader(q, "value", R)
    BY <2>1, <2>2 DEF ReadToken, Fits, In, Reader, Mark
  <2> QED BY <2>3 DEF o, q
<1> QED BY <1>1, <1>2
-------------------------------------------------------------------------------
(* What the reader makes of several tokens.                                *)

\* What the writers write.
LEMMA TokenTypes ==
  /\ \A kind \in Marks : Mark(kind) \in Token /\ <<Mark(kind)>> \in Seq(Token)
  /\ \A k \in Names : KeyToken(k) \in Token /\ <<KeyToken(k)>> \in Seq(Token)
  /\ \A v \in Written : ValueToken(v) \in Token /\ <<ValueToken(v)>> \in Seq(Token)
<1>1. /\ \A kind \in Marks : Mark(kind) \in Token
      /\ \A k \in Names : KeyToken(k) \in Token
      /\ \A v \in Written : ValueToken(v) \in Token
  BY DEF Token
<1>2. \A t \in Token : <<t>> \in Seq(Token)
  OBVIOUS
<1> QED BY <1>1, <1>2

\* Reading one run of tokens and then another is reading them together.
LEMMA ReadBoth ==
  ASSUME NEW s \in Seq(Token), NEW t \in Seq(Token)
  PROVE  s \o t \in Seq(Token) /\ \A r : Read(r, s \o t) = Read(Read(r, s), t)
<1>1. s \o t \in Seq(Token)
  OBVIOUS
<1>2. ASSUME NEW r PROVE Read(r, s \o t) = Read(Read(r, s), t)
  BY Reading!FoldConcat DEF Read
<1> QED BY <1>1, <1>2

\* How runs are grouped is nothing to the reader.
LEMMA ThreeRuns ==
  \A s, t, u \in Seq(Token) : (s \o t) \o u = s \o (t \o u)
  BY ConcatAssociative

\* No token and one.
LEMMA ReadOne == \A r, token : Read(r, <<>>) = r /\ Read(r, <<token>>) = ReadToken(r, token)
  BY Reading!FoldOne DEF Read

\* The tokens are read, and what was read of them is D.
Yields(tokens, open, expect, open2, D) ==
  /\ tokens \in Seq(Token)
  /\ \A R : Fresh(R, D) =>
       Read(Reader(open, expect, R), tokens) = Reader(open2, "next", R \cup D)

\* A value that is not a group.
LEMMA ScalarYields ==
  ASSUME NEW open, NEW v \in Written
  PROVE  Yields(<<ValueToken(v)>>, open, "value", open, {<<PathOf(open), v>>})
  BY TokenTypes, ReadOne, ReadValue DEF Yields

\* A token before them that yields nothing.
LEMMA AfterToken ==
  ASSUME NEW token \in Token, NEW tokens, NEW open, NEW expect, NEW open1, NEW expect1, NEW open2,
         NEW D, Yields(tokens, open1, expect1, open2, D),
         \A R : ReadToken(Reader(open, expect, R), token) = Reader(open1, expect1, R)
  PROVE  Yields(<<token>> \o tokens, open, expect, open2, D)
<1>1. <<token>> \in Seq(Token) /\ tokens \in Seq(Token)
  BY DEF Yields
<1>2. /\ <<token>> \o tokens \in Seq(Token)
      /\ \A r : Read(r, <<token>> \o tokens) = Read(ReadToken(r, token), tokens)
  <2> DEFINE one == <<token>>
  <2>1. \A r : Read(r, one) = ReadToken(r, token)
    BY ReadOne
  <2> HIDE DEF one
  <2>2. one \o tokens \in Seq(Token) /\ \A r : Read(r, one \o tokens) = Read(Read(r, one), tokens)
    BY <1>1, ReadBoth DEF one
  <2> QED BY <2>1, <2>2 DEF one
<1> QED BY <1>2 DEF Yields

\* A token after them that yields nothing.
LEMMA BeforeToken ==
  ASSUME NEW token \in Token, NEW tokens, NEW open, NEW expect, NEW open1, NEW open2,
         NEW D, Yields(tokens, open, expect, open1, D),
         \A R : ReadToken(Reader(open1, "next", R), token) = Reader(open2, "next", R)
  PROVE  Yields(tokens \o <<token>>, open, expect, open2, D)
<1>1. <<token>> \in Seq(Token) /\ tokens \in Seq(Token)
  BY DEF Yields
<1>2. /\ tokens \o <<token>> \in Seq(Token)
      /\ \A r : Read(r, tokens \o <<token>>) = ReadToken(Read(r, tokens), token)
  <2> DEFINE one == <<token>>
  <2>1. \A r : Read(r, one) = ReadToken(r, token)
    BY ReadOne
  <2> HIDE DEF one
  <2>2. tokens \o one \in Seq(Token) /\ \A r : Read(r, tokens \o one) = Read(Read(r, tokens), one)
    BY <1>1, ReadBoth DEF one
  <2> QED BY <2>1, <2>2 DEF one
<1> QED BY <1>2 DEF Yields

\* A value with its key.
LEMMA KeyedYields ==
  ASSUME NEW open \in Seq(Groups), NEW step \in Names \cup Nat, NEW k \in Names,
         NEW expect \in {"first", "key"}, NEW tokens, NEW D,
         Yields(tokens, Append(open, Group("object", k)), "value",
                Append(open, Group("object", k)), D)
  PROVE  /\ Yields(Keyed(k, tokens), Append(open, Group("object", step)), expect,
                   Append(open, Group("object", k)), D)
         /\ Keyed(k, tokens) # <<>>
<1> DEFINE q == Append(open, Group("object", k))
           o == Append(open, Group("object", step))
           key == KeyToken(k)
           colon == Mark("colon")
<1>1. key \in Token /\ colon \in Token
  BY TokenTypes DEF Marks
<1>2. \A R : /\ ReadToken(Reader(o, expect, R), key) = Reader(q, "colon", R)
             /\ ReadToken(Reader(q, "colon", R), colon) = Reader(q, "value", R)
  BY ReadKey
<1>3. Yields(tokens, q, "value", q, D)
  OBVIOUS
<1> HIDE DEF q, o, key, colon
<1>4. Yields(<<colon>> \o tokens, q, "colon", q, D)
  BY <1>1, <1>2, <1>3, AfterToken
<1>5. Yields(<<key>> \o (<<colon>> \o tokens), o, expect, q, D)
  BY <1>1, <1>2, <1>4, AfterToken
<1>6. <<key, colon>> \o tokens = <<key>> \o (<<colon>> \o tokens) /\ <<key, colon>> \o tokens # <<>>
  <2>1. <<key>> \in Seq(Token) /\ <<colon>> \in Seq(Token) /\ tokens \in Seq(Token)
    BY <1>1, <1>3 DEF Yields
  <2>2. <<key>> \o <<colon>> = <<key, colon>>
    BY Two
  <2>3. (<<key>> \o <<colon>>) \o tokens = <<key>> \o (<<colon>> \o tokens)
    BY <2>1, ConcatAssociative
  <2>4. <<key, colon>> \in Seq(Token) /\ Len(<<key, colon>>) = 2
    BY <1>1
  <2>5. Len(<<key, colon>> \o tokens) = 2 + Len(tokens) /\ Len(tokens) \in Nat
    BY <2>1, <2>4
  <2>6. <<key, colon>> \o tokens # <<>>
    BY <2>5
  <2>7. <<key, colon>> \o tokens = <<key>> \o (<<colon>> \o tokens)
    BY <2>2, <2>3, Zenon
  <2> QED BY <2>6, <2>7
<1> QED BY <1>5, <1>6 DEF Keyed, q, o, key, colon

\* What the first k of several parts yield.
UpTo(D, k) == UNION {D[i] : i \in 1..k}

\* Parts with commas between them: the first is read in the group just begun,
\* each other after a comma where the one before it has ended.
LEMMA SeparatedYields ==
  ASSUME NEW n \in Nat, NEW parts, DOMAIN parts = 1..n,
         \A i \in 1..n : parts[i] \in Seq(Token) /\ parts[i] # <<>>,
         NEW after, NEW D,
         n > 0 => Yields(parts[1], after[0], "first", after[1], D[1]),
         \A i \in 2..n : Yields(<<Mark("comma")>> \o parts[i], after[i - 1], "next", after[i], D[i]),
         \A i, j \in 1..n : i # j => Fresh(D[i], D[j])
  PROVE  /\ n = 0 => Separated(parts) = <<>>
         /\ n > 0 => Yields(Separated(parts), after[0], "first", after[n], UpTo(D, n))
<1>1. PICK t : Joining!IsTrace(t, <<>>, parts, n)
  BY Joining!FoldTrace
<1>2. t[0] = <<>> /\ Separated(parts) = t[n] /\ \A k \in 1..n : t[k] = WithComma(t[k - 1], parts[k])
  BY <1>1, SeparatedIs DEF Joining!IsTrace
<1> DEFINE Good(k) == t[k] # <<>> /\ Yields(t[k], after[0], "first", after[k], UpTo(D, k))
           Wrong == {k \in 1..n : ~Good(k)}
<1>3. ASSUME 1 \in 1..n PROVE Good(1)
  <2>1. t[1] = parts[1]
    <3>1. 1 - 1 = 0
      OBVIOUS
    <3> QED BY <1>2, <1>3, <3>1 DEF WithComma
  <2>2. UpTo(D, 1) = D[1]
    <3>1. 1..1 = {1}
      OBVIOUS
    <3> QED BY <3>1, Zenon DEF UpTo
  <2> QED BY <1>3, <2>1, <2>2
<1>4. ASSUME NEW k \in 2..n, Good(k - 1) PROVE Good(k)
  <2> DEFINE c == <<Mark("comma")>>
             s == c \o parts[k]
  <2>1. k \in 1..n /\ k - 1 \in 1..n /\ k \in Nat
    OBVIOUS
  <2>2. t[k - 1] # <<>> /\ t[k - 1] \in Seq(Token) /\ c \in Seq(Token) /\ parts[k] \in Seq(Token)
    BY <1>4, <2>1, TokenTypes DEF Yields, Marks
  <2>3. t[k] = (t[k - 1] \o c) \o parts[k]
    BY <1>2, <2>1, <2>2 DEF WithComma
  <2> HIDE DEF c
  <2>4. t[k] = t[k - 1] \o s
    <3> DEFINE a == t[k - 1]
               b == parts[k]
    <3>1. a \in Seq(Token) /\ c \in Seq(Token) /\ b \in Seq(Token)
      BY <2>2
    <3> HIDE DEF a, b
    <3>2. (a \o c) \o b = a \o (c \o b)
      BY <3>1, ThreeRuns
    <3> QED BY <2>3, <3>2 DEF a, b
  <2>5. Yields(s, after[k - 1], "next", after[k], D[k])
    BY DEF c
  <2>6. UpTo(D, k) = UpTo(D, k - 1) \cup D[k]
    <3>1. 1..k = (1..k - 1) \cup {k}
      BY <2>1
    <3> QED BY <3>1 DEF UpTo
  <2>7. \A R : Fresh(R, UpTo(D, k)) => /\ Fresh(R, UpTo(D, k - 1))
                                       /\ Fresh(R \cup UpTo(D, k - 1), D[k])
    <3>1. \A i \in 1..k - 1 : Fresh(D[i], D[k])
      <4> SUFFICES ASSUME NEW i \in 1..k - 1 PROVE Fresh(D[i], D[k])
        OBVIOUS
      <4>1. i \in 1..n /\ i # k
        BY <2>1
      <4> QED BY <2>1, <4>1
    <3>2. Fresh(UpTo(D, k - 1), D[k])
      BY <3>1 DEF Fresh, UpTo
    <3> QED BY <2>6, <3>2 DEF Fresh
  <2> HIDE DEF s
  <2>8. s \in Seq(Token)
    BY <2>5 DEF Yields
  <2>9. t[k] \in Seq(Token) /\ t[k] # <<>>
    <3>1. t[k] \in Seq(Token) /\ Len(t[k]) = Len(t[k - 1]) + Len(s)
      BY <2>2, <2>4, <2>8
    <3>2. Len(t[k - 1]) \in Nat \ {0} /\ Len(s) \in Nat
      BY <2>2, <2>8
    <3>3. Len(t[k]) # 0
      BY <3>1, <3>2
    <3> QED BY <3>1, <3>3
  <2>10. ASSUME NEW R, Fresh(R, UpTo(D, k))
         PROVE  Read(Reader(after[0], "first", R), t[k]) =
                  Reader(after[k], "next", R \cup UpTo(D, k))
    <3>1. Read(Reader(after[0], "first", R), t[k]) =
            Read(Read(Reader(after[0], "first", R), t[k - 1]), s)
      <4> DEFINE a == t[k - 1]
                 r == Reader(after[0], "first", R)
      <4>1. a \in Seq(Token) /\ s \in Seq(Token)
        BY <2>2, <2>8
      <4> HIDE DEF a, r
      <4>2. Read(r, a \o s) = Read(Read(r, a), s)
        BY <4>1, ReadBoth
      <4> QED BY <2>4, <4>2 DEF a, r
    <3>2. Read(Reader(after[0], "first", R), t[k - 1]) =
            Reader(after[k - 1], "next", R \cup UpTo(D, k - 1))
      BY <1>4, <2>7, <2>10 DEF Yields
    <3>3. Read(Reader(after[k - 1], "next", R \cup UpTo(D, k - 1)), s) =
            Reader(after[k], "next", (R \cup UpTo(D, k - 1)) \cup D[k])
      BY <2>5, <2>7, <2>10 DEF Yields
    <3>4. (R \cup UpTo(D, k - 1)) \cup D[k] = R \cup UpTo(D, k)
      BY <2>6
    <3> QED BY <3>1, <3>2, <3>3, <3>4
  <2> QED BY <2>9, <2>10 DEF Yields
<1>5. Wrong = {}
  <2>1. ASSUME NEW k \in Wrong PROVE \E m \in Wrong : m < k
    <3>1. k \in 1..n /\ ~Good(k) /\ k \in Nat
      OBVIOUS
    <3> HIDE DEF Good
    <3>2. k # 1
      BY <1>3, <3>1
    <3>3. k \in 2..n /\ k - 1 \in 1..n /\ k - 1 < k
      BY <3>1, <3>2
    <3>4. ~Good(k - 1)
      BY <1>4, <3>1, <3>3
    <3> QED BY <3>3, <3>4
  <2>2. Wrong \in SUBSET Nat
    OBVIOUS
  <2> HIDE DEF Wrong
  <2> QED BY <2>1, <2>2, NoneLeast
<1>6. ASSUME n > 0 PROVE Good(n)
  <2>1. n \in 1..n
    BY <1>6
  <2> HIDE DEF Good
  <2> QED BY <1>5, <2>1
<1> QED BY <1>2, <1>6

\* An object whose keys have values that yield something.
LEMMA BracedYields ==
  ASSUME NEW n \in Nat, NEW parts, DOMAIN parts = 1..n,
         NEW open \in Seq(Groups), NEW expect, Ready(open, expect), NEW keys, NEW tokens, NEW D,
         \A i \in 1..n : /\ keys[i] \in Names /\ parts[i] = Keyed(keys[i], tokens[i])
                         /\ Yields(tokens[i], Append(open, Group("object", keys[i])), "value",
                                   Append(open, Group("object", keys[i])), D[i]),
         \A i, j \in 1..n : i # j => Fresh(D[i], D[j])
  PROVE  Yields(Braced(parts), open, expect, open, UpTo(D, n))
<1> DEFINE after == [i \in 0..n |-> Append(open, Group("object", IF i = 0 THEN 0 ELSE keys[i]))]
           comma == Mark("comma")
<1>1. /\ comma \in Token /\ Mark("begin_object") \in Token /\ Mark("end_object") \in Token
  BY TokenTypes DEF Marks
<1>2. /\ after[0] = Append(open, Group("object", 0))
      /\ \A i \in 1..n : after[i] = Append(open, Group("object", keys[i]))
  OBVIOUS
<1> HIDE DEF after
<1>3. 0 \in Names \cup Nat /\ \A i \in 1..n : keys[i] \in Names \cup Nat
  OBVIOUS
<1>4. ASSUME NEW i \in 1..n, NEW step \in Names \cup Nat, NEW e \in {"first", "key"}
      PROVE  /\ Yields(parts[i], Append(open, Group("object", step)), e, after[i], D[i])
             /\ parts[i] \in Seq(Token) /\ parts[i] # <<>>
  <2> DEFINE k == keys[i]
             w == tokens[i]
             d == D[i]
  <2>1. /\ k \in Names /\ parts[i] = Keyed(k, w) /\ after[i] = Append(open, Group("object", k))
        /\ Yields(w, Append(open, Group("object", k)), "value",
                  Append(open, Group("object", k)), d)
    BY <1>2
  <2> HIDE DEF k, w, d
  <2>2. /\ Yields(Keyed(k, w), Append(open, Group("object", step)), e,
                  Append(open, Group("object", k)), d)
        /\ Keyed(k, w) # <<>>
    BY <2>1, KeyedYields
  <2> QED BY <2>1, <2>2 DEF Yields, d
<1>5. /\ \A i \in 1..n : parts[i] \in Seq(Token) /\ parts[i] # <<>>
      /\ n > 0 => Yields(parts[1], after[0], "first", after[1], D[1])
  <2>1. \A i \in 1..n : parts[i] \in Seq(Token) /\ parts[i] # <<>>
    BY <1>3, <1>4
  <2>2. ASSUME n > 0 PROVE Yields(parts[1], after[0], "first", after[1], D[1])
    <3>1. 1 \in 1..n
      BY <2>2
    <3> QED BY <1>2, <1>3, <1>4, <3>1
  <2> QED BY <2>1, <2>2
<1>6. ASSUME NEW i \in 2..n
      PROVE  Yields(<<comma>> \o parts[i], after[i - 1], "next", after[i], D[i])
  <2>1. i \in 1..n /\ i - 1 \in 1..n
    OBVIOUS
  <2>2. Yields(parts[i], after[i - 1], "key", after[i], D[i])
    BY <1>2, <1>3, <1>4, <2>1
  <2>3. \A R : ReadToken(Reader(after[i - 1], "next", R), comma) = Reader(after[i - 1], "key", R)
    BY <1>2, <1>3, <2>1, ReadComma
  <2> HIDE DEF comma
  <2> QED BY <1>1, <2>2, <2>3, AfterToken
<1>7. /\ n = 0 => Separated(parts) = <<>>
      /\ n > 0 => Yields(Separated(parts), after[0], "first", after[n], UpTo(D, n))
  BY <1>5, <1>6, SeparatedYields
<1> DEFINE begin == Mark("begin_object")
           end == Mark("end_object")
<1>8. \A R : ReadToken(Reader(open, expect, R), begin) = Reader(after[0], "first", R)
  BY <1>2, ReadBegin
<1>9. CASE n > 0
  <2>1. n \in 1..n
    BY <1>9
  <2>2. \A R : ReadToken(Reader(after[n], "next", R), end) = Reader(open, "next", R)
    BY <1>2, <1>3, <2>1, ReadEnd
  <2> DEFINE line == Separated(parts)
  <2>3. Yields(line, after[0], "first", after[n], UpTo(D, n))
    BY <1>7, <1>9
  <2> HIDE DEF line, begin, end
  <2>4. begin \in Token /\ end \in Token
    BY <1>1 DEF begin, end
  <2>5. Yields(<<begin>> \o line, open, expect, after[n], UpTo(D, n))
    BY <1>8, <2>3, <2>4, AfterToken
  <2>6. Yields((<<begin>> \o line) \o <<end>>, open, expect, open, UpTo(D, n))
    BY <2>2, <2>4, <2>5, BeforeToken
  <2> QED BY <2>6 DEF Braced, line, begin, end
<1>10. CASE n = 0
  <2>1. Separated(parts) = <<>> /\ <<begin>> \o <<>> \o <<end>> = <<begin, end>>
    BY <1>7, <1>10, Two
  <2>2. UpTo(D, n) = {}
    <3>1. 1..0 = {}
      OBVIOUS
    <3> QED BY <1>10, <3>1 DEF UpTo
  <2>3. \A R : ReadToken(Reader(after[0], "first", R), end) = Reader(open, "next", R)
    BY <1>2, <1>3, ReadEnd
  <2>4. begin \in Token /\ end \in Token /\ <<begin>> \in Seq(Token) /\ <<end>> \in Seq(Token)
    BY <1>1
  <2>5. <<begin>> \o <<end>> = <<begin, end>>
    BY Two
  <2> HIDE DEF begin, end
  <2>6. ASSUME NEW R PROVE Read(Reader(open, expect, R), <<begin, end>>) = Reader(open, "next", R)
    <3>1. Read(Reader(open, expect, R), <<begin>> \o <<end>>) =
            Read(Read(Reader(open, expect, R), <<begin>>), <<end>>)
      BY <2>4, ReadBoth
    <3>2. Read(Reader(open, expect, R), <<begin>>) = Reader(after[0], "first", R)
      BY <1>8, ReadOne
    <3>3. Read(Reader(after[0], "first", R), <<end>>) = Reader(open, "next", R)
      BY <2>3, ReadOne
    <3> QED BY <2>5, <3>1, <3>2, <3>3
  <2>7. <<begin, end>> \in Seq(Token)
    BY <2>4
  <2>8. Yields(<<begin, end>>, open, expect, open, {})
    <3>1. \A R : R \cup {} = R
      OBVIOUS
    <3> QED BY <2>6, <2>7, <3>1 DEF Yields
  <2>9. Braced(parts) = <<begin, end>>
    BY <2>1 DEF Braced, begin, end
  <2> QED BY <2>2, <2>8, <2>9
<1> QED BY <1>9, <1>10
-------------------------------------------------------------------------------
(* The line of an event, read back.                                        *)

\* The fields at a path and inside of it, and those inside only.
Held(q) == values[q] \notin {None, Object}
FieldsAt(p) ==
  {<<q, write_value(values[q])>> : q \in {r \in Paths : (r = p \/ Above(p, r)) /\ Held(r)}}
FieldsBelow(o) ==
  {<<q, write_value(values[q])>> : q \in {r \in Paths : Above(o, r) /\ Held(r)}}

\* The slots of an event have a key each, and no key has two.
LEMMA SlotsNamed ==
  ASSUME NEW o \in Events
  PROVE  /\ \A i \in 1..Len(InOrder(o)) :
              /\ InOrder(o)[i] = Append(o, Last(InOrder(o)[i])) /\ Last(InOrder(o)[i]) \in Keys
              /\ Len(InOrder(o)[i]) = Len(o) + 1
         /\ \A i, j \in 1..Len(InOrder(o)) : InOrder(o)[i] = InOrder(o)[j] => i = j
         /\ \A p \in Paths : Above(o, p) /\ Len(p) = Len(o) + 1 /\ values[p] # None =>
              \E i \in 1..Len(InOrder(o)) : InOrder(o)[i] = p
<1> DEFINE S == SlotsInUse(o)
           c == Cardinality(S)
<1>1. c \in Nat /\ S \in SUBSET (1..Len(KEYS)) /\ Len(KEYS) \in Nat
  BY SlotsTyped
<1>2. Len(InOrder(o)) = c
  BY <1>1 DEF InOrder
<1>3. o \in Seq(Keys) /\ Len(o) \in Nat
  BY PathTypes
<1>4. \A i \in S : KEYS[i] \in Keys
  BY <1>1, LineAssumption
<1>5. ASSUME NEW n \in 1..c
      PROVE  /\ Nth(S, n) \in S /\ Cardinality(Lowest(S, Nth(S, n))) = n
             /\ InOrder(o)[n] = Append(o, KEYS[Nth(S, n)])
  <2>1. \E i \in S : Cardinality(Lowest(S, i)) = n
    BY <1>1, RankFound
  <2>2. Nth(S, n) \in S /\ Cardinality(Lowest(S, Nth(S, n))) = n
    BY <2>1 DEF Nth, Lowest
  <2> QED BY <2>2 DEF InOrder
<1> HIDE DEF S, c
<1>6. ASSUME NEW k \in Keys
      PROVE  Last(Append(o, k)) = k /\ Len(Append(o, k)) = Len(o) + 1
  BY <1>3 DEF Last
<1>7. ASSUME NEW i \in 1..c
      PROVE  /\ InOrder(o)[i] = Append(o, Last(InOrder(o)[i])) /\ Last(InOrder(o)[i]) \in Keys
             /\ Last(InOrder(o)[i]) = KEYS[Nth(S, i)] /\ Len(InOrder(o)[i]) = Len(o) + 1
  <2> DEFINE k == KEYS[Nth(S, i)]
  <2>1. k \in Keys /\ InOrder(o)[i] = Append(o, k)
    BY <1>4, <1>5
  <2> HIDE DEF k
  <2>2. Last(InOrder(o)[i]) = k /\ Len(InOrder(o)[i]) = Len(o) + 1
    BY <1>6, <2>1
  <2> QED BY <2>1, <2>2 DEF k
<1>8. ASSUME NEW i \in 1..c, NEW j \in 1..c, InOrder(o)[i] = InOrder(o)[j] PROVE i = j
  <2>1. KEYS[Nth(S, i)] = KEYS[Nth(S, j)]
    BY <1>7, <1>8
  <2>2. Nth(S, i) \in 1..Len(KEYS) /\ Nth(S, j) \in 1..Len(KEYS)
    BY <1>1, <1>5
  <2>3. Nth(S, i) = Nth(S, j)
    BY <2>1, <2>2, LineAssumption
  <2> QED BY <1>5, <2>3
<1>9. ASSUME NEW p \in Paths, Above(o, p), Len(p) = Len(o) + 1, values[p] # None
      PROVE  \E i \in 1..c : InOrder(o)[i] = p
  <2> DEFINE k == p[Len(o) + 1]
  <2>1. p \in Seq(Keys) /\ k \in Keys
    BY <1>3, <1>9, PathTypes DEF Events
  <2>2. p = Append(o, k)
    <3>1. /\ Append(o, k) \in Seq(Keys) /\ Len(Append(o, k)) = Len(o) + 1
          /\ Append(o, k)[Len(o) + 1] = k /\ \A i \in 1..Len(o) : Append(o, k)[i] = o[i]
      BY <1>3, <2>1, Pushed
    <3>2. \A i \in 1..Len(o) : p[i] = o[i]
      BY <1>9 DEF Above
    <3>3. \A i \in 1..Len(p) : p[i] = Append(o, k)[i]
      <4> SUFFICES ASSUME NEW i \in 1..Len(p) PROVE p[i] = Append(o, k)[i]
        OBVIOUS
      <4>1. i \in 1..Len(o) \/ i = Len(o) + 1
        BY <1>3, <1>9
      <4> HIDE DEF k
      <4>2. CASE i \in 1..Len(o)
        BY <3>1, <3>2, <4>2
      <4>3. CASE i = Len(o) + 1
        BY <3>1, <4>3 DEF k
      <4> QED BY <4>1, <4>2, <4>3
    <3> HIDE DEF k
    <3> QED BY <1>9, <2>1, <3>1, <3>3, SeqEqual
  <2> HIDE DEF k
  <2>3. PICK j \in 1..Len(KEYS) : KEYS[j] = k
    <3>1. KEYS \in Seq(Keys) /\ k \in ToSet(KEYS)
      BY <2>1, LineAssumption
    <3> QED BY <3>1 DEF ToSet
  <2>4. j \in S
    BY <1>9, <2>2, <2>3 DEF S, SlotsInUse
  <2>5. PICK n \in 1..c : Nth(S, n) = j
    BY <1>1, <2>4, NthIs DEF c
  <2>6. InOrder(o)[n] = p
    BY <1>5, <2>2, <2>3, <2>5
  <2> QED BY <2>6
<1> QED BY <1>2, <1>7, <1>8, <1>9

\* What is inside of different slots has different paths.
LEMMA SlotsApart ==
  ASSUME NEW o \in Events, NEW i \in 1..Len(InOrder(o)), NEW j \in 1..Len(InOrder(o)), i # j
  PROVE  Fresh(FieldsAt(InOrder(o)[i]), FieldsAt(InOrder(o)[j]))
<1> DEFINE p == InOrder(o)[i]
           q == InOrder(o)[j]
<1>1. /\ p \in Paths /\ Above(o, p) /\ Len(p) = Len(o) + 1
      /\ q \in Paths /\ Above(o, q) /\ Len(q) = Len(o) + 1 /\ p # q
  BY InOrderTyped, SlotsNamed
<1> HIDE DEF p, q
<1>2. ASSUME NEW r \in Paths, r = p \/ Above(p, r), r = q \/ Above(q, r) PROVE FALSE
  <2>1. p \in Events /\ r \in Events
    BY <1>1 DEF Events
  <2>2. Above(o, r)
    BY <1>1, <1>2, <2>1, AboveChain
  <2>3. p = Step(o, r) /\ q = Step(o, r)
    BY <1>1, <1>2, <2>2, StepProperties
  <2> QED BY <1>1, <2>3
<1>3. \A f \in FieldsAt(p), g \in FieldsAt(q) : f[1] # g[1]
  BY <1>2 DEF FieldsAt
<1> QED BY <1>3 DEF Fresh, p, q

\* Every field inside of an event is in one of its slots.
LEMMA SlotsCover ==
  ASSUME Shape, NEW o \in Events
  PROVE  FieldsBelow(o) = UpTo([i \in 1..Len(InOrder(o)) |-> FieldsAt(InOrder(o)[i])],
                            Len(InOrder(o)))
<1> DEFINE n == Len(InOrder(o))
           D == [i \in 1..n |-> FieldsAt(InOrder(o)[i])]
<1>1. \A i \in 1..n : /\ InOrder(o)[i] \in Paths /\ Above(o, InOrder(o)[i])
                      /\ InOrder(o)[i] \in Events
  BY InOrderTyped
<1>2. ASSUME NEW r \in Paths, Above(o, r), Held(r)
      PROVE  \E i \in 1..n : r = InOrder(o)[i] \/ Above(InOrder(o)[i], r)
  <2> DEFINE s == Step(o, r)
  <2>1. s \in Paths /\ Above(o, s) /\ Len(s) = Len(o) + 1 /\ (s = r \/ Above(s, r))
    BY <1>2, StepProperties
  <2> HIDE DEF s
  <2>2. values[s] # None
    BY <1>2, <2>1, SlotKinds DEF Shape, Tree, Held
  <2>3. \E i \in 1..n : InOrder(o)[i] = s
    BY <2>1, <2>2, SlotsNamed
  <2> QED BY <2>1, <2>3
<1>3. ASSUME NEW i \in 1..n, NEW r \in Paths, r = InOrder(o)[i] \/ Above(InOrder(o)[i], r)
      PROVE  Above(o, r)
  <2>1. r \in Events
    BY DEF Events
  <2> QED BY <1>1, <1>3, <2>1, AboveChain
<1>4. \A i \in 1..n : D[i] = FieldsAt(InOrder(o)[i])
  OBVIOUS
<1> HIDE DEF n, D
<1>5. FieldsBelow(o) \subseteq UpTo(D, n)
  <2> SUFFICES ASSUME NEW r \in Paths, Above(o, r), Held(r)
               PROVE  <<r, write_value(values[r])>> \in UpTo(D, n)
    BY DEF FieldsBelow
  <2>1. PICK i \in 1..n : r = InOrder(o)[i] \/ Above(InOrder(o)[i], r)
    BY <1>2
  <2>2. <<r, write_value(values[r])>> \in D[i]
    BY <1>4, <2>1 DEF FieldsAt
  <2> QED BY <2>2 DEF UpTo
<1>6. UpTo(D, n) \subseteq FieldsBelow(o)
  <2> SUFFICES ASSUME NEW i \in 1..n PROVE D[i] \subseteq FieldsBelow(o)
    BY DEF UpTo
  <2> QED BY <1>3, <1>4 DEF FieldsAt, FieldsBelow
<1> QED BY <1>5, <1>6 DEF n, D

\* An event is read where a value is expected, and yields its fields.
EventReads(o) ==
  \A open \in Seq(Groups) :
    PathOf(open) = o => Yields(Braced(fields[o]), open, "value", open, FieldsBelow(o))

SlotTokens(p) ==
  IF values[p] = Object THEN Braced(fields[p]) ELSE <<ValueToken(write_value(values[p]))>>

\* The parts of an event, with the key and the tokens of each.
LEMMA FieldsAre ==
  ASSUME TypeOK, CountsPresent, NEW o \in Events
  PROVE  /\ DOMAIN fields[o] = 1..Len(InOrder(o)) /\ Len(InOrder(o)) \in Nat
         /\ \A i \in 1..Len(InOrder(o)) :
              fields[o][i] = Keyed(Last(InOrder(o)[i]), SlotTokens(InOrder(o)[i]))
<1>1. fields = Direct(fields) /\ Len(InOrder(o)) \in Nat
  BY TokensAgree, InOrderTyped
<1>2. fields[o] = [i \in 1..Len(InOrder(o)) |->
                     Keyed(Last(InOrder(o)[i]), SlotTokens(InOrder(o)[i]))]
  <2> DEFINE f == fields
  <2>1. f[o] = Direct(f)[o]
    BY <1>1
  <2>2. \A g : Direct(g)[o] = [i \in 1..Len(InOrder(o)) |->
                 Keyed(Last(InOrder(o)[i]),
                       IF values[InOrder(o)[i]] = Object THEN Braced(g[InOrder(o)[i]])
                       ELSE <<ValueToken(write_value(values[InOrder(o)[i]]))>>)]
    BY DEF Direct
  <2> QED BY <2>1, <2>2 DEF SlotTokens
<1> QED BY <1>1, <1>2

\* A slot yields what is at it and inside of it.
LEMMA SlotYields ==
  ASSUME TypeOK, Shape, NEW o \in Events, NEW p \in Paths, NEW k \in Keys, p = Append(o, k),
         values[p] # None, values[p] = Object => EventReads(p),
         NEW open \in Seq(Groups), PathOf(open) = o
  PROVE  Yields(SlotTokens(p), Append(open, Group("object", k)), "value",
                Append(open, Group("object", k)), FieldsAt(p))
<1> DEFINE within == Append(open, Group("object", k))
<1>1. within \in Seq(Groups) /\ PathOf(within) = p
  BY Opened DEF Names
<1> HIDE DEF within
<1>2. CASE values[p] = Object
  <2>1. Yields(Braced(fields[p]), within, "value", within, FieldsBelow(p))
    BY <1>1, <1>2 DEF EventReads
  <2>2. FieldsBelow(p) = FieldsAt(p)
    BY <1>2 DEF FieldsBelow, FieldsAt, Held
  <2> QED BY <1>2, <2>1, <2>2 DEF SlotTokens, within
<1>3. CASE values[p] # Object
  <2> DEFINE v == write_value(values[p])
  <2>1. v \in Written
    <3>1. values[p] \in Scalar
      BY <1>3 DEF TypeOK
    <3> QED BY <3>1 DEF Written
  <2>2. FieldsAt(p) = {<<p, v>>}
    <3>1. \A r \in Paths : Above(p, r) => ~Held(r)
      BY <1>3 DEF Shape, Tree, Held
    <3>2. Held(p)
      BY <1>3 DEF Held
    <3> HIDE DEF v
    <3>3. {r \in Paths : (r = p \/ Above(p, r)) /\ Held(r)} = {p}
      BY <3>1, <3>2
    <3> QED BY <3>3 DEF FieldsAt, v
  <2> HIDE DEF v
  <2>3. Yields(<<ValueToken(v)>>, within, "value", within, {<<p, v>>})
    BY <1>1, <2>1, ScalarYields
  <2> QED BY <1>3, <2>2, <2>3 DEF SlotTokens, within, v
<1> QED BY <1>2, <1>3

\* Each of an event's parts, if the events in its slots are read.
LEMMA PartsYield ==
  ASSUME TypeOK, Shape, NEW o \in Events,
         \A i \in 1..Len(InOrder(o)) : EventReads(InOrder(o)[i]),
         NEW open \in Seq(Groups), PathOf(open) = o, NEW i \in 1..Len(InOrder(o))
  PROVE  Yields(SlotTokens(InOrder(o)[i]),
                Append(open, Group("object", Last(InOrder(o)[i]))), "value",
                Append(open, Group("object", Last(InOrder(o)[i]))), FieldsAt(InOrder(o)[i]))
<1> DEFINE p == InOrder(o)[i]
           k == Last(p)
<1>1. p \in Paths /\ values[p] # None /\ k \in Keys /\ p = Append(o, k) /\ EventReads(p)
  BY InOrderTyped, SlotsNamed
<1> HIDE DEF p, k
<1>2. Yields(SlotTokens(p), Append(open, Group("object", k)), "value",
             Append(open, Group("object", k)), FieldsAt(p))
  BY <1>1, SlotYields
<1> QED BY <1>2 DEF p, k

\* An event is read if the events in its slots are.
LEMMA EventStep ==
  ASSUME TypeOK, Shape, CountsPresent, NEW o \in Events,
         \A i \in 1..Len(InOrder(o)) : EventReads(InOrder(o)[i])
  PROVE  EventReads(o)
<1> SUFFICES ASSUME NEW open \in Seq(Groups), PathOf(open) = o
             PROVE  Yields(Braced(fields[o]), open, "value", open, FieldsBelow(o))
  BY DEF EventReads
<1> DEFINE n == Len(InOrder(o))
           D == [i \in 1..n |-> FieldsAt(InOrder(o)[i])]
           keys == [i \in 1..n |-> Last(InOrder(o)[i])]
           tokens == [i \in 1..n |-> SlotTokens(InOrder(o)[i])]
           parts == fields[o]
<1>1. n \in Nat /\ DOMAIN parts = 1..n /\ \A i \in 1..n : parts[i] = Keyed(keys[i], tokens[i])
  BY FieldsAre
<1>2. \A i \in 1..n : keys[i] \in Names
  BY SlotsNamed DEF Names
<1>3. \A i \in 1..n : Yields(tokens[i], Append(open, Group("object", keys[i])), "value",
                             Append(open, Group("object", keys[i])), D[i])
  BY PartsYield
<1>4. \A i, j \in 1..n : i # j => Fresh(D[i], D[j])
  BY SlotsApart
<1>5. FieldsBelow(o) = UpTo(D, n)
  BY SlotsCover
<1>6. Ready(open, "value")
  BY DEF Ready
<1> HIDE DEF n, D, keys, tokens, parts
<1>7. Yields(Braced(parts), open, "value", open, UpTo(D, n))
  BY <1>1, <1>2, <1>3, <1>4, <1>6, BracedYields
<1> QED BY <1>5, <1>7 DEF parts

\* So, from the innermost out, every event.
LEMMA EventsRead ==
  ASSUME TypeOK, Shape, CountsPresent
  PROVE  \A o \in Events : EventReads(o)
<1> DEFINE Wrong == {h \in Nat : \E o \in Events : Height(o) = h /\ ~EventReads(o)}
<1>1. ASSUME NEW h \in Wrong PROVE \E m \in Wrong : m < h
  <2>1. PICK o \in Events : Height(o) = h /\ ~EventReads(o)
    BY <1>1
  <2>2. PICK i \in 1..Len(InOrder(o)) : ~EventReads(InOrder(o)[i])
    BY <2>1, EventStep
  <2> DEFINE p == InOrder(o)[i]
  <2>3. p \in Events /\ Height(p) < Height(o) /\ Height(p) \in Nat /\ ~EventReads(p)
    BY <2>2, InOrderTyped, HeightType
  <2> HIDE DEF p
  <2>4. Height(p) \in Wrong /\ Height(p) < h
    BY <2>1, <2>3
  <2> QED BY <2>4
<1>2. Wrong = {}
  <2>1. Wrong \in SUBSET Nat
    OBVIOUS
  <2> HIDE DEF Wrong
  <2> QED BY <1>1, <2>1, NoneLeast
<1>3. \A o \in Events : Height(o) \in Nat
  BY HeightType
<1> QED BY <1>2, <1>3

\* What a group of an array is.
LEMMA ElementOpened ==
  ASSUME NEW open \in Seq(Groups), NEW n \in Names \cup Nat
  PROVE  /\ Append(open, Group("array", n)) \in Seq(Groups)
         /\ Append(open, Group("array", n)) # <<>>
         /\ Last(Append(open, Group("array", n))).kind = "array"
         /\ PathOf(Append(open, Group("array", n))) = Append(PathOf(open), n)
<1> DEFINE kind == "array"
<1>1. kind \in {"object", "array"}
  OBVIOUS
<1> HIDE DEF kind
<1>2. /\ Append(open, Group(kind, n)) \in Seq(Groups)
      /\ Append(open, Group(kind, n)) # <<>>
      /\ Last(Append(open, Group(kind, n))).kind = kind
      /\ PathOf(Append(open, Group(kind, n))) = Append(PathOf(open), n)
  BY <1>1, Opened
<1> QED BY <1>2 DEF kind

EntryFields(log, i) ==
  {<<<<LOG_KEY, i, LEVEL_KEY>>, log[i].level>>, <<<<LOG_KEY, i, MESSAGE_KEY>>, log[i].message>>}

\* One entry of the log, as an element of the array.
LEMMA EntryYields ==
  ASSUME NEW log \in Logs, NEW i \in 1..Len(log), NEW open \in Seq(Groups),
         PathOf(open) = <<LOG_KEY>>, NEW expect \in {"first", "value"}
  PROVE  Yields(log_entry(log[i].level, log[i].message), Append(open, Group("array", i)), expect,
                Append(open, Group("array", i)), EntryFields(log, i))
<1> DEFINE within == Append(open, Group("array", i))
           level == log[i].level
           message == log[i].message
           names == <<LEVEL_KEY, MESSAGE_KEY>>
           tokens == << <<ValueToken(level)>>, <<ValueToken(message)>> >>
           d1 == {<<<<LOG_KEY, i, LEVEL_KEY>>, level>>}
           d2 == {<<<<LOG_KEY, i, MESSAGE_KEY>>, message>>}
           D == <<d1, d2>>
           parts == <<Keyed(LEVEL_KEY, <<ValueToken(level)>>), Keyed(MESSAGE_KEY, <<ValueToken(message)>>)>>
<1>1. /\ within \in Seq(Groups) /\ within # <<>> /\ Last(within).kind = "array"
      /\ PathOf(within) = <<LOG_KEY, i>>
  <2>1. i \in Names \cup Nat
    <3>1. Len(log) \in Nat
      BY LineAssumption
    <3> QED BY <3>1
  <2>2. /\ within \in Seq(Groups) /\ within # <<>> /\ Last(within).kind = "array"
        /\ PathOf(within) = Append(PathOf(open), i)
    BY <2>1, ElementOpened
  <2> HIDE DEF within
  <2> QED BY <2>2, Three
<1>2. level \in Written /\ message \in Written
  <2>1. log \in Seq(LogEntries)
    BY LineAssumption
  <2>2. log[i] \in LogEntries
    BY <2>1
  <2> QED BY <2>2 DEF Written
<1>3. DOMAIN parts = 1..2
  OBVIOUS
<1>4. /\ names[1] = LEVEL_KEY /\ names[2] = MESSAGE_KEY
      /\ tokens[1] = <<ValueToken(level)>> /\ tokens[2] = <<ValueToken(message)>>
      /\ D[1] = d1 /\ D[2] = d2
      /\ parts[1] = Keyed(LEVEL_KEY, <<ValueToken(level)>>)
      /\ parts[2] = Keyed(MESSAGE_KEY, <<ValueToken(message)>>)
  OBVIOUS
<1>5. \A j \in 1..2 : j = 1 \/ j = 2
  OBVIOUS
<1>6. Ready(within, expect)
  BY <1>1 DEF Ready
<1>7. /\ Fresh(d1, d2) /\ Fresh(d2, d1)
  <2>1. <<LOG_KEY, i, LEVEL_KEY>> # <<LOG_KEY, i, MESSAGE_KEY>>
    BY LineAssumption
  <2> QED BY <2>1 DEF Fresh
<1>8. EntryFields(log, i) = UpTo(D, 2)
  <2>1. {D[j] : j \in 1..2} = {d1, d2}
    <3> HIDE DEF d1, d2, D
    <3>1. 1 \in 1..2 /\ 2 \in 1..2
      OBVIOUS
    <3> QED BY <1>4, <1>5, <3>1
  <2> HIDE DEF D
  <2>2. UpTo(D, 2) = d1 \cup d2
    BY <2>1 DEF UpTo
  <2> QED BY <2>2 DEF EntryFields
<1>9. ASSUME NEW k \in {LEVEL_KEY, MESSAGE_KEY}, NEW v \in Written
      PROVE  Yields(<<ValueToken(v)>>, Append(within, Group("object", k)), "value",
                    Append(within, Group("object", k)), {<<<<LOG_KEY, i, k>>, v>>})
  <2> DEFINE inner == Append(within, Group("object", k))
  <2> HIDE DEF within
  <2>1. PathOf(inner) = <<LOG_KEY, i, k>>
    <3>1. PathOf(inner) = Append(PathOf(within), k)
      <4>1. k \in Names \cup Nat
        BY DEF Names
      <4>2. within \in Seq(Groups)
        BY <1>1
      <4> QED BY <4>1, <4>2, Opened
    <3>2. Append(<<LOG_KEY, i>>, k) = <<LOG_KEY, i, k>>
      BY Three
    <3> HIDE DEF inner
    <3> QED BY <1>1, <3>1, <3>2
  <2> HIDE DEF inner
  <2>2. Yields(<<ValueToken(v)>>, inner, "value", inner, {<<PathOf(inner), v>>})
    BY ScalarYields
  <2> QED BY <2>1, <2>2 DEF inner
<1>10. log_entry(level, message) = Braced(parts)
  BY DEF log_entry
<1> HIDE DEF within, level, message, names, tokens, d1, d2, D, parts
<1>11. \A j \in 1..2 :
         /\ names[j] \in Names /\ parts[j] = Keyed(names[j], tokens[j])
         /\ Yields(tokens[j], Append(within, Group("object", names[j])), "value",
                   Append(within, Group("object", names[j])), D[j])
  <2>1. /\ Yields(tokens[1], Append(within, Group("object", names[1])), "value",
                  Append(within, Group("object", names[1])), D[1])
        /\ Yields(tokens[2], Append(within, Group("object", names[2])), "value",
                  Append(within, Group("object", names[2])), D[2])
    BY <1>2, <1>4, <1>9 DEF d1, d2
  <2>2. /\ names[1] \in Names /\ parts[1] = Keyed(names[1], tokens[1])
        /\ names[2] \in Names /\ parts[2] = Keyed(names[2], tokens[2])
    BY <1>4 DEF Names
  <2> QED BY <1>5, <2>1, <2>2
<1>12. \A j, m \in 1..2 : j # m => Fresh(D[j], D[m])
  BY <1>4, <1>5, <1>7
<1>13. Yields(Braced(parts), within, expect, within, UpTo(D, 2))
  BY <1>1, <1>3, <1>6, <1>11, <1>12, BracedYields
<1> QED BY <1>8, <1>10, <1>13 DEF within, level, message

\* The log, as the value of its key.
ArrayTokens(log) ==
  <<Mark("begin_array")>>
    \o Separated([i \in 1..Len(log) |-> log_entry(log[i].level, log[i].message)])
    \o <<Mark("end_array")>>

\* The entries yield what the log holds, each at its position.
LEMMA LogYields ==
  ASSUME NEW log \in Logs, log # <<>>, NEW open \in Seq(Groups), PathOf(open) = <<LOG_KEY>>
  PROVE  Yields(ArrayTokens(log), open, "value", open, LogFields(log))
<1> DEFINE n == Len(log)
           parts == [i \in 1..n |-> log_entry(log[i].level, log[i].message)]
           after == [i \in 0..n |-> Append(open, Group("array", IF i = 0 THEN 1 ELSE i))]
           D == [i \in 1..n |-> EntryFields(log, i)]
           begin == Mark("begin_array")
           end == Mark("end_array")
           comma == Mark("comma")
<1>1. n \in Nat \ {0}
  BY LineAssumption
<1>2. begin \in Token /\ end \in Token /\ comma \in Token
  BY TokenTypes DEF Marks
<1>3. /\ after[0] = Append(open, Group("array", 1))
      /\ \A i \in 1..n : after[i] = Append(open, Group("array", i))
  BY <1>1
<1>4. \A i \in 1..n : D[i] = EntryFields(log, i)
                      /\ parts[i] = log_entry(log[i].level, log[i].message)
  OBVIOUS
<1>5. DOMAIN parts = 1..n
  OBVIOUS
<1>6. LogFields(log) = UpTo(D, n)
  BY DEF LogFields, EntryFields, UpTo
<1> HIDE DEF n, after, D, parts
<1>7. ASSUME NEW i \in 1..n, NEW expect \in {"first", "value"}
      PROVE  Yields(parts[i], after[i], expect, after[i], D[i])
  BY <1>3, <1>4, EntryYields DEF n
<1>8. ASSUME NEW i \in 1..n PROVE parts[i] \in Seq(Token) /\ parts[i] # <<>>
  <2>1. parts[i] \in Seq(Token)
    BY <1>7 DEF Yields
  <2>2. parts[i] # <<>>
    <3> SUFFICES ASSUME parts[i] = <<>> PROVE FALSE
      OBVIOUS
    <3>1. \A R : Fresh(R, D[i]) => Reader(after[i], "value", R) = Reader(after[i], "next", R \cup D[i])
      BY <1>7, ReadOne DEF Yields
    <3>2. Fresh({}, D[i])
      BY DEF Fresh
    <3>3. Reader(after[i], "value", {}) # Reader(after[i], "next", {} \cup D[i])
      BY DEF Reader
    <3> QED BY <3>1, <3>2, <3>3
  <2> QED BY <2>1, <2>2
<1>9. Yields(parts[1], after[0], "first", after[1], D[1])
  <2>1. 1 \in 1..n /\ after[0] = after[1]
    BY <1>1, <1>3
  <2> QED BY <1>7, <2>1
<1>10. ASSUME NEW i \in 2..n
       PROVE  Yields(<<comma>> \o parts[i], after[i - 1], "next", after[i], D[i])
  <2>1. i \in 1..n /\ i - 1 \in 1..n /\ i - 1 \in Nat /\ i - 1 + 1 = i
    BY <1>1
  <2>2. Yields(parts[i], after[i], "value", after[i], D[i])
    BY <1>7, <2>1
  <2>3. \A R : ReadToken(Reader(after[i - 1], "next", R), comma) = Reader(after[i], "value", R)
    <3> DEFINE m == i - 1
    <3>1. m \in Nat /\ m + 1 = i /\ after[m] = Append(open, Group("array", m))
          /\ after[i] = Append(open, Group("array", m + 1))
      BY <1>3, <2>1
    <3> HIDE DEF m
    <3>2. \A R : ReadToken(Reader(after[m], "next", R), comma) = Reader(after[i], "value", R)
      BY <3>1, ReadComma
    <3> QED BY <3>2 DEF m
  <2> HIDE DEF comma
  <2> QED BY <1>2, <2>2, <2>3, AfterToken
<1>11. \A i, j \in 1..n : i # j => Fresh(D[i], D[j])
  <2> SUFFICES ASSUME NEW i \in 1..n, NEW j \in 1..n, i # j PROVE Fresh(D[i], D[j])
    OBVIOUS
  <2>1. \A a, b : <<LOG_KEY, i, a>> # <<LOG_KEY, j, b>>
    OBVIOUS
  <2>2. \A f \in EntryFields(log, i), g \in EntryFields(log, j) : f[1] # g[1]
    BY <2>1 DEF EntryFields
  <2> QED BY <1>4, <2>2 DEF Fresh
<1> DEFINE line == Separated(parts)
<1>12. Yields(line, after[0], "first", after[n], UpTo(D, n))
  <2>1. n > 0 /\ n \in Nat
    BY <1>1
  <2>2. \A i \in 1..n : parts[i] \in Seq(Token) /\ parts[i] # <<>>
    BY <1>8
  <2>3. /\ n = 0 => Separated(parts) = <<>>
        /\ n > 0 => Yields(Separated(parts), after[0], "first", after[n], UpTo(D, n))
    BY <1>5, <1>9, <1>10, <1>11, <2>1, <2>2, SeparatedYields
  <2> QED BY <2>1, <2>3
<1>13. /\ \A R : ReadToken(Reader(open, "value", R), begin) = Reader(after[0], "first", R)
       /\ \A R : ReadToken(Reader(after[n], "next", R), end) = Reader(open, "next", R)
  <2>1. n \in 1..n /\ n \in Names \cup Nat /\ Ready(open, "value")
    BY <1>1 DEF Ready
  <2>2. \A R : ReadToken(Reader(open, "value", R), begin) = Reader(after[0], "first", R)
    BY <1>3, <2>1, ReadBegin
  <2>3. \A R : ReadToken(Reader(after[n], "next", R), end) = Reader(open, "next", R)
    BY <1>3, <2>1, ReadEnd
  <2> QED BY <2>2, <2>3
<1> HIDE DEF line, begin, end
<1>14. Yields(<<begin>> \o line, open, "value", after[n], UpTo(D, n))
  BY <1>2, <1>12, <1>13, AfterToken
<1>15. Yields((<<begin>> \o line) \o <<end>>, open, "value", open, UpTo(D, n))
  BY <1>2, <1>13, <1>14, BeforeToken
<1> QED BY <1>6, <1>15 DEF ArrayTokens, line, begin, end, parts, n

\* Nothing is open around the whole line.
LEMMA Outermost ==
  /\ <<>> \in Seq(Groups) /\ PathOf(<<>>) = <<>> /\ <<>> \in Events
  /\ PathOf(Append(<<>>, Group("object", LOG_KEY))) = <<LOG_KEY>>
<1>1. <<>> \in Seq(Groups) /\ Len(<<>>) = 0 /\ <<>> \in Events
  BY EmptySeq DEF Events
<1>2. PathOf(<<>>) = <<>>
  <2> DEFINE p == PathOf(<<>>)
             none == <<>>
             S == {none[i].step : i \in 1..Len(none)}
  <2>1. Len(none) = 0
    OBVIOUS
  <2>2. p \in [1..Len(none) -> S]
    BY DEF PathOf
  <2> HIDE DEF p, S, none
  <2>3. p \in [1..0 -> S]
    BY <2>1, <2>2
  <2>4. p \in Seq(S) /\ Len(p) = 0
    BY <2>3
  <2>5. p = <<>>
    BY <2>4
  <2> QED BY <2>5 DEF p
<1>3. LOG_KEY \in Names \cup Nat
  BY DEF Names
<1> DEFINE o == Append(<<>>, Group("object", LOG_KEY))
<1>4. PathOf(o) = Append(PathOf(<<>>), LOG_KEY)
  BY <1>1, <1>3, Opened
<1>5. Append(<<>>, LOG_KEY) = <<LOG_KEY>>
  BY Three
<1> HIDE DEF o
<1>6. PathOf(o) = <<LOG_KEY>>
  BY <1>2, <1>4, <1>5
<1> QED BY <1>1, <1>2, <1>6 DEF o

\* The log's fields are at paths that no slot has.
LEMMA LogApart ==
  ASSUME NEW log \in Logs, NEW p \in Paths
  PROVE  Fresh(FieldsAt(p), LogFields(log)) /\ Fresh(LogFields(log), FieldsAt(p))
<1>1. ASSUME NEW q \in Paths PROVE q[1] # LOG_KEY
  <2> SUFFICES ASSUME q[1] = LOG_KEY PROVE FALSE
    OBVIOUS
  <2>1. q \in Seq(Keys) /\ 1 \in 1..Len(q)
    BY PathTypes, PathsAssumption, LenProperties
  <2>2. SubSeq(q, 1, 1) \in Paths
    BY <2>1, PathsAssumption
  <2>3. SubSeq(q, 1, 1) = <<q[1]>>
    <3> DEFINE s == SubSeq(q, 1, 1)
               t == <<q[1]>>
    <3>1. s \in Seq(Keys) /\ Len(s) = 1 /\ s[1] = q[1]
      BY <2>1
    <3>2. t \in Seq(Keys) /\ Len(t) = 1 /\ t[1] = q[1]
      BY <2>1
    <3>3. \A i \in 1..1 : i = 1
      OBVIOUS
    <3> HIDE DEF s, t
    <3>4. s = t
      BY <3>1, <3>2, <3>3, SeqEqual
    <3> QED BY <3>4 DEF s, t
  <2> QED BY <2>2, <2>3, LineAssumption
<1>2. \A f \in FieldsAt(p) : f[1] \in Paths
  BY DEF FieldsAt
<1>3. ASSUME NEW g \in LogFields(log) PROVE g[1][1] = LOG_KEY
  <2>1. PICK i \in 1..Len(log) :
          g \in {<<<<LOG_KEY, i, LEVEL_KEY>>, log[i].level>>,
                 <<<<LOG_KEY, i, MESSAGE_KEY>>, log[i].message>>}
    BY DEF LogFields
  <2> QED BY <2>1
<1>4. \A f \in FieldsAt(p), g \in LogFields(log) : f[1] # g[1]
  BY <1>1, <1>2, <1>3
<1> QED BY <1>4 DEF Fresh

\* The parts of the line: the fields and, after them, the log.
LEMMA LineParts ==
  ASSUME TypeOK, CountsPresent, NEW log \in Logs, log # <<>>
  PROVE  /\ DOMAIN (fields[<<>>] \o log_part(log)) = 1..Len(InOrder(<<>>)) + 1
         /\ \A i \in 1..Len(InOrder(<<>>)) :
              (fields[<<>>] \o log_part(log))[i] = fields[<<>>][i]
         /\ (fields[<<>>] \o log_part(log))[Len(InOrder(<<>>)) + 1] =
              Keyed(LOG_KEY, ArrayTokens(log))
<1> DEFINE n == Len(InOrder(<<>>))
           f == fields[<<>>]
           last == Keyed(LOG_KEY, ArrayTokens(log))
           S == {f[i] : i \in 1..n} \cup {last}
<1>1. log_part(log) = <<last>>
  BY DEF log_part, ArrayTokens
<1>2. n \in Nat /\ f \in [1..n -> S]
  <2>1. n \in Nat /\ DOMAIN f = 1..n
    BY Outermost, FieldsAre
  <2>2. f = [i \in 1..n |-> f[i]]
    <3>1. f = Direct(fields)[<<>>] /\ DOMAIN f = 1..n
      BY <2>1, TokensAgree
    <3> QED BY <3>1, Outermost DEF Direct
  <2> QED BY <2>1, <2>2
<1>3. last \in S
  OBVIOUS
<1> HIDE DEF n, f, last, S
<1>4. f \in Seq(S) /\ Len(f) = n
  BY <1>2
<1>5. /\ DOMAIN (f \o <<last>>) = 1..n + 1
      /\ \A i \in 1..n : (f \o <<last>>)[i] = f[i]
      /\ (f \o <<last>>)[n + 1] = last
  BY <1>2, <1>3, <1>4
<1> QED BY <1>1, <1>5 DEF n, f, last

\* The line yields the fields of the event and those of its log.
LEMMA LineYields ==
  ASSUME TypeOK, Shape, CountsPresent, NEW log \in Logs
  PROVE  Yields(serialize_to(log), <<>>, "value", <<>>, Fields \cup LogFields(log))
<1>1. <<>> \in Seq(Groups) /\ PathOf(<<>>) = <<>> /\ <<>> \in Events
  BY Outermost
<1>2. FieldsBelow(<<>>) = Fields
  BY PathTypes DEF FieldsBelow, Fields, Held
<1>3. CASE log = <<>>
  <2>1. Yields(Braced(fields[<<>>]), <<>>, "value", <<>>, FieldsBelow(<<>>))
    BY <1>1, EventsRead DEF EventReads
  <2>2. LogFields(log) = {}
    <3>1. 1..Len(log) = {}
      BY <1>3
    <3> QED BY <3>1 DEF LogFields
  <2>3. fields[<<>>] \o log_part(log) = fields[<<>>]
    <3> DEFINE f == fields[<<>>]
               n == Len(InOrder(<<>>))
               S == {f[i] : i \in 1..n}
    <3>1. n \in Nat /\ DOMAIN f = 1..n
      BY <1>1, FieldsAre
    <3>2. f = [i \in 1..n |-> f[i]]
      <4>1. f = Direct(fields)[<<>>]
        BY TokensAgree
      <4> QED BY <3>1, <4>1, <1>1 DEF Direct
    <3>3. f \in [1..n -> S]
      BY <3>2
    <3> HIDE DEF f, n, S
    <3>4. f \in Seq(S)
      BY <3>1, <3>3
    <3>5. f \o <<>> = f
      BY <3>4
    <3> QED BY <1>3, <3>5 DEF log_part, f
  <2> QED BY <1>2, <2>1, <2>2, <2>3 DEF serialize_to
<1>4. CASE log # <<>>
  <2> DEFINE n == Len(InOrder(<<>>))
             parts == fields[<<>>] \o log_part(log)
             keys == [i \in 1..n + 1 |-> IF i = n + 1 THEN LOG_KEY ELSE Last(InOrder(<<>>)[i])]
             tokens == [i \in 1..n + 1 |->
                          IF i = n + 1 THEN ArrayTokens(log) ELSE SlotTokens(InOrder(<<>>)[i])]
             D == [i \in 1..n + 1 |->
                     IF i = n + 1 THEN LogFields(log) ELSE FieldsAt(InOrder(<<>>)[i])]
             m == n + 1
  <2>1. /\ n \in Nat /\ m \in Nat /\ m = n + 1
        /\ \A i \in 1..m : i \in 1..n \/ i = m
        /\ \A i \in 1..n : i # m /\ i \in 1..m
        /\ m \in 1..m
    <3>1. n \in Nat
      BY <1>1, FieldsAre
    <3> HIDE DEF n
    <3> QED BY <3>1
  <2>2. /\ keys[m] = LOG_KEY /\ tokens[m] = ArrayTokens(log) /\ D[m] = LogFields(log)
        /\ \A i \in 1..n : /\ keys[i] = Last(InOrder(<<>>)[i])
                           /\ tokens[i] = SlotTokens(InOrder(<<>>)[i])
                           /\ D[i] = FieldsAt(InOrder(<<>>)[i])
    BY <2>1
  <2>3. /\ DOMAIN parts = 1..m
        /\ parts[m] = Keyed(LOG_KEY, ArrayTokens(log))
        /\ \A i \in 1..n : parts[i] = Keyed(keys[i], tokens[i])
    <3>1. \A i \in 1..n :
            fields[<<>>][i] = Keyed(Last(InOrder(<<>>)[i]), SlotTokens(InOrder(<<>>)[i]))
      BY <1>1, FieldsAre
    <3>2. /\ DOMAIN parts = 1..m /\ parts[m] = Keyed(LOG_KEY, ArrayTokens(log))
          /\ \A i \in 1..n : parts[i] = fields[<<>>][i]
      BY <1>4, LineParts
    <3> HIDE DEF parts, keys, tokens, n, m
    <3> QED BY <2>2, <3>1, <3>2
  <2>4. \A i \in 1..n :
          /\ keys[i] \in Names
          /\ Yields(tokens[i], Append(<<>>, Group("object", keys[i])), "value",
                    Append(<<>>, Group("object", keys[i])), D[i])
    <3>1. \A i \in 1..n : Last(InOrder(<<>>)[i]) \in Names
      BY <1>1, SlotsNamed DEF Names
    <3>2. \A i \in 1..n : EventReads(InOrder(<<>>)[i])
      BY <1>1, EventsRead, InOrderTyped
    <3>3. \A i \in 1..n :
            Yields(SlotTokens(InOrder(<<>>)[i]),
                   Append(<<>>, Group("object", Last(InOrder(<<>>)[i]))), "value",
                   Append(<<>>, Group("object", Last(InOrder(<<>>)[i]))),
                   FieldsAt(InOrder(<<>>)[i]))
      BY <1>1, <3>2, PartsYield
    <3> HIDE DEF keys, tokens, D, n, m
    <3> QED BY <2>2, <3>1, <3>3
  <2>5. /\ keys[m] \in Names /\ parts[m] = Keyed(keys[m], tokens[m])
        /\ Yields(tokens[m], Append(<<>>, Group("object", keys[m])), "value",
                  Append(<<>>, Group("object", keys[m])), D[m])
    <3> DEFINE open == Append(<<>>, Group("object", LOG_KEY))
    <3>1. LOG_KEY \in Names /\ LOG_KEY \in Names \cup Nat
      BY DEF Names
    <3>2. open \in Seq(Groups)
      BY <1>1, <3>1, Opened
    <3>3. PathOf(open) = <<LOG_KEY>>
      BY Outermost
    <3> HIDE DEF open
    <3>4. Yields(ArrayTokens(log), open, "value", open, LogFields(log))
      BY <1>4, <3>2, <3>3, LogYields
    <3> HIDE DEF keys, tokens, D, parts, n, m
    <3> QED BY <2>2, <2>3, <3>1, <3>4 DEF open
  <2>6. \A i, j \in 1..m : i # j => Fresh(D[i], D[j])
    <3>1. \A i, j \in 1..n : i # j => Fresh(FieldsAt(InOrder(<<>>)[i]), FieldsAt(InOrder(<<>>)[j]))
      BY <1>1, SlotsApart
    <3>2. \A i \in 1..n : /\ Fresh(FieldsAt(InOrder(<<>>)[i]), LogFields(log))
                          /\ Fresh(LogFields(log), FieldsAt(InOrder(<<>>)[i]))
      BY <1>1, InOrderTyped, LogApart
    <3> SUFFICES ASSUME NEW i \in 1..m, NEW j \in 1..m, i # j PROVE Fresh(D[i], D[j])
      OBVIOUS
    <3> DEFINE p == FieldsAt(InOrder(<<>>)[i])
               q == FieldsAt(InOrder(<<>>)[j])
    <3>3. /\ i \in 1..n => D[i] = p /\ Fresh(p, LogFields(log))
          /\ j \in 1..n => D[j] = q /\ Fresh(LogFields(log), q)
          /\ i \in 1..n /\ j \in 1..n => Fresh(p, q)
      BY <2>2, <3>1, <3>2
    <3> HIDE DEF D, n, m, p, q
    <3> QED BY <2>1, <2>2, <3>3
  <2>7. UpTo(D, m) = Fields \cup LogFields(log)
    <3>1. Fields = UNION {FieldsAt(InOrder(<<>>)[i]) : i \in 1..n}
      <4> DEFINE E == [i \in 1..n |-> FieldsAt(InOrder(<<>>)[i])]
      <4>1. Fields = UpTo(E, n)
        BY <1>1, <1>2, SlotsCover
      <4>2. \A i \in 1..n : E[i] = FieldsAt(InOrder(<<>>)[i])
        OBVIOUS
      <4> HIDE DEF E, n
      <4> QED BY <4>1, <4>2 DEF UpTo
    <3> HIDE DEF D, n, m
    <3>2. \A x : x \in UpTo(D, m) <=> x \in Fields \/ x \in LogFields(log)
      BY <2>1, <2>2, <3>1 DEF UpTo
    <3> QED BY <3>2
  <2>8. Ready(<<>>, "value")
    BY DEF Ready
  <2> HIDE DEF n, parts, keys, tokens, D, m
  <2>9. \A i \in 1..m : /\ keys[i] \in Names /\ parts[i] = Keyed(keys[i], tokens[i])
                        /\ Yields(tokens[i], Append(<<>>, Group("object", keys[i])), "value",
                                  Append(<<>>, Group("object", keys[i])), D[i])
    BY <2>1, <2>3, <2>4, <2>5
  <2> DEFINE open == <<>>
  <2>10. open \in Seq(Groups) /\ Ready(open, "value")
    BY <1>1, <2>8
  <2>11. \A i \in 1..m : /\ keys[i] \in Names /\ parts[i] = Keyed(keys[i], tokens[i])
                         /\ Yields(tokens[i], Append(open, Group("object", keys[i])), "value",
                                   Append(open, Group("object", keys[i])), D[i])
    BY <2>9
  <2> HIDE DEF open
  <2>12. Yields(Braced(parts), open, "value", open, UpTo(D, m))
    BY <2>1, <2>3, <2>6, <2>10, <2>11, BracedYields
  <2> QED BY <2>7, <2>12 DEF serialize_to, parts, open
<1> QED BY <1>3, <1>4

\* So the reader of a whole line ends outside of every group, with nothing amiss.
LEMMA LineIsRead == TypeOK /\ Shape /\ CountsPresent => LineReadsBack
<1> SUFFICES ASSUME TypeOK, Shape, CountsPresent, NEW log \in Logs
             PROVE  ReadLine(serialize_to(log)) = Reader(<<>>, "next", Fields \cup LogFields(log))
  BY DEF LineReadsBack
<1> DEFINE all == Fields \cup LogFields(log)
<1>1. Yields(serialize_to(log), <<>>, "value", <<>>, all)
  BY LineYields
<1> HIDE DEF all
<1>2. Fresh({}, all) /\ {} \cup all = all
  BY DEF Fresh
<1>3. Read(Reader(<<>>, "value", {}), serialize_to(log)) = Reader(<<>>, "next", all)
  BY <1>1, <1>2 DEF Yields
<1> QED BY <1>3, ReadLineIs DEF all

\* Whoever reads the line of an event as JSON, at any moment, finds each of its
\* fields once, at its path, and the entries of its log in their order.
THEOREM LineReadsBackAlways == Spec => []LineReadsBack
<1>1. IInv => LineReadsBack
  BY LineIsRead DEF IInv
<1> QED BY <1>1, InitInv, NextInv, PTL DEF Spec
================================================================================
