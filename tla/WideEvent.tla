------------------------------- MODULE WideEvent -------------------------------
(***************************************************************************)
(* One wide event from the builder to the emit closure: the tree of values *)
(* (src/src/wide_event.rs), the statements with which the generated        *)
(* builder fills it (src/wide-log-macros/src/codegen.rs), and the drop of  *)
(* the guard that owns it (src/src/guard.rs).                              *)
(*                                                                         *)
(* The tree is kept flat: `values' has a slot for every path, Object at a  *)
(* path that holds a nested event and None at one that holds nothing.      *)
(* present_count has the cached count of every nested event, that of the   *)
(* event itself at the empty path.                                         *)
(*                                                                         *)
(* Definitions named Slip_X_... are mistakes to put in the place of X.     *)
(***************************************************************************)
EXTENDS Integers, Sequences, FiniteSets

CONSTANTS
  Keys,                      \* the generated enum
  Paths,                     \* the paths in use: no empty one
  DurationPaths,             \* where a schema can put the duration
  TIMESTAMP_PATH, ID_PATH,
  Defaults,                  \* of the schema, in its order: path and value
  Payloads,                  \* values that are not integers
  Elapsed, Now, Id,          \* those the guard and the builder set
  Amounts,                   \* what add_n_path adds
  MAX_U64, MIN_I64, MAX_I64  \* the limits of the integer types

\* q is above p when p lies inside of what q names.
Above(q, p) == Len(q) < Len(p) /\ \A i \in 1..Len(q) : q[i] = p[i]
Related(p, q) == p = q \/ Above(p, q) \/ Above(q, p)

\* The path one segment below o on the way from o to p.
Step(o, p) == SubSeq(p, 1, Len(o) + 1)

None == [type |-> "None"]
Object == [type |-> "Object"]
U64(n) == [type |-> "U64", n |-> n]
I64(n) == [type |-> "I64", n |-> n]
Other(v) == [type |-> "Other", v |-> v]

Integral == {U64(n) : n \in 0..MAX_U64} \cup {I64(n) : n \in MIN_I64..MAX_I64}
Settable == Integral \cup {Other(v) : v \in Payloads}
Scalar == Settable \cup {Other(v) : v \in {Elapsed, Now, Id}}

ASSUME PathsAssumption ==
  /\ Paths \subseteq Seq(Keys) /\ <<>> \notin Paths /\ IsFiniteSet(Paths)
  /\ \A p \in Paths : \A n \in 1..Len(p) : SubSeq(p, 1, n) \in Paths

\* None of the paths of guard and builder contains another.
ASSUME SchemaAssumption ==
  /\ DurationPaths \subseteq Paths /\ {TIMESTAMP_PATH, ID_PATH} \subseteq Paths
  /\ ~Related(TIMESTAMP_PATH, ID_PATH)
  /\ \A d \in DurationPaths : ~Related(d, TIMESTAMP_PATH) /\ ~Related(d, ID_PATH)
  /\ Defaults \in Seq([path : Paths, value : Scalar])

ASSUME NumbersAssumption ==
  /\ MAX_U64 \in Nat /\ MIN_I64 \in Int /\ MAX_I64 \in Nat
  /\ MIN_I64 < 0 /\ 0 < MAX_I64 /\ MAX_I64 <= MAX_U64
  /\ Amounts \subseteq MIN_I64..MAX_I64

VARIABLES
  values,         \* per path: what its slot holds
  present_count,  \* per nested event: the cached count of its slots in use
  phase,          \* "defaults", "preset", "open", "emitted"
  statement,      \* the default to be set next
  DURATION_PATH,  \* of the schema this event was generated for
  id_kept         \* the builder set the id and nothing was written over it

vars == <<values, present_count, phase, statement, DURATION_PATH, id_kept>>

Events == Paths \cup {<<>>}

Init ==
  /\ values = [p \in Paths |-> None]
  /\ present_count = [o \in Events |-> 0]
  /\ phase = "defaults" /\ statement = 1
  /\ DURATION_PATH \in DurationPaths
  /\ id_kept = FALSE
-------------------------------------------------------------------------------
(* A value stored at a path: object() turns every slot above it into a     *)
(* nested event, and what was inside of the old value is gone.             *)

Stored(w, p, v) ==
  [q \in Paths |->
     IF q = p THEN v
     ELSE IF Above(q, p) THEN Object
     ELSE IF Above(p, q) THEN None
     ELSE w[q]]

\* Each event on the way counts a slot that was empty; an event that is
\* dropped takes its count with it.
Slip_Counted_always(c, w, p) ==
  [o \in Events |->
     IF o = p \/ Above(p, o) THEN 0 ELSE IF Above(o, p) THEN c[o] + 1 ELSE c[o]]
Slip_Counted_never(c, w, p) ==
  [o \in Events |-> IF o = p \/ Above(p, o) THEN 0 ELSE c[o]]
Counted(c, w, p) ==
  [o \in Events |->
     IF o = p \/ Above(p, o) THEN 0
     ELSE IF Above(o, p) /\ w[Step(o, p)] = None THEN c[o] + 1
     ELSE c[o]]

write(p, v) ==
  /\ values' = Stored(values, p, v)
  /\ present_count' = Counted(present_count, values, p)

keep_id(p) == id_kept' = (id_kept /\ ~Related(p, ID_PATH))

(* The integer operations.  An increment past the limit of its type wraps  *)
(* in a release build; in one with overflow checks it panics before the    *)
(* slot is written, which is no step.                                      *)

wrap_u64(n) == n % (MAX_U64 + 1)
wrap_i64(n) == MIN_I64 + ((n - MIN_I64) % (MAX_I64 - MIN_I64 + 1))
clamp_u64(n) == IF n < 0 THEN 0 ELSE IF n > MAX_U64 THEN MAX_U64 ELSE n

inc(v) ==
  CASE v.type = "U64" -> U64(wrap_u64(v.n + 1))
    [] v.type = "I64" -> I64(wrap_i64(v.n + 1))
    [] OTHER -> U64(1)

Slip_dec_unclamped(v) ==
  CASE v.type = "U64" -> U64(v.n - 1)
    [] v.type = "I64" -> I64(wrap_i64(v.n - 1))
    [] OTHER -> I64(-1)
dec(v) ==
  CASE v.type = "U64" -> U64(IF v.n > 0 THEN v.n - 1 ELSE 0)
    [] v.type = "I64" -> I64(wrap_i64(v.n - 1))
    [] OTHER -> I64(-1)

add_n(v, n) ==
  CASE v.type = "U64" -> U64(clamp_u64(v.n + n))
    [] v.type = "I64" -> I64(wrap_i64(v.n + n))
    [] OTHER -> IF n >= 0 THEN U64(n) ELSE I64(n)
-------------------------------------------------------------------------------
(* The builder: the defaults in their order, then the preset closure, then *)
(* the id.                                                                 *)

default_stmt ==
  /\ phase = "defaults" /\ statement <= Len(Defaults)
  /\ write(Defaults[statement].path, Defaults[statement].value)
  /\ keep_id(Defaults[statement].path)
  /\ statement' = statement + 1
  /\ UNCHANGED <<phase, DURATION_PATH>>

run_preset ==
  /\ phase = "defaults" /\ statement > Len(Defaults)
  /\ phase' = "preset"
  /\ UNCHANGED <<values, present_count, statement, DURATION_PATH, id_kept>>

build ==
  /\ phase = "preset"
  /\ write(ID_PATH, Other(Id))
  /\ phase' = "open" /\ id_kept' = TRUE
  /\ UNCHANGED <<statement, DURATION_PATH>>

(* User code, in the preset closure or while the guard is alive.           *)

user(p, v) ==
  /\ phase \in {"preset", "open"}
  /\ write(p, v)
  /\ keep_id(p)
  /\ UNCHANGED <<phase, statement, DURATION_PATH>>

add_path(p, v) == user(p, v)
inc_path(p) == user(p, inc(values[p]))
dec_path(p) == user(p, dec(values[p]))
add_n_path(p, n) == user(p, add_n(values[p], n))

(* The drop of the guard, also when the preset closure panics and build    *)
(* unwinds.  Where both paths have two segments, the guard makes the       *)
(* events for them itself and counts a slot for each it makes.             *)

Parent(p) == SubSeq(p, 1, 1)

Slip_Missing_always(p) == TRUE
Slip_Missing_empty(p) == values[Parent(p)] = None
Missing(p) == values[Parent(p)] # Object

Children(ds) ==
  [q \in Paths |->
     IF q \in {Parent(d) : d \in ds} THEN Object
     ELSE IF \E d \in ds : Above(Parent(d), q) THEN None
     ELSE values[q]]
ChildCounts(ds) ==
  [o \in Events |->
     IF o = <<>> THEN present_count[o] + Cardinality(ds)
     ELSE IF \E d \in ds : o = Parent(d) \/ Above(Parent(d), o) THEN 0
     ELSE present_count[o]]

\* The leaf is written only if its slot holds an event by now.
Leaf(w, p, v) == IF w[Parent(p)] = Object THEN Stored(w, p, v) ELSE w
LeafCount(c, w, p) == IF w[Parent(p)] = Object THEN Counted(c, w, p) ELSE c

drop_fast ==
  /\ Len(DURATION_PATH) = 2 /\ Len(TIMESTAMP_PATH) = 2
  /\ LET ds == {d \in {DURATION_PATH, TIMESTAMP_PATH} : Missing(d)}
         made == Children(ds)
         timed == Leaf(made, DURATION_PATH, Other(Elapsed))
     IN  /\ values' = Leaf(timed, TIMESTAMP_PATH, Other(Now))
         /\ present_count' =
              LeafCount(LeafCount(ChildCounts(ds), made, DURATION_PATH), timed, TIMESTAMP_PATH)

drop_slow ==
  /\ ~(Len(DURATION_PATH) = 2 /\ Len(TIMESTAMP_PATH) = 2)
  /\ LET timed == Stored(values, DURATION_PATH, Other(Elapsed))
     IN  /\ values' = Stored(timed, TIMESTAMP_PATH, Other(Now))
         /\ present_count' =
              Counted(Counted(present_count, values, DURATION_PATH), timed, TIMESTAMP_PATH)

drop ==
  /\ phase \in {"preset", "open"}
  /\ drop_fast \/ drop_slow
  /\ phase' = "emitted"
  /\ UNCHANGED <<statement, DURATION_PATH, id_kept>>

UserStep ==
  \E p \in Paths :
    \/ \E v \in Settable : add_path(p, v)
    \/ inc_path(p)
    \/ dec_path(p)
    \/ \E n \in Amounts : add_n_path(p, n)

Next == default_stmt \/ run_preset \/ build \/ drop \/ UserStep

Spec == Init /\ [][Next]_vars
-------------------------------------------------------------------------------
TypeOK ==
  /\ values \in [Paths -> Scalar \cup {None, Object}]
  /\ present_count \in [Events -> Nat]
  /\ phase \in {"defaults", "preset", "open", "emitted"}
  /\ statement \in 1..Len(Defaults) + 1
  /\ DURATION_PATH \in DurationPaths
  /\ id_kept \in BOOLEAN

Present(w, o) ==
  {p \in Paths : Above(o, p) /\ Len(p) = Len(o) + 1 /\ w[p] # None}
InUse(w, o) == Cardinality(Present(w, o))

\* The cached count of every nested event is the number of its slots in use,
\* through any mixture of writes that build and tear down nested events
\* (wide_event.rs, lines 42-45).  The drop of the guard may count the slots of
\* its two paths twice, so the outermost count is only an upper bound after
\* it: it is never zero for an event with fields, which a serializer told the
\* length would take for an empty one.
CountsPresent ==
  \A o \in Events :
    IF phase = "emitted" /\ o = <<>>
    THEN present_count[o] \in InUse(values, o)..InUse(values, o) + 2
    ELSE present_count[o] = InUse(values, o)

\* Every line has a duration and a timestamp where the schema says, whatever
\* user code put there or above or inside (guard.rs, lines 11-16): the fast
\* drop, which writes into nested events only, has made them where a slot was
\* empty or held something else.
LineIsStamped ==
  phase = "emitted" =>
    values[DURATION_PATH] = Other(Elapsed) /\ values[TIMESTAMP_PATH] = Other(Now)

\* The builder's id is in the event until user code writes over it: the drop,
\* which writes into the same nested event, does not lose it (guard.rs, lines
\* 168-175).
IdSurvives == id_kept => values[ID_PATH] = Other(Id)

\* The event is a map from paths to values in which a value replaces exactly
\* what cannot stand beside it; the drop is two such writes, on its fast path
\* as on the slow one (guard.rs, lines 159-161 and 168-175).
FieldsOf == [p \in Paths |-> IF values[p] = Object THEN None ELSE values[p]]

Conflicts == {pq \in Paths \X Paths : pq[1] # pq[2] /\ Related(pq[1], pq[2])}

Abstract == INSTANCE FieldMap WITH
  Field <- Paths,
  Value <- Scalar,
  Conflict <- Conflicts,
  Timestamp <- TIMESTAMP_PATH, Elapsed <- Other(Elapsed), Now <- Other(Now),
  field <- FieldsOf, sealed <- phase = "emitted", duration <- DURATION_PATH

ImplementsFieldMap == Abstract!Spec
================================================================================
