----------------------------- MODULE SchemaCompiler -----------------------------
(***************************************************************************)
(* What wide_log! makes of a parsed object                                 *)
(* (src/wide-log-macros/src/codegen.rs, lines 8-592): the keys of the      *)
(* generated enum, the paths its statements can name, the defaults, and    *)
(* the three paths the guard and the builder write to.  The macro runs     *)
(* once per schema, in the compiler; what it accepts is what WideEvent is  *)
(* about.                                                                  *)
(*                                                                         *)
(* Definitions named Slip_X_... are mistakes to put in the place of X.     *)
(***************************************************************************)
EXTENDS SchemaParser, Picking

CONSTANTS
  Variant,     \* per name: its words in PascalCase, Bad if that is no identifier
  DefaultName  \* per slot: the name of the key without override

\* What is collected for the generated code.
Schema ==
  [keys : Seq(Name), paths : Seq(Path), defaults : Seq(Entry),
   duration_segments : Path, has_duration_marker : BOOLEAN,
   timestamp_segments : Path, id_segments : Path, ok : BOOLEAN]

ASSUME CompilerAssumption ==
  /\ DefaultName \in [Slot -> STRING]
  /\ \A slot \in {"Event", "Event.Id", "Event.Timestamp", "Duration", "Duration.TotalMs"} :
       DefaultName[slot] \in Name /\ Len(Words[DefaultName[slot]]) = 1
  /\ DOMAIN Variant = Name
  /\ None \notin Schema

VARIABLE schema    \* what the macro made of the object, or None

vars == <<expect, overrides, entries, stack, at, schema>>

Builtin(slot) == IF overrides[slot] = None THEN DefaultName[slot] ELSE overrides[slot]
DURATION == <<Builtin("Duration")>>
TOTAL_MS == <<Builtin("Duration"), Builtin("Duration.TotalMs")>>
EVENT == <<Builtin("Event")>>
TIMESTAMP == <<Builtin("Event"), Builtin("Event.Timestamp")>>
ID == <<Builtin("Event"), Builtin("Event.Id")>>
-------------------------------------------------------------------------------
(* GenContext: the lists it collects, each in the order of first use.      *)

GenContext ==
  [keys |-> <<>>, paths |-> <<>>, defaults |-> <<>>,
   duration_segments |-> <<>>, has_duration_marker |-> FALSE,
   timestamp_segments |-> <<>>, id_segments |-> <<>>, ok |-> TRUE]

\* A path as a user writes it: the names joined by dots, read word by word.
join(dotted, n) == dotted \o Words[n]
Dotted(p) == FoldLeft(join, <<>>, p)

add_key(c, n) == IF Contains(c.keys, n) THEN c ELSE [c EXCEPT !.keys = Append(@, n)]

Slip_add_path_by_key(c, p) ==
  IF \E q \in Range(c.paths) : Last(q) = Last(p) THEN c
  ELSE [c EXCEPT !.paths = Append(@, p)]
\* Paths are told apart by what the user writes.
add_path(c, p) ==
  IF \E q \in Range(c.paths) : Dotted(q) = Dotted(p) THEN c
  ELSE [c EXCEPT !.paths = Append(@, p)]

declare(c, p) == add_path(add_key(c, Last(p)), p)

set_duration(c, p) ==
  [c EXCEPT !.has_duration_marker = TRUE, !.duration_segments = p]

\* One node of the walk, which visits an object before what is inside.
visit(c, e) ==
  LET d == declare(c, e.path) IN
  IF IsDefault(e.value) THEN [d EXCEPT !.defaults = Append(@, e)]
  ELSE IF e.value = Duration THEN set_duration(d, e.path)
  ELSE d

walk(c, nodes) == FoldLeft(visit, c, nodes)

\* The nodes of the object at some positions; those that lie inside of p, p
\* itself left out or not.
Nodes(S) == Picked(entries, S)
At(p) == {i \in 1..Len(entries) : Within(p, entries[i].path)}
Inside(p) == Nodes({i \in At(p) : entries[i].path # p})
Children(p) == Nodes({i \in At(p) : Len(entries[i].path) = Len(p) + 1})
Subtree(p) == Nodes(At(p))
Holds(p, v) == \E i \in 1..Len(entries) : entries[i] = [path |-> p, value |-> v]
-------------------------------------------------------------------------------
(* The duration.                                                           *)

add_duration_subtree(c, p) == set_duration(declare(declare(c, DURATION), p), p)

\* total_ms becomes the duration, whatever it held; the others are walked.
visit_child(c, e) ==
  IF e.path = TOTAL_MS THEN set_duration(declare(c, e.path), e.path)
  ELSE walk(c, Subtree(e.path))
convert_total_ms(c) == FoldLeft(visit_child, c, Children(DURATION))

Slip_resolve_duration_subtree_unmarked(c0) ==
  LET c == declare(c0, DURATION)
      children == Children(DURATION) IN
  IF children = <<>> THEN add_duration_subtree(c, TOTAL_MS)
  ELSE IF \E e \in Range(children) : e.path = TOTAL_MS THEN convert_total_ms(c)
  ELSE IF c.has_duration_marker THEN walk(c, Inside(DURATION))
  ELSE IF Len(children) = 1 THEN add_duration_subtree(c, children[1].path)
  ELSE [c EXCEPT !.ok = FALSE]
\* has_duration_marker is already set by a marker anywhere in the object, also
\* outside of the duration.
resolve_duration_subtree(c0) ==
  LET c == declare(c0, DURATION)
      children == Children(DURATION) IN
  IF children = <<>> THEN add_duration_subtree(c, TOTAL_MS)
  ELSE IF c.has_duration_marker THEN walk(c, Inside(DURATION))
  ELSE IF \E e \in Range(children) : e.path = TOTAL_MS THEN convert_total_ms(c)
  ELSE IF Len(children) = 1 THEN add_duration_subtree(c, children[1].path)
  ELSE [c EXCEPT !.ok = FALSE]

\* A duration that is not an object counts as none.
auto_add_duration(c) ==
  IF Holds(DURATION, Object) THEN resolve_duration_subtree(c)
  ELSE add_duration_subtree(c, TOTAL_MS)
-------------------------------------------------------------------------------
(* The event.                                                              *)

Slip_guard_paths_copied(c) ==
  [c EXCEPT !.timestamp_segments = TIMESTAMP, !.id_segments = TIMESTAMP]
guard_paths(c) == [c EXCEPT !.timestamp_segments = TIMESTAMP, !.id_segments = ID]

add_event_subtree(c) ==
  guard_paths(declare(declare(declare(c, EVENT), TIMESTAMP), ID))

\* What is there is walked again, which declares nothing new but repeats its
\* defaults and lets a marker inside of the event set the duration.
missing_or_walked(c, p) ==
  IF Subtree(p) = <<>> THEN declare(c, p) ELSE walk(c, Subtree(p))
resolve_event_subtree(c) ==
  LET others == Nodes(At(EVENT) \ (At(TIMESTAMP) \cup At(ID)
                                  \cup {i \in At(EVENT) : entries[i].path = EVENT}))
  IN  IF Children(EVENT) = <<>> THEN add_event_subtree(declare(c, EVENT))
      ELSE guard_paths(walk(missing_or_walked(
             missing_or_walked(declare(c, EVENT), TIMESTAMP), ID), others))

auto_add_event(c) ==
  IF \E e \in Range(entries) : e.path = EVENT
  THEN IF Holds(EVENT, Object) THEN resolve_event_subtree(c)
       ELSE [c EXCEPT !.ok = FALSE]
  ELSE add_event_subtree(c)
-------------------------------------------------------------------------------
(* The end: validate, and what rustc says of the generated enum.           *)

validate(c) ==
  /\ c.has_duration_marker
  /\ c.duration_segments # <<>> /\ c.timestamp_segments # <<>> /\ c.id_segments # <<>>
  /\ ~\E e \in Range(c.defaults) : e.path = c.id_segments

\* Two keys of one variant are two variants of one name.
enum_def(c) ==
  /\ \A n \in Range(c.keys) : Variant[n] # Bad
  /\ \A i, j \in 1..Len(c.keys) : Variant[c.keys[i]] = Variant[c.keys[j]] => i = j

Generated ==
  LET c == auto_add_duration(walk(GenContext, entries))
  IN  IF c.ok THEN auto_add_event(c) ELSE c

generate ==
  /\ expect = "parsed"
  /\ expect' = IF Generated.ok /\ validate(Generated) /\ enum_def(Generated)
               THEN "compiled" ELSE "refused"
  /\ schema' = Generated
  /\ UNCHANGED <<overrides, entries, stack, at>>

\* __wl_resolve_path of the generated code.
resolve_arms(c) ==
  [d \in {Dotted(p) : p \in Range(c.paths)} |->
     CHOOSE p \in Range(c.paths) : Dotted(p) = d]
__wl_resolve_path(c, dotted) ==
  IF dotted \in DOMAIN resolve_arms(c) THEN resolve_arms(c)[dotted] ELSE <<>>

SchemaInit == Init /\ schema = None

Next == generate \/ (Parse /\ UNCHANGED schema)

Spec == SchemaInit /\ [][Next]_vars
-------------------------------------------------------------------------------
(* Properties.                                                             *)

TypeOK ==
  /\ expect \in Reading \cup Ended
  /\ overrides \in [Slot -> Name \cup {None}]
  /\ entries \in Seq(Entry) /\ InTextOrder
  /\ at \in Path /\ stack \in Seq([group : {"braces", "parentheses"}, path : Path])
  /\ schema \in Schema \cup {None}
  /\ expect \in {"compiled", "refused"} <=> schema # None

Compiled == expect = "compiled"
Related(p, q) == Within(p, q) \/ Within(q, p)

GuardPaths == {schema.duration_segments, schema.timestamp_segments, schema.id_segments}

\* Every path the text declares, and every one the guard and the builder use,
\* can be named by its dotted string (README.md, lines 484-497), unless
\* another path has the same string; and each of its segments is a key of the
\* enum.
PathsResolve ==
  Compiled =>
    LET all == Declared \cup GuardPaths IN
    \A p \in all :
      /\ Range(p) \subseteq Range(schema.keys)
      /\ (\A q \in all : Dotted(q) = Dotted(p) => q = p) =>
           __wl_resolve_path(schema, Dotted(p)) = p

Markers == {p \in Declared : Holds(p, Duration)}
Proper == \A p \in Markers : Within(DURATION, p) /\ p # DURATION

\* What code and README.md, lines 444-459, agree on, for a text with markers in
\* the duration object only, and one at most: the marked leaf is the duration;
\* without it total_ms is, if it is there or nothing is; several other leaves are
\* refused.  Nothing is said of a single other leaf: the code makes it the duration,
\* the README adds total_ms to it.
DurationLeaf ==
  LET children == {p \in Declared : Within(DURATION, p) /\ Len(p) = 2} IN
  schema # None /\ Proper /\ Cardinality(Markers) <= 1 =>
    /\ Compiled /\ Markers # {} => schema.duration_segments \in Markers
    /\ Compiled /\ Markers = {} /\ (children = {} \/ TOTAL_MS \in children) =>
         schema.duration_segments = TOTAL_MS
    /\ Markers = {} /\ TOTAL_MS \notin children /\ Cardinality(children) > 1 =>
         ~Compiled

\* What the guard and the builder of WideEvent rely on (SchemaAssumption
\* there): none of the three paths contains another, so that stamping one does
\* not destroy another, if the overrides name different keys.
GuardPathsApart ==
  /\ Compiled /\ Proper
  /\ Builtin("Duration") # Builtin("Event")
  /\ Builtin("Event.Id") # Builtin("Event.Timestamp")
  => /\ Cardinality(GuardPaths) = 3
     /\ \A p, q \in GuardPaths : Related(p, q) => p = q

\* The defaults may be set in any order and any number of times: no default is
\* at, above or inside of another one, except that one may be set twice.
DefaultsIndependent ==
  Compiled =>
    \A d, e \in Range(schema.defaults) : Related(d.path, e.path) => d = e
-------------------------------------------------------------------------------
(* What the documentation says and the code does not do.                   *)

\* "This key is the duration" (README.md, line 433).
MarkedLeafIsDuration ==
  Compiled /\ Cardinality(Markers) = 1 => schema.duration_segments \in Markers
===============================================================================
