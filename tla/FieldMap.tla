------------------------------- MODULE FieldMap -------------------------------
(***************************************************************************)
(* What a wide event promises, with neither objects nor counts: a map from *)
(* fields to values.  Setting a field takes away the fields that cannot    *)
(* stand beside it in one document, and nothing else.  Emitting sets the   *)
(* two fields of the guard, in the same way, and seals the map.            *)
(***************************************************************************)
CONSTANTS Field, Value, None,
          Conflict,              \* the pairs of fields of which one contains the other
          Timestamp, Elapsed, Now

VARIABLES field, sealed, duration

vars == <<field, sealed, duration>>

Init ==
  /\ field = [f \in Field |-> None]
  /\ sealed = FALSE
  /\ duration \in Field

Put(map, f, v) ==
  [g \in Field |-> IF g = f THEN v ELSE IF <<f, g>> \in Conflict THEN None ELSE map[g]]

Set(f, v) ==
  /\ ~sealed
  /\ field' = Put(field, f, v)
  /\ UNCHANGED <<sealed, duration>>

Emit ==
  /\ ~sealed
  /\ sealed' = TRUE
  /\ field' = Put(Put(field, duration, Elapsed), Timestamp, Now)
  /\ UNCHANGED duration

Next == Emit \/ \E f \in Field, v \in Value : Set(f, v)

Spec == Init /\ [][Next]_vars
================================================================================
