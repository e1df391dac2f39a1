---------------------------- MODULE MCSchemaCompiler ----------------------------
(***************************************************************************)
(* Instances of SchemaCompiler for TLC.  "event.id" is one key with a dot  *)
(* in it: its variant is that of event_id and its dotted string that of    *)
(* the path event, id.  The empty name has no variant.                     *)
(***************************************************************************)
EXTENDS SchemaCompiler

MCName == {"", "event", "duration", "id", "timestamp", "total_ms", "event_id",
           "event.id"}
MCWords == [n \in MCName |-> IF n = "event.id" THEN <<"event", "id">> ELSE <<n>>]
MCVariant ==
  [n \in MCName |->
     CASE n = "" -> Bad
       [] n \in {"event_id", "event.id"} -> "EventId"
       [] OTHER -> n]

\* Keys as strings, one of them also as an identifier, and one with an escape
\* that is refused.
Ident(n) == [form |-> "identifier", name |-> n, escapes |-> {}]
String(n) == [form |-> "string", name |-> n, escapes |-> {}]
MCSpelling ==
  {String(n) : n \in {"", "event", "duration", "timestamp", "total_ms", "event.id", "id"}}
    \cup {Ident("id"), [String("id") EXCEPT !.escapes = {"u"}]}

MCDefaultName ==
  [s \in Slot |->
     CASE s = "Log" -> "log" [] s = "Log.Level" -> "level" [] s = "Log.Message" -> "message"
       [] s = "Event" -> "event" [] s = "Event.Id" -> "id"
       [] s = "Event.Timestamp" -> "timestamp"
       [] s = "Duration" -> "duration" [] s = "Duration.TotalMs" -> "total_ms"]

Digits(n, minus, suffix) ==
  [digits |-> n, minus |-> minus, point |-> FALSE, suffix |-> suffix]
MCToken ==
  {[word |-> w] : w \in {"Null", "duration!"}}
    \cup {Digits(3, FALSE, "none"), Digits(3, FALSE, "i64")}
MCMinI64 == -2
=================================================================================
