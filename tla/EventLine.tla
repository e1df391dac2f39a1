------------------------------- MODULE EventLine -------------------------------
(***************************************************************************)
(* The line an event becomes, by the two ways the crate has: serialize_to, *)
(* which writes it directly (src/src/wide_event.rs, write_event), and      *)
(* to_json, which goes through serde (Serialize of WideEvent, of Value in  *)
(* src/src/value.rs and of LogEntry in src/src/log.rs).  Any state of      *)
(* WideEvent, which user code can serialize at any time, with any log.     *)
(*                                                                         *)
(* A line is a sequence of tokens.  A string is one token: both ways       *)
(* escape what JSON says must be escaped (write_json_str two more          *)
(* characters, which read back as themselves all the same).                *)
(***************************************************************************)
EXTENDS WideEvent, Picking, SequencesExt

CONSTANTS
  KEYS,                             \* the order of the generated enum
  LOG_KEY, LEVEL_KEY, MESSAGE_KEY,
  LogEntries, Logs,                 \* level and message; sequences of them
  NonFinite                         \* the payloads that are NaN or infinite

\* Whether a top-level key may be the log's is not the serializers' business:
\* the schema compiler lets it pass, and the line has that key twice.
ASSUME LineAssumption ==
  /\ KEYS \in Seq(Keys) /\ ToSet(KEYS) = Keys
  /\ \A i, j \in 1..Len(KEYS) : KEYS[i] = KEYS[j] => i = j
  /\ <<LOG_KEY>> \notin Paths /\ LEVEL_KEY # MESSAGE_KEY
  /\ Logs \subseteq Seq(LogEntries)
  /\ NonFinite \subseteq Payloads

Mark(kind) == [kind |-> kind]
KeyToken(k) == [kind |-> "key", key |-> k]
ValueToken(v) == [kind |-> "value", value |-> v]

\* Integers lose their type.  JSON has nothing for a float that is not finite.
write_value(v) ==
  CASE v.type \in {"U64", "I64"} -> [type |-> "number", n |-> v.n]
    [] v.type = "Other" /\ v.v \in NonFinite -> [type |-> "null"]
    [] OTHER -> v

\* The slots in use of a nested event, in the order of KEYS.
SlotsInUse(o) ==
  {i \in 1..Len(KEYS) : LET p == Append(o, KEYS[i]) IN p \in Paths /\ values[p] # None}
InOrder(o) ==
  [n \in 1..Cardinality(SlotsInUse(o)) |-> Append(o, KEYS[Nth(SlotsInUse(o), n)])]

Slip_Separated_always(parts) ==
  FoldLeft(LAMBDA line, part : line \o <<Mark("comma")>> \o part, <<>>, parts)
WithComma(line, part) == IF line = <<>> THEN part ELSE line \o <<Mark("comma")>> \o part
Separated(parts) == FoldLeft(WithComma, <<>>, parts)
Braced(parts) == <<Mark("begin_object")>> \o Separated(parts) \o <<Mark("end_object")>>

Keyed(k, tokens) == <<KeyToken(k), Mark("colon")>> \o tokens

\* The log is an entry of the outermost event, after its fields.
log_entry(level, message) ==
  Braced(<<Keyed(LEVEL_KEY, <<ValueToken(level)>>), Keyed(MESSAGE_KEY, <<ValueToken(message)>>)>>)
log_part(log) ==
  IF log = <<>> THEN <<>>
  ELSE <<Keyed(LOG_KEY,
           <<Mark("begin_array")>>
             \o Separated([i \in 1..Len(log) |-> log_entry(log[i].level, log[i].message)])
             \o <<Mark("end_array")>>)>>

\* Directly: a nested event is its slots between braces.
fields[o \in Events] ==
  [i \in 1..Len(InOrder(o)) |->
     LET p == InOrder(o)[i] IN
     Keyed(Last(p), IF values[p] = Object THEN Braced(fields[p])
                    ELSE <<ValueToken(write_value(values[p]))>>)]

serialize_to(log) == Braced(fields[<<>>] \o log_part(log))

\* Through serde: the serializer is told the length of a map before its
\* entries, and closes at once a map that it is told is empty.
serialize_map(length, parts) ==
  IF length # 0 THEN Braced(parts)
  ELSE <<Mark("begin_object"), Mark("end_object")>>
         \o (IF parts = <<>> THEN <<>>
             ELSE <<Mark("comma")>> \o Separated(parts) \o <<Mark("end_object")>>)

serialize[o \in Events] ==
  [i \in 1..Len(InOrder(o)) |->
     LET p == InOrder(o)[i] IN
     Keyed(Last(p), IF values[p] = Object
                    THEN serialize_map(present_count[p], serialize[p])
                    ELSE <<ValueToken(write_value(values[p]))>>)]

to_json(log) ==
  serialize_map(present_count[<<>>] + (IF log = <<>> THEN 0 ELSE 1),
                serialize[<<>>] \o log_part(log))
-------------------------------------------------------------------------------
(* A reader of lines that knows JSON and nothing of the writers.  `open' is *)
(* what is open around the next token, each with the key or the position   *)
(* of what is read inside of it; `read' the values, each with its path.    *)

Group(kind, step) == [kind |-> kind, step |-> step]
Reader(open, expect, read) ==
  [open |-> open, expect |-> expect, read |-> read, wrong |-> FALSE]

In(r, kind) == r.open # <<>> /\ Last(r.open).kind = kind
PathOf(open) == [i \in 1..Len(open) |-> open[i].step]

\* What may come next.  "first" is right after the group has begun.
Fits(r, kind) ==
  \/ /\ kind \in {"value", "begin_object", "begin_array"}
     /\ r.expect = "value" \/ (r.expect = "first" /\ In(r, "array"))
  \/ kind = "key" /\ r.expect \in {"first", "key"} /\ In(r, "object")
  \/ kind = "colon" /\ r.expect = "colon"
  \/ kind = "comma" /\ r.expect = "next" /\ r.open # <<>>
  \/ kind = "end_object" /\ r.expect \in {"first", "next"} /\ In(r, "object")
  \/ kind = "end_array" /\ r.expect \in {"first", "next"} /\ In(r, "array")

ReadToken(r, token) ==
  IF ~Fits(r, token.kind) THEN [r EXCEPT !.wrong = TRUE]
  ELSE CASE token.kind = "value" ->
              [r EXCEPT !.expect = "next", !.read = @ \cup {<<PathOf(r.open), token.value>>},
                        !.wrong = @ \/ \E f \in r.read : f[1] = PathOf(r.open)]
         [] token.kind = "begin_object" ->
              [r EXCEPT !.open = Append(@, Group("object", 0)), !.expect = "first"]
         [] token.kind = "begin_array" ->
              [r EXCEPT !.open = Append(@, Group("array", 1)), !.expect = "first"]
         [] token.kind \in {"end_object", "end_array"} ->
              [r EXCEPT !.open = Front(@), !.expect = "next"]
         [] token.kind = "key" ->
              [r EXCEPT !.open = Append(Front(@), Group("object", token.key)),
                        !.expect = "colon"]
         [] token.kind = "comma" /\ In(r, "array") ->
              [r EXCEPT !.open = Append(Front(@), Group("array", Last(@).step + 1)),
                        !.expect = "value"]
         [] token.kind = "comma" /\ In(r, "object") -> [r EXCEPT !.expect = "key"]
         [] token.kind = "colon" -> [r EXCEPT !.expect = "value"]

ReadLine(line) == FoldLeft(ReadToken, Reader(<<>>, "value", {}), line)
-------------------------------------------------------------------------------
\* Both ways write the same line (wide_event.rs, lines 441-447), though one of
\* them goes by the cached counts, which are not exact after the drop.
SerializersAgree == \A log \in Logs : serialize_to(log) = to_json(log)

Fields ==
  {<<p, write_value(values[p])>> : p \in {q \in Paths : values[q] \notin {None, Object}}}
LogFields(log) ==
  UNION {{<<<<LOG_KEY, i, LEVEL_KEY>>, log[i].level>>,
          <<<<LOG_KEY, i, MESSAGE_KEY>>, log[i].message>>} : i \in 1..Len(log)}

\* The line is one JSON object, and whoever reads it finds every field once, at
\* its path, and the log's entries in their order, and nothing else.
LineReadsBack ==
  \A log \in Logs :
    ReadLine(serialize_to(log)) = Reader(<<>>, "next", Fields \cup LogFields(log))
================================================================================
