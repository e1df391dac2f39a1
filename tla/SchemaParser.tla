------------------------------ MODULE SchemaParser ------------------------------
(***************************************************************************)
(* The parser of wide_log! (src/wide-log-macros/src/parse.rs): an optional *)
(* list of overrides in brackets, then a JSON object.  The recursion of    *)
(* parse_value and parse_object is the stack of the groups it is inside    *)
(* of; each step reads one override, one key, one scalar, or one end of a  *)
(* group.  Whatever else the macro is given is an error, which drops all   *)
(* that was read.                                                          *)
(*                                                                         *)
(* The object is kept flat: its entries in the order of the text, every    *)
(* one with its path.  A literal, a key and a name are what the lexer      *)
(* hands over; KeyOf and parse_literal_str are what the parser makes of    *)
(* them.                                                                   *)
(*                                                                         *)
(* Definitions named Slip_X_... are mistakes to put in the place of X.     *)
(***************************************************************************)
EXTENDS Integers, SequencesExt

CONSTANTS
  Name,         \* the key strings in use, none with a quote or backslash
  Words,        \* per name: its parts between dots
  Spelling,     \* the ways keys are written
  Token,        \* the scalar tokens in use
  Bad,          \* neither a name nor a value: an error
  None,
  MaxItems, MaxParens,       \* bounds on the text
  MAX_U64, MIN_I64, MAX_I64  \* the limits of the integer types

\* What can be overridden: parent and sub-key of an override path.
Slot == {"Log", "Log.Level", "Log.Message", "Event", "Event.Id",
         "Event.Timestamp", "Duration", "Duration.TotalMs"}

\* A value of the object, with its number if it is an integer.
Keyword == {"Null", "Bool", "Str", "duration!", "counter!"}
Value == [kind : Keyword \cup {"Object", "Float"}] \cup [kind : {"Int", "Uint"}, n : Int]
Path == Seq(Name)
Entry == [path : Path, value : Value]

ASSUME ParserAssumption ==
  \* A name is its words with dots between them: at least one, and those of no
  \* other name.
  /\ Words \in [Name -> Seq(STRING) \ {<<>>}]
  /\ \A m, n \in Name : Words[m] = Words[n] => m = n
  /\ Spelling \subseteq [form : {"identifier", "string", "other"}, name : Name,
                       escapes : SUBSET STRING]
  /\ Bad \notin Name \cup Value /\ None \notin Name
  /\ MaxItems \in Nat /\ MaxParens \in Nat
  /\ MAX_U64 \in Nat /\ MAX_I64 \in 0..MAX_U64 /\ MIN_I64 \in Int /\ MIN_I64 < 0

VARIABLES
  expect,     \* what the parser reads next, or how it ended
  overrides,  \* per slot: the name given, or None
  entries,    \* what was read of the object, in the order of the text
  stack,      \* the groups the parser is inside of
  at          \* the path of the value it reads next

parser == <<expect, overrides, entries, stack, at>>

Reading == {"input", "override", "after_override", "value", "key", "end"}
\* The last two are what becomes of a parsed object.
Ended == {"parsed", "rejected", "compiled", "refused"}
-------------------------------------------------------------------------------
(* Values.                                                                 *)

Is(kind) == [kind |-> kind]
Number(kind, n) == [kind |-> kind, n |-> n]
Object == Is("Object")
Duration == Is("duration!")

\* A number token: its digits, what stands before and after them.  The suffix
\* "other" is for everything no parse accepts: other suffixes, hexadecimal
\* digits, underscores.
NumberToken ==
  [digits : 0..(MAX_U64 + 1), minus : BOOLEAN, point : BOOLEAN,
   suffix : {"none", "i64", "u64", "f64", "other"}]
Amount(t) == IF t.minus THEN -t.digits ELSE t.digits

FitsU64(t) == ~t.point /\ ~t.minus /\ t.digits <= MAX_U64
FitsI64(t) == ~t.point /\ Amount(t) \in MIN_I64..MAX_I64

Slip_parse_literal_str_signed_first(t) ==
  IF t.suffix \in {"none", "i64"} /\ FitsI64(t) THEN Number("Int", Amount(t))
  ELSE IF t.suffix \in {"none", "u64"} /\ FitsU64(t) THEN Number("Uint", Amount(t))
  ELSE IF t.suffix # "other" THEN Is("Float")
  ELSE Bad
\* The widest form that fits: an integer too large for both types becomes a float.
unsuffixed(t) ==
  IF FitsU64(t) THEN Number("Uint", Amount(t))
  ELSE IF FitsI64(t) THEN Number("Int", Amount(t))
  ELSE Is("Float")
parse_literal_str(t) ==
  CASE t.suffix = "i64" -> IF FitsI64(t) THEN Number("Int", Amount(t)) ELSE Bad
    [] t.suffix = "u64" -> IF FitsU64(t) THEN Number("Uint", Amount(t)) ELSE Bad
    [] t.suffix = "f64" -> Is("Float")
    [] t.suffix = "none" -> unsuffixed(t)
    [] OTHER            -> Bad

\* Words are tokens too: null, true, false, a marker with its exclamation
\* mark, a string literal.
WordToken == [word : Keyword]

ASSUME TokenAssumption == Token \subseteq NumberToken \cup WordToken

ScalarOf(t) == IF t \in WordToken THEN Is(t.word) ELSE parse_literal_str(t)

IsDefault(v) == v.kind \in {"Bool", "Str", "Int", "Uint", "Float"}
\* Strings in quotes.  Of Rust's escapes these are accepted; the others, \0, \',
\* \x and \u with its braces, are not those of JSON.
Escape == {"\"", "\\", "n", "t", "r", "/", "b", "f"}
unescape_json_string(k) == IF k.escapes \subseteq Escape THEN k.name ELSE Bad

\* A key: a string, or an identifier which is no literal.
KeyOf(k) ==
  CASE k.form = "string" -> unescape_json_string(k)
    [] k.form = "identifier" /\ k.name \notin {"true", "false", "null"} -> k.name
    [] OTHER -> Bad
-------------------------------------------------------------------------------
Init ==
  /\ expect = "input"
  /\ overrides = [s \in Slot |-> None]
  /\ entries = <<>> /\ stack = <<>> /\ at = <<>>

Items == Len(entries) + Cardinality({s \in Slot : overrides[s] # None})

\* The override list, which must have an item, and the comma after it.
parse_overrides ==
  /\ expect = "input"
  /\ expect' = "override"
  /\ UNCHANGED <<overrides, entries, stack, at>>

validate_override_value(n) == Words[n] # <<"">> /\ Len(Words[n]) = 1

assign_override(s, n) ==
  /\ overrides[s] = None /\ validate_override_value(n)
  /\ overrides' = [overrides EXCEPT ![s] = n]

parse_override(s, n) ==
  /\ expect \in {"override", "after_override"} /\ Items < MaxItems
  /\ assign_override(s, n)
  /\ expect' = "after_override"
  /\ UNCHANGED <<entries, stack, at>>

\* parse_wide_log_input begins with the value.
begin_value ==
  /\ expect \in {"input", "after_override"}
  /\ expect' = "value"
  /\ UNCHANGED <<overrides, entries, stack, at>>

Declared == {entries[i].path : i \in 1..Len(entries)}

\* An identifier taken for another key than the string that spells it.
Slip_parse_key_spelled(k) ==
  /\ expect = "key" /\ Items < MaxItems
  /\ KeyOf(k) # Bad
  /\ k.form = "identifier" \/ Append(Last(stack).path, KeyOf(k)) \notin Declared
  /\ at' = Append(Last(stack).path, KeyOf(k))
  /\ expect' = "value"
  /\ UNCHANGED <<overrides, entries, stack>>
Slip_parse_key_below(k) ==
  /\ expect = "key" /\ Items < MaxItems
  /\ KeyOf(k) # Bad
  /\ Append(at, KeyOf(k)) \notin Declared
  /\ at' = Append(at, KeyOf(k))
  /\ expect' = "value"
  /\ UNCHANGED <<overrides, entries, stack>>
\* A key and its colon.  The code sees a key for the second time only after its
\* value; no such object is accepted either way.
parse_key(k) ==
  /\ expect = "key" /\ Items < MaxItems
  /\ KeyOf(k) # Bad
  /\ Append(Last(stack).path, KeyOf(k)) \notin Declared
  /\ at' = Append(Last(stack).path, KeyOf(k))
  /\ expect' = "value"
  /\ UNCHANGED <<overrides, entries, stack>>

parse_scalar(t) ==
  /\ expect = "value" /\ at # <<>>
  /\ ScalarOf(t) # Bad
  /\ entries' = Append(entries, [path |-> at, value |-> ScalarOf(t)])
  /\ expect' = "end"
  /\ UNCHANGED <<overrides, stack, at>>

\* A brace group.  The macro's own object has no entry.
parse_object ==
  /\ expect = "value"
  /\ entries' = IF at = <<>> THEN entries
                ELSE Append(entries, [path |-> at, value |-> Object])
  /\ stack' = Append(stack, [group |-> "braces", path |-> at])
  /\ expect' \in {"key", "end"}   \* "end": the group is empty
  /\ UNCHANGED <<overrides, at>>

parse_parenthesized ==
  /\ expect = "value"
  /\ Cardinality({i \in 1..Len(stack) : stack[i].group = "parentheses"}) < MaxParens
  /\ stack' = Append(stack, [group |-> "parentheses", path |-> at])
  /\ UNCHANGED <<expect, overrides, entries, at>>

\* A comma and another key.
next_entry ==
  /\ expect = "end" /\ stack # <<>> /\ Last(stack).group = "braces"
  /\ entries # <<>> /\ Last(entries).path # Last(stack).path   \* not an empty group
  /\ expect' = "key"
  /\ UNCHANGED <<overrides, entries, stack, at>>

\* The end of a group, a trailing comma before it or not.
end_group ==
  /\ expect = "end" /\ stack # <<>>
  /\ stack' = Front(stack)
  /\ UNCHANGED <<expect, overrides, entries, at>>

end_input ==
  /\ expect = "end" /\ stack = <<>>
  /\ expect' = "parsed"
  /\ UNCHANGED <<overrides, entries, stack, at>>

\* Any other token, or none where one is needed.
reject ==
  /\ expect \notin Ended
  /\ expect' = "rejected"
  /\ overrides' = [s \in Slot |-> None]
  /\ entries' = <<>> /\ stack' = <<>> /\ at' = <<>>

Parse ==
  \/ parse_overrides \/ begin_value \/ parse_object \/ parse_parenthesized
  \/ next_entry \/ end_group \/ end_input \/ reject
  \/ \E s \in Slot, n \in Name : parse_override(s, n)
  \/ \E k \in Spelling : parse_key(k)
  \/ \E t \in Token : parse_scalar(t)
-------------------------------------------------------------------------------
(* Properties.                                                             *)

\* The entries are an object in the order of its text: what encloses an entry
\* is an object and stands before it, with nothing from outside in between.
Within(p, q) == Len(p) <= Len(q) /\ SubSeq(q, 1, Len(p)) = p
InTextOrder ==
  \A i \in 1..Len(entries) :
    /\ entries[i].path # <<>>
    /\ \/ Len(entries[i].path) = 1
       \/ \E j \in 1..i - 1 :
            /\ entries[j].path = Front(entries[i].path)
            /\ entries[j].value = Object
            /\ \A k \in j..i : Within(entries[j].path, entries[k].path)

\* A number is taken as it is written or refused (README.md, line 437):
\* an integer stays one if any integer type holds it, unsigned unless it has a
\* sign or says otherwise, and one that says its type is never turned into
\* another.
AsWritten(t, v) ==
  /\ v # Bad /\ v.kind # "Float" => v.n = Amount(t) /\ ~t.point
  /\ v # Bad =>
       /\ t.suffix = "u64" => v.kind = "Uint"
       /\ t.suffix = "i64" => v.kind = "Int"
       /\ t.suffix = "f64" => v.kind = "Float"
       /\ t.suffix = "none" => \/ v.kind = IF t.minus THEN "Int" ELSE "Uint"
                               \/ v.kind = "Float" /\ ~FitsU64(t) /\ ~FitsI64(t)
  /\ v = Bad <=> \/ t.suffix = "i64" /\ ~FitsI64(t)
                 \/ t.suffix = "u64" /\ ~FitsU64(t)
                 \/ t.suffix = "other"
NumbersAsWritten ==
  expect = "value" => \A t \in NumberToken : AsWritten(t, parse_literal_str(t))
================================================================================
