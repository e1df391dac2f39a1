------------------------------ MODULE SchemaProofs ------------------------------
(***************************************************************************)
(* What holds of wide_log! for every text, however long and nested, every  *)
(* set of names and every width of the integers: of the parser and of the  *)
(* schema the compiler makes.                                              *)
(*                                                                         *)
(* The parser's invariant says where its stack stands in the object that   *)
(* is being read.  From it follow the order of the entries and that no     *)
(* path is read twice, which is all the compiler needs of a text.          *)
(*                                                                         *)
(* The compiler runs in one step, so what is proved of it is what each of  *)
(* its operators does to the context it is handed: Grows is what they all  *)
(* do, and is carried through the folds by FoldLemmas.                     *)
(***************************************************************************)
EXTENDS SchemaCompiler, SequenceLemmas
-------------------------------------------------------------------------------
(* Numbers.                                                                *)

\* The limits of the integer types.
LEMMA Limits == /\ MAX_U64 \in Nat /\ MAX_I64 \in 0..MAX_U64 /\ MIN_I64 \in Int /\ MIN_I64 < 0
                /\ Bad \notin Name /\ Bad \notin Value
  BY ParserAssumption

\* What there is in a number token.
LEMMA TokenTypes ==
  ASSUME NEW t \in NumberToken
  PROVE  /\ t.digits \in Nat /\ t.minus \in BOOLEAN /\ t.point \in BOOLEAN
         /\ t.suffix \in {"none", "i64", "u64", "f64", "other"}
         /\ Amount(t) \in Int
<1>1. t.digits \in Nat
  <2>1. t.digits \in 0..MAX_U64 + 1
    BY DEF NumberToken
  <2> QED BY <2>1, Limits
<1>2. t.minus \in BOOLEAN /\ t.point \in BOOLEAN
  BY DEF NumberToken
<1>3. t.suffix \in {"none", "i64", "u64", "f64", "other"}
  BY DEF NumberToken
<1>4. Amount(t) \in Int
  BY <1>1 DEF Amount
<1> QED BY <1>1, <1>2, <1>3, <1>4

\* The values, and the numbers in them.
LEMMA ValueTypes ==
  /\ \A kind \in Keyword \cup {"Object", "Float"} :
       Is(kind) \in Value /\ Is(kind).kind = kind /\ Is(kind) # Bad
  /\ \A n \in Int :
       /\ Number("Int", n) \in Value /\ Number("Int", n) # Bad
       /\ Number("Int", n).kind = "Int" /\ Number("Int", n).n = n
       /\ Number("Uint", n) \in Value /\ Number("Uint", n) # Bad
       /\ Number("Uint", n).kind = "Uint" /\ Number("Uint", n).n = n
<1>1. ASSUME NEW kind \in Keyword \cup {"Object", "Float"}
      PROVE  Is(kind) \in Value /\ Is(kind).kind = kind
  BY DEF Is, Value
<1>2. ASSUME NEW kind \in {"Int", "Uint"}, NEW n \in Int
      PROVE  Number(kind, n) \in Value /\ Number(kind, n).kind = kind /\ Number(kind, n).n = n
  BY DEF Number, Value
<1> QED BY <1>1, <1>2, Limits

\* What becomes of a number, form by form.
LEMMA LiteralIs ==
  ASSUME NEW t \in NumberToken
  PROVE  \/ /\ parse_literal_str(t) = Number("Int", Amount(t))
            /\ t.suffix = "i64" \/ (t.suffix = "none" /\ ~FitsU64(t))
            /\ FitsI64(t)
         \/ /\ parse_literal_str(t) = Number("Uint", Amount(t))
            /\ t.suffix \in {"u64", "none"} /\ FitsU64(t)
         \/ /\ parse_literal_str(t) = Is("Float")
            /\ t.suffix = "f64" \/ (t.suffix = "none" /\ ~FitsU64(t) /\ ~FitsI64(t))
         \/ /\ parse_literal_str(t) = Bad
            /\ \/ t.suffix = "i64" /\ ~FitsI64(t)
               \/ t.suffix = "u64" /\ ~FitsU64(t)
               \/ t.suffix = "other"
<1>1. CASE t.suffix = "i64"
  BY <1>1 DEF parse_literal_str
<1>2. CASE t.suffix = "u64"
  BY <1>2 DEF parse_literal_str
<1>3. CASE t.suffix = "f64"
  BY <1>3 DEF parse_literal_str
<1>4. CASE t.suffix = "none"
  BY <1>4 DEF parse_literal_str, unsuffixed
<1>5. CASE t.suffix = "other"
  BY <1>5 DEF parse_literal_str
<1> QED BY <1>1, <1>2, <1>3, <1>4, <1>5, TokenTypes

\* So a number is taken as it is written.
LEMMA NumberAsWritten ==
  ASSUME NEW t \in NumberToken
  PROVE  AsWritten(t, parse_literal_str(t))
<1> DEFINE v == parse_literal_str(t)
<1>1. /\ FitsU64(t) => ~t.point /\ ~t.minus
      /\ FitsI64(t) => ~t.point
      /\ FitsI64(t) /\ ~FitsU64(t) => t.minus
  <2>1. /\ FitsU64(t) => ~t.point /\ ~t.minus
        /\ FitsI64(t) => ~t.point
    BY DEF FitsU64, FitsI64
  <2>2. ASSUME FitsI64(t), ~t.minus PROVE FitsU64(t)
    <3>1. t.digits \in MIN_I64..MAX_I64 /\ ~t.point
      BY <2>2 DEF FitsI64, Amount
    <3>2. t.digits <= MAX_U64
      BY <3>1, Limits
    <3> QED BY <2>2, <3>1, <3>2 DEF FitsU64
  <2> QED BY <2>1, <2>2
<1>2. Amount(t) \in Int
  BY TokenTypes
<1>3. CASE /\ v = Number("Int", Amount(t))
           /\ t.suffix = "i64" \/ (t.suffix = "none" /\ ~FitsU64(t))
           /\ FitsI64(t)
  <2>1. v # Bad /\ v.kind = "Int" /\ v.n = Amount(t)
    BY <1>2, <1>3, ValueTypes
  <2> HIDE DEF v
  <2>2. AsWritten(t, v)
    <3>1. CASE t.suffix = "i64"
      BY <1>1, <1>3, <2>1, <3>1 DEF AsWritten
    <3>2. CASE t.suffix = "none" /\ ~FitsU64(t)
      <4>1. t.minus /\ ~t.point
        BY <1>1, <1>3, <3>2
      <4>2. v.kind = IF t.minus THEN "Int" ELSE "Uint"
        BY <2>1, <4>1
      <4> QED BY <2>1, <3>2, <4>1, <4>2 DEF AsWritten
    <3> QED BY <1>3, <3>1, <3>2
  <2> QED BY <2>2 DEF v
<1>4. CASE v = Number("Uint", Amount(t)) /\ t.suffix \in {"u64", "none"} /\ FitsU64(t)
  <2>1. v # Bad /\ v.kind = "Uint" /\ v.n = Amount(t)
    BY <1>2, <1>4, ValueTypes
  <2> HIDE DEF v
  <2>2. AsWritten(t, v)
    <3>1. CASE t.suffix = "u64"
      BY <1>1, <1>4, <2>1, <3>1 DEF AsWritten
    <3>2. CASE t.suffix = "none"
      <4>1. ~t.minus /\ ~t.point
        BY <1>1, <1>4
      <4>2. v.kind = IF t.minus THEN "Int" ELSE "Uint"
        BY <2>1, <4>1
      <4> QED BY <2>1, <3>2, <4>1, <4>2 DEF AsWritten
    <3> QED BY <1>4, <3>1, <3>2
  <2> QED BY <2>2 DEF v
<1>5. CASE /\ v = Is("Float")
           /\ t.suffix = "f64" \/ (t.suffix = "none" /\ ~FitsU64(t) /\ ~FitsI64(t))
  <2>1. v # Bad /\ v.kind = "Float"
    BY <1>5, ValueTypes
  <2> HIDE DEF v
  <2>2. AsWritten(t, v)
    BY <1>5, <2>1 DEF AsWritten
  <2> QED BY <2>2 DEF v
<1>6. CASE v = Bad /\ \/ t.suffix = "i64" /\ ~FitsI64(t)
                      \/ t.suffix = "u64" /\ ~FitsU64(t)
                      \/ t.suffix = "other"
  BY <1>6 DEF AsWritten
<1> QED BY <1>3, <1>4, <1>5, <1>6, LiteralIs

-------------------------------------------------------------------------------
(* Paths.                                                                  *)

LEMMA WithinIs ==
  ASSUME NEW p \in Path, NEW q \in Path
  PROVE  Within(p, q) <=> Len(p) <= Len(q) /\ \A i \in 1..Len(p) : p[i] = q[i]
<1>1. p \in Seq(Name) /\ q \in Seq(Name) /\ Len(p) \in Nat /\ Len(q) \in Nat
  BY DEF Path
<1>2. CASE Len(p) <= Len(q)
  <2>1. /\ SubSeq(q, 1, Len(p)) \in Seq(Name) /\ Len(SubSeq(q, 1, Len(p))) = Len(p)
        /\ \A i \in 1..Len(p) : SubSeq(q, 1, Len(p))[i] = q[i]
    <3>1. Len(p) \in 0..Len(q)
      BY <1>1, <1>2
    <3> QED BY <1>1, <3>1, Cut
  <2>2. SubSeq(q, 1, Len(p)) = p <=> \A i \in 1..Len(p) : SubSeq(q, 1, Len(p))[i] = p[i]
    BY <1>1, <2>1, SeqEqual
  <2> QED BY <1>2, <2>1, <2>2 DEF Within
<1>3. CASE ~(Len(p) <= Len(q))
  BY <1>3 DEF Within
<1> QED BY <1>2, <1>3

LEMMA WithinOrder ==
  /\ <<>> \in Path /\ Len(<<>>) = 0
  /\ \A p \in Path : /\ Within(p, p) /\ Within(<<>>, p) /\ Len(p) \in Nat
                     /\ Len(p) = 0 <=> p = <<>>
                     /\ Within(p, <<>>) => p = <<>>
  /\ \A p, q \in Path : Within(p, q) => Len(p) <= Len(q) /\ (Len(p) = Len(q) => p = q)
  /\ \A p, q, r \in Path : Within(p, q) /\ Within(q, r) => Within(p, r)
  /\ \A p, q, r \in Path : Within(p, r) /\ Within(q, r) /\ Len(p) <= Len(q) => Within(p, q)
<1>1. <<>> \in Path /\ Len(<<>>) = 0
  BY DEF Path
<1>2. \A p \in Path : Len(p) \in Nat /\ (Len(p) = 0 <=> p = <<>>)
  BY EmptySeq DEF Path
<1>3. ASSUME NEW p \in Path, NEW q \in Path, Within(p, q)
      PROVE  Len(p) <= Len(q) /\ (Len(p) = Len(q) => p = q)
  <2>1. Len(p) <= Len(q) /\ \A i \in 1..Len(p) : p[i] = q[i]
    BY <1>3, WithinIs
  <2>2. p \in Seq(Name) /\ q \in Seq(Name)
    BY DEF Path
  <2> QED BY <2>1, <2>2, SeqEqual
<1>4. \A p \in Path : Within(p, p) /\ Within(<<>>, p)
  BY <1>1, <1>2, WithinIs
<1>5. \A p \in Path : Within(p, <<>>) => p = <<>>
  BY <1>1, <1>2, <1>3
<1>6. ASSUME NEW p \in Path, NEW q \in Path, NEW r \in Path, Within(p, q), Within(q, r)
      PROVE  Within(p, r)
  BY <1>2, <1>6, WithinIs
<1>7. ASSUME NEW p \in Path, NEW q \in Path, NEW r \in Path,
             Within(p, r), Within(q, r), Len(p) <= Len(q)
      PROVE  Within(p, q)
  BY <1>2, <1>7, WithinIs
<1> QED BY <1>1, <1>2, <1>3, <1>4, <1>5, <1>6, <1>7

LEMMA OneMore ==
  ASSUME NEW p \in Path, NEW n \in Name
  PROVE  /\ Append(p, n) \in Path /\ Append(p, n) # <<>>
         /\ Len(Append(p, n)) = Len(p) + 1 /\ Front(Append(p, n)) = p
         /\ Within(p, Append(p, n)) /\ Last(Append(p, n)) = n
<1> DEFINE q == Append(p, n)
<1>1. p \in Seq(Name) /\ Len(p) \in Nat
  BY DEF Path
<1>2. /\ q \in Seq(Name) /\ Len(q) = Len(p) + 1 /\ q[Len(p) + 1] = n
      /\ \A i \in 1..Len(p) : q[i] = p[i]
  BY <1>1, Pushed
<1> HIDE DEF q
<1>3. q # <<>> /\ q \in Path
  BY <1>1, <1>2, EmptySeq DEF Path
<1>4. Front(q) \in Seq(Name) /\ Len(Front(q)) = Len(p) /\ Last(q) = n
      /\ \A i \in 1..Len(p) : Front(q)[i] = q[i]
  <2>1. /\ Front(q) \in Seq(Name) /\ Len(Front(q)) = Len(q) - 1 /\ Last(q) = q[Len(q)]
        /\ \A i \in 1..Len(q) - 1 : Front(q)[i] = q[i]
    BY <1>2, <1>3, Popped
  <2>2. Len(q) - 1 = Len(p)
    BY <1>1, <1>2
  <2> QED BY <1>2, <2>1, <2>2
<1>5. Front(q) = p
  BY <1>1, <1>2, <1>4, SeqEqual
<1>6. Within(p, q)
  BY <1>1, <1>2, <1>3, WithinIs
<1> QED BY <1>2, <1>3, <1>4, <1>5, <1>6 DEF q

LEMMA OneLess ==
  ASSUME NEW p \in Path, p # <<>>
  PROVE  /\ Front(p) \in Path /\ Len(Front(p)) = Len(p) - 1 /\ Within(Front(p), p)
         /\ Len(p) \in Nat \ {0} /\ Last(p) \in Name /\ Last(p) = p[Len(p)]
<1>1. p \in Seq(Name)
  BY DEF Path
<1>2. /\ Front(p) \in Seq(Name) /\ Len(Front(p)) = Len(p) - 1
      /\ Len(p) \in Nat \ {0} /\ Last(p) = p[Len(p)] /\ Last(p) \in Name
      /\ \A i \in 1..Len(p) - 1 : Front(p)[i] = p[i]
  BY <1>1, Popped
<1>3. Front(p) \in Path
  BY <1>2 DEF Path
<1>4. Within(Front(p), p)
  BY <1>2, <1>3, WithinIs
<1> QED BY <1>2, <1>3, <1>4
-------------------------------------------------------------------------------
(* The entries.                                                            *)

\* InTextOrder of any entries.
Ordered(es) ==
  \A i \in 1..Len(es) :
    /\ es[i].path # <<>>
    /\ \/ Len(es[i].path) = 1
       \/ \E j \in 1..i - 1 :
            /\ es[j].path = Front(es[i].path)
            /\ es[j].value = Object
            /\ \A k \in j..i : Within(es[j].path, es[k].path)

Apart(es) == \A i, j \in 1..Len(es) : es[i].path = es[j].path => i = j

\* An object which the next entry is inside of, if it is inside of p.
Open(p, es) ==
  p = <<>> \/ \E j \in 1..Len(es) : /\ es[j].path = p /\ es[j].value = Object
                                    /\ \A k \in j..Len(es) : Within(p, es[k].path)

LEMMA EntryTypes ==
  ASSUME NEW es \in Seq(Entry)
  PROVE  /\ Len(es) \in Nat
         /\ \A i \in 1..Len(es) : es[i] \in Entry /\ es[i].path \in Path /\ es[i].value \in Value
<1>1. Len(es) \in Nat /\ \A i \in 1..Len(es) : es[i] \in Entry
  OBVIOUS
<1>2. \A e \in Entry : e.path \in Path /\ e.value \in Value
  BY DEF Entry
<1> QED BY <1>1, <1>2

EntryMore(es, fs, p, v) ==
  /\ fs \in Seq(Entry) /\ Ordered(fs) /\ Apart(fs)
  /\ \A q \in Path : Within(q, p) /\ Open(q, es) => Open(q, fs)
  /\ v = Object => Open(p, fs)

LEMMA EntryAdded ==
  ASSUME NEW es \in Seq(Entry), Ordered(es), Apart(es),
         NEW p \in Path, p # <<>>, NEW v \in Value,
         \A i \in 1..Len(es) : es[i].path # p,
         Open(Front(p), es)
  PROVE  EntryMore(es, Append(es, [path |-> p, value |-> v]), p, v)
<1> DEFINE e == [path |-> p, value |-> v]
           fs == Append(es, e)
<1>0. e \in Entry /\ e.path = p /\ e.value = v
  BY DEF Entry
<1> HIDE DEF e
<1>1. /\ fs \in Seq(Entry) /\ Len(fs) = Len(es) + 1 /\ fs[Len(es) + 1].path = p
      /\ fs[Len(es) + 1].value = v /\ \A i \in 1..Len(es) : fs[i] = es[i]
  BY <1>0, Pushed
<1> HIDE DEF fs
<1>2. /\ Len(es) \in Nat /\ \A i \in 1..Len(es) : es[i].path \in Path
      /\ Front(p) \in Path /\ Len(Front(p)) = Len(p) - 1 /\ Within(Front(p), p)
      /\ Len(p) \in Nat
  BY EntryTypes, OneLess
<1>3. Apart(fs)
  BY <1>1, <1>2 DEF Apart
<1>4. ASSUME NEW q \in Path, Within(q, p), Open(q, es) PROVE Open(q, fs)
  <2>1. CASE q = <<>>
    BY <2>1 DEF Open
  <2>2. CASE q # <<>>
    <3>1. PICK j \in 1..Len(es) : /\ es[j].path = q /\ es[j].value = Object
                                  /\ \A k \in j..Len(es) : Within(q, es[k].path)
      BY <1>4, <2>2 DEF Open
    <3>2. j \in 1..Len(fs) /\ fs[j].path = q /\ fs[j].value = Object
      BY <1>1, <1>2, <3>1
    <3>3. \A k \in j..Len(fs) : k \in j..Len(es) \/ k = Len(es) + 1
      <4> SUFFICES ASSUME NEW k \in j..Len(fs), k # Len(es) + 1 PROVE k \in j..Len(es)
        OBVIOUS
      <4>1. j \in Nat /\ k \in Nat /\ k <= Len(es) + 1 /\ j <= k
        BY <1>1, <1>2
      <4>2. Len(es) \in Nat
        BY <1>2
      <4> QED BY <4>1, <4>2
    <3>4. \A k \in j..Len(es) : fs[k] = es[k]
      BY <1>1, <1>2
    <3>5. \A k \in j..Len(fs) : Within(q, fs[k].path)
      BY <1>1, <1>4, <3>1, <3>3, <3>4
    <3> QED BY <3>2, <3>5 DEF Open
  <2> QED BY <2>1, <2>2
<1>5. ASSUME NEW i \in 1..Len(fs)
      PROVE  /\ fs[i].path # <<>>
             /\ \/ Len(fs[i].path) = 1
                \/ \E j \in 1..i - 1 :
                     /\ fs[j].path = Front(fs[i].path)
                     /\ fs[j].value = Object
                     /\ \A k \in j..i : Within(fs[j].path, fs[k].path)
  <2>1. CASE i \in 1..Len(es)
    <3>1. fs[i] = es[i] /\ \A k \in 1..i : fs[k] = es[k]
      BY <1>1, <1>2, <2>1
    <3>2. /\ es[i].path # <<>>
          /\ \/ Len(es[i].path) = 1
             \/ \E j \in 1..i - 1 :
                  /\ es[j].path = Front(es[i].path)
                  /\ es[j].value = Object
                  /\ \A k \in j..i : Within(es[j].path, es[k].path)
      BY <2>1 DEF Ordered
    <3>3. CASE \E j \in 1..i - 1 : /\ es[j].path = Front(es[i].path)
                                   /\ es[j].value = Object
                                   /\ \A k \in j..i : Within(es[j].path, es[k].path)
      <4>1. PICK j \in 1..i - 1 : /\ es[j].path = Front(es[i].path)
                                  /\ es[j].value = Object
                                  /\ \A k \in j..i : Within(es[j].path, es[k].path)
        BY <3>3
      <4>2. j \in 1..i /\ \A k \in j..i : k \in 1..i
        BY <2>1
      <4> QED BY <3>1, <3>2, <4>1, <4>2
    <3> QED BY <3>1, <3>2, <3>3
  <2>2. CASE i = Len(es) + 1
    <3>1. CASE Len(p) = 1
      BY <1>1, <2>2, <3>1
    <3>2. CASE Len(p) # 1
      <4>1. Front(p) # <<>>
        BY <1>2, <3>2, WithinOrder, OneLess
      <4>2. Open(Front(p), fs)
        BY <1>2, <1>4
      <4>3. PICK j \in 1..Len(fs) : /\ fs[j].path = Front(p) /\ fs[j].value = Object
                                    /\ \A k \in j..Len(fs) : Within(Front(p), fs[k].path)
        BY <4>1, <4>2 DEF Open
      <4>4. j # i
        BY <1>1, <1>2, <2>2, <4>3
      <4>5. j \in 1..i - 1 /\ i = Len(fs)
        BY <1>1, <1>2, <2>2, <4>3, <4>4
      <4> QED BY <1>1, <2>2, <4>3, <4>5
    <3> QED BY <3>1, <3>2
  <2>3. i \in 1..Len(es) \/ i = Len(es) + 1
    BY <1>1, <1>2
  <2> QED BY <2>1, <2>2, <2>3
<1>6. Ordered(fs)
  BY <1>5 DEF Ordered
<1>7. ASSUME v = Object PROVE Open(p, fs)
  <2>1. Len(fs) \in 1..Len(fs) /\ \A k \in Len(fs)..Len(fs) : k = Len(es) + 1
    BY <1>1, <1>2
  <2>2. Within(p, p)
    BY WithinOrder
  <2> QED BY <1>1, <1>7, <2>1, <2>2 DEF Open
<1>8. EntryMore(es, fs, p, v)
  BY <1>1, <1>3, <1>4, <1>6, <1>7 DEF EntryMore
<1> QED BY <1>8 DEF e, fs

-------------------------------------------------------------------------------
(* The parser.                                                             *)

\* What a token stands for is a value, ...
LEMMA ScalarTypes ==
  ASSUME NEW t \in Token, ScalarOf(t) # Bad
  PROVE  ScalarOf(t) \in Value
<1>1. t \in NumberToken \/ t \in WordToken
  BY TokenAssumption
<1>2. CASE t \in WordToken
  <2>1. t.word \in Keyword
    BY <1>2 DEF WordToken
  <2> QED BY <1>2, <2>1, ValueTypes DEF ScalarOf
<1>3. CASE t \notin WordToken
  <2>1. t \in NumberToken /\ ScalarOf(t) = parse_literal_str(t)
    BY <1>1, <1>3 DEF ScalarOf
  <2>2. Amount(t) \in Int
    BY <2>1, TokenTypes
  <2>3. /\ Number("Int", Amount(t)) \in Value /\ Number("Uint", Amount(t)) \in Value
        /\ Is("Float") \in Value
    BY <2>2, ValueTypes
  <2> QED BY <2>1, <2>3, LiteralIs
<1> QED BY <1>2, <1>3

\* ... and a key is a name.
LEMMA KeyTypes ==
  ASSUME NEW k \in Spelling, KeyOf(k) # Bad
  PROVE  KeyOf(k) \in Name
<1>1. k.name \in Name /\ k.form \in {"identifier", "string", "other"}
  <2>1. k \in [form : {"identifier", "string", "other"}, name : Name, escapes : SUBSET STRING]
    BY ParserAssumption
  <2> QED BY <2>1
<1> QED BY <1>1 DEF KeyOf, unescape_json_string

Group == [group : {"braces", "parentheses"}, path : Path]

LEMMA GroupTypes ==
  ASSUME NEW s \in Seq(Group)
  PROVE  /\ Len(s) \in Nat
         /\ \A m \in 1..Len(s) : s[m] \in Group /\ s[m].path \in Path
<1>1. Len(s) \in Nat /\ \A m \in 1..Len(s) : s[m] \in Group
  OBVIOUS
<1>2. \A g \in Group : g.path \in Path
  BY DEF Group
<1> QED BY <1>1, <1>2

\* A group lies inside of those around it.
Nest(s) == \A m, n \in 1..Len(s) : m <= n => Within(s[m].path, s[n].path)

\* Up to one position more.
LEMMA UpToNext ==
  ASSUME NEW n \in Nat, NEW m \in 1..n + 1
  PROVE  m \in 1..n \/ m = n + 1
  OBVIOUS

GroupMore(s, t, p, g) ==
  /\ t \in Seq(Group) /\ Nest(t) /\ t # <<>> /\ Last(t).group = g
  /\ \A m \in 1..Len(t) : \/ m \in 1..Len(s) /\ t[m] = s[m]
                          \/ t[m].path = p /\ t[m].group = g

LEMMA GroupAdded ==
  ASSUME NEW s \in Seq(Group), Nest(s), NEW p \in Path,
         \A m \in 1..Len(s) : Within(s[m].path, p),
         NEW g \in {"braces", "parentheses"}
  PROVE  GroupMore(s, Append(s, [group |-> g, path |-> p]), p, g)
<1> DEFINE new == [group |-> g, path |-> p]
           t == Append(s, new)
<1>1. new \in Group /\ new.path = p /\ new.group = g
  BY DEF Group
<1> HIDE DEF new
<1>2. /\ t \in Seq(Group) /\ Len(t) = Len(s) + 1 /\ t[Len(s) + 1] = new
      /\ \A m \in 1..Len(s) : t[m] = s[m]
  BY <1>1, Pushed
<1> HIDE DEF t
<1>3. Len(s) \in Nat /\ Within(p, p)
  BY GroupTypes, WithinOrder
<1>4. \A m \in 1..Len(t) : \/ m \in 1..Len(s) /\ t[m] = s[m]
                           \/ m = Len(s) + 1 /\ t[m] = new
  BY <1>2, <1>3, UpToNext
<1>5. ASSUME NEW m \in 1..Len(t), NEW n \in 1..Len(t), m <= n
      PROVE  Within(t[m].path, t[n].path)
  <2>1. CASE n \in 1..Len(s) /\ t[n] = s[n]
    <3>1. m # Len(s) + 1
      <4>1. n \in 1..Len(s)
        BY <2>1
      <4> QED BY <1>3, <1>5, <4>1
    <3>2. m \in 1..Len(s) /\ t[m] = s[m]
      BY <1>4, <3>1
    <3> QED BY <1>5, <2>1, <3>2 DEF Nest
  <2>2. CASE t[n] = new
    BY <1>1, <1>3, <1>4, <2>2
  <2> QED BY <1>4, <2>1, <2>2
<1>6. Nest(t)
  BY <1>5 DEF Nest
<1>7. t # <<>> /\ Last(t) = new
  <2>1. Len(t) # 0
    BY <1>2, <1>3
  <2> QED BY <1>2, <2>1, EmptySeq DEF Last
<1>8. GroupMore(s, t, p, g)
  BY <1>1, <1>2, <1>4, <1>6, <1>7 DEF GroupMore
<1> QED BY <1>8 DEF t, new

ParserTypes ==
  /\ expect \in Reading \cup Ended
  /\ overrides \in [Slot -> Name \cup {None}]
  /\ \A s \in Slot : overrides[s] # None => Len(Words[overrides[s]]) = 1
  /\ entries \in Seq(Entry) /\ at \in Path /\ stack \in Seq(Group)

\* A brace group can take the next entry.
GroupsOpen == \A m \in 1..Len(stack) : stack[m].group = "braces" => Open(stack[m].path, entries)

\* What the value read next is inside of.
Place ==
  /\ expect \in {"input", "override", "after_override"} => stack = <<>> /\ at = <<>>
  /\ expect = "value" =>
       /\ \A m \in 1..Len(stack) : Within(stack[m].path, at)
       /\ at # <<>> => /\ \A i \in 1..Len(entries) : entries[i].path # at
                       /\ Open(Front(at), entries)
  /\ expect = "key" => stack # <<>> /\ Last(stack).group = "braces"

ParserInv ==
  ParserTypes /\ Ordered(entries) /\ Apart(entries) /\ Nest(stack) /\ GroupsOpen /\ Place

LEMMA ParserInit == Init => ParserInv
<1> SUFFICES ASSUME Init PROVE ParserInv
  OBVIOUS
<1> USE DEF Init
<1>1. /\ <<>> \in Path /\ <<>> \in Seq(Entry) /\ <<>> \in Seq(Group)
      /\ Len(entries) = 0 /\ Len(stack) = 0
  BY DEF Path
<1>2. ParserTypes
  BY <1>1 DEF ParserTypes, Reading
<1>3. Ordered(entries) /\ Apart(entries) /\ Nest(stack) /\ GroupsOpen
  BY <1>1 DEF Ordered, Apart, Nest, GroupsOpen
<1>4. Place
  BY DEF Place
<1> QED BY <1>2, <1>3, <1>4 DEF ParserInv

LEMMA ParseKeyStep ==
  ASSUME ParserInv, NEW k \in Spelling, parse_key(k)
  PROVE  ParserInv'
<1> DEFINE p == Last(stack).path
<1>0. /\ expect = "key" /\ expect' = "value" /\ at' = Append(p, KeyOf(k))
      /\ Append(p, KeyOf(k)) \notin Declared /\ KeyOf(k) \in Name
      /\ overrides' = overrides /\ entries' = entries /\ stack' = stack
  BY KeyTypes DEF parse_key
<1>1. stack \in Seq(Group) /\ stack # <<>> /\ Last(stack).group = "braces"
  BY <1>0 DEF ParserInv, ParserTypes, Place
<1>2. Len(stack) \in 1..Len(stack) /\ Last(stack) = stack[Len(stack)] /\ p \in Path
  <2>1. Len(stack) \in Nat \ {0} /\ Last(stack) = stack[Len(stack)]
    BY <1>1, Popped
  <2>2. Len(stack) \in 1..Len(stack)
    BY <2>1
  <2> QED BY <1>1, <2>1, <2>2, GroupTypes
<1>3. \A m \in 1..Len(stack) : Within(stack[m].path, p) /\ stack[m].path \in Path
  <2>1. Nest(stack) /\ \A m \in 1..Len(stack) : m <= Len(stack)
    BY DEF ParserInv
  <2> QED BY <1>1, <1>2, <2>1, GroupTypes DEF Nest
<1>4. Open(p, entries)
  BY <1>1, <1>2 DEF ParserInv, GroupsOpen
<1> HIDE DEF p
<1>5. at' \in Path /\ at' # <<>> /\ Within(p, at') /\ Front(at') = p
  BY <1>0, <1>2, OneMore
<1>6. \A m \in 1..Len(stack) : Within(stack[m].path, at')
  BY <1>2, <1>3, <1>5, WithinOrder
<1>7. \A i \in 1..Len(entries) : entries[i].path # at'
  BY <1>0 DEF Declared
<1>8. ParserTypes'
  BY <1>0, <1>5 DEF ParserInv, ParserTypes, Reading
<1>9. Place'
  BY <1>0, <1>4, <1>5, <1>6, <1>7 DEF Place
<1> QED BY <1>0, <1>8, <1>9 DEF ParserInv, GroupsOpen

\* An entry where the value is.
LEMMA EntryStep ==
  ASSUME ParserInv, expect = "value", at # <<>>, NEW v \in Value,
         entries' = Append(entries, [path |-> at, value |-> v])
  PROVE  /\ entries' \in Seq(Entry) /\ Ordered(entries') /\ Apart(entries')
         /\ \A m \in 1..Len(stack) : stack[m].group = "braces" => Open(stack[m].path, entries')
         /\ v = Object => Open(at, entries')
<1>1. /\ entries \in Seq(Entry) /\ Ordered(entries) /\ Apart(entries) /\ at \in Path
      /\ (\A i \in 1..Len(entries) : entries[i].path # at) /\ Open(Front(at), entries)
      /\ \A m \in 1..Len(stack) : Within(stack[m].path, at) /\ stack[m].path \in Path
      /\ \A m \in 1..Len(stack) : stack[m].group = "braces" => Open(stack[m].path, entries)
  BY GroupTypes DEF ParserInv, ParserTypes, Place, GroupsOpen
<1>2. EntryMore(entries, entries', at, v)
  BY <1>1, EntryAdded
<1> QED BY <1>1, <1>2 DEF EntryMore

LEMMA ParseScalarStep ==
  ASSUME ParserInv, NEW t \in Token, parse_scalar(t)
  PROVE  ParserInv'
<1>0. /\ expect = "value" /\ expect' = "end" /\ at # <<>> /\ ScalarOf(t) \in Value
      /\ entries' = Append(entries, [path |-> at, value |-> ScalarOf(t)])
      /\ overrides' = overrides /\ stack' = stack /\ at' = at
  BY ScalarTypes DEF parse_scalar
<1>1. /\ entries' \in Seq(Entry) /\ Ordered(entries') /\ Apart(entries')
      /\ \A m \in 1..Len(stack) : stack[m].group = "braces" => Open(stack[m].path, entries')
  BY <1>0, EntryStep
<1>2. ParserTypes'
  BY <1>0, <1>1 DEF ParserInv, ParserTypes, Reading
<1>3. Place'
  BY <1>0 DEF Place
<1>4. Nest(stack') /\ GroupsOpen'
  BY <1>0, <1>1 DEF ParserInv, GroupsOpen
<1> QED BY <1>1, <1>2, <1>3, <1>4 DEF ParserInv

LEMMA ParseObjectStep ==
  ASSUME ParserInv, parse_object
  PROVE  ParserInv'
<1>0. /\ expect = "value" /\ expect' \in {"key", "end"}
      /\ entries' = IF at = <<>> THEN entries
                    ELSE Append(entries, [path |-> at, value |-> Object])
      /\ stack' = Append(stack, [group |-> "braces", path |-> at])
      /\ overrides' = overrides /\ at' = at
  BY DEF parse_object
<1>1. /\ entries' \in Seq(Entry) /\ Ordered(entries') /\ Apart(entries')
      /\ \A m \in 1..Len(stack) : stack[m].group = "braces" => Open(stack[m].path, entries')
      /\ Open(at, entries')
  <2>1. CASE at = <<>>
    BY <1>0, <2>1 DEF ParserInv, ParserTypes, GroupsOpen, Open
  <2>2. CASE at # <<>>
    <3>1. Object \in Value
      BY ValueTypes DEF Object
    <3> QED BY <1>0, <2>2, <3>1, EntryStep
  <2> QED BY <2>1, <2>2
<1>2. GroupMore(stack, stack', at, "braces")
  BY <1>0, GroupAdded DEF ParserInv, ParserTypes, Place
<1>3. ParserTypes'
  BY <1>0, <1>1, <1>2 DEF ParserInv, ParserTypes, Reading, GroupMore
<1>4. Place'
  BY <1>0, <1>2 DEF Place, GroupMore
<1>5. GroupsOpen'
  BY <1>1, <1>2 DEF GroupsOpen, GroupMore
<1> QED BY <1>1, <1>2, <1>3, <1>4, <1>5 DEF ParserInv, GroupMore

LEMMA ParseParenthesizedStep ==
  ASSUME ParserInv, parse_parenthesized
  PROVE  ParserInv'
<1>0. /\ expect = "value" /\ expect' = expect
      /\ stack' = Append(stack, [group |-> "parentheses", path |-> at])
      /\ overrides' = overrides /\ entries' = entries /\ at' = at
  BY DEF parse_parenthesized
<1>1. GroupMore(stack, stack', at, "parentheses")
  BY <1>0, GroupAdded DEF ParserInv, ParserTypes, Place
<1>3. ParserTypes'
  BY <1>0, <1>1 DEF ParserInv, ParserTypes, GroupMore
<1>4. at \in Path /\ Within(at, at)
  BY WithinOrder DEF ParserInv, ParserTypes
<1>5. Place'
  BY <1>0, <1>1, <1>4 DEF ParserInv, Place, GroupMore
<1>6. GroupsOpen'
  BY <1>0, <1>1 DEF ParserInv, GroupsOpen, GroupMore
<1> QED BY <1>0, <1>1, <1>3, <1>5, <1>6 DEF ParserInv, GroupMore

LEMMA EndGroupStep ==
  ASSUME ParserInv, end_group
  PROVE  ParserInv'
<1>0. /\ expect = "end" /\ expect' = expect /\ stack # <<>> /\ stack' = Front(stack)
      /\ overrides' = overrides /\ entries' = entries /\ at' = at
  BY DEF end_group
<1>1. /\ stack' \in Seq(Group) /\ Len(stack') = Len(stack) - 1 /\ Len(stack) \in Nat
      /\ \A m \in 1..Len(stack) - 1 : stack'[m] = stack[m]
  BY <1>0, Popped DEF ParserInv, ParserTypes
<1>2. \A m \in 1..Len(stack') : m \in 1..Len(stack) /\ stack'[m] = stack[m]
  BY <1>1
<1>3. ParserTypes'
  BY <1>0, <1>1 DEF ParserInv, ParserTypes
<1>4. Nest(stack') /\ GroupsOpen'
  BY <1>0, <1>2 DEF ParserInv, GroupsOpen, Nest
<1>5. Place'
  BY <1>0 DEF Place
<1> QED BY <1>0, <1>3, <1>4, <1>5 DEF ParserInv

\* The steps that leave the object as it is.
LEMMA PlainSteps ==
  ASSUME ParserInv,
         \/ parse_overrides \/ begin_value \/ next_entry \/ end_input
         \/ \E s \in Slot, n \in Name : parse_override(s, n)
  PROVE  ParserInv'
<1>0. /\ entries' = entries /\ stack' = stack /\ at' = at
      /\ expect' \in Reading \cup Ended
      /\ ParserTypes /\ Ordered(entries) /\ Apart(entries) /\ Nest(stack) /\ GroupsOpen /\ Place
  BY DEF parse_overrides, begin_value, next_entry, end_input, parse_override, Reading, Ended,
         ParserInv
<1>1. Ordered(entries') /\ Apart(entries') /\ Nest(stack') /\ GroupsOpen'
  BY <1>0 DEF GroupsOpen
<1>2. CASE parse_overrides
  BY <1>0, <1>1, <1>2 DEF parse_overrides, ParserInv, ParserTypes, Place
<1>3. CASE begin_value
  <2>1. at' = <<>> /\ stack' = <<>> /\ Len(stack') = 0
    <3>1. expect \in {"input", "after_override"}
      BY <1>3 DEF begin_value
    <3> QED BY <1>0, <3>1 DEF Place
  <2> QED BY <1>0, <1>1, <1>3, <2>1 DEF begin_value, ParserInv, ParserTypes, Place
<1>4. CASE next_entry
  BY <1>0, <1>1, <1>4 DEF next_entry, ParserInv, ParserTypes, Place
<1>5. CASE end_input
  BY <1>0, <1>1, <1>5 DEF end_input, ParserInv, ParserTypes, Place
<1>6. CASE \E s \in Slot, n \in Name : parse_override(s, n)
  <2>1. PICK s \in Slot, n \in Name : parse_override(s, n)
    BY <1>6
  <2>2. /\ Len(Words[n]) = 1 /\ overrides' = [overrides EXCEPT ![s] = n]
        /\ expect \in {"override", "after_override"} /\ expect' = "after_override"
    BY <2>1 DEF parse_override, assign_override, validate_override_value
  <2>3. /\ overrides' \in [Slot -> Name \cup {None}]
        /\ \A u \in Slot : overrides'[u] # None => Len(Words[overrides'[u]]) = 1
    BY <1>0, <2>2 DEF ParserTypes
  <2>4. ParserTypes'
    BY <1>0, <2>3 DEF ParserTypes
  <2>5. Place'
    BY <1>0, <2>2 DEF Place
  <2> QED BY <1>1, <2>4, <2>5 DEF ParserInv
<1> QED BY <1>2, <1>3, <1>4, <1>5, <1>6

LEMMA RejectStep ==
  ASSUME ParserInv, reject
  PROVE  ParserInv'
<1>0. /\ expect' = "rejected" /\ overrides' = [s \in Slot |-> None]
      /\ entries' = <<>> /\ stack' = <<>> /\ at' = <<>>
  BY DEF reject
<1>1. /\ <<>> \in Path /\ <<>> \in Seq(Entry) /\ <<>> \in Seq(Group)
      /\ Len(entries') = 0 /\ Len(stack') = 0
  BY <1>0 DEF Path
<1>2. ParserTypes'
  BY <1>0, <1>1 DEF ParserTypes, Ended
<1>3. Ordered(entries') /\ Apart(entries') /\ Nest(stack') /\ GroupsOpen'
  BY <1>1 DEF Ordered, Apart, Nest, GroupsOpen
<1>4. Place'
  BY <1>0 DEF Place
<1> QED BY <1>2, <1>3, <1>4 DEF ParserInv

LEMMA ParseStep == ParserInv /\ Parse => ParserInv'
  BY ParseKeyStep, ParseScalarStep, ParseObjectStep, ParseParenthesizedStep, EndGroupStep,
     PlainSteps, RejectStep DEF Parse

-------------------------------------------------------------------------------
(* What the compiler makes depends on the text alone.                      *)

\* Nothing of the text changes.
SameText == entries' = entries /\ overrides' = overrides

\* The same text has the same paths, ...
LEMMA SamePaths ==
  ASSUME SameText
  PROVE  /\ DURATION' = DURATION /\ TOTAL_MS' = TOTAL_MS /\ EVENT' = EVENT
         /\ TIMESTAMP' = TIMESTAMP /\ ID' = ID /\ Declared' = Declared
  BY DEF SameText, DURATION, TOTAL_MS, EVENT, TIMESTAMP, ID, Builtin, Declared

\* ... nodes, ...
LEMMA SameNodes ==
  ASSUME SameText
  PROVE  /\ Children(DURATION)' = Children(DURATION) /\ Inside(DURATION)' = Inside(DURATION)
         /\ Holds(DURATION, Object)' = Holds(DURATION, Object)
         /\ Children(EVENT)' = Children(EVENT) /\ Holds(EVENT, Object)' = Holds(EVENT, Object)
         /\ Subtree(TIMESTAMP)' = Subtree(TIMESTAMP) /\ Subtree(ID)' = Subtree(ID)
<1> USE DEF SameText, Nodes, At, Inside, Children, Subtree, Holds, Picked, DURATION, EVENT,
      TIMESTAMP, ID, Builtin
<1>1. Children(DURATION)' = Children(DURATION)
  OBVIOUS
<1>2. Inside(DURATION)' = Inside(DURATION)
  OBVIOUS
<1>3. Holds(DURATION, Object)' = Holds(DURATION, Object)
  OBVIOUS
<1>4. Children(EVENT)' = Children(EVENT)
  OBVIOUS
<1>5. Holds(EVENT, Object)' = Holds(EVENT, Object)
  OBVIOUS
<1>6. Subtree(TIMESTAMP)' = Subtree(TIMESTAMP)
  OBVIOUS
<1>7. Subtree(ID)' = Subtree(ID)
  OBVIOUS
<1> QED BY <1>1, <1>2, <1>3, <1>4, <1>5, <1>6, <1>7

\* ... duration, ...
LEMMA SameDuration ==
  ASSUME SameText, NEW c
  PROVE  auto_add_duration(c)' = auto_add_duration(c)
<1>1. \A d : convert_total_ms(d)' = convert_total_ms(d)
  BY DEF SameText, convert_total_ms, visit_child, walk, FoldLeft, MapThenFoldSet, Subtree, Children, Nodes, At, Picked, TOTAL_MS, DURATION, Builtin
<1>2. \A d, p : add_duration_subtree(d, p)' = add_duration_subtree(d, p)
  BY SamePaths DEF add_duration_subtree
<1>4. resolve_duration_subtree(c)' = resolve_duration_subtree(c)
  BY <1>1, <1>2, SamePaths, SameNodes DEF resolve_duration_subtree
<1> QED BY <1>2, <1>4, SamePaths, SameNodes DEF auto_add_duration

\* ... and event, ...
LEMMA SameEvent ==
  ASSUME SameText, NEW c
  PROVE  auto_add_event(c)' = auto_add_event(c)
<1>1. \A d : add_event_subtree(d)' = add_event_subtree(d)
  BY SamePaths DEF add_event_subtree, guard_paths
<1>2. \A d : /\ missing_or_walked(d, TIMESTAMP)' = missing_or_walked(d, TIMESTAMP)
             /\ missing_or_walked(d, ID)' = missing_or_walked(d, ID)
  BY SamePaths, SameNodes DEF missing_or_walked
<1>3. resolve_event_subtree(c)' = resolve_event_subtree(c)
  BY DEF SameText, resolve_event_subtree, missing_or_walked, add_event_subtree, guard_paths,
         Subtree, Children, Nodes, At, Picked, ID, TIMESTAMP, EVENT, Builtin
<1> QED BY <1>1, <1>3, SamePaths, SameNodes DEF auto_add_event, SameText

\* ... and so the same schema.
LEMMA SameGenerated ==
  ASSUME SameText
  PROVE  Generated' = Generated
  BY SameDuration, SameEvent DEF Generated, SameText

-------------------------------------------------------------------------------
(* What the compiler collects.                                             *)

Walk == INSTANCE FoldLemmas WITH Op <- visit
Join == INSTANCE FoldLemmas WITH Op <- join

LEMMA WalkIs == \A c, nodes : walk(c, nodes) = Walk!Fold(c, nodes)
  BY DEF walk, Walk!Fold, Walk!FoldLeft, Walk!MapThenFoldSet, FoldLeft, MapThenFoldSet,
         Walk!Max, Max

LEMMA DottedIs == \A p : Dotted(p) = Join!Fold(<<>>, p)
  BY DEF Dotted, Join!Fold, Join!FoldLeft, Join!MapThenFoldSet, FoldLeft, MapThenFoldSet,
         Join!Max, Max

\* What can be said of a dotted string: it has a word at least for every name.
LEMMA DottedTypes ==
  ASSUME NEW p \in Path
  PROVE  Dotted(p) \in Seq(STRING) /\ Len(Dotted(p)) >= Len(p)
<1> DEFINE A == [k \in 0..Len(p) |-> {d \in Seq(STRING) : Len(d) >= k}]
<1>1. p \in Seq(Name) /\ Len(p) \in Nat /\ DOMAIN p = 1..Len(p)
  BY DEF Path
<1>2. <<>> \in A[0]
  BY <1>1
<1>3. ASSUME NEW k \in 1..Len(p), NEW a \in A[k - 1] PROVE join(a, p[k]) \in A[k]
  <2>1. k - 1 \in 0..Len(p) /\ k \in 0..Len(p) /\ p[k] \in Name
    BY <1>1
  <2>2. a \in Seq(STRING) /\ Len(a) >= k - 1
    BY <2>1
  <2>3. Words[p[k]] \in Seq(STRING) /\ Words[p[k]] # <<>>
    BY <2>1, ParserAssumption
  <2>4. Len(Words[p[k]]) \in Nat \ {0}
    BY <2>3, EmptySeq
  <2>5. a \o Words[p[k]] \in Seq(STRING)
        /\ Len(a \o Words[p[k]]) = Len(a) + Len(Words[p[k]])
    BY <2>2, <2>3, ConcatProperties
  <2>6. Len(a) \in Nat
    BY <2>2
  <2>7. Len(a \o Words[p[k]]) >= k
    BY <2>2, <2>4, <2>5, <2>6
  <2> QED BY <2>1, <2>5, <2>7 DEF join
<1> HIDE DEF A
<1>4. Join!Fold(<<>>, p) \in A[Len(p)]
  BY <1>1, <1>2, <1>3, Join!FoldKeeps
<1>5. Dotted(p) \in A[Len(p)]
  BY <1>4, DottedIs
<1> QED BY <1>1, <1>5 DEF A

LEMMA DottedOne ==
  ASSUME NEW p \in Path, Len(p) = 1
  PROVE  Dotted(p) = Words[p[1]] /\ p[1] \in Name /\ Words[p[1]] \in Seq(STRING)
<1>1. p \in Seq(Name) /\ DOMAIN p = 1..1 /\ p[1] \in Name
  BY DEF Path
<1>2. PICK t : Join!IsTrace(t, <<>>, p, 1)
  BY <1>1, Join!FoldTrace
<1>3. Words[p[1]] \in Seq(STRING)
  BY <1>1, ParserAssumption
<1>4. Join!Fold(<<>>, p) = join(<<>>, p[1])
  BY <1>2 DEF Join!IsTrace
<1>5. <<>> \o Words[p[1]] = Words[p[1]]
  BY <1>3, ConcatEmptySeq
<1> QED BY <1>1, <1>3, <1>4, <1>5, DottedIs DEF join

LEMMA DottedTwo ==
  ASSUME NEW p \in Path, Len(p) = 2
  PROVE  /\ Dotted(p) = Words[p[1]] \o Words[p[2]] /\ p[1] \in Name /\ p[2] \in Name
         /\ Words[p[1]] \in Seq(STRING) /\ Words[p[2]] \in Seq(STRING)
<1>1. p \in Seq(Name) /\ DOMAIN p = 1..2 /\ p[1] \in Name /\ p[2] \in Name
  BY DEF Path
<1>2. PICK t : Join!IsTrace(t, <<>>, p, 2)
  BY <1>1, Join!FoldTrace
<1>3. Words[p[1]] \in Seq(STRING) /\ Words[p[2]] \in Seq(STRING)
  BY <1>1, ParserAssumption
<1>4. Join!Fold(<<>>, p) = join(join(<<>>, p[1]), p[2])
  BY <1>2 DEF Join!IsTrace
<1>5. <<>> \o Words[p[1]] = Words[p[1]]
  BY <1>3, ConcatEmptySeq
<1> QED BY <1>1, <1>3, <1>4, <1>5, DottedIs DEF join

\* A name of one word is told from every other path, and so are two of them.
LEMMA OneWord ==
  ASSUME NEW p \in Path, NEW q \in Path, Len(p) = 1, Len(Words[p[1]]) = 1, q # <<>>,
         Dotted(p) = Dotted(q)
  PROVE  p = q
<1>1. Dotted(p) = Words[p[1]] /\ p[1] \in Name
  BY DottedOne
<1>2. Len(q) \in Nat /\ Len(q) # 0 /\ Len(q) <= 1
  <2>1. Len(Dotted(q)) >= Len(q)
    BY DottedTypes
  <2>2. Len(q) \in Nat /\ Len(q) # 0
    BY WithinOrder
  <2> QED BY <1>1, <2>1, <2>2
<1>3. Len(q) = 1
  BY <1>2
<1>4. Dotted(q) = Words[q[1]] /\ q[1] \in Name
  BY <1>3, DottedOne
<1>5. p[1] = q[1]
  BY <1>1, <1>4, ParserAssumption
<1> QED BY <1>3, <1>5, SeqEqual DEF Path

LEMMA TwoWords ==
  ASSUME NEW p \in Path, NEW q \in Path, Len(p) = 2, Len(q) = 2,
         Len(Words[p[1]]) = 1, Len(Words[p[2]]) = 1,
         Len(Words[q[1]]) = 1, Len(Words[q[2]]) = 1,
         Dotted(p) = Dotted(q)
  PROVE  p = q
<1> DEFINE a == Words[p[1]]
           b == Words[p[2]]
           c == Words[q[1]]
           d == Words[q[2]]
<1>1. /\ a \o b = c \o d /\ p[1] \in Name /\ p[2] \in Name /\ q[1] \in Name /\ q[2] \in Name
      /\ a \in Seq(STRING) /\ b \in Seq(STRING) /\ c \in Seq(STRING) /\ d \in Seq(STRING)
      /\ Len(a) = 1 /\ Len(b) = 1 /\ Len(c) = 1 /\ Len(d) = 1
  BY DottedTwo
<1> HIDE DEF a, b, c, d
<1>2. /\ (a \o b)[1] = a[1] /\ (a \o b)[2] = b[1]
      /\ (c \o d)[1] = c[1] /\ (c \o d)[2] = d[1]
  BY <1>1, ConcatProperties
<1>3. a = c /\ b = d
  BY <1>1, <1>2, SeqEqual
<1>4. p[1] = q[1] /\ p[2] = q[2]
  BY <1>1, <1>3, ParserAssumption DEF a, b, c, d
<1> QED BY <1>4, SeqEqual DEF Path

-------------------------------------------------------------------------------
(* A context on its way.                                                   *)

\* What a context has.
LEMMA SchemaFields ==
  ASSUME NEW c \in Schema
  PROVE  /\ c.keys \in Seq(Name) /\ c.paths \in Seq(Path) /\ c.defaults \in Seq(Entry)
         /\ c.duration_segments \in Path /\ c.has_duration_marker \in BOOLEAN
         /\ c.timestamp_segments \in Path /\ c.id_segments \in Path /\ c.ok \in BOOLEAN
  BY DEF Schema

\* A context with one list or the duration changed.
LEMMA KeysSet ==
  ASSUME NEW c \in Schema, NEW s \in Seq(Name)
  PROVE  LET d == [c EXCEPT !.keys = s] IN
         /\ d \in Schema /\ d.keys = s /\ d.paths = c.paths /\ d.defaults = c.defaults
         /\ d.duration_segments = c.duration_segments
         /\ d.has_duration_marker = c.has_duration_marker
         /\ d.timestamp_segments = c.timestamp_segments /\ d.id_segments = c.id_segments
         /\ d.ok = c.ok
  BY DEF Schema

LEMMA PathsSet ==
  ASSUME NEW c \in Schema, NEW s \in Seq(Path)
  PROVE  LET d == [c EXCEPT !.paths = s] IN
         /\ d \in Schema /\ d.keys = c.keys /\ d.paths = s /\ d.defaults = c.defaults
         /\ d.duration_segments = c.duration_segments
         /\ d.has_duration_marker = c.has_duration_marker
         /\ d.timestamp_segments = c.timestamp_segments /\ d.id_segments = c.id_segments
         /\ d.ok = c.ok
  BY DEF Schema

LEMMA DefaultsSet ==
  ASSUME NEW c \in Schema, NEW s \in Seq(Entry)
  PROVE  LET d == [c EXCEPT !.defaults = s] IN
         /\ d \in Schema /\ d.keys = c.keys /\ d.paths = c.paths /\ d.defaults = s
         /\ d.duration_segments = c.duration_segments
         /\ d.has_duration_marker = c.has_duration_marker
         /\ d.timestamp_segments = c.timestamp_segments /\ d.id_segments = c.id_segments
         /\ d.ok = c.ok
  BY DEF Schema

LEMMA DurationSet ==
  ASSUME NEW c \in Schema, NEW p \in Path
  PROVE  LET d == set_duration(c, p) IN
         /\ d \in Schema /\ d.keys = c.keys /\ d.paths = c.paths /\ d.defaults = c.defaults
         /\ d.duration_segments = p /\ d.has_duration_marker = TRUE
         /\ d.timestamp_segments = c.timestamp_segments /\ d.id_segments = c.id_segments
         /\ d.ok = c.ok
  BY DEF Schema, set_duration

\* One element more.
LEMMA RangeMore ==
  ASSUME NEW S, NEW s \in Seq(S), NEW x \in S
  PROVE  /\ Append(s, x) \in Seq(S) /\ Range(Append(s, x)) = Range(s) \cup {x}
         /\ Range(s) \in SUBSET S
<1>1. /\ Append(s, x) \in Seq(S) /\ Len(Append(s, x)) = Len(s) + 1
      /\ Append(s, x)[Len(s) + 1] = x
      /\ \A i \in 1..Len(s) : Append(s, x)[i] = s[i]
  BY Pushed
<1>2. /\ DOMAIN s = 1..Len(s) /\ Len(s) \in Nat
      /\ DOMAIN Append(s, x) = 1..Len(s) + 1
  BY <1>1
<1>3. Range(Append(s, x)) \subseteq Range(s) \cup {x}
  BY <1>1, <1>2, UpToNext DEF Range
<1>4. Range(s) \cup {x} \subseteq Range(Append(s, x))
  BY <1>1, <1>2 DEF Range
<1>5. Range(s) \in SUBSET S
  BY DEF Range
<1> QED
  BY <1>1, <1>3, <1>4, <1>5

\* No two paths of a context look the same.
Unique(c) == \A p, q \in Range(c.paths) : Dotted(p) = Dotted(q) => p = q

\* What the text has to give: its defaults.
DefaultEntries == {e \in Range(entries) : IsDefault(e.value)}

\* What happens to a context on the way: keys and paths are added, the paths from
\* P and no two alike; defaults of the text; the duration may become one of Q.
Grows(c, d, P, Q) ==
  /\ c \in Schema /\ d \in Schema
  /\ Range(c.keys) \subseteq Range(d.keys)
  /\ Range(c.paths) \subseteq Range(d.paths) /\ Range(d.paths) \subseteq Range(c.paths) \cup P
  /\ Unique(c) => Unique(d)
  /\ Range(d.defaults) \subseteq Range(c.defaults) \cup DefaultEntries
  /\ d.timestamp_segments = c.timestamp_segments /\ d.id_segments = c.id_segments
  /\ d.ok = c.ok
  /\ \/ /\ d.has_duration_marker = c.has_duration_marker
        /\ d.duration_segments = c.duration_segments
     \/ /\ d.has_duration_marker = TRUE
        /\ d.duration_segments \in Q

\* A path that can be named, and its key.
Known(c, p) ==
  /\ Last(p) \in Range(c.keys)
  /\ \E q \in Range(c.paths) : Dotted(q) = Dotted(p)

\* Nothing has to happen, ...
LEMMA GrowsNot == \A c \in Schema : \A P, Q : Grows(c, c, P, Q)
  BY DEF Grows

\* ... one thing may happen after another, ...
LEMMA GrowsOn ==
  ASSUME NEW c, NEW d, NEW e, NEW P, NEW Q, NEW P1, NEW Q1, NEW P2, NEW Q2,
         Grows(c, d, P1, Q1), Grows(d, e, P2, Q2),
         P1 \subseteq P, P2 \subseteq P, Q1 \subseteq Q, Q2 \subseteq Q
  PROVE  Grows(c, e, P, Q)
  BY DEF Grows

\* ... and what can be named stays so.
LEMMA KnownOn ==
  ASSUME NEW c, NEW d, NEW P, NEW Q, Grows(c, d, P, Q), NEW p, Known(c, p)
  PROVE  Known(d, p)
  BY DEF Grows, Known

\* Declaring a path adds it unless another looks the same, and its key.
LEMMA DeclareGrows ==
  ASSUME NEW c \in Schema, NEW p \in Path, p # <<>>
  PROVE  Grows(c, declare(c, p), {p}, {}) /\ Known(declare(c, p), p)
<1> DEFINE n == Last(p)
           b == add_key(c, n)
           d == add_path(b, p)
<1>1. n \in Name
  BY OneLess
<1>2. c.keys \in Seq(Name) /\ c.paths \in Seq(Path)
  BY SchemaFields
<1>3. /\ b \in Schema /\ b.paths = c.paths /\ b.defaults = c.defaults
      /\ b.duration_segments = c.duration_segments
      /\ b.has_duration_marker = c.has_duration_marker
      /\ b.timestamp_segments = c.timestamp_segments /\ b.id_segments = c.id_segments
      /\ b.ok = c.ok
      /\ Range(c.keys) \subseteq Range(b.keys) /\ n \in Range(b.keys)
  <2>1. CASE Contains(c.keys, n)
    <3>1. n \in Range(c.keys)
      BY <1>2, <2>1 DEF Contains, Range
    <3> QED
      BY <2>1, <3>1 DEF add_key
  <2>2. CASE ~Contains(c.keys, n)
    <3>1. b = [c EXCEPT !.keys = Append(c.keys, n)]
      BY <2>2 DEF add_key
    <3>2. Append(c.keys, n) \in Seq(Name) /\ Range(Append(c.keys, n)) = Range(c.keys) \cup {n}
      BY <1>1, <1>2, RangeMore
    <3> HIDE DEF b
    <3> QED
      BY <3>1, <3>2, KeysSet
  <2> QED
    BY <2>1, <2>2
<1> HIDE DEF b
<1>4. /\ d \in Schema /\ d.keys = b.keys /\ d.defaults = b.defaults
      /\ d.duration_segments = b.duration_segments
      /\ d.has_duration_marker = b.has_duration_marker
      /\ d.timestamp_segments = b.timestamp_segments /\ d.id_segments = b.id_segments
      /\ d.ok = b.ok
      /\ \/ Range(d.paths) = Range(b.paths)
            /\ \E q \in Range(b.paths) : Dotted(q) = Dotted(p)
         \/ Range(d.paths) = Range(b.paths) \cup {p}
            /\ ~\E q \in Range(b.paths) : Dotted(q) = Dotted(p)
  <2>1. CASE \E q \in Range(b.paths) : Dotted(q) = Dotted(p)
    BY <1>3, <2>1 DEF add_path
  <2>2. CASE ~\E q \in Range(b.paths) : Dotted(q) = Dotted(p)
    <3>1. d = [b EXCEPT !.paths = Append(b.paths, p)]
      BY <2>2 DEF add_path
    <3>2. Append(b.paths, p) \in Seq(Path) /\ Range(Append(b.paths, p)) = Range(b.paths) \cup {p}
      BY <1>2, <1>3, RangeMore
    <3> HIDE DEF d
    <3> QED
      BY <1>3, <2>2, <3>1, <3>2, PathsSet
  <2> QED
    BY <2>1, <2>2
<1>5. d = declare(c, p)
  BY DEF b, d, declare
<1> HIDE DEF d
<1>6. Unique(c) => Unique(d)
  BY <1>3, <1>4 DEF Unique
<1>7. Grows(c, d, {p}, {})
  BY <1>3, <1>4, <1>6 DEF Grows
<1>8. Known(d, p)
  BY <1>3, <1>4 DEF Known
<1> QED
  BY <1>5, <1>7, <1>8

\* Making a path the duration adds nothing else.
LEMMA DurationGrows ==
  ASSUME NEW c, NEW d, NEW P, Grows(c, d, P, {}), NEW p \in Path
  PROVE  /\ Grows(c, set_duration(d, p), P, {p})
         /\ \A q : Known(d, q) => Known(set_duration(d, p), q)
         /\ set_duration(d, p).has_duration_marker = TRUE
         /\ set_duration(d, p).duration_segments = p
<1> DEFINE e == set_duration(d, p)
<1>1. d \in Schema
  BY DEF Grows
<1>2. /\ e \in Schema /\ e.keys = d.keys /\ e.paths = d.paths /\ e.defaults = d.defaults
      /\ e.duration_segments = p /\ e.has_duration_marker = TRUE
      /\ e.timestamp_segments = d.timestamp_segments /\ e.id_segments = d.id_segments
      /\ e.ok = d.ok
  BY <1>1, DurationSet
<1> HIDE DEF e
<1>3. Unique(d) => Unique(e)
  BY <1>2 DEF Unique
<1>4. Grows(c, e, P, {p})
  BY <1>2, <1>3 DEF Grows
<1>5. \A q : Known(d, q) => Known(e, q)
  BY <1>2 DEF Known
<1> QED
  BY <1>2, <1>4, <1>5 DEF e

-------------------------------------------------------------------------------
(* The walk.                                                               *)

\* The elements of a sequence.
LEMMA RangeOf ==
  ASSUME NEW S, NEW s \in Seq(S)
  PROVE  /\ Len(s) \in Nat /\ DOMAIN s = 1..Len(s)
         /\ \A i \in 1..Len(s) : s[i] \in Range(s) /\ s[i] \in S
         /\ \A x \in Range(s) : \E i \in 1..Len(s) : s[i] = x
  BY DEF Range

\* The entries as the walk meets them.
LEMMA EntryIs ==
  ASSUME ParserInv, NEW e \in Range(entries)
  PROVE  /\ e \in Entry /\ e.path \in Path /\ e.value \in Value /\ e.path # <<>>
         /\ e.path \in Declared
         /\ IsDefault(e.value) => e \in DefaultEntries
         /\ e.value = Duration => e.path \in Markers
         /\ Holds(e.path, e.value)
<1>1. entries \in Seq(Entry) /\ Ordered(entries)
  BY DEF ParserInv, ParserTypes
<1>2. PICK i \in 1..Len(entries) : entries[i] = e
  BY <1>1, RangeOf
<1>3. e \in Entry /\ e.path \in Path /\ e.value \in Value /\ e.path # <<>>
  BY <1>1, <1>2, EntryTypes DEF Ordered
<1>4. e = [path |-> e.path, value |-> e.value]
  BY <1>3 DEF Entry
<1>5. e.path \in Declared /\ Holds(e.path, e.value)
  BY <1>2, <1>4 DEF Declared, Holds
<1> QED
  BY <1>3, <1>5 DEF DefaultEntries, Markers

\* A marker and an object are no defaults.
LEMMA DurationIs == ~IsDefault(Duration) /\ ~IsDefault(Object) /\ Duration # Object
  BY DEF IsDefault, Duration, Object, Is

\* One node: its path is declared, its default or its marker is noted.
LEMMA VisitGrows ==
  ASSUME ParserInv, NEW c \in Schema, NEW e \in Range(entries)
  PROVE  /\ Grows(c, visit(c, e), {e.path}, Markers)
         /\ Known(visit(c, e), e.path)
         /\ e.value = Duration => visit(c, e).has_duration_marker = TRUE
<1> DEFINE d == declare(c, e.path)
<1>1. /\ e \in Entry /\ e.path \in Path /\ e.path # <<>>
      /\ IsDefault(e.value) => e \in DefaultEntries
      /\ e.value = Duration => e.path \in Markers
  BY EntryIs
<1>2. Grows(c, d, {e.path}, {}) /\ Known(d, e.path) /\ d \in Schema
  BY <1>1, DeclareGrows DEF Grows
<1>3. visit(c, e) = IF IsDefault(e.value) THEN [d EXCEPT !.defaults = Append(d.defaults, e)]
                    ELSE IF e.value = Duration THEN set_duration(d, e.path) ELSE d
  BY DEF visit
<1> HIDE DEF d
<1>4. CASE IsDefault(e.value)
  <2> DEFINE f == [d EXCEPT !.defaults = Append(d.defaults, e)]
  <2>1. d.defaults \in Seq(Entry)
    BY <1>2, SchemaFields
  <2>2. /\ Append(d.defaults, e) \in Seq(Entry)
        /\ Range(Append(d.defaults, e)) = Range(d.defaults) \cup {e}
    BY <1>1, <2>1, RangeMore
  <2>3. /\ f \in Schema /\ f.keys = d.keys /\ f.paths = d.paths
        /\ f.defaults = Append(d.defaults, e)
        /\ f.duration_segments = d.duration_segments
        /\ f.has_duration_marker = d.has_duration_marker
        /\ f.timestamp_segments = d.timestamp_segments /\ f.id_segments = d.id_segments
        /\ f.ok = d.ok
    BY <1>2, <2>2, DefaultsSet
  <2>4. visit(c, e) = f
    BY <1>3, <1>4
  <2> HIDE DEF f
  <2>5. Unique(d) => Unique(f)
    BY <2>3 DEF Unique
  <2>6. Grows(c, f, {e.path}, Markers)
    BY <1>1, <1>2, <1>4, <2>2, <2>3, <2>5 DEF Grows
  <2>7. Known(f, e.path)
    BY <1>2, <2>3 DEF Known
  <2>8. e.value # Duration
    BY <1>4, DurationIs
  <2> QED
    BY <2>4, <2>6, <2>7, <2>8
<1>5. CASE ~IsDefault(e.value) /\ e.value = Duration
  <2>1. visit(c, e) = set_duration(d, e.path)
    BY <1>3, <1>5
  <2>2. /\ Grows(c, visit(c, e), {e.path}, {e.path}) /\ Known(visit(c, e), e.path)
        /\ visit(c, e).has_duration_marker = TRUE
    <3>1. /\ Grows(c, set_duration(d, e.path), {e.path}, {e.path})
          /\ \A q : Known(d, q) => Known(set_duration(d, e.path), q)
          /\ set_duration(d, e.path).has_duration_marker = TRUE
      BY <1>1, <1>2, DurationGrows
    <3> QED
      BY <1>2, <2>1, <3>1
  <2>3. {e.path} \subseteq Markers
    BY <1>1, <1>5
  <2> QED
    BY <2>2, <2>3 DEF Grows
<1>6. CASE ~IsDefault(e.value) /\ e.value # Duration
  BY <1>2, <1>3, <1>6 DEF Grows
<1> QED
  BY <1>4, <1>5, <1>6

PathsOf(nodes) == {e.path : e \in Range(nodes)}

WalkInv(c, nodes, d) ==
  /\ Grows(c, d, PathsOf(nodes), Markers)
  /\ \A e \in Range(nodes) : Known(d, e.path)
  /\ Duration \in {e.value : e \in Range(nodes)} => d.has_duration_marker = TRUE

\* A walk does what its nodes do, one after the other.
LEMMA WalkGrows ==
  ASSUME ParserInv, NEW c \in Schema, NEW nodes \in Seq(Entry),
         Range(nodes) \subseteq Range(entries)
  PROVE  WalkInv(c, nodes, walk(c, nodes))
<1> DEFINE len == Len(nodes)
           P == PathsOf(nodes)
           A == [k \in 0..len |->
                   {d \in Schema :
                      /\ Grows(c, d, P, Markers)
                      /\ \A i \in 1..k : /\ Known(d, nodes[i].path)
                                         /\ nodes[i].value = Duration => d.has_duration_marker = TRUE}]
<1>1. /\ len \in Nat /\ DOMAIN nodes = 1..len
      /\ \A i \in 1..len : nodes[i] \in Range(nodes)
      /\ \A e \in Range(nodes) : \E i \in 1..len : nodes[i] = e
  BY RangeOf
<1>2. c \in A[0]
  BY <1>1, GrowsNot
<1>3. ASSUME NEW k \in 1..len, NEW a \in A[k - 1]
      PROVE  visit(a, nodes[k]) \in A[k]
  <2> DEFINE e == nodes[k]
             d == visit(a, e)
  <2>1. k - 1 \in 0..len /\ k \in 0..len
    BY <1>1
  <2>2. /\ a \in Schema /\ Grows(c, a, P, Markers)
        /\ \A i \in 1..k - 1 : /\ Known(a, nodes[i].path)
                               /\ nodes[i].value = Duration => a.has_duration_marker = TRUE
    BY <2>1
  <2>3. e \in Range(entries) /\ e.path \in P
    BY <1>1 DEF PathsOf
  <2>4. /\ Grows(a, d, {e.path}, Markers) /\ Known(d, e.path)
        /\ e.value = Duration => d.has_duration_marker = TRUE
    BY <2>2, <2>3, VisitGrows
  <2> HIDE DEF d
  <2>5. Grows(c, d, P, Markers) /\ d \in Schema
    <3>1. {e.path} \subseteq P
      BY <2>3
    <3> QED
      BY <2>2, <2>4, <3>1, GrowsOn DEF Grows
  <2>6. ASSUME NEW i \in 1..k
        PROVE  /\ Known(d, nodes[i].path)
               /\ nodes[i].value = Duration => d.has_duration_marker = TRUE
    <3>1. CASE i = k
      BY <2>4, <3>1
    <3>2. CASE i # k
      <4>1. i \in 1..k - 1
        BY <3>2
      <4>2. Known(d, nodes[i].path)
        BY <2>2, <2>4, <4>1, KnownOn
      <4>3. a.has_duration_marker = TRUE => d.has_duration_marker = TRUE
        BY <2>4 DEF Grows
      <4> QED
        BY <2>2, <4>1, <4>2, <4>3
    <3> QED
      BY <3>1, <3>2
  <2>7. d \in A[k]
    BY <2>1, <2>5, <2>6
  <2> QED
    BY <2>7 DEF d
<1>4. Walk!Fold(c, nodes) \in A[len]
  <2> HIDE DEF A, len
  <2> QED
    BY <1>1, <1>2, <1>3, Walk!FoldKeeps
<1>5. walk(c, nodes) \in A[len]
  BY <1>4, WalkIs
<1> DEFINE d == walk(c, nodes)
<1> HIDE DEF d
<1>6. /\ Grows(c, d, P, Markers)
      /\ \A i \in 1..len : /\ Known(d, nodes[i].path)
                           /\ nodes[i].value = Duration => d.has_duration_marker = TRUE
  BY <1>1, <1>5 DEF d
<1>7. WalkInv(c, nodes, d)
  BY <1>1, <1>6 DEF WalkInv
<1> QED
  BY <1>7 DEF d

-------------------------------------------------------------------------------
(* What the text is to the compiler.                                       *)

\* What encloses an entry is an object.
LEMMA Enclosing ==
  ASSUME ParserInv, NEW e \in Range(entries), NEW p \in Path, p # <<>>,
         Within(p, e.path), p # e.path
  PROVE  Holds(p, Object) /\ p \in Declared
<1> DEFINE Off(i) == Within(p, entries[i].path) /\ p # entries[i].path
           Wrong == {i \in 1..Len(entries) : Off(i) /\ ~Holds(p, Object)}
<1>1. entries \in Seq(Entry) /\ Ordered(entries) /\ Len(entries) \in Nat
  BY DEF ParserInv, ParserTypes
<1>2. \A i \in 1..Len(entries) : entries[i] \in Range(entries)
  BY <1>1, RangeOf
<1>3. PICK n \in 1..Len(entries) : entries[n] = e
  BY <1>1, RangeOf
<1>4. \A i \in Wrong : \E j \in Wrong : j < i
  <2> TAKE i \in Wrong
  <2>1. /\ i \in 1..Len(entries) /\ Off(i) /\ ~Holds(p, Object)
        /\ entries[i].path \in Path /\ entries[i].path # <<>>
    BY <1>2, EntryIs
  <2>2. /\ Len(p) < Len(entries[i].path) /\ Len(p) \in Nat /\ Len(p) # 0
        /\ Len(entries[i].path) \in Nat
    BY <2>1, WithinOrder
  <2>3. PICK j \in 1..i - 1 : entries[j].path = Front(entries[i].path) /\ entries[j].value = Object
    <3>1. Len(entries[i].path) # 1
      <4> DEFINE l == Len(p)
                 m == Len(entries[i].path)
      <4>1. l < m /\ l \in Nat /\ l # 0 /\ m \in Nat
        BY <2>2
      <4> HIDE DEF l, m
      <4>2. m # 1
        BY <4>1
      <4> QED
        BY <4>2 DEF m
    <3>2. \/ Len(entries[i].path) = 1
          \/ \E j \in 1..i - 1 : /\ entries[j].path = Front(entries[i].path)
                                /\ entries[j].value = Object
      BY <1>1, <2>1 DEF Ordered
    <3> QED
      BY <3>1, <3>2
  <2>4. /\ entries[j].path \in Path /\ Len(entries[j].path) = Len(entries[i].path) - 1
        /\ Within(entries[j].path, entries[i].path)
    BY <2>1, <2>3, OneLess
  <2>5. Within(p, entries[j].path)
    BY <2>1, <2>2, <2>4, WithinOrder
  <2>6. j \in 1..Len(entries) /\ j < i
    BY <1>1, <2>1
  <2>7. entries[j].path # p
    <3>1. Holds(entries[j].path, Object)
      BY <1>2, <2>3, <2>6, EntryIs
    <3> QED
      BY <2>1, <3>1
  <2> QED
    BY <2>1, <2>5, <2>6, <2>7
<1>5. Wrong \in SUBSET Nat
  BY <1>1
<1>6. n \in Wrong \/ Holds(p, Object)
  BY <1>3
<1> HIDE DEF Wrong
<1>7. Holds(p, Object)
  BY <1>4, <1>5, <1>6, NoneLeast
<1>8. PICK m \in 1..Len(entries) : entries[m] = [path |-> p, value |-> Object]
  BY <1>7 DEF Holds
<1>9. entries[m].path = p
  BY <1>8
<1> QED
  BY <1>7, <1>8, <1>9 DEF Declared

\* Two entries with one path are one.
LEMMA SameEntry ==
  ASSUME ParserInv, NEW d \in Range(entries), NEW e \in Range(entries), d.path = e.path
  PROVE  d = e
<1>1. entries \in Seq(Entry) /\ Apart(entries)
  BY DEF ParserInv, ParserTypes
<1>2. PICK i, j \in 1..Len(entries) : entries[i] = d /\ entries[j] = e
  BY <1>1, RangeOf
<1> QED
  BY <1>1, <1>2 DEF Apart

\* What the text holds, by its entries.
LEMMA HoldsIs ==
  ASSUME ParserInv, NEW p, NEW v
  PROVE  /\ Holds(p, v) <=> \E e \in Range(entries) : e.path = p /\ e.value = v
         /\ p \in Declared <=> \E e \in Range(entries) : e.path = p
<1>1. entries \in Seq(Entry)
  BY DEF ParserInv, ParserTypes
<1>2. /\ \A i \in 1..Len(entries) : entries[i] \in Range(entries)
      /\ \A e \in Range(entries) : \E i \in 1..Len(entries) : entries[i] = e
  BY <1>1, RangeOf
<1>3. ASSUME Holds(p, v) PROVE \E e \in Range(entries) : e.path = p /\ e.value = v
  <2>1. PICK i \in 1..Len(entries) : entries[i] = [path |-> p, value |-> v]
    BY <1>3 DEF Holds
  <2>2. entries[i].path = p /\ entries[i].value = v
    BY <2>1
  <2> QED
    BY <1>2, <2>2
<1>4. ASSUME NEW e \in Range(entries), e.path = p, e.value = v PROVE Holds(p, v)
  BY <1>4, EntryIs
<1>5. p \in Declared <=> \E e \in Range(entries) : e.path = p
  BY <1>2 DEF Declared
<1> QED
  BY <1>3, <1>4, <1>5

\* No default is at, above or inside of another.
LEMMA DefaultsApart ==
  ASSUME ParserInv, NEW d \in DefaultEntries, NEW e \in DefaultEntries, Related(d.path, e.path)
  PROVE  d = e
<1>1. /\ d \in Range(entries) /\ e \in Range(entries)
      /\ d.path \in Path /\ d.path # <<>> /\ e.path \in Path /\ e.path # <<>>
      /\ d.value # Object /\ e.value # Object
  BY EntryIs, DurationIs DEF DefaultEntries
<1>2. ASSUME NEW a \in Range(entries), NEW b \in Range(entries), a.value # Object,
             a.path \in Path, a.path # <<>>, Within(a.path, b.path)
      PROVE  a.path = b.path
  <2>1. SUFFICES ASSUME a.path # b.path PROVE FALSE
    OBVIOUS
  <2>2. Holds(a.path, Object)
    BY <1>2, <2>1, Enclosing
  <2>3. PICK f \in Range(entries) : f.path = a.path /\ f.value = Object
    BY <2>2, HoldsIs
  <2>4. f = a
    BY <2>3, SameEntry
  <2> QED
    BY <1>2, <2>3, <2>4
<1>3. d.path = e.path
  BY <1>1, <1>2 DEF Related
<1> QED
  BY <1>1, <1>3, SameEntry

\* Nodes are the entries at the positions.
LEMMA NodesIs ==
  ASSUME ParserInv, NEW S \in SUBSET (1..Len(entries))
  PROVE  /\ Nodes(S) \in Seq(Entry) /\ Range(Nodes(S)) = {entries[i] : i \in S}
         /\ Range(Nodes(S)) \subseteq Range(entries)
         /\ IsFiniteSet(S) /\ Cardinality(S) \in Nat /\ Len(Nodes(S)) = Cardinality(S)
         /\ Nodes(S) = <<>> <=> S = {}
<1> DEFINE nodes == Nodes(S)
<1>1. entries \in Seq(Entry)
  BY DEF ParserInv, ParserTypes
<1>2. /\ IsFiniteSet(S) /\ Cardinality(S) \in Nat
      /\ nodes \in Seq(Entry) /\ Len(nodes) = Cardinality(S)
      /\ DOMAIN nodes = 1..Cardinality(S)
      /\ \A n \in 1..Cardinality(S) : \E i \in S : nodes[n] = entries[i]
      /\ \A i \in S : \E n \in 1..Cardinality(S) : nodes[n] = entries[i]
  BY <1>1, PickedIs DEF Nodes
<1> HIDE DEF nodes
<1>3. Range(nodes) = {entries[i] : i \in S}
  <2>1. Range(nodes) = {nodes[n] : n \in 1..Cardinality(S)}
    BY <1>2 DEF Range
  <2>2. \A x \in Range(nodes) : \E i \in S : x = entries[i]
    BY <1>2, <2>1
  <2>3. \A i \in S : entries[i] \in Range(nodes)
    BY <1>2, <2>1
  <2> QED
    BY <2>2, <2>3
<1>4. {entries[i] : i \in S} \subseteq Range(entries)
  BY <1>1, RangeOf
<1>5. nodes = <<>> <=> S = {}
  <2>1. nodes = <<>> <=> Len(nodes) = 0
    BY <1>2, EmptySeq
  <2>2. Cardinality(S) = 0 <=> S = {}
    BY <1>2, FS_EmptySet
  <2> QED
    BY <1>2, <2>1, <2>2
<1> QED
  BY <1>2, <1>3, <1>4, <1>5 DEF nodes

\* The keys with a role, overridden or not, are names of one word.
LEMMA BuiltinTypes ==
  ASSUME ParserInv,
         NEW slot \in {"Event", "Event.Id", "Event.Timestamp", "Duration", "Duration.TotalMs"}
  PROVE  Builtin(slot) \in Name /\ Len(Words[Builtin(slot)]) = 1
<1>1. slot \in Slot
  BY DEF Slot
<1>2. /\ overrides[slot] \in Name \cup {None}
      /\ overrides[slot] # None => Len(Words[overrides[slot]]) = 1
  BY <1>1 DEF ParserInv, ParserTypes
<1>3. DefaultName[slot] \in Name /\ Len(Words[DefaultName[slot]]) = 1
  BY CompilerAssumption
<1> QED
  BY <1>2, <1>3 DEF Builtin

\* Paths of one and of two names.
LEMMA PathOfOne ==
  ASSUME NEW m \in Name
  PROVE  <<m>> \in Path /\ Len(<<m>>) = 1 /\ <<m>>[1] = m /\ <<m>> # <<>> /\ Last(<<m>>) = m
<1>1. <<m>> \in Path /\ Len(<<m>>) = 1 /\ <<m>>[1] = m
  BY DEF Path
<1> QED
  BY <1>1, OneLess, WithinOrder

LEMMA PathOfTwo ==
  ASSUME NEW m \in Name, NEW n \in Name
  PROVE  /\ <<m, n>> \in Path /\ Len(<<m, n>>) = 2 /\ <<m, n>>[1] = m /\ <<m, n>>[2] = n
         /\ <<m, n>> # <<>> /\ Last(<<m, n>>) = n /\ Within(<<m>>, <<m, n>>)
<1>1. <<m, n>> \in Path /\ Len(<<m, n>>) = 2 /\ <<m, n>>[1] = m /\ <<m, n>>[2] = n
  BY DEF Path
<1>2. <<m, n>> # <<>> /\ Last(<<m, n>>) = n
  BY <1>1, OneLess, WithinOrder
<1>3. Within(<<m>>, <<m, n>>)
  BY <1>1, PathOfOne, WithinIs
<1> QED
  BY <1>1, <1>2, <1>3

\* The paths that are made of them.
LEMMA BuiltinPaths ==
  ASSUME ParserInv
  PROVE  /\ \A p \in {DURATION, EVENT} :
              p \in Path /\ p # <<>> /\ Len(p) = 1 /\ Len(Words[p[1]]) = 1
         /\ \A p \in {TOTAL_MS, TIMESTAMP, ID} :
              /\ p \in Path /\ p # <<>> /\ Len(p) = 2
              /\ Len(Words[p[1]]) = 1 /\ Len(Words[p[2]]) = 1
         /\ Within(DURATION, TOTAL_MS) /\ Within(EVENT, TIMESTAMP) /\ Within(EVENT, ID)
         /\ TOTAL_MS[1] = DURATION[1] /\ TIMESTAMP[1] = EVENT[1] /\ ID[1] = EVENT[1]
         /\ DURATION[1] = Builtin("Duration") /\ EVENT[1] = Builtin("Event")
         /\ TIMESTAMP[2] = Builtin("Event.Timestamp") /\ ID[2] = Builtin("Event.Id")
         /\ Last(EVENT) = EVENT[1] /\ Last(TIMESTAMP) = TIMESTAMP[2] /\ Last(ID) = ID[2]
         /\ Last(DURATION) = DURATION[1] /\ Last(TOTAL_MS) = TOTAL_MS[2]
<1> DEFINE a == Builtin("Duration")
           b == Builtin("Duration.TotalMs")
           e == Builtin("Event")
           i == Builtin("Event.Id")
           s == Builtin("Event.Timestamp")
<1>1. /\ a \in Name /\ b \in Name /\ e \in Name /\ i \in Name /\ s \in Name
      /\ Len(Words[a]) = 1 /\ Len(Words[b]) = 1 /\ Len(Words[e]) = 1 /\ Len(Words[i]) = 1
      /\ Len(Words[s]) = 1
  BY BuiltinTypes
<1>2. /\ DURATION = <<a>> /\ TOTAL_MS = <<a, b>> /\ EVENT = <<e>> /\ ID = <<e, i>>
      /\ TIMESTAMP = <<e, s>>
  BY DEF DURATION, TOTAL_MS, EVENT, ID, TIMESTAMP
<1> HIDE DEF a, b, e, i, s
<1>3. /\ <<a>> \in Path /\ Len(<<a>>) = 1 /\ <<a>>[1] = a /\ <<a>> # <<>> /\ Last(<<a>>) = a
      /\ <<e>> \in Path /\ Len(<<e>>) = 1 /\ <<e>>[1] = e /\ <<e>> # <<>> /\ Last(<<e>>) = e
  BY <1>1, PathOfOne
<1>4. /\ <<a, b>> \in Path /\ Len(<<a, b>>) = 2 /\ <<a, b>>[1] = a /\ <<a, b>>[2] = b
      /\ <<a, b>> # <<>> /\ Last(<<a, b>>) = b /\ Within(<<a>>, <<a, b>>)
  BY <1>1, PathOfTwo
<1>5. /\ <<e, i>> \in Path /\ Len(<<e, i>>) = 2 /\ <<e, i>>[1] = e /\ <<e, i>>[2] = i
      /\ <<e, i>> # <<>> /\ Last(<<e, i>>) = i /\ Within(<<e>>, <<e, i>>)
  BY <1>1, PathOfTwo
<1>6. /\ <<e, s>> \in Path /\ Len(<<e, s>>) = 2 /\ <<e, s>>[1] = e /\ <<e, s>>[2] = s
      /\ <<e, s>> # <<>> /\ Last(<<e, s>>) = s /\ Within(<<e>>, <<e, s>>)
  BY <1>1, PathOfTwo
<1>7. \A p \in {DURATION, EVENT} :
            p \in Path /\ p # <<>> /\ Len(p) = 1 /\ Len(Words[p[1]]) = 1
  BY <1>1, <1>2, <1>3
<1>8. \A p \in {TOTAL_MS, TIMESTAMP, ID} :
            /\ p \in Path /\ p # <<>> /\ Len(p) = 2
            /\ Len(Words[p[1]]) = 1 /\ Len(Words[p[2]]) = 1
  BY <1>1, <1>2, <1>4, <1>5, <1>6
<1>9. /\ DURATION[1] = a /\ EVENT[1] = e /\ TIMESTAMP[2] = s /\ ID[2] = i
      /\ Within(DURATION, TOTAL_MS) /\ Within(EVENT, TIMESTAMP) /\ Within(EVENT, ID)
      /\ TOTAL_MS[1] = DURATION[1] /\ TIMESTAMP[1] = EVENT[1] /\ ID[1] = EVENT[1]
      /\ Last(EVENT) = EVENT[1] /\ Last(TIMESTAMP) = TIMESTAMP[2] /\ Last(ID) = ID[2]
      /\ Last(DURATION) = DURATION[1] /\ Last(TOTAL_MS) = TOTAL_MS[2]
  BY <1>2, <1>3, <1>4, <1>5, <1>6
<1> QED
  BY <1>7, <1>8, <1>9 DEF a, e, i, s

\* The markers are the marked entries.
LEMMA MarkersIs ==
  ASSUME ParserInv
  PROVE  /\ Markers \subseteq Declared
         /\ Markers # {} <=> Duration \in {e.value : e \in Range(entries)}
         /\ PathsOf(entries) = Declared
<1>1. \A p : p \in Declared <=> \E e \in Range(entries) : e.path = p
  BY HoldsIs
<1>2. PathsOf(entries) = Declared
  BY <1>1 DEF PathsOf
<1>3. \A p : Holds(p, Duration) <=> \E e \in Range(entries) : e.path = p /\ e.value = Duration
  BY HoldsIs
<1> QED
  BY <1>1, <1>2, <1>3 DEF Markers

\* What the first walk collects.
Walked(c) ==
  /\ c \in Schema /\ c.ok = TRUE /\ Unique(c) /\ Range(c.paths) \subseteq Declared
  /\ \A p \in Declared : Known(c, p)
  /\ Range(c.defaults) \subseteq DefaultEntries
  /\ IF Markers = {} THEN c.has_duration_marker = FALSE
     ELSE c.has_duration_marker = TRUE /\ c.duration_segments \in Markers

\* The walk begins with nothing.
LEMMA GenContextIs ==
  /\ GenContext \in Schema /\ GenContext.ok = TRUE /\ GenContext.has_duration_marker = FALSE
  /\ Range(GenContext.paths) = {} /\ Range(GenContext.defaults) = {}
  /\ Unique(GenContext)
<1>1. /\ <<>> \in Seq(Name) /\ <<>> \in Seq(Path) /\ <<>> \in Seq(Entry) /\ <<>> \in Path
  BY DEF Path
<1>2. /\ GenContext \in Schema /\ GenContext.ok = TRUE /\ GenContext.has_duration_marker = FALSE
      /\ GenContext.paths = <<>> /\ GenContext.defaults = <<>>
  BY <1>1 DEF GenContext, Schema
<1>3. Range(<<>>) = {}
  BY DEF Range
<1> QED
  BY <1>2, <1>3 DEF Unique

\* So the first walk declares the text, and notes its defaults and a marker.
LEMMA FirstWalk ==
  ASSUME ParserInv
  PROVE  Walked(walk(GenContext, entries))
<1> DEFINE c == walk(GenContext, entries)
<1>1. entries \in Seq(Entry) /\ Range(entries) \subseteq Range(entries)
  BY DEF ParserInv, ParserTypes
<1>2. WalkInv(GenContext, entries, c)
  BY <1>1, GenContextIs, WalkGrows
<1> HIDE DEF c
<1>3. /\ Grows(GenContext, c, Declared, Markers)
      /\ \A e \in Range(entries) : Known(c, e.path)
      /\ Markers # {} => c.has_duration_marker = TRUE
  BY <1>2, MarkersIs DEF WalkInv
<1>4. \A p \in Declared : Known(c, p)
  BY <1>3, HoldsIs
<1>5. IF Markers = {} THEN c.has_duration_marker = FALSE
      ELSE c.has_duration_marker = TRUE /\ c.duration_segments \in Markers
  BY <1>3, GenContextIs DEF Grows
<1>6. /\ c \in Schema /\ c.ok = TRUE /\ Unique(c) /\ Range(c.paths) \subseteq Declared
      /\ Range(c.defaults) \subseteq DefaultEntries
  BY <1>3, GenContextIs DEF Grows
<1> QED
  BY <1>4, <1>5, <1>6 DEF Walked, c

-------------------------------------------------------------------------------
(* The duration.                                                           *)

\* The paths of the duration object's children.
Branches == {p \in Declared : Within(DURATION, p) /\ Len(p) = 2}

\* The entries at, inside of and below a path.
LEMMA AtIs ==
  ASSUME ParserInv, NEW p \in Path
  PROVE  /\ At(p) \in SUBSET (1..Len(entries))
         /\ Subtree(p) \in Seq(Entry) /\ Range(Subtree(p)) \subseteq Range(entries)
         /\ Inside(p) \in Seq(Entry) /\ Range(Inside(p)) \subseteq Range(entries)
         /\ Children(p) \in Seq(Entry) /\ Range(Children(p)) \subseteq Range(entries)
         /\ Len(Children(p)) \in Nat
         /\ PathsOf(Subtree(p)) \subseteq Declared /\ PathsOf(Inside(p)) \subseteq Declared
         /\ Subtree(p) # <<>> => \E e \in Range(entries) : Within(p, e.path)
<1>1. At(p) \in SUBSET (1..Len(entries))
  BY DEF At
<1>2. /\ Subtree(p) \in Seq(Entry) /\ Range(Subtree(p)) \subseteq Range(entries)
      /\ Subtree(p) # <<>> => At(p) # {}
  BY <1>1, NodesIs DEF Subtree
<1>3. Inside(p) \in Seq(Entry) /\ Range(Inside(p)) \subseteq Range(entries)
  <2>1. {i \in At(p) : entries[i].path # p} \in SUBSET (1..Len(entries))
    BY <1>1
  <2> QED
    BY <2>1, NodesIs DEF Inside
<1>4. /\ Children(p) \in Seq(Entry) /\ Range(Children(p)) \subseteq Range(entries)
      /\ Len(Children(p)) \in Nat
  <2>1. {i \in At(p) : Len(entries[i].path) = Len(p) + 1} \in SUBSET (1..Len(entries))
    BY <1>1
  <2> QED
    BY <2>1, NodesIs DEF Children
<1>5. \A e \in Range(entries) : e.path \in Declared
  BY EntryIs
<1>6. At(p) # {} => \E e \in Range(entries) : Within(p, e.path)
  <2>1. entries \in Seq(Entry)
    BY DEF ParserInv, ParserTypes
  <2>2. \A i \in 1..Len(entries) : entries[i] \in Range(entries)
    BY <2>1, RangeOf
  <2> QED
    BY <2>2 DEF At
<1> QED
  BY <1>1, <1>2, <1>3, <1>4, <1>5, <1>6 DEF PathsOf

\* The children, by their paths.
LEMMA ChildrenAre ==
  ASSUME ParserInv
  PROVE  /\ PathsOf(Children(DURATION)) = Branches
         /\ Children(DURATION) = <<>> <=> Branches = {}
         /\ Len(Children(DURATION)) = 1 => /\ Children(DURATION)[1].path \in Branches
                                          /\ Branches = {Children(DURATION)[1].path}
<1> DEFINE S == {i \in At(DURATION) : Len(entries[i].path) = Len(DURATION) + 1}
           nodes == Children(DURATION)
<1>1. DURATION \in Path /\ Len(DURATION) = 1
  BY BuiltinPaths
<1>2. S \in SUBSET (1..Len(entries))
  BY DEF At
<1>3. /\ nodes \in Seq(Entry) /\ Range(nodes) = {entries[i] : i \in S}
      /\ nodes = <<>> <=> S = {}
  BY <1>2, NodesIs DEF Children
<1>4. S = {i \in 1..Len(entries) : Within(DURATION, entries[i].path) /\ Len(entries[i].path) = 2}
  BY <1>1 DEF At
<1> HIDE DEF S, nodes
<1>5. {entries[i].path : i \in S} = Branches
  BY <1>4 DEF Branches, Declared
<1>6. PathsOf(nodes) = Branches
  BY <1>3, <1>5 DEF PathsOf
<1>7. nodes = <<>> <=> Branches = {}
  BY <1>3, <1>5
<1>8. ASSUME Len(nodes) = 1 PROVE Branches = {nodes[1].path}
  <2>1. \A e \in Range(nodes) : e = nodes[1]
    <3>1. \A e \in Range(nodes) : \E i \in 1..Len(nodes) : nodes[i] = e
      BY <1>3, RangeOf
    <3>2. \A i \in 1..Len(nodes) : i = 1
      BY <1>8
    <3> QED
      BY <3>1, <3>2
  <2>2. nodes[1] \in Range(nodes)
    BY <1>3, <1>8, RangeOf
  <2> QED
    BY <1>6, <2>1, <2>2 DEF PathsOf
<1>9. Len(nodes) = 1 => nodes[1].path \in Branches /\ Branches = {nodes[1].path}
  BY <1>8
<1> QED
  BY <1>6, <1>7, <1>9 DEF nodes

\* A duration of its own: two paths, the second of which is the duration.
LEMMA AddDuration ==
  ASSUME ParserInv, NEW c \in Schema, NEW p \in Path, p # <<>>
  PROVE  LET d == add_duration_subtree(c, p) IN
         /\ Grows(c, d, {DURATION, p}, {p}) /\ Known(d, p) /\ Known(d, DURATION)
         /\ d.has_duration_marker = TRUE /\ d.duration_segments = p
<1> DEFINE a == declare(c, DURATION)
           b == declare(a, p)
           d == set_duration(b, p)
<1>1. DURATION \in Path /\ DURATION # <<>>
  BY BuiltinPaths
<1>2. Grows(c, a, {DURATION}, {}) /\ Known(a, DURATION) /\ a \in Schema
  BY <1>1, DeclareGrows DEF Grows
<1> HIDE DEF a
<1>3. Grows(a, b, {p}, {}) /\ Known(b, p) /\ Known(b, DURATION)
  BY <1>2, DeclareGrows, KnownOn
<1> HIDE DEF b
<1>4. Grows(c, b, {DURATION, p}, {})
  <2>1. {DURATION} \subseteq {DURATION, p} /\ {p} \subseteq {DURATION, p}
    OBVIOUS
  <2> QED
    BY <1>2, <1>3, <2>1, GrowsOn
<1>5. /\ Grows(c, d, {DURATION, p}, {p})
      /\ \A q : Known(b, q) => Known(d, q)
      /\ d.has_duration_marker = TRUE /\ d.duration_segments = p
  BY <1>4, DurationGrows
<1> HIDE DEF d
<1>6. d = add_duration_subtree(c, p)
  BY DEF d, b, a, add_duration_subtree
<1> QED
  BY <1>3, <1>5, <1>6

Visits == INSTANCE FoldLemmas WITH Op <- visit_child

\* The conversion goes from child to child.
LEMMA VisitsAre == \A c : convert_total_ms(c) = Visits!Fold(c, Children(DURATION))
  BY DEF convert_total_ms, Visits!Fold, Visits!FoldLeft, Visits!MapThenFoldSet, FoldLeft,
         MapThenFoldSet, Visits!Max, Max

\* total_ms becomes the duration; any other child is walked again.
LEMMA VisitChildGrows ==
  ASSUME ParserInv, Markers = {}, NEW c \in Schema, NEW e \in Range(entries)
  PROVE  /\ Grows(c, visit_child(c, e), Declared, {TOTAL_MS})
         /\ e.path = TOTAL_MS => /\ visit_child(c, e).has_duration_marker = TRUE
                                 /\ visit_child(c, e).duration_segments = TOTAL_MS
<1>1. e.path \in Path /\ e.path # <<>> /\ e.path \in Declared
  BY EntryIs
<1>2. CASE e.path = TOTAL_MS
  <2> DEFINE d == declare(c, e.path)
             f == set_duration(d, e.path)
  <2>1. Grows(c, d, {e.path}, {})
    BY <1>1, DeclareGrows
  <2> HIDE DEF d
  <2>2. /\ Grows(c, f, {e.path}, {e.path})
        /\ f.has_duration_marker = TRUE /\ f.duration_segments = e.path
    BY <1>1, <2>1, DurationGrows
  <2>3. visit_child(c, e) = f
    BY <1>2 DEF visit_child, d
  <2> HIDE DEF f
  <2>4. Grows(c, f, Declared, {TOTAL_MS})
    BY <1>1, <1>2, <2>2 DEF Grows
  <2> QED
    BY <1>2, <2>2, <2>3, <2>4
<1>3. CASE e.path # TOTAL_MS
  <2> DEFINE nodes == Subtree(e.path)
             f == walk(c, nodes)
  <2>1. nodes \in Seq(Entry) /\ Range(nodes) \subseteq Range(entries) /\ PathsOf(nodes) \subseteq Declared
    BY <1>1, AtIs
  <2> HIDE DEF nodes
  <2>2. Grows(c, f, PathsOf(nodes), Markers)
    BY <2>1, WalkGrows DEF WalkInv
  <2>3. visit_child(c, e) = f
    BY <1>3 DEF visit_child, nodes
  <2> HIDE DEF f
  <2>4. Grows(c, f, Declared, {TOTAL_MS})
    BY <2>1, <2>2 DEF Grows
  <2> QED
    BY <1>3, <2>3, <2>4
<1> QED
  BY <1>2, <1>3

\* So total_ms is the duration in the end, wherever it stands.
LEMMA ConvertGrows ==
  ASSUME ParserInv, Markers = {}, NEW c \in Schema, TOTAL_MS \in Branches
  PROVE  /\ Grows(c, convert_total_ms(c), Declared, {TOTAL_MS})
         /\ convert_total_ms(c).has_duration_marker = TRUE
         /\ convert_total_ms(c).duration_segments = TOTAL_MS
<1> DEFINE nodes == Children(DURATION)
           len == Len(nodes)
           IsTotal(d) == d.has_duration_marker = TRUE /\ d.duration_segments = TOTAL_MS
           A == [k \in 0..len |->
                   {d \in Schema : /\ Grows(c, d, Declared, {TOTAL_MS})
                                   /\ \A i \in 1..k : nodes[i].path = TOTAL_MS => IsTotal(d)}]
<1>0. nodes \in Seq(Entry) /\ Range(nodes) \subseteq Range(entries) /\ len \in Nat
  BY BuiltinPaths, AtIs
<1>1. /\ DOMAIN nodes = 1..len
      /\ \A i \in 1..len : nodes[i] \in Range(nodes)
      /\ \A e \in Range(nodes) : \E i \in 1..len : nodes[i] = e
  BY <1>0, RangeOf
<1>2. \E i \in 1..len : nodes[i].path = TOTAL_MS
  <2>1. PICK e \in Range(nodes) : e.path = TOTAL_MS
    BY ChildrenAre DEF PathsOf
  <2> QED
    BY <1>1, <2>1
<1> HIDE DEF nodes
<1>3. c \in A[0]
  BY <1>0, GrowsNot
<1>4. ASSUME NEW k \in 1..len, NEW a \in A[k - 1]
      PROVE  visit_child(a, nodes[k]) \in A[k]
  <2> DEFINE e == nodes[k]
             d == visit_child(a, e)
  <2>1. k - 1 \in 0..len /\ k \in 0..len
    BY <1>0
  <2>2. /\ a \in Schema /\ Grows(c, a, Declared, {TOTAL_MS})
        /\ \A i \in 1..k - 1 : nodes[i].path = TOTAL_MS => IsTotal(a)
    BY <2>1
  <2>3. e \in Range(entries)
    BY <1>0, <1>1
  <2>4. Grows(a, d, Declared, {TOTAL_MS}) /\ (e.path = TOTAL_MS => IsTotal(d))
    BY <2>2, <2>3, VisitChildGrows
  <2> HIDE DEF d
  <2>5. Grows(c, d, Declared, {TOTAL_MS}) /\ d \in Schema
    BY <2>2, <2>4, GrowsOn DEF Grows
  <2>6. IsTotal(a) => IsTotal(d)
    BY <2>4 DEF Grows
  <2>7. ASSUME NEW i \in 1..k, nodes[i].path = TOTAL_MS PROVE IsTotal(d)
    <3>1. i = k \/ i \in 1..k - 1
      OBVIOUS
    <3> QED
      BY <2>2, <2>4, <2>6, <2>7, <3>1
  <2>8. d \in A[k]
    BY <2>1, <2>5, <2>7
  <2> QED
    BY <2>8 DEF d
<1>5. Visits!Fold(c, nodes) \in A[len]
  <2> HIDE DEF A, len
  <2> QED
    BY <1>0, <1>1, <1>3, <1>4, Visits!FoldKeeps
<1>6. convert_total_ms(c) \in A[len]
  BY <1>5, VisitsAre DEF nodes
<1> QED
  BY <1>0, <1>2, <1>6

\* A path inside of the duration makes it an object with a child.
LEMMA BranchOf ==
  ASSUME ParserInv, NEW p \in Declared, Within(DURATION, p), p # DURATION
  PROVE  Holds(DURATION, Object) /\ Branches # {}
<1>1. PICK e \in Range(entries) : e.path = p
  BY HoldsIs
<1>2. p \in Path /\ p # <<>>
  BY <1>1, EntryIs
<1>3. DURATION \in Path /\ DURATION # <<>> /\ Len(DURATION) = 1
  BY BuiltinPaths
<1>4. Holds(DURATION, Object)
  BY <1>1, <1>3, Enclosing
<1>5. Len(p) >= 2 /\ Len(p) \in Nat
  <2>1. Len(DURATION) <= Len(p) /\ Len(DURATION) # Len(p) /\ Len(p) \in Nat
    BY <1>2, <1>3, WithinOrder
  <2> DEFINE n == Len(p)
  <2>2. n \in Nat /\ 1 <= n /\ n # 1
    BY <1>3, <2>1
  <2> HIDE DEF n
  <2>3. n >= 2
    BY <2>2
  <2> QED
    BY <2>1, <2>3 DEF n
<1> DEFINE q == SubSeq(p, 1, 2)
<1>6. q \in Path /\ Len(q) = 2 /\ \A i \in 1..2 : q[i] = p[i]
  <2>1. p \in Seq(Name) /\ 2 \in 0..Len(p)
    BY <1>2, <1>5 DEF Path
  <2> QED
    BY <2>1, Cut DEF Path
<1> HIDE DEF q
<1>7. Within(q, p) /\ q # <<>>
  <2>1. Len(q) <= Len(p) /\ \A i \in 1..Len(q) : q[i] = p[i]
    BY <1>5, <1>6
  <2>2. Within(q, p)
    BY <1>2, <1>6, <2>1, WithinIs
  <2>3. q # <<>>
    BY <1>6, WithinOrder
  <2> QED
    BY <2>2, <2>3
<1>8. Within(DURATION, q)
  <2>1. Len(DURATION) <= Len(q)
    BY <1>3, <1>6
  <2> QED
    BY <1>2, <1>3, <1>6, <1>7, <2>1, WithinOrder
<1>9. q \in Declared
  BY <1>1, <1>6, <1>7, Enclosing
<1> QED
  BY <1>4, <1>6, <1>8, <1>9 DEF Branches

\* The duration of a text without markers.
Unmarked(p) ==
  /\ p = IF Branches = {} \/ TOTAL_MS \in Branches THEN TOTAL_MS
         ELSE CHOOSE q \in Branches : TRUE
  /\ TOTAL_MS \in Branches \/ Branches = {} \/ \E q : Branches = {q}

DurationAdded(c, d) ==
  /\ Grows(c, d, Declared \cup {DURATION, TOTAL_MS}, Declared \cup {TOTAL_MS})
  /\ d.has_duration_marker = TRUE
  /\ d.duration_segments \in Markers \cup Branches \cup {TOTAL_MS}
  /\ Known(d, d.duration_segments) /\ Known(d, DURATION)
  /\ Markers # {} /\ Proper => d.duration_segments \in Markers
  /\ Markers = {} => Unmarked(d.duration_segments)

\* Where there is none of its own, total_ms becomes the duration.
LEMMA TotalAdded ==
  ASSUME ParserInv, NEW c, Walked(c), Branches = {},
         NEW b, Grows(c, b, {DURATION}, {})
  PROVE  DurationAdded(c, add_duration_subtree(b, TOTAL_MS))
<1> DEFINE d == add_duration_subtree(b, TOTAL_MS)
<1>1. TOTAL_MS \in Path /\ TOTAL_MS # <<>> /\ b \in Schema
  BY BuiltinPaths DEF Grows
<1>2. /\ Grows(b, d, {DURATION, TOTAL_MS}, {TOTAL_MS})
      /\ Known(d, TOTAL_MS) /\ Known(d, DURATION)
      /\ d.has_duration_marker = TRUE /\ d.duration_segments = TOTAL_MS
  BY <1>1, AddDuration
<1> HIDE DEF d
<1>3. Grows(c, d, Declared \cup {DURATION, TOTAL_MS}, Declared \cup {TOTAL_MS})
  <2> DEFINE P == Declared \cup {DURATION, TOTAL_MS}
             Q == Declared \cup {TOTAL_MS}
  <2>1. /\ {DURATION} \subseteq P /\ {DURATION, TOTAL_MS} \subseteq P
        /\ {} \subseteq Q /\ {TOTAL_MS} \subseteq Q
    OBVIOUS
  <2> HIDE DEF P, Q
  <2>2. Grows(c, d, P, Q)
    BY <1>2, <2>1, GrowsOn
  <2> QED
    BY <2>2 DEF P, Q
<1>4. Markers # {} => ~Proper
  BY BranchOf, MarkersIs DEF Proper
<1>5. Unmarked(TOTAL_MS)
  BY DEF Unmarked
<1> QED
  BY <1>2, <1>3, <1>4, <1>5 DEF DurationAdded, d

\* What becomes of a duration object.
LEMMA ResolveDuration ==
  ASSUME ParserInv, NEW c, Walked(c)
  PROVE  LET d == resolve_duration_subtree(c) IN
         DurationAdded(c, d) \/ (d \in Schema /\ d.ok = FALSE)
<1> DEFINE b == declare(c, DURATION)
           nodes == Children(DURATION)
           d == resolve_duration_subtree(c)
           P == Declared \cup {DURATION, TOTAL_MS}
           Q == Declared \cup {TOTAL_MS}
<1>1. DURATION \in Path /\ DURATION # <<>> /\ TOTAL_MS \in Path /\ TOTAL_MS # <<>>
  BY BuiltinPaths
<1>2. Grows(c, b, {DURATION}, {}) /\ Known(b, DURATION) /\ b \in Schema
  BY <1>1, DeclareGrows DEF Walked, Grows
<1>3. /\ b.has_duration_marker = c.has_duration_marker
      /\ b.duration_segments = c.duration_segments
      /\ \A p \in Declared : Known(b, p)
  <2>1. /\ b.has_duration_marker = c.has_duration_marker
        /\ b.duration_segments = c.duration_segments
    BY <1>2 DEF Grows
  <2>2. \A p \in Declared : Known(b, p)
    BY <1>2, KnownOn DEF Walked
  <2> QED
    BY <2>1, <2>2
<1>4. d = IF nodes = <<>> THEN add_duration_subtree(b, TOTAL_MS)
          ELSE IF b.has_duration_marker THEN walk(b, Inside(DURATION))
          ELSE IF \E e \in Range(nodes) : e.path = TOTAL_MS THEN convert_total_ms(b)
          ELSE IF Len(nodes) = 1 THEN add_duration_subtree(b, nodes[1].path)
          ELSE [b EXCEPT !.ok = FALSE]
  BY DEF resolve_duration_subtree
<1>5. /\ nodes = <<>> <=> Branches = {}
      /\ (\E e \in Range(nodes) : e.path = TOTAL_MS) <=> TOTAL_MS \in Branches
      /\ Len(nodes) = 1 => nodes[1].path \in Branches /\ Branches = {nodes[1].path}
  BY ChildrenAre DEF PathsOf
<1>6. /\ {DURATION} \subseteq P /\ Declared \subseteq P
      /\ {} \subseteq Q /\ {TOTAL_MS} \subseteq Q /\ Declared \subseteq Q /\ Markers \subseteq Q
  BY MarkersIs
<1>7. IF Markers = {} THEN b.has_duration_marker = FALSE
      ELSE b.has_duration_marker = TRUE /\ b.duration_segments \in Markers
  BY <1>3 DEF Walked
<1> HIDE DEF b, nodes, d
<1>8. CASE nodes = <<>>
  BY <1>2, <1>4, <1>5, <1>8, TotalAdded DEF d
<1>9. CASE nodes # <<>> /\ Markers # {}
  <2> DEFINE inside == Inside(DURATION)
  <2>1. d = walk(b, inside)
    BY <1>4, <1>7, <1>9
  <2>2. inside \in Seq(Entry) /\ Range(inside) \subseteq Range(entries) /\ PathsOf(inside) \subseteq Declared
    BY <1>1, AtIs
  <2> HIDE DEF inside
  <2>3. Grows(b, d, PathsOf(inside), Markers)
    BY <1>2, <2>1, <2>2, WalkGrows DEF WalkInv
  <2>4. Grows(c, d, P, Q)
    <3> HIDE DEF P, Q
    <3>1. PathsOf(inside) \subseteq P
      BY <1>6, <2>2
    <3> QED
      BY <1>2, <1>6, <2>3, <3>1, GrowsOn
  <2>5. d.has_duration_marker = TRUE /\ d.duration_segments \in Markers
    BY <1>7, <1>9, <2>3 DEF Grows
  <2>6. Known(d, d.duration_segments) /\ Known(d, DURATION)
    BY <1>2, <1>3, <2>3, <2>5, KnownOn, MarkersIs
  <2>7. DurationAdded(c, d)
    BY <1>9, <2>4, <2>5, <2>6 DEF DurationAdded
  <2> QED
    BY <2>7 DEF d
<1>10. CASE nodes # <<>> /\ Markers = {} /\ TOTAL_MS \in Branches
  <2>1. d = convert_total_ms(b)
    BY <1>4, <1>5, <1>7, <1>10
  <2>2. /\ Grows(b, d, Declared, {TOTAL_MS})
        /\ d.has_duration_marker = TRUE /\ d.duration_segments = TOTAL_MS
    BY <1>2, <1>10, <2>1, ConvertGrows
  <2>3. Grows(c, d, P, Q)
    <3> HIDE DEF P, Q
    <3> QED
      BY <1>2, <1>6, <2>2, GrowsOn
  <2>4. Known(d, TOTAL_MS) /\ Known(d, DURATION)
    BY <1>2, <1>3, <1>10, <2>2, KnownOn DEF Branches
  <2>5. Unmarked(TOTAL_MS)
    BY <1>10 DEF Unmarked
  <2>6. DurationAdded(c, d)
    BY <1>10, <2>2, <2>3, <2>4, <2>5 DEF DurationAdded
  <2> QED
    BY <2>6 DEF d
<1>11. CASE nodes # <<>> /\ Markers = {} /\ TOTAL_MS \notin Branches /\ Len(nodes) = 1
  <2> DEFINE p == nodes[1].path
  <2>1. d = add_duration_subtree(b, p)
    BY <1>4, <1>5, <1>7, <1>11
  <2>2. p \in Branches /\ Branches = {p}
    BY <1>5, <1>11
  <2>3. p \in Declared /\ p \in Path /\ p # <<>>
    <3>1. p \in Declared
      BY <2>2 DEF Branches
    <3> HIDE DEF p
    <3>2. PICK e \in Range(entries) : e.path = p
      BY <3>1, HoldsIs
    <3> QED
      BY <3>1, <3>2, EntryIs
  <2> HIDE DEF p
  <2>4. /\ Grows(b, d, {DURATION, p}, {p}) /\ Known(d, p) /\ Known(d, DURATION)
        /\ d.has_duration_marker = TRUE /\ d.duration_segments = p
    BY <1>2, <2>1, <2>3, AddDuration
  <2>5. Grows(c, d, P, Q)
    <3>1. {DURATION, p} \subseteq P /\ {p} \subseteq Q
      BY <2>3
    <3> HIDE DEF P, Q
    <3> QED
      BY <1>2, <1>6, <2>4, <3>1, GrowsOn
  <2>6. Unmarked(p)
    <3>1. p = CHOOSE q \in Branches : TRUE
      BY <2>2
    <3> QED
      BY <1>11, <2>2, <3>1 DEF Unmarked
  <2>7. DurationAdded(c, d)
    BY <1>11, <2>2, <2>4, <2>5, <2>6 DEF DurationAdded
  <2> QED
    BY <2>7 DEF d
<1>12. CASE nodes # <<>> /\ Markers = {} /\ TOTAL_MS \notin Branches /\ Len(nodes) # 1
  <2>1. d = [b EXCEPT !.ok = FALSE]
    BY <1>4, <1>5, <1>7, <1>12
  <2>2. d \in Schema /\ d.ok = FALSE
    BY <1>2, <2>1 DEF Schema
  <2> QED
    BY <2>2 DEF d
<1> QED
  BY <1>8, <1>9, <1>10, <1>11, <1>12

\* And of any duration.
LEMMA DurationDone ==
  ASSUME ParserInv, NEW c, Walked(c)
  PROVE  LET d == auto_add_duration(c) IN
         DurationAdded(c, d) \/ (d \in Schema /\ d.ok = FALSE)
<1>1. CASE Holds(DURATION, Object)
  BY <1>1, ResolveDuration DEF auto_add_duration
<1>2. CASE ~Holds(DURATION, Object)
  <2>1. Branches = {}
    <3>1. \A p \in Branches : p \in Declared /\ Within(DURATION, p) /\ p # DURATION
      BY BuiltinPaths DEF Branches
    <3> QED
      BY <1>2, <3>1, BranchOf
  <2>2. c \in Schema
    BY DEF Walked
  <2>3. Grows(c, c, {DURATION}, {})
    BY <2>2, GrowsNot
  <2>4. DurationAdded(c, add_duration_subtree(c, TOTAL_MS))
    BY <2>1, <2>3, TotalAdded
  <2> QED
    BY <1>2, <2>4 DEF auto_add_duration
<1> QED
  BY <1>1, <1>2

-------------------------------------------------------------------------------
(* The event, and what is generated.                                       *)

EventPaths == {EVENT, TIMESTAMP, ID}

\* The event added, before the guard's paths are noted.
Stamped(c, b) ==
  /\ Grows(c, b, Declared \cup EventPaths, Markers)
  /\ \A p \in EventPaths : Known(b, p)

DeclaredKnown(c) == c \in Schema /\ \A p \in Declared : Known(c, p)

\* An event of its own.
LEMMA AddEvent ==
  ASSUME ParserInv, NEW c \in Schema
  PROVE  \E b : Stamped(c, b) /\ add_event_subtree(c) = guard_paths(b)
<1> DEFINE b1 == declare(c, EVENT)
           b2 == declare(b1, TIMESTAMP)
           b3 == declare(b2, ID)
           P == Declared \cup EventPaths
<1>1. \A p \in EventPaths : p \in Path /\ p # <<>> /\ {p} \subseteq P
  BY BuiltinPaths DEF EventPaths
<1>2. EVENT \in EventPaths /\ TIMESTAMP \in EventPaths /\ ID \in EventPaths
  BY DEF EventPaths
<1>3. Grows(c, b1, {EVENT}, {}) /\ Known(b1, EVENT) /\ b1 \in Schema
  BY <1>1, <1>2, DeclareGrows DEF Grows
<1> HIDE DEF b1
<1>4. Grows(b1, b2, {TIMESTAMP}, {}) /\ Known(b2, TIMESTAMP) /\ b2 \in Schema
  BY <1>1, <1>2, <1>3, DeclareGrows DEF Grows
<1> HIDE DEF b2
<1>5. Grows(b2, b3, {ID}, {}) /\ Known(b3, ID)
  BY <1>1, <1>2, <1>4, DeclareGrows
<1> HIDE DEF b3, P
<1>6. Grows(c, b2, P, Markers)
  BY <1>1, <1>2, <1>3, <1>4, GrowsOn
<1>7. Grows(c, b3, P, Markers)
  BY <1>1, <1>2, <1>5, <1>6, GrowsOn
<1>8. Known(b3, EVENT) /\ Known(b3, TIMESTAMP)
  BY <1>3, <1>4, <1>5, KnownOn
<1>9. Stamped(c, b3)
  BY <1>5, <1>7, <1>8 DEF Stamped, EventPaths, P
<1>10. add_event_subtree(c) = guard_paths(b3)
  BY DEF add_event_subtree, b1, b2, b3
<1> QED
  BY <1>9, <1>10

\* timestamp and id are there afterwards, from the text or not.
LEMMA MissingOrWalked ==
  ASSUME ParserInv, NEW c, DeclaredKnown(c), NEW p \in EventPaths
  PROVE  /\ Grows(c, missing_or_walked(c, p), Declared \cup EventPaths, Markers)
         /\ Known(missing_or_walked(c, p), p)
<1> DEFINE d == missing_or_walked(c, p)
           P == Declared \cup EventPaths
<1>1. p \in Path /\ p # <<>> /\ c \in Schema
  BY BuiltinPaths DEF EventPaths, DeclaredKnown
<1>2. CASE Subtree(p) = <<>>
  <2>1. d = declare(c, p)
    BY <1>2 DEF missing_or_walked
  <2> HIDE DEF d
  <2>2. Grows(c, d, {p}, {}) /\ Known(d, p)
    BY <1>1, <2>1, DeclareGrows
  <2>3. Grows(c, d, P, Markers)
    BY <2>2 DEF Grows
  <2> QED
    BY <2>2, <2>3 DEF d
<1>3. CASE Subtree(p) # <<>>
  <2> DEFINE nodes == Subtree(p)
  <2>1. d = walk(c, nodes)
    BY <1>3 DEF missing_or_walked
  <2>2. /\ nodes \in Seq(Entry) /\ Range(nodes) \subseteq Range(entries)
        /\ PathsOf(nodes) \subseteq Declared
        /\ \E e \in Range(entries) : Within(p, e.path)
    BY <1>1, <1>3, AtIs
  <2> HIDE DEF nodes, d
  <2>3. Grows(c, d, PathsOf(nodes), Markers)
    BY <1>1, <2>1, <2>2, WalkGrows DEF WalkInv
  <2>4. Grows(c, d, P, Markers)
    BY <2>2, <2>3 DEF Grows
  <2>5. p \in Declared
    <3>1. PICK e \in Range(entries) : Within(p, e.path)
      BY <2>2
    <3>2. CASE p = e.path
      BY <3>2, EntryIs
    <3>3. CASE p # e.path
      BY <1>1, <3>1, <3>3, Enclosing
    <3> QED
      BY <3>2, <3>3
  <2>6. Known(d, p)
    BY <2>4, <2>5, KnownOn DEF DeclaredKnown
  <2> QED
    BY <2>4, <2>6 DEF d
<1> QED
  BY <1>2, <1>3

\* What is declared stays so.
LEMMA KnownStays ==
  ASSUME NEW c, DeclaredKnown(c), NEW d, NEW P, NEW Q, Grows(c, d, P, Q)
  PROVE  DeclaredKnown(d)
  BY KnownOn DEF DeclaredKnown, Grows

\* What becomes of an event object.
LEMMA ResolveEvent ==
  ASSUME ParserInv, NEW c, DeclaredKnown(c)
  PROVE  \E b : Stamped(c, b) /\ resolve_event_subtree(c) = guard_paths(b)
<1> DEFINE S == At(EVENT) \ (At(TIMESTAMP) \cup At(ID)
                                \cup {i \in At(EVENT) : entries[i].path = EVENT})
           others == Nodes(S)
           b1 == declare(c, EVENT)
           b2 == missing_or_walked(b1, TIMESTAMP)
           b3 == missing_or_walked(b2, ID)
           b4 == walk(b3, others)
           P == Declared \cup EventPaths
<1>1. EVENT \in Path /\ EVENT # <<>> /\ c \in Schema
  BY BuiltinPaths DEF DeclaredKnown
<1>2. /\ EVENT \in EventPaths /\ TIMESTAMP \in EventPaths /\ ID \in EventPaths
      /\ {EVENT} \subseteq P /\ Declared \subseteq P
  BY DEF EventPaths
<1>3. Grows(c, b1, {EVENT}, {}) /\ Known(b1, EVENT)
  BY <1>1, DeclareGrows
<1>4. S \in SUBSET (1..Len(entries))
  BY <1>1, AtIs
<1>5. others \in Seq(Entry) /\ Range(others) \subseteq Range(entries)
  BY <1>4, NodesIs
<1>6. resolve_event_subtree(c) = IF Children(EVENT) = <<>> THEN add_event_subtree(b1)
                                 ELSE guard_paths(b4)
  BY DEF resolve_event_subtree
<1> HIDE DEF b1, others, P, S
<1>7. DeclaredKnown(b1) /\ b1 \in Schema
  BY <1>3, KnownStays DEF Grows
<1>8. CASE Children(EVENT) = <<>>
  <2>1. PICK b : Stamped(b1, b) /\ add_event_subtree(b1) = guard_paths(b)
    BY <1>7, AddEvent
  <2>2. Grows(c, b, P, Markers)
    <3>1. Grows(b1, b, P, Markers)
      BY <2>1 DEF Stamped, P
    <3> QED
      BY <1>2, <1>3, <3>1, GrowsOn
  <2>3. Stamped(c, b)
    BY <2>1, <2>2 DEF Stamped, P
  <2> QED
    BY <1>6, <1>8, <2>1, <2>3
<1>9. CASE Children(EVENT) # <<>>
  <2>1. Grows(b1, b2, P, Markers) /\ Known(b2, TIMESTAMP)
    BY <1>2, <1>7, MissingOrWalked DEF P
  <2> HIDE DEF b2
  <2>2. DeclaredKnown(b2)
    BY <1>7, <2>1, KnownStays
  <2>3. Grows(b2, b3, P, Markers) /\ Known(b3, ID)
    BY <1>2, <2>2, MissingOrWalked DEF P
  <2> HIDE DEF b3
  <2>4. DeclaredKnown(b3) /\ b3 \in Schema
    BY <2>2, <2>3, KnownStays DEF Grows
  <2>5. Grows(b3, b4, PathsOf(others), Markers)
    BY <1>5, <2>4, WalkGrows DEF WalkInv
  <2>6. PathsOf(others) \subseteq P
    BY <1>2, <1>5, EntryIs DEF PathsOf
  <2> HIDE DEF b4
  <2>7. Grows(c, b2, P, Markers)
    BY <1>2, <1>3, <2>1, GrowsOn
  <2>8. Grows(c, b3, P, Markers)
    BY <2>3, <2>7, GrowsOn
  <2>9. Grows(c, b4, P, Markers)
    BY <2>5, <2>6, <2>8, GrowsOn
  <2>10. Known(b4, EVENT) /\ Known(b4, TIMESTAMP) /\ Known(b4, ID)
    BY <1>3, <2>1, <2>3, <2>5, KnownOn
  <2>11. Stamped(c, b4)
    BY <2>9, <2>10 DEF Stamped, P, EventPaths
  <2> QED
    BY <1>6, <1>9, <2>11
<1> QED
  BY <1>8, <1>9

\* And of any event.
LEMMA EventDone ==
  ASSUME ParserInv, NEW c, DeclaredKnown(c)
  PROVE  LET d == auto_add_event(c) IN
         \/ \E b : Stamped(c, b) /\ d = guard_paths(b)
         \/ d \in Schema /\ d.ok = FALSE
<1>1. c \in Schema
  BY DEF DeclaredKnown
<1>2. [c EXCEPT !.ok = FALSE] \in Schema /\ [c EXCEPT !.ok = FALSE].ok = FALSE
  BY <1>1 DEF Schema
<1> QED
  BY <1>1, <1>2, AddEvent, ResolveEvent DEF auto_add_event

\* Noting the guard's paths changes nothing else.
LEMMA GuardPathsSet ==
  ASSUME ParserInv, NEW c \in Schema
  PROVE  LET d == guard_paths(c) IN
         /\ d \in Schema /\ d.keys = c.keys /\ d.paths = c.paths /\ d.defaults = c.defaults
         /\ d.duration_segments = c.duration_segments
         /\ d.has_duration_marker = c.has_duration_marker
         /\ d.timestamp_segments = TIMESTAMP /\ d.id_segments = ID /\ d.ok = c.ok
<1>1. TIMESTAMP \in Path /\ ID \in Path
  BY BuiltinPaths
<1> HIDE DEF TIMESTAMP, ID
<1> QED
  BY <1>1 DEF Schema, guard_paths

\* What is generated.
LEMMA GeneratedIs ==
  ASSUME ParserInv
  PROVE  /\ Generated \in Schema
         /\ Generated.ok => \E c, d, b : /\ Walked(c) /\ DurationAdded(c, d) /\ Stamped(d, b)
                                         /\ Generated = guard_paths(b)
<1> DEFINE c == walk(GenContext, entries)
           d == auto_add_duration(c)
<1>1. Walked(c)
  BY FirstWalk
<1>2. Generated = IF d.ok THEN auto_add_event(d) ELSE d
  BY DEF Generated
<1> HIDE DEF c
<1>3. DurationAdded(c, d) \/ (d \in Schema /\ d.ok = FALSE)
  BY <1>1, DurationDone
<1> HIDE DEF d
<1>4. CASE DurationAdded(c, d)
  <2>1. Grows(c, d, Declared \cup {DURATION, TOTAL_MS}, Declared \cup {TOTAL_MS})
    BY <1>4 DEF DurationAdded
  <2>2. d.ok = TRUE
    BY <1>1, <2>1 DEF Walked, Grows
  <2>3. DeclaredKnown(d)
    BY <1>1, <2>1, KnownStays DEF Walked, DeclaredKnown
  <2>4. CASE \E b : Stamped(d, b) /\ auto_add_event(d) = guard_paths(b)
    <3>1. PICK b : Stamped(d, b) /\ Generated = guard_paths(b)
      BY <1>2, <2>2, <2>4
    <3>2. b \in Schema
      BY <3>1 DEF Stamped, Grows
    <3>3. Generated \in Schema
      BY <3>1, <3>2, GuardPathsSet
    <3> QED
      BY <1>1, <1>4, <3>1, <3>3
  <2>5. CASE auto_add_event(d) \in Schema /\ auto_add_event(d).ok = FALSE
    BY <1>2, <2>2, <2>5
  <2> QED
    BY <2>3, <2>4, <2>5, EventDone
<1>5. CASE d \in Schema /\ d.ok = FALSE
  BY <1>2, <1>5
<1> QED
  BY <1>3, <1>4, <1>5

-------------------------------------------------------------------------------
(* The invariant of the macro.                                             *)

\* What is generated is made of the text that was read.
SchemaInv ==
  /\ ParserInv
  /\ expect \in {"compiled", "refused"} <=> schema # None
  /\ schema # None => schema = Generated
  /\ Compiled => Generated.ok

\* The compiler leaves the text as it is.
LEMMA GenerateStep ==
  ASSUME SchemaInv, generate
  PROVE  SchemaInv'
<1>1. /\ expect' \in {"compiled", "refused"} /\ schema' = Generated
      /\ expect' = "compiled" => Generated.ok
      /\ overrides' = overrides /\ entries' = entries /\ stack' = stack /\ at' = at
  BY DEF generate
<1>2. ParserInv
  BY DEF SchemaInv
<1>3. Generated' = Generated
  BY <1>1, SameGenerated DEF SameText
<1>4. Generated # None
  BY <1>2, GeneratedIs, CompilerAssumption
<1>5. ParserInv'
  <2>1. ParserTypes /\ Ordered(entries) /\ Apart(entries) /\ Nest(stack) /\ GroupsOpen
    BY <1>2 DEF ParserInv
  <2>2. ParserTypes'
    BY <1>1, <2>1 DEF ParserTypes, Ended
  <2>3. /\ Ordered(entries)' /\ Apart(entries)' /\ Nest(stack)' /\ GroupsOpen'
    BY <1>1, <2>1 DEF Ordered, Apart, Nest, GroupsOpen
  <2>4. Place'
    BY <1>1 DEF Place
  <2> QED
    BY <2>2, <2>3, <2>4 DEF ParserInv
<1> HIDE DEF Generated
<1>6. (Compiled => Generated.ok)'
  BY <1>1, <1>3 DEF Compiled
<1> QED
  BY <1>1, <1>3, <1>4, <1>5, <1>6 DEF SchemaInv

\* The parser moves only while it reads.
LEMMA ParseReads ==
  ASSUME Parse, expect \in Reading \cup Ended
  PROVE  expect \in Reading /\ expect' \in Reading \cup {"parsed", "rejected"}
<1>1. CASE parse_overrides \/ begin_value \/ parse_parenthesized \/ next_entry
  BY <1>1 DEF parse_overrides, begin_value, parse_parenthesized, next_entry, Reading
<1>2. CASE parse_object \/ end_group \/ end_input
  BY <1>2 DEF parse_object, end_group, end_input, Reading
<1>3. CASE reject
  BY <1>3 DEF reject, Reading, Ended
<1>4. CASE \E s \in Slot, n \in Name : parse_override(s, n)
  BY <1>4 DEF parse_override, Reading
<1>5. CASE \E k \in Spelling : parse_key(k)
  BY <1>5 DEF parse_key, Reading
<1>6. CASE \E t \in Token : parse_scalar(t)
  BY <1>6 DEF parse_scalar, Reading
<1> QED
  BY <1>1, <1>2, <1>3, <1>4, <1>5, <1>6 DEF Parse

\* So nothing is generated while it reads.
LEMMA ReadStep ==
  ASSUME SchemaInv, Parse, UNCHANGED schema
  PROVE  SchemaInv'
<1>1. ParserInv
  BY DEF SchemaInv
<1>2. expect \in Reading /\ expect' \in Reading \cup {"parsed", "rejected"}
  BY <1>1, ParseReads DEF ParserInv, ParserTypes
<1>3. schema = None
  BY <1>2 DEF SchemaInv, Reading
<1>4. ParserInv'
  BY <1>1, ParseStep
<1>5. expect' \notin {"compiled", "refused"}
  BY <1>2 DEF Reading
<1> QED
  BY <1>3, <1>4, <1>5 DEF SchemaInv, Compiled

\* Nothing changes when nothing happens.
LEMMA SchemaStays == SchemaInv /\ UNCHANGED vars => SchemaInv'
<1> SUFFICES ASSUME SchemaInv, UNCHANGED vars PROVE SchemaInv'
  OBVIOUS
<1>1. /\ expect' = expect /\ overrides' = overrides /\ entries' = entries /\ stack' = stack
      /\ at' = at /\ schema' = schema
  BY DEF vars
<1>2. ParserInv'
  BY <1>1 DEF SchemaInv, ParserInv, ParserTypes, Ordered, Apart, Nest, GroupsOpen, Place, Open
<1>3. Generated' = Generated
  BY <1>1, SameGenerated DEF SameText
<1> QED
  BY <1>1, <1>2, <1>3 DEF SchemaInv, Compiled

\* It holds: a step of the parser keeps the parser's part, and generate keeps the
\* text and notes what it makes.
THEOREM SchemaInvHolds == Spec => []SchemaInv
<1>1. SchemaInit => SchemaInv
  BY ParserInit DEF SchemaInit, SchemaInv, Compiled, Init
<1>2. SchemaInv /\ [Next]_vars => SchemaInv'
  BY GenerateStep, ReadStep, SchemaStays DEF Next
<1> QED
  BY <1>1, <1>2, PTL DEF Spec
-------------------------------------------------------------------------------

\* Whatever the text, the object is kept in its order with all that encloses an
\* entry before it (parse_object), and what is generated is a schema.
THEOREM SchemaTypes == Spec => []TypeOK
<1>1. SchemaInv => TypeOK
  <2> SUFFICES ASSUME SchemaInv PROVE TypeOK
    OBVIOUS
  <2>1. ParserInv
    BY DEF SchemaInv
  <2>2. schema \in Schema \cup {None}
    BY <2>1, GeneratedIs DEF SchemaInv
  <2>3. InTextOrder
    BY <2>1 DEF ParserInv, InTextOrder, Ordered
  <2> QED
    BY <2>1, <2>2, <2>3 DEF SchemaInv, ParserInv, ParserTypes, TypeOK, Group
<1> QED
  BY <1>1, SchemaInvHolds, PTL

\* Whatever the widths of the integers, a number is taken as it is written or
\* refused (parse_literal_str).
THEOREM NumbersHold == Spec => []NumbersAsWritten
<1>1. NumbersAsWritten
  BY NumberAsWritten DEF NumbersAsWritten
<1> QED
  BY <1>1, PTL

\* What a compiled schema has of the text.
LEMMA CompiledIs ==
  ASSUME SchemaInv, Compiled
  PROVE  \E c, d, b : /\ Walked(c) /\ DurationAdded(c, d) /\ Stamped(d, b)
                      /\ schema = guard_paths(b)
<1>1. schema = Generated /\ Generated.ok /\ ParserInv
  BY DEF SchemaInv, Compiled
<1> QED
  BY <1>1, GeneratedIs

\* Its defaults and the guard's paths.
LEMMA CompiledFacts ==
  ASSUME SchemaInv, NEW c, NEW d, NEW b,
         Walked(c), DurationAdded(c, d), Stamped(d, b), schema = guard_paths(b)
  PROVE  /\ schema.timestamp_segments = TIMESTAMP /\ schema.id_segments = ID
         /\ schema.keys = b.keys /\ schema.paths = b.paths
         /\ schema.defaults = b.defaults
         /\ Range(schema.defaults) \subseteq DefaultEntries
         /\ schema.duration_segments = b.duration_segments
         /\ schema.duration_segments \in Markers \cup {d.duration_segments}
         /\ schema.duration_segments \in Markers \cup Branches \cup {TOTAL_MS}
         /\ Markers # {} /\ Proper => schema.duration_segments \in Markers
         /\ Markers = {} => Unmarked(schema.duration_segments)
<1>1. ParserInv
  BY DEF SchemaInv
<1>2. Grows(d, b, Declared \cup EventPaths, Markers)
  BY DEF Stamped
<1>3. /\ schema.keys = b.keys /\ schema.paths = b.paths /\ schema.defaults = b.defaults
      /\ schema.duration_segments = b.duration_segments
      /\ schema.timestamp_segments = TIMESTAMP /\ schema.id_segments = ID
  BY <1>1, <1>2, GuardPathsSet DEF Grows
<1>4. schema.duration_segments \in Markers \cup {d.duration_segments}
  BY <1>2, <1>3 DEF Grows
<1>5. Range(schema.defaults) \subseteq DefaultEntries
  <2>1. Range(b.defaults) \subseteq Range(d.defaults) \cup DefaultEntries
    BY <1>2 DEF Grows
  <2>2. Range(d.defaults) \subseteq Range(c.defaults) \cup DefaultEntries
    BY DEF DurationAdded, Grows
  <2> QED
    BY <1>3, <2>1, <2>2 DEF Walked
<1>6. /\ d.duration_segments \in Markers \cup Branches \cup {TOTAL_MS}
      /\ Markers # {} /\ Proper => d.duration_segments \in Markers
      /\ Markers = {} => Unmarked(d.duration_segments)
  BY DEF DurationAdded
<1> QED
  BY <1>3, <1>4, <1>5, <1>6

\* However often the compiler walks the text, its defaults can be set in any order:
\* none is at, above or inside of another (GenContext::walk and the second walks).
THEOREM DefaultsHold == Spec => []DefaultsIndependent
<1>1. SchemaInv => DefaultsIndependent
  <2> SUFFICES ASSUME SchemaInv, Compiled,
                      NEW p \in Range(schema.defaults), NEW q \in Range(schema.defaults),
                      Related(p.path, q.path)
               PROVE  p = q
    BY DEF DefaultsIndependent
  <2>1. ParserInv
    BY DEF SchemaInv
  <2>2. PICK c, d, b : /\ Walked(c) /\ DurationAdded(c, d) /\ Stamped(d, b)
                       /\ schema = guard_paths(b)
    BY CompiledIs
  <2>3. Range(schema.defaults) \subseteq DefaultEntries
    BY <2>2, CompiledFacts
  <2> QED
    BY <2>1, <2>3, DefaultsApart
<1> QED
  BY <1>1, SchemaInvHolds, PTL

\* With at most one marker, in the duration object, that leaf is the duration;
\* without one total_ms is, where it is or nothing is; several unmarked leaves are
\* refused (README.md, lines 444-459).
THEOREM DurationHolds == Spec => []DurationLeaf
<1>1. ASSUME SchemaInv, schema # None, Proper
      PROVE  /\ Compiled /\ Markers # {} => schema.duration_segments \in Markers
             /\ Compiled /\ Markers = {} /\ (Branches = {} \/ TOTAL_MS \in Branches) =>
                  schema.duration_segments = TOTAL_MS
             /\ Markers = {} /\ TOTAL_MS \notin Branches /\ Cardinality(Branches) > 1 =>
                  ~Compiled
  <2> SUFFICES ASSUME Compiled
               PROVE  /\ Markers # {} => schema.duration_segments \in Markers
                      /\ Markers = {} =>
                           /\ Branches = {} \/ TOTAL_MS \in Branches =>
                                schema.duration_segments = TOTAL_MS
                           /\ TOTAL_MS \in Branches \/ ~(Cardinality(Branches) > 1)
    OBVIOUS
  <2>1. PICK c, d, b : /\ Walked(c) /\ DurationAdded(c, d) /\ Stamped(d, b)
                       /\ schema = guard_paths(b)
    BY <1>1, CompiledIs
  <2>2. /\ Markers # {} => schema.duration_segments \in Markers
        /\ Markers = {} => Unmarked(schema.duration_segments)
    BY <1>1, <2>1, CompiledFacts
  <2>3. (Branches = {} \/ \E q : Branches = {q}) => ~(Cardinality(Branches) > 1)
    <3>1. CASE Branches = {}
      <4>1. Cardinality(Branches) = 0
        BY <3>1, FS_EmptySet
      <4> QED
        BY <4>1
    <3>2. CASE \E q : Branches = {q}
      <4>1. Cardinality(Branches) = 1
        BY <3>2, FS_Singleton
      <4> QED
        BY <4>1
    <3> QED
      BY <3>1, <3>2
  <2> HIDE DEF Branches
  <2> QED
    BY <2>2, <2>3, Zenon DEF Unmarked
<1>2. SchemaInv => DurationLeaf
  BY <1>1 DEF DurationLeaf, Branches
<1> QED
  BY <1>2, SchemaInvHolds, PTL

\* The paths the guard and the builder write to do not disturb each other: this is
\* SchemaAssumption of WideEvent, for schemas whose overrides name different keys.
THEOREM GuardPathsHold == Spec => []GuardPathsApart
<1>1. ASSUME SchemaInv, Compiled, Proper,
             Builtin("Duration") # Builtin("Event"),
             Builtin("Event.Id") # Builtin("Event.Timestamp")
      PROVE  /\ Cardinality(GuardPaths) = 3
             /\ \A p, q \in GuardPaths : Related(p, q) => p = q
  <2> DEFINE s == schema.duration_segments
  <2>1. ParserInv
    BY <1>1 DEF SchemaInv
  <2>2. PICK c, d, b : /\ Walked(c) /\ DurationAdded(c, d) /\ Stamped(d, b)
                       /\ schema = guard_paths(b)
    BY <1>1, CompiledIs
  <2>3. /\ s \in Markers \cup Branches \cup {TOTAL_MS}
        /\ GuardPaths = {s, TIMESTAMP, ID}
    BY <1>1, <2>2, CompiledFacts DEF GuardPaths
  <2>4. /\ DURATION \in Path /\ TIMESTAMP \in Path /\ ID \in Path /\ TOTAL_MS \in Path
        /\ Len(DURATION) = 1 /\ Len(TIMESTAMP) = 2 /\ Len(ID) = 2
        /\ TIMESTAMP[1] # DURATION[1] /\ ID[1] # DURATION[1] /\ TIMESTAMP[2] # ID[2]
        /\ Within(DURATION, TOTAL_MS)
    BY <1>1, <2>1, BuiltinPaths
  <2> HIDE DEF s
  <2>5. s \in Path /\ Within(DURATION, s)
    <3>1. \A p \in Declared : p \in Path
      BY <2>1, HoldsIs, EntryIs
    <3>2. \A p \in Markers : p \in Declared /\ Within(DURATION, p)
      BY <1>1 DEF Proper, Markers
    <3> QED
      BY <2>3, <2>4, <3>1, <3>2 DEF Branches
  <2>6. Len(s) \in Nat /\ 1 <= Len(s) /\ s[1] = DURATION[1]
    <3>1. Len(s) \in Nat
      BY <2>5, WithinOrder
    <3>2. Len(DURATION) <= Len(s) /\ \A i \in 1..Len(DURATION) : DURATION[i] = s[i]
      BY <2>4, <2>5, WithinIs
    <3> QED
      BY <2>4, <3>1, <3>2
  <2>7. ASSUME NEW p \in {TIMESTAMP, ID}
        PROVE  p # s /\ ~Within(p, s) /\ ~Within(s, p)
    <3>1. p \in Path /\ Len(p) = 2 /\ p[1] # s[1]
      BY <2>4, <2>6
    <3>2. ~Within(p, s)
      BY <2>5, <3>1, WithinIs
    <3>3. ~Within(s, p)
      BY <2>5, <2>6, <3>1, WithinIs
    <3> QED
      BY <3>1, <3>2, <3>3
  <2>8. TIMESTAMP # ID /\ ~Within(TIMESTAMP, ID) /\ ~Within(ID, TIMESTAMP)
    BY <2>4, WithinOrder
  <2>9. \A p, q \in GuardPaths : Related(p, q) => p = q
    BY <2>3, <2>7, <2>8 DEF Related
  <2>10. Cardinality({s, TIMESTAMP, ID}) = 3
    <3>1. IsFiniteSet({ID}) /\ Cardinality({ID}) = 1
      BY FS_Singleton
    <3>2. {TIMESTAMP, ID} = {ID} \cup {TIMESTAMP} /\ TIMESTAMP \notin {ID}
      BY <2>8
    <3>3. IsFiniteSet({TIMESTAMP, ID}) /\ Cardinality({TIMESTAMP, ID}) = 2
      BY <3>1, <3>2, FS_AddElement
    <3>4. {s, TIMESTAMP, ID} = {TIMESTAMP, ID} \cup {s} /\ s \notin {TIMESTAMP, ID}
      BY <2>7
    <3> QED
      BY <3>3, <3>4, FS_AddElement
  <2> QED
    BY <2>3, <2>9, <2>10
<1>2. SchemaInv => GuardPathsApart
  BY <1>1 DEF GuardPathsApart
<1> QED
  BY <1>2, SchemaInvHolds, PTL

\* The paths that can be named: what the text declares and the built-in ones.
LEMMA NamedPaths ==
  ASSUME SchemaInv, NEW c, NEW d, NEW b,
         Walked(c), DurationAdded(c, d), Stamped(d, b), schema = guard_paths(b)
  PROVE  /\ Unique(schema) /\ Declared \subseteq {p \in Path : p # <<>>}
         /\ Range(schema.paths) \subseteq
              Declared \cup {DURATION, EVENT, TOTAL_MS, TIMESTAMP, ID}
         /\ \A p \in Declared : \E q \in Declared \cap Range(schema.paths) : Dotted(q) = Dotted(p)
         /\ \A p \in Declared \cup GuardPaths \cup {EVENT, DURATION} : Known(schema, p)
<1>1. ParserInv
  BY DEF SchemaInv
<1>2. /\ c \in Schema /\ Unique(c) /\ Range(c.paths) \subseteq Declared
      /\ \A p \in Declared : Known(c, p)
  BY DEF Walked
<1>3. Grows(c, d, Declared \cup {DURATION, TOTAL_MS}, Declared \cup {TOTAL_MS})
  BY DEF DurationAdded
<1>4. Grows(d, b, Declared \cup EventPaths, Markers) /\ \A p \in EventPaths : Known(b, p)
  BY DEF Stamped
<1>5. /\ schema.keys = b.keys /\ schema.paths = b.paths
      /\ schema.timestamp_segments = TIMESTAMP /\ schema.id_segments = ID
      /\ schema.duration_segments \in Markers \cup {d.duration_segments}
  BY CompiledFacts
<1>6. Unique(schema)
  BY <1>2, <1>3, <1>4, <1>5 DEF Grows, Unique
<1>7. Range(c.paths) \subseteq Range(schema.paths)
  BY <1>3, <1>4, <1>5 DEF Grows
<1>8. Range(schema.paths) \subseteq Declared \cup {DURATION, EVENT, TOTAL_MS, TIMESTAMP, ID}
  BY <1>2, <1>3, <1>4, <1>5 DEF Grows, EventPaths
<1>9. \A p \in Declared : \E q \in Declared \cap Range(schema.paths) : Dotted(q) = Dotted(p)
  BY <1>2, <1>7 DEF Known
<1>10. \A p : Known(b, p) => Known(schema, p)
  BY <1>5 DEF Known
<1>11. \A p \in Declared : Known(b, p)
  BY <1>2, <1>3, <1>4, KnownOn
<1>12. Known(b, d.duration_segments) /\ Known(b, DURATION)
  BY <1>4, KnownOn DEF DurationAdded
<1>13. \A p \in Declared \cup GuardPaths \cup {EVENT, DURATION} : Known(b, p)
  BY <1>4, <1>5, <1>11, <1>12, MarkersIs, <1>1 DEF GuardPaths, EventPaths
<1>14. Declared \subseteq {p \in Path : p # <<>>}
  <2> SUFFICES ASSUME NEW p \in Declared PROVE p \in Path /\ p # <<>>
    OBVIOUS
  <2>1. PICK e \in Range(entries) : e.path = p
    BY <1>1, HoldsIs
  <2> QED
    BY <1>1, <2>1, EntryIs
<1> QED
  BY <1>6, <1>8, <1>9, <1>10, <1>13, <1>14

\* Every prefix of a declared path is declared.
LEMMA PrefixDeclared ==
  ASSUME ParserInv, NEW p \in Declared, NEW k \in 1..Len(p)
  PROVE  \E q \in Declared : Last(q) = p[k]
<1>1. PICK e \in Range(entries) : e.path = p
  BY HoldsIs
<1>2. p \in Path /\ p # <<>> /\ Len(p) \in Nat
  BY <1>1, EntryIs, WithinOrder
<1> DEFINE q == SubSeq(p, 1, k)
<1>3. q \in Path /\ Len(q) = k /\ \A i \in 1..k : q[i] = p[i]
  <2>1. p \in Seq(Name) /\ k \in 0..Len(p)
    BY <1>2 DEF Path
  <2> QED
    BY <2>1, Cut DEF Path
<1> HIDE DEF q
<1>4. q # <<>> /\ Within(q, p)
  <2>1. Len(q) <= Len(p) /\ \A i \in 1..Len(q) : q[i] = p[i]
    BY <1>2, <1>3
  <2>2. Len(q) # 0
    BY <1>3
  <2> QED
    BY <1>2, <1>3, <2>1, <2>2, WithinIs, WithinOrder
<1>5. Last(q) = p[k]
  BY <1>3, <1>4, OneLess
<1>6. q \in Declared
  BY <1>1, <1>3, <1>4, Enclosing
<1> QED
  BY <1>5, <1>6

\* What the text declares, and what the guard and the builder write to, has its
\* keys in the enum and can be named by its dotted string, if no other path has the
\* same (add_path, __wl_resolve_path).
THEOREM PathsHold == Spec => []PathsResolve
<1>1. ASSUME SchemaInv, Compiled, NEW p \in Declared \cup GuardPaths
      PROVE  /\ Range(p) \subseteq Range(schema.keys)
             /\ (\A q \in Declared \cup GuardPaths : Dotted(q) = Dotted(p) => q = p) =>
                  __wl_resolve_path(schema, Dotted(p)) = p
  <2> DEFINE s == schema.duration_segments
  <2>1. ParserInv
    BY <1>1 DEF SchemaInv
  <2>2. PICK c, d, b : /\ Walked(c) /\ DurationAdded(c, d) /\ Stamped(d, b)
                       /\ schema = guard_paths(b)
    BY <1>1, CompiledIs
  <2>3. /\ GuardPaths = {s, TIMESTAMP, ID}
        /\ s \in Declared \cup {TOTAL_MS}
    <3>1. s \in Markers \cup Branches \cup {TOTAL_MS}
      BY <1>1, <2>2, CompiledFacts
    <3>2. schema.timestamp_segments = TIMESTAMP /\ schema.id_segments = ID
      BY <1>1, <2>2, CompiledFacts
    <3> QED
      BY <2>1, <3>1, <3>2, MarkersIs DEF GuardPaths, Branches
  <2>4. /\ Unique(schema) /\ Declared \subseteq {q \in Path : q # <<>>}
        /\ Range(schema.paths) \subseteq
             Declared \cup {DURATION, EVENT, TOTAL_MS, TIMESTAMP, ID}
        /\ \A q \in Declared : \E r \in Declared \cap Range(schema.paths) : Dotted(r) = Dotted(q)
        /\ \A q \in Declared \cup GuardPaths \cup {EVENT, DURATION} : Known(schema, q)
    BY <1>1, <2>2, NamedPaths
  <2>5. /\ \A q \in {DURATION, EVENT} :
             q \in Path /\ q # <<>> /\ Len(q) = 1 /\ Len(Words[q[1]]) = 1
        /\ \A q \in {TOTAL_MS, TIMESTAMP, ID} :
             /\ q \in Path /\ q # <<>> /\ Len(q) = 2
             /\ Len(Words[q[1]]) = 1 /\ Len(Words[q[2]]) = 1
    BY <2>1, BuiltinPaths
  <2>6. p \in Path /\ p # <<>>
    BY <2>3, <2>4, <2>5
  <2>7. p \in Declared \/ p \in {TOTAL_MS, TIMESTAMP, ID}
    BY <2>3
  <2> HIDE DEF s
  <2>8. Range(p) \subseteq Range(schema.keys)
    <3>1. \A q \in Declared \cup GuardPaths \cup {EVENT, DURATION} : Last(q) \in Range(schema.keys)
      BY <2>4 DEF Known
    <3>2. Range(p) = {p[k] : k \in 1..Len(p)}
      BY <2>6 DEF Path, Range
    <3>3. CASE p \in Declared
      BY <2>1, <3>1, <3>2, <3>3, PrefixDeclared
    <3>4. CASE p \in {TIMESTAMP, ID}
      <4>1. Len(p) = 2 /\ p[1] = Last(EVENT) /\ p[2] = Last(p)
        BY <2>1, <3>4, BuiltinPaths
      <4>2. p[1] \in Range(schema.keys) /\ p[2] \in Range(schema.keys)
        BY <3>1, <4>1
      <4>3. \A k \in 1..Len(p) : k = 1 \/ k = 2
        BY <4>1
      <4> QED
        BY <3>2, <4>2, <4>3
    <3>5. CASE p \notin Declared /\ p \notin {TIMESTAMP, ID}
      <4>1. p = TOTAL_MS /\ s = TOTAL_MS
        BY <2>3, <2>7, <3>5
      <4>2. Len(p) = 2 /\ p[1] = Last(DURATION) /\ p[2] = Last(p)
        BY <2>1, <4>1, BuiltinPaths
      <4>3. p[2] \in Range(schema.keys) /\ Last(DURATION) \in Range(schema.keys)
        BY <3>1, <4>2
      <4>4. \A k \in 1..Len(p) : k = 1 \/ k = 2
        BY <4>2
      <4> QED
        BY <3>2, <4>2, <4>3, <4>4
    <3> QED
      BY <3>3, <3>4, <3>5
  <2>9. ASSUME \A q \in Declared \cup GuardPaths : Dotted(q) = Dotted(p) => q = p
        PROVE  __wl_resolve_path(schema, Dotted(p)) = p
    <3>1. PICK q \in Range(schema.paths) : Dotted(q) = Dotted(p)
      BY <2>4 DEF Known
    <3>2. p \in Range(schema.paths)
      <4>1. CASE p \in Declared
        BY <2>4, <2>9, <4>1
      <4>2. CASE p \in {TOTAL_MS, TIMESTAMP, ID}
        <5>1. CASE q \in Declared
          BY <2>9, <3>1, <5>1
        <5>2. CASE q \in {DURATION, EVENT}
          <6>1. q = p
            BY <2>5, <2>6, <3>1, <5>2, OneWord
          <6> QED
            BY <3>1, <6>1
        <5>3. CASE q \in {TOTAL_MS, TIMESTAMP, ID}
          <6>1. q = p
            BY <2>5, <3>1, <4>2, <5>3, TwoWords
          <6> QED
            BY <3>1, <6>1
        <5> QED
          BY <2>4, <5>1, <5>2, <5>3
      <4> QED
        BY <2>7, <4>1, <4>2
    <3>3. \A r \in Range(schema.paths) : Dotted(r) = Dotted(p) => r = p
      BY <2>4, <3>2 DEF Unique
    <3> DEFINE arms == resolve_arms(schema)
    <3>4. /\ Dotted(p) \in DOMAIN arms
          /\ arms[Dotted(p)] = CHOOSE r \in Range(schema.paths) : Dotted(r) = Dotted(p)
      BY <3>2 DEF resolve_arms
    <3>5. (CHOOSE r \in Range(schema.paths) : Dotted(r) = Dotted(p)) = p
      BY <3>2, <3>3
    <3> QED
      BY <3>4, <3>5 DEF __wl_resolve_path
  <2> QED
    BY <2>8, <2>9
<1>2. SchemaInv => PathsResolve
  BY <1>1 DEF PathsResolve
<1> QED
  BY <1>2, SchemaInvHolds, PTL
=================================================================================
