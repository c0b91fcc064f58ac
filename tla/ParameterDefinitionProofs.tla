----------------------- MODULE ParameterDefinitionProofs -----------------------
(***************************************************************************)
(* A job parameter definition, proved for all documents and submissions.   *)
(*                                                                         *)
(* The rules for a definition's own values and those for the values of a   *)
(* job are written apart, for each type.  DataInv says what the validators *)
(* have established of the fields that have passed, so that Checks follows *)
(* from it (DefaultPasses, ListedPasses); ValueInv and JobsInv say what    *)
(* the value has been through, and that coercing it again changes nothing. *)
(***************************************************************************)
EXTENDS ParameterDefinition, SequenceTheorems, TLAPS

\* The fields that are validated from the field f on.
Rests == {<<"lo", "hi", "allowed", "default">>, <<"hi", "allowed", "default">>,
          <<"allowed", "default">>, <<"default">>, <<>>}
Among(q, f) == \E k \in DOMAIN q : q[k] = f
Ahead(f) == Among(todo, f)

Started == {"collected", "checked", "created", "refused", "raised"}

\* The default of a list has been checked.
Settled == phase \in {"decoded", "collected", "checked", "created", "refused"} \/ value # {}

Typed ==
    /\ doc \in Documents
    /\ phase \in {"decoding", "decoded", "invalid"} \cup Started
    /\ todo \in Rests
    /\ phase \notin {"decoding", "invalid", "raised"} => todo = <<>>
    /\ DOMAIN data = {"lo", "hi", "allowed", "default"}
    /\ \A f \in DOMAIN data : Ahead(f) => data[f] = {}
    /\ AtMostOne(data.default)

\* The fields that have passed suit each other.
DataInv ==
    /\ doc.type \in {"STRING", "PATH"} =>
         /\ \A h \in data.hi : h # 0
         /\ \A v \in data.allowed : IsText(v) /\ Within(v, data.lo, data.hi)
         /\ \A v \in data.default : IsText(v) /\ DefaultSuits(v, data)
    /\ doc.type = "INT" =>
         /\ \A v \in data.allowed : v = Object("int", v.n) /\ Within(v, data.lo, data.hi)
         /\ \A v \in data.default : v = Object("int", v.n) /\ DefaultSuits(v, data)
    /\ doc.type = "FLOAT" =>
         /\ \A v \in data.allowed : v = Object("decimal", v.n) /\ Within(v, data.lo, data.hi)
         /\ \A v \in data.default : v = Object("decimal", v.n) /\ DefaultSuits(v, data)
    /\ doc.type = "BOOL" => \A v \in data.default : v.py = "bool" /\ v.n \in {0, 1}
    /\ doc.type = "RANGE_EXPR" => \A v \in data.default : v.py = "digits"
    /\ doc.type \in ListTypes =>
         \A v \in data.default :
           /\ v.py = "list" /\ v.items \in Seq(ItemsOf(v))
           /\ Settled => Checks(v, data) = "ok"

\* A value is what is collected of the object that is given, and has been checked
\* or is the reason why the phase is what it is.
ValueInv ==
    /\ AtMostOne(given) /\ AtMostOne(value)
    /\ phase \in {"decoding", "decoded", "invalid"} => value = {}
    /\ phase \in {"collected", "checked", "created"} => value # {}
    /\ value # {} \/ phase = "refused" => value = Collected(given)
    /\ phase \in {"checked", "created"} => \A v \in value : Checks(v, data) = "ok"
    /\ phase = "refused" => \A v \in value : Checks(v, data) # "ok"
    /\ phase = "raised"  => \A v \in value : Checks(v, data) # "ok"
    /\ doc.type = "BOOL" =>
         \A v \in value : ~IsText(v) /\ ((\A g \in given : IsText(g)) => v.py = "bool")

Job == [type |-> doc.type, value |-> value, symbols |-> Seeded]

\* The jobs are alike, and their value stays what it is when it is given again.
JobsInv ==
    /\ jobs \in {<<>>, <<Job>>, <<Job, Job>>}
    /\ phase # "created" => jobs # <<Job, Job>>
    /\ jobs # <<>> =>
         /\ phase \in {"collected", "checked", "created"}
         /\ Collected(value) = value
         /\ \A v \in value : Checks(v, data) = "ok"
    /\ phase = "created" => jobs # <<>>

ParameterInv == Typed /\ DataInv /\ ValueInv /\ JobsInv

----------------------------------------------------------------------------
(* Values, coerced and checked.                                            *)

\* Types fall apart.
LEMMA TypesApart ==
    /\ \A t \in ListTypes : t \notin LegacyTypes /\ t # "BOOL" /\ t # "RANGE_EXPR"
    /\ "BOOL" \notin LegacyTypes /\ "RANGE_EXPR" \notin LegacyTypes
    /\ "LIST[BOOL]" \in ListTypes
    /\ \A t : t \in LegacyTypes <=> t \in {"STRING", "PATH"} \/ t = "INT" \/ t = "FLOAT"
BY DEF ListTypes, LegacyTypes

\* A set of at most one element.
LEMMA OneOrNone ==
    ASSUME NEW S, AtMostOne(S)
    PROVE  S = {} \/ \E x : S = {x}
BY DEF AtMostOne

\* Leaving limits out keeps a value within them.
LEMMA WithinFewer ==
    ASSUME NEW v, NEW lo, NEW hi, Within(v, lo, hi)
    PROVE  Within(v, True(lo), True(hi))
BY DEF Within, True

\* When a list is in order: it is a list of the right length, all its items are.
LEMMA ListInOrder ==
    ASSUME NEW v, NEW d
    PROVE  ListChecks(v, d) = "ok" <=>
             /\ v.py = "list" /\ Within(v, d.lo, d.hi)
             /\ \A i \in ItemsOf(v) : CheckItem(i, doc.item)
<1> DEFINE bad == {k \in DOMAIN v.items : ~CheckItem(v.items[k], doc.item)}
<1>1. bad = {} <=> \A i \in ItemsOf(v) : CheckItem(i, doc.item)
      BY DEF ItemsOf
<1>2. v.py # "list" \/ ~Within(v, d.lo, d.hi) => ListChecks(v, d) = "ValueError"
      BY DEF ListChecks
<1>3. ASSUME v.py = "list", Within(v, d.lo, d.hi)
      PROVE  ListChecks(v, d) = "ok" <=> bad = {}
      BY <1>3 DEF ListChecks, Raises
<1>q. QED  BY <1>1, <1>2, <1>3

\* A list of Booleans is coerced once and for all.
LEMMA BoolsAgain ==
    ASSUME NEW u, NEW v \in Bools(u)
    PROVE  /\ v.py = "list" /\ Bools(v) = {v}
           /\ \A i \in ItemsOf(v) : i.py = "bool" /\ Boolish(i)
           /\ \A i \in ItemsOf(u) : Boolish(i)
           /\ v = [py |-> "list", items |-> [k \in DOMAIN u.items |-> Object("bool", u.items[k].n)]]
<1>1. /\ v = [py |-> "list", items |-> [k \in DOMAIN u.items |-> Object("bool", u.items[k].n)]]
      /\ \A i \in ItemsOf(u) : Boolish(i)
      BY DEF Bools
<1>2. \A k \in DOMAIN u.items : u.items[k].n \in {0, 1}
      BY <1>1 DEF ItemsOf, Boolish
<1>3. DOMAIN v.items = DOMAIN u.items /\ v.py = "list"
      BY <1>1
<1>4. \A k \in DOMAIN v.items : v.items[k] = Object("bool", u.items[k].n)
      BY <1>1
<1>5. \A n : Object("bool", n).py = "bool" /\ Object("bool", n).n = n
      BY DEF Object
<1>6. \A i \in ItemsOf(v) : i.py = "bool" /\ Boolish(i)
      BY <1>2, <1>3, <1>4, <1>5 DEF ItemsOf, Boolish
<1>7. [k \in DOMAIN v.items |-> Object("bool", v.items[k].n)] =
      [k \in DOMAIN u.items |-> Object("bool", u.items[k].n)]
      BY <1>3, <1>4, <1>5
<1>8. Bools(v) = {v}
      BY <1>1, <1>6, <1>7 DEF Bools
<1>q. QED  BY <1>1, <1>3, <1>6, <1>8

\* Coercing gives one value or none, which it leaves alone.
LEMMA CoercedOnce ==
    ASSUME doc.type \in JobParameterType, doc.type \notin LegacyTypes, NEW u
    PROVE  /\ AtMostOne(Coerced(u))
           /\ \A v \in Coerced(u) : Coerced(v) = {v}
           /\ doc.type = "BOOL" =>
                \A v \in Coerced(u) : ~IsText(v) /\ (IsText(u) => v.py = "bool")
<1>1. \A v : v.py \in {"list", "bool"} => ~IsText(v)
      BY DEF IsText, Texts
<1>2. CASE doc.type = "BOOL"
  <2>1. \A v : ~IsText(v) => Coerced(v) = {v}
        BY <1>2, TypesApart DEF Coerced
  <2>2. CASE IsText(u)
    <3>1. Coerced(u) = IF Boolish(u) THEN {Object("bool", u.n)} ELSE {}
          BY <1>2, <2>2, TypesApart DEF Coerced
    <3>2. Object("bool", u.n).py = "bool"
          BY DEF Object
    <3>q. QED  BY <3>1, <3>2, <1>1, <2>1 DEF AtMostOne
  <2>3. CASE ~IsText(u)
        BY <2>1, <2>3 DEF AtMostOne
  <2>q. QED  BY <2>2, <2>3
<1>3. CASE doc.type = "RANGE_EXPR"
  <2>1. \A v : Coerced(v) = {v}
        BY <1>3, TypesApart DEF Coerced
  <2>q. QED  BY <1>3, <2>1 DEF AtMostOne
<1>4. CASE doc.type = "LIST[BOOL]"
  <2>1. \A v : v.py = "list" => Coerced(v) = Bools(v)
        BY <1>1, <1>4, TypesApart DEF Coerced
  <2>2. \A v : IsText(v) => Coerced(v) = UNION {Bools(l) : l \in FromJson(v)}
        BY <1>1, <1>4, TypesApart DEF Coerced
  <2>3. \A v : ~IsText(v) /\ v.py # "list" => Coerced(v) = {v}
        BY <1>4, TypesApart DEF Coerced
  <2>4. CASE u.py = "list"
        BY <1>4, <2>1, <2>4, BoolsAgain DEF AtMostOne, Bools
  <2>5. CASE IsText(u)
    <3> DEFINE l == [py |-> "list", items |-> u.items]
    <3>1. Coerced(u) = IF u.py = "json" THEN Bools(l) ELSE {}
          BY <2>2, <2>5 DEF FromJson
    <3>2. AtMostOne(Bools(l))
          BY DEF AtMostOne, Bools
    <3> HIDE DEF l
    <3>q. QED  BY <1>4, <2>1, <3>1, <3>2, BoolsAgain DEF AtMostOne
  <2>6. CASE ~IsText(u) /\ u.py # "list"
        BY <1>4, <2>3, <2>6 DEF AtMostOne
  <2>q. QED  BY <2>4, <2>5, <2>6
<1>5. CASE doc.type \in ListTypes \ {"LIST[BOOL]"}
  <2>1. \A v : ~IsText(v) => Coerced(v) = {v}
        BY <1>5, TypesApart DEF Coerced
  <2>2. CASE IsText(u)
    <3>1. Coerced(u) = FromJson(u)
          BY <1>5, <2>2, TypesApart DEF Coerced
    <3>2. \A v \in FromJson(u) : v.py = "list"
          BY DEF FromJson
    <3>3. AtMostOne(FromJson(u))
          BY DEF FromJson, AtMostOne
    <3>q. QED  BY <1>1, <1>5, <2>1, <3>1, <3>2, <3>3, TypesApart
  <2>3. CASE ~IsText(u)
        BY <1>5, <2>1, <2>3, TypesApart DEF AtMostOne
  <2>q. QED  BY <2>2, <2>3
<1>q. QED  BY <1>2, <1>3, <1>4, <1>5 DEF JobParameterType

\* str() of a text is the text.
LEMMA StrOnce ==
    \A v : /\ Str(Str(v)) = Str(v)
           /\ IsText(v) => Str(v) = v
           /\ v.py = "digits" => Str(v) = v
           /\ v.py \in {"int", "decimal"} => Str(v) = Object("digits", v.n)
BY DEF Str, IsNumber, IsText, Texts, Object

\* What is collected is one value or none, and is collected again as it is.
LEMMA CollectedOnce ==
    ASSUME doc.type \in JobParameterType, AtMostOne(data.default), DataInv,
           NEW g, AtMostOne(g)
    PROVE  /\ AtMostOne(Collected(g))
           /\ Collected(g) # {} => Collected(Collected(g)) = Collected(g)
           /\ doc.type = "BOOL" =>
                \A v \in Collected(g) : ~IsText(v) /\ ((\A u \in g : IsText(u)) => v.py = "bool")
<1>1. CASE doc.type \in LegacyTypes
  <2>1. \A h : h # {} => Collected(h) = {Str(v) : v \in h}
        BY <1>1, TypesApart DEF Collected
  <2>2. Collected({}) = {Str(v) : v \in data.default}
        BY <1>1, TypesApart DEF Collected
  <2>3. PICK S : AtMostOne(S) /\ Collected(g) = {Str(v) : v \in S}
        BY <2>1, <2>2
  <2>4. AtMostOne(Collected(g))
        BY <2>3 DEF AtMostOne
  <2>5. ASSUME Collected(g) # {}
        PROVE  Collected(Collected(g)) = Collected(g)
    <3>1. PICK v : Collected(g) = {v}
          BY <2>4, <2>5, OneOrNone
    <3>2. Str(v) = v
          BY <2>3, <3>1, StrOnce
    <3>q. QED  BY <2>1, <3>1, <3>2
  <2>q. QED  BY <1>1, <2>4, <2>5, TypesApart
<1>2. CASE doc.type \notin LegacyTypes
  <2>1. \A h : h # {} => Collected(h) = UNION {Coerced(v) : v \in h}
        BY <1>2, TypesApart DEF Collected
  <2>2. ASSUME AtMostOne(Collected(g)), \A v \in Collected(g) : Coerced(v) = {v}, Collected(g) # {}
        PROVE  Collected(Collected(g)) = Collected(g)
    <3>1. PICK v : Collected(g) = {v}
          BY <2>2, OneOrNone
    <3>2. Coerced(v) = {v}
          BY <2>2, <3>1
    <3>q. QED  BY <2>1, <3>1, <3>2
  <2>3. CASE g # {}
    <3>1. PICK u : g = {u}
          BY <2>3, OneOrNone
    <3>2. UNION {Coerced(v) : v \in {u}} = Coerced(u)
          OBVIOUS
    <3>3. Collected(g) = Coerced(u)
          BY <2>1, <2>3, <3>1, <3>2
    <3>4. /\ AtMostOne(Coerced(u)) /\ \A v \in Coerced(u) : Coerced(v) = {v}
          /\ doc.type = "BOOL" => \A v \in Coerced(u) : ~IsText(v) /\ (IsText(u) => v.py = "bool")
          BY <1>2, CoercedOnce
    <3>q. QED  BY <2>2, <3>1, <3>3, <3>4
  <2>4. CASE g = {}
    <3>1. CASE doc.type = "LIST[BOOL]"
      <4>1. Collected(g) = UNION {Bools(v) : v \in data.default}
            BY <2>4, <3>1, <1>2 DEF Collected
      <4>2. \A v : v.py = "list" => Coerced(v) = Bools(v)
            BY <3>1, TypesApart DEF Coerced, IsText, Texts
      <4>3. \A u : AtMostOne(Bools(u))
            BY DEF AtMostOne, Bools
      <4>4. AtMostOne(Collected(g)) /\ \A v \in Collected(g) : \E u : v \in Bools(u)
        <5>1. CASE data.default = {}
              BY <4>1, <5>1 DEF AtMostOne
        <5>2. CASE data.default # {}
          <6>1. PICK u : data.default = {u}
                BY <5>2, OneOrNone
          <6>2. Collected(g) = Bools(u)
                BY <4>1, <6>1
          <6>q. QED  BY <6>2, <4>3
        <5>q. QED  BY <5>1, <5>2
      <4>5. \A v \in Collected(g) : Coerced(v) = {v}
            BY <4>2, <4>4, BoolsAgain
      <4>q. QED  BY <2>2, <3>1, <4>4, <4>5
    <3>2. CASE doc.type # "LIST[BOOL]"
      <4>1. Collected(g) = data.default
            BY <2>4, <3>2, <1>2 DEF Collected
      <4>2. \A v \in data.default : Coerced(v) = {v}
        <5>1. CASE doc.type = "BOOL"
              BY <5>1, TypesApart DEF DataInv, Coerced, IsText, Texts
        <5>2. CASE doc.type = "RANGE_EXPR"
              BY <5>2, TypesApart DEF Coerced
        <5>3. CASE doc.type \in ListTypes
              BY <5>3, <3>2, TypesApart DEF DataInv, Coerced, IsText, Texts
        <5>q. QED  BY <5>1, <5>2, <5>3, <1>2 DEF JobParameterType
      <4>3. doc.type = "BOOL" => \A v \in data.default : ~IsText(v) /\ v.py = "bool"
            BY DEF DataInv, IsText, Texts
      <4>q. QED  BY <2>2, <4>1, <4>2, <4>3
    <3>q. QED  BY <3>1, <3>2
  <2>q. QED  BY <2>3, <2>4
<1>q. QED  BY <1>1, <1>2

\* A default that has passed is collected, and passes as a value.
LEMMA DefaultPasses ==
    ASSUME doc.type \in JobParameterType, DataInv, data.default # {}, AtMostOne(data.default),
           doc.type \in ListTypes => \A v \in data.default : Checks(v, data) = "ok"
    PROVE  Collected({}) # {} /\ \A v \in Collected({}) : Checks(v, data) = "ok"
<1>1. PICK u : data.default = {u}
      BY OneOrNone
<1>2. CASE doc.type \in {"STRING", "PATH"}
  <2>1. Collected({}) = {Str(u)}
        BY <1>1, <1>2, TypesApart DEF Collected
  <2>2. IsText(u) /\ DefaultSuits(u, data) /\ Str(u) = u
        BY <1>1, <1>2, StrOnce DEF DataInv
  <2>3. StringChecks(u, data) = "ok" /\ PathChecks(u, data) = "ok"
        BY <2>2, WithinFewer DEF StringChecks, PathChecks, DefaultSuits, Raises
  <2>4. Checks(u, data) = "ok"
        BY <1>2, <2>3, TypesApart DEF Checks
  <2>q. QED  BY <2>1, <2>2, <2>4
<1>3. CASE doc.type = "INT"
  <2>1. Collected({}) = {Str(u)}
        BY <1>1, <1>3, TypesApart DEF Collected
  <2>2. u = Object("int", u.n) /\ DefaultSuits(u, data)
        BY <1>1, <1>3 DEF DataInv
  <2>3. Str(u).py = "digits" /\ Str(u).n = u.n
        BY <2>2, StrOnce DEF Object
  <2>4. IntChecks(Str(u), data) = "ok"
        BY <2>2, <2>3, WithinFewer DEF IntChecks, DefaultSuits, Raises
  <2>5. Checks(Str(u), data) = "ok"
        BY <1>3, <2>4, TypesApart DEF Checks
  <2>q. QED  BY <2>1, <2>5
<1>4. CASE doc.type = "FLOAT"
  <2>1. Collected({}) = {Str(u)}
        BY <1>1, <1>4, TypesApart DEF Collected
  <2>2. u = Object("decimal", u.n) /\ DefaultSuits(u, data)
        BY <1>1, <1>4 DEF DataInv
  <2>3. Str(u).py = "digits" /\ Str(u).n = u.n
        BY <2>2, StrOnce DEF Object
  <2>4. FloatChecks(Str(u), data) = "ok"
        BY <2>2, <2>3, WithinFewer DEF FloatChecks, DefaultSuits, Raises
  <2>5. Checks(Str(u), data) = "ok"
        BY <1>4, <2>4, TypesApart DEF Checks
  <2>q. QED  BY <2>1, <2>5
<1>5. CASE doc.type = "BOOL"
  <2>1. Collected({}) = {u}
        BY <1>1, <1>5, TypesApart DEF Collected
  <2>2. Checks(u, data) = "ok"
        BY <1>1, <1>5 DEF DataInv, Checks, BoolChecks, Boolish, Raises
  <2>q. QED  BY <2>1, <2>2
<1>6. CASE doc.type = "RANGE_EXPR"
  <2>1. Collected({}) = {u}
        BY <1>1, <1>6, TypesApart DEF Collected
  <2>2. Checks(u, data) = "ok"
        BY <1>1, <1>6 DEF DataInv, Checks, RangeChecks, Raises
  <2>q. QED  BY <2>1, <2>2
<1>7. CASE doc.type \in ListTypes
  <2>1. \A v : Checks(v, data) = ListChecks(v, data)
        BY <1>7, TypesApart DEF Checks, ListTypes
  <2>2. /\ u.py = "list" /\ u.items \in Seq(ItemsOf(u)) /\ Within(u, data.lo, data.hi)
        /\ \A i \in ItemsOf(u) : CheckItem(i, doc.item)
        BY <1>1, <1>7, <2>1, ListInOrder DEF DataInv
  <2>3. CASE doc.type = "LIST[BOOL]"
    <3> DEFINE b == [py |-> "list", items |-> [k \in DOMAIN u.items |-> Object("bool", u.items[k].n)]]
    <3>1. \A i : CheckItem(i, doc.item) <=> Boolish(i)
          BY <2>3 DEF CheckItem
    <3>2. Collected({}) = Bools(u)
          BY <1>1, <2>3, TypesApart DEF Collected
    <3>3. Bools(u) = {b}
          BY <2>2, <3>1 DEF Bools
    <3>4. \A i \in ItemsOf(b) : Boolish(i)
          BY <3>3, BoolsAgain
    <3>5. Len(b.items) = Len(u.items)
      <4>1. Len(u.items) \in Nat /\ DOMAIN u.items = 1 .. Len(u.items)
            BY <2>2, LenProperties
      <4>q. QED  BY <4>1
    <3>6. b.py = "list"
          OBVIOUS
    <3> HIDE DEF b
    <3>7. Within(b, data.lo, data.hi)
      <4>1. Measure(b) = Measure(u)
            BY <2>2, <3>5, <3>6 DEF Measure, IsNumber, Length
      <4>q. QED  BY <2>2, <4>1 DEF Within
    <3>8. ListChecks(b, data) = "ok"
          BY <3>1, <3>4, <3>6, <3>7, ListInOrder
    <3>q. QED  BY <2>1, <3>2, <3>3, <3>8
  <2>4. CASE doc.type # "LIST[BOOL]"
    <3>1. Collected({}) = {u}
          BY <1>1, <1>7, <2>4, TypesApart DEF Collected
    <3>q. QED  BY <1>1, <1>7, <3>1
  <2>q. QED  BY <2>3, <2>4
<1>q. QED  BY <1>2, <1>3, <1>4, <1>5, <1>6, <1>7, TypesApart DEF JobParameterType

\* An allowed value, however the list of them spells it.
Listed(v) ==
    CASE doc.type \in {"STRING", "PATH"} -> v \in data.allowed
      [] doc.type \in {"INT", "FLOAT"}   ->
           v.py \in {"digits", "int"} /\ \E a \in data.allowed : a.n = v.n
      [] OTHER -> FALSE

\* One of the allowed values passes as a value.
LEMMA ListedPasses ==
    ASSUME doc.type \in JobParameterType, DataInv, NEW u, Listed(u)
    PROVE  doc.type \in LegacyTypes /\ Checks(Str(u), data) = "ok"
<1>1. CASE doc.type \in {"STRING", "PATH"}
  <2>1. u \in data.allowed
        BY <1>1 DEF Listed
  <2>2. IsText(u) /\ Within(u, data.lo, data.hi) /\ Str(u) = u
        BY <1>1, <2>1, StrOnce DEF DataInv
  <2>3. StringChecks(u, data) = "ok" /\ PathChecks(u, data) = "ok"
        BY <2>1, <2>2, WithinFewer DEF StringChecks, PathChecks, Raises
  <2>4. Checks(u, data) = "ok"
        BY <1>1, <2>3, TypesApart DEF Checks
  <2>q. QED  BY <1>1, <2>2, <2>4, TypesApart
<1>2. CASE doc.type \in {"INT", "FLOAT"}
  <2>1. u.py \in {"digits", "int"} /\ \E a \in data.allowed : a.n = u.n
        BY <1>2 DEF Listed
  <2>2. PICK a \in data.allowed : a.n = u.n
        BY <2>1
  <2>3. Str(u).py = "digits" /\ Str(u).n = u.n
        BY <2>1, StrOnce DEF Object
  <2>4. CASE doc.type = "INT"
    <3>1. a = Object("int", u.n) /\ Within(a, data.lo, data.hi)
          BY <2>2, <2>4 DEF DataInv
    <3>2. IntChecks(Str(u), data) = "ok"
          BY <2>2, <2>3, <3>1, WithinFewer DEF IntChecks, Raises
    <3>q. QED  BY <2>4, <3>2, TypesApart DEF Checks
  <2>5. CASE doc.type = "FLOAT"
    <3>1. a = Object("decimal", u.n) /\ Within(a, data.lo, data.hi)
          BY <2>2, <2>5 DEF DataInv
    <3>2. FloatChecks(Str(u), data) = "ok"
          BY <2>2, <2>3, <3>1, WithinFewer DEF FloatChecks, Raises
    <3>q. QED  BY <2>5, <3>2, TypesApart DEF Checks
  <2>q. QED  BY <1>2, <2>4, <2>5
<1>3. CASE doc.type \notin {"STRING", "PATH", "INT", "FLOAT"}
      BY <1>3 DEF Listed
<1>q. QED  BY <1>1, <1>2, <1>3
----------------------------------------------------------------------------
(* What the validators of the fields establish.                            *)

\* What is kept of a field's value, by type.
LEMMA KeptValues ==
    /\ \A w : Kept("lo", w) = {w.n} /\ Kept("hi", w) = {w.n}
    /\ doc.type = "INT" => \A w : /\ Kept("allowed", w) = {Parsed(v, "int") : v \in ItemsOf(w)}
                                  /\ Kept("default", w) = {Parsed(w, "int")}
    /\ doc.type = "FLOAT" => \A w : /\ Kept("allowed", w) = {Parsed(v, "decimal") : v \in ItemsOf(w)}
                                    /\ Kept("default", w) = {Parsed(w, "decimal")}
    /\ doc.type = "BOOL" => \A w : Kept("default", w) = {Object("bool", w.n)}
    /\ doc.type \notin {"INT", "FLOAT", "BOOL"} =>
         \A w : Kept("allowed", w) = ItemsOf(w) /\ Kept("default", w) = {w}
<1>1. \A w : Kept("lo", w) = {w.n} /\ Kept("hi", w) = {w.n}
      BY DEF Kept
<1>2. doc.type = "INT" => \A w : /\ Kept("allowed", w) = {Parsed(v, "int") : v \in ItemsOf(w)}
                                 /\ Kept("default", w) = {Parsed(w, "int")}
      BY DEF Kept
<1>3. doc.type = "FLOAT" => \A w : /\ Kept("allowed", w) = {Parsed(v, "decimal") : v \in ItemsOf(w)}
                                   /\ Kept("default", w) = {Parsed(w, "decimal")}
      BY DEF Kept
<1>4. doc.type = "BOOL" => \A w : Kept("default", w) = {Object("bool", w.n)}
      BY DEF Kept
<1>5. doc.type \notin {"INT", "FLOAT", "BOOL"} =>
        \A w : Kept("allowed", w) = ItemsOf(w) /\ Kept("default", w) = {w}
      BY DEF Kept
<1>q. QED  BY <1>1, <1>2, <1>3, <1>4, <1>5

\* A number is parsed into an object of its class.
LEMMA ParsedObject ==
    /\ \A v : v.py \in {"int", "digits"} => Parsed(v, "int") = Object("int", Parsed(v, "int").n)
    /\ \A v : v.py \in {"int", "float", "digits"} =>
                Parsed(v, "decimal") = Object("decimal", Parsed(v, "decimal").n)
BY DEF Parsed, Object

\* A text or a path: the upper limit, the list, the default.
LEMMA TextFields ==
    ASSUME doc.type \in {"STRING", "PATH"}, NEW w
    PROVE  /\ Validates("hi", w, data) => \A h \in Kept("hi", w) : h # 0
           /\ Validates("allowed", w, data) =>
                \A v \in Kept("allowed", w) : IsText(v) /\ Within(v, data.lo, data.hi)
           /\ Validates("default", w, data) =>
                \A v \in Kept("default", w) : IsText(v) /\ DefaultSuits(v, data)
<1>1. /\ Kept("hi", w) = {w.n} /\ Kept("allowed", w) = ItemsOf(w) /\ Kept("default", w) = {w}
      BY KeptValues
<1>2. \A f : /\ StringValidates(f, w, data) <=> PathValidates(f, w, data)
             /\ Validates(f, w, data) <=> StringValidates(f, w, data)
      BY TypesApart DEF Validates, StringValidates, PathValidates
<1>3. Validates("hi", w, data) => w.n # 0
  <2>1. StringValidates("hi", w, data) => w.n > 0
        BY DEF StringValidates
  <2>2. w.n > 0 => w.n # 0
        OBVIOUS
  <2>q. QED  BY <1>2, <2>1, <2>2
<1>4. Validates("allowed", w, data) => \A v \in ItemsOf(w) : IsText(v) /\ Within(v, data.lo, data.hi)
      BY <1>2 DEF StringValidates
<1>5. Validates("default", w, data) => IsText(w) /\ DefaultSuits(w, data)
      BY <1>2 DEF StringValidates
<1>q. QED  BY <1>1, <1>3, <1>4, <1>5

\* A number: the list, the default.
LEMMA NumberFields ==
    ASSUME doc.type \in {"INT", "FLOAT"}, NEW w
    PROVE  LET py == IF doc.type = "INT" THEN "int" ELSE "decimal"
           IN  /\ Validates("allowed", w, data) =>
                    \A v \in Kept("allowed", w) : v = Object(py, v.n) /\ Within(v, data.lo, data.hi)
               /\ Validates("default", w, data) =>
                    \A v \in Kept("default", w) : v = Object(py, v.n) /\ DefaultSuits(v, data)
<1>1. CASE doc.type = "INT"
  <2>1. /\ Kept("allowed", w) = {Parsed(v, "int") : v \in ItemsOf(w)}
        /\ Kept("default", w) = {Parsed(w, "int")}
        BY <1>1, KeptValues
  <2>2. \A f : Validates(f, w, data) <=> IntValidates(f, w, data)
        BY <1>1, TypesApart DEF Validates
  <2>3. Validates("allowed", w, data) =>
          \A v \in ItemsOf(w) : v.py \in {"int", "digits"} /\ Within(Parsed(v, "int"), data.lo, data.hi)
        BY <2>2 DEF IntValidates
  <2>4. Validates("default", w, data) =>
          w.py \in {"int", "digits"} /\ DefaultSuits(Parsed(w, "int"), data)
        BY <2>2 DEF IntValidates
  <2>q. QED  BY <1>1, <2>1, <2>3, <2>4, ParsedObject
<1>2. CASE doc.type = "FLOAT"
  <2>1. /\ Kept("allowed", w) = {Parsed(v, "decimal") : v \in ItemsOf(w)}
        /\ Kept("default", w) = {Parsed(w, "decimal")}
        BY <1>2, KeptValues
  <2>2. \A f : Validates(f, w, data) <=> FloatValidates(f, w, data)
        BY <1>2, TypesApart DEF Validates
  <2>3. Validates("allowed", w, data) =>
          \A v \in ItemsOf(w) : /\ v.py \in {"int", "float", "digits"}
                                /\ Within(Parsed(v, "decimal"), data.lo, data.hi)
        BY <2>2 DEF FloatValidates
  <2>4. Validates("default", w, data) =>
          w.py \in {"int", "float", "digits"} /\ DefaultSuits(Parsed(w, "decimal"), data)
        BY <2>2 DEF FloatValidates
  <2>q. QED  BY <1>2, <2>1, <2>3, <2>4, ParsedObject
<1>q. QED  BY <1>1, <1>2

\* The default of the other types.
LEMMA OtherDefaults ==
    ASSUME doc.type \in JobParameterType, NEW w, Validates("default", w, data)
    PROVE  /\ doc.type = "BOOL" => \A v \in Kept("default", w) : v.py = "bool" /\ v.n \in {0, 1}
           /\ doc.type = "RANGE_EXPR" => \A v \in Kept("default", w) : v.py = "digits"
           /\ doc.type \in ListTypes => \A v \in Kept("default", w) : v = w /\ v.py = "list"
<1>1. CASE doc.type = "BOOL"
  <2>1. Boolish(w)
        BY <1>1, TypesApart DEF Validates, BoolValidates
  <2>2. Kept("default", w) = {Object("bool", w.n)}
        BY <1>1, KeptValues
  <2>q. QED  BY <1>1, <2>1, <2>2, TypesApart DEF Boolish, Object
<1>2. CASE doc.type = "RANGE_EXPR"
  <2>1. w.py = "digits" /\ Kept("default", w) = {w}
        BY <1>2, TypesApart, KeptValues DEF Validates, RangeValidates
  <2>q. QED  BY <1>2, <2>1, TypesApart
<1>3. CASE doc.type \in ListTypes
  <2>1. Validates("default", w, data) <=> ListValidates("default", w)
        BY <1>3, TypesApart DEF Validates, ListTypes
  <2>2. Kept("default", w) = {w}
        BY <1>3, KeptValues, TypesApart DEF ListTypes
  <2>q. QED  BY <1>3, <2>1, <2>2, TypesApart DEF ListValidates
<1>q. QED  BY <1>1, <1>2, <1>3

\* The fields in their order.
LEMMA AmongFields ==
    /\ \A f : ~Among(<<>>, f)
    /\ \A f : Among(<<"default">>, f) <=> f = "default"
    /\ \A f : Among(<<"allowed", "default">>, f) <=> f \in {"allowed", "default"}
    /\ \A f : Among(<<"hi", "allowed", "default">>, f) <=> f \in {"hi", "allowed", "default"}
    /\ \A f : Among(<<"lo", "hi", "allowed", "default">>, f) <=> f \in {"lo", "hi", "allowed", "default"}
BY DEF Among

\* The next field: what is ahead of it, and that it is not ahead any more.
LEMMA TodoSteps ==
    ASSUME todo \in Rests, todo # <<>>
    PROVE  /\ Head(todo) \in {"lo", "hi", "allowed", "default"}
           /\ Tail(todo) \in Rests
           /\ Ahead(Head(todo)) /\ ~Among(Tail(todo), Head(todo))
           /\ \A f : Among(Tail(todo), f) => Ahead(f)
           /\ Head(todo) = "lo" => Ahead("hi")
           /\ Head(todo) \in {"lo", "hi"} => Ahead("allowed")
           /\ Head(todo) \in {"lo", "hi", "allowed"} => Ahead("default")
<1>1. CASE todo = <<"lo", "hi", "allowed", "default">>
  <2>1. Head(todo) = "lo" /\ Tail(todo) = <<"hi", "allowed", "default">>
        BY <1>1
  <2>q. QED  BY <1>1, <2>1, AmongFields DEF Rests, Ahead
<1>2. CASE todo = <<"hi", "allowed", "default">>
  <2>1. Head(todo) = "hi" /\ Tail(todo) = <<"allowed", "default">>
        BY <1>2
  <2>q. QED  BY <1>2, <2>1, AmongFields DEF Rests, Ahead
<1>3. CASE todo = <<"allowed", "default">>
  <2>1. Head(todo) = "allowed" /\ Tail(todo) = <<"default">>
        BY <1>3
  <2>q. QED  BY <1>3, <2>1, AmongFields DEF Rests, Ahead
<1>4. CASE todo = <<"default">>
  <2>1. Head(todo) = "default" /\ Tail(todo) = <<>>
        BY <1>4
  <2>q. QED  BY <1>4, <2>1, AmongFields DEF Rests, Ahead
<1>q. QED  BY <1>1, <1>2, <1>3, <1>4 DEF Rests

----------------------------------------------------------------------------
(* Decoding keeps the invariant.                                           *)

\* What depends on the definition alone is what it was while it stays.
LEMMA DefinitionStays ==
    ASSUME doc' = doc, data' = data
    PROVE  /\ \A v : Checks(v, data)' = Checks(v, data)
           /\ \A g : Collected(g)' = Collected(g)
           /\ Seeded' = Seeded
<1>1. \A v, c : CheckItem(v, c)' = CheckItem(v, c)
      BY DEF CheckItem
<1>2. \A v : ListChecks(v, data)' = ListChecks(v, data)
      BY <1>1 DEF ListChecks
<1>3. \A v : Checks(v, data)' = Checks(v, data)
      BY <1>2 DEF Checks
<1>4. \A v : Coerced(v)' = Coerced(v)
      BY DEF Coerced
<1>5. \A g : Collected(g)' = Collected(g)
      BY <1>4 DEF Collected
<1>6. Seeded' = Seeded
      BY DEF Seeded
<1>q. QED  BY <1>3, <1>5, <1>6

\* DataInv lasts while the definition stays, if the default of a list is in order
\* from when it counts.
LEMMA DataStays ==
    ASSUME DataInv, doc' = doc, data' = data,
           Settled' /\ doc.type \in ListTypes =>
             Settled \/ \A v \in data.default : Checks(v, data) = "ok"
    PROVE  DataInv'
<1>1. \A v : Checks(v, data)' = Checks(v, data)
      BY DefinitionStays
<1>2. doc.type \in ListTypes =>
        \A v \in data.default :
          v.py = "list" /\ v.items \in Seq(ItemsOf(v)) /\ (Settled' => Checks(v, data)' = "ok")
      BY <1>1 DEF DataInv
<1>q. QED  BY <1>2 DEF DataInv

\* At first no field has passed.
LEMMA InitInv == Init => ParameterInv
<1> SUFFICES ASSUME Init  PROVE ParameterInv
    OBVIOUS
<1>1. /\ doc \in Documents /\ data = NoData /\ phase = "decoding" /\ todo \in Rests
      /\ given = {} /\ value = {} /\ jobs = <<>>
      BY DEF Init, Rests
<1>2. /\ DOMAIN data = {"lo", "hi", "allowed", "default"}
      /\ data.lo = {} /\ data.hi = {} /\ data.allowed = {} /\ data.default = {}
      BY <1>1 DEF NoData
<1>3. Typed
      BY <1>1, <1>2 DEF Typed, AtMostOne
<1>4. DataInv
      BY <1>2 DEF DataInv
<1>5. ValueInv
      BY <1>1 DEF ValueInv, AtMostOne
<1>6. JobsInv
      BY <1>1 DEF JobsInv
<1>q. QED  BY <1>3, <1>4, <1>5, <1>6 DEF ParameterInv

\* A field that passes suits those before it, and those after it are still absent.
LEMMA FieldPasses ==
    ASSUME Typed, DataInv, todo # <<>>, ~Settled', doc' = doc, NEW K,
           data' = [data EXCEPT ![Head(todo)] = K],
           \A v \in K : \E w \in doc[Head(todo)] : /\ v \in Kept(Head(todo), w)
                                                   /\ Validates(Head(todo), w, data)
    PROVE  DataInv'
<1> DEFINE f == Head(todo)
<1>1. /\ f \in {"lo", "hi", "allowed", "default"}
      /\ f = "lo" => data.hi = {}
      /\ f \in {"lo", "hi"} => data.allowed = {}
      /\ f \in {"lo", "hi", "allowed"} => data.default = {}
      BY TodoSteps DEF Typed
<1>2. \A g \in {"lo", "hi", "allowed", "default"} : data'[g] = IF g = f THEN K ELSE data[g]
      BY <1>1 DEF Typed
<1>3. \A v \in K : \E w \in doc[f] : v \in Kept(f, w) /\ Validates(f, w, data)
      OBVIOUS
<1>4. doc \in Documents /\ doc.type \in JobParameterType
      BY DocumentsAssumption DEF Typed
<1> HIDE DEF f
<1>5. CASE f = "lo"
  <2>1. data'.hi = {} /\ data'.allowed = {} /\ data'.default = {}
        BY <1>1, <1>2, <1>5
  <2>q. QED  BY <2>1 DEF DataInv
<1>6. CASE f = "hi"
  <2>1. data'.hi = K /\ data'.allowed = {} /\ data'.default = {}
        BY <1>1, <1>2, <1>6
  <2>2. doc.type \in {"STRING", "PATH"} => \A h \in K : h # 0
        BY <1>3, <1>6, TextFields
  <2>q. QED  BY <2>1, <2>2 DEF DataInv
<1>7. CASE f = "allowed"
  <2>1. data'.lo = data.lo /\ data'.hi = data.hi /\ data'.allowed = K /\ data'.default = {}
        BY <1>1, <1>2, <1>7
  <2>2. doc.type \in {"STRING", "PATH"} =>
          \A v \in K : IsText(v) /\ Within(v, data.lo, data.hi)
        BY <1>3, <1>7, TextFields
  <2>3. /\ doc.type = "INT" => \A v \in K : v = Object("int", v.n) /\ Within(v, data.lo, data.hi)
        /\ doc.type = "FLOAT" => \A v \in K : v = Object("decimal", v.n) /\ Within(v, data.lo, data.hi)
        BY <1>3, <1>7, NumberFields
  <2>q. QED  BY <2>1, <2>2, <2>3 DEF DataInv
<1>8. CASE f = "default"
  <2>1. data'.lo = data.lo /\ data'.hi = data.hi /\ data'.allowed = data.allowed /\ data'.default = K
        BY <1>1, <1>2, <1>8
  <2>2. \A v : DefaultSuits(v, data)' <=> DefaultSuits(v, data)
        BY <2>1 DEF DefaultSuits
  <2>3. doc.type \in {"STRING", "PATH"} => \A v \in K : IsText(v) /\ DefaultSuits(v, data)
        BY <1>3, <1>8, TextFields
  <2>4. /\ doc.type = "INT" => \A v \in K : v = Object("int", v.n) /\ DefaultSuits(v, data)
        /\ doc.type = "FLOAT" => \A v \in K : v = Object("decimal", v.n) /\ DefaultSuits(v, data)
        BY <1>3, <1>8, NumberFields
  <2>5. /\ doc.type = "BOOL" => \A v \in K : v.py = "bool" /\ v.n \in {0, 1}
        /\ doc.type = "RANGE_EXPR" => \A v \in K : v.py = "digits"
        /\ doc.type \in ListTypes => \A v \in K : v \in doc.default /\ v.py = "list"
        BY <1>3, <1>4, <1>8, OtherDefaults
  <2>6. doc.type \in ListTypes => \A v \in K : v.items \in Seq(ItemsOf(v))
        BY <1>4, <2>5, DocumentsAssumption DEF ItemsOf
  <2>q. QED  BY <2>1, <2>2, <2>3, <2>4, <2>5, <2>6 DEF DataInv
<1>q. QED  BY <1>1, <1>5, <1>6, <1>7, <1>8

\* The default of a document is kept as one value, or none.
LEMMA OneDefault ==
    ASSUME doc \in Documents
    PROVE  AtMostOne(UNION {Kept("default", w) : w \in Known(doc.default)})
<1>1. AtMostOne(doc.default)
      BY DocumentsAssumption
<1>2. CASE Known(doc.default) = {}
      BY <1>2 DEF AtMostOne
<1>3. CASE Known(doc.default) # {}
  <2>1. PICK u : Known(doc.default) = {u}
        BY <1>1, <1>3 DEF Known, AtMostOne
  <2>2. \E x : Kept("default", u) = {x}
        BY KeptValues
  <2>3. UNION {Kept("default", w) : w \in {u}} = Kept("default", u)
        OBVIOUS
  <2>q. QED  BY <2>1, <2>2, <2>3 DEF AtMostOne
<1>q. QED  BY <1>2, <1>3

\* A step that validates a field keeps the invariant, if the field passes or not.
LEMMA ValidateFieldInv ==
    ASSUME ParameterInv, ValidateField
    PROVE  ParameterInv'
<1> DEFINE f == Head(todo)
           K == UNION {Kept(f, w) : w \in Known(doc[f])}
<1>1. /\ Typed /\ DataInv /\ ValueInv /\ JobsInv
      /\ doc \in Documents /\ phase = "decoding" /\ todo # <<>> /\ todo \in Rests
      /\ value = {} /\ jobs = <<>>
      BY DEF ParameterInv, ValidateField, Typed, ValueInv, JobsInv
<1>2. /\ doc' = doc /\ given' = given /\ value' = value /\ jobs' = jobs /\ todo' = Tail(todo)
      /\ phase' \in {"decoding", "raised"}
      /\ data' = data \/ data' = [data EXCEPT ![f] = K]
      BY <1>1 DEF ValidateField
<1>3. \/ phase' = "raised" /\ data' = data
      \/ phase' = "decoding" /\ data' = data
      \/ /\ phase' = "decoding" /\ data' = [data EXCEPT ![f] = K]
         /\ \/ doc[f] \subseteq {Null}
            \/ \A w \in doc[f] : Validates(f, w, data)
      BY <1>1 DEF ValidateField
<1>4. \A v \in K : \E w \in Known(doc[f]) : v \in Kept(f, w)
      OBVIOUS
<1>5. /\ f \in {"lo", "hi", "allowed", "default"} /\ Tail(todo) \in Rests
      /\ Ahead(f) /\ ~Among(Tail(todo), f) /\ \A g : Among(Tail(todo), g) => Ahead(g)
      BY <1>1, TodoSteps
<1>6. ~Settled' /\ ~Settled
      BY <1>1, <1>2 DEF Settled
<1>7. f = "default" => AtMostOne(K)
      BY <1>1, OneDefault
<1> HIDE DEF f, K
<1>8. Typed'
  <2>1. \A g : Ahead(g)' <=> Among(Tail(todo), g)
        BY <1>2 DEF Ahead
  <2>2. /\ DOMAIN data' = DOMAIN data /\ DOMAIN data = {"lo", "hi", "allowed", "default"}
        /\ \A g \in DOMAIN data : data'[g] = data[g] \/ (g = f /\ data'[g] = K)
        BY <1>1, <1>2 DEF Typed
  <2>3. \A g \in DOMAIN data' : Ahead(g)' => data'[g] = {}
        BY <1>1, <1>5, <2>1, <2>2 DEF Typed
  <2>4. AtMostOne(data'.default)
        BY <1>1, <1>7, <2>2 DEF Typed
  <2>q. QED  BY <1>1, <1>2, <1>5, <2>2, <2>3, <2>4 DEF Typed, Started
<1>9. DataInv'
  <2>1. CASE data' = data
        BY <1>1, <1>2, <1>6, <2>1, DataStays
  <2>2. CASE data' # data
    <3>1. data' = [data EXCEPT ![f] = K] /\ \A v \in K : \E w \in doc[f] : v \in Kept(f, w) /\ Validates(f, w, data)
          BY <1>3, <1>4, <2>2 DEF Known
    <3>q. QED  BY <1>1, <1>2, <1>6, <3>1, FieldPasses DEF f
  <2>q. QED  BY <2>1, <2>2
<1>10. ValueInv'
       BY <1>1, <1>2 DEF ValueInv
<1>11. JobsInv'
       BY <1>1, <1>2 DEF JobsInv
<1>q. QED  BY <1>8, <1>9, <1>10, <1>11 DEF ParameterInv

\* So does the validation of the whole model, which checks the default of a list.
LEMMA ValidateModelInv ==
    ASSUME ParameterInv, ValidateModel
    PROVE  ParameterInv'
<1>1. /\ Typed /\ DataInv /\ ValueInv /\ JobsInv
      /\ doc \in Documents /\ phase = "decoding" /\ todo = <<>> /\ value = {} /\ jobs = <<>>
      BY DEF ParameterInv, ValidateModel, Typed, ValueInv, JobsInv
<1>2. /\ doc' = doc /\ data' = data /\ given' = given /\ value' = value /\ jobs' = jobs /\ todo' = todo
      /\ phase' \in {"decoded", "invalid", "raised"}
      BY DEF ValidateModel
<1>3. phase' = "decoded" /\ doc.type \in ListTypes => \A v \in data.default : Checks(v, data) = "ok"
      BY DEF ValidateModel
<1>4. Typed'
      BY <1>1, <1>2 DEF Typed, Ahead, Started
<1>5. DataInv'
      BY <1>1, <1>2, <1>3, DataStays DEF Settled
<1>6. ValueInv'
      BY <1>1, <1>2 DEF ValueInv
<1>7. JobsInv'
      BY <1>1, <1>2 DEF JobsInv
<1>q. QED  BY <1>4, <1>5, <1>6, <1>7 DEF ParameterInv

----------------------------------------------------------------------------
(* Creating the job keeps the invariant.                                   *)

\* A value is collected: of an object that is given, or of the value of a job,
\* which comes out as it is.
LEMMA CollectInv ==
    ASSUME ParameterInv, NEW g, AtMostOne(g), Collect(g),
           \/ phase = "decoded"
           \/ phase = "created" /\ jobs = <<Job>> /\ g = value
    PROVE  ParameterInv'
<1>1. /\ Typed /\ DataInv /\ ValueInv /\ JobsInv
      /\ doc \in Documents /\ doc.type \in JobParameterType /\ todo = <<>> /\ AtMostOne(data.default)
      /\ phase = "decoded" => jobs = <<>>
      /\ Settled
      BY DocumentsAssumption DEF ParameterInv, Typed, JobsInv, Settled
<1>2. /\ doc' = doc /\ data' = data /\ jobs' = jobs /\ todo' = todo
      /\ given' = g /\ value' = Collected(g)
      /\ phase' = IF value' = {} THEN "refused" ELSE "collected"
      BY DEF Collect
<1>3. /\ \A v : Checks(v, data)' = Checks(v, data)
      /\ \A h : Collected(h)' = Collected(h)
      /\ Seeded' = Seeded
      BY <1>2, DefinitionStays
<1>4. /\ AtMostOne(Collected(g))
      /\ doc.type = "BOOL" =>
           \A v \in Collected(g) : ~IsText(v) /\ ((\A u \in g : IsText(u)) => v.py = "bool")
      BY <1>1, CollectedOnce
<1>5. jobs # <<>> => /\ value # {} /\ Collected(value) = value /\ value' = value
                     /\ \A v \in value : Checks(v, data) = "ok"
      BY <1>1, <1>2 DEF JobsInv, ValueInv
<1>6. Typed'
      BY <1>1, <1>2 DEF Typed, Ahead, Started
<1>7. DataInv'
      BY <1>1, <1>2, DataStays
<1>8. ValueInv'
  <2>1. value' = Collected(given)' /\ AtMostOne(given') /\ AtMostOne(value')
        BY <1>2, <1>3, <1>4
  <2>2. phase' = "refused" => value' = {}
        BY <1>2
  <2>3. phase' \in {"refused", "collected"} /\ (phase' = "collected" => value' # {})
        BY <1>2
  <2>q. QED  BY <1>2, <1>4, <2>1, <2>2, <2>3 DEF ValueInv
<1>9. JobsInv'
  <2>1. CASE jobs = <<>>
        BY <1>2, <2>1 DEF JobsInv
  <2>2. CASE jobs # <<>>
    <3>1. jobs = <<Job>> /\ Job' = Job
          BY <1>1, <1>2, <1>3, <1>5, <2>2 DEF Job
    <3>2. phase' = "collected" /\ value' = value /\ Collected(value)' = value
          BY <1>2, <1>3, <1>5, <2>2
    <3>3. \A v \in value : Checks(v, data)' = "ok"
          BY <1>3, <1>5, <2>2
    <3>4. jobs # <<Job, Job>>
          BY <3>1
    <3>q. QED  BY <1>2, <3>1, <3>2, <3>3, <3>4 DEF JobsInv
  <2>q. QED  BY <2>1, <2>2
<1>q. QED  BY <1>6, <1>7, <1>8, <1>9 DEF ParameterInv

\* A first submission keeps the invariant: there is no job yet.
LEMMA SubmitInv ==
    ASSUME ParameterInv, Submit
    PROVE  ParameterInv'
<1>1. PICK g \in {{}} \cup {{v} : v \in Submissions} : Collect(g)
      BY DEF Submit
<1>2. AtMostOne(g) /\ phase = "decoded"
      BY DEF AtMostOne, Submit
<1>q. QED  BY <1>1, <1>2, CollectInv

\* So does a second one, of the value in the one job there is.
LEMMA ResubmitInv ==
    ASSUME ParameterInv, Resubmit
    PROVE  ParameterInv'
<1>1. phase = "created" /\ Len(jobs) = 1 /\ Collect(jobs[1].value)
      BY DEF Resubmit
<1>2. jobs \in {<<>>, <<Job>>, <<Job, Job>>} /\ AtMostOne(value)
      BY DEF ParameterInv, JobsInv, ValueInv
<1>3. jobs = <<Job>>
      BY <1>1, <1>2
<1>4. jobs[1].value = value
      BY <1>3 DEF Job
<1>q. QED  BY <1>1, <1>2, <1>3, <1>4, CollectInv

\* What a check comes to.
LEMMA CheckOutcomes ==
    ASSUME doc.type \in JobParameterType
    PROVE  \A v, d : Checks(v, d) \in {"ok", "ValueError", "InvalidOperation"}
<1>1. \A refused : Raises(refused) \in {"ok", "ValueError"}
      BY DEF Raises
<1>2. \A v, d : /\ StringChecks(v, d) \in {"ok", "ValueError"}
                /\ PathChecks(v, d) \in {"ok", "ValueError"}
                /\ IntChecks(v, d) \in {"ok", "ValueError"}
                /\ FloatChecks(v, d) \in {"ok", "ValueError", "InvalidOperation"}
                /\ BoolChecks(v) \in {"ok", "ValueError"}
                /\ RangeChecks(v) \in {"ok", "ValueError"}
                /\ ListChecks(v, d) \in {"ok", "ValueError", "InvalidOperation"}
      BY DEF StringChecks, PathChecks, IntChecks, FloatChecks, BoolChecks, RangeChecks,
             ListChecks, Raises
<1>3. doc.type \in {"STRING", "PATH", "INT", "FLOAT", "BOOL", "RANGE_EXPR"} \/ doc.type \in ListTypes
      BY TypesApart DEF JobParameterType
<1>q. QED  BY <1>2, <1>3, TypesApart DEF Checks

\* Checking the value keeps the invariant: a value in a job passes again.
LEMMA CheckInv ==
    ASSUME ParameterInv, Check
    PROVE  ParameterInv'
<1>1. /\ Typed /\ DataInv /\ ValueInv /\ JobsInv
      /\ doc \in Documents /\ doc.type \in JobParameterType
      /\ phase = "collected" /\ value # {} /\ AtMostOne(value)
      BY DocumentsAssumption DEF ParameterInv, Typed, ValueInv, Check
<1>2. PICK v : value = {v}
      BY <1>1, OneOrNone
<1>3. /\ doc' = doc /\ data' = data /\ given' = given /\ value' = value /\ jobs' = jobs /\ todo' = todo
      BY DEF Check
<1>4. phase' = CASE Checks(v, data) = "ok" -> "checked"
                 [] Checks(v, data) = "ValueError" -> "refused"
                 [] Checks(v, data) = "InvalidOperation" -> "raised"
      BY <1>2 DEF Check
<1>5. \/ Checks(v, data) = "ok" /\ phase' = "checked"
      \/ Checks(v, data) # "ok" /\ phase' \in {"refused", "raised"}
      BY <1>1, <1>4, CheckOutcomes
<1>6. /\ \A w : Checks(w, data)' = Checks(w, data)
      /\ \A h : Collected(h)' = Collected(h)
      /\ Seeded' = Seeded
      BY <1>3, DefinitionStays
<1>7. Typed'
      BY <1>1, <1>3, <1>5 DEF Typed, Ahead, Started
<1>8. DataInv'
      BY <1>1, <1>3, DataStays DEF Settled
<1>9. ValueInv'
  <2>1. Collected(given)' = Collected(given)
        BY <1>3, <1>6
  <2>2. Checks(v, data)' = Checks(v, data)
        BY <1>6
  <2>q. QED  BY <1>1, <1>2, <1>3, <1>5, <2>1, <2>2 DEF ValueInv
<1>10. JobsInv'
  <2>1. Job' = Job /\ Collected(value)' = Collected(value) /\ \A w : Checks(w, data)' = Checks(w, data)
        BY <1>3, <1>6 DEF Job
  <2>2. jobs # <<>> => phase' = "checked"
        BY <1>1, <1>2, <1>5 DEF JobsInv
  <2>3. phase' # "created"
        BY <1>5
  <2>q. QED  BY <1>1, <1>3, <2>1, <2>2, <2>3 DEF JobsInv
<1>q. QED  BY <1>7, <1>8, <1>9, <1>10 DEF ParameterInv

\* Making the job keeps the invariant: its value is collected as it is.
LEMMA CreateJobInv ==
    ASSUME ParameterInv, CreateJob
    PROVE  ParameterInv'
<1>1. /\ Typed /\ DataInv /\ ValueInv /\ JobsInv
      /\ doc \in Documents /\ doc.type \in JobParameterType /\ AtMostOne(data.default)
      /\ phase = "checked" /\ value # {} /\ value = Collected(given) /\ AtMostOne(given)
      /\ \A v \in value : Checks(v, data) = "ok"
      BY DocumentsAssumption DEF ParameterInv, Typed, ValueInv, CreateJob
<1>2. /\ doc' = doc /\ data' = data /\ given' = given /\ value' = value /\ todo' = todo
      /\ jobs' = Append(jobs, Job) /\ phase' = "created"
      BY DEF CreateJob, Job
<1>3. /\ \A w : Checks(w, data)' = Checks(w, data)
      /\ \A h : Collected(h)' = Collected(h)
      /\ Seeded' = Seeded
      BY <1>2, DefinitionStays
<1>4. Collected(value) = value
      BY <1>1, CollectedOnce
<1>5. Typed'
      BY <1>1, <1>2 DEF Typed, Ahead, Started
<1>6. DataInv'
      BY <1>1, <1>2, DataStays DEF Settled
<1>7. ValueInv'
  <2>1. Collected(given)' = Collected(given)
        BY <1>2, <1>3
  <2>q. QED  BY <1>1, <1>2, <1>3, <2>1 DEF ValueInv
<1>8. JobsInv'
  <2>1. jobs = <<>> \/ jobs = <<Job>>
        BY <1>1 DEF JobsInv
  <2>2. jobs' = <<Job>> \/ jobs' = <<Job, Job>>
    <3>1. Append(<<>>, Job) = <<Job>>
          OBVIOUS
    <3>2. Append(<<Job>>, Job) = <<Job, Job>>
      <4>1. <<Job>> \in Seq({Job}) /\ Len(<<Job>>) = 1 /\ <<Job>>[1] = Job
            OBVIOUS
      <4>2. <<Job, Job>> \in Seq({Job}) /\ Len(<<Job, Job>>) = 2
            /\ \A i \in 1 .. 2 : <<Job, Job>>[i] = Job
            OBVIOUS
      <4>3. /\ Append(<<Job>>, Job) \in Seq({Job}) /\ Len(Append(<<Job>>, Job)) = 2
            /\ \A i \in 1 .. 2 : Append(<<Job>>, Job)[i] = Job
            BY <4>1, AppendProperties
      <4>q. QED  BY <4>2, <4>3, SeqEqual
    <3>q. QED  BY <1>2, <2>1, <3>1, <3>2
  <2>3. Job' = Job /\ Collected(value)' = value
        BY <1>2, <1>3, <1>4 DEF Job
  <2>4. jobs' # <<>>
        BY <2>2
  <2>q. QED  BY <1>1, <1>2, <1>3, <2>2, <2>3, <2>4 DEF JobsInv
<1>q. QED  BY <1>5, <1>6, <1>7, <1>8 DEF ParameterInv

\* A step that changes nothing keeps the invariant.
LEMMA StutterInv ==
    ASSUME ParameterInv, UNCHANGED vars
    PROVE  ParameterInv'
<1>1. /\ doc' = doc /\ data' = data /\ given' = given /\ value' = value /\ todo' = todo
      /\ jobs' = jobs /\ phase' = phase
      BY DEF vars
<1>2. /\ \A w : Checks(w, data)' = Checks(w, data)
      /\ \A h : Collected(h)' = Collected(h)
      /\ Seeded' = Seeded
      BY <1>1, DefinitionStays
<1>3. Typed'
      BY <1>1 DEF ParameterInv, Typed, Ahead
<1>4. DataInv'
      BY <1>1, DataStays DEF ParameterInv, Settled
<1>5. ValueInv'
  <2>1. Collected(given)' = Collected(given)
        BY <1>1, <1>2
  <2>q. QED  BY <1>1, <1>2, <2>1 DEF ParameterInv, ValueInv
<1>6. JobsInv'
  <2>1. Job' = Job /\ Collected(value)' = Collected(value)
        BY <1>1, <1>2 DEF Job
  <2>q. QED  BY <1>1, <1>2, <2>1 DEF ParameterInv, JobsInv
<1>q. QED  BY <1>3, <1>4, <1>5, <1>6 DEF ParameterInv

\* ParameterInv holds always: every step of a definition keeps it.
LEMMA ParameterIsInv == Spec => []ParameterInv
<1>1. ParameterInv /\ [Next]_vars => ParameterInv'
      BY ValidateFieldInv, ValidateModelInv, SubmitInv, CheckInv, CreateJobInv, ResubmitInv,
         StutterInv DEF Next
<1>q. QED  BY InitInv, <1>1, PTL DEF Spec

----------------------------------------------------------------------------
(* What a definition and a job promise.                                    *)

\* A definition never refuses, or fails on, its own default or one of its own allowed
\* values, given any documents: the decoder's rules imply _check_constraints.
THEOREM OwnValuesAlwaysPass == Spec => []OwnValuesPass
<1>1. ParameterInv => OwnValuesPass
  <2> SUFFICES ASSUME ParameterInv, phase = "refused" \/ (phase = "raised" /\ value # {})
               PROVE  (given = {} => data.default = {}) /\ \A v \in given : ~Listed(v)
      BY DEF OwnValuesPass, Listed
  <2>1. /\ DataInv /\ doc.type \in JobParameterType /\ AtMostOne(data.default) /\ AtMostOne(given)
        /\ value = Collected(given) /\ Settled
        /\ \A v \in value : Checks(v, data) # "ok"
        BY DocumentsAssumption DEF ParameterInv, Typed, ValueInv, Settled
  <2>2. given = {} => data.default = {}
    <3>1. doc.type \in ListTypes => \A v \in data.default : Checks(v, data) = "ok"
          BY <2>1 DEF DataInv
    <3>q. QED  BY <2>1, <3>1, DefaultPasses
  <2>3. ASSUME NEW u \in given, Listed(u)
        PROVE  FALSE
    <3>1. doc.type \in LegacyTypes /\ Checks(Str(u), data) = "ok"
          BY <2>1, <2>3, ListedPasses
    <3>2. value = {Str(v) : v \in given}
          BY <2>1, <2>3, <3>1 DEF Collected
    <3>q. QED  BY <2>1, <2>3, <3>1, <3>2
  <2>q. QED  BY <2>2, <2>3
<1>q. QED  BY ParameterIsInv, <1>1, PTL

\* A job that is created again from its own value is the same, and creating it again
\* never fails: coercion is done once and for all.
THEOREM SameJobEveryTime == Spec => []SameJobAgain
<1>1. ParameterInv => SameJobAgain
  <2> SUFFICES ASSUME ParameterInv  PROVE SameJobAgain
      OBVIOUS
  <2>1. /\ jobs \in {<<>>, <<Job>>, <<Job, Job>>}
        /\ jobs # <<>> => phase \in {"collected", "checked", "created"}
        BY DEF ParameterInv, JobsInv
  <2>2. Len(jobs) = 2 => jobs = <<Job, Job>>
        BY <2>1
  <2>3. Len(jobs) = 1 => jobs # <<>>
        OBVIOUS
  <2>q. QED  BY <2>1, <2>2, <2>3 DEF SameJobAgain
<1>q. QED  BY ParameterIsInv, <1>1, PTL

\* The symbols that a job's parameter provides are those that the validation of the
\* template takes to be there, with the types it takes them to have.
THEOREM SymbolsAlwaysAsDeclared == Spec => []SymbolsAsDeclared
<1>1. ParameterInv => SymbolsAsDeclared
  <2> SUFFICES ASSUME ParameterInv  PROVE SymbolsAsDeclared
      OBVIOUS
  <2>1. jobs \in {<<>>, <<Job>>, <<Job, Job>>}
        BY DEF ParameterInv, JobsInv
  <2>2. \A k \in DOMAIN jobs : jobs[k].symbols = Seeded
        BY <2>1 DEF Job
  <2>3. Seeded = Declared
        BY DEF Seeded, Declared
  <2>q. QED  BY <2>2, <2>3 DEF SymbolsAsDeclared
<1>q. QED  BY ParameterIsInv, <1>1, PTL

\* The value of a job keeps to the limits, the list and the items of its definition, and
\* a BOOL or a list given as text has become one, whatever was submitted.
THEOREM JobValuesSuit == Spec => []JobValueSuits
<1>1. ParameterInv => JobValueSuits
  <2> SUFFICES ASSUME ParameterInv, jobs # <<>>, NEW v \in value
               PROVE  /\ doc.type \in {"STRING", "PATH"} =>
                           Within(v, data.lo \ {0}, data.hi) /\ (data.allowed # {} => v \in data.allowed)
                      /\ doc.type \in {"INT", "FLOAT"} /\ v.py = "digits" =>
                           /\ \A l \in data.lo \ {0} : l <= v.n
                           /\ \A h \in data.hi \ {0} : v.n <= h
                           /\ data.allowed # {} => \E a \in data.allowed : a.n = v.n
                      /\ doc.type \in ListTypes =>
                           /\ v.py = "list" /\ Within(v, data.lo, data.hi)
                           /\ doc.type = "LIST[BOOL]" => \A i \in ItemsOf(v) : i.py = "bool"
                           /\ doc.type # "LIST[BOOL]" => \A i \in ItemsOf(v) : CheckItem(i, doc.item)
                      /\ doc.type = "BOOL" /\ (\A g \in given : IsText(g)) => v.py = "bool"
    <3>1. ParameterInv => jobs \in {<<>>, <<Job>>, <<Job, Job>>}
          BY DEF ParameterInv, JobsInv
    <3>2. ParameterInv => \A k \in DOMAIN jobs : jobs[k].value = value /\ jobs # <<>>
          BY <3>1 DEF Job
    <3>q. QED  BY <3>2 DEF JobValueSuits
  <2>1. /\ DataInv /\ ValueInv /\ Collected(value) = value /\ Checks(v, data) = "ok"
        /\ AtMostOne(value)
        BY DEF ParameterInv, JobsInv, ValueInv
  <2>2. ASSUME doc.type \in {"STRING", "PATH"}
        PROVE  Within(v, data.lo \ {0}, data.hi) /\ (data.allowed # {} => v \in data.allowed)
    <3>1. StringChecks(v, data) = "ok" \/ PathChecks(v, data) = "ok"
          BY <2>1, <2>2, TypesApart DEF Checks
    <3>2. Within(v, True(data.lo), True(data.hi)) /\ (data.allowed # {} => v \in data.allowed)
          BY <3>1 DEF StringChecks, PathChecks, Raises
    <3>3. \A h \in data.hi : h # 0
          BY <2>1, <2>2 DEF DataInv
    <3>q. QED  BY <3>2, <3>3 DEF Within, True
  <2>3. ASSUME doc.type \in {"INT", "FLOAT"}, v.py = "digits"
        PROVE  /\ \A l \in data.lo \ {0} : l <= v.n
               /\ \A h \in data.hi \ {0} : v.n <= h
               /\ data.allowed # {} => \E a \in data.allowed : a.n = v.n
    <3>1. IntChecks(v, data) = "ok" \/ FloatChecks(v, data) = "ok"
          BY <2>1, <2>3, TypesApart DEF Checks
    <3>2. PICK py \in {"int", "decimal"} :
            /\ data.allowed # {} => Object(py, v.n) \in data.allowed
            /\ Within(Object(py, v.n), True(data.lo), True(data.hi))
          BY <2>3, <3>1 DEF IntChecks, FloatChecks, Raises
    <3>3. Measure(Object(py, v.n)) = v.n /\ Object(py, v.n).n = v.n
          BY DEF Measure, IsNumber, Object
    <3>q. QED  BY <3>2, <3>3 DEF Within, True
  <2>4. ASSUME doc.type \in ListTypes
        PROVE  /\ v.py = "list" /\ Within(v, data.lo, data.hi)
               /\ doc.type = "LIST[BOOL]" => \A i \in ItemsOf(v) : i.py = "bool"
               /\ doc.type # "LIST[BOOL]" => \A i \in ItemsOf(v) : CheckItem(i, doc.item)
    <3>1. ListChecks(v, data) = "ok"
          BY <2>1, <2>4, TypesApart DEF Checks, ListTypes
    <3>2. ASSUME doc.type = "LIST[BOOL]"
          PROVE  \A i \in ItemsOf(v) : i.py = "bool"
      <4>1. value = {v}
            BY <2>1 DEF AtMostOne
      <4>2. Coerced(v) = Bools(v)
            BY <3>1, <3>2, ListInOrder, TypesApart DEF Coerced, IsText, Texts
      <4>3. Collected(value) = UNION {Coerced(u) : u \in value}
            BY <4>1, <3>2, TypesApart DEF Collected
      <4>4. UNION {Coerced(u) : u \in {v}} = Coerced(v)
            OBVIOUS
      <4>5. v \in Bools(v)
            BY <2>1, <4>1, <4>2, <4>3, <4>4
      <4>q. QED  BY <4>5, BoolsAgain
    <3>q. QED  BY <3>1, <3>2, ListInOrder
  <2>5. doc.type = "BOOL" /\ (\A g \in given : IsText(g)) => v.py = "bool"
        BY <2>1 DEF ValueInv
  <2>q. QED  BY <2>2, <2>3, <2>4, <2>5
<1>q. QED  BY ParameterIsInv, <1>1, PTL
=============================================================================
