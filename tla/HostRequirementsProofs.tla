------------------------ MODULE HostRequirementsProofs ------------------------
(***************************************************************************)
(* The host requirements, proved for every vocabulary and all documents.   *)
(*                                                                         *)
(* What LateAsEarly says of a job that is created or refused is, entry by  *)
(* entry, that the rules for jobs and those for templates agree once the   *)
(* parameters' words are written in (AmountAgrees, AttributeAgrees); what  *)
(* the steps contribute is that every entry has been asked, in the         *)
(* decoding and in the making of the job, and that its answer is kept.     *)
(* This is the invariant HostInv.                                          *)
(***************************************************************************)
EXTENDS HostRequirements, FiniteSetTheorems, SequenceTheorems, TLAPS

TheList(f) == CHOOSE list \in doc[f] : TRUE
Entries(f) == IF doc[f] = {} THEN 0 ELSE Len(TheList(f))
Items(f)   == IF doc[f] = {} THEN 0 ELSE Len(TheList(f)) + 1
Before(f)  == IF f = "amounts" THEN 0 ELSE Items("amounts")
Item       == (Fields \cup {"whole"}) \X Nat

\* How far the agenda is done, and which entries that covers.
Done         == Len(Agenda) - Len(todo)
IsDone(f, k) == Before(f) + k <= Done

Resolved(f, k) == IF f = "amounts" THEN ResolvedAmount(Entry(f, k), env)
                  ELSE ResolvedAttribute(Entry(f, k), env)
Suits(f, entry) == IF f = "amounts" THEN AmountSuits(entry) ELSE AttributeSuits(entry)
Template(f, entry) == IF f = "amounts" THEN AmountTemplate(entry) ELSE AttributeTemplate(entry)

Making == {"instantiating", "created", "refused"}
NoEntryFailed == \A f \in Fields : \A k \in 1 .. Entries(f) : <<f, k>> \notin errors

\* todo is the rest of the agenda.
TodoIsRest ==
    /\ todo \in Seq(Item) /\ Len(todo) <= Len(Agenda)
    /\ \A j \in 1 .. Len(todo) : todo[j] = Agenda[Done + j]

Typed ==
    /\ doc \in Documents /\ features \in BOOLEAN
    /\ phase \in {"decoding", "decoded", "invalid", "raised"} \cup Making
    /\ TodoIsRest
    /\ phase \in Making => env \in [Used -> Words]
    /\ DOMAIN made = Fields

\* Without an error all entries done have been accepted, and a template that is
\* decoded has had all of them done.
Accepted ==
    /\ phase = "decoding" /\ errors = {} =>
         \A f \in Fields : \A k \in 1 .. Entries(f) : IsDone(f, k) => Template(f, Entry(f, k)) = "ok"
    /\ phase \in {"decoded"} \cup Making =>
         \A f \in Fields : \A k \in 1 .. Entries(f) : Template(f, Entry(f, k)) = "ok"

\* An entry has an error if it has been asked and does not suit.
Answered ==
    phase \in Making =>
      \A f \in Fields : \A k \in 1 .. Entries(f) :
        <<f, k>> \in errors <=> IsDone(f, k) /\ ~Suits(f, Resolved(f, k))

\* As long as no entry has failed, the entries done are in the job, in place.
Placed ==
    phase \in Making /\ NoEntryFailed =>
      \A f \in Fields :
        /\ made[f] \in Seq({Resolved(f, k) : k \in 1 .. Entries(f)})
        /\ Len(made[f]) <= Entries(f)
        /\ \A k \in 1 .. Entries(f) : k <= Len(made[f]) <=> IsDone(f, k)
        /\ \A k \in 1 .. Len(made[f]) : made[f][k] = Resolved(f, k)

\* The other errors come last, and tell which field names something twice.
Compared ==
    phase \in Making =>
      /\ \A e \in errors :
           \/ \E f \in Fields : \E k \in 1 .. Entries(f) : e = <<f, k>>
           \/ \E f \in Fields : e = <<f, 0>> /\ todo = <<>> /\ NoEntryFailed /\ ~Unique(made[f])
      /\ todo = <<>> /\ errors = {} => \A f \in Fields : Unique(made[f])

Ended ==
    /\ phase = "created" => todo = <<>> /\ errors = {}
    /\ phase = "refused" => todo = <<>> /\ errors # {}

HostInv == Typed /\ Accepted /\ Answered /\ Placed /\ Compared /\ Ended

----------------------------------------------------------------------------
(* Sequences.                                                              *)

\* A sequence of one element.
LEMMA OneElement ==
    ASSUME NEW S, NEW e \in S
    PROVE  <<e>> \in Seq(S) /\ Len(<<e>>) = 1 /\ <<e>>[1] = e
OBVIOUS

\* Items of the agenda.
LEMMA ItemType ==
    /\ \A f \in Fields : \A k \in Nat : <<f, k>> \in Item
    /\ <<"whole", 0>> \in Item
BY DEF Item

----------------------------------------------------------------------------
(* The document and its agenda.                                            *)

\* The lists of a document are the ones of its fields.
LEMMA ListsOfDoc ==
    ASSUME doc \in Documents, NEW f \in Fields
    PROVE  /\ Entries(f) \in Nat /\ Items(f) \in Nat /\ Before(f) \in Nat
           /\ Items(f) = IF doc[f] = {} THEN 0 ELSE Entries(f) + 1
           /\ \A list \in doc[f] : /\ list = TheList(f) /\ DOMAIN list = 1 .. Len(list)
                                   /\ Len(list) = Entries(f)
                                   /\ \A k : Entry(f, k) = list[k]
           /\ doc[f] # {} => TheList(f) \in doc[f]
<1>1. \A g \in Fields : AtMostOne(doc[g]) /\ \A list \in doc[g] : IsList(list)
      BY DocumentsAssumption
<1>2. \A g \in Fields : doc[g] # {} => TheList(g) \in doc[g]
      BY DEF TheList
<1>3. \A g \in Fields : \A list \in doc[g] : list = TheList(g) /\ IsList(list)
      BY <1>1, <1>2 DEF AtMostOne
<1>4. \A g \in Fields : Entries(g) \in Nat /\ Items(g) \in Nat
      BY <1>2, <1>3 DEF Entries, Items, IsList
<1>5. Before(f) \in Nat
      BY <1>4 DEF Before, Fields
<1>6. ASSUME NEW list \in doc[f]
      PROVE  /\ list = TheList(f) /\ DOMAIN list = 1 .. Len(list) /\ Len(list) = Entries(f)
             /\ \A k : Entry(f, k) = list[k]
      BY <1>3, <1>6 DEF Entries, IsList, Entry, TheList
<1>q. QED  BY <1>2, <1>4, <1>5, <1>6 DEF Items, Entries

\* An entry has the shape that its field has.
LEMMA EntryShapes ==
    ASSUME doc \in Documents, NEW f \in Fields, NEW k \in 1 .. Entries(f)
    PROVE  /\ doc[f] # {} /\ TheList(f) \in doc[f] /\ k \in DOMAIN TheList(f)
           /\ Entry(f, k) = TheList(f)[k]
           /\ f = "amounts" => AmountShape(Entry(f, k))
           /\ f = "attributes" => AttributeShape(Entry(f, k))
<1>1. doc[f] # {}
      BY DEF Entries
<1>2. TheList(f) \in doc[f] /\ k \in DOMAIN TheList(f) /\ Entry(f, k) = TheList(f)[k]
      BY <1>1, ListsOfDoc
<1>q. QED  BY <1>1, <1>2, DocumentsAssumption

\* The part of the agenda that is about one field.
PartOf(f) == IF doc[f] = {} THEN <<>>
             ELSE [k \in 1 .. Len(CHOOSE list \in doc[f] : TRUE) |-> <<f, k>>] \o <<<<f, 0>>>>

LEMMA PartShape ==
    ASSUME doc \in Documents, NEW f \in Fields
    PROVE  /\ PartOf(f) \in Seq(Item) /\ Len(PartOf(f)) = Items(f)
           /\ \A i \in 1 .. Items(f) :
                PartOf(f)[i] = IF i <= Entries(f) THEN <<f, i>> ELSE <<f, 0>>
<1>1. CASE doc[f] = {}
      BY <1>1, EmptySeq DEF PartOf, Items
<1>2. CASE doc[f] # {}
  <2> DEFINE n == Len(TheList(f))
             es == [k \in 1 .. n |-> <<f, k>>]
             end == <<<<f, 0>>>>
  <2>1. n \in Nat /\ n = Entries(f) /\ Items(f) = n + 1
        BY <1>2, ListsOfDoc
  <2>2. PartOf(f) = es \o end
        BY <1>2 DEF PartOf, TheList
  <2>3. end \in Seq(Item) /\ Len(end) = 1 /\ end[1] = <<f, 0>>
        BY ItemType, OneElement
  <2> HIDE DEF n, end
  <2>4. \A k \in 1 .. n : <<f, k>> \in Item
        BY <2>1, ItemType
  <2>5. es \in Seq(Item) /\ Len(es) = n /\ \A k \in 1 .. n : es[k] = <<f, k>>
        BY <2>1, <2>4
  <2> HIDE DEF es
  <2>6. /\ PartOf(f) \in Seq(Item) /\ Len(PartOf(f)) = n + 1
        /\ \A i \in 1 .. n : PartOf(f)[i] = es[i]
        /\ \A i \in 1 .. 1 : PartOf(f)[n + i] = end[i]
    <3>1. /\ es \o end \in Seq(Item) /\ Len(es \o end) = Len(es) + Len(end)
          /\ \A i \in 1 .. Len(es) + Len(end) :
               (es \o end)[i] = IF i <= Len(es) THEN es[i] ELSE end[i - Len(es)]
          BY <2>3, <2>5, ConcatProperties
    <3>q. QED  BY <3>1, <2>1, <2>2, <2>3, <2>5
  <2>7. PartOf(f)[n + 1] = <<f, 0>>
        BY <2>3, <2>6
  <2>8. ASSUME NEW i \in 1 .. n + 1
        PROVE  PartOf(f)[i] = IF i <= n THEN <<f, i>> ELSE <<f, 0>>
    <3>1. CASE i <= n
          BY <3>1, <2>1, <2>5, <2>6
    <3>2. CASE ~(i <= n)
      <4>1. i = n + 1
            BY <3>2, <2>1
      <4>q. QED  BY <3>2, <4>1, <2>7
    <3>q. QED  BY <3>1, <3>2
  <2>q. QED  BY <2>1, <2>6, <2>8
<1>q. QED  BY <1>1, <1>2

\* The agenda has every entry of the document once, and otherwise the fields and
\* the whole, which come after the entries they are about.
LEMMA AgendaShape ==
    ASSUME doc \in Documents
    PROVE  /\ Agenda \in Seq(Item)
           /\ Len(Agenda) = Items("amounts") + Items("attributes") + 1
           /\ \A f \in Fields : \A k \in 1 .. Entries(f) :
                Before(f) + k \in 1 .. Len(Agenda) - 1 /\ Agenda[Before(f) + k] = <<f, k>>
           /\ \A i \in 1 .. Len(Agenda) :
                \/ \E f \in Fields : \E k \in 1 .. Entries(f) : i = Before(f) + k
                \/ \E f \in Fields : /\ doc[f] # {} /\ Agenda[i] = <<f, 0>> /\ i < Len(Agenda)
                                     /\ i = Before(f) + Items(f)
                \/ i = Len(Agenda) /\ Agenda[i] = <<"whole", 0>>
<1> DEFINE a == Items("amounts")
           b == Items("attributes")
           ab == PartOf("amounts") \o PartOf("attributes")
           last == <<<<"whole", 0>>>>
<1>1. "amounts" \in Fields /\ "attributes" \in Fields
      BY DEF Fields
<1>2. /\ a \in Nat /\ b \in Nat /\ Entries("amounts") \in Nat /\ Entries("attributes") \in Nat
      /\ a = IF doc["amounts"] = {} THEN 0 ELSE Entries("amounts") + 1
      /\ b = IF doc["attributes"] = {} THEN 0 ELSE Entries("attributes") + 1
      BY <1>1, ListsOfDoc
<1>3. /\ PartOf("amounts") \in Seq(Item) /\ Len(PartOf("amounts")) = a
      /\ PartOf("attributes") \in Seq(Item) /\ Len(PartOf("attributes")) = b
      BY <1>1, PartShape
<1>4. last \in Seq(Item) /\ Len(last) = 1 /\ last[1] = <<"whole", 0>>
      BY ItemType, OneElement
<1>5. Agenda = ab \o last
      BY DEF Agenda, PartOf
<1> HIDE DEF a, b
<1>6. /\ ab \in Seq(Item) /\ Len(ab) = a + b
      /\ \A i \in 1 .. a : ab[i] = PartOf("amounts")[i]
      /\ \A i \in 1 .. b : ab[a + i] = PartOf("attributes")[i]
  <2> DEFINE s == PartOf("amounts")
             t == PartOf("attributes")
  <2>1. /\ s \in Seq(Item) /\ Len(s) = a /\ t \in Seq(Item) /\ Len(t) = b /\ ab = s \o t
        BY <1>3
  <2> HIDE DEF s, t, ab
  <2>2. /\ s \o t \in Seq(Item) /\ Len(s \o t) = Len(s) + Len(t)
        /\ \A i \in 1 .. Len(s) + Len(t) :
             (s \o t)[i] = IF i <= Len(s) THEN s[i] ELSE t[i - Len(s)]
        BY <2>1, ConcatProperties
  <2>3. /\ ab \in Seq(Item) /\ Len(ab) = a + b
        /\ \A i \in 1 .. a + b : ab[i] = IF i <= a THEN s[i] ELSE t[i - a]
        BY <2>1, <2>2
  <2>4. a \in Nat /\ b \in Nat
        BY <1>2
  <2>5. \A i \in 1 .. a : ab[i] = s[i]
        BY <2>3, <2>4
  <2>6. ASSUME NEW i \in 1 .. b  PROVE ab[a + i] = t[i]
    <3>1. a + i \in 1 .. a + b /\ ~(a + i <= a) /\ (a + i) - a = i
          BY <2>4
    <3>q. QED  BY <2>3, <3>1
  <2>q. QED  BY <2>3, <2>5, <2>6 DEF s, t
<1> HIDE DEF ab, last
<1>7. /\ Agenda \in Seq(Item) /\ Len(Agenda) = (a + b) + 1
      /\ \A i \in 1 .. a + b : Agenda[i] = ab[i]
      /\ \A i \in 1 .. 1 : Agenda[(a + b) + i] = last[i]
  <2>1. a + b \in Nat
        BY <1>2
  <2>2. /\ ab \o last \in Seq(Item) /\ Len(ab \o last) = Len(ab) + Len(last)
        /\ \A i \in 1 .. Len(ab) + Len(last) :
             (ab \o last)[i] = IF i <= Len(ab) THEN ab[i] ELSE last[i - Len(ab)]
        BY <1>4, <1>6, ConcatProperties
  <2>q. QED  BY <2>1, <2>2, <1>4, <1>5, <1>6
<1>8. \A i \in 1 .. a : Agenda[i] = IF i <= Entries("amounts") THEN <<"amounts", i>> ELSE <<"amounts", 0>>
  <2>1. ASSUME NEW i \in 1 .. a  PROVE Agenda[i] = PartOf("amounts")[i]
    <3>1. i \in 1 .. a + b
          BY <1>2
    <3>q. QED  BY <3>1, <1>6, <1>7
  <2>2. \A i \in 1 .. a : PartOf("amounts")[i] =
                            IF i <= Entries("amounts") THEN <<"amounts", i>> ELSE <<"amounts", 0>>
        BY <1>1, PartShape DEF a
  <2>q. QED  BY <2>1, <2>2
<1>9. \A i \in 1 .. b : Agenda[a + i] = IF i <= Entries("attributes") THEN <<"attributes", i>>
                                        ELSE <<"attributes", 0>>
  <2>1. ASSUME NEW i \in 1 .. b  PROVE Agenda[a + i] = PartOf("attributes")[i]
    <3>1. a + i \in 1 .. a + b
          BY <1>2
    <3>q. QED  BY <3>1, <1>6, <1>7
  <2>2. \A i \in 1 .. b : PartOf("attributes")[i] =
                            IF i <= Entries("attributes") THEN <<"attributes", i>> ELSE <<"attributes", 0>>
        BY <1>1, PartShape DEF b
  <2>q. QED  BY <2>1, <2>2
<1>10. Agenda[a + b + 1] = <<"whole", 0>>
       BY <1>4, <1>7
<1>11. Before("amounts") = 0 /\ Before("attributes") = a
       BY DEF Before, a
<1>12. ASSUME NEW f \in Fields, NEW k \in 1 .. Entries(f)
       PROVE  Before(f) + k \in 1 .. Len(Agenda) - 1 /\ Agenda[Before(f) + k] = <<f, k>>
  <2>1. CASE f = "amounts"
    <3>1. k \in 1 .. a /\ k <= Entries("amounts")
          BY <2>1, <1>2 DEF Entries
    <3>2. Before(f) + k = k /\ k \in 1 .. Len(Agenda) - 1
          BY <2>1, <3>1, <1>2, <1>7, <1>11
    <3>q. QED  BY <2>1, <3>1, <3>2, <1>8
  <2>2. CASE f = "attributes"
    <3>1. k \in 1 .. b /\ k <= Entries("attributes")
          BY <2>2, <1>2 DEF Entries
    <3>2. a + k \in 1 .. (a + b + 1) - 1
          BY <3>1, <1>2
    <3>3. Before(f) + k = a + k /\ a + k \in 1 .. Len(Agenda) - 1
          BY <2>2, <3>2, <1>7, <1>11
    <3>q. QED  BY <2>2, <3>1, <3>3, <1>9
  <2>q. QED  BY <2>1, <2>2 DEF Fields
<1>13. ASSUME NEW i \in 1 .. Len(Agenda)
       PROVE  \/ \E f \in Fields : \E k \in 1 .. Entries(f) : i = Before(f) + k
              \/ \E f \in Fields : /\ doc[f] # {} /\ Agenda[i] = <<f, 0>> /\ i < Len(Agenda)
                                   /\ i = Before(f) + Items(f)
              \/ i = Len(Agenda) /\ Agenda[i] = <<"whole", 0>>
  <2>1. CASE i <= a
    <3>1. i \in 1 .. a /\ doc["amounts"] # {} /\ a = Entries("amounts") + 1 /\ i < Len(Agenda)
          BY SMTT(30), <2>1, <1>2, <1>7
    <3>2. CASE i <= Entries("amounts")
      <4>1. i \in 1 .. Entries("amounts") /\ i = Before("amounts") + i
            BY <3>1, <3>2, <1>11
      <4>q. QED  BY <4>1, <1>1
    <3>3. CASE ~(i <= Entries("amounts"))
      <4>1. i = Before("amounts") + Items("amounts")
            BY <3>1, <3>3, <1>2, <1>11 DEF a
      <4>q. QED  BY <3>1, <3>3, <4>1, <1>1, <1>8
    <3>q. QED  BY <3>2, <3>3
  <2>2. CASE i > a /\ i <= a + b
    <3> DEFINE k == i - a
    <3>0. i \in Int /\ k \in 1 .. b
          BY SMTT(30), <2>2, <1>2, <1>7
    <3>8. a \in Nat /\ b \in Nat
          BY <1>2
    <3>9. b # 0 /\ i = a + k /\ i < a + b + 1
          BY <3>0, <3>8, <2>2
    <3>1. k \in 1 .. b /\ i = a + k /\ doc["attributes"] # {} /\ b = Entries("attributes") + 1 /\ i < Len(Agenda)
          BY <3>0, <3>9, <1>2, <1>7
    <3> HIDE DEF k
    <3>2. CASE k <= Entries("attributes")
      <4>1. k \in 1 .. Entries("attributes") /\ i = Before("attributes") + k
            BY <3>1, <3>2, <1>11
      <4>q. QED  BY <4>1, <1>1
    <3>3. CASE ~(k <= Entries("attributes"))
      <4>1. i = Before("attributes") + Items("attributes")
            BY <3>1, <3>3, <1>2, <1>11 DEF b
      <4>q. QED  BY <3>1, <3>3, <4>1, <1>1, <1>9
    <3>q. QED  BY <3>2, <3>3
  <2>3. CASE i > a + b
    <3>1. i = a + b + 1
          BY <2>3, <1>2, <1>7
    <3>q. QED  BY <3>1, <1>7, <1>10
  <2>4. i \in Int
        BY <1>7
  <2>5. i <= a \/ (i > a /\ i <= a + b) \/ i > a + b
        BY <2>4, <1>2
  <2>q. QED  BY <2>1, <2>2, <2>3, <2>5
<1>q. QED  BY <1>7, <1>12, <1>13 DEF a, b
----------------------------------------------------------------------------
(* Entries: what is accepted with the words written in, and what suits.    *)

\* Every text of the document has a word once the parameters have theirs.
LEMMA EveryTextHasAWord ==
    ASSUME doc \in Documents, env \in [Used -> Words],
           NEW g \in Fields, NEW j \in 1 .. Entries(g),
           NEW w \in Mentioned(g, Entry(g, j))
    PROVE  Word(w, env) \in Words
<1>1. /\ TheList(g) \in doc[g] /\ j \in DOMAIN TheList(g) /\ Entry(g, j) = TheList(g)[j]
      BY EntryShapes
<1>2. w \in UNION {Mentioned(g, TheList(g)[k]) : k \in DOMAIN TheList(g)}
      BY <1>1
<1>3. w \in MentionedIn(g)
      BY <1>1, <1>2 DEF MentionedIn
<1>4. w \notin Words => w \in Used
      BY <1>3 DEF Used, Fields
<1>q. QED  BY <1>4 DEF Word, Literal

\* The same, of the texts in their places.
LEMMA EntryHasWords ==
    ASSUME doc \in Documents, env \in [Used -> Words],
           NEW f \in Fields, NEW k \in 1 .. Entries(f)
    PROVE  LET a == Entry(f, k)
           IN  /\ Word(a.name, env) \in Words
               /\ f = "amounts" =>
                    \A v \in a.min \cup a.max : v.form = "text" => Word(v.word, env) \in Words
               /\ f = "attributes" =>
                    \A v \in Has(a.anyOf \cup a.allOf) : \A j \in DOMAIN v.items :
                      Word(v.items[j], env) \in Words
<1> DEFINE a == Entry(f, k)
<1>1. a.name \in Mentioned(f, a)
      BY DEF Mentioned
<1>2. ASSUME f = "amounts", NEW v \in a.min \cup a.max, v.form = "text"
      PROVE  v.word \in Mentioned(f, a)
      BY <1>2 DEF Mentioned
<1>3. ASSUME f = "attributes", NEW v \in Has(a.anyOf \cup a.allOf), NEW j \in DOMAIN v.items
      PROVE  v.items[j] \in Mentioned(f, a)
      BY <1>3 DEF Mentioned
<1>q. QED  BY <1>1, <1>2, <1>3, EveryTextHasAWord

\* A verdict is good or not.
LEMMA VerdictOk == \A good \in BOOLEAN : Verdict(good) = "ok" <=> good
BY DEF Verdict

\* What a limit can be.
LEMMA LimitCases ==
    ASSUME NEW v \in LimitShape
    PROVE  \/ v = Null /\ v.form = "null"
           \/ v # Null /\ v.form = "bool"
           \/ v # Null /\ v.form = "number" /\ v.n \in Int
           \/ v # Null /\ v.form = "text" /\ v.word \in Texts
BY DEF LimitShape, Null

\* For a limit without expressions, the rule for templates and that for jobs
\* agree.  A lower limit first.
LEMMA MinAgrees ==
    ASSUME NEW v \in LimitShape, v.form # "bool", v.form = "text" => v.word \in Words
    PROVE  TemplateMin(v) = "ok" <=> v = Null \/ (Concrete(v) # {} /\ \A n \in Concrete(v) : n >= 0)
<1>1. CASE v = Null /\ v.form = "null"
      BY <1>1 DEF TemplateMin
<1>2. CASE v # Null /\ v.form = "number" /\ v.n \in Int
  <2>1. TemplateMin(v) = Verdict(v.n >= 0) /\ Concrete(v) = {v.n}
        BY <1>2 DEF TemplateMin, Concrete
  <2>q. QED  BY <1>2, <2>1 DEF Verdict
<1>3. CASE v # Null /\ v.form = "text" /\ v.word \in Texts
  <2> DEFINE w == v.word
  <2>1. Literal(w) /\ w \in Words
        BY <1>3 DEF Literal
  <2>2. Concrete(v) = Facts[w].number
        BY <1>3, <2>1 DEF Concrete
  <2>3. /\ Facts[w].number \subseteq Int /\ (\A m, n \in Facts[w].number : m = n)
        /\ Facts[w].nan => Facts[w].number = {}
        BY <2>1, FactsAssumption
  <2> HIDE DEF w
  <2>4. TemplateMin(v) = IF features THEN FloatField(w)
                         ELSE Verdict(Literal(w) /\ \E n \in Facts[w].number : n >= 0)
        BY <1>3 DEF TemplateMin, w
  <2>5. TemplateMin(v) = "ok" <=> \E n \in Facts[w].number : n >= 0
        BY <2>1, <2>3, <2>4 DEF FloatField, Verdict
  <2>q. QED  BY <1>3, <2>2, <2>3, <2>5
<1>q. QED  BY <1>1, <1>2, <1>3, LimitCases

\* An upper limit, but for the text 0.
LEMMA MaxAgrees ==
    ASSUME NEW v \in LimitShape, v.form # "bool",
           v.form = "text" => v.word \in Words /\ 0 \notin Facts[v.word].number
    PROVE  TemplateMax(v) = "ok" <=> v = Null \/ (Concrete(v) # {} /\ \A n \in Concrete(v) : n > 0)
<1>1. CASE v = Null /\ v.form = "null"
      BY <1>1 DEF TemplateMax
<1>2. CASE v # Null /\ v.form = "number" /\ v.n \in Int
  <2>1. TemplateMax(v) = Verdict(v.n > 0) /\ Concrete(v) = {v.n}
        BY <1>2 DEF TemplateMax, Concrete
  <2>q. QED  BY <1>2, <2>1 DEF Verdict
<1>3. CASE v # Null /\ v.form = "text" /\ v.word \in Texts
  <2> DEFINE w == v.word
  <2>1. Literal(w) /\ w \in Words /\ 0 \notin Facts[w].number
        BY <1>3 DEF Literal
  <2>2. Concrete(v) = Facts[w].number
        BY <1>3, <2>1 DEF Concrete
  <2>3. /\ Facts[w].number \subseteq Int /\ (\A m, n \in Facts[w].number : m = n)
        /\ Facts[w].nan => Facts[w].number = {}
        BY <2>1, FactsAssumption
  <2> HIDE DEF w
  <2>4. TemplateMax(v) = IF features THEN FloatField(w)
                         ELSE Verdict(Literal(w) /\ \E n \in Facts[w].number : n > 0)
        BY <1>3 DEF TemplateMax, w
  <2>5. (\E n \in Facts[w].number : n >= 0) <=> \E n \in Facts[w].number : n > 0
    <3>1. \A n \in Facts[w].number : n >= 0 <=> n > 0
          BY <2>1, <2>3
    <3>q. QED  BY <3>1
  <2>6. TemplateMax(v) = "ok" <=> \E n \in Facts[w].number : n > 0
        BY <2>1, <2>3, <2>4, <2>5 DEF FloatField, Verdict
  <2>q. QED  BY <1>3, <2>2, <2>3, <2>6
<1>q. QED  BY <1>1, <1>2, <1>3, LimitCases

\* A limit that a template may have is no Boolean.
LEMMA AcceptedLimits ==
    ASSUME NEW a, AmountShape(a), AmountTemplate(a) = "ok"
    PROVE  /\ a.min \cup a.max # {}
           /\ \A v \in a.min \cup a.max : v.form # "bool"
<1> DEFINE field == {TemplateMin(v) : v \in a.min} \cup {TemplateMax(v) : v \in a.max}
<1>1. a.min \cup a.max # {} /\ field \subseteq {"ok"}
      BY DEF AmountTemplate, Verdict
<1>2. \A v \in a.min : TemplateMin(v) = "ok"
      BY <1>1
<1>3. \A v \in a.max : TemplateMax(v) = "ok"
      BY <1>1
<1>4. ASSUME NEW v, v.form = "bool"
      PROVE  TemplateMin(v) = "error" /\ TemplateMax(v) = "error"
      BY <1>4 DEF TemplateMin, TemplateMax
<1>q. QED  BY <1>1, <1>2, <1>3, <1>4

\* The limits of a resolved amount.
LEMMA ResolvedLimits ==
    ASSUME NEW S, S \subseteq LimitShape, NEW e,
           \A v \in S : v.form # "bool" /\ (v.form = "text" => Word(v.word, e) \in Words)
    PROVE  /\ ResolvedLimit(S, e) \subseteq LimitShape
           /\ \A v \in ResolvedLimit(S, e) :
                v.form # "bool" /\ (v.form = "text" => v.word \in Words)
           /\ ResolvedLimit(S, e) = {} <=> S = {}
<1> DEFINE r(v) == IF v.form = "text" THEN [form |-> "text", word |-> Word(v.word, e)] ELSE v
<1>1. ResolvedLimit(S, e) = {r(v) : v \in S}
      BY DEF ResolvedLimit
<1>2. ASSUME NEW v \in S
      PROVE  /\ r(v) \in LimitShape /\ r(v).form # "bool"
             /\ r(v).form = "text" => r(v).word \in Words
  <2>1. CASE v.form = "text"
    <3>1. r(v) = [form |-> "text", word |-> Word(v.word, e)] /\ Word(v.word, e) \in Words
          BY <2>1
    <3>2. [form |-> "text", word |-> Word(v.word, e)] \in [form : {"text"}, word : Texts]
          BY <3>1 DEF Texts
    <3>q. QED  BY <3>1, <3>2 DEF LimitShape
  <2>2. CASE v.form # "text"
        BY <2>2
  <2>q. QED  BY <2>1, <2>2
<1> HIDE DEF r
<1>q. QED  BY <1>1, <1>2

\* The rules for amounts agree, once the words are written in.
LEMMA AmountAgrees ==
    ASSUME NEW a, AmountShape(a), AmountTemplate(a) = "ok", NEW e,
           Word(a.name, e) \in Words,
           \A v \in a.min \cup a.max : v.form = "text" => Word(v.word, e) \in Words,
           \A v \in ResolvedAmount(a, e).max : v.form = "text" => 0 \notin Facts[v.word].number
    PROVE  AmountSuits(ResolvedAmount(a, e)) <=> AmountTemplate(ResolvedAmount(a, e)) = "ok"
<1> DEFINE r == ResolvedAmount(a, e)
           lo == ResolvedLimit(a.min, e)
           hi == ResolvedLimit(a.max, e)
           field == {TemplateMin(v) : v \in lo} \cup {TemplateMax(v) : v \in hi}
<1>1. r.name \in Words /\ r.name = Word(a.name, e) /\ r.min = lo /\ r.max = hi
      BY DEF ResolvedAmount
<1>2. /\ lo \subseteq LimitShape /\ hi \subseteq LimitShape
      /\ \A v \in lo \cup hi : v.form # "bool" /\ (v.form = "text" => v.word \in Words)
      /\ lo \cup hi # {}
  <2>1. a.min \cup a.max # {} /\ \A v \in a.min \cup a.max : v.form # "bool"
        BY AcceptedLimits
  <2>2. a.min \subseteq LimitShape /\ a.max \subseteq LimitShape
        BY DEF AmountShape
  <2>q. QED  BY <2>1, <2>2, ResolvedLimits
<1>3. \A v \in hi : v.form = "text" => 0 \notin Facts[v.word].number
      BY <1>1
<1> HIDE DEF r, lo, hi
<1>4. \A v \in lo : TemplateMin(v) = "ok" <=> v = Null \/ (Concrete(v) # {} /\ \A n \in Concrete(v) : n >= 0)
      BY <1>2, MinAgrees
<1>5. \A v \in hi : TemplateMax(v) = "ok" <=> v = Null \/ (Concrete(v) # {} /\ \A n \in Concrete(v) : n > 0)
      BY <1>2, <1>3, MaxAgrees
<1>6. AmountTemplate(r) = "ok" <=>
        /\ field \subseteq {"ok"} /\ ShortName(r.name)
        /\ Literal(r.name) => ValidAmountName(r.name)
        /\ InOrder(lo, hi)
      BY <1>1, <1>2 DEF AmountTemplate, Verdict
<1>7. field \subseteq {"ok"} <=> (\A v \in lo : TemplateMin(v) = "ok") /\ (\A v \in hi : TemplateMax(v) = "ok")
      OBVIOUS
<1>8. Literal(r.name)
      BY <1>1 DEF Literal
<1>9. InOrder(lo, hi) <=> InOrder(Has(lo), Has(hi))
  <2>1. Concrete(Null) = {}
        BY DEF Concrete, Null
  <2>q. QED  BY <2>1 DEF InOrder, Has
<1>10. AmountSuits(r) <=>
        /\ ~Facts[r.name].long /\ ValidAmountName(r.name)
        /\ \A v \in Has(lo) : Concrete(v) # {} /\ \A n \in Concrete(v) : n >= 0
        /\ \A v \in Has(hi) : Concrete(v) # {} /\ \A n \in Concrete(v) : n > 0
        /\ InOrder(Has(lo), Has(hi))
      BY <1>1 DEF AmountSuits, Numeric
<1>11. (\A v \in lo : TemplateMin(v) = "ok") <=>
         \A v \in Has(lo) : Concrete(v) # {} /\ \A n \in Concrete(v) : n >= 0
       BY <1>4 DEF Has
<1>12. (\A v \in hi : TemplateMax(v) = "ok") <=>
         \A v \in Has(hi) : Concrete(v) # {} /\ \A n \in Concrete(v) : n > 0
       BY <1>5 DEF Has
<1>13. AmountSuits(r) <=> AmountTemplate(r) = "ok"
       BY <1>6, <1>7, <1>8, <1>9, <1>10, <1>11, <1>12 DEF ShortName
<1>q. QED  BY <1>13 DEF r

\* A list of an attribute with the words written in.
LEMMA ResolvedLists ==
    ASSUME NEW S, S \subseteq ListShape, NEW e
    PROVE  /\ Null \notin ResolvedList(S, e)
           /\ Has(ResolvedList(S, e) \cup (S \cap {Null})) = ResolvedList(S, e)
           /\ ResolvedList(S, e) \cup (S \cap {Null}) = {} <=> S = {}
           /\ (\A v \in Has(S) : Len(v.items) \in 1 .. MaxItems) =>
                \A v \in ResolvedList(S, e) : Len(v.items) \in 1 .. MaxItems
<1> DEFINE r(v) == [v EXCEPT !.items = [k \in DOMAIN v.items |-> Word(v.items[k], e)]]
<1>1. ResolvedList(S, e) = {r(v) : v \in Has(S)}
      BY DEF ResolvedList
<1>2. ASSUME NEW v \in Has(S)
      PROVE  /\ v.form = "list" /\ v.items \in Seq(Texts) /\ r(v).form = "list"
             /\ r(v).items = [k \in DOMAIN v.items |-> Word(v.items[k], e)]
      BY DEF ListShape, Has
<1>3. Null.form = "null"
      BY DEF Null
<1>4. Null \notin ResolvedList(S, e)
      BY <1>1, <1>2, <1>3
<1>5. Has(ResolvedList(S, e) \cup (S \cap {Null})) = ResolvedList(S, e)
      BY <1>4 DEF Has
<1>6. ResolvedList(S, e) \cup (S \cap {Null}) = {} <=> S = {}
  <2> HIDE DEF r
  <2>1. Has(S) # {} => ResolvedList(S, e) # {}
        BY <1>1
  <2>2. S = {} => Has(S) = {}
        BY DEF Has
  <2>3. S # {} => Has(S) # {} \/ Null \in S
        BY DEF Has
  <2>4. Has(S) = {} => ResolvedList(S, e) = {}
        BY <1>1
  <2>q. QED  BY <2>1, <2>2, <2>3, <2>4
<1>7. ASSUME NEW v \in Has(S)
      PROVE  Len(r(v).items) = Len(v.items)
  <2>1. v.items \in Seq(Texts) /\ Len(v.items) \in Nat /\ DOMAIN v.items = 1 .. Len(v.items)
        BY <1>2
  <2>2. r(v).items = [k \in 1 .. Len(v.items) |-> Word(v.items[k], e)]
        BY <1>2, <2>1
  <2>q. QED  BY <2>1, <2>2
<1>q. QED  BY <1>1, <1>4, <1>5, <1>6, <1>7

\* The attribute of the document with the words written in.
Written(a, e) ==
    [ResolvedAttribute(a, e) EXCEPT !.anyOf = @ \cup (a.anyOf \cap {Null}),
                                    !.allOf = @ \cup (a.allOf \cap {Null})]

\* The rules for attributes agree, once the words are written in.
LEMMA AttributeAgrees ==
    ASSUME NEW a, AttributeShape(a), AttributeTemplate(a) = "ok", NEW e,
           Word(a.name, e) \in Words
    PROVE  AttributeSuits(ResolvedAttribute(a, e)) <=> AttributeTemplate(Written(a, e)) = "ok"
<1> DEFINE r == ResolvedAttribute(a, e)
           d == Written(a, e)
           any == ResolvedList(a.anyOf, e)
           all == ResolvedList(a.allOf, e)
<1>1. /\ r.name \in Words /\ r.anyOf = any /\ r.allOf = all
      /\ d.name = r.name /\ d.anyOf = any \cup (a.anyOf \cap {Null})
      /\ d.allOf = all \cup (a.allOf \cap {Null})
      BY DEF ResolvedAttribute, Written
<1>2. /\ a.anyOf \cup a.allOf # {}
      /\ \A v \in Has(a.anyOf \cup a.allOf) : Len(v.items) \in 1 .. MaxItems
      BY DEF AttributeTemplate, Verdict
<1>3. a.anyOf \subseteq ListShape /\ a.allOf \subseteq ListShape
      BY DEF AttributeShape
<1>4. /\ Has(d.anyOf) = any /\ Has(d.allOf) = all
      /\ d.anyOf \cup d.allOf # {}
  <2>1. /\ Has(any \cup (a.anyOf \cap {Null})) = any
        /\ any \cup (a.anyOf \cap {Null}) = {} <=> a.anyOf = {}
        BY <1>3, ResolvedLists
  <2>2. /\ Has(all \cup (a.allOf \cap {Null})) = all
        /\ all \cup (a.allOf \cap {Null}) = {} <=> a.allOf = {}
        BY <1>3, ResolvedLists
  <2> HIDE DEF any, all
  <2>3. Has(d.anyOf) = any /\ Has(d.allOf) = all
        BY <1>1, <2>1, <2>2
  <2>4. (d.anyOf = {} <=> a.anyOf = {}) /\ (d.allOf = {} <=> a.allOf = {})
        BY <1>1, <2>1, <2>2
  <2>q. QED  BY <2>3, <2>4, <1>2
<1>5. \A v \in Has(d.anyOf \cup d.allOf) : Len(v.items) \in 1 .. MaxItems
  <2>1. /\ \A v \in Has(a.anyOf) : Len(v.items) \in 1 .. MaxItems
        /\ \A v \in Has(a.allOf) : Len(v.items) \in 1 .. MaxItems
        BY <1>2 DEF Has
  <2>2. /\ \A v \in any : Len(v.items) \in 1 .. MaxItems
        /\ \A v \in all : Len(v.items) \in 1 .. MaxItems
        BY <2>1, <1>3, ResolvedLists
  <2>3. Has(d.anyOf \cup d.allOf) = Has(d.anyOf) \cup Has(d.allOf)
        BY DEF Has
  <2>q. QED  BY <2>2, <2>3, <1>4
<1>6. Literal(r.name) /\ Literal(d.name)
      BY <1>1 DEF Literal
<1> HIDE DEF r, d, any, all
<1>7. AttributeTemplate(d) = "ok" <=>
        /\ ~Facts[r.name].long /\ ValidAttributeName(r.name)
        /\ \A v \in any : AttributeList(r.name, v.items, FALSE)
        /\ \A v \in all : AttributeList(r.name, v.items, TRUE)
      BY <1>1, <1>4, <1>5, <1>6 DEF AttributeTemplate, Verdict, ShortName
<1>8. AttributeSuits(r) <=>
        /\ ~Facts[r.name].long /\ ValidAttributeName(r.name)
        /\ \A v \in any : AttributeList(r.name, v.items, FALSE)
        /\ \A v \in all : AttributeList(r.name, v.items, TRUE)
      BY <1>1 DEF AttributeSuits
<1>9. AttributeSuits(r) <=> AttributeTemplate(d) = "ok"
      BY <1>7, <1>8
<1>q. QED  BY <1>9 DEF r, d
----------------------------------------------------------------------------
(* The agenda is worked off item by item.                                  *)

\* All of the agenda lies ahead, or none.
LEMMA AgendaEnds ==
    ASSUME doc \in Documents
    PROVE  /\ todo = Agenda => /\ TodoIsRest
                               /\ \A f \in Fields : \A k \in 1 .. Entries(f) : ~IsDone(f, k)
           /\ TodoIsRest /\ todo = <<>> => \A f \in Fields : \A k \in 1 .. Entries(f) : IsDone(f, k)
<1>1. /\ Agenda \in Seq(Item) /\ Len(Agenda) \in Nat
      /\ \A f \in Fields : \A k \in 1 .. Entries(f) : Before(f) + k \in 1 .. Len(Agenda) - 1
  <2>1. Agenda \in Seq(Item)
        BY AgendaShape
  <2>q. QED  BY <2>1, AgendaShape, LenProperties
<1>2. \A f \in Fields : Before(f) \in Nat /\ Entries(f) \in Nat
      BY ListsOfDoc
<1>3. ASSUME todo = Agenda
      PROVE  TodoIsRest /\ \A f \in Fields : \A k \in 1 .. Entries(f) : ~IsDone(f, k)
  <2>1. Done = 0
        BY <1>1, <1>3 DEF Done
  <2>2. TodoIsRest
        BY <1>1, <1>3, <2>1 DEF TodoIsRest
  <2>3. ASSUME NEW f \in Fields, NEW k \in 1 .. Entries(f)  PROVE ~IsDone(f, k)
        BY <1>2, <2>1 DEF IsDone
  <2>q. QED  BY <2>2, <2>3
<1>4. ASSUME TodoIsRest, todo = <<>>, NEW f \in Fields, NEW k \in 1 .. Entries(f)
      PROVE  IsDone(f, k)
  <2>1. Len(todo) = 0
        BY <1>4
  <2>2. Done = Len(Agenda)
        BY <1>1, <2>1 DEF Done
  <2>q. QED  BY <1>1, <1>2, <2>2 DEF IsDone
<1>q. QED  BY <1>3, <1>4

\* The document does not change, nor what is read from it.
LEMMA DocKept ==
    ASSUME doc' = doc
    PROVE  /\ Agenda' = Agenda
           /\ \A f : Entries(f)' = Entries(f) /\ Before(f)' = Before(f)
           /\ \A f, k : Entry(f, k)' = Entry(f, k)
           /\ env' = env => \A f, k : Resolved(f, k)' = Resolved(f, k)
           /\ features' = features => \A f, k : Template(f, Entry(f, k))' = Template(f, Entry(f, k))
<1>1. Agenda' = Agenda
      BY DEF Agenda
<1>2. \A f : Entries(f)' = Entries(f)
      BY DEF Entries, TheList
<1>3. \A f : Before(f)' = Before(f)
      BY DEF Before, Items, TheList
<1>4. \A f, k : Entry(f, k)' = Entry(f, k)
      BY DEF Entry
<1>5. ASSUME env' = env, NEW f, NEW k
      PROVE  Resolved(f, k)' = Resolved(f, k)
      BY <1>4, <1>5 DEF Resolved
<1>6. ASSUME features' = features, NEW f, NEW k
      PROVE  Template(f, Entry(f, k))' = Template(f, Entry(f, k))
  <2>1. \A v : TemplateMin(v)' = TemplateMin(v)
        BY <1>6 DEF TemplateMin
  <2>2. \A v : TemplateMax(v)' = TemplateMax(v)
        BY <1>6 DEF TemplateMax
  <2>3. AmountTemplate(Entry(f, k))' = AmountTemplate(Entry(f, k))
        BY <1>4, <2>1, <2>2 DEF AmountTemplate
  <2>4. AttributeTemplate(Entry(f, k))' = AttributeTemplate(Entry(f, k))
        BY <1>4 DEF AttributeTemplate
  <2>q. QED  BY <2>3, <2>4 DEF Template
<1>q. QED  BY <1>1, <1>2, <1>3, <1>4, <1>5, <1>6

\* Taking the head off: it is the next entry, a field, or, at last, the whole.
LEMMA Advance ==
    ASSUME doc \in Documents, TodoIsRest, todo # <<>>, todo' = Tail(todo), doc' = doc
    PROVE  /\ TodoIsRest'
           /\ \/ \E f \in Fields : \E k \in 1 .. Entries(f) :
                   /\ Head(todo) = <<f, k>> /\ todo' # <<>> /\ ~IsDone(f, k)
                   /\ \A j \in 1 .. Entries(f) : j < k => IsDone(f, j)
                   /\ \A g \in Fields : \A j \in 1 .. Entries(g) :
                        IsDone(g, j)' <=> IsDone(g, j) \/ (g = f /\ j = k)
              \/ /\ \/ \E f \in Fields : Head(todo) = <<f, 0>> /\ todo' # <<>>
                    \/ Head(todo) = <<"whole", 0>> /\ todo' = <<>>
                 /\ \A g \in Fields : \A j \in 1 .. Entries(g) : IsDone(g, j)' <=> IsDone(g, j)
<1> DEFINE i == Done + 1
<1>1. Agenda' = Agenda /\ \A f : Before(f)' = Before(f)
      BY DocKept
<1>2. /\ Agenda \in Seq(Item) /\ Len(Agenda) \in Nat
      /\ \A f \in Fields : \A k \in 1 .. Entries(f) :
           Before(f) + k \in 1 .. Len(Agenda) - 1 /\ Agenda[Before(f) + k] = <<f, k>>
  <2>1. Agenda \in Seq(Item)
        BY AgendaShape
  <2>q. QED  BY <2>1, AgendaShape, LenProperties
<1>3. \A f \in Fields : Before(f) \in Nat /\ Entries(f) \in Nat
      BY ListsOfDoc
<1>4. /\ todo \in Seq(Item) /\ Len(todo) \in Nat /\ Len(todo) # 0 /\ Len(todo) <= Len(Agenda)
      /\ \A j \in 1 .. Len(todo) : todo[j] = Agenda[Done + j]
      BY DEF TodoIsRest
<1>5. /\ Tail(todo) \in Seq(Item) /\ Len(Tail(todo)) = Len(todo) - 1
      /\ \A j \in 1 .. Len(Tail(todo)) : Tail(todo)[j] = todo[j + 1]
      /\ Head(todo) = todo[1]
      BY <1>4
<1>6. Done \in Nat /\ i \in 1 .. Len(Agenda) /\ Done' = Done + 1
      BY <1>1, <1>2, <1>4, <1>5 DEF Done
<1>7. Head(todo) = Agenda[i]
      BY <1>4, <1>5
<1>8. todo' = <<>> <=> i = Len(Agenda)
  <2>0. todo' \in Seq(Item)
        BY <1>5
  <2>1. todo' = <<>> <=> Len(todo') = 0
        BY <2>0, EmptySeq
  <2>q. QED  BY SMTT(30), <2>1, <1>2, <1>4, <1>5, <1>6 DEF Done
<1>9. TodoIsRest'
  <2>1. ASSUME NEW j \in 1 .. Len(todo')
        PROVE  todo'[j] = Agenda'[Done' + j]
    <3>1. j + 1 \in 1 .. Len(todo) /\ todo'[j] = todo[j + 1]
          BY <1>4, <1>5
    <3>2. Done' + j = Done + (j + 1)
          BY <1>6
    <3>q. QED  BY <3>1, <3>2, <1>1, <1>4
  <2>2. todo' \in Seq(Item) /\ Len(todo') <= Len(Agenda')
        BY <1>1, <1>2, <1>4, <1>5
  <2>3. Item' = Item
        BY DEF Item
  <2>q. QED  BY <2>1, <2>2, <2>3 DEF TodoIsRest
<1>10. ASSUME NEW g \in Fields, NEW j \in 1 .. Entries(g)
       PROVE  IsDone(g, j)' <=> IsDone(g, j) \/ Before(g) + j = i
       BY <1>1, <1>3, <1>6 DEF IsDone
<1> HIDE DEF i
<1>11. CASE \E f \in Fields : \E k \in 1 .. Entries(f) : i = Before(f) + k
  <2>1. PICK f \in Fields : \E k \in 1 .. Entries(f) : i = Before(f) + k
        BY <1>11
  <2>2. PICK k \in 1 .. Entries(f) : i = Before(f) + k
        BY <2>1
  <2>3. Head(todo) = <<f, k>> /\ todo' # <<>>
    <3>1. i \in 1 .. Len(Agenda) - 1 /\ Agenda[i] = <<f, k>>
          BY <1>2, <2>2
    <3>q. QED  BY <3>1, <1>2, <1>7, <1>8
  <2>4. ~IsDone(f, k) /\ \A j \in 1 .. Entries(f) : j < k => IsDone(f, j)
        BY <1>3, <1>6, <2>2 DEF IsDone, i
  <2>5. ASSUME NEW g \in Fields, NEW j \in 1 .. Entries(g), Before(g) + j = i
        PROVE  g = f /\ j = k
    <3>1. Agenda[i] = <<g, j>>
          BY <1>2, <2>5
    <3>2. <<g, j>> = <<f, k>>
          BY <3>1, <1>7, <2>3
    <3>q. QED  BY <3>2
  <2>q. QED  BY <1>9, <1>10, <2>2, <2>3, <2>4, <2>5
<1>12. CASE \E f \in Fields : doc[f] # {} /\ Agenda[i] = <<f, 0>> /\ i < Len(Agenda)
  <2>1. PICK f \in Fields : Agenda[i] = <<f, 0>> /\ i < Len(Agenda)
        BY <1>12
  <2>2. Head(todo) = <<f, 0>> /\ todo' # <<>>
        BY <1>2, <1>6, <1>7, <1>8, <2>1
  <2>3. ASSUME NEW g \in Fields, NEW j \in 1 .. Entries(g)
        PROVE  Before(g) + j # i
    <3>1. Before(g) + j = i => <<g, j>> = <<f, 0>>
          BY <1>2, <2>1
    <3>2. j # 0
          BY <1>3
    <3>q. QED  BY <3>1, <3>2
  <2>q. QED  BY <1>9, <1>10, <2>2, <2>3
<1>13. CASE i = Len(Agenda) /\ Agenda[i] = <<"whole", 0>>
  <2>1. Head(todo) = <<"whole", 0>> /\ todo' = <<>>
        BY <1>7, <1>8, <1>13
  <2>2. ASSUME NEW g \in Fields, NEW j \in 1 .. Entries(g)
        PROVE  Before(g) + j # i
        BY <1>2, <1>13
  <2>q. QED  BY <1>9, <1>10, <2>1, <2>2
<1>q. QED  BY <1>6, <1>11, <1>12, <1>13, AgendaShape
----------------------------------------------------------------------------
(* The invariant is kept.                                                  *)

\* A new template, nothing of it done.
LEMMA InitInv == Init => HostInv
<1> SUFFICES ASSUME Init  PROVE HostInv
    OBVIOUS
<1>1. /\ doc \in Documents /\ features \in BOOLEAN /\ phase = "decoding"
      /\ todo = Agenda /\ errors = {} /\ made = Nothing
      BY DEF Init
<1>2. TodoIsRest /\ \A f \in Fields : \A k \in 1 .. Entries(f) : ~IsDone(f, k)
      BY <1>1, AgendaEnds
<1>3. DOMAIN made = Fields
      BY <1>1 DEF Nothing, Fields
<1>q. QED
      BY <1>1, <1>2, <1>3
      DEF HostInv, Typed, Accepted, Answered, Placed, Compared, Ended, Making

\* An item of the template is decoded.
LEMMA DecodeInv == HostInv /\ Decode => HostInv'
<1> SUFFICES ASSUME HostInv, Decode  PROVE HostInv'
    OBVIOUS
<1>1. Typed /\ Accepted
      BY DEF HostInv
<1>2. doc \in Documents /\ features \in BOOLEAN /\ TodoIsRest /\ DOMAIN made = Fields
      BY <1>1 DEF Typed
<1>3. /\ phase = "decoding" /\ todo # <<>> /\ todo' = Tail(todo)
      /\ doc' = doc /\ features' = features /\ env' = env /\ made' = made
      BY DEF Decode
<1>4. phase' \in {"decoding", "raised"}
      BY <1>3 DEF Decode
<1>5. /\ Typed'
      /\ \A f, k : Entries(f)' = Entries(f) /\ Template(f, Entry(f, k))' = Template(f, Entry(f, k))
  <2>1. TodoIsRest'
        BY <1>2, <1>3, Advance
  <2>q. QED  BY <2>1, <1>2, <1>3, <1>4, DocKept DEF Typed, Making
<1>6. ASSUME phase' = "decoding", errors' = {},
             NEW f \in Fields, NEW k \in 1 .. Entries(f), IsDone(f, k)'
      PROVE  Template(f, Entry(f, k)) = "ok"
  <2>1. errors = {}
        BY <1>6 DEF Decode, Record
  <2>2. IsDone(f, k) => Template(f, Entry(f, k)) = "ok"
        BY <1>1, <1>3, <2>1 DEF Accepted
  <2>3. ASSUME ~IsDone(f, k)
        PROVE  Template(f, Entry(f, k)) = "ok"
    <3>1. Head(todo) = <<f, k>>
          BY <2>3, <1>2, <1>3, <1>6, Advance
    <3>2. f # "whole" /\ k > 0 /\ Head(todo)[1] = f /\ Head(todo)[2] = k
      <4>1. Entries(f) \in Nat
            BY <1>2, ListsOfDoc
      <4>q. QED  BY <3>1, <4>1 DEF Fields
    <3>3. CASE f = "amounts"
      <4>1. /\ Record(Head(todo), AmountTemplate(Entry(f, k)) # "error")
            /\ phase' = IF AmountTemplate(Entry(f, k)) = "raised" THEN "raised" ELSE phase
            BY <3>2, <3>3 DEF Decode
      <4>2. AmountTemplate(Entry(f, k)) # "error" /\ AmountTemplate(Entry(f, k)) # "raised"
            BY <4>1, <1>6 DEF Record
      <4>q. QED  BY <4>2, <3>3 DEF Template, AmountTemplate, Verdict
    <3>4. CASE f = "attributes"
      <4>1. Record(Head(todo), AttributeTemplate(Entry(f, k)) # "error")
            BY <3>2, <3>4 DEF Decode
      <4>2. AttributeTemplate(Entry(f, k)) # "error"
            BY <4>1, <1>6 DEF Record
      <4>q. QED  BY <4>2, <3>4 DEF Template, AttributeTemplate, Verdict
    <3>q. QED  BY <3>3, <3>4 DEF Fields
  <2>q. QED  BY <2>2, <2>3
<1>7. Accepted'
      BY <1>4, <1>5, <1>6 DEF Accepted, Making
<1>q. QED
      BY <1>4, <1>5, <1>7 DEF HostInv, Answered, Placed, Compared, Ended, Making

\* The decoding ends.
LEMMA DecodedInv == HostInv /\ Decoded => HostInv'
<1> SUFFICES ASSUME HostInv, Decoded  PROVE HostInv'
    OBVIOUS
<1>1. Typed /\ Accepted
      BY DEF HostInv
<1>2. doc \in Documents /\ features \in BOOLEAN /\ TodoIsRest /\ DOMAIN made = Fields
      BY <1>1 DEF Typed
<1>3. /\ phase = "decoding" /\ todo = <<>> /\ phase' = IF errors = {} THEN "decoded" ELSE "invalid"
      /\ doc' = doc /\ features' = features /\ env' = env /\ made' = made
      /\ todo' = todo /\ errors' = errors
      BY DEF Decoded
<1>4. Agenda' = Agenda /\ \A f, k : Entries(f)' = Entries(f) /\ Template(f, Entry(f, k))' = Template(f, Entry(f, k))
      BY <1>3, DocKept
<1>5. TodoIsRest'
      BY <1>2, <1>3, <1>4 DEF TodoIsRest, Done, Item
<1>6. Typed'
      BY <1>2, <1>3, <1>5 DEF Typed, Making
<1>7. \A f \in Fields : \A k \in 1 .. Entries(f) : IsDone(f, k)
      BY <1>2, <1>3, AgendaEnds
<1>8. Accepted'
      BY <1>1, <1>3, <1>4, <1>7 DEF Accepted, Making
<1>q. QED
      BY <1>3, <1>6, <1>8 DEF HostInv, Answered, Placed, Compared, Ended, Making

\* A job is to be made, nothing of it is yet.
LEMMA CreateJobInv == HostInv /\ CreateJob => HostInv'
<1> SUFFICES ASSUME HostInv, CreateJob  PROVE HostInv'
    OBVIOUS
<1>1. Typed /\ Accepted
      BY DEF HostInv
<1>2. doc \in Documents /\ features \in BOOLEAN
      BY <1>1 DEF Typed
<1>3. /\ phase \in {"decoded"} \cup Making /\ phase' = "instantiating" /\ todo' = Agenda
      /\ env' \in [Used -> Words]
      /\ errors' = {} /\ made' = Nothing /\ doc' = doc /\ features' = features
      BY DEF CreateJob, Making
<1>4. Agenda' = Agenda /\ \A f, k : Entries(f)' = Entries(f) /\ Template(f, Entry(f, k))' = Template(f, Entry(f, k))
      BY <1>3, DocKept
<1>5. TodoIsRest' /\ \A f \in Fields : \A k \in 1 .. Entries(f) : ~IsDone(f, k)'
  <2>1. /\ Agenda \in Seq(Item) /\ Len(Agenda) \in Nat
        /\ \A f \in Fields : \A k \in 1 .. Entries(f) : Before(f) + k \in 1 .. Len(Agenda) - 1
    <3>1. Agenda \in Seq(Item)
          BY <1>2, AgendaShape
    <3>q. QED  BY <3>1, <1>2, AgendaShape, LenProperties
  <2>2. Done' = 0 /\ todo' = Agenda' /\ Item' = Item
        BY <1>3, <1>4, <2>1 DEF Done, Item
  <2>3. TodoIsRest'
        BY <1>3, <1>4, <2>1, <2>2 DEF TodoIsRest
  <2>4. ASSUME NEW f \in Fields, NEW k \in 1 .. Entries(f)  PROVE ~IsDone(f, k)'
    <3>1. Before(f)' = Before(f) /\ Before(f) \in Nat /\ Entries(f) \in Nat
          BY <1>2, <1>3, DocKept, ListsOfDoc
    <3>q. QED  BY <2>2, <3>1 DEF IsDone
  <2>q. QED  BY <2>3, <2>4
<1>6. Used' = Used
  <2>1. \A f : MentionedIn(f)' = MentionedIn(f)
        BY <1>3 DEF MentionedIn
  <2>q. QED  BY <2>1 DEF Used
<1>7. Typed'
      BY <1>2, <1>3, <1>5, <1>6 DEF Typed, Making, Nothing, Fields
<1>8. Accepted'
      BY <1>1, <1>3, <1>4 DEF Accepted, Making
<1>9. \A f \in Fields : made'[f] = <<>>
      BY <1>3 DEF Nothing, Fields
<1>10. Answered'
       BY <1>3, <1>4, <1>5 DEF Answered
<1>11. Placed'
  <2>1. \A f \in Fields : Entries(f) \in Nat /\ Len(made'[f]) = 0
        BY <1>2, <1>9, ListsOfDoc
  <2>2. ASSUME NEW f \in Fields
        PROVE  /\ made'[f] \in Seq({Resolved(f, k)' : k \in 1 .. Entries(f)'})
               /\ Len(made'[f]) <= Entries(f)'
               /\ \A k \in 1 .. Entries(f)' : k <= Len(made'[f]) <=> IsDone(f, k)'
               /\ \A k \in 1 .. Len(made'[f]) : made'[f][k] = Resolved(f, k)'
    <3> DEFINE R == {Resolved(f, k)' : k \in 1 .. Entries(f)'}
    <3> HIDE DEF R
    <3>1. made'[f] = <<>> /\ Len(made'[f]) = 0 /\ Entries(f)' = Entries(f) /\ Entries(f) \in Nat
          BY <1>4, <1>9, <2>1
    <3>2. made'[f] \in Seq(R)
          BY <3>1, EmptySeq
    <3>3. \A k \in 1 .. Entries(f)' : k <= Len(made'[f]) <=> IsDone(f, k)'
          BY <3>1, <1>5
    <3>q. QED  BY <3>1, <3>2, <3>3 DEF R
  <2>q. QED  BY <2>2 DEF Placed
<1>12. Compared'
  <2>1. todo' # <<>>
    <3>1. Agenda \in Seq(Item) /\ Len(Agenda) # 0
      <4>1. Items("amounts") \in Nat /\ Items("attributes") \in Nat
            BY <1>2, ListsOfDoc DEF Fields
      <4>q. QED  BY <4>1, <1>2, AgendaShape
    <3>q. QED  BY <3>1, <1>3
  <2>q. QED  BY <2>1, <1>3 DEF Compared
<1>q. QED
      BY <1>3, <1>7, <1>8, <1>10, <1>11, <1>12 DEF HostInv, Ended

\* A sequence grows at its end.
LEMMA AppendAt ==
    ASSUME NEW S, NEW s \in Seq(S), NEW e \in S
    PROVE  /\ Append(s, e) \in Seq(S) /\ Len(Append(s, e)) = Len(s) + 1
           /\ \A k \in 1 .. Len(s) : Append(s, e)[k] = s[k]
           /\ Append(s, e)[Len(s) + 1] = e
BY AppendProperties

\* An entry is resolved and either fails or is put into the job.
LEMMA InstantiateInv == HostInv /\ Instantiate => HostInv'
<1> SUFFICES ASSUME HostInv, Instantiate  PROVE HostInv'
    OBVIOUS
<1>1. Typed /\ Accepted /\ Answered /\ Placed /\ Compared
      BY DEF HostInv
<1>2. /\ doc \in Documents /\ features \in BOOLEAN /\ TodoIsRest /\ DOMAIN made = Fields
      BY <1>1 DEF Typed
<1>3. /\ phase = "instantiating" /\ phase' = phase /\ todo # <<>> /\ Head(todo)[2] > 0
      /\ todo' = Tail(todo) /\ doc' = doc /\ features' = features /\ env' = env
      /\ phase \in Making
      BY DEF Instantiate, Making
<1>4. /\ \A f : Entries(f)' = Entries(f)
      /\ \A f, k : Template(f, Entry(f, k))' = Template(f, Entry(f, k))
      /\ \A f, k : Resolved(f, k)' = Resolved(f, k)
      BY <1>3, DocKept
<1>5. TodoIsRest'
      BY <1>2, <1>3, Advance
<1>6. PICK f \in Fields : \E k \in 1 .. Entries(f) :
                   /\ Head(todo) = <<f, k>> /\ todo' # <<>> /\ ~IsDone(f, k)
                   /\ \A j \in 1 .. Entries(f) : j < k => IsDone(f, j)
                   /\ \A g \in Fields : \A j \in 1 .. Entries(g) :
                        IsDone(g, j)' <=> IsDone(g, j) \/ (g = f /\ j = k)
  <2>1. ~(\E g \in Fields : Head(todo) = <<g, 0>>) /\ Head(todo) # <<"whole", 0>>
        BY <1>3
  <2>q. QED  BY <2>1, <1>2, <1>3, Advance
<1>7. PICK k \in 1 .. Entries(f) :
                   /\ Head(todo) = <<f, k>> /\ todo' # <<>> /\ ~IsDone(f, k)
                   /\ \A j \in 1 .. Entries(f) : j < k => IsDone(f, j)
                   /\ \A g \in Fields : \A j \in 1 .. Entries(g) :
                        IsDone(g, j)' <=> IsDone(g, j) \/ (g = f /\ j = k)
      BY <1>6
<1> DEFINE entry == Resolved(f, k)
           good  == Suits(f, entry)
<1>8. /\ errors' = IF good THEN errors ELSE errors \cup {<<f, k>>}
      /\ made' = [made EXCEPT ![f] = Put(@, entry, good)]
  <2>1. Head(todo)[1] = f /\ Head(todo)[2] = k
        BY <1>7
  <2>q. QED  BY <1>7, <2>1 DEF Instantiate, Record, Resolved, Suits
<1> HIDE DEF entry, good
<1>9. /\ Typed'
  <2>1. Used' = Used
    <3>1. \A g : MentionedIn(g)' = MentionedIn(g)
          BY <1>3 DEF MentionedIn
    <3>q. QED  BY <3>1 DEF Used
  <2>2. DOMAIN made' = Fields
        BY <1>2, <1>8
  <2>q. QED  BY <1>1, <1>2, <1>3, <1>5, <2>1, <2>2 DEF Typed
<1>10. Accepted'
       BY <1>1, <1>3, <1>4 DEF Accepted, Making
<1>11. Answered'
  <2>1. ASSUME NEW g \in Fields, NEW j \in 1 .. Entries(g)
        PROVE  <<g, j>> \in errors' <=> IsDone(g, j)' /\ ~Suits(g, Resolved(g, j))
    <3>1. <<g, j>> \in errors <=> IsDone(g, j) /\ ~Suits(g, Resolved(g, j))
          BY <1>1, <1>3 DEF Answered
    <3>2. CASE g = f /\ j = k
          BY <3>1, <3>2, <1>7, <1>8 DEF good, entry
    <3>3. CASE ~(g = f /\ j = k)
      <4>1. <<g, j>> # <<f, k>>
            BY <3>3
      <4>2. <<g, j>> \in errors' <=> <<g, j>> \in errors
            BY <4>1, <1>8
      <4>3. IsDone(g, j)' <=> IsDone(g, j)
            BY <3>3, <1>7
      <4>q. QED  BY <3>1, <4>2, <4>3
    <3>q. QED  BY <3>2, <3>3
  <2>q. QED  BY <2>1, <1>4 DEF Answered
<1>12. Placed'
  <2> SUFFICES ASSUME NoEntryFailed', NEW g \in Fields
               PROVE  /\ made'[g] \in Seq({Resolved(g, j) : j \in 1 .. Entries(g)})
                      /\ Len(made'[g]) <= Entries(g)
                      /\ \A j \in 1 .. Entries(g) : j <= Len(made'[g]) <=> IsDone(g, j)'
                      /\ \A j \in 1 .. Len(made'[g]) : made'[g][j] = Resolved(g, j)
      BY <1>4 DEF Placed
  <2>1. good /\ errors' = errors
    <3>1. <<f, k>> \notin errors'
          BY <1>4 DEF NoEntryFailed
    <3>q. QED  BY <3>1, <1>8
  <2>2. NoEntryFailed
        BY <2>1, <1>4 DEF NoEntryFailed
  <2>3. /\ made[g] \in Seq({Resolved(g, j) : j \in 1 .. Entries(g)})
        /\ Len(made[g]) <= Entries(g)
        /\ \A j \in 1 .. Entries(g) : j <= Len(made[g]) <=> IsDone(g, j)
        /\ \A j \in 1 .. Len(made[g]) : made[g][j] = Resolved(g, j)
        BY <2>2, <1>1, <1>3 DEF Placed
  <2>4. Entries(g) \in Nat
        BY <1>2, ListsOfDoc
  <2>5. CASE g # f
    <3>1. made'[g] = made[g]
          BY <2>5, <1>2, <1>8
    <3>2. \A j \in 1 .. Entries(g) : IsDone(g, j)' <=> IsDone(g, j)
          BY <2>5, <1>7
    <3>q. QED  BY <2>3, <3>1, <3>2
  <2>6. CASE g = f
    <3> DEFINE R == {Resolved(g, j) : j \in 1 .. Entries(g)}
    <3>1. k \in 1 .. Entries(g) /\ entry \in R
          BY <2>6 DEF entry
    <3> HIDE DEF R
    <3>2. made'[g] = Append(made[g], entry)
          BY <2>1, <2>6, <1>2, <1>8 DEF Put
    <3>3. made[g] \in Seq(R) /\ Len(made[g]) \in Nat
      <4>1. made[g] \in Seq(R)
            BY <2>3 DEF R
      <4>q. QED  BY <4>1, LenProperties
    <3>4. Len(made[g]) = k - 1
      <4>1. ~(k <= Len(made[g]))
            BY <2>3, <2>6, <1>7
      <4>2. ASSUME k - 1 \in 1 .. Entries(g)  PROVE k - 1 <= Len(made[g])
            BY <2>3, <2>6, <1>7, <4>2, <2>4
      <4>q. QED  BY <4>1, <4>2, <3>1, <3>3, <2>4
    <3>5. /\ made'[g] \in Seq(R) /\ Len(made'[g]) = k
          /\ \A j \in 1 .. k - 1 : made'[g][j] = made[g][j]
          /\ made'[g][k] = entry
      <4>1. (k - 1) + 1 = k
            BY <2>4
      <4>q. QED  BY <3>1, <3>2, <3>3, <3>4, <4>1, AppendAt
    <3>6. ASSUME NEW j \in 1 .. Entries(g)
          PROVE  j <= Len(made'[g]) <=> IsDone(g, j)'
      <4>1. IsDone(g, j)' <=> IsDone(g, j) \/ j = k
            BY <2>6, <1>7
      <4>2. IsDone(g, j) <=> j <= k - 1
            BY <2>3, <3>4
      <4>q. QED  BY <4>1, <4>2, <3>5, <2>4
    <3>7. ASSUME NEW j \in 1 .. Len(made'[g])
          PROVE  made'[g][j] = Resolved(g, j)
      <4>1. CASE j = k
            BY <4>1, <3>5, <2>6 DEF entry
      <4>2. CASE j # k
        <5>1. j \in 1 .. k - 1
              BY <4>2, <3>5, <2>4
        <5>q. QED  BY <5>1, <3>4, <3>5, <2>3
      <4>q. QED  BY <4>1, <4>2
    <3>8. made'[g] \in Seq({Resolved(g, j) : j \in 1 .. Entries(g)})
          BY <3>5 DEF R
    <3>q. QED  BY <3>1, <3>5, <3>6, <3>7, <3>8, <2>4
  <2>q. QED  BY <2>5, <2>6
<1>13. Compared'
  <2>1. ASSUME NEW e \in errors'
        PROVE  \E g \in Fields : \E j \in 1 .. Entries(g) : e = <<g, j>>
    <3>1. CASE e \in errors
          BY <3>1, <1>1, <1>3 DEF Compared
    <3>2. CASE e = <<f, k>>
          BY <3>2
    <3>q. QED  BY <3>1, <3>2, <1>8
  <2>q. QED  BY <2>1, <1>4, <1>7 DEF Compared
<1>q. QED
      BY <1>3, <1>9, <1>10, <1>11, <1>12, <1>13 DEF HostInv, Ended

\* A field has no rule of its own; the whole has its names compared.
LEMMA InstantiateFieldInv == HostInv /\ InstantiateField => HostInv'
<1> SUFFICES ASSUME HostInv, InstantiateField  PROVE HostInv'
    OBVIOUS
<1>1. Typed /\ Accepted /\ Answered /\ Placed /\ Compared
      BY DEF HostInv
<1>2. /\ doc \in Documents /\ features \in BOOLEAN /\ TodoIsRest /\ DOMAIN made = Fields
      BY <1>1 DEF Typed
<1>3. /\ phase = "instantiating" /\ phase' = phase /\ todo # <<>> /\ Head(todo)[2] = 0
      /\ todo' = Tail(todo) /\ doc' = doc /\ features' = features /\ env' = env /\ made' = made
      /\ phase \in Making
      BY DEF InstantiateField, Making
<1>4. /\ \A f : Entries(f)' = Entries(f)
      /\ \A f, k : Template(f, Entry(f, k))' = Template(f, Entry(f, k))
      /\ \A f, k : Resolved(f, k)' = Resolved(f, k)
      BY <1>3, DocKept
<1>5. \A f \in Fields : Entries(f) \in Nat
      BY <1>2, ListsOfDoc
<1>6. /\ TodoIsRest'
      /\ \/ (\E f \in Fields : Head(todo) = <<f, 0>>) /\ todo' # <<>>
         \/ Head(todo) = <<"whole", 0>> /\ todo' = <<>>
      /\ \A g \in Fields : \A j \in 1 .. Entries(g) : IsDone(g, j)' <=> IsDone(g, j)
  <2>1. ASSUME NEW f \in Fields, NEW k \in 1 .. Entries(f)
        PROVE  Head(todo) # <<f, k>>
        BY <1>3, <1>5
  <2>q. QED  BY <2>1, <1>2, <1>3, Advance
<1>7. Typed'
  <2>1. Used' = Used
    <3>1. \A g : MentionedIn(g)' = MentionedIn(g)
          BY <1>3 DEF MentionedIn
    <3>q. QED  BY <3>1 DEF Used
  <2>q. QED  BY <1>1, <1>2, <1>3, <1>6, <2>1 DEF Typed
<1>8. Accepted'
      BY <1>1, <1>3, <1>4 DEF Accepted, Making
<1>9. /\ \A e \in errors : \E f \in Fields : \E k \in 1 .. Entries(f) : e = <<f, k>>
      BY <1>1, <1>3 DEF Compared
<1>10. /\ \A f \in Fields : \A k \in 1 .. Entries(f) : <<f, k>> \in errors' <=> <<f, k>> \in errors
       /\ \A e \in errors' : \/ \E f \in Fields : \E k \in 1 .. Entries(f) : e = <<f, k>>
                             \/ \E f \in Fields : /\ e = <<f, 0>> /\ todo' = <<>> /\ errors = {}
                                                  /\ ~Unique(made[f])
       /\ todo' = <<>> /\ errors' = {} => \A f \in Fields : Unique(made[f])
  <2>1. CASE Head(todo)[1] # "whole" \/ errors # {}
    <3>1. errors' = errors
          BY <2>1 DEF InstantiateField
    <3>2. todo' = <<>> => errors # {}
          BY <2>1, <1>6
    <3>q. QED  BY <3>1, <3>2, <1>9
  <2>2. CASE Head(todo)[1] = "whole" /\ errors = {}
    <3>1. errors' = {<<f, 0>> : f \in {g \in Fields : ~Unique(made[g])}}
          BY <2>2 DEF InstantiateField
    <3>2. todo' = <<>>
      <4>1. \A f \in Fields : f # "whole"
            BY DEF Fields
      <4>q. QED  BY <2>2, <4>1, <1>6
    <3>3. ASSUME NEW f \in Fields, NEW k \in 1 .. Entries(f)
          PROVE  <<f, k>> \notin errors'
      <4>1. k # 0
            BY <1>5
      <4>q. QED  BY <3>1, <4>1
    <3>4. errors' = {} => \A f \in Fields : Unique(made[f])
          BY <3>1
    <3>5. \A e \in errors' : \E f \in Fields : e = <<f, 0>> /\ ~Unique(made[f])
          BY <3>1
    <3>q. QED  BY <2>2, <3>2, <3>3, <3>4, <3>5
  <2>q. QED  BY <2>1, <2>2
<1>11. NoEntryFailed' <=> NoEntryFailed
       BY <1>4, <1>10 DEF NoEntryFailed
<1>12. Answered'
       BY <1>1, <1>3, <1>4, <1>6, <1>10 DEF Answered
<1>13. Placed'
  <2>1. ASSUME NoEntryFailed, NEW f \in Fields
        PROVE  /\ made[f] \in Seq({Resolved(f, k) : k \in 1 .. Entries(f)})
               /\ Len(made[f]) <= Entries(f)
               /\ \A k \in 1 .. Entries(f) : k <= Len(made[f]) <=> IsDone(f, k)'
               /\ \A k \in 1 .. Len(made[f]) : made[f][k] = Resolved(f, k)
        BY <2>1, <1>1, <1>3, <1>6 DEF Placed
  <2>q. QED  BY <2>1, <1>3, <1>4, <1>11 DEF Placed
<1>14. Compared'
  <2>1. errors = {} => NoEntryFailed'
        BY <1>11 DEF NoEntryFailed
  <2>q. QED  BY <2>1, <1>3, <1>4, <1>10 DEF Compared
<1>q. QED
      BY <1>3, <1>7, <1>8, <1>12, <1>13, <1>14 DEF HostInv, Ended

\* The job is there, or is refused.
LEMMA InstantiatedInv == HostInv /\ Instantiated => HostInv'
<1> SUFFICES ASSUME HostInv, Instantiated  PROVE HostInv'
    OBVIOUS
<1>1. Typed /\ Accepted /\ Answered /\ Placed /\ Compared
      BY DEF HostInv
<1>2. /\ phase = "instantiating" /\ todo = <<>> /\ phase' = IF errors = {} THEN "created" ELSE "refused"
      /\ doc' = doc /\ features' = features /\ env' = env /\ made' = made
      /\ todo' = todo /\ errors' = errors /\ phase \in Making /\ phase' \in Making
      BY DEF Instantiated, Making
<1>3. /\ Agenda' = Agenda
      /\ \A f : Entries(f)' = Entries(f) /\ Before(f)' = Before(f)
      /\ \A f, k : Template(f, Entry(f, k))' = Template(f, Entry(f, k))
      /\ \A f, k : Resolved(f, k)' = Resolved(f, k)
      BY <1>2, DocKept
<1>4. Done' = Done /\ \A f, k : IsDone(f, k)' <=> IsDone(f, k)
      BY <1>2, <1>3 DEF Done, IsDone
<1>5. Typed'
  <2>1. Used' = Used
    <3>1. \A g : MentionedIn(g)' = MentionedIn(g)
          BY <1>2 DEF MentionedIn
    <3>q. QED  BY <3>1 DEF Used
  <2>2. TodoIsRest'
        BY <1>1, <1>2, <1>3, <1>4 DEF Typed, TodoIsRest, Item
  <2>q. QED  BY <1>1, <1>2, <2>1, <2>2 DEF Typed
<1>6. Accepted'
      BY <1>1, <1>2, <1>3 DEF Accepted, Making
<1>7. Answered'
      BY <1>1, <1>2, <1>3, <1>4 DEF Answered
<1>8. NoEntryFailed' <=> NoEntryFailed
      BY <1>2, <1>3 DEF NoEntryFailed
<1>9. Placed'
  <2>1. ASSUME NoEntryFailed, NEW f \in Fields
        PROVE  /\ made[f] \in Seq({Resolved(f, k) : k \in 1 .. Entries(f)})
               /\ Len(made[f]) <= Entries(f)
               /\ \A k \in 1 .. Entries(f) : k <= Len(made[f]) <=> IsDone(f, k)
               /\ \A k \in 1 .. Len(made[f]) : made[f][k] = Resolved(f, k)
        BY <2>1, <1>1, <1>2 DEF Placed
  <2>q. QED  BY <2>1, <1>2, <1>3, <1>4, <1>8 DEF Placed
<1>10. Compared'
       BY <1>1, <1>2, <1>3, <1>8 DEF Compared
<1>q. QED
      BY <1>2, <1>5, <1>6, <1>7, <1>9, <1>10 DEF HostInv, Ended

\* Nothing happens.
LEMMA StutterInv == HostInv /\ UNCHANGED vars => HostInv'
<1> SUFFICES ASSUME HostInv, UNCHANGED vars  PROVE HostInv'
    OBVIOUS
<1>1. Typed /\ Accepted /\ Answered /\ Placed /\ Compared /\ Ended
      BY DEF HostInv
<1>2. /\ doc' = doc /\ features' = features /\ env' = env /\ made' = made
      /\ todo' = todo /\ errors' = errors /\ phase' = phase
      BY DEF vars
<1>3. /\ Agenda' = Agenda
      /\ \A f : Entries(f)' = Entries(f) /\ Before(f)' = Before(f)
      /\ \A f, k : Template(f, Entry(f, k))' = Template(f, Entry(f, k))
      /\ \A f, k : Resolved(f, k)' = Resolved(f, k)
      BY <1>2, DocKept
<1>4. Done' = Done /\ \A f, k : IsDone(f, k)' <=> IsDone(f, k)
      BY <1>2, <1>3 DEF Done, IsDone
<1>5. Typed'
  <2>1. Used' = Used
    <3>1. \A g : MentionedIn(g)' = MentionedIn(g)
          BY <1>2 DEF MentionedIn
    <3>q. QED  BY <3>1 DEF Used
  <2>2. TodoIsRest'
        BY <1>1, <1>2, <1>3, <1>4 DEF Typed, TodoIsRest, Item
  <2>q. QED  BY <1>1, <1>2, <2>1, <2>2 DEF Typed
<1>6. Accepted'
      BY <1>1, <1>2, <1>3, <1>4 DEF Accepted
<1>7. Answered'
      BY <1>1, <1>2, <1>3, <1>4 DEF Answered
<1>8. NoEntryFailed' <=> NoEntryFailed
      BY <1>2, <1>3 DEF NoEntryFailed
<1>9. Placed'
  <2>1. ASSUME phase \in Making, NoEntryFailed, NEW f \in Fields
        PROVE  /\ made[f] \in Seq({Resolved(f, k) : k \in 1 .. Entries(f)})
               /\ Len(made[f]) <= Entries(f)
               /\ \A k \in 1 .. Entries(f) : k <= Len(made[f]) <=> IsDone(f, k)
               /\ \A k \in 1 .. Len(made[f]) : made[f][k] = Resolved(f, k)
        BY <2>1, <1>1, <1>2 DEF Placed
  <2>q. QED  BY <2>1, <1>2, <1>3, <1>4, <1>8 DEF Placed
<1>10. Compared'
       BY <1>1, <1>2, <1>3, <1>8 DEF Compared
<1>q. QED
      BY <1>1, <1>2, <1>5, <1>6, <1>7, <1>9, <1>10 DEF HostInv, Ended

\* The invariant is one.
LEMMA HostIsInv == Spec => []HostInv
<1>1. HostInv /\ [Next]_vars => HostInv'
      BY DecodeInv, DecodedInv, CreateJobInv, InstantiateInv, InstantiateFieldInv, InstantiatedInv,
         StutterInv DEF Next
<1>q. QED  BY InitInv, <1>1, PTL DEF Spec
----------------------------------------------------------------------------
(* What is promised.                                                       *)

\* A job is created when every entry suits, and then has them all.
LEMMA WhenEnded ==
    ASSUME HostInv, phase \in {"created", "refused"}
    PROVE  /\ doc \in Documents /\ env \in [Used -> Words]
           /\ \A f \in Fields : \A k \in 1 .. Entries(f) :
                /\ Template(f, Entry(f, k)) = "ok"
                /\ <<f, k>> \in errors <=> ~Suits(f, Resolved(f, k))
           /\ NoEntryFailed => \A f \in Fields : /\ DOMAIN made[f] = 1 .. Entries(f)
                                                 /\ Len(made[f]) = Entries(f)
                                                 /\ \A k \in 1 .. Entries(f) : made[f][k] = Resolved(f, k)
           /\ phase = "created" => NoEntryFailed /\ \A f \in Fields : Unique(made[f])
           /\ phase = "refused" => ~NoEntryFailed \/ \E f \in Fields : ~Unique(made[f])
<1>1. Typed /\ Accepted /\ Answered /\ Placed /\ Compared /\ Ended /\ phase \in Making
      BY DEF HostInv, Making
<1>2. doc \in Documents /\ env \in [Used -> Words] /\ TodoIsRest /\ todo = <<>>
      BY <1>1 DEF Typed, Ended
<1>3. \A f \in Fields : \A k \in 1 .. Entries(f) : IsDone(f, k)
      BY <1>2, AgendaEnds
<1>4. \A f \in Fields : \A k \in 1 .. Entries(f) :
        /\ Template(f, Entry(f, k)) = "ok"
        /\ <<f, k>> \in errors <=> ~Suits(f, Resolved(f, k))
      BY <1>1, <1>3 DEF Accepted, Answered
<1>5. ASSUME NoEntryFailed, NEW f \in Fields
      PROVE  /\ DOMAIN made[f] = 1 .. Entries(f) /\ Len(made[f]) = Entries(f)
             /\ \A k \in 1 .. Entries(f) : made[f][k] = Resolved(f, k)
  <2> DEFINE R == {Resolved(f, k) : k \in 1 .. Entries(f)}
  <2>1. /\ made[f] \in Seq(R) /\ Len(made[f]) <= Entries(f)
        /\ \A k \in 1 .. Entries(f) : k <= Len(made[f]) <=> IsDone(f, k)
        /\ \A k \in 1 .. Len(made[f]) : made[f][k] = Resolved(f, k)
        BY <1>1, <1>5 DEF Placed
  <2> HIDE DEF R
  <2>2. Entries(f) \in Nat /\ Len(made[f]) \in Nat /\ DOMAIN made[f] = 1 .. Len(made[f])
        BY <2>1, <1>2, ListsOfDoc, LenProperties
  <2>3. Entries(f) # 0 => Entries(f) <= Len(made[f])
        BY <2>1, <2>2, <1>3
  <2>4. Len(made[f]) = Entries(f)
        BY <2>1, <2>2, <2>3
  <2>q. QED  BY <2>1, <2>2, <2>4
<1>6. phase = "created" => NoEntryFailed /\ \A f \in Fields : Unique(made[f])
      BY <1>1, <1>2 DEF Ended, Compared, NoEntryFailed
<1>7. ASSUME phase = "refused", NoEntryFailed
      PROVE  \E f \in Fields : ~Unique(made[f])
  <2>1. PICK e \in errors : TRUE
        BY <1>1, <1>7 DEF Ended
  <2>2. ~(\E f \in Fields : \E k \in 1 .. Entries(f) : e = <<f, k>>)
        BY <1>7 DEF NoEntryFailed
  <2>q. QED  BY <2>2, <1>1 DEF Compared
<1>q. QED  BY <1>2, <1>4, <1>5, <1>6, <1>7

\* No entry is lost: a refusal has the error of every entry that does not suit,
\* and a job has all entries in their places.
THEOREM EntriesAnswered == Spec => []EveryEntryAnswered
<1>1. ASSUME HostInv, phase \in {"created", "refused"},
             NEW f \in Fields, NEW list \in doc[f], NEW k \in DOMAIN list
      PROVE  /\ phase = "refused" => (Suits(f, Resolved(f, k)) <=> <<f, k>> \notin errors)
             /\ phase = "created" => Len(made[f]) = Len(list) /\ made[f][k] = Resolved(f, k)
             /\ Entry(f, k) = list[k]
  <2>1. doc \in Documents
        BY <1>1, WhenEnded
  <2>2. /\ Len(list) = Entries(f) /\ k \in 1 .. Entries(f) /\ Entry(f, k) = list[k]
        BY <2>1, ListsOfDoc
  <2>q. QED  BY <1>1, <2>2, WhenEnded
<1>2. ASSUME HostInv, phase \in {"created", "refused"}
      PROVE  EveryEntryAnswered
  <2>1. ASSUME NEW list \in doc["amounts"], NEW k \in DOMAIN list
        PROVE  LET entry == ResolvedAmount(list[k], env)
               IN  /\ phase = "refused" => (AmountSuits(entry) <=> <<"amounts", k>> \notin errors)
                   /\ phase = "created" => Len(made["amounts"]) = Len(list) /\ made["amounts"][k] = entry
    <3>1. "amounts" \in Fields
          BY DEF Fields
    <3>q. QED  BY <1>1, <1>2, <3>1 DEF Suits, Resolved
  <2>2. ASSUME NEW list \in doc["attributes"], NEW k \in DOMAIN list
        PROVE  LET entry == ResolvedAttribute(list[k], env)
               IN  /\ phase = "refused" => (AttributeSuits(entry) <=> <<"attributes", k>> \notin errors)
                   /\ phase = "created" => Len(made["attributes"]) = Len(list) /\ made["attributes"][k] = entry
    <3>1. "attributes" \in Fields /\ "attributes" # "amounts"
          BY DEF Fields
    <3>q. QED  BY <1>1, <1>2, <3>1 DEF Suits, Resolved
  <2>q. QED  BY <2>1, <2>2 DEF EveryEntryAnswered, Fields
<1>3. ASSUME phase \notin {"created", "refused"}
      PROVE  EveryEntryAnswered
      BY <1>3 DEF EveryEntryAnswered
<1>4. HostInv => EveryEntryAnswered
      BY <1>2, <1>3
<1>q. QED  BY <1>4, HostIsInv, PTL

\* A list in which no name is twice.
LEMMA UniqueNames ==
    ASSUME NEW entries, NEW n \in Nat, DOMAIN entries = 1 .. n, Len(entries) = n,
           \A k \in 1 .. n : entries[k].name \in Words,
           Unique(entries),
           NEW j \in 1 .. n, NEW k \in 1 .. n, j # k
    PROVE  Low(entries[j].name) # Low(entries[k].name)
<1> DEFINE f == [i \in 1 .. n |-> Low(entries[i].name)]
           T == {Low(entries[i].name) : i \in 1 .. n}
<1>1. Names(entries) = T
      BY DEF Names, Literal
<1>2. f \in Surjection(1 .. n, T)
      BY DEF Surjection
<1>3. IsFiniteSet(1 .. n) /\ Cardinality(1 .. n) = n
      BY FS_Interval
<1>4. Cardinality(T) = Cardinality(1 .. n)
      BY <1>1, <1>3 DEF Unique
<1>5. f \in Injection(1 .. n, T)
      BY <1>2, <1>3, <1>4, FS_SurjSameCardinalityImpliesInj
<1>6. f[j] # f[k]
      BY <1>5 DEF Injection, IsInjective
<1>q. QED  BY <1>6

\* The names of a job's requirements are words.
LEMMA ResolvedNames ==
    ASSUME doc \in Documents, env \in [Used -> Words], NEW f \in Fields, NEW k \in 1 .. Entries(f)
    PROVE  Resolved(f, k).name \in Words
<1>1. Word(Entry(f, k).name, env) \in Words
      BY EntryHasWords
<1>q. QED  BY <1>1 DEF Resolved, ResolvedAmount, ResolvedAttribute

\* The requirements of a job can be met and are told apart.
THEOREM JobsCanBePlaced == Spec => []JobCanBePlaced
<1>1. HostInv => JobCanBePlaced
  <2> SUFFICES ASSUME HostInv, phase = "created"
               PROVE  JobCanBePlaced
      BY DEF JobCanBePlaced
  <2>1. /\ doc \in Documents /\ env \in [Used -> Words]
        /\ \A f \in Fields : /\ DOMAIN made[f] = 1 .. Entries(f) /\ Len(made[f]) = Entries(f)
                             /\ Unique(made[f])
        /\ \A f \in Fields : \A k \in 1 .. Entries(f) :
             made[f][k] = Resolved(f, k) /\ Suits(f, Resolved(f, k))
        BY WhenEnded DEF NoEntryFailed
  <2>2. \A f \in Fields : Entries(f) \in Nat
        BY <2>1, ListsOfDoc
  <2>3. ASSUME NEW f \in Fields, NEW j \in DOMAIN made[f], NEW k \in DOMAIN made[f], j # k
        PROVE  Low(made[f][j].name) # Low(made[f][k].name)
    <3>1. \A i \in 1 .. Entries(f) : made[f][i].name \in Words
          BY <2>1, ResolvedNames
    <3>q. QED  BY <2>1, <2>2, <2>3, <3>1, UniqueNames
  <2>4. ASSUME NEW k \in DOMAIN made.amounts, NEW v \in Has(made.amounts[k].min),
               NEW w \in Has(made.amounts[k].max)
        PROVE  \E m \in Concrete(v), n \in Concrete(w) : 0 <= m /\ m <= n /\ n > 0
    <3> DEFINE a == made.amounts[k]
    <3>1. AmountSuits(a)
      <4>1. k \in 1 .. Entries("amounts") /\ a = made["amounts"][k]
            BY <2>1 DEF Fields
      <4>q. QED  BY <4>1, <2>1 DEF Fields, Suits
    <3> HIDE DEF a
    <3>2. /\ Concrete(v) # {} /\ \A m \in Concrete(v) : m >= 0
          /\ Concrete(w) # {} /\ \A n \in Concrete(w) : n > 0
          BY <3>1 DEF AmountSuits, Numeric, a
    <3>3. \A m \in Concrete(v), n \in Concrete(w) : m <= n
      <4>1. InOrder(Has(a.min), Has(a.max)) /\ v \in Has(a.min) /\ w \in Has(a.max)
            BY <3>1 DEF AmountSuits, a
      <4>q. QED  BY <4>1 DEF InOrder
    <3>4. Concrete(v) \subseteq Int
      <4>1. k \in 1 .. Entries("amounts") /\ made.amounts[k] = ResolvedAmount(Entry("amounts", k), env)
        <5>1. k \in 1 .. Entries("amounts") /\ made["amounts"][k] = Resolved("amounts", k)
              BY <2>1 DEF Fields
        <5>q. QED  BY <5>1 DEF Resolved
      <4>2. v \in ResolvedLimit(Entry("amounts", k).min, env)
            BY <4>1 DEF Has, ResolvedAmount
      <4>3. /\ AmountShape(Entry("amounts", k)) /\ AmountTemplate(Entry("amounts", k)) = "ok"
            /\ \A u \in Entry("amounts", k).min : u.form = "text" => Word(u.word, env) \in Words
            BY <4>1, <2>1, EntryShapes, EntryHasWords, WhenEnded DEF Fields, Template
      <4>4. v \in LimitShape /\ (v.form = "text" => v.word \in Words)
            BY <4>2, <4>3, AcceptedLimits, ResolvedLimits DEF AmountShape
      <4>q. QED  BY <4>4, LimitCases, FactsAssumption DEF Concrete
    <3>q. QED  BY <3>2, <3>3, <3>4
  <2>5. ASSUME NEW k \in DOMAIN made.attributes,
               Low(made.attributes[k].name) \in StandardAttributes,
               NEW v \in made.attributes[k].allOf
        PROVE  \E value \in StandardValues : \A j \in DOMAIN v.items : Low(v.items[j]) = value
    <3> DEFINE a == made.attributes[k]
               e == Entry("attributes", k)
    <3>1. k \in 1 .. Entries("attributes") /\ a = ResolvedAttribute(e, env) /\ AttributeSuits(a)
      <4>1. k \in 1 .. Entries("attributes") /\ a = Resolved("attributes", k) /\ Suits("attributes", a)
            BY <2>1 DEF Fields
      <4>q. QED  BY <4>1 DEF Suits, Resolved
    <3>2. a.name \in Words
          BY <3>1, <2>1, ResolvedNames DEF Fields, Resolved
    <3>3. AttributeList(a.name, v.items, TRUE)
          BY <3>1 DEF AttributeSuits
    <3>4. v \in ResolvedList(e.allOf, env) /\ AttributeShape(e)
          BY <3>1, <2>1, EntryShapes DEF ResolvedAttribute, Fields
    <3>5. PICK u \in Has(e.allOf) : v = [u EXCEPT !.items = [i \in DOMAIN u.items |-> Word(u.items[i], env)]]
          BY <3>4 DEF ResolvedList
    <3>6. u.items \in Seq(Texts) /\ v.items = [i \in DOMAIN u.items |-> Word(u.items[i], env)]
          BY <3>4, <3>5 DEF AttributeShape, ListShape, Has
    <3>7. \A i \in DOMAIN u.items : Word(u.items[i], env) \in Words
          BY <3>1, <2>1, EntryHasWords DEF Fields, Has
    <3>8. DOMAIN v.items = 1 .. Len(v.items) /\ Len(v.items) \in Nat
          BY <3>6
    <3>9. Len(v.items) <= 1 /\ \A j \in DOMAIN v.items : Low(v.items[j]) \in StandardValues
          BY <3>2, <3>3, <3>6, <3>7, <2>5 DEF AttributeList, Literal
    <3>10. CASE DOMAIN v.items = {}
           BY <3>10 DEF StandardValues
    <3>11. CASE DOMAIN v.items # {}
      <4>1. DOMAIN v.items = {1}
            BY <3>8, <3>9, <3>11
      <4>q. QED  BY <4>1, <3>9
    <3>q. QED  BY <3>10, <3>11
  <2>q. QED  BY <2>3, <2>4, <2>5 DEF JobCanBePlaced
<1>q. QED  BY <1>1, HostIsInv, PTL

\* Names are compared alike in the document with the words written in.
LEMMA SameNames ==
    ASSUME NEW s, NEW t, NEW n \in Nat,
           DOMAIN s = 1 .. n, DOMAIN t = 1 .. n, Len(s) = n, Len(t) = n,
           \A k \in 1 .. n : s[k].name = t[k].name
    PROVE  Unique(s) <=> Unique(t)
<1>1. Names(s) = Names(t)
      BY DEF Names
<1>q. QED  BY <1>1 DEF Unique

\* What is written into a field for an entry.
WrittenIn(f, k) == IF f = "amounts" THEN ResolvedAmount(Entry(f, k), env)
                   ELSE Written(Entry(f, k), env)

\* Checking late is as good as checking early.
THEOREM ChecksLateAsEarly == Spec => []LateAsEarly
<1>1. HostInv => LateAsEarly
  <2> DEFINE d == Substituted(env)
  <2> SUFFICES ASSUME HostInv, phase \in {"created", "refused"}, ~ZeroText(d)
               PROVE  phase = "created" <=> Acceptable(d)
      BY DEF LateAsEarly
  <2>1. /\ doc \in Documents /\ env \in [Used -> Words]
        /\ \A f \in Fields : \A k \in 1 .. Entries(f) :
             /\ Template(f, Entry(f, k)) = "ok"
             /\ <<f, k>> \in errors <=> ~Suits(f, Resolved(f, k))
        BY WhenEnded
  <2>2. \A f \in Fields : Entries(f) \in Nat
        BY <2>1, ListsOfDoc
  <2>3. ASSUME NEW f \in Fields, doc[f] # {}
        PROVE  d[f] = {[k \in 1 .. Entries(f) |-> WrittenIn(f, k)]}
    <3>1. /\ doc[f] = {TheList(f)} /\ DOMAIN TheList(f) = 1 .. Entries(f)
          /\ \A k : Entry(f, k) = TheList(f)[k]
          BY <2>1, <2>3, ListsOfDoc
    <3> DEFINE w(list) == [k \in DOMAIN list |-> IF f = "amounts" THEN ResolvedAmount(list[k], env)
                                                 ELSE Written(list[k], env)]
    <3>2. d[f] = {w(list) : list \in doc[f]}
          BY DEF Substituted, Written
    <3>3. w(TheList(f)) = [k \in 1 .. Entries(f) |-> WrittenIn(f, k)]
          BY <3>1 DEF WrittenIn
    <3> HIDE DEF w, d
    <3>q. QED  BY <3>1, <3>2, <3>3
  <2>4. ASSUME NEW f \in Fields, doc[f] = {}
        PROVE  d[f] = {}
        BY <2>4 DEF Substituted
  <2>5. ASSUME NEW f \in Fields, NEW k \in 1 .. Entries(f)
        PROVE  Suits(f, Resolved(f, k)) <=> Template(f, WrittenIn(f, k)) = "ok"
    <3> DEFINE a == Entry(f, k)
    <3>1. /\ doc[f] # {} /\ Template(f, a) = "ok" /\ Word(a.name, env) \in Words
          /\ f = "amounts" => AmountShape(a)
          /\ f = "attributes" => AttributeShape(a)
          BY <2>1, EntryShapes, EntryHasWords
    <3>2. f = "amounts" => \A v \in a.min \cup a.max : v.form = "text" => Word(v.word, env) \in Words
          BY <2>1, EntryHasWords
    <3> HIDE DEF a
    <3>3. CASE f = "amounts"
      <4>1. \A v \in ResolvedAmount(a, env).max : v.form = "text" => 0 \notin Facts[v.word].number
        <5> DEFINE list == [i \in 1 .. Entries(f) |-> WrittenIn(f, i)]
        <5>1. list \in d.amounts
              BY <2>3, <3>1, <3>3
        <5>2. k \in DOMAIN list /\ list[k] = ResolvedAmount(a, env)
              BY <3>3 DEF WrittenIn, a
        <5> HIDE DEF list, d
        <5>q. QED  BY <5>1, <5>2 DEF ZeroText
      <4>2. AmountSuits(ResolvedAmount(a, env)) <=> AmountTemplate(ResolvedAmount(a, env)) = "ok"
            BY <3>1, <3>2, <3>3, <4>1, AmountAgrees DEF Template
      <4>q. QED  BY <3>3, <4>2 DEF Suits, Resolved, Template, WrittenIn, a
    <3>4. CASE f = "attributes"
      <4>1. AttributeSuits(ResolvedAttribute(a, env)) <=> AttributeTemplate(Written(a, env)) = "ok"
            BY <3>1, <3>4, AttributeAgrees DEF Template
      <4>q. QED  BY <3>4, <4>1 DEF Suits, Resolved, Template, WrittenIn, a
    <3>q. QED  BY <3>3, <3>4 DEF Fields
  <2>6. ASSUME NEW f \in Fields, doc[f] # {}, NoEntryFailed
        PROVE  Unique(made[f]) <=> Unique([k \in 1 .. Entries(f) |-> WrittenIn(f, k)])
    <3> DEFINE list == [k \in 1 .. Entries(f) |-> WrittenIn(f, k)]
    <3>1. /\ DOMAIN made[f] = 1 .. Entries(f) /\ Len(made[f]) = Entries(f)
          /\ \A k \in 1 .. Entries(f) : made[f][k] = Resolved(f, k)
          BY <2>6, WhenEnded
    <3>2. \A k \in 1 .. Entries(f) : Resolved(f, k).name = WrittenIn(f, k).name
          BY DEF Resolved, WrittenIn, Written, ResolvedAmount, ResolvedAttribute
    <3>3. DOMAIN list = 1 .. Entries(f) /\ Len(list) = Entries(f)
          /\ \A k \in 1 .. Entries(f) : list[k] = WrittenIn(f, k)
          BY <2>2
    <3> HIDE DEF list
    <3>4. Unique(made[f]) <=> Unique(list)
          BY <3>1, <3>2, <3>3, <2>2, SameNames
    <3>q. QED  BY <3>4 DEF list
  <2>7. Acceptable(d) <=>
          \A f \in Fields : doc[f] # {} =>
            /\ Unique([k \in 1 .. Entries(f) |-> WrittenIn(f, k)])
            /\ \A k \in 1 .. Entries(f) : Template(f, WrittenIn(f, k)) = "ok"
    <3> DEFINE L(f) == [k \in 1 .. Entries(f) |-> WrittenIn(f, k)]
               Fine(f, list) == /\ Unique(list)
                                /\ \A k \in DOMAIN list : Template(f, list[k]) = "ok"
    <3>1. Acceptable(d) <=> \A f \in Fields : \A list \in d[f] : Fine(f, list)
          BY DEF Acceptable, Template
    <3>2. ASSUME NEW f \in Fields
          PROVE  Fine(f, L(f)) <=> /\ Unique(L(f))
                                   /\ \A k \in 1 .. Entries(f) : Template(f, WrittenIn(f, k)) = "ok"
          OBVIOUS
    <3>3. ASSUME NEW f \in Fields
          PROVE  (\A list \in d[f] : Fine(f, list)) <=> (doc[f] # {} => Fine(f, L(f)))
      <4> HIDE DEF d, Fine, L
      <4>1. CASE doc[f] = {}
            BY <4>1, <2>4
      <4>2. CASE doc[f] # {}
        <5>1. d[f] = {L(f)}
              BY <4>2, <2>3 DEF L
        <5>q. QED  BY <4>2, <5>1
      <4>q. QED  BY <4>1, <4>2
    <3> HIDE DEF d, Fine, L
    <3>4. Acceptable(d) <=> \A f \in Fields : doc[f] # {} => Fine(f, L(f))
          BY <3>1, <3>3
    <3>q. QED  BY <3>2, <3>4 DEF L
  <2>8. ASSUME phase = "created"
        PROVE  Acceptable(d)
    <3>1. NoEntryFailed /\ \A f \in Fields : Unique(made[f])
          BY <2>8, WhenEnded
    <3>2. \A f \in Fields : \A k \in 1 .. Entries(f) : Template(f, WrittenIn(f, k)) = "ok"
          BY <2>1, <2>5, <3>1 DEF NoEntryFailed
    <3> HIDE DEF d
    <3>q. QED  BY <2>6, <2>7, <3>1, <3>2
  <2>9. ASSUME phase = "refused"
        PROVE  ~Acceptable(d)
    <3>1. CASE ~NoEntryFailed
      <4>1. PICK f \in Fields : \E k \in 1 .. Entries(f) : <<f, k>> \in errors
            BY <3>1 DEF NoEntryFailed
      <4>2. PICK k \in 1 .. Entries(f) : <<f, k>> \in errors
            BY <4>1
      <4>3. Template(f, WrittenIn(f, k)) # "ok" /\ doc[f] # {}
            BY <2>1, <2>5, <4>2, EntryShapes
      <4> HIDE DEF d
      <4>q. QED  BY <2>7, <4>3
    <3>2. CASE NoEntryFailed
      <4>1. PICK f \in Fields : ~Unique(made[f])
            BY <2>9, <3>2, WhenEnded
      <4>2. CASE doc[f] # {}
        <5> HIDE DEF d
        <5>q. QED  BY <2>6, <2>7, <3>2, <4>1, <4>2
      <4>3. CASE doc[f] = {}
        <5>1. DOMAIN made[f] = {} /\ Len(made[f]) = 0
              BY <4>3, <3>2, <2>1, WhenEnded DEF Entries
        <5>2. Names(made[f]) = {}
              BY <5>1 DEF Names
        <5>q. QED  BY <5>1, <5>2, <4>1, FS_EmptySet DEF Unique
      <4>q. QED  BY <4>2, <4>3
    <3>q. QED  BY <3>1, <3>2
  <2>q. QED  BY <2>8, <2>9
<1>q. QED  BY <1>1, HostIsInv, PTL
=============================================================================
