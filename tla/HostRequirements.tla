--------------------------- MODULE HostRequirements ---------------------------
(***************************************************************************)
(* The host requirements of a step (openjd/model/v2023_09/_model.py),      *)
(* checked twice: when the template is decoded, with expressions not yet   *)
(* known (AmountRequirementTemplate, AttributeRequirementTemplate,         *)
(* HostRequirementsTemplate), and when a job is created, with the texts    *)
(* that the job's parameters make of them (AmountRequirement,              *)
(* AttributeRequirement, HostRequirements), by instantiate_model           *)
(* (_internal/_create_job.py).  A template makes jobs again and again.     *)
(*                                                                         *)
(* A text is a word of Words, of which Facts tells what the code looks at; *)
(* a format string is a literal word or an expression, here the name of    *)
(* one parameter, that is replaced by the parameter's word.                *)
(***************************************************************************)
EXTENDS Integers, Sequences, FiniteSets

CONSTANTS
    Facts,         \* for each word: lower, its lower-case spelling; formed,
                   \* vendor, kind, reserved, how it reads as a capability
                   \* name; value, whether it can be an attribute's value;
                   \* long, whether it is over 100 characters; number, the
                   \* set of the number it is, if any; nan
    Documents,     \* the requirements as they are written
    Parameters,    \* the names that expressions are made of
    Lowered,       \* for each of these, the one that its expression is spelled
                   \* as in lower case
    MaxRequirements, \* _max_allowed_requirements
    MaxItems       \* how many values AttributeCapabilityList may have

Words == DOMAIN Facts

Null   == [form |-> "null"]
Has(S) == S \ {Null}         \* is not None

ASSUME HostAssumption ==
    /\ MaxRequirements \in Nat /\ MaxItems \in Nat
    /\ Words \cap Parameters = {}
    /\ Lowered \in [Parameters -> Parameters]

\* A word is at most one number, and a NaN is none.
ASSUME FactsAssumption ==
    \A w \in Words :
      /\ Facts[w].lower \in Words
      /\ Facts[w].number \subseteq Int /\ \A m, n \in Facts[w].number : m = n
      /\ Facts[w].nan => Facts[w].number = {}

\* What the parser of the document leaves to these validators: fields that are
\* there or not, lists of entries, and in an entry a name and limits or lists,
\* that may be null.
Texts == Words \cup Parameters
LimitShape == {Null} \cup [form : {"bool"}] \cup [form : {"number"}, n : Int]
                \cup [form : {"text"}, word : Texts]
ListShape  == {Null} \cup [form : {"list"}, items : Seq(Texts)]
AtMostOne(S) == \A x, y \in S : x = y
AmountShape(a) ==
    /\ a.name \in Texts
    /\ a.min \subseteq LimitShape /\ AtMostOne(a.min)
    /\ a.max \subseteq LimitShape /\ AtMostOne(a.max)
AttributeShape(a) ==
    /\ a.name \in Texts
    /\ a.anyOf \subseteq ListShape /\ AtMostOne(a.anyOf)
    /\ a.allOf \subseteq ListShape /\ AtMostOne(a.allOf)

Fields == {"amounts", "attributes"}
IsList(list) == DOMAIN list = 1 .. Len(list) /\ Len(list) \in Nat
ASSUME DocumentsAssumption ==
    \A d \in Documents :
      /\ \A f \in Fields : AtMostOne(d[f]) /\ \A list \in d[f] : IsList(list)
      /\ \A list \in d.amounts : \A k \in DOMAIN list : AmountShape(list[k])
      /\ \A list \in d.attributes : \A k \in DOMAIN list : AttributeShape(list[k])

VARIABLES
    doc,           \* [amounts, attributes: sequences], as written
    features,      \* whether the template has the FEATURE_BUNDLE_1 extension
    phase,         \* "decoding", "decoded", "instantiating", "created", or
                   \* "invalid", "refused", "raised"
    todo,          \* what has still to be validated, in order: <<field, k>> is
                   \* an entry, <<field, 0>> a field, <<"whole", 0>> the whole
    errors,        \* what has a validation error
    env,           \* the words of the parameters for the job being created
    made           \* the requirements of the job, while they are made

vars == <<doc, features, phase, todo, errors, env, made>>

Literal(w) == w \in Words
Low(w)     == Facts[w].lower

----------------------------------------------------------------------------
(* Capability names.                                                       *)

StandardAttributes == {"attr.worker.os.family"}
StandardAmounts    == {"amount.worker.vcpu"}
StandardValues     == {"linux", "windows"}

ValidNameAsWritten(name, standard, kind) ==     \* mutant: case is not folded
    LET n == Facts[name]
    IN  /\ n.formed
        /\ \/ ~n.vendor /\ name \in standard
           \/ n.kind = kind /\ ~n.reserved
\* _validate_capability_name, of a name in lower case, for names of one kind.
ValidName(name, standard, kind) ==
    LET n == Facts[Low(name)]
    IN  /\ n.formed
        /\ \/ ~n.vendor /\ Low(name) \in standard
           \/ n.kind = kind /\ ~n.reserved

ValidAmountName(name)    == ValidName(name, StandardAmounts, "amount")
ValidAttributeName(name) == ValidName(name, StandardAttributes, "attr")

\* The limit of a FormatString is on the text as written, that of a resolved
\* name on the name.
ShortName(name) == Literal(name) => ~Facts[name].long

----------------------------------------------------------------------------
(* Template entries: "ok", "error", or "raised" for an exception that      *)
(* pydantic does not turn into an error.                                   *)

Verdict(good) == IF good THEN "ok" ELSE "error"

\* validate_float_fmtstring_field with ge=0, for a string.  A NaN is parsed,
\* and does not compare.
FloatField(w) ==
    IF ~Literal(w) THEN "ok"
    ELSE IF Facts[w].nan THEN "raised"
    ELSE Verdict(\E n \in Facts[w].number : n >= 0)

TemplateMin(v) ==
    CASE v.form = "null"   -> "ok"
      [] v.form = "number" -> Verdict(v.n >= 0)
      [] v.form = "text" /\ features  -> FloatField(v.word)
      [] v.form = "text" /\ ~features ->
           Verdict(Literal(v.word) /\ \E n \in Facts[v.word].number : n >= 0)
      [] v.form = "bool"   -> "error"

TemplateMax(v) ==
    CASE v.form = "null"   -> "ok"
      [] v.form = "number" -> Verdict(v.n > 0)
      [] v.form = "text" /\ features  -> FloatField(v.word)
      [] v.form = "text" /\ ~features ->
           Verdict(Literal(v.word) /\ \E n \in Facts[v.word].number : n > 0)
      [] v.form = "bool"   -> "error"

\* The number of a limit, if it is one already.
Concrete(v) == CASE v.form = "number" -> {v.n}
                 [] v.form = "text" /\ Literal(v.word) -> Facts[v.word].number
                 [] OTHER -> {}

InOrder(lo, hi) == \A v \in lo, w \in hi : \A m \in Concrete(v), n \in Concrete(w) : m <= n

\* An AmountRequirementTemplate: a null counts as defined.
AmountTemplate(a) ==
    LET field == {TemplateMin(v) : v \in a.min} \cup {TemplateMax(v) : v \in a.max}
    IN  IF a.min \cup a.max # {} /\ "raised" \in field THEN "raised"
        ELSE Verdict(/\ a.min \cup a.max # {}
                     /\ field \subseteq {"ok"}
                     /\ ShortName(a.name)
                     /\ Literal(a.name) => ValidAmountName(a.name)
                     /\ InOrder(a.min, a.max))

\* AttributeRequirementTemplate._validate_attribute_list, for both phases;
\* expressions are left for later.
AttributeList(name, list, isAllOf) ==
    LET literals == {list[k] : k \in DOMAIN list} \cap Words
    IN  IF Literal(name) /\ Low(name) \in StandardAttributes
        THEN /\ isAllOf => Len(list) <= 1
             /\ \A w \in literals : Low(w) \in StandardValues
        ELSE \A w \in literals : Facts[w].value /\ ~Facts[w].long

AttributeTemplate(a) ==
    Verdict(/\ a.anyOf \cup a.allOf # {}
            /\ \A v \in Has(a.anyOf \cup a.allOf) : Len(v.items) \in 1 .. MaxItems
            /\ ShortName(a.name)
            /\ Literal(a.name) => ValidAttributeName(a.name)
            /\ \A v \in Has(a.anyOf) : AttributeList(a.name, v.items, FALSE)
            /\ \A v \in Has(a.allOf) : AttributeList(a.name, v.items, TRUE))

\* validate_unique_elements, by the name as written, in lower case: expressions
\* are compared as texts, so two that differ in case only are taken for one.
Names(entries) ==
    {LET n == entries[k].name IN IF Literal(n) THEN Low(n) ELSE Lowered[n] :
       k \in DOMAIN entries}
UniqueAsWritten(entries) ==        \* mutant: names differing in case pass
    Cardinality({entries[k].name : k \in DOMAIN entries}) = Len(entries)
Unique(entries) == Cardinality(Names(entries)) = Len(entries)

\* HostRequirementsTemplate: its fields, and the whole.
FieldTemplate(f) == doc[f] # {<<>>} /\ \A list \in doc[f] : Unique(list)
WholeTemplate ==
    LET size(S) == IF S = {} THEN 0 ELSE Len(CHOOSE list \in S : TRUE)
    IN  /\ \E f \in Fields : doc[f] # {}
        /\ size(doc.amounts) + size(doc.attributes) <= MaxRequirements

----------------------------------------------------------------------------
(* Job entries, of texts only.                                             *)

Word(w, e) == IF Literal(w) THEN w ELSE e[w]

\* resolve_fields: "name", "min", "max".
ResolvedLimit(S, e) ==
    {IF v.form = "text" THEN [form |-> "text", word |-> Word(v.word, e)] ELSE v : v \in S}
ResolvedAmount(a, e) ==
    [name |-> Word(a.name, e), min |-> ResolvedLimit(a.min, e), max |-> ResolvedLimit(a.max, e)]

\* An AmountRequirement.
Numeric(S) == \A v \in Has(S) : Concrete(v) # {}
AmountSuits(a) ==
    /\ ~Facts[a.name].long /\ ValidAmountName(a.name)
    /\ Numeric(a.min) /\ \A v \in Has(a.min) : \A n \in Concrete(v) : n >= 0
    /\ Numeric(a.max) /\ \A v \in Has(a.max) : \A n \in Concrete(v) : n > 0
    /\ InOrder(Has(a.min), Has(a.max))

\* resolve_fields: "name", "anyOf", "allOf".
ResolvedList(S, e) ==
    {[v EXCEPT !.items = [k \in DOMAIN v.items |-> Word(v.items[k], e)]] : v \in Has(S)}
ResolvedAttribute(a, e) ==
    [name |-> Word(a.name, e), anyOf |-> ResolvedList(a.anyOf, e),
     allOf |-> ResolvedList(a.allOf, e)]

\* An AttributeRequirement.
AttributeSuitsName(a) ==           \* mutant: the job's values are not checked
    ~Facts[a.name].long /\ ValidAttributeName(a.name)
AttributeSuits(a) ==
    /\ ~Facts[a.name].long /\ ValidAttributeName(a.name)
    /\ \A v \in a.anyOf : AttributeList(a.name, v.items, FALSE)
    /\ \A v \in a.allOf : AttributeList(a.name, v.items, TRUE)

----------------------------------------------------------------------------
Entry(f, k) == (CHOOSE list \in doc[f] : TRUE)[k]

\* What pydantic and instantiate_model go through, in this order: the entries
\* of each field, the field, the whole.
Agenda ==
    LET of(f) == IF doc[f] = {} THEN <<>>
                 ELSE [k \in 1 .. Len(CHOOSE list \in doc[f] : TRUE) |-> <<f, k>>] \o <<<<f, 0>>>>
    IN  of("amounts") \o of("attributes") \o <<<<"whole", 0>>>>

Nothing == [amounts |-> <<>>, attributes |-> <<>>]

Init ==
    /\ doc \in Documents /\ features \in BOOLEAN
    /\ phase = "decoding" /\ todo = Agenda /\ errors = {}
    /\ env = <<>> /\ made = Nothing

\* A field is looked at if its entries are without error, the whole if
\* nothing has one.
Looked(f) == \A e \in errors : f # "whole" /\ e[1] # f

RecordFirst(item, good) ==         \* mutant: after an error nothing is looked at
    errors' = IF good \/ errors # {} THEN errors ELSE {item}
Record(item, good) == errors' = IF good THEN errors ELSE errors \cup {item}

\* The template is decoded, an entry, a field, the whole at a time.
Decode ==
    /\ phase = "decoding" /\ todo # <<>>
    /\ LET f == Head(todo)[1]
           k == Head(todo)[2]
           verdict == CASE f = "whole" -> Verdict(Looked(f) => WholeTemplate)
                        [] f # "whole" /\ k = 0 -> Verdict(Looked(f) => FieldTemplate(f))
                        [] f = "amounts"    /\ k > 0 -> AmountTemplate(Entry(f, k))
                        [] f = "attributes" /\ k > 0 -> AttributeTemplate(Entry(f, k))
       IN  /\ Record(Head(todo), verdict # "error")
           /\ phase' = IF verdict = "raised" THEN "raised" ELSE phase
    /\ todo' = Tail(todo)
    /\ UNCHANGED <<doc, features, env, made>>
Decoded ==
    /\ phase = "decoding" /\ todo = <<>>
    /\ phase' = IF errors = {} THEN "decoded" ELSE "invalid"
    /\ UNCHANGED <<doc, features, todo, errors, env, made>>

\* The parameters that its expressions name.
Mentioned(f, e) ==
    {e.name} \cup
    IF f = "amounts" THEN {v.word : v \in {u \in e.min \cup e.max : u.form = "text"}}
    ELSE UNION {{v.items[j] : j \in DOMAIN v.items} : v \in Has(e.anyOf \cup e.allOf)}
MentionedIn(f) == UNION {UNION {Mentioned(f, list[k]) : k \in DOMAIN list} : list \in doc[f]}
Used == (MentionedIn("amounts") \cup MentionedIn("attributes")) \ Words

\* create_job, with any values for the parameters.
CreateJob ==
    /\ phase \in {"decoded", "created", "refused"}
    /\ env' \in [Used -> Words]
    /\ phase' = "instantiating" /\ todo' = Agenda /\ errors' = {} /\ made' = Nothing
    /\ UNCHANGED <<doc, features>>

Put(list, entry, good) == IF good THEN Append(list, entry) ELSE list

\* The entries are instantiated one by one: an error is kept and the next
\* entry taken up (capture_validation_errors).
Instantiate ==
    /\ phase = "instantiating" /\ todo # <<>> /\ Head(todo)[2] > 0
    /\ LET f == Head(todo)[1]
           entry == IF f = "amounts" THEN ResolvedAmount(Entry(f, Head(todo)[2]), env)
                    ELSE ResolvedAttribute(Entry(f, Head(todo)[2]), env)
           good == IF f = "amounts" THEN AmountSuits(entry) ELSE AttributeSuits(entry)
       IN  /\ Record(Head(todo), good)
           /\ made' = [made EXCEPT ![f] = Put(@, entry, good)]
    /\ todo' = Tail(todo)
    /\ UNCHANGED <<doc, features, phase, env>>

\* The list is one of the target type, whatever its names: HostRequirements
\* compares them, when nothing before it has failed.
InstantiateField ==
    /\ phase = "instantiating" /\ todo # <<>> /\ Head(todo)[2] = 0
    /\ todo' = Tail(todo)
    /\ IF Head(todo)[1] # "whole" \/ errors # {} THEN UNCHANGED errors
       ELSE errors' = {<<f, 0>> : f \in {g \in Fields : ~Unique(made[g])}}
    /\ UNCHANGED <<doc, features, phase, env, made>>
Instantiated ==
    /\ phase = "instantiating" /\ todo = <<>>
    /\ phase' = IF errors = {} THEN "created" ELSE "refused"
    /\ UNCHANGED <<doc, features, todo, errors, env, made>>

Next == Decode \/ Decoded \/ CreateJob \/ Instantiate \/ InstantiateField \/ Instantiated

Spec == Init /\ [][Next]_vars

----------------------------------------------------------------------------
\* The document with the words of the parameters written in.
Substituted(e) ==
    [f \in Fields |->
       {[k \in DOMAIN list |-> IF f = "amounts" THEN ResolvedAmount(list[k], e)
                               ELSE [ResolvedAttribute(list[k], e) EXCEPT
                                       !.anyOf = @ \cup (list[k].anyOf \cap {Null}),
                                       !.allOf = @ \cup (list[k].allOf \cap {Null})]] :
          list \in doc[f]}]
Acceptable(d) ==
    \A f \in Fields : \A list \in d[f] :
      /\ Unique(list)
      /\ \A k \in DOMAIN list :
           "ok" = IF f = "amounts" THEN AmountTemplate(list[k]) ELSE AttributeTemplate(list[k])

\* Checking late is as good as checking early: a job is created with some values
\* of the parameters if and only if the template would be decoded with these
\* values written into it, but for an upper limit that is the text 0, which only
\* the job refuses.  The rules are written twice, for templates and for jobs,
\* and each has cases for what it does not know yet.
ZeroText(d) ==
    \E list \in d.amounts : \E k \in DOMAIN list : \E v \in list[k].max :
      v.form = "text" /\ 0 \in Facts[v.word].number
LateAsEarly ==
    phase \in {"created", "refused"} =>
      LET d == Substituted(env)
      IN  ZeroText(d) \/ (phase = "created" <=> Acceptable(d))

\* The requirements in a job can be met and are told apart: there are no two for
\* one capability, however it is spelled, no range of an amount is empty, and no
\* single-valued standard attribute has to have two values.
JobCanBePlaced ==
    phase = "created" =>
      /\ \A f \in Fields : \A j, k \in DOMAIN made[f] :
           j # k => Low(made[f][j].name) # Low(made[f][k].name)
      /\ \A k \in DOMAIN made.amounts : \A v \in Has(made.amounts[k].min) :
           \A w \in Has(made.amounts[k].max) :
             \E m \in Concrete(v), n \in Concrete(w) : 0 <= m /\ m <= n /\ n > 0
      /\ \A k \in DOMAIN made.attributes :
           LET a == made.attributes[k]
           IN  Low(a.name) \in StandardAttributes =>
                 \A v \in a.allOf : \E value \in StandardValues :
                   \A j \in DOMAIN v.items : Low(v.items[j]) = value

\* No entry is lost, whatever becomes of the others: a refusal reports all that
\* are in the way, those after the first and those of the other field too, and
\* a job has all entries of the template, each in its place.
EveryEntryAnswered ==
    \A f \in Fields : \A list \in doc[f] : \A k \in DOMAIN list :
      LET entry == IF f = "amounts" THEN ResolvedAmount(list[k], env)
                   ELSE ResolvedAttribute(list[k], env)
          good  == IF f = "amounts" THEN AmountSuits(entry) ELSE AttributeSuits(entry)
      IN  /\ phase = "refused" => (good <=> <<f, k>> \notin errors)
          /\ phase = "created" => Len(made[f]) = Len(list) /\ made[f][k] = entry
=============================================================================
