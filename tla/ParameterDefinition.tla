------------------------- MODULE ParameterDefinition -------------------------
(***************************************************************************)
(* A job parameter definition from the document to the job: pydantic       *)
(* validates its fields one by one, each validator seeing the fields that  *)
(* have passed (openjd/model/v2023_09/_model.py), create_job takes a value *)
(* for it, submitted or the default, coerces and checks it                 *)
(* (_create_job.py), and a JobParameter and the template-scope symbols     *)
(* come of it.  Twelve classes, one per type, write the same rules twice:  *)
(* for the default, when the template is decoded, and for the value, when  *)
(* the job is made.  Merging definitions and resolving paths is the matter *)
(* of JobParameters; create_job is called here with no directories.        *)
(*                                                                         *)
(* A Python object is a record: how it is written (py) and what it is (n): *)
(* "text" of n letters, the "digits" of the number n, the words yes (1)    *)
(* and no (0) in small ("spelled") or capital letters ("SPELLED"), the     *)
(* text "nan", an "int", "float", "bool" or "decimal" n, the float "NaN",  *)
(* "null"; and a "list", or its "json" text, has items.  The field of a    *)
(* document is a set: empty if it is absent.                               *)
(***************************************************************************)
EXTENDS Integers, Sequences, FiniteSets

CONSTANTS
    Documents,     \* the definitions as they are written
    Submissions    \* the objects callers give for a parameter

AtMostOne(S) == \A x, y \in S : x = y

LegacyTypes == {"STRING", "PATH", "INT", "FLOAT"}
ListTypes == {"LIST[STRING]", "LIST[PATH]", "LIST[INT]", "LIST[FLOAT]", "LIST[BOOL]",
              "LIST[LIST[INT]]"}
JobParameterType == LegacyTypes \cup ListTypes \cup {"BOOL", "RANGE_EXPR"}

\* A definition is of one of the types, and a document has a field once.
ASSUME DocumentsAssumption ==
    \A d \in Documents :
      /\ d.type \in JobParameterType
      /\ AtMostOne(d.default)
      /\ \A v \in d.default : v.py = "list" => v.items \in Seq({v.items[k] : k \in DOMAIN v.items})

VARIABLES
    doc,           \* the definition as it is written
    todo,          \* the fields pydantic has still to validate, in order
    data,          \* info.data: the fields that have passed
    errors,        \* the fields with a validation error
    phase,         \* "decoding", "decoded", "invalid", "collected", "checked",
                   \* "created", "refused", or "raised" (an uncaught exception)
    given,         \* the object given for the parameter, if any
    value,         \* the value that was collected
    jobs           \* the JobParameters made of it, with their symbols

vars == <<doc, todo, data, errors, phase, given, value, jobs>>

Object(py, n) == [py |-> py, n |-> n]
Null          == Object("null", 0)
Texts         == {"text", "digits", "spelled", "SPELLED", "nan", "json"}
IsText(v)     == v.py \in Texts
IsNumber(v)   == v.py \in {"int", "float", "decimal"}

Known(S)  == S \ {Null}      \* info.data.get(...) is not None
ItemsOf(v) == {v.items[k] : k \in DOMAIN v.items}

Length(v) ==
    CASE v.py = "text"   -> v.n
      [] v.py = "digits" -> IF v.n \in 0 .. 9 THEN 1 ELSE 2
      [] v.py = "nan"    -> 3
      [] v.py \in {"spelled", "SPELLED"} -> v.n + 2
      [] v.py = "list"   -> Len(v.items)
      [] v.py = "json"   -> Len(v.items) + 2

\* What the limits of a definition bound: the length of a text or a list, the
\* value of a number.
Measure(v) == IF IsNumber(v) THEN v.n ELSE Length(v)
Within(v, lo, hi) == (\A l \in lo : l <= Measure(v)) /\ (\A h \in hi : Measure(v) <= h)

----------------------------------------------------------------------------
(* The field validators, class by class: whether the value w written for a *)
(* field f passes after the fields in d.  A default that is null fails in  *)
(* a comparison, with a TypeError, if it gets that far.                    *)

\* _coerce_bool_value.
Boolish(v) == /\ v.py \in {"bool", "int", "float", "digits", "spelled", "SPELLED"}
              /\ v.n \in {0, 1}

\* pydantic's lax parsing of a number.
Unparsed(v, py) == v     \* mutant
Parsed(v, py) == IF v.py \in {"int", "float", "digits"} THEN Object(py, v.n) ELSE v

InOrder(lo, hi) == \A l \in lo, h \in hi : l <= h
DefaultUnlisted(v, d) == Within(v, d.lo, d.hi)     \* mutant
DefaultSuits(v, d) == /\ Within(v, d.lo, d.hi)
                      /\ d.allowed # {} => v \in d.allowed

StringValidates(f, w, d) ==
    CASE f = "lo" -> w.n >= 0
      [] f = "hi" -> w.n > 0 /\ InOrder(d.lo, {w.n})
      [] f = "allowed" -> /\ w # Null /\ w.items # <<>>
                          /\ \A v \in ItemsOf(w) : IsText(v) /\ Within(v, d.lo, d.hi)
      [] f = "default" -> IsText(w) /\ DefaultSuits(w, d)

PathValidates(f, w, d) ==
    CASE f = "lo" -> w.n >= 0
      [] f = "hi" -> w.n > 0 /\ InOrder(d.lo, {w.n})
      [] f = "allowed" -> /\ w # Null /\ w.items # <<>>
                          /\ \A v \in ItemsOf(w) : IsText(v) /\ Within(v, d.lo, d.hi)
      [] f = "default" -> IsText(w) /\ DefaultSuits(w, d)

IntValidates(f, w, d) ==
    LET int(v) == v.py \in {"int", "digits"}
    IN  CASE f = "lo" -> int(w)
          [] f = "hi" -> int(w) /\ InOrder(d.lo, {w.n})
          [] f = "allowed" -> /\ w # Null /\ w.items # <<>>
                              /\ \A v \in ItemsOf(w) :
                                   int(v) /\ Within(Parsed(v, "int"), d.lo, d.hi)
          [] f = "default" -> int(w) /\ DefaultSuits(Parsed(w, "int"), d)

FloatValidates(f, w, d) ==
    LET decimal(v) == v.py \in {"int", "float", "digits"}
    IN  CASE f = "lo" -> decimal(w)
          [] f = "hi" -> decimal(w) /\ InOrder(d.lo, {w.n})
          [] f = "allowed" -> /\ w # Null /\ w.items # <<>>
                              /\ \A v \in ItemsOf(w) :
                                   decimal(v) /\ Within(Parsed(v, "decimal"), d.lo, d.hi)
          [] f = "default" -> decimal(w) /\ DefaultSuits(Parsed(w, "decimal"), d)

BoolValidates(f, w)  == f = "default" => Boolish(w)
RangeValidates(f, w) == IF f = "default" THEN w.py = "digits" ELSE w.py = "int"
ListValidates(f, w)  == IF f = "default" THEN w.py = "list" ELSE w.py = "int"

Validates(f, w, d) ==
    CASE doc.type = "STRING" -> StringValidates(f, w, d)
      [] doc.type = "PATH"   -> PathValidates(f, w, d)
      [] doc.type = "INT"    -> IntValidates(f, w, d)
      [] doc.type = "FLOAT"  -> FloatValidates(f, w, d)
      [] doc.type = "BOOL"   -> BoolValidates(f, w)
      [] doc.type = "RANGE_EXPR" -> RangeValidates(f, w)
      [] doc.type \in ListTypes  -> ListValidates(f, w)

\* What is kept of it: numbers for limits, a set for a list of values.
Kept(f, w) ==
    LET parsed(v) == CASE doc.type = "INT"   -> Parsed(v, "int")
                       [] doc.type = "FLOAT" -> Parsed(v, "decimal")
                       [] doc.type = "BOOL"  -> Object("bool", v.n)
                       [] OTHER -> v
    IN  CASE f \in {"lo", "hi"} -> {w.n}
          [] f = "allowed" -> {parsed(v) : v \in ItemsOf(w)}
          [] f = "default" -> {parsed(w)}

----------------------------------------------------------------------------
(* _check_constraints, class by class: "ok", or what it raises.  Limits of *)
(* the scalar classes are looked at for their truth, so that 0 is none.    *)

Raises(refused) == IF refused THEN "ValueError" ELSE "ok"
True(limits)    == limits \ {0}

StringChecks(v, d) ==
    Raises(~ /\ IsText(v)
             /\ d.allowed # {} => v \in d.allowed
             /\ Within(v, True(d.lo), True(d.hi)))
PathChecks(v, d) ==
    Raises(~ /\ IsText(v)
             /\ d.allowed # {} => v \in d.allowed
             /\ Within(v, True(d.lo), True(d.hi)))
IntChecks(v, d) ==
    Raises(~ /\ v.py \in {"digits", "int"}
             /\ d.allowed # {} => Object("int", v.n) \in d.allowed
             /\ Within(Object("int", v.n), True(d.lo), True(d.hi)))
\* Decimal("nan") is a Decimal, is in no list, and does not compare.
FloatChecks(v, d) ==
    IF v.py = "nan" /\ d.allowed = {}
    THEN IF True(d.lo \cup d.hi) # {} THEN "InvalidOperation" ELSE "ok"
    ELSE Raises(~ /\ v.py \in {"digits", "int", "float", "decimal"}
                  /\ d.allowed # {} => Object("decimal", v.n) \in d.allowed
                  /\ Within(Object("decimal", v.n), True(d.lo), True(d.hi)))
BoolChecks(v)  == Raises(~Boolish(v))
RangeChecks(v) == Raises(v.py # "digits")

\* The item: constraints c of a list, if it has any, on one of its items.
StringItemMeets(v, c) ==
    /\ IsText(v)
    /\ \A k \in c : Within(v, k.lo, k.hi) /\ (k.allowed # {} => v \in k.allowed)
NumericItemMeets(v, c) ==
    \A k \in c : /\ Within(v, k.lo, k.hi)
                 /\ k.allowed # {} => \E a \in k.allowed : a.n = v.n
IntItemMeets(v, c)   == v.py = "int" /\ NumericItemMeets(v, c)
FloatItemMeets(v, c) ==
    \/ v.py = "NaN" /\ \A k \in c : k.lo \cup k.hi \cup k.allowed = {}
    \/ v.py \in {"int", "float"} /\ NumericItemMeets(v, c)
ListItemMeets(v, c)  ==
    /\ v.py = "list"
    /\ \A k \in c : Within(v, k.lo, k.hi)
    /\ \A i \in ItemsOf(v) : IntItemMeets(i, UNION {k.inner : k \in c})

CheckItem(v, c) ==
    CASE doc.type \in {"LIST[STRING]", "LIST[PATH]"} -> StringItemMeets(v, c)
      [] doc.type = "LIST[INT]"       -> IntItemMeets(v, c)
      [] doc.type = "LIST[FLOAT]"     -> FloatItemMeets(v, c)
      [] doc.type = "LIST[BOOL]"      -> Boolish(v)
      [] doc.type = "LIST[LIST[INT]]" -> ListItemMeets(v, c)

\* _check_list_value looks at the items in order; a NaN does not compare.
ListChecks(v, d) ==
    IF v.py # "list" \/ ~Within(v, d.lo, d.hi) THEN "ValueError"
    ELSE LET bad == {k \in DOMAIN v.items : ~CheckItem(v.items[k], doc.item)}
             first == CHOOSE k \in bad : \A j \in bad : k <= j
             compared == /\ doc.type = "LIST[FLOAT]"
                         /\ \E k \in doc.item : k.lo \cup k.hi # {}
         IN  IF bad # {} /\ compared /\ v.items[first].py = "NaN"
             THEN "InvalidOperation" ELSE Raises(bad # {})

Checks(v, d) ==
    CASE doc.type = "STRING" -> StringChecks(v, d)
      [] doc.type = "PATH"   -> PathChecks(v, d)
      [] doc.type = "INT"    -> IntChecks(v, d)
      [] doc.type = "FLOAT"  -> FloatChecks(v, d)
      [] doc.type = "BOOL"   -> BoolChecks(v)
      [] doc.type = "RANGE_EXPR" -> RangeChecks(v)
      [] doc.type \in ListTypes  -> ListChecks(v, d)

----------------------------------------------------------------------------
(* _validate_user_interface_compatibility, class by class: whether the     *)
(* control c, and the other attributes of the user interface, go with d.   *)

Capitals(v) == IF v.py = "spelled" THEN [v EXCEPT !.py = "SPELLED"] ELSE v
CheckBoxLists == {{Object("SPELLED", 1), Object("SPELLED", 0)},
                  {Object("digits", 1), Object("digits", 0)}}

StringControl(c, d) ==
    /\ c \in {"LINE_EDIT", "MULTILINE_EDIT"} => d.allowed = {}
    /\ c = "DROPDOWN_LIST" => d.allowed # {}
    /\ c = "CHECK_BOX" => {Capitals(v) : v \in d.allowed} \in CheckBoxLists
PathControl(c, d, attributes) ==
    LET choosers == {"CHOOSE_INPUT_FILE", "CHOOSE_OUTPUT_FILE"}
    IN  /\ c \in choosers \cup {"CHOOSE_DIRECTORY"} => d.allowed = {}
        /\ c = "DROPDOWN_LIST" => d.allowed # {}
        /\ "fileFilters" \in attributes => c \in choosers
        /\ c = "CHOOSE_DIRECTORY" => doc.objectType # {"FILE"}
        /\ c \in choosers => doc.objectType # {"DIRECTORY"}
IntControl(c, d, attributes) ==
    /\ c = "SPIN_BOX" => d.allowed = {}
    /\ c = "DROPDOWN_LIST" => d.allowed # {}
    /\ "singleStepDelta" \in attributes => c = "SPIN_BOX"
FloatControl(c, d, attributes) ==
    /\ c = "SPIN_BOX" => d.allowed = {}
    /\ c = "DROPDOWN_LIST" => d.allowed # {}
    /\ "singleStepDelta" \in attributes => c = "SPIN_BOX"

\* _validate_decimals_requires_spin_box: with no control, the default one.
FloatDecimals(controls, d, attributes) ==
    "decimals" \in attributes =>
      controls = {"SPIN_BOX"} \/ (controls = {} /\ d.allowed = {})

InterfaceSuits(d) ==
    \A ui \in doc.userInterface :
      /\ doc.type = "FLOAT" => FloatDecimals(ui.control, d, ui.attributes)
      /\ \A c \in ui.control :
           CASE doc.type = "STRING" -> StringControl(c, d)
             [] doc.type = "PATH"   -> PathControl(c, d, ui.attributes)
             [] doc.type = "INT"    -> IntControl(c, d, ui.attributes)
             [] doc.type = "FLOAT"  -> FloatControl(c, d, ui.attributes)
             [] OTHER -> TRUE

----------------------------------------------------------------------------
(* Decoding.                                                               *)

NoData == [lo |-> {}, hi |-> {}, allowed |-> {}, default |-> {}]

\* The type names of the EXPR extension need it, and any spelling is one then.
Recognized == doc.cased \/ doc.expr
TypeGate   == doc.type \in LegacyTypes \/ doc.expr

Init ==
    /\ doc \in Documents
    /\ data = NoData
    /\ phase = "decoding"
    /\ errors = {e \in {"type"} : ~(Recognized /\ TypeGate)}
    /\ todo = IF Recognized THEN <<"lo", "hi", "allowed", "default">> ELSE <<>>
    /\ given = {} /\ value = {} /\ jobs = <<>>

\* A null default of a class whose validator compares it with a limit.
Compares(f) ==
    /\ f = "default" /\ doc.default = {Null}
    /\ doc.type \in LegacyTypes /\ data.lo \cup data.hi # {}
\* A null is no value, but a list of allowed values may not be null, and a
\* null default is not among them.
NullPasses(f) == f # "allowed" /\ (f = "default" => data.allowed = {})

ValidateField ==
    /\ phase = "decoding" /\ todo # <<>>
    /\ LET f == Head(todo)
           passes == IF doc[f] \subseteq {Null} THEN doc[f] = {} \/ NullPasses(f)
                     ELSE \A w \in doc[f] : Validates(f, w, data)
       IN  IF Compares(f) THEN /\ phase' = "raised"
                               /\ UNCHANGED <<data, errors>>
           ELSE /\ errors' = IF passes THEN errors ELSE errors \cup {f}
                /\ data' = IF passes
                           THEN [data EXCEPT ![f] = UNION {Kept(f, w) : w \in Known(doc[f])}]
                           ELSE data
                /\ phase' = phase
    /\ todo' = Tail(todo)
    /\ UNCHANGED <<doc, given, value, jobs>>

\* The validators of the whole model run if all its fields have passed; the
\* default of a list is checked like a value.
ValidateModel ==
    /\ phase = "decoding" /\ todo = <<>>
    /\ LET default == IF doc.type \in ListTypes THEN {Checks(v, data) : v \in data.default}
                      ELSE {}
       IN  phase' = IF errors # {} THEN "invalid"
                    ELSE IF "InvalidOperation" \in default THEN "raised"
                    ELSE IF InterfaceSuits(data) /\ default \subseteq {"ok"} THEN "decoded"
                    ELSE "invalid"
    /\ UNCHANGED <<doc, todo, data, errors, given, value, jobs>>

----------------------------------------------------------------------------
(* Creating the job.                                                       *)

\* str(value).
Str(v) == IF IsNumber(v) THEN Object("digits", v.n) ELSE v

\* _coerce_expr_param_value: the coerced value, or nothing if it raises.
Bools(v) == IF \A i \in ItemsOf(v) : Boolish(i)
            THEN {[py |-> "list", items |-> [k \in DOMAIN v.items |-> Object("bool", v.items[k].n)]]}
            ELSE {}
FromJson(v) == IF v.py = "json" THEN {[py |-> "list", items |-> v.items]} ELSE {}
CoercedItemsNot(v) ==            \* mutant: the items of a list are left alone
    CASE doc.type = "BOOL" /\ IsText(v) ->
           IF Boolish(v) THEN {Object("bool", v.n)} ELSE {}
      [] doc.type \in ListTypes /\ IsText(v) -> FromJson(v)
      [] OTHER -> {v}
CoercedTexts(v) ==               \* mutant: only text is taken for a BOOL
    CASE doc.type = "BOOL" -> IF IsText(v) /\ Boolish(v) THEN {Object("bool", v.n)} ELSE {}
      [] doc.type = "LIST[BOOL]" /\ v.py = "list" -> Bools(v)
      [] doc.type = "LIST[BOOL]" /\ IsText(v) -> UNION {Bools(l) : l \in FromJson(v)}
      [] doc.type \in ListTypes \ {"LIST[BOOL]"} /\ IsText(v) -> FromJson(v)
      [] OTHER -> {v}
Coerced(v) ==
    CASE doc.type = "BOOL" /\ IsText(v) ->
           IF Boolish(v) THEN {Object("bool", v.n)} ELSE {}
      [] doc.type = "LIST[BOOL]" /\ v.py = "list" -> Bools(v)
      [] doc.type = "LIST[BOOL]" /\ IsText(v) -> UNION {Bools(l) : l \in FromJson(v)}
      [] doc.type \in ListTypes \ {"LIST[BOOL]"} /\ IsText(v) -> FromJson(v)
      [] OTHER -> {v}

\* _collect_defaults_2023_09, with no directories: what it collects.
Collected(g) ==
    CASE g # {} /\ doc.type \in LegacyTypes -> {Str(v) : v \in g}
      [] g # {} /\ doc.type \notin LegacyTypes -> UNION {Coerced(v) : v \in g}
      [] g = {} /\ doc.type \in LegacyTypes -> {Str(v) : v \in data.default}
      [] g = {} /\ doc.type = "LIST[BOOL]" -> UNION {Bools(v) : v \in data.default}
      [] OTHER -> data.default

\* create_job is called with a value, or with none.
Collect(g) ==
    /\ given' = g
    /\ value' = Collected(g)
    /\ phase' = IF value' = {} THEN "refused" ELSE "collected"
    /\ UNCHANGED <<doc, todo, data, errors, jobs>>
Submit == /\ phase = "decoded"
          /\ \E g \in {{}} \cup {{v} : v \in Submissions} : Collect(g)

\* _check_2023_09 turns a ValueError into a refusal, and nothing else.
Check ==
    /\ phase = "collected"
    /\ \E outcome \in {Checks(v, data) : v \in value} :
         phase' = CASE outcome = "ok" -> "checked"
                    [] outcome = "ValueError" -> "refused"
                    [] outcome = "InvalidOperation" -> "raised"
    /\ UNCHANGED <<doc, todo, data, errors, given, value, jobs>>

\* The symbols of template scope, with the types of those that are given one.
SeededScalarPath ==              \* mutant: only PATH itself is kept back
    LET typed(type) == IF type \in {"STRING", "PATH"} THEN "untyped" ELSE type
    IN  [raw   |-> typed(IF doc.type = "LIST[PATH]" THEN "LIST[STRING]" ELSE doc.type),
         param |-> IF doc.type = "PATH" THEN "none" ELSE typed(doc.type)]
Seeded ==
    LET typed(type) == IF type \in {"STRING", "PATH"} THEN "untyped" ELSE type
    IN  [raw   |-> typed(IF doc.type = "LIST[PATH]" THEN "LIST[STRING]" ELSE doc.type),
         param |-> IF doc.type \in {"PATH", "LIST[PATH]"} THEN "none" ELSE typed(doc.type)]
\* A JobParameter is instantiated, its value that of RawParam.
CreateJob ==
    /\ phase = "checked"
    /\ jobs' = Append(jobs, [type |-> doc.type, value |-> value, symbols |-> Seeded])
    /\ phase' = "created"
    /\ UNCHANGED <<doc, todo, data, errors, given, value>>

\* A job is created again from the value that a client has preprocessed.
Resubmit == phase = "created" /\ Len(jobs) = 1 /\ Collect(jobs[1].value)

Next == ValidateField \/ ValidateModel \/ Submit \/ Check \/ CreateJob \/ Resubmit

Spec == Init /\ [][Next]_vars

----------------------------------------------------------------------------
\* What a definition itself offers is good: a decoded definition never leads to
\* a refusal, or an exception, when the value is its own default or one of its
\* own allowed values, however the list of them spells it.  The decoder and
\* _check_constraints are written apart.
OwnValuesPass ==
    LET listed(v) ==
          CASE doc.type \in {"STRING", "PATH"} -> v \in data.allowed
            [] doc.type \in {"INT", "FLOAT"}   ->
                 v.py \in {"digits", "int"} /\ \E a \in data.allowed : a.n = v.n
            [] OTHER -> FALSE
    IN  phase = "refused" \/ (phase = "raised" /\ value # {}) =>
          /\ given = {} => data.default = {}
          /\ \A v \in given : ~listed(v)

\* A job is created again from what the first creation made of the value, and
\* is the same: coercion is done once and for all.
SameJobAgain ==
    /\ Len(jobs) = 2 => jobs[1] = jobs[2]
    /\ Len(jobs) = 1 => phase \notin {"refused", "raised"}

\* The value in a job keeps to the limits of the definition that are not 0 and
\* to those of a list, is one of the allowed values, and a BOOL or list given as
\* text has become one, all its items as the type has them.
JobValueSuits ==
    \A k \in DOMAIN jobs : \A v \in jobs[k].value :
      /\ doc.type \in {"STRING", "PATH"} =>
           Within(v, data.lo \ {0}, data.hi) /\ (data.allowed # {} => v \in data.allowed)
      /\ doc.type \in {"INT", "FLOAT"} /\ v.py = "digits" =>
           /\ \A l \in data.lo \ {0} : l <= v.n
           /\ \A h \in data.hi \ {0} : v.n <= h
           /\ data.allowed # {} => \E a \in data.allowed : a.n = v.n
      /\ doc.type \in ListTypes =>
           /\ v.py = "list" /\ Within(v, data.lo, data.hi)
           /\ doc.type = "LIST[BOOL]" => \A i \in ItemsOf(v) : i.py = "bool"
           /\ doc.type # "LIST[BOOL]" => \A i \in ItemsOf(v) : CheckItem(i, doc.item)
      /\ doc.type = "BOOL" /\ (\A g \in given : IsText(g)) => v.py = "bool"

\* The symbols that validation of the template takes to be there before a
\* session, and their types (_get_model_for_singleton_value,
\* _symbol_expr_type): create_job has to provide the same.
Declared ==
    LET typed(type) == IF type \in {"STRING", "PATH"} THEN "untyped" ELSE type
        path == doc.type \in {"PATH", "LIST[PATH]"}
    IN  [raw   |-> IF path THEN IF doc.type = "PATH" THEN "untyped" ELSE "LIST[STRING]"
                   ELSE typed(doc.type),
         param |-> IF path THEN "none" ELSE typed(doc.type)]
SymbolsAsDeclared == \A k \in DOMAIN jobs : jobs[k].symbols = Declared

=============================================================================
