------------------------ MODULE MCParameterDefinition ------------------------
(* Definitions and values for TLC: every limit, list and default of a few,   *)
(* valid or not, for each type.                                              *)
EXTENDS ParameterDefinition

Text(n)   == Object("text", n)
Digits(n) == Object("digits", n)
Number(n)    == Object("int", n)
Yes == Object("spelled", 1)
YES == Object("SPELLED", 1)
No  == Object("spelled", 0)
ListOf(items) == [py |-> "list", items |-> items]
Json(items)   == [py |-> "json", items |-> items]

Doc(type) ==
    [type |-> type, cased |-> TRUE, expr |-> TRUE, lo |-> {}, hi |-> {}, allowed |-> {},
     default |-> {}, item |-> {}, objectType |-> {}, userInterface |-> {}]

UI(controls, attributes) == [control |-> controls, attributes |-> attributes]
Written(S) == {{}, {Null}} \cup {{v} : v \in S}

Limits(type, los, his, lists, defaults) ==
    {[Doc(type) EXCEPT !.lo = l, !.hi = h, !.allowed = a, !.default = d] :
       l \in Written(los), h \in Written(his), a \in Written(lists), d \in Written(defaults)}

StringLists == {ListOf(<<>>), ListOf(<<Text(1), Text(2)>>), ListOf(<<Number(1)>>),
                ListOf(<<Yes, No>>), ListOf(<<YES, Yes>>), ListOf(<<Digits(1), Digits(0)>>)}
NumberLists == {ListOf(<<>>), ListOf(<<Number(1), Digits(2)>>), ListOf(<<Object("float", 2)>>),
                ListOf(<<Object("bool", 1)>>), ListOf(<<Number(0)>>)}
Bounds == {Number(-1), Number(0), Number(1), Number(2)}

Strings == Limits("STRING", Bounds, Bounds, StringLists, {Text(0), Text(1), Text(2), Number(1)})
Paths   == Limits("PATH", {Number(1)}, {Number(1)}, StringLists, {Text(0), Text(1), Text(2)})
Ints    == Limits("INT", Bounds, Bounds, NumberLists,
                  {Number(0), Digits(2), Object("float", 1), Object("bool", 1)})
Floats  == Limits("FLOAT", Bounds, Bounds, NumberLists,
                  {Number(0), Digits(2), Object("float", 1), Object("nan", 3)})

\* Every control, with and without a list, and the attributes it may have.
Interfaces ==
    LET with(type, list, controls, attributes) ==
          {[Doc(type) EXCEPT !.allowed = a, !.userInterface = {UI(c, t)}] :
             a \in {{}} \cup {{l} : l \in list}, c \in {{}} \cup {{k} : k \in controls},
             t \in {{}} \cup {{x} : x \in attributes}}
        paths == with("PATH", {ListOf(<<Text(1)>>)},
                      {"CHOOSE_INPUT_FILE", "CHOOSE_DIRECTORY", "DROPDOWN_LIST", "HIDDEN"},
                      {"fileFilters"})
    IN  with("STRING", StringLists, {"LINE_EDIT", "DROPDOWN_LIST", "CHECK_BOX", "HIDDEN"}, {})
          \cup {[d EXCEPT !.objectType = o] : d \in paths, o \in {{}, {"FILE"}, {"DIRECTORY"}}}
          \cup with("INT", {ListOf(<<Number(1)>>)}, {"SPIN_BOX", "DROPDOWN_LIST", "HIDDEN"},
                    {"singleStepDelta"})
          \cup with("FLOAT", {ListOf(<<Number(1)>>)}, {"SPIN_BOX", "DROPDOWN_LIST", "HIDDEN"},
                    {"singleStepDelta", "decimals"})

BoolDocs  == {[Doc("BOOL") EXCEPT !.default = d] : d \in Written({Yes, Digits(2), Number(1), Text(1)})}
Ranges == {[Doc("RANGE_EXPR") EXCEPT !.default = d, !.lo = l] :
             d \in Written({Digits(1), Text(0), Number(1)}), l \in {{}, {Number(2)}}}

NaN == Object("NaN", 0)
Constraint(lo, hi, list, inner) == [lo |-> lo, hi |-> hi, allowed |-> list, inner |-> inner]
Items(type) ==
    CASE type \in {"LIST[STRING]", "LIST[PATH]"} -> {Text(1), Text(2), Number(1)}
      [] type = "LIST[INT]"   -> {Number(0), Number(2), Object("bool", 1), Digits(1)}
      [] type = "LIST[FLOAT]" -> {Number(0), Object("float", 2), NaN}
      [] type = "LIST[BOOL]"  -> {Yes, Number(1), Number(2), Object("bool", 0)}
      [] type = "LIST[LIST[INT]]" -> {ListOf(<<>>), ListOf(<<Number(0), Number(2)>>), ListOf(<<Text(1)>>),
                                      Number(1)}
Constraints(type) ==
    CASE type \in {"LIST[STRING]", "LIST[PATH]"} ->
           {Constraint({}, {1}, {}, {}), Constraint({}, {}, {Text(2)}, {})}
      [] type = "LIST[INT]"   -> {Constraint({0}, {1}, {}, {}), Constraint({}, {}, {Number(2)}, {})}
      [] type = "LIST[FLOAT]" -> {Constraint({1}, {}, {}, {}),
                                  Constraint({}, {}, {Object("decimal", 2)}, {})}
      [] type = "LIST[BOOL]"  -> {}
      [] type = "LIST[LIST[INT]]" -> {Constraint({1}, {}, {}, {Constraint({}, {1}, {}, {})})}
Some(type) == {<<>>} \cup {<<i>> : i \in Items(type)} \cup {<<i, j>> : i, j \in Items(type)}
Lists ==
    UNION {{[Doc(type) EXCEPT !.lo = l, !.hi = h, !.default = d, !.item = c] :
              l \in {{}, {Number(0)}, {Number(2)}}, h \in {{}, {Number(1)}},
              d \in Written({ListOf(s) : s \in Some(type)} \cup {Text(1)}),
              c \in {{}} \cup {{k} : k \in Constraints(type)}} : type \in ListTypes}

Gated == {[Doc(type) EXCEPT !.cased = c, !.expr = e] :
            type \in JobParameterType, c \in BOOLEAN, e \in BOOLEAN}

MCDocuments == Strings \cup Paths \cup Ints \cup Floats \cup Interfaces \cup BoolDocs \cup Ranges
                 \cup Lists \cup Gated

MCSubmissions ==
    {Text(0), Text(1), Text(2), Digits(0), Digits(1), Digits(2), Number(1), Yes, YES, No,
     Object("nan", 3), Object("bool", 1)}
      \cup UNION {{Json(<<i>>) : i \in Items(type)} : type \in ListTypes}
      \cup {Json(<<>>), Json(<<Yes, Number(1)>>), Json(<<Number(0), Number(2)>>),
            ListOf(<<Yes>>), ListOf(<<Number(0)>>)}
=============================================================================
