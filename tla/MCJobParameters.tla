--------------------------- MODULE MCJobParameters ---------------------------
(* Definitions and values for TLC.  Parameter p has up to three definitions  *)
(* of any kind, q at most one.                                               *)
EXTENDS JobParameters

Number(n)       == [size |-> n, place |-> "plain", tidy |-> TRUE]
Path(n, place)  == [size |-> n, place |-> place, tidy |-> TRUE]
Bad     == [size |-> 1, place |-> "malformed", tidy |-> TRUE]
Empty   == Path(0, "relative")
Rel     == Path(1, "relative")
Up      == Path(2, "upward")
Abs     == Path(2, "absolute")
RelMore == [size |-> 2, place |-> "relative", tidy |-> FALSE]
Link    == [size |-> 2, place |-> "uri", tidy |-> FALSE]

Numbers == {Number(n) : n \in -1 .. 3}
Paths   == {Empty, Rel, Up, Abs, RelMore, Link}
\* Values that tidying and joining make of the paths are values too.
Made    == {Path(n, place) : n \in 0 .. 4, place \in {"relative", "upward", "absolute"}}
MCValues == Numbers \cup Paths \cup Made \cup {Bad}

Def(type, default, list, low, high) ==
    [type |-> type, default |-> default, allowed |-> list, lo |-> low,
     hi |-> high, objectType |-> {}, dataFlow |-> {}]
Whole(default, list, low, high)  == Def("INT", default, list, low, high)
PathDef(default, list, high)     == Def("PATH", default, list, {}, high)

Ints == {
    Whole({}, {}, {}, {}),
    Whole({}, {}, {0}, {}),
    Whole({}, {}, {}, {0}),
    Whole({}, {}, {-1}, {2}),
    Whole({Number(1)}, {}, {1}, {}),
    Whole({}, {Number(1)}, {}, {}),
    Whole({}, {Number(2)}, {}, {}),
    Whole({Number(2)}, {Number(1), Number(2)}, {}, {}),
    Whole({}, {Number(2), Number(3)}, {}, {3})}
Strings == {
    Def("STRING", {}, {}, {0}, {2}),
    Def("STRING", {Number(2)}, {Number(2), Number(3)}, {1}, {})}
PathDefs == {
    PathDef({}, {}, {}),
    PathDef({Rel}, {}, {3}),
    PathDef({Up}, {}, {}),
    PathDef({Abs}, {Abs, Rel}, {}),
    PathDef({RelMore}, {}, {2}),
    PathDef({Empty}, {}, {}),
    PathDef({Link}, {}, {}),
    [PathDef({}, {}, {}) EXCEPT !.objectType = {"FILE"}, !.dataFlow = {"IN"}],
    [PathDef({}, {}, {}) EXCEPT !.dataFlow = {"OUT"}]}
Lists == {
    Def("LIST", {}, {}, {1}, {2}),
    Def("LIST", {Number(3)}, {}, {}, {}),
    Def("LIST", {Number(0)}, {}, {0}, {0})}
One == Whole({Number(1)}, {}, {}, {})
MCDefinitions == {One} \cup Ints \cup Strings \cup PathDefs \cup Lists

P(d) == [name |-> "p", definition |-> d]
Q == [name |-> "q", definition |-> One]
Same(S) == {<<P(d)>> : d \in S} \cup {<<P(d), P(e)>> : d, e \in S}
MCTemplates ==
    {<<>>}
      \cup Same(Ints) \cup Same(Strings) \cup Same(PathDefs) \cup Same(Lists)
      \cup {<<P(d), P(e), P(f)>> : d, e, f \in Ints}
      \cup {<<P(d), Q, P(e)>> : d, e \in Strings \cup Lists}

Only(v)    == [x \in {"p"} |-> v]
MCSubmitted ==
    {NoValues, [x \in {"x"} |-> Number(1)],
     [x \in {"p", "q"} |-> Number(1)], [x \in {"p", "x"} |-> Number(2)]}
      \cup {Only(v) : v \in Numbers \cup Paths \cup {Bad}}
=============================================================================
