------------------------- MODULE MCCombinationExpr -------------------------
(* Up to three parameters, one of which may be chunked; X is defined nowhere. *)
EXTENDS CombinationExpr

MCIdentifiers == {"A", "B", "C", "X"}
Def(x, length) == [name |-> x, chunk |-> FALSE, length |-> length]
Chunk(x, length) == [name |-> x, chunk |-> TRUE, length |-> length]
MCParamLists ==
    {<<Def("A", 2)>>, <<Chunk("C", 3)>>}
      \cup {<<Def("A", m), Def("B", n)>> : m, n \in 1 .. 3}
      \cup {<<Def("A", l), Def("B", m), Def("C", n)>> : l, m, n \in {2, 3}}
      \cup {<<Def("A", 2), Def("B", 3), Def("C", 6)>>}
      \cup {<<Def("A", 2), Def("B", n), Chunk("C", 3)>> : n \in 2 .. 3}
=============================================================================
