------------------------ MODULE MCStepParamSpaceIter ------------------------
(* Step parameter spaces for TLC: every operator over every other, ranges with *)
(* gaps and out of order, the chunked parameter in every position.           *)
EXTENDS StepParamSpaceIter

Plain(values) == [i \in Indices(values) |-> {values[i]}]

Parameter(op, name, range) ==
    [op |-> op, name |-> name, constraint |-> "none", range |-> range]

A == Parameter("range", "A", Plain(<<1, 2>>))
B == Parameter("range", "B", Plain(<<5, 4, 3>>))
D == Parameter("range", "D", Plain(<<1, 2, 3, 4, 5, 6>>))
E == Parameter("range", "E", Plain(<<8, 7>>))
F == Parameter("range", "F", Plain(<<6, 7, 8>>))
H == Parameter("range", "H", Plain(<<0, 9>>))
J == Parameter("range", "J", Plain(<<3, 2, 1>>))
Gaps   == Parameter("contiguous", "C", <<1, 2, 3, 4, 6, 7, 9>>)
Mixed  == Parameter("contiguous", "C", <<5, 1, 2, 3>>)
Sparse == Parameter("noncontiguous", "C", <<1, 4, 5, 9, 2>>)
Long   == Parameter("noncontiguous", "C", <<1, 2, 3, 4, 5, 6, 7, 8>>)

Product(kids)     == [op |-> "product", kids |-> kids]
Association(kids) == [op |-> "association", kids |-> kids]

MCSpaces == {
    [op |-> "zero"], A, Gaps, Sparse, Long,
    Product(<<A, B, E>>),
    Product(<<Gaps, A>>), Product(<<A, Sparse>>), Product(<<A, Mixed, B>>),
    Association(<<A, E>>),
    Product(<<A, Association(<<B, F>>)>>),
    Product(<<Mixed, Association(<<A, E>>)>>),
    Association(<<D, Product(<<A, B>>)>>),
    Association(<<Product(<<B, A>>), D>>),
    Association(<<Product(<<A, B>>), Product(<<H, J>>)>>),
    Product(<<Association(<<Product(<<A, B>>), D>>), H>>)}
============================================================================
