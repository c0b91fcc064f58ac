-------------------------- MODULE CombinationExpr --------------------------
(***************************************************************************)
(* The combination expression of a step's parameter space, from the text   *)
(* in the template to the iterator over the job's tasks: the recursive     *)
(* descent parser (openjd/model/_internal/_combination_expr.py, tokens     *)
(* from openjd/model/_tokenstream.py), the validator of the template       *)
(* (StepParameterSpaceDefinition), that of the job (StepParameterSpace,    *)
(* openjd/model/_internal/_param_space_dim_validation.py), and             *)
(* StepParamSpaceIter over what passes them.                               *)
(*                                                                         *)
(* The parser looks one token ahead, so the tokens of a text are chosen as *)
(* it asks for them.  Its calls in progress are a stack with one frame per *)
(* _expression: the factors matched so far, and the terms before them if   *)
(* the expression is inside parentheses.                                   *)
(***************************************************************************)
EXTENDS Integers, Sequences, FiniteSets, SequencesExt

CONSTANTS
    Identifiers,   \* names that occur in a text
    ParamLists,    \* the definitions: sequences of [name, chunk, length]
    MaxTokens      \* bound on the length of a text

ASSUME CombinationAssumption ==
    /\ MaxTokens \in Nat
    /\ \A ps \in ParamLists : \A i \in DOMAIN ps :
         ps[i].name \in Identifiers /\ ps[i].chunk \in BOOLEAN /\ ps[i].length \in Nat \ {0}

VARIABLES
    phase,     \* "parse", "parsed", "accepted", "job" or "failed"
    error,     \* the class of the error
    read,      \* the tokens consumed
    stack,     \* the frames, the innermost last
    after,     \* an element was just matched
    tree,      \* the expression tree
    params     \* the definitions

vars == <<phase, error, read, stack, after, tree, params>>

Symbols == {"*", "(", ")", ","}
Tokens  == Symbols \cup Identifiers
Frame   == [terms |-> <<>>, factors |-> <<>>]

Identifier(x)  == [op |-> "identifier", parameter |-> x]
Node(op, kids) == [op |-> op, kids |-> kids]

\* What _expression returns.
Expression(frame) ==
    IF Len(frame.factors) = 1 THEN frame.factors[1] ELSE Node("product", frame.factors)

Init ==
    /\ phase = "parse" /\ error = "" /\ read = <<>>
    /\ stack = <<Frame>> /\ after = FALSE
    /\ tree = <<>> /\ params = <<>>

Top == stack[Len(stack)]
WithFactor(s, node) == [s EXCEPT ![Len(s)].factors = Append(@, node)]
WithTerm(frame) == Append(frame.terms, Expression(frame))

Consume(t) ==
    /\ phase = "parse" /\ Len(read) < MaxTokens
    /\ read' = Append(read, t)

Fail(class) == phase' = "failed" /\ error' = class

\* _element
Name(t) ==
    /\ ~after /\ t \in Identifiers /\ Consume(t)
    /\ stack' = WithFactor(stack, Identifier(t)) /\ after' = TRUE
    /\ UNCHANGED <<phase, error, tree, params>>

Open(t) ==
    /\ ~after /\ t = "(" /\ Consume(t)
    /\ stack' = Append(stack, Frame)
    /\ UNCHANGED <<phase, error, after, tree, params>>

\* The loops of _expression and _association_expression.
Star(t) ==
    /\ after /\ t = "*" /\ Consume(t)
    /\ after' = FALSE
    /\ UNCHANGED <<phase, error, stack, tree, params>>

Comma(t) ==
    /\ after /\ Len(stack) > 1 /\ t = "," /\ Consume(t)
    /\ stack' = [stack EXCEPT ![Len(stack)] = [terms |-> WithTerm(@), factors |-> <<>>]]
    /\ after' = FALSE
    /\ UNCHANGED <<phase, error, tree, params>>

CloseAny(t) ==     \* mutant: one term is an association
    /\ after /\ Len(stack) > 1 /\ t = ")" /\ Consume(t)
    /\ stack' = WithFactor(Front(stack), Node("association", WithTerm(Top)))
    /\ UNCHANGED <<phase, error, after, tree, params>>

\* The end of an association, which has to have more than one term.
Close(t) ==
    /\ after /\ Len(stack) > 1 /\ t = ")" /\ Consume(t)
    /\ IF Top.terms = <<>>
       THEN Fail("ExpressionError") /\ UNCHANGED stack
       ELSE /\ stack' = WithFactor(Front(stack), Node("association", WithTerm(Top)))
            /\ UNCHANGED <<phase, error>>
    /\ UNCHANGED <<after, tree, params>>

\* Any other token, wherever the parser meets it.
Unexpected(t) ==
    /\ \/ ~after /\ t \in Symbols \ {"("}
       \/ after /\ t \in Identifiers \cup {"("}
       \/ after /\ t \in {",", ")"} /\ Len(stack) = 1
    /\ Consume(t) /\ Fail("TokenError")
    /\ UNCHANGED <<stack, after, tree, params>>

EndOfText ==
    /\ phase = "parse"
    /\ IF after /\ Len(stack) = 1
       THEN phase' = "parsed" /\ tree' = Expression(Top) /\ UNCHANGED error
       ELSE Fail("ExpressionError") /\ UNCHANGED tree
    /\ UNCHANGED <<read, stack, after, params>>

----------------------------------------------------------------------------
\* The names of a tree, in the order of the text (collect_identifiers).
RECURSIVE collect_identifiers(_)
collect_identifiers(n) ==
    IF n.op = "identifier" THEN <<n.parameter>>
    ELSE FlattenSeq([i \in DOMAIN n.kids |-> collect_identifiers(n.kids[i])])

\* validate_step_parameter_space_chunk_constraint: whether the parameter is
\* below the node, and whether the search met it below an association.  A
\* product is searched no further than to the first factor that has it.
RECURSIVE Holds(_, _), Misplaced(_, _)
Holds(n, x) ==
    CASE n.op = "identifier"  -> n.parameter = x
      [] n.op = "association" -> FALSE
      [] n.op = "product"     -> \E i \in DOMAIN n.kids : Holds(n.kids[i], x)

MisplacedAtTop(n, x) ==     \* mutant: associations inside of products are not searched
    n.op = "association" /\ \E i \in DOMAIN n.kids : Holds(n.kids[i], x)
Misplaced(n, x) ==
    CASE n.op = "identifier"  -> FALSE
      [] n.op = "association" ->
           \E i \in DOMAIN n.kids : Misplaced(n.kids[i], x) \/ Holds(n.kids[i], x)
      [] n.op = "product"     ->
           \E i \in DOMAIN n.kids :
             Misplaced(n.kids[i], x) /\ \A j \in 1 .. i - 1 : ~Holds(n.kids[j], x)

\* _validate_combination: the names are compared by how many there are.
NameErrors(used, defined) ==
    LET U == Range(used)
        D == Range(defined)
    IN  (IF Cardinality(U) < Cardinality(D) THEN {"missing"} ELSE {})
          \cup (IF Cardinality(D) < Cardinality(U) THEN {"undefined"} ELSE {})
          \cup (IF Len(used) # Cardinality(U) THEN {"twice"} ELSE {})

ParamNames(ps) == [i \in DOMAIN ps |-> ps[i].name]
ChunkNames(ps) == {ps[i].name : i \in {j \in DOMAIN ps : ps[j].chunk}}

Decode(ps) ==
    /\ phase = "parsed" /\ params' = ps
    /\ IF \/ NameErrors(collect_identifiers(tree), ParamNames(ps)) # {}
          \/ \E x \in ChunkNames(ps) : Misplaced(tree, x)
       THEN Fail("ValidationError")
       ELSE phase' = "accepted" /\ UNCHANGED error
    /\ UNCHANGED <<read, stack, after, tree>>

\* _validate_expr_tree_dimensions: the length of a tree, 0 if it raises.
LengthOf(ps, x) == ps[CHOOSE i \in DOMAIN ps : ps[i].name = x].length
RECURSIVE Dimension(_, _)
DimensionAny(n, ps) ==     \* mutant: the terms of an association are not compared
    CASE n.op = "identifier"  -> LengthOf(ps, n.parameter)
      [] n.op = "product"     ->
           FoldLeft(LAMBDA a, k : a * Dimension(k, ps), 1, n.kids)
      [] n.op = "association" -> Dimension(n.kids[1], ps)
Dimension(n, ps) ==
    CASE n.op = "identifier"  -> LengthOf(ps, n.parameter)
      [] n.op = "product"     ->
           FoldLeft(LAMBDA a, k : a * Dimension(k, ps), 1, n.kids)
      [] n.op = "association" ->
           IF \A i \in DOMAIN n.kids : Dimension(n.kids[i], ps) = Dimension(n.kids[1], ps)
           THEN Dimension(n.kids[1], ps) ELSE 0

\* StepParameterSpace: a name without a definition is a KeyError, which no
\* validation catches.
CreateJob ==
    /\ phase = "accepted"
    /\ IF ~(Range(collect_identifiers(tree)) \subseteq Range(ParamNames(params)))
       THEN Fail("KeyError")
       ELSE IF Dimension(tree, params) = 0 THEN Fail("ValidationError")
       ELSE phase' = "job" /\ UNCHANGED error
    /\ UNCHANGED <<read, stack, after, tree, params>>

Next ==
    \/ \E t \in Tokens :
         Name(t) \/ Open(t) \/ Star(t) \/ Comma(t) \/ Close(t) \/ Unexpected(t)
    \/ EndOfText
    \/ \E ps \in ParamLists : Decode(ps)
    \/ CreateJob

Spec == Init /\ [][Next]_vars

----------------------------------------------------------------------------
\* The grammar of the class Parser, where an association has two or more terms.
RECURSIVE IsExpr(_), IsElement(_), IsTerms(_)
IsElement(s) ==
    \/ Len(s) = 1 /\ s[1] \in Identifiers
    \/ Len(s) > 2 /\ s[1] = "(" /\ s[Len(s)] = ")" /\ IsTerms(SubSeq(s, 2, Len(s) - 1))
IsExpr(s) ==
    \/ IsElement(s)
    \/ \E k \in DOMAIN s : /\ s[k] = "*"
                           /\ IsElement(SubSeq(s, 1, k - 1)) /\ IsExpr(SubSeq(s, k + 1, Len(s)))
IsTerms(s) ==
    \E k \in DOMAIN s : /\ s[k] = "," /\ IsExpr(SubSeq(s, 1, k - 1))
                        /\ LET rest == SubSeq(s, k + 1, Len(s))
                           IN  IsExpr(rest) \/ IsTerms(rest)

\* The text of a tree (__str__).
RECURSIVE Unparsed(_)
Unparsed(n) ==
    LET between(symbol) ==
          FlattenSeq([i \in DOMAIN n.kids |->
                        (IF i = 1 THEN <<>> ELSE <<symbol>>) \o Unparsed(n.kids[i])])
    IN  CASE n.op = "identifier"  -> <<n.parameter>>
          [] n.op = "product"     -> between("*")
          [] n.op = "association" -> <<"(">> \o between(",") \o <<")">>

\* The parser accepts the texts of its grammar and no others, and keeps all
\* of a text in the tree.
ParsesTheGrammar ==
    /\ phase = "parsed" => IsExpr(read) /\ Unparsed(tree) = read
    /\ phase = "failed" /\ error \in {"TokenError", "ExpressionError"} => ~IsExpr(read)

\* A space that a job was created with, as the iterator's tree.
RECURSIVE SpaceOf(_)
SpaceOf(n) ==
    IF n.op # "identifier" THEN Node(n.op, [i \in DOMAIN n.kids |-> SpaceOf(n.kids[i])])
    ELSE LET values == [k \in 1 .. LengthOf(params, n.parameter) |-> k]
             node(op, range) == [op |-> op, name |-> n.parameter,
                                 constraint |-> "none", range |-> range]
         IN  IF n.parameter \in ChunkNames(params) THEN node("contiguous", values)
             ELSE node("range", [k \in DOMAIN values |-> {values[k]}])

Iterator(space) ==
    INSTANCE StepParamSpaceIter WITH
        Spaces <- {}, TaskCounts <- {}, MaxSets <- 0, tree <- space, adaptive <- FALSE,
        taskCount <- 1, iter <- <<>>, yielded <- <<>>, ended <- FALSE,
        late <- <<>>, sets <- 0

\* A job that was created can be iterated: with chunks of one value, each
\* result gives every parameter a value, there are as many results as the
\* dimensions multiply to, all of them different, and random access has the
\* same number; in an association no kid runs out before another.  A change of
\* the chunk size reaches the chunked parameter.
JobIterates ==
    phase = "job" =>
      LET whole == SpaceOf(tree)
          space == Iterator(whole)!create_expr_tree(whole, FALSE, 1)
          results == Iterator(space)!Results(space, Iterator(space)!start(space))
          live == Iterator(whole)!create_expr_tree(whole, TRUE, 1)
      IN  /\ Cardinality(results) = Dimension(tree, params)
          /\ Iterator(space)!length(space) = Dimension(tree, params)
          /\ \A r \in results : DOMAIN r = Range(ParamNames(params))
          /\ ChunkNames(params) # {} => Iterator(live)!Settable(live)

\* "references all available task parameters exactly once each"
\* (_validate_combination, line 1868).
NamesMatch ==
    phase = "accepted" =>
      /\ IsInjective(collect_identifiers(tree))
      /\ Range(collect_identifiers(tree)) = Range(ParamNames(params))
=============================================================================
