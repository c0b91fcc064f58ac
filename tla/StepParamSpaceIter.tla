-------------------------- MODULE StepParamSpaceIter --------------------------
(***************************************************************************)
(* StepParameterSpaceIterator (openjd/model/_step_param_space_iter.py): an *)
(* iterator, driven by its caller, over the tasks of a step.  The space is *)
(* the tree of a combination expression; a CHUNK[INT] parameter makes some *)
(* results stand for several tasks, and with adaptive chunking the caller  *)
(* changes the size of a chunk between two results.                        *)
(*                                                                         *)
(* A node is [op, name, range, constraint] (a parameter), [op, kids] (an   *)
(* operator) or [op |-> "zero"], the space of a step without parameters.   *)
(* The value of a parameter in a result is a set: of the integers that a   *)
(* chunk's range expression denotes, and of the value itself elsewhere.    *)
(* The range of a parameter that is yet to be cut into chunks is a         *)
(* sequence of integers, that of any other a sequence of values.           *)
(***************************************************************************)
EXTENDS Integers, Sequences, FiniteSets, SequencesExt, TLC

CONSTANTS
    Spaces,       \* the step parameter spaces: expression trees as parsed
    TaskCounts,   \* task counts the template or the caller asks for
    MaxSets       \* bound: how often the caller changes the task count

VARIABLES
    tree,         \* _expr_tree
    adaptive,     \* _chunks_adaptive
    taskCount,    \* chunks_default_task_count
    iter,         \* _iter: the state of the iterators, shaped like the tree
    yielded,      \* the results of this pass: from a reset to StopIteration
    ended,        \* StopIteration was raised since the last reset
    late,         \* the last result handed out after that, if any: <<r>> or <<>>
    sets          \* how often the task count was changed

vars == <<tree, adaptive, taskCount, iter, yielded, ended, late, sets>>

Chunked(n) == n.op \in {"contiguous", "noncontiguous"}
Leaf(n)    == n.op = "range" \/ Chunked(n)
Indices(s) == 1 .. Len(s)

----------------------------------------------------------------------------
(* Static chunking.                                                        *)

\* The sizes of the chunks: as few as the count allows, and as even as can be.
divide_chunk_sizes(count, tasks) ==
    LET chunks == IF count <= 0 THEN 1 ELSE (tasks + count - 1) \div count
        small == tasks \div chunks
        leftovers == tasks % chunks
        grown == {(i * chunks) \div leftovers : i \in 0 .. leftovers - 1}
    IN  IF chunks >= tasks THEN [i \in 1 .. tasks |-> 1]
        ELSE IF chunks <= 1 THEN <<tasks>>
        ELSE [i \in 1 .. chunks |-> small + IF i - 1 \in grown THEN 1 ELSE 0]

\* Cut a sequence into pieces of the given sizes.
Cut(values, sizes) ==
    LET upto[i \in 0 .. Len(sizes)] ==
          IF i = 0 THEN 0 ELSE upto[i - 1] + sizes[i]
    IN  [i \in Indices(sizes) |-> SubSeq(values, upto[i - 1] + 1, upto[i])]

\* The values from first to last, cut into chunks.
divide_int_interval_into_chunks(count, first, last) ==
    LET cut == Cut([i \in 1 .. last - first + 1 |-> first + i - 1],
                   divide_chunk_sizes(count, last - first + 1))
    IN  [i \in Indices(cut) |-> Range(cut[i])]

\* The maximal runs of consecutive integers, each cut into chunks.
divide_int_list_into_contiguous_chunks(count, values) ==
    LET starts == {1} \cup {i \in 2 .. Len(values) : values[i] # values[i - 1] + 1}
        run(i) == divide_int_interval_into_chunks(count, values[i],
                    values[CHOOSE j \in i .. Len(values) :
                             /\ j = Len(values) \/ j + 1 \in starts
                             /\ \A k \in i + 1 .. j : k \notin starts])
        runs == [k \in 1 .. Cardinality(starts) |->
                   run(SetToSortSeq(starts, <)[k])]
    IN  FlattenSeq(runs)

divide_int_list_into_noncontiguous_chunks(count, values) ==
    LET cut == Cut(values, divide_chunk_sizes(count, Len(values)))
    IN  [i \in Indices(cut) |-> Range(cut[i])]

\* The factors of a product, an adaptively chunked parameter moved to the end.
AsWritten(kids, isAdaptive) == kids     \* mutant: the parameter is not moved
Factors(kids, isAdaptive) ==
    IF isAdaptive
    THEN SelectSeq(kids, LAMBDA k : ~Chunked(k)) \o SelectSeq(kids, Chunked)
    ELSE kids

\* _create_expr_tree: a statically chunked parameter becomes a list of chunks.
RECURSIVE create_expr_tree(_, _, _)
create_expr_tree(n, isAdaptive, count) ==
    CASE n.op = "contiguous" /\ ~isAdaptive ->
           [op |-> "range", name |-> n.name, constraint |-> n.op,
            range |-> divide_int_list_into_contiguous_chunks(count, n.range)]
      [] n.op = "noncontiguous" /\ ~isAdaptive ->
           [op |-> "range", name |-> n.name, constraint |-> n.op,
            range |-> divide_int_list_into_noncontiguous_chunks(count, n.range)]
      [] n.op = "product" ->
           [op |-> n.op, kids |-> [i \in Indices(n.kids) |->
              create_expr_tree(Factors(n.kids, isAdaptive)[i], isAdaptive, count)]]
      [] n.op = "association" ->
           [op |-> n.op, kids |-> [i \in Indices(n.kids) |->
                  create_expr_tree(n.kids[i], isAdaptive, count)]]
      [] OTHER -> n

----------------------------------------------------------------------------
(* The iterators.  An iterator of a parameter counts the values it is past, *)
(* one of a product also keeps its previous result.                        *)

RECURSIVE start(_)
start(n) ==
    IF Leaf(n) THEN [index |-> 0]
    ELSE IF n.op = "zero" THEN [first |-> TRUE]
    ELSE [first |-> TRUE, prev |-> <<>>,
          kids |-> [i \in Indices(n.kids) |-> start(n.kids[i])]]

RECURSIVE reset_iter(_, _)

\* mutant: only the operator itself starts again, not what is below it
reset_iter_shallow(n, s) ==
    IF Leaf(n) \/ n.op = "zero" THEN start(n) ELSE [s EXCEPT !.first = TRUE]

reset_iter(n, s) ==
    IF Leaf(n) \/ n.op = "zero" THEN start(n)
    ELSE [s EXCEPT !.first = TRUE,
                   !.kids = [i \in Indices(n.kids) |-> reset_iter(n.kids[i], @[i])]]

\* The outcome of next: `stop' is StopIteration, `result' what was written
\* into the dict until then.
Stop(s, result)  == [stop |-> TRUE, iter |-> s, result |-> result]
Value(s, result) == [stop |-> FALSE, iter |-> s, result |-> result]

\* Where the chunk that begins at first ends: after count values, at the end
\* of the range or, when chunks are contiguous, at a gap.
UpTo(n, last) == IF last < Len(n.range) THEN last ELSE Len(n.range)
chunk_end_any(n, first, count) ==     \* mutant: gaps do not matter
    UpTo(n, first + count - 1)
chunk_end(n, first, count) ==
    IF n.op = "noncontiguous" THEN UpTo(n, first + count - 1)
    ELSE CHOOSE j \in first .. UpTo(n, first + count - 1) :
           /\ \A k \in first + 1 .. j : n.range[k] = n.range[k - 1] + 1
           /\ \/ j = UpTo(n, first + count - 1)
              \/ n.range[j + 1] # n.range[j] + 1

\* next of a parameter whose chunks are cut as they are asked for.
next_chunk(n, s, count) ==
    LET first == s.index + 1
        last == chunk_end(n, first, count)
    IN  IF s.index >= Len(n.range) THEN Stop(s, <<>>)
        ELSE Value([index |-> last],
                   n.name :> {n.range[k] : k \in first .. last})

next_value(n, s) ==
    IF s.index >= Len(n.range) THEN Stop(s, <<>>)
    ELSE Value([index |-> s.index + 1], n.name :> n.range[s.index + 1])

RECURSIVE next(_, _, _), next_each(_, _, _, _), carry(_, _, _, _)

\* mutant: the values of the kids before the last are not written
next_each_last(n, s, i, count) ==
    IF i > Len(n.kids) THEN Value(s, <<>>)
    ELSE LET kid == next(n.kids[i], s.kids[i], count)
             here == [s EXCEPT !.kids[i] = kid.iter]
         IN  IF kid.stop \/ i = Len(n.kids)
             THEN [kid EXCEPT !.iter = here]
             ELSE next_each(n, here, i + 1, count)

\* Advance the kids from the i-th on; the first that stops stops them all.
next_each(n, s, i, count) ==
    IF i > Len(n.kids) THEN Value(s, <<>>)
    ELSE LET kid == next(n.kids[i], s.kids[i], count)
             here == [s EXCEPT !.kids[i] = kid.iter]
         IN  IF kid.stop THEN Stop(here, kid.result)
             ELSE LET rest == next_each(n, here, i + 1, count)
                  IN  [rest EXCEPT !.result = @ @@ kid.result]

\* Advance the kid at pos; if it overflows, start it again and carry to its
\* left, until the left-most one overflows.
carry(n, s, pos, count) ==
    LET kid == next(n.kids[pos], s.kids[pos], count)
        again == next(n.kids[pos], reset_iter(n.kids[pos], kid.iter), count)
    IN  IF ~kid.stop
        THEN Value([s EXCEPT !.kids[pos] = kid.iter], kid.result)
        ELSE IF pos = 1
             THEN Stop([s EXCEPT !.kids[pos] = kid.iter], kid.result)
             ELSE LET left == carry(n, [s EXCEPT !.kids[pos] = again.iter],
                                    pos - 1, count)
                  IN  [left EXCEPT !.result = @ @@ again.result]

next(n, s, count) ==
    CASE n.op = "zero" ->
           IF s.first THEN Value([first |-> FALSE], <<>>) ELSE Stop(s, <<>>)
      [] Chunked(n) -> next_chunk(n, s, count)
      [] n.op = "range" -> next_value(n, s)
      [] n.op = "association" -> next_each(n, s, 1, count)
      [] n.op = "product" ->
           LET step == IF s.first
                       THEN next_each(n, [s EXCEPT !.first = FALSE], 1, count)
                       ELSE carry(n, s, Len(n.kids), count)
               prev == step.result @@ s.prev
           IN  [stop |-> step.stop, iter |-> [step.iter EXCEPT !.prev = prev],
                result |-> IF step.stop THEN <<>> ELSE prev]

----------------------------------------------------------------------------
(* Random access, when chunking is not adaptive.                           *)

RECURSIVE length(_)
length(n) ==
    CASE n.op = "zero" -> 1
      [] n.op = "range" -> Len(n.range)
      [] n.op = "association" -> length(n.kids[1])
      [] n.op = "product" ->
           FoldFunction(LAMBDA a, b : a * b, 1,
                        [i \in Indices(n.kids) |-> length(n.kids[i])])

\* A Python index: negative ones count from the end.
FromEnd(i, len) == IF i < 0 THEN len + i ELSE i

RECURSIVE getitem(_, _), digits(_, _, _)
getitem(n, index) ==
    CASE n.op = "zero" -> <<>>
      [] n.op = "range" -> n.name :> n.range[FromEnd(index, Len(n.range)) + 1]
      [] n.op = "association" ->
           FoldFunction(LAMBDA a, b : a @@ b, <<>>,
                        [i \in Indices(n.kids) |-> getitem(n.kids[i], index)])
      [] n.op = "product" -> digits(n, FromEnd(index, length(n)), Len(n.kids))

\* mutant: the left-most kid varies fastest
digits_of_left(n, index, pos) ==
    LET kid == n.kids[Len(n.kids) + 1 - pos]
    IN  IF pos = 1 THEN getitem(kid, index)
        ELSE digits(n, index \div length(kid), pos - 1)
               @@ getitem(kid, index % length(kid))

\* The kids up to pos, indexed by the digits of index.
digits(n, index, pos) ==
    IF pos = 1 THEN getitem(n.kids[1], index)
    ELSE LET len == length(n.kids[pos])
         IN  digits(n, index \div len, pos - 1) @@ getitem(n.kids[pos], index % len)

----------------------------------------------------------------------------
(* Containment.  The caller asks with texts: a text is a sequence of pieces, *)
(* <<v>> for "v" and <<a, b>> for "a-b".                                   *)

Piece(p) == IF Len(p) = 1 THEN {p[1]} ELSE p[1] .. p[2]
Denotes(text) == UNION {Piece(p) : p \in Range(text)}

\* IntRangeExpr.from_str raises on pieces that overlap.
Parses(text) ==
    \A i, j \in Indices(text) : i # j => Piece(text[i]) \cap Piece(text[j]) = {}

\* INTERVAL_RE.match, which looks at the beginning of the text.
IntervalMatch(text) == Len(text[1]) = 2

\* Whether a chunk is made of these values.
EndsWithin(text, values) ==     \* mutant: looks at the ends of the pieces only
    \A i \in Indices(text) : {text[i][1], text[i][Len(text[i])]} \subseteq values
ChunkWithin(text, values) == Parses(text) /\ Denotes(text) \subseteq values

RECURSIVE Leaves(_), Results(_, _)
Leaves(n) ==
    IF n.op = "zero" THEN {} ELSE IF Leaf(n) THEN {n}
    ELSE UNION {Leaves(n.kids[i]) : i \in Indices(n.kids)}

\* What the iterator of a node without chunks yields.
Results(n, s) ==
    LET step == next(n, s, 0)
    IN  IF step.stop THEN {} ELSE {step.result} \cup Results(n, step.iter)

RECURSIVE contains(_, _)
contains(n, params) ==
    CASE n.op = "zero" -> TRUE
      [] n.op = "product" -> \A i \in Indices(n.kids) : contains(n.kids[i], params)
      [] n.op = "association" ->
           [x \in {leaf.name : leaf \in Leaves(n)} |-> Denotes(params[x])]
              \in Results(n, start(n))
      [] n.op = "range" /\ n.constraint = "none" ->
           Denotes(params[n.name]) \in Range(n.range)
      [] n.op = "range" /\ n.constraint # "none" ->
           /\ n.constraint = "contiguous" => IntervalMatch(params[n.name])
           /\ ChunkWithin(params[n.name], UNION Range(n.range))
      [] Chunked(n) ->
           /\ n.op = "contiguous" => IntervalMatch(params[n.name])
           /\ ChunkWithin(params[n.name], Range(n.range))

----------------------------------------------------------------------------
(* The caller.                                                             *)

\* A space is iterated as its template says, or with adaptive chunking turned
\* off by an override of the task count, which may then be 0.  Without chunks
\* there is no task count; 0 stands for that too.
Init ==
    \E space \in Spaces, isAdaptive \in BOOLEAN, count \in TaskCounts \cup {0} :
        /\ isAdaptive => count > 0
        /\ isAdaptive \/ count > 0 => \E n \in Leaves(space) : Chunked(n)
        /\ tree = create_expr_tree(space, isAdaptive, count)
        /\ adaptive = isAdaptive
        /\ taskCount = count
        /\ iter = start(tree)
        /\ yielded = <<>>
        /\ ended = FALSE
        /\ late = <<>>
        /\ sets = 0

\* __next__
Next_value ==
    /\ ~next(tree, iter, taskCount).stop
    /\ iter' = next(tree, iter, taskCount).iter
    /\ LET result == next(tree, iter, taskCount).result
       IN  IF ended THEN late' = <<result>> /\ UNCHANGED yielded
                    ELSE yielded' = Append(yielded, result) /\ UNCHANGED late
    /\ UNCHANGED <<tree, adaptive, taskCount, ended, sets>>

\* __next__ that raises StopIteration.
Next_stop ==
    /\ next(tree, iter, taskCount).stop
    /\ iter' = next(tree, iter, taskCount).iter
    /\ ended' = TRUE
    /\ UNCHANGED <<tree, adaptive, taskCount, yielded, late, sets>>

Reset ==
    /\ iter' = reset_iter(tree, iter)
    /\ yielded' = <<>>
    /\ ended' = FALSE
    /\ late' = <<>>
    /\ UNCHANGED <<tree, adaptive, taskCount, sets>>

\* The node a change of the task count arrives at: each product hands it to
\* its last kid, and only an adaptively chunked parameter takes it.
RECURSIVE Settable(_)
Settable(n) ==
    \/ Chunked(n)
    \/ n.op = "product" /\ Settable(n.kids[Len(n.kids)])

\* The chunks_default_task_count setter; otherwise it raises.
Set_task_count(value) ==
    /\ adaptive /\ value > 0 /\ Settable(tree)
    /\ value # taskCount /\ sets < MaxSets
    /\ taskCount' = value
    /\ sets' = sets + 1
    /\ UNCHANGED <<tree, adaptive, iter, yielded, ended, late>>

\* Any caller: one that asks on after StopIteration too, as a second for loop
\* over the same iterator does.
Next ==
    \/ Next_value \/ Next_stop
    \/ Reset
    \/ \E value \in TaskCounts : Set_task_count(value)

Spec == Init /\ [][Next]_vars

----------------------------------------------------------------------------
(* What the results must be, without iterators: the sequence of the values *)
(* of a tree in row-major order.                                           *)

Times(s, t) ==
    FlattenSeq([i \in Indices(s) |-> [j \in Indices(t) |-> s[i] @@ t[j]]])

RECURSIVE Elements(_)
Elements(n) ==
    IF n.op = "zero" THEN <<(<<>>)>>
    ELSE IF Chunked(n) THEN [i \in Indices(n.range) |-> n.name :> {n.range[i]}]
    ELSE IF Leaf(n) THEN [i \in Indices(n.range) |-> n.name :> n.range[i]]
    ELSE LET kids == [i \in Indices(n.kids) |-> Elements(n.kids[i])]
             zip == [j \in Indices(kids[1]) |->
                       [name \in UNION {DOMAIN kids[i][j] : i \in Indices(kids)} |->
                          kids[CHOOSE i \in Indices(kids) :
                                 name \in DOMAIN kids[i][j]][j][name]]]
         IN  IF n.op = "product" THEN FoldLeft(Times, <<(<<>>)>>, kids) ELSE zip

\* The tasks that a result, or an element, stands for.
Tasks(r) ==
    LET chunks == {x \in DOMAIN r : Cardinality(r[x]) # 1}
    IN  IF chunks = {} THEN {r}
        ELSE LET x == CHOOSE x \in chunks : TRUE
             IN  {[r EXCEPT ![x] = {v}] : v \in r[x]}

Space == UNION {Tasks(e) : e \in Range(Elements(tree))}

TypeOK ==
    /\ adaptive \in BOOLEAN /\ ended \in BOOLEAN
    /\ taskCount \in TaskCounts \cup {0} /\ sets \in 0 .. MaxSets
    /\ Len(late) <= 1
    /\ \A r \in Range(yielded) \cup Range(late) : DOMAIN r = {n.name : n \in Leaves(tree)}

\* StopIteration is not final below a product: when its first factor stops, the
\* others are already at the beginning of their next round (lines 639-643).
RECURSIVE GoesOn(_)
GoesOn(n) ==
    \/ /\ n.op = "product"
       /\ \/ GoesOn(n.kids[1])
          \/ \E i \in 2 .. Len(n.kids) : Len(Elements(n.kids[i])) > 1
    \/ n.op = "association" /\ \A i \in Indices(n.kids) : GoesOn(n.kids[i])

\* An association has a product below it.  Once the product goes on, what it
\* hands out no longer belongs to what the others last handed out.
RECURSIVE Within(_)
Within(n) ==
    IF Leaf(n) \/ n.op = "zero" THEN {n.op}
    ELSE {n.op} \cup UNION {Within(n.kids[i]) : i \in Indices(n.kids)}
RECURSIVE Loosens(_)
Loosens(n) ==
    /\ ~Leaf(n) /\ n.op # "zero"
    /\ \/ n.op = "association" /\ "product" \in Within(n)
       \/ \E i \in Indices(n.kids) : Loosens(n.kids[i])

\* A call after the end stops again, or repeats a task where the tree goes on:
\* one of the space, except where an association has lost its step.
AfterTheEnd ==
    late # <<>> =>
      /\ GoesOn(tree)
      /\ Loosens(tree) \/ Tasks(late[1]) \subseteq Space

\* From the first call or a reset until StopIteration, whatever was called
\* before the reset and however the caller changes the chunk size, a pass hands
\* out no task twice, none from outside the space and, when it ends, every one.
\* Only a tree with a product hands out tasks again when it is asked after
\* StopIteration without a reset (__next__, reset_iter and the
\* chunks_default_task_count setter).
ExactlyOnce ==
    /\ \A i, j \in Indices(yielded) :
         i # j => Tasks(yielded[i]) \cap Tasks(yielded[j]) = {}
    /\ UNION {Tasks(r) : r \in Range(yielded)} \subseteq Space
    /\ ended => UNION {Tasks(r) : r \in Range(yielded)} = Space
    /\ AfterTheEnd

\* Without adaptive chunking the i-th result of a pass is the i-th element in
\* row-major order, indexing finds it from either end, and len counts them
\* (lines 47-49, __getitem__, __len__).
OrderAndAccess ==
    ~adaptive =>
        /\ length(tree) = Len(Elements(tree))
        /\ \A i \in Indices(yielded) :
             /\ yielded[i] = Elements(tree)[i]
             /\ yielded[i] = getitem(tree, i - 1)
             /\ yielded[i] = getitem(tree, i - 1 - length(tree))

\* A chunk that is cut on demand obeys the count of that moment: it is never
\* larger, and smaller only where the range ends or, when chunks have to be
\* contiguous, has a gap (the next methods of the adaptive nodes).
ChunkFits(r, count) ==
    LET n == CHOOSE n \in Leaves(tree) : Chunked(n)
        chunk == r[n.name]
        at == {i \in Indices(n.range) : n.range[i] \in chunk}
        last == CHOOSE i \in at : \A j \in at : j <= i
        gap(i) == n.range[i + 1] # n.range[i] + 1
    IN  /\ Cardinality(chunk) <= count
        /\ n.op = "contiguous" => \A i \in at \ {last} : ~gap(i)
        /\ \/ Cardinality(chunk) = count
           \/ last = Len(n.range)
           \/ n.op = "contiguous" /\ gap(last)
ChunksFit ==
    [][adaptive /\ Len(yielded') > Len(yielded) =>
         ChunkFits(yielded'[Len(yielded')], taskCount)]_vars

\* A change of the task count always finds the parameter it is meant for
\* (_create_expr_tree, ProductNode.set_chunks_default_task_count: "the last
\* child is an AdaptiveChunkIdentifierNode").
SetterReachesChunk == adaptive => Settable(tree)

\* A result as the iterator writes it: a contiguous chunk as one interval.
Contiguous(x) ==
    \E n \in Leaves(tree) :
        n.name = x /\ "contiguous" \in {n.op, n.constraint}
Written(r) ==
    [x \in DOMAIN r |->
       IF Contiguous(x)
       THEN LET a == CHOOSE a \in r[x] : \A v \in r[x] : a <= v
            IN  <<<<a, a + Cardinality(r[x]) - 1>>>>
       ELSE FoldSet(LAMBDA v, text : Append(text, <<v>>), <<>>, r[x])]

\* What a caller may ask about: for each parameter one of its values or 0,
\* for a chunked one up to two pieces made of them.
Texts(n) ==
    LET values == {0} \cup IF Chunked(n) THEN Range(n.range) ELSE UNION Range(n.range)
        pieces == {<<v>> : v \in values}
                    \cup {p \in values \X values : p[1] <= p[2]}
    IN  IF Chunked(n) \/ n.constraint # "none"
        THEN {<<p>> : p \in pieces} \cup {<<p, <<v>>>> : p \in pieces, v \in values}
        ELSE {<<<<v>>>> : v \in values}
Asked ==
    FoldSet(LAMBDA n, asked : {q @@ (n.name :> text) : q \in asked, text \in Texts(n)},
            {<<>>}, Leaves(tree))
Meaning(params) == [x \in DOMAIN params |-> Denotes(params[x])]

\* Containment and iteration agree: every result is contained, and what is
\* contained denotes tasks of the space only (validate_containment of each
\* node; "the chunked dimension is treated via a subset operator", 239-240).
ContainmentAgrees ==
    /\ \A i \in Indices(yielded) : contains(tree, Written(yielded[i]))
    /\ yielded = <<>> =>
         \A params \in Asked :
           contains(tree, params) => Tasks(Meaning(params)) \subseteq Space

============================================================================
