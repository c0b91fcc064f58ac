----------------------------- MODULE RangeExpr -----------------------------
(***************************************************************************)
(* Integer range expressions (openjd/model/_range_expr.py): the parser of  *)
(* texts such as 1-9:2,12, from_list for a list of integers, and the       *)
(* constructor, which sorts the ranges, joins neighbours and rejects       *)
(* overlaps.  Then the text of the result is parsed in its turn, as the    *)
(* receiver of a task's chunk does.                                        *)
(*                                                                         *)
(* The parser looks one token ahead; the tokens of a text are chosen as    *)
(* it asks for them.  `for r in sorted(...)' takes the least one left.     *)
(***************************************************************************)
EXTENDS Integers, Sequences, FiniteSets

CONSTANTS
    Numbers,      \* unsigned numbers in a text
    MaxTokens,    \* bound on the length of a text
    ListValues    \* integers in a list

ASSUME RangeAssumption ==
    Numbers \subseteq Nat /\ ListValues \subseteq Int /\ MaxTokens \in Nat

VARIABLES
    phase,      \* "parse", "list", "combine", "built" or "failed"
    error,      \* the class of the exception
    round,      \* 1, and 2 for the parse of the result's own text
    todo,       \* in round 2, the tokens that are left
    read,       \* the tokens consumed
    want,       \* what _integer or _range looks for: "number", "digits", "after"
    negative,   \* sign of the number
    nums,       \* numbers of the element: start, end, step
    ranges,     \* ranges of the elements so far
    values,     \* the list, as the set that from_list makes of it
    run,        \* from_list's start, end and step, 0 for None
    left,       \* values, or positions in ranges, that a loop has still to take
    combined,   \* _ranges
    first       \* _ranges of the result of round 1

parserVars == <<todo, read, want, negative, nums>>
vars == <<phase, error, round, parserVars, ranges, values, run, left, combined, first>>

----------------------------------------------------------------------------
\* IntRange: start and end in ascending order, and whether the values are
\* iterated downwards.
IntRange(s, e, step) ==
    IF step > 0
    THEN [start |-> s, end |-> s + ((e - s) \div step) * step, step |-> step, down |-> FALSE]
    ELSE [start |-> s - ((s - e) \div (-step)) * (-step), end |-> s, step |-> -step, down |-> TRUE]

\* ... which raises a ValueError unless:
WellFormed(s, e, step) == (step > 0 /\ s <= e) \/ (step < 0 /\ s >= e)

Length(r) == 1 + (r.end - r.start) \div r.step
Item(r, k) == IF r.down THEN r.end - k * r.step ELSE r.start + k * r.step   \* r[k]
Elements(r) == {Item(r, k) : k \in 0 .. Length(r) - 1}

\* The order of the sort, and the position it puts first.
Before(r, s) ==
    \/ r.start < s.start
    \/ r.start = s.start /\ r.end < s.end
    \/ r.start = s.start /\ r.end = s.end /\ r.step < s.step
FirstLeft == CHOOSE i \in left : \A j \in left \ {i} :
               Before(ranges[i], ranges[j]) \/ (~Before(ranges[j], ranges[i]) /\ i < j)

Token(kind) == [kind |-> kind, value |-> 0]
Number(n)   == [kind |-> "number", value |-> n]
Tokens == {Token("hyphen"), Token("colon"), Token("comma")} \cup {Number(n) : n \in Numbers}

\* __str__
Signed(n) == IF n < 0 THEN <<Token("hyphen"), Number(-n)>> ELSE <<Number(n)>>
RangeTextPlain(r) ==     \* mutant: a step other than 1 is not written
    LET bounds == Signed(r.start) \o <<Token("hyphen")>> \o Signed(r.end)
    IN  IF Length(r) = 1 THEN Signed(r.start) ELSE bounds
RangeText(r) ==
    LET bounds == Signed(r.start) \o <<Token("hyphen")>> \o Signed(r.end)
    IN  IF Length(r) = 1 THEN Signed(r.start)
        ELSE IF Length(r) = 2 THEN Signed(r.start) \o <<Token("comma")>> \o Signed(r.end)
        ELSE IF r.step = 1 THEN bounds
        ELSE bounds \o <<Token("colon")>> \o Signed(r.step)
Text(rs) ==
    LET upTo[i \in 1 .. Len(rs)] ==
          IF i = 1 THEN RangeText(rs[1])
          ELSE upTo[i - 1] \o <<Token("comma")>> \o RangeText(rs[i])
    IN  upTo[Len(rs)]

----------------------------------------------------------------------------
NoRun == [start |-> 0, end |-> 0, step |-> 0]

Init ==
    /\ error = "" /\ round = 1 /\ todo = <<>> /\ read = <<>>
    /\ want = "number" /\ negative = FALSE /\ nums = <<>>
    /\ ranges = <<>> /\ combined = <<>> /\ first = <<>>
    /\ \/ phase = "parse" /\ values = {} /\ run = NoRun /\ left = {}
       \/ /\ phase = "list"
          /\ values \in SUBSET ListValues \ {{}}
          /\ \E v \in values : /\ \A w \in values : v <= w
                               /\ run = [start |-> v, end |-> v, step |-> 0]
                               /\ left = values \ {v}

\* The next token: any, until the text is the result's own.
Offered == IF round = 1 THEN Tokens ELSE IF todo = <<>> THEN {} ELSE {Head(todo)}
Consume(t) ==
    /\ phase = "parse"
    /\ round = 1 => Len(read) < MaxTokens
    /\ read' = Append(read, t)
    /\ todo' = IF round = 1 THEN todo ELSE Tail(todo)

\* at_end
AtEnd == phase = "parse" /\ (round = 2 => todo = <<>>)

Fail(class) == phase' = "failed" /\ error' = class

Sign(t) ==
    /\ want = "number" /\ t.kind = "hyphen" /\ Consume(t)
    /\ want' = "digits" /\ negative' = TRUE
    /\ UNCHANGED <<phase, error, round, nums, ranges, values, run, left, combined, first>>

Digits(t) ==
    /\ want \in {"number", "digits"} /\ t.kind = "number" /\ Consume(t)
    /\ nums' = Append(nums, IF negative THEN -t.value ELSE t.value)
    /\ want' = "after" /\ negative' = FALSE
    /\ UNCHANGED <<phase, error, round, ranges, values, run, left, combined, first>>

\* The hyphen between start and end, the colon before the step.
Separator(t) ==
    /\ want = "after" /\ Consume(t)
    /\ (t.kind = "hyphen" /\ Len(nums) = 1) \/ (t.kind = "colon" /\ Len(nums) = 2)
    /\ want' = "number"
    /\ UNCHANGED <<phase, error, round, negative, nums, ranges, values, run, left, combined, first>>

Step == IF Len(nums) = 3 THEN nums[3] ELSE 1
Stop == IF Len(nums) = 1 THEN nums[1] ELSE nums[2]

\* The element is over: a range that the constructor refuses is an
\* ExpressionError only if it has a step.
EndElement(go) ==
    IF WellFormed(nums[1], Stop, Step)
    THEN ranges' = Append(ranges, IntRange(nums[1], Stop, Step)) /\ nums' = <<>> /\ go
    ELSE /\ Fail(IF Len(nums) = 3 THEN "ExpressionError" ELSE "ValueError")
         /\ UNCHANGED <<nums, ranges, left>>

Comma(t) ==
    /\ want = "after" /\ t.kind = "comma" /\ Consume(t)
    /\ want' = "number"
    /\ EndElement(UNCHANGED <<phase, error, left>>)
    /\ UNCHANGED <<round, negative, values, run, combined, first>>

Wrong(t) ==
    /\ Consume(t)
    /\ \/ want = "number" /\ t.kind \in {"colon", "comma"}
       \/ want = "digits" /\ t.kind # "number"
       \/ want = "after" /\ t.kind = "hyphen" /\ Len(nums) # 1
       \/ want = "after" /\ t.kind = "colon" /\ Len(nums) # 2
       \/ want = "after" /\ t.kind = "number"
    /\ Fail("ExpressionError")
    /\ UNCHANGED <<round, want, negative, nums, ranges, values, run, left, combined, first>>

EndText ==
    /\ AtEnd /\ want = "after"
    /\ EndElement(phase' = "combine" /\ left' = DOMAIN ranges' /\ UNCHANGED error)
    /\ UNCHANGED <<round, todo, read, want, negative, values, run, combined, first>>

EndTooSoon ==
    /\ AtEnd /\ want # "after" /\ Fail("ExpressionError")
    /\ UNCHANGED <<round, parserVars, ranges, values, run, left, combined, first>>

\* from_list: runs of equal differences, from the least value on.
ExtendRunPast ==     \* mutant: a larger difference does not end a run
    /\ phase = "list" /\ left # {}
    /\ \E v \in left :
         /\ \A w \in left : v <= w
         /\ left' = left \ {v}
         /\ IF run.step <= v - run.end
            THEN /\ run' = [run EXCEPT !.end = v, !.step = IF @ = 0 THEN v - run.end ELSE @]
                 /\ UNCHANGED ranges
            ELSE /\ ranges' = Append(ranges, IntRange(run.start, run.end, run.step))
                 /\ run' = [start |-> v, end |-> v, step |-> 0]
    /\ UNCHANGED <<phase, error, round, parserVars, values, combined, first>>

ExtendRun ==
    /\ phase = "list" /\ left # {}
    /\ \E v \in left :
         /\ \A w \in left : v <= w
         /\ left' = left \ {v}
         /\ IF run.step \in {0, v - run.end}
            THEN run' = [run EXCEPT !.end = v, !.step = v - run.end] /\ UNCHANGED ranges
            ELSE /\ ranges' = Append(ranges, IntRange(run.start, run.end, run.step))
                 /\ run' = [start |-> v, end |-> v, step |-> 0]
    /\ UNCHANGED <<phase, error, round, parserVars, values, combined, first>>

EndList ==
    /\ phase = "list" /\ left = {}
    /\ ranges' = Append(ranges, IntRange(run.start, run.end,
                                         IF run.step = 0 THEN 1 ELSE run.step))
    /\ phase' = "combine" /\ left' = DOMAIN ranges'
    /\ UNCHANGED <<error, round, parserVars, values, run, combined, first>>

\* IntRangeExpr.__init__
Last == combined[Len(combined)]
JoinAnyStep ==     \* mutant: neighbours of different steps are joined
    /\ phase = "combine" /\ left # {}
    /\ LET r == ranges[FirstLeft]
       IN  combined' =
             IF combined # <<>> /\ Last.end + r.step = r.start
             THEN [combined EXCEPT ![Len(combined)] = IntRange(Last.start, r.end, r.step)]
             ELSE Append(combined, r)
    /\ left' = left \ {FirstLeft}
    /\ UNCHANGED <<phase, error, round, parserVars, ranges, values, run, first>>

Join ==
    /\ phase = "combine" /\ left # {}
    /\ LET r == ranges[FirstLeft]
       IN  combined' =
             IF combined # <<>> /\ Last.step = r.step /\ Last.end + r.step = r.start
             THEN [combined EXCEPT ![Len(combined)] = IntRange(Last.start, r.end, r.step)]
             ELSE Append(combined, r)
    /\ left' = left \ {FirstLeft}
    /\ UNCHANGED <<phase, error, round, parserVars, ranges, values, run, first>>

OverlapsStrict == \* mutant: a common value is no overlap
    \E i \in 1 .. Len(combined) - 1 : combined[i].end > combined[i + 1].start

\* _validate
Overlaps == \E i \in 1 .. Len(combined) - 1 : combined[i].end >= combined[i + 1].start

Validate ==
    /\ phase = "combine" /\ left = {}
    /\ IF Overlaps THEN Fail("ExpressionError") ELSE phase' = "built" /\ UNCHANGED error
    /\ UNCHANGED <<round, parserVars, ranges, values, run, left, combined, first>>

\* The text of the result is parsed.
Reparse ==
    /\ phase = "built" /\ round = 1
    /\ phase' = "parse" /\ round' = 2
    /\ first' = combined /\ todo' = Text(combined)
    /\ read' = <<>> /\ want' = "number" /\ nums' = <<>>
    /\ ranges' = <<>> /\ combined' = <<>>
    /\ UNCHANGED <<error, negative, values, run, left>>

Next ==
    \/ \E t \in Offered : Sign(t) \/ Digits(t) \/ Separator(t) \/ Comma(t) \/ Wrong(t)
    \/ EndText \/ EndTooSoon
    \/ ExtendRun \/ EndList \/ Join \/ Validate \/ Reparse

Spec == Init /\ [][Next]_vars

----------------------------------------------------------------------------
\* The language of the docstring of Parser and what its texts mean.
IsNumber(s) ==
    /\ Len(s) \in 1 .. 2 /\ s[Len(s)].kind = "number"
    /\ Len(s) = 2 => s[1].kind = "hyphen"
NumberOf(s) == IF Len(s) = 1 THEN s[1].value ELSE -s[2].value
Part(s, i, j) == SubSeq(s, i + 1, j - 1)

\* Start, end and step of an element, if it is one.
Readings(s) ==
    LET z == Len(s) + 1
        N(i, j) == IsNumber(Part(s, i, j))
        V(i, j) == NumberOf(Part(s, i, j))
        At(kind) == {i \in DOMAIN s : s[i].kind = kind}
    IN  (IF N(0, z) THEN {<<V(0, z), V(0, z), 1>>} ELSE {})
          \cup {<<V(0, i), V(i, z), 1>> : i \in {k \in At("hyphen") : N(0, k) /\ N(k, z)}}
          \cup {<<V(0, p[1]), V(p[1], p[2]), V(p[2], z)>> :
                   p \in {q \in At("hyphen") \X At("colon") :
                            N(0, q[1]) /\ N(q[1], q[2]) /\ N(q[2], z)}}

\* The elements of a text, between its commas.
Ends(s) == {0, Len(s) + 1} \cup {i \in DOMAIN s : s[i].kind = "comma"}
Pieces(s) ==
    {<<i, Part(s, i, CHOOSE j \in Ends(s) : i < j /\ \A k \in Ends(s) : k <= i \/ j <= k)>> :
       i \in Ends(s) \ {Len(s) + 1}}

Sensible(x) == WellFormed(x[1], x[2], x[3])
Meaning(x) ==
    IF x[3] > 0 THEN {v \in x[1] .. x[2] : (v - x[1]) % x[3] = 0}
    ELSE {v \in x[2] .. x[1] : (x[1] - v) % (-x[3]) = 0}
Apart(S, T) == (\A v \in S, w \in T : v < w) \/ (\A v \in S, w \in T : v > w)

Denoted == UNION {Elements(combined[i]) : i \in DOMAIN combined}

\* A text gives an expression exactly if all its elements are ranges that make
\* sense and that lie apart, in any order; the expression is their union.
Finished == phase \in {"built", "failed"}
ParsesTheGrammar ==
    Finished /\ (values = {} \/ round = 2) =>
      LET pieces == Pieces(read)
          S(p) == UNION {Meaning(x) : x \in Readings(p[2])}
      IN  /\ phase = "built" <=>
               /\ \A p \in pieces : \E x \in Readings(p[2]) : Sensible(x)
               /\ \A p, q \in pieces : p # q => Apart(S(p), S(q))
          /\ phase = "built" => Denoted = UNION {S(p) : p \in pieces}

\* An expression made from a list has the list's values, whatever runs it was
\* cut into.
ListDenoted == values # {} => phase # "failed" /\ (phase = "built" => Denoted = values)

\* bisect, over lengths added up, and bisect_left, over the ends.
Total[i \in 0 .. Len(combined)] ==
    IF i = 0 THEN 0 ELSE Total[i - 1] + Length(combined[i])
GetItem(index) ==
    LET k == IF index < 0 THEN Total[Len(combined)] + index ELSE index
        j == Cardinality({i \in DOMAIN combined : Total[i] <= k})
    IN  Item(combined[j + 1], k - Total[j])
Contains(v) ==
    LET i == 1 + Cardinality({j \in DOMAIN combined : combined[j].end < v})
    IN  i <= Len(combined) /\ v \in Elements(combined[i])

\* Length, access by position, iteration and containment are of one set: the
\* ranges are iterated one after the other and have no value in common.
LookupsAgree ==
    phase = "built" =>
      LET n == Total[Len(combined)]
      IN  /\ n = Cardinality(Denoted)
          /\ Denoted = {GetItem(k) : k \in 0 .. n - 1}
          /\ \A i \in DOMAIN combined : \A k \in 0 .. Length(combined[i]) - 1 :
               /\ GetItem(Total[i - 1] + k) = Item(combined[i], k)
               /\ GetItem(Total[i - 1] + k - n) = Item(combined[i], k)
          /\ \A v \in combined[1].start - 1 .. combined[Len(combined)].end + 1 :
               Contains(v) <=> v \in Denoted

\* The text of an expression is a text of the same set: a chunk that is handed
\* out as text is the chunk that was made.
TextDenotes ==
    round = 2 =>
      /\ phase # "failed"
      /\ phase = "built" =>
           Denoted = UNION {Elements(first[i]) : i \in DOMAIN first}
=============================================================================
