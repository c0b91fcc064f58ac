------------------------- MODULE MergeJobParameter -------------------------
(***************************************************************************)
(* merge_job_parameter_definitions_for_one                                 *)
(* (openjd/model/_merge_job_parameter.py): the definitions of one job      *)
(* parameter, from the environment templates and then the job template,    *)
(* become one definition, or an error.                                     *)
(*                                                                         *)
(* A value has a size: the number itself for INT (and FLOAT, which differs *)
(* in nothing else), the length of a STRING, PATH or list.  `lo' is        *)
(* minValue or minLength, `hi' is maxValue or maxLength.  A field that may *)
(* be None is a set of at most one element; no list of allowed values is   *)
(* empty, so None is the empty set there too.                              *)
(***************************************************************************)
EXTENDS Integers, Sequences

CONSTANTS
    Values,          \* values of parameters, records with a field `size'
    Definitions      \* definitions that a template may hold

LegacyTypes == {"INT", "STRING", "PATH"}
Types       == LegacyTypes \cup {"LIST"}

\* A field or variable that is a value or None.
Optional(S) == \A x, y \in S : x = y

ObjectTypes == {"FILE", "DIRECTORY"}
DataFlows   == {"NONE", "IN", "OUT", "INOUT"}

AllDefinitions ==
    [type : Types, default : SUBSET Values, allowed : SUBSET Values,
     lo : SUBSET Int, hi : SUBSET Int,
     objectType : SUBSET ObjectTypes, dataFlow : SUBSET DataFlows]

ASSUME MergeAssumption ==
    /\ \A v \in Values : v.size \in Int
    /\ Definitions \subseteq AllDefinitions
    /\ \A d \in Definitions :
         /\ Optional(d.default) /\ Optional(d.lo) /\ Optional(d.hi)
         /\ Optional(d.objectType) /\ Optional(d.dataFlow)

VARIABLES
    params,       \* the definitions to merge, in merge order
    at,           \* "start", the loop it is in, or "end"
    i,            \* the position of that loop
    allowed,      \* return_value of _merge_allowed_values
    constrained,  \* ... is not None
    lo, hi,       \* min_ and max_ of the length or value constraints
    errors,       \* the reasons for a CompatibilityError so far
    outcome,      \* "merged", or the class of the error
    merged        \* the merged definition, if there is one

mergeVars == <<params, at, i, allowed, constrained, lo, hi, errors, outcome, merged>>

Places == {"start", "allowed", "limits", "end"}
Outcomes == {"pending", "merged", "CompatibilityError", "DecodeValidationError"}

Latest == params[Len(params)]
Positions == 1 .. Len(params)

Greatest(S) == {x \in S : \A y \in S : y <= x}
Least(S)    == {x \in S : \A y \in S : x <= y}

\* What a definition demands of a value.
InLimits(def, v) == (\A l \in def.lo : l <= v.size) /\ (\A h \in def.hi : v.size <= h)
Accepts(def, v)  == InLimits(def, v) /\ (def.allowed # {} => v \in def.allowed)

\* The validators of a definition: its own values have to meet its limits.
Valid(def) ==
    /\ \A l \in def.lo, h \in def.hi : l <= h
    /\ \A v \in def.allowed : InLimits(def, v)
    /\ \A d \in def.default : Accepts(def, d)

\* The last default there is.
MergedDefault ==
    LET having == {j \in Positions : params[j].default # {}}
    IN  UNION {params[j].default : j \in Greatest(having)}

\* _merge_path_param_types: what the definitions say, objectType with and
\* without the default that stands for an absent one.
SaidObjectTypes == UNION {params[j].objectType : j \in Positions}
AllObjectTypes ==
    UNION {IF params[j].objectType = {} THEN {"DIRECTORY"} ELSE params[j].objectType :
             j \in Positions}
SaidDataFlows == UNION {params[j].dataFlow : j \in Positions}

Several(S) == \E x, y \in S : x # y
PathErrors ==
    IF Latest.type # "PATH" THEN {}
    ELSE (IF Several(AllObjectTypes) THEN {"objectType"} ELSE {})
           \cup (IF Several(SaidDataFlows) THEN {"dataFlow"} ELSE {})

Start(ps) ==
    /\ params = ps
    /\ at = "start" /\ i = 1
    /\ allowed = {} /\ constrained = FALSE
    /\ lo = {} /\ hi = {}
    /\ errors = {} /\ outcome = "pending" /\ merged = {}

\* The same, for the next parameter.
Restart(ps) ==
    /\ params' = ps
    /\ at' = "start" /\ i' = 1
    /\ allowed' = {} /\ constrained' = FALSE
    /\ lo' = {} /\ hi' = {}
    /\ errors' = {} /\ outcome' = "pending" /\ merged' = {}

End(result, definition) ==
    /\ at' = "end" /\ outcome' = result /\ merged' = definition

Differ == \E j \in Positions : params[j].type # Latest.type

TypesDiffer ==
    /\ at = "start" /\ Differ
    /\ End("CompatibilityError", {})
    /\ UNCHANGED <<params, i, allowed, constrained, lo, hi, errors>>

Begin ==
    /\ at = "start" /\ ~Differ /\ Latest.type \in LegacyTypes
    /\ at' = "allowed"
    /\ UNCHANGED <<params, i, allowed, constrained, lo, hi, errors, outcome, merged>>

\* The types of the EXPR extension are not merged: the last definition is
\* taken with the last default, which is checked if it comes from elsewhere.
TakeLast ==
    /\ at = "start" /\ ~Differ /\ Latest.type \notin LegacyTypes
    /\ IF Latest.default = {} /\ \E d \in MergedDefault : ~InLimits(Latest, d)
       THEN End("CompatibilityError", {})
       ELSE End("merged", {[Latest EXCEPT !.default = MergedDefault]})
    /\ UNCHANGED <<params, i, allowed, constrained, lo, hi, errors>>

\* One definition in _merge_allowed_values: the intersection so far, begun
\* anew when there is none or it is empty.
Intersect ==
    /\ at = "allowed" /\ i <= Len(params)
    /\ allowed' = IF params[i].allowed = {} THEN allowed
                  ELSE IF allowed = {} THEN params[i].allowed
                  ELSE allowed \cap params[i].allowed
    /\ constrained' = (constrained \/ params[i].allowed # {})
    /\ i' = i + 1
    /\ UNCHANGED <<params, at, lo, hi, errors, outcome, merged>>

\* After the loop, and _merge_path_param_types, which has no loop of its own.
AllowedDone ==
    /\ at = "allowed" /\ i > Len(params)
    /\ errors' = PathErrors
                   \cup IF constrained /\ allowed = {} THEN {"allowedValues"} ELSE {}
    /\ at' = "limits" /\ i' = 1
    /\ UNCHANGED <<params, allowed, constrained, lo, hi, outcome, merged>>

TightenLast ==     \* mutant: the last limit wins
    /\ at = "limits" /\ i <= Len(params)
    /\ lo' = IF params[i].lo = {} THEN lo ELSE params[i].lo
    /\ hi' = IF params[i].hi = {} THEN hi ELSE params[i].hi
    /\ i' = i + 1
    /\ UNCHANGED <<params, at, allowed, constrained, errors, outcome, merged>>
TightenNever ==     \* mutant: both limits are kept
    /\ at = "limits" /\ i <= Len(params)
    /\ lo' = lo \cup params[i].lo
    /\ hi' = hi \cup params[i].hi
    /\ i' = i + 1
    /\ UNCHANGED <<params, at, allowed, constrained, errors, outcome, merged>>

\* One definition in _merge_string_kind_param_constraints or
\* _merge_number_kind_param_constraints.
Tighten ==
    /\ at = "limits" /\ i <= Len(params)
    /\ lo' = Greatest(lo \cup params[i].lo)
    /\ hi' = Least(hi \cup params[i].hi)
    /\ i' = i + 1
    /\ UNCHANGED <<params, at, allowed, constrained, errors, outcome, merged>>

LimitErrorsStrict ==     \* mutant: one possible value is none
    IF \E l \in lo, h \in hi : l >= h THEN {"limits"} ELSE {}
LimitErrors == IF \E l \in lo, h \in hi : l > h THEN {"limits"} ELSE {}

MergedDefinition ==
    [type |-> Latest.type, default |-> MergedDefault, allowed |-> allowed,
     lo |-> lo, hi |-> hi,
     objectType |-> IF Latest.type = "PATH" THEN SaidObjectTypes ELSE {},
     dataFlow   |-> IF Latest.type = "PATH" THEN SaidDataFlows ELSE {}]

\* The errors there are, or the merged definition, validated again: that
\* raises an error of another class.
Finish ==
    /\ at = "limits" /\ i > Len(params)
    /\ errors' = errors \cup LimitErrors
    /\ IF errors' # {} THEN End("CompatibilityError", {})
       ELSE IF ~Valid(MergedDefinition) THEN End("DecodeValidationError", {})
       ELSE End("merged", {MergedDefinition})
    /\ UNCHANGED <<params, i, allowed, constrained, lo, hi>>

MergeStep ==
    \/ TypesDiffer \/ Begin \/ TakeLast
    \/ Intersect \/ AllowedDone \/ Tighten \/ Finish

MergeInit == \E ps \in Seq(Definitions) : ps # <<>> /\ Start(ps)
MergeSpec == MergeInit /\ [][MergeStep]_mergeVars

----------------------------------------------------------------------------
MergeTypeOK ==
    /\ params \in Seq(Definitions)
    /\ at \in Places /\ i \in Nat
    /\ allowed \in SUBSET Values /\ constrained \in BOOLEAN
    /\ lo \in SUBSET Int /\ Optional(lo)
    /\ hi \in SUBSET Int /\ Optional(hi)
    /\ errors \in SUBSET {"allowedValues", "objectType", "dataFlow", "limits"}
    /\ outcome \in Outcomes
    /\ merged \in SUBSET AllDefinitions /\ Optional(merged)

\* Every definition accepts the value.
AllAccept(v) == \A j \in Positions : Accepts(params[j], v)

\* A value that is in every list of allowed values.
InEveryList(v) == \A j \in Positions : params[j].allowed # {} => v \in params[j].allowed

\* If any value is in all the lists of allowed values, the merged definition
\* accepts exactly the values that every definition accepts (the docstring:
\* "merges the definitions into a single job parameter definition").
MergedIsExact ==
    \A m \in merged :
      m.type \in LegacyTypes /\ (\E w \in Values : InEveryList(w)) =>
        \A v \in Values : Accepts(m, v) <=> AllAccept(v)

\* Definitions that agree are never rejected: they are of one type, some value
\* is accepted by all of them, all of them accept the default that will be
\* used and all the values that every list allows ("checks to ensure that the
\* job parameter definitions are compatible with one another").
Agree ==
    /\ ~Differ /\ PathErrors = {}
    /\ \E v \in Values : AllAccept(v)
    /\ \A d \in MergedDefault : AllAccept(d)
    /\ \A v \in Values : InEveryList(v) =>
         \/ AllAccept(v)
         \/ \A j \in Positions : params[j].allowed = {}
AgreeingMerge == outcome \in {"CompatibilityError", "DecodeValidationError"} => ~Agree

=============================================================================
