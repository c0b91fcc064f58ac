---------------------------- MODULE JobParameters ----------------------------
(***************************************************************************)
(* What becomes of the parameters of a job: the definitions of all the     *)
(* templates are merged (merge_job_parameter_definitions), a caller's      *)
(* values are completed and checked (preprocess_job_parameters), and       *)
(* create_job does both again with what it is given                        *)
(* (openjd/model/_merge_job_parameter.py, _create_job.py).                 *)
(*                                                                         *)
(* A value has, besides its size, a place: "plain" (no path), "malformed"  *)
(* (text that is not of the parameter's type) or the kind of path it is,   *)
(* "upward" being a relative one that leaves its directory.  A path is     *)
(* untidy if pathlib writes it differently (a/, ./a, a//b, s3://a): by one *)
(* character less here.                                                    *)
(***************************************************************************)
EXTENDS MergeJobParameter, FiniteSets, Functions

CONSTANTS
    Templates,     \* what the templates define, one after the other in merge
                   \* order: sequences of [name, definition]
    Submitted,     \* what callers submit: functions from names to values
    DirSize        \* by how much joining it to a directory lengthens a path

PathPlaces == {"relative", "upward", "absolute", "uri"}
AnyValue   == [size : Int, place : {"plain", "malformed"} \cup PathPlaces, tidy : BOOLEAN]

ASSUME ParametersAssumption ==
    /\ Values \subseteq AnyValue
    /\ \A v \in Values : v.place = "uri" => ~v.tidy
    /\ \A d \in Definitions : \A v \in d.default : v.place # "malformed"
    /\ \A ts \in Templates : /\ DOMAIN ts = 1 .. Len(ts) /\ Len(ts) \in Nat
                            /\ \A k \in DOMAIN ts : ts[k].definition \in Definitions
    /\ \A g \in Submitted : Range(g) \subseteq Values
    /\ DirSize \in Nat

\* The other arguments of preprocess_job_parameters: the kinds of the two
\* directories, allow_job_template_dir_walk_up, and whether the job template
\* has the EXPR extension.
Kinds    == {"relative", "absolute"}
Settings == [template : Kinds, cwd : Kinds, walkUp : BOOLEAN, expr : BOOLEAN]
Server(expr) ==
    [template |-> "relative", cwd |-> "relative", walkUp |-> TRUE, expr |-> expr]

VARIABLES
    templates,     \* the definitions of the templates
    read,          \* how many of them have been collected
    sources,       \* collected_definitions, by first appearance of the names:
                   \* a sequence of [name, definitions]
    taken,         \* how many of them are merged, or being merged
    definitions,   \* the merged definitions
    conflicts,     \* the names whose definitions are in conflict
    phase,         \* "merging", "failed", "merged", "preprocessed" or "created"
    given,         \* the values preprocess_job_parameters was last called with
    settings,      \* its other arguments
    values,        \* the values it returned
    reported       \* the names in its ValueError, under each of its reasons

collectVars == <<templates, read, sources>>
mergingVars == <<taken, definitions, conflicts>>
resultVars  == <<given, settings, values, reported>>
vars == <<collectVars, mergingVars, phase, resultVars, mergeVars>>

NoValues == [x \in {} |-> {}]
NoReport == [extra |-> {}, raised |-> {}, bad |-> {}, missing |-> {}]

----------------------------------------------------------------------------
(* merge_job_parameter_definitions.                                        *)

\* The names, by first appearance.
names == [k \in DOMAIN sources |-> sources[k].name]

Init ==
    /\ templates \in Templates
    /\ read = 0 /\ sources = <<>> /\ taken = 0
    /\ definitions = <<>> /\ conflicts = {}
    /\ phase = "merging"
    /\ given = NoValues /\ values = NoValues
    /\ settings = Server(FALSE)
    /\ reported = NoReport
    /\ Start(<<>>)

\* The next definition is collected, under its name.
Collect ==
    /\ phase = "merging" /\ read < Len(templates)
    /\ read' = read + 1
    /\ LET p == templates[read']
       IN  sources' =
             IF p.name \in Range(names)
             THEN [k \in DOMAIN sources |->
                     IF sources[k].name = p.name
                     THEN [sources[k] EXCEPT !.definitions = Append(@, p.definition)]
                     ELSE sources[k]]
             ELSE Append(sources, [name |-> p.name, definitions |-> <<p.definition>>])
    /\ UNCHANGED <<templates, mergingVars, phase, resultVars, mergeVars>>
AllRead == read = Len(templates)

\* The next name is taken up.
MergeNext ==
    /\ phase = "merging" /\ AllRead /\ params = <<>> /\ taken < Len(sources)
    /\ taken' = taken + 1
    /\ Restart(sources[taken'].definitions)
    /\ UNCHANGED <<collectVars, definitions, conflicts, phase, resultVars>>

\* A step of merging its definitions.
Merge ==
    /\ phase = "merging" /\ params # <<>>
    /\ MergeStep
    /\ UNCHANGED <<collectVars, mergingVars, phase, resultVars>>

\* They are merged, or in conflict, or merging them raised an error of another
\* class, which is not caught.
Merged ==
    /\ phase = "merging" /\ outcome = "merged"
    /\ \E m \in merged : definitions' = Append(definitions, m)
    /\ Restart(<<>>)
    /\ UNCHANGED <<collectVars, taken, conflicts, phase, resultVars>>
Conflict ==
    /\ phase = "merging" /\ outcome = "CompatibilityError"
    /\ conflicts' = conflicts \cup {names[taken]}
    /\ Restart(<<>>)
    /\ UNCHANGED <<collectVars, taken, definitions, phase, resultVars>>
Invalid ==
    /\ phase = "merging" /\ outcome = "DecodeValidationError"
    /\ phase' = "failed"
    /\ UNCHANGED <<collectVars, mergingVars, resultVars, mergeVars>>

\* All the names are done: the conflicts are raised, or the definitions
\* returned.
MergeReturns ==
    /\ phase = "merging" /\ AllRead /\ params = <<>> /\ taken = Len(sources)
    /\ phase' = IF conflicts # {} THEN "failed" ELSE "merged"
    /\ UNCHANGED <<collectVars, mergingVars, resultVars, mergeVars>>

----------------------------------------------------------------------------
(* preprocess_job_parameters, after the merge.                             *)

Definition(name) == definitions[CHOOSE k \in DOMAIN sources : sources[k].name = name]

\* _is_uri, where URIs count.
Uri(v, s) == s.expr /\ v.place = "uri"

Tidied(v) ==
    IF v.tidy THEN v
    ELSE [v EXCEPT !.tidy = TRUE, !.size = @ - 1,
                   !.place = IF @ = "uri" THEN "relative" ELSE @]
Joined(v) == [Tidied(v) EXCEPT !.size = @ + DirSize, !.place = "absolute"]

\* _resolve_path_default_2023_09: whether it raises, and what it returns.
DefaultRaises(v, s) ==
    /\ ~s.walkUp /\ v.size # 0 /\ ~Uri(v, s)
    /\ \/ v.place = "absolute"
       \/ v.place = "upward" /\ s.template = "absolute"
ResolvedDefault(v, s) ==
    IF v.size = 0 \/ Uri(v, s) \/ v.place = "absolute" \/ s.template = "relative"
    THEN v ELSE Joined(v)

\* mutant: a URI is a path like any other
ResolvedAsPath(v, s) ==
    IF v.size = 0 \/ v.place = "absolute" THEN v
    ELSE IF s.cwd = "relative" THEN Tidied(v) ELSE Joined(v)

\* A submitted PATH is joined to the current directory, whatever it is.
ResolvedGiven(v, s) ==
    IF v.size = 0 \/ Uri(v, s) \/ v.place = "absolute" THEN v
    ELSE IF s.cwd = "relative" THEN Tidied(v) ELSE Joined(v)

\* _collect_defaults_2023_09: the names for which it raises (it stops at the
\* first), and the values it returns if there is none.
Raising(g, s) ==
    {name \in Range(names) :
       LET def == Definition(name)
       IN  IF name \in DOMAIN g THEN def.type = "LIST" /\ g[name].place = "malformed"
           ELSE def.type = "PATH" /\ \E d \in def.default : DefaultRaises(d, s)}

TheOne(S) == CHOOSE d \in S : TRUE
Collected(g, s) ==
    LET having == {name \in Range(names) :
                     name \in DOMAIN g \/ Definition(name).default # {}}
        value(name, def) ==
          IF name \in DOMAIN g
          THEN IF def.type = "PATH" THEN ResolvedGiven(g[name], s) ELSE g[name]
          ELSE LET d == TheOne(def.default)
               IN  IF def.type = "PATH" THEN ResolvedDefault(d, s) ELSE d
    IN  [name \in having |-> value(name, Definition(name))]

\* _check_constraints of the definition.  Limits of scalars are looked at for
\* their truth, so 0 counts as no limit.
NoChecks(def, v) == def.allowed # {} => v \in def.allowed     \* mutant
Meets(def, v) ==
    LET Limits(S) == IF def.type = "LIST" THEN S ELSE S \ {0}
    IN  /\ def.type = "INT" => v.place # "malformed"
        /\ def.allowed # {} => v \in def.allowed
        /\ \A l \in Limits(def.lo) : l <= v.size
        /\ \A h \in Limits(def.hi) : v.size <= h

\* One call: the template directory has to be absolute if it is to contain the
\* defaults, and whatever is raised while collecting leaves no value collected.
Report(g, s) ==
    LET unanchored == ~s.walkUp /\ s.template = "relative"
        raising == IF unanchored THEN Range(names) ELSE Raising(g, s)
        collected == IF raising = {} THEN Collected(g, s) ELSE NoValues
    IN  [extra   |-> DOMAIN g \ Range(names),
         raised  |-> raising,
         bad     |-> {name \in DOMAIN collected :
                        ~Meets(Definition(name), collected[name])},
         missing |-> Range(names) \ DOMAIN collected]

Call(g, s) ==
    /\ given' = g /\ settings' = s
    /\ reported' = Report(g, s)
    /\ values' = IF reported' = NoReport THEN Collected(g, s) ELSE NoValues

\* Which values stand for what a caller may submit (a str, whatever the
\* parameter): a path, any text, or for the other types one or malformed text.
Suits(g) ==
    \A name \in DOMAIN g \cap Range(names) :
      LET type == Definition(name).type
      IN  IF type = "PATH" THEN g[name].place \in PathPlaces
          ELSE IF type = "STRING" THEN g[name].place = "plain" /\ g[name].size >= 0
          ELSE g[name].place \in {"plain", "malformed"}

\* A client prepares its parameters.
Preprocess ==
    /\ phase = "merged"
    /\ \E g \in Submitted, s \in Settings : Suits(g) /\ Call(g, s)
    /\ phase' = "preprocessed"
    /\ UNCHANGED <<collectVars, mergingVars, mergeVars>>

\* What it got goes to create_job, which merges the same definitions and
\* preprocesses with no directories.
CreateJob ==
    /\ phase = "preprocessed" /\ reported = NoReport
    /\ Call(values, Server(settings.expr))
    /\ phase' = "created"
    /\ UNCHANGED <<collectVars, mergingVars, mergeVars>>

Next ==
    \/ Collect \/ MergeNext \/ Merge \/ Merged \/ Conflict \/ Invalid \/ MergeReturns
    \/ Preprocess \/ CreateJob

Spec == Init /\ [][Next]_vars

----------------------------------------------------------------------------
TypeOK ==
    /\ MergeTypeOK
    /\ read \in 0 .. Len(templates)
    /\ taken \in 0 .. Len(sources)
    /\ conflicts \subseteq Range(names)
    /\ Len(definitions) + Cardinality(conflicts) <= taken
    /\ phase \in {"merging", "failed", "merged", "preprocessed", "created"}
    /\ settings \in Settings
    /\ DOMAIN values \subseteq Range(names)

Returned == phase \in {"preprocessed", "created"} /\ reported = NoReport

\* Every parameter has a value, and the value meets what every template's
\* definition of the parameter demands, but for limits that merge to 0 and for
\* lists of allowed values that have nothing in common (preprocess_job_parameters,
\* points 2 to 4 of its docstring).
AcceptedMeetsEvery ==
    Returned =>
      /\ DOMAIN values = Range(names)
      /\ \A name \in Range(names) :
           LET own  == {k \in DOMAIN templates : templates[k].name = name}
               defs == {templates[k].definition : k \in own}
               v == values[name]
               lists == {d.allowed : d \in {d \in defs : d.allowed # {}}}
               common == {w \in Values : \A S \in lists : w \in S}
           IN  Definition(name).type # "LIST" =>
                 \A d \in defs :
                   /\ \A l \in d.lo : l <= v.size \/ Definition(name).lo = {0}
                   /\ \A h \in d.hi : v.size <= h \/ Definition(name).hi = {0}
                   /\ d.allowed # {} /\ common # {} => v \in d.allowed

\* The parameters among those of g whose value is an untidy relative default
\* that was kept as written (a URI is one of these without EXPR).
KeptUntidy(g, s) ==
    {name \in DOMAIN g :
       /\ Definition(name).type = "PATH" /\ g[name] \in Definition(name).default
       /\ ~g[name].tidy /\ g[name].size # 0
       /\ g[name].place # "absolute" /\ ~Uri(g[name], s)}

\* create_job takes what preprocess_job_parameters returned: it finds nothing
\* extra or missing, raises nothing, and changes no value but an untidy default
\* that was kept as written, which it takes for a submitted path.  Only such a
\* one can fail the second check, and the others are the same even in its
\* company (preprocess_job_parameters called from lines 493-505, and its
\* docstring: "the PATH parameter values will remain untouched").
CreateJobAgrees ==
    phase = "created" =>
      LET kept == KeptUntidy(given, settings)
      IN  /\ reported = [NoReport EXCEPT !.bad = reported.bad]
          /\ reported.bad \subseteq kept
          /\ reported = NoReport =>
               values = [name \in DOMAIN given |->
                           IF name \in kept THEN Tidied(given[name]) ELSE given[name]]

=============================================================================
