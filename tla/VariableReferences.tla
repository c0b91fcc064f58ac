------------------------- MODULE VariableReferences -------------------------
(***************************************************************************)
(* Which names a template may refer to, and whether they have a value when *)
(* the reference is resolved.  The question is answered three times by     *)
(* three different pieces of code:                                         *)
(*   - at decode, prevalidation walks the raw template along the metadata  *)
(*     of the model classes (_variable_reference_validation.py) and refuses *)
(*     a reference it cannot see;                                          *)
(*   - create_job resolves the job's name, the ranges and the host         *)
(*     requirements against the symbol tables it builds, and evaluates the *)
(*     steps' `let` bindings into them (_create_job.py, _let_bindings.py); *)
(*   - the session resolves everything else against the tables that        *)
(*     create_job_with_symbol_tables publishes.                            *)
(* Nothing ties the three together but the metadata; the properties say    *)
(* that they agree.  An author writes references and bindings into a       *)
(* template of a fixed shape, which is decoded, created and run.           *)
(***************************************************************************)
EXTENDS Naturals, FiniteSets, SequencesExt, TLC

CONSTANTS
    Declarations, \* the sets of extensions that templates may declare
    LetNames,     \* names that `let` bindings may bind
    BoundRefs,    \* what the expression of a binding may refer to
    MaxItems      \* bound: what the author writes, at most one of it a reference

VARIABLES
    extensions,  \* the extensions the templates declare, FEATURE_BUNDLE_1 aside
    refs,        \* place of a format string -> what it refers to
    lets,        \* place of a `let` list -> its bindings, in order
    phase,       \* how far the templates have come
    unresolved   \* the places whose references had no value

vars == <<extensions, refs, lets, phase, unresolved>>

-----------------------------------------------------------------------------
(* Symbols are their dotted segments.  A spelling that starts with "|" drops *)
(* the prefix of the enclosing model, another one is appended to it.         *)
Spell(prefix, spelling) ==
    IF spelling # <<>> /\ Head(spelling) = "|" THEN Tail(spelling) ELSE prefix \o spelling

HostFunction == <<"apply_path_mapping">>   \* is called, but travels as a name
JobName == <<"Job", "Name">>
StepName == <<"Step", "Name">>
Session == <<"Session", "WorkingDirectory">>          \* for the three of Session
WrappedAction == <<"WrappedAction", "Timeout">>       \* for the six of WrappedAction
WrappedEnv == <<"WrappedEnv", "Name">>
WrappedStep == <<"WrappedStep", "Name">>

Param(n) == <<"Param", n>>
RawParam(n) == <<"RawParam", n>>
TaskParam(n) == <<"Task", "Param", n>>

Refs == {HostFunction, JobName, StepName, Session, WrappedAction,
         WrappedEnv, WrappedStep,
         Param("Int"), Param("Path"), RawParam("Path"), TaskParam("T"),
         <<"Task", "File", "F">>, <<"Env", "File", "G">>}
            \cup {<<l>> : l \in LetNames}

Scopes == {"TEMPLATE", "SESSION", "TASK"}

\* What a session defines is lost to its tasks.
AvailableInScope == [TEMPLATE |-> Scopes, SESSION |-> {"SESSION"}, TASK |-> {"TASK"}]

\* The scopes in which a symbol of a scope is visible.
AvailableIn == [TEMPLATE |-> Scopes, SESSION |-> {"SESSION", "TASK"}, TASK |-> {"TASK"}]

At(scope, names) == [s \in Scopes |-> IF s \in AvailableIn[scope] THEN names ELSE {}]
NoSymbols == [s \in Scopes |-> {}]
UnionOf(tables) == [s \in Scopes |-> UNION {t[s] : t \in tables}]

Get(f, key, default) == IF key \in DOMAIN f THEN f[key] ELSE default

-----------------------------------------------------------------------------
(* The metadata of the model classes. *)

Plain == [scope      |-> "inherit",   \* _template_variable_scope
          prefix     |-> <<>>,        \* symbol_prefix
          defines    |-> <<>>,        \* scope -> the prefixes of the symbols it defines
          inject     |-> {},
          exprInject |-> {},
          sources    |-> <<>>,        \* _template_variable_sources
          fieldScope |-> <<>>,        \* _template_field_scopes
          everywhere |-> <<>>,        \* _template_field_inject
          inSession  |-> <<>>,        \* _template_field_inject_session
          resolves   |-> {}]          \* resolve_fields, at job creation

Exported == [__export__ |-> {"__self__"}]
TimedAtCreation == [timeout |-> "TEMPLATE"]

JobTemplate ==
    [Plain EXCEPT !.scope = "TEMPLATE", !.exprInject = {JobName},
        !.sources = [name |-> {"parameterDefinitions"},
                     steps |-> {"parameterDefinitions", "__self__"},
                     jobEnvironments |-> {"parameterDefinitions", "__self__"}],
        !.resolves = {"name"}]

EnvironmentTemplate ==
    [Plain EXCEPT !.scope = "TEMPLATE", !.exprInject = {JobName},
        !.sources = [environment |-> {"parameterDefinitions", "__self__"}]]

JobIntParameter ==
    [Plain EXCEPT !.sources = Exported,
        !.defines = [TEMPLATE |-> {<<"|", "Param">>, <<"|", "RawParam">>}]]

\* A PATH parameter that is visible everywhere, like the others.
EarlyPathParameter == JobIntParameter

JobPathParameter ==
    [Plain EXCEPT !.sources = Exported,
        !.defines = [SESSION |-> {<<"|", "Param">>}, TEMPLATE |-> {<<"|", "RawParam">>}]]

StepTemplate ==
    [Plain EXCEPT !.exprInject = {StepName},
        !.sources = [script |-> {"__self__", "parameterSpace"},
                     python |-> {"__self__", "parameterSpace"},
                     stepEnvironments |-> {"__self__"},
                     parameterSpace |-> {"__self__"},
                     hostRequirements |-> {"__self__"}]]

StepParameterSpaceDefinition ==
    [Plain EXCEPT !.sources = [__export__ |-> {"taskParameterDefinitions"}]]

IntTaskParameter ==
    [Plain EXCEPT !.sources = Exported, !.resolves = {"range"},
        !.defines = [TASK |-> {<<"|", "Task", "Param">>, <<"|", "Task", "RawParam">>}]]

AmountRequirement == [Plain EXCEPT !.resolves = {"name", "min", "max"}]

StepScript ==
    [Plain EXCEPT !.scope = "TASK", !.prefix = <<"|", "Task">>, !.inject = {Session},
        !.sources = [actions |-> {"embeddedFiles", "__self__"},
                     embeddedFiles |-> {"embeddedFiles", "__self__"}]]

SimpleAction ==
    [Plain EXCEPT !.scope = "TASK", !.inject = {Session}, !.fieldScope = TimedAtCreation,
        !.sources = [script |-> {"__self__"}, args |-> {"__self__"}]]

EmbeddedFileText ==
    [Plain EXCEPT !.defines = [SESSION |-> {<<"File">>}],
        !.sources = [__export__ |-> {"__self__"}, data |-> {"__self__"}]]

Environment ==
    [Plain EXCEPT !.scope = "SESSION", !.inject = {Session},
        !.sources = [variables |-> {"__self__"}]]

EnvironmentScript ==
    [Plain EXCEPT !.prefix = <<"|", "Env">>, !.inject = {Session},
        !.sources = [actions |-> {"embeddedFiles", "__self__"},
                     embeddedFiles |-> {"embeddedFiles", "__self__"}]]

EnvironmentActions ==
    [Plain EXCEPT
        !.everywhere = [onWrapEnvEnter |-> {WrappedAction}, onWrapEnvExit |-> {WrappedAction},
                        onWrapTaskRun |-> {WrappedAction}],
        !.inSession = [onWrapEnvEnter |-> {WrappedEnv}, onWrapEnvExit |-> {WrappedEnv},
                       onWrapTaskRun |-> {WrappedStep}]]

Action == [Plain EXCEPT !.fieldScope = TimedAtCreation]

Meta(model) ==
    CASE model = "JobTemplate" -> JobTemplate
      [] model = "EnvironmentTemplate" -> EnvironmentTemplate
      [] model = "JobIntParameter" -> JobIntParameter
      [] model = "JobPathParameter" -> JobPathParameter
      [] model = "StepTemplate" -> StepTemplate
      [] model = "StepParameterSpaceDefinition" -> StepParameterSpaceDefinition
      [] model = "IntTaskParameter" -> IntTaskParameter
      [] model = "AmountRequirement" -> AmountRequirement
      [] model = "StepScript" -> StepScript
      [] model = "SimpleAction" -> SimpleAction
      [] model = "EmbeddedFileText" -> EmbeddedFileText
      [] model = "Environment" -> Environment
      [] model = "EnvironmentScript" -> EnvironmentScript
      [] model = "EnvironmentActions" -> EnvironmentActions
      [] model = "Action" -> Action
      [] OTHER -> Plain

-----------------------------------------------------------------------------
(* The templates: nodes with their fields, each a list of nodes, and format *)
(* strings as leaves.  `at` is the place the author writes to.  `python`     *)
(* stands for the five interpreters, and an argument is like a command.      *)

Leaf(at) == [model |-> "FormatString", at |-> at, name |-> "", let |-> <<>>,
             refs |-> refs[at], fields |-> <<>>]

Node(model, name, fields) == [model |-> model, at |-> "", name |-> name, let |-> <<>>,
                              refs |-> {}, fields |-> fields]

LetNode(at, node) == [node EXCEPT !.at = at, !.let = lets[at]]

Children(n) == {<<f, i>> : f \in DOMAIN n.fields, i \in 1..2}
Present(n) == {c \in Children(n) : c[2] \in DOMAIN n.fields[c[1]]}
Child(n, c) == n.fields[c[1]][c[2]]

Run(command, timeout) ==
    Node("Action", "", [command |-> <<Leaf(command)>>, timeout |-> <<Leaf(timeout)>>])
Command(command) == Node("Action", "", [command |-> <<Leaf(command)>>])

Parameters == <<Node("JobIntParameter", "Int", <<>>), Node("JobPathParameter", "Path", <<>>)>>

JobEnvironment ==
    LET enter == [onEnter |-> <<Run("enter", "enterTimeout")>>]
        hooks == [onWrapEnvEnter |-> <<Command("wrapEnter")>>,
                  onWrapEnvExit |-> <<Command("wrapExit")>>,
                  onWrapTaskRun |-> <<Run("wrapTask", "wrapTimeout")>>]
        actions == IF "WRAP_ACTIONS" \in extensions THEN enter @@ hooks ELSE enter
    IN Node("Environment", "", [
         variables |-> <<Leaf("variables")>>,
         script |-> <<Node("EnvironmentScript", "", [
            embeddedFiles |-> <<Node("EmbeddedFileText", "G", [data |-> <<Leaf("envData")>>])>>,
            actions |-> <<Node("EnvironmentActions", "", actions)>>])>>])

StepEnvironment ==
    Node("Environment", "", [
         script |-> <<LetNode("stepEnv", Node("EnvironmentScript", "", [
            actions |-> <<Node("EnvironmentActions", "", [
               onEnter |-> <<Command("stepEnter")>>])>>]))>>])

ScriptStep ==
    LetNode("step", Node("StepTemplate", "S", [
         parameterSpace |-> <<Node("StepParameterSpaceDefinition", "", [
            taskParameterDefinitions |-> <<Node("IntTaskParameter", "T", [
               range |-> <<Leaf("range")>>])>>])>>,
         hostRequirements |-> <<Node("AmountRequirement", "", [min |-> <<Leaf("minimum")>>])>>,
         stepEnvironments |-> <<StepEnvironment>>,
         script |-> <<LetNode("script", Node("StepScript", "", [
            embeddedFiles |-> <<Node("EmbeddedFileText", "F", [data |-> <<Leaf("data")>>])>>,
            actions |-> <<Node("StepActions", "", [
               onRun |-> <<Run("run", "runTimeout")>>])>>]))>>]))

PythonStep ==
    Node("StepTemplate", "P", [
         python |-> <<LetNode("simple", Node("SimpleAction", "", [
            script |-> <<Leaf("python")>>, timeout |-> <<Leaf("pythonTimeout")>>]))>>])

TheJob ==
    Node("JobTemplate", "", [
         name |-> <<Leaf("jobName")>>,
         parameterDefinitions |-> Parameters,
         jobEnvironments |-> <<JobEnvironment>>,
         steps |-> <<ScriptStep, PythonStep>>])

TheQueueEnvironment ==
    Node("EnvironmentTemplate", "", [
         parameterDefinitions |-> Parameters,
         environment |-> <<Node("Environment", "", [variables |-> <<Leaf("queue")>>])>>])

Hooks == {"wrapEnter", "wrapExit", "wrapTask", "wrapTimeout"}
TimeoutPlaces == {"enterTimeout", "wrapTimeout", "runTimeout", "pythonTimeout"}
Places == {"jobName", "variables", "envData", "enter", "range", "minimum", "stepEnter",
           "data", "run", "python", "queue"} \cup Hooks \cup TimeoutPlaces
LetPlaces == {"step", "stepEnv", "script", "simple"}

-----------------------------------------------------------------------------
(* Decode: what is defined, and what may be seen. *)

NamesOf(let) == {let[i].name : i \in DOMAIN let}

\* The symbols that a node itself defines or injects, its bindings among them.
OwnSymbols(n, scope, prefix) ==
    LET m == Meta(n.model)
        defined == {At(s, {Spell(prefix, d) \o <<n.name>> : d \in m.defines[s]}) :
                        s \in DOMAIN m.defines}
    IN UnionOf(defined \cup {At(scope, m.inject), At(scope, {<<l>> : l \in NamesOf(n.let)})})

\* What a node and each of its fields provide.  A nested model that exports
\* nothing is pruned; neither its scope nor its prefix is applied on the way down.
RECURSIVE Collect(_, _, _)
Collect(n, scope, prefix) ==
    LET sources == Meta(n.model).sources
        Nested(c) == IF "__export__" \in DOMAIN Meta(c.model).sources
                     THEN Collect(c, scope, prefix)["__export__"] ELSE NoSymbols
        provided == [f \in DOMAIN n.fields |->
                        UnionOf({Nested(n.fields[f][i]) : i \in DOMAIN n.fields[f]})]
                    @@ ("__self__" :> OwnSymbols(n, scope, prefix))
        exports == Get(sources, "__export__", {})
    IN provided @@ ("__export__" :> UnionOf({Get(provided, s, NoSymbols) : s \in exports}))

\* The order of the bindings does not matter.
LetErrorsUnordered(n, scope, symbols, provided) ==
    LET visible == symbols[scope] \cup provided["__self__"][scope]
                       \cup Get(provided, "embeddedFiles", NoSymbols)[scope]
        Wrong(b) == \/ <<b.name>> \in symbols[scope]
                    \/ <<b.name>> \in b.refs
                    \/ ~ (b.refs \ {HostFunction} \subseteq visible)
    IN IF \E i \in DOMAIN n.let : Wrong(n.let[i]) THEN {n.at} ELSE {}

\* A binding sees what encloses its model, what the model injects, its files
\* and the bindings before it, and may not bind a name that is visible already.
LetErrors(n, scope, symbols, provided) ==
    LET enclosing == symbols[scope]
        files == Get(provided, "embeddedFiles", NoSymbols)[scope]
        outer == (enclosing \cup provided["__self__"][scope] \cup files)
                    \ {<<l>> : l \in NamesOf(n.let)}
        Visible(i) == outer \cup {<<n.let[j].name>> : j \in 1..(i - 1)}
        Wrong(b, i) == \/ <<b.name>> \in enclosing
                       \/ <<b.name>> \in b.refs
                       \/ ~ (b.refs \ {HostFunction} \subseteq Visible(i))
    IN IF \E i \in DOMAIN n.let : Wrong(n.let[i], i) THEN {n.at} ELSE {}

CheckFormatString(n, scope, symbols) ==
    IF /\ n.refs \ {HostFunction} \subseteq symbols[scope]
       /\ HostFunction \in n.refs => scope # "TEMPLATE"
    THEN {} ELSE {n.at}

\* The places under a node that hold a reference it may not hold.
RECURSIVE Validate(_, _, _, _)
Validate(n, outerScope, outerPrefix, symbols) ==
    LET m == Meta(n.model)
        scope == IF m.scope = "inherit" THEN outerScope ELSE m.scope
        prefix == Spell(outerPrefix, m.prefix)
        collected == Collect(n, scope, prefix)
        expr == "EXPR" \in extensions
        provided == IF expr
                    THEN [collected EXCEPT !["__self__"] = UnionOf({@, At(scope, m.exprInject)})]
                    ELSE collected
        Seen(f) == UnionOf({Get(provided, s, NoSymbols) : s \in Get(m.sources, f, {})}
                       \cup {symbols, At("TEMPLATE", Get(m.everywhere, f, {})),
                             At("SESSION", Get(m.inSession, f, {}))})
    IN IF n.model = "FormatString" THEN CheckFormatString(n, outerScope, symbols)
       ELSE (IF expr THEN LetErrors(n, scope, symbols, provided) ELSE {})
            \cup UNION {Validate(Child(n, c), Get(m.fieldScope, c[1], scope), prefix, Seen(c[1]))
                          : c \in Present(n)}

\* What only EXPR allows: the wrap hooks, `let` fields, and calls in a format
\* string.  A name is bound once in a list.
ActionsAllowed == "WRAP_ACTIONS" \in extensions => "EXPR" \in extensions

LetsAllowed ==
    \A p \in LetPlaces :
        /\ lets[p] # <<>> => "EXPR" \in extensions
        /\ Cardinality(NamesOf(lets[p])) = Len(lets[p])

CallsAllowed == "EXPR" \in extensions \/ \A p \in Places : HostFunction \notin refs[p]

Allowed == ActionsAllowed /\ LetsAllowed /\ CallsAllowed

DecodeErrors == UNION {Validate(t, "TEMPLATE", <<>>, NoSymbols) : t \in {TheJob, TheQueueEnvironment}}

-----------------------------------------------------------------------------
(* Job creation. *)

\* The bindings are evaluated in order, each into the table the next one sees.
EvaluateLetBindings(table, let) ==
    FoldLeft(LAMBDA r, b : IF r.ok /\ b.refs \subseteq r.table
                           THEN [r EXCEPT !.table = @ \cup {<<b.name>>}]
                           ELSE [r EXCEPT !.ok = FALSE],
             [ok |-> TRUE, table |-> table], let)

\* A PATH has no value for Param before a session maps it; only RawParam.
ParameterTable == {Param("Int"), RawParam("Int"), RawParam("Path")}
JobTable == ParameterTable \cup (IF "EXPR" \in extensions THEN {JobName} ELSE {})

ExtendStepSymtab(step, table) == EvaluateLetBindings(table \cup {StepName}, step.let)

\* The places that raise while a node is instantiated.
RECURSIVE Instantiate(_, _)
Instantiate(n, outer) ==
    LET extended == IF n.model = "StepTemplate" THEN ExtendStepSymtab(n, outer)
                    ELSE [ok |-> TRUE, table |-> outer]
        Raises(f, c) == IF c.model # "FormatString" THEN Instantiate(c, extended.table)
                        ELSE IF f \in Meta(n.model).resolves /\ ~ (c.refs \subseteq extended.table)
                        THEN {c.at} ELSE {}
    IN IF ~ extended.ok THEN {n.at}
       ELSE UNION {Raises(c[1], Child(n, c)) : c \in Present(n)}

\* Under EXPR the name is resolved once more, before Job.Name is known.
CreationErrors ==
    Instantiate(TheJob, JobTable)
        \cup (IF refs["jobName"] \subseteq ParameterTable THEN {} ELSE {"jobName"})

ResolveSyntaxSugar(step) ==
    IF "script" \in DOMAIN step.fields THEN step.fields.script[1]
    ELSE LET simple == step.fields.python[1]
         IN [Node("StepScript", "", [
               embeddedFiles |-> <<Node("EmbeddedFileText", "P_", [data |-> simple.fields.script])>>,
               actions |-> <<Node("StepActions", "", [
                  onRun |-> <<Node("Action", "", [timeout |-> simple.fields.timeout])>>])>>])
             EXCEPT !.at = simple.at, !.let = simple.let]

-----------------------------------------------------------------------------
(* A session, as the comments of src/ describe what it does with a job: it  *)
(* maps the paths, forwards the wrapped action to a hook, places the files  *)
(* of a script, and only then evaluates the script's bindings.              *)

Forwarded == [onWrapEnvEnter |-> {WrappedAction, WrappedEnv},
              onWrapEnvExit |-> {WrappedAction, WrappedEnv},
              onWrapTaskRun |-> {WrappedAction, WrappedStep}]

RECURSIVE Unresolved(_, _)
Unresolved(n, table) ==
    IF n.model = "FormatString"
    THEN IF n.refs \subseteq table THEN {} ELSE {n.at}
    ELSE UNION {Unresolved(Child(n, c), table \cup Get(Forwarded, c[1], {})) : c \in Present(n)}

RunScript(script, table, kind) ==
    LET files == Get(script.fields, "embeddedFiles", <<>>)
        placed == table \cup {<<kind, "File", files[i].name>> : i \in DOMAIN files}
        bound == EvaluateLetBindings(placed, script.let)
    IN IF bound.ok THEN Unresolved(script, bound.table) ELSE {script.at}

InSession(table) == table \cup {Session, Param("Path"), HostFunction}

EnterEnvironment(e, table) ==
    UNION {IF c[1] = "script" THEN RunScript(Child(e, c), table, "Env")
           ELSE Unresolved(Child(e, c), table) : c \in Present(e)}

RunStep(step) ==
    LET table == InSession(ExtendStepSymtab(step, JobTable).table)
        environments == Get(step.fields, "stepEnvironments", <<>>)
        tasks == IF "parameterSpace" \in DOMAIN step.fields THEN {TaskParam("T")} ELSE {}
    IN UNION {EnterEnvironment(environments[i], table) : i \in DOMAIN environments}
          \cup RunScript(ResolveSyntaxSugar(step), table \cup tasks, "Task")

SessionErrors ==
    RunStep(ScriptStep) \cup RunStep(PythonStep)
       \cup EnterEnvironment(JobEnvironment, InSession(JobTable))
       \cup EnterEnvironment(TheQueueEnvironment.fields.environment[1], InSession(JobTable))

-----------------------------------------------------------------------------
Bindings == [name : LetNames, refs : {{}} \cup {{r} : r \in BoundRefs}]

Referring == {p \in Places : refs[p] # {}}
Written == Cardinality(Referring) + FoldSet(LAMBDA p, n : n + Len(lets[p]), 0, LetPlaces)

Init ==
    /\ extensions \in Declarations
    /\ refs = [p \in Places |-> {}]
    /\ lets = [p \in LetPlaces |-> <<>>]
    /\ phase = "authoring"
    /\ unresolved = {}

WriteReference(p, r) ==
    /\ phase = "authoring" /\ Written < MaxItems
    /\ p \in Hooks => "WRAP_ACTIONS" \in extensions
    /\ Referring = {}
    /\ refs' = [refs EXCEPT ![p] = {r}]
    /\ UNCHANGED <<extensions, lets, phase, unresolved>>

WriteLet(p, b) ==
    /\ phase = "authoring" /\ Written < MaxItems
    /\ lets' = [lets EXCEPT ![p] = Append(@, b)]
    /\ UNCHANGED <<extensions, refs, phase, unresolved>>

Decode ==
    /\ phase = "authoring"
    /\ phase' = IF Allowed /\ DecodeErrors = {} THEN "decoded" ELSE "refused"
    /\ UNCHANGED <<extensions, refs, lets, unresolved>>

CreateJob ==
    /\ phase = "decoded"
    /\ unresolved' = CreationErrors
    /\ phase' = IF unresolved' = {} THEN "created" ELSE "failed"
    /\ UNCHANGED <<extensions, refs, lets>>

RunSession ==
    /\ phase = "created"
    /\ unresolved' = SessionErrors
    /\ phase' = IF unresolved' = {} THEN "ran" ELSE "broken"
    /\ UNCHANGED <<extensions, refs, lets>>

Next ==
    \/ \E p \in Places, r \in Refs : WriteReference(p, r)
    \/ \E p \in LetPlaces, b \in Bindings : WriteLet(p, b)
    \/ Decode
    \/ CreateJob
    \/ RunSession

Spec == Init /\ [][Next]_vars

-----------------------------------------------------------------------------
\* A job template that decode accepts can be made a job: whatever its name,
\* ranges, host requirements and step bindings refer to is in the symbol table
\* by then.  The one way to fail is a step binding that calls a function of the
\* host, which prevalidation looks for in format strings only.
AcceptedCreates ==
    phase = "failed" =>
        /\ unresolved = {"step"}
        /\ \E i \in DOMAIN lets["step"] : HostFunction \in lets["step"][i].refs

\* A job that was created never meets an undefined name in a session that starts
\* from the published tables: in its environments, its bindings in their order,
\* its files, commands, wrap hooks and timeouts.
CreatedRuns == phase # "broken"

\* Templates are refused for a cause: some reference would have had no value, a
\* binding rebinds a name of an enclosing or its own list, a timeout needs what
\* is not known when the job is created, or an extension is not declared.
RefusedForCause ==
    LET table == ExtendStepSymtab(ScriptStep, JobTable).table \cup {TaskParam("T")}
        early == [p \in TimeoutPlaces |->
                    (IF p = "wrapTimeout" THEN {WrappedAction} ELSE {}) \cup
                    (IF p = "runTimeout" THEN table \ {TaskParam("T")}
                     ELSE IF p = "pythonTimeout" THEN JobTable \cup {StepName} ELSE JobTable)]
        names == [p \in LetPlaces |-> NamesOf(lets[p])]
    IN phase = "refused" =>
          \/ ~ Allowed
          \/ names["step"] \cap (names["script"] \cup names["stepEnv"]) # {}
          \/ \E p \in TimeoutPlaces : ~ (refs[p] \subseteq early[p])
          \/ "EXPR" \notin extensions /\ \E p \in Places : StepName \in refs[p]
          \/ CreationErrors # {}
          \/ SessionErrors # {}

=============================================================================
