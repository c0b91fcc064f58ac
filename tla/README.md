# Verification of openjd-model-for-python

This directory holds TLA+ specifications of the Open Job Description model
library, the TLC configurations that check them on small instances, and proofs
checked by TLAPS. Everything is translated from the code: the Python package
(`src/openjd/...`) and the Rust extension (`rust-bindings/src/...`). Line numbers
in comments refer to those files; `PROJECT.json` maps each definition to the
lines it stands for.

## 1. The system

The library reads a job template, merges and checks parameter values, creates
a job from both, and enumerates the tasks of a job's steps. Its Rust extension
offers the same model again plus *sessions*, which run a job's actions on a
host. Almost all of it is sequential: a caller builds objects, then calls
methods on them. Concurrency is in the session bindings only.

| component | state it keeps | operations | correct when |
|---|---|---|---|
| **Session bindings** `rust-bindings/src/sessions/session.rs` | the `Session` in a mutex-protected slot (or in an action's thread), the cancel handle, a snapshot under its own mutex | `enter_environment`, `exit_environment`, `run_task`, `run_subprocess`, `cancel_action`, `cleanup`, `extend_path_mapping_rules`, the callback, the thread `run_action` | the session has one owner and comes back whatever fails; what a poller reads is neither premature, nor stale, nor different from the session at rest |
| **Step parameter space iterator** `_step_param_space_iter.py` | a tree of nodes, a tree of iterators with their previous results, the chunk size | `__next__`, `reset_iter`, `__getitem__`, `__len__`, `validate_containment`, `chunks_default_task_count` | every task once, in row-major order; index, length, containment and iteration agree; chunks obey their size and contiguity |
| **Step dependency graph** `_step_dependency_graph.py` | nodes, edges; the stack and the sets of the search | constructor, `topo_sorted` | a stable topological order, or an error that names a circle |
| **Combination expressions** `_combination_expr.py`, `_param_space_dim_validation.py`, `_tokenstream.py` | a token stream | `parse`, `validate_step_parameter_space_dimensions` | associations have equal dimensions; every accepted tree can be iterated |
| **Range expressions** `_range_expr.py` | sorted ranges and the cumulative lengths | `from_str`, `from_list`, indexing, `in`, `str` | a range expression denotes the integers it was made of, whatever way it is asked |
| **Job parameter merge** `_merge_job_parameter.py` | none | `merge_job_parameter_definitions` | the merged definition accepts exactly what all the definitions accept |
| **Job creation** `_create_job.py`, `_internal/_create_job.py` | symbol tables | `preprocess_job_parameters`, `create_job`, `instantiate_model` | unknown, missing and ill-typed values are all reported; nested symbols do not leak |
| **Symbol table and expression cache** `_symbol_table.py`, `_format_strings/_expr_support.py` | the symbols, a version, the engine's table and the version it was built for | item access, `copy`, `union`; conversion for the engine | the engine never sees a table older than the symbols |
| **Format strings, let bindings** `_format_strings/*`, `_let_bindings.py` | parsed segments | `resolve`, `validate_symbol_refs`, `evaluate_let_bindings` | text is preserved and every interpolation is found; a binding sees those before it only |
| **Variable reference validation** `_internal/_variable_reference_validation.py` | the symbols visible in each scope | `prevalidate_model_template_variable_references` | a reference is accepted exactly if the symbol is defined where the field is resolved |
| **Template model** `v2023_09/_model.py` | immutable models | pydantic validators | relations between fields (names unique, dependencies known and without circles, end of chunks) |
| **Documents** `_parse.py`, `_types.py` | none | decode functions | the right revision and extensions are chosen |
| **Model, expression bindings** `rust-bindings/src/{model,expr}` | wrappers; one iterator | getters, conversions | values survive the conversion |

How they interact: `_parse` builds the template model, whose validators call
the variable reference validation, the combination expression parser, the
dimension rules and the dependency check. `create_job` merges parameters, fills
a symbol table and resolves format strings into a job. A scheduler gives the
job's steps to `StepDependencyGraph` and `StepParameterSpaceIterator`, and a
worker runs the tasks in a `Session`. The Python and the Rust halves meet in
the symbol table (converted and cached for the engine) and in the classes of
the `_v1` packages.

The behaviours that are hard, and hard to test (all listed with their lines in
`PROJECT.json`, "hazards"):

* *interleavings in the session*: the slot, the snapshot and the cancel handle
  are three shared objects; the order of their updates decides what a poller
  sees at the start, at the end and at the failure of an action;
* *failures in an action's thread*: no runtime, no thread, a panic, a rejected
  call; in each the session has to come back and say so;
* *call sequences of the iterator*: `next`, `reset_iter` and changes of the
  chunk size in any order, over operators that keep their previous result;
* *numeric edges*: chunk sizes, mixed-radix indexes, merging of ranges;
* *rules that are written twice*: a definition, a host requirement or a
  parameter space is checked by one class when the template is decoded, with
  expressions not yet known, and by another when the job is created;
* *names that are seen from two sides*: prevalidation decides from metadata of
  the model classes which names a field may use, and three other pieces of code
  put these names into symbol tables;
* *a cache under a version*: evaluations in several threads share what the
  engine built, while a caller changes the table;
* *the search of the graph*: its stack holds nodes that were pushed twice, and
  a circle has to be told from a diamond.

## 2. The modules and the code

### Session, ActionPromise, SessionProofs

`Session.tla` models every Python-facing method of `PySession` and
`run_action`. `slot`, `guard` and `session` are `Arc<Mutex<Option<Session>>>`:
whether the Option is Some, who holds the lock for more than a step, and the
value. `snapshot` is `StateSnapshot` (state, status, environments; its other
fields never change). `caller` is where the Python side is inside a method,
`thread[t]` where the thread of the t-th dispatch is.

A method is cut into steps exactly where another thread can get in between: the
methods that dispatch take the session out (`Take`), drop the mutex, then
reset the snapshot and spawn (`Dispatch`); `cancel_action` looks into the slot
(`CancelInSlot`, `CancelFindsEmpty`), delivers through the handle
(`CancelDeliver`), then marks the snapshot (`CancelMark`). A thread runs the
action (`Start`, `Report`, `Finish`, `Reject`, `Panic`), puts the session back
and keeps the guard (`Restore`), refreshes the snapshot (`Refresh`, or
`ForceFailed` after a panic); without a runtime it forces the snapshot first
and restores second (`BuildFails`, `RestoreUnbuilt`). The extension never
releases the GIL, so Python threads cannot interleave within a method and are
one actor; action threads take no GIL.

The `Session` value belongs to another crate. It is modelled from its use here:
it accepts a call or rejects it, sets Running and a status when it starts, a
final status and Ready or ReadyEnding when it ends, Canceling when cancelled
directly, Ended on cleanup.

`ActionPromise.tla` is the abstract specification: actions one at a time, each
going from no outcome over Running to one final outcome, and the session
available again after that. `Session` implements it under the mapping at the
end of the module. The mapping stands for what a caller can act upon: a status
between the moment a call took the session and the moment the snapshot says so
is not attributed to the new action.

### StepParamSpaceIter, MCStepParamSpaceIter

Trees, iterators and results are records and functions; the operators carry
the names of the methods. `next` returns the result and the new state of the
iterators, and keeps `prev` in products as `_prev_result` is kept. `reset_iter`,
`length`, `getitem` and `contains` are the methods of the nodes,
`create_expr_tree` is `_create_expr_tree`, which cuts statically chunked
parameters into chunks and moves an adaptively chunked one to the end of its
product. A caller takes the steps: it asks for the next result, resets, or
changes the chunk size. It may go on asking after StopIteration, because nothing
in `__next__` keeps it from that; `yielded` is what one pass hands out, from the
first call or a reset to StopIteration, and `late` the last result that came
after it.

The value of a chunked parameter is the set of integers its text denotes;
containment takes texts as sequences of pieces (`v` or `a-b`), because the
code looks at the text with a regular expression. `Elements` is the reference:
the row-major sequence of a tree, without iterators.

### StepDependencyGraph, StablePlacement, StepDependencyGraphProofs

`deps` is the in-edges, `root` the position of the outer loop; the other
variables are the locals of `topo_sorted`. One action per branch of its
loop: `PushRoot`, `Pop`, `Complete`, `Expand`, `FindCycle`. `StablePlacement.tla`
states what the docstring and `test_topo_sort_dep_order` demand, with no stack in
it: the first step of the template that is not placed has its turn; from it, go
to the first step in the template that it still waits for, and on from there; the
step that waits for none is placed. So there is one step that may be placed, and
template order holds among the dependencies of a step as it does among the
steps. Failing is allowed only if the step whose turn it is needs a circle.

### MergeJobParameter, JobParameters, MCJobParameters, MergeJobParameterProofs, JobParametersProofs

`MergeJobParameter.tla` is `merge_job_parameter_definitions_for_one`: `at` is the
loop it is in, `i` the position of that loop, the other variables are its
locals. Each turn of a loop is a step (`Intersect`, `Tighten`); the checks before
and between the loops are the others. The string and the number variant of the
second loop are the same code over lengths and over values, so a value has a
`size` and one action stands for both. The types of the EXPR extension are one
type, LIST, since the code treats them alike: the last definition with the last
default (`TakeLast`).

`JobParameters.tla` extends it to what becomes of the parameters of a job. A
sequence of templates is a sequence of definitions with their names; they are
first collected under their names, one at a time (`Collect`, which fills
`sources`, the code's `collected_definitions`), then merged name by name, with
the conflicts collected and an error of another class let through (`Merged`,
`Conflict`, `Invalid`). A client then calls `preprocess_job_parameters` with its values, directories and
settings, and `create_job` gets the result and calls it again with no
directories. Of a path it matters which kind it is (relative, leading out of
its directory, absolute, a URI), how long it is, and whether pathlib writes it
in the same way. A call is one step, and `reported` has the names under each
reason of its ValueError: not defined, raised while collecting, not meeting
the constraints, missing.

### SymbolTableCache, RegularTable, MCSymbolTableCache, SymbolTableCacheProofs

`now` is what a `SymbolTable` holds: its symbols, `expr_types` and
`expr_host_rules`; `version` is `_version` and `cache` is `_expr_eval_cache`. One
thread changes the table. A change lands first and bumps the version in a step
of its own (`SetSymbol`, `ChangeTypes`, `AssignTypes`, `AssignRules`, then `Bump`):
this is the order of `_VersionedDict` and of the setters. The other threads
evaluate. Each is somewhere in `symtab_to_expr_values` (`Begin`, `Check`,
`ReadVersion`) and then in `profile_for_symtab` (`BeginProfile`): which mapping it
holds, the version it read, whether the cache has an entry under that version
(`Hit`, `Miss`), what it has read of the table (`Read`, part by part, or `Fail`), and
the entry it makes (`Store`).

`RegularTable.tla` is a table without a cache: an evaluation uses, of each part,
a value that the part had at some time during the evaluation. `SymbolTableCache`
implements it (`ReadsRegular`), so a cached value is never older than the
evaluation that uses it.

### RangeExpr, MCRangeExpr, RangeExprProofs

The parser of `_range_expr.py` is a machine that asks for one token at a time;
the text is chosen as it asks. `want`, `negative` and `nums` are where it is in
`_integer` and `_range`, `ExtendRun` and `EndList` are the loop of `from_list`,
`Join` is a turn of the constructor's loop over sorted ranges, `Validate` its last
check. `Reparse` hands the text of the result (`__str__`) to the parser again,
as a worker does with a chunk. The reference is the grammar over whole texts and
the sets of integers it denotes.

### CombinationExpr, MCCombinationExpr

The recursive descent parser as a stack with one frame per `_expression` in
progress, over tokens chosen as it asks for them. `Decode` is
`_validate_combination`, in which the parameters' names are compared; `CreateJob` is
`validate_step_parameter_space_dimensions` with the lengths that are known by
then. The module composes with `StepParamSpaceIter` through
`Iterator(space) == INSTANCE StepParamSpaceIter WITH ...`: `JobIterates` builds the
iterator's tree from an accepted expression and goes through it.

### ParameterDefinition, MCParameterDefinition, ParameterDefinitionProofs

A job parameter definition of each of the twelve types, from the document to two
jobs. Pydantic's order is kept: fields in the order in which the class declares
them, each validator seeing those that passed (`ValidateField`), then the model
validators (`ValidateModel`). `Submit` collects a value or the default and coerces
it, `Check` is `_check_constraints`, `CreateJob` makes the `JobParameter` and seeds
the symbols, `Resubmit` gives the value of the first job to a second. A Python
object is how it is written and what it is: the int 1, the text `1`, the text
`yes` and a JSON list are told apart because the code treats them differently.

### HostRequirements, MCHostRequirements, HostRequirementsProofs

The template classes (`Decode`, `Decoded`) and the job classes (`Instantiate`,
`InstantiateField`, `Instantiated`) of amounts and attributes, with the errors each
collects before it is refused. A text is a word of which only what the code looks
at is known: its lower-case spelling, how it reads as a capability name, whether
it is a number (`Facts`). Names are compared for duplicates in lower case, a name
with an expression by its raw text: `Lowered` says which expressions that makes
one. A list of values has at most `MaxItems` entries (the code's 50). `todo` is what is left of the agenda of a check: the
entries of each field, then the field as a whole (the item "whole"), where
duplicates are looked for. `env` gives each parameter a word when a job is
created; a template makes jobs again and again.

### VariableReferences, MCVariableReferences

A job template and an environment template of a fixed shape, into which an
author writes references (`WriteReference`) and `let` bindings (`WriteLet`), wherever
a model class has a format string or a binding list. `Meta` has, for each class,
the metadata that prevalidation walks along: scope, symbol prefixes, definitions,
injections, sources. `Decode` is that walk (`Collect`, `Validate`, `LetErrors`,
`CheckFormatString`). `CreateJob` is the other side: the job's table, what
`ExtendStepSymtab` adds per step, `EvaluateLetBindings`. `RunSession` resolves the
rest against the tables that `create_job_with_symbol_tables` publishes; what a
session adds to them (`InSession`, `Forwarded`, the files of a script) is external
and is taken from what the comments of the code say of it.

## 3. The runs

| run | asks | result |
|---|---|---|
| `session_core` | Is what a poller sees ever premature, stale or unfaithful, when nothing fails? Does the session keep its promise? | holds |
| `session_faults` | With all five faults: does the session have one owner, and does it come back? | holds |
| `step_param_space_iter` | From a reset to StopIteration: every task once, in order, by index and by containment, in chunks that fit, whatever the caller did before? What does a call after StopIteration hand out? | holds |
| `step_dependency_graph` | Does topo_sorted place the steps in the one order of StablePlacement on every graph, and end? | holds |
| `job_parameters` | Does a merge accept what all definitions accept, and report no conflict that is none? Does a value that is returned meet every template's definition? Does create_job take what a client prepared, and leave it alone? | holds |
| `symbol_table_cache` | Is what is cached what would be built now? Does the cached table implement one without a cache? | holds |
| `range_expr` | Does the parser take exactly the grammar? Do text, length, index, iteration and containment speak of one set? | holds |
| `combination_expr` | Does the parser take exactly the grammar? Can every space that is accepted be iterated to its end? | holds |
| `combination_names` | Does an accepted combination use the parameters that are defined? | violated, see 6 |
| `parameter_definition` | Does create_job accept what the decoder accepts as default or allowed? Is a job made again the same? Are value and symbols as declared? | holds |
| `host_requirements` | Does the job check late what the template is checked for early? Can the result be met? Does every entry get its answer? | holds |
| `variable_references` | Does what prevalidation accepts resolve at creation and in a session? Would what it refuses not have? | holds |

**Bounds.** *Session*: three actions, so that a thread of one can interleave
with the dispatch of the next and a status two actions old can be told from a
status one action old; two environments, so that entering and leaving nest; one
in `session_faults`, where only ownership is asked. *Iterator*: sixteen trees with
at most three levels of operators (two of them with an association over
products, once below a product, which is what a call after StopIteration can
bring out of step), ranges with gaps, out of order and of one to
eight values, the chunked parameter in every position; chunk sizes 1, 2, 3, 5
cover one, a divisor, a non-divisor and more than a run; two changes of the chunk
size let one grow and shrink in a pass. The number of results is bounded by the
space. *Graph*: all 65536 relations over four steps, self-loops and circles
included. Four is the least number in which a diamond has a tail.
*Parameters*: parameter p has every sequence of one or two definitions of a
type, and for INT of three, the least number in which an intersection can
become empty and begin anew; limits -1 to 3 have 0 inside and let any two
definitions be disjoint, touch or overlap; a second parameter q shows what an
error over one does to the other. There is a path of each kind, a directory adds
two characters, so that a path may be short enough before joining and too
long after it, and all values of the other arguments are tried.
*Cache*: two evaluating threads, two symbols and two changes (`MaxVersion`): an
entry can be stored under a version that was superseded while it was built, and
the other thread can look for it before and after. `Serial` excludes one window
that the code has (see 6).
*Ranges*: texts of up to eleven tokens, enough for two elements with a step
each or for three of two kinds, over the numbers 0, 1, 2 and 4, and every set of
integers from -2 to 8: with them ranges meet, touch, overlap, nest and lie apart in both
directions. *Combinations*: nine tokens hold an association of two products, and a
product of two associations needs no more than it does in kind; up to three
parameters of lengths 1 to 3 and 6, one of them chunked, and one name that is
defined nowhere. *Definitions*: for each type the limits around 0 in either order,
lists that are empty, repeat a value or are ill-typed, and defaults that are
inside, outside, ill-typed and explicitly null, in all combinations; values in
each form a client or the command line gives them. *Host requirements*: at most
two per step, so that the limit on their number, a duplicate under another
spelling, and an error after an error occur; every word for every parameter; two
parameters whose names differ only in case; lists of no to three values with two
allowed (`MaxItems`), so that a list is empty, full and too long.
*Variable references*: up to two items, of which one is a reference: references
have no influence on one another, bindings have. EXPR without WRAP_ACTIONS allows
no more than both do. The two names for bindings are symmetric.

**Fairness.** *Session*: weak fairness of each thread's own steps of `run_action`
(an operating-system thread that can run does) and of the steps that finish a
method already called. No step of the action itself is fair: an action may
run for ever, and `SessionComesBack` says what must happen once it does not.
Waiting for the session mutex is fair because each holder of it (`guard`)
releases it by a fair step. *Graph*: weak
fairness of `Next`, one call that runs to its end. *Iterator*: none, the caller
may stop at any time. The other modules have none: their properties are safety
(`ReadsRegular` included, which promises nothing about when an evaluation ends).

**Deadlock** is checked in the runs of the session, the iterator and the cache.
In the others a call returns, or a template has been decoded, made a job and run,
and the system stops.

## 4. What is proved

| theorem | states | assumes |
|---|---|---|
| `SessionProofs!TypeCorrect` | `TypeOK` | nothing beyond the constants |
| `SessionProofs!OneOwner` | `SingleOwner` | nothing: every fault is allowed |
| `SessionProofs!ReadyMeansAvailable` | `SeenReadyMeansAvailable` | runtimes build |
| `SessionProofs!StatusIsFresh` | `NoStaleStatus` | runtimes build, no rejected call, no bad timeout |
| `SessionProofs!SnapshotIsFaithful` | `SnapshotFaithful` | runtimes build, nothing panics, no bad timeout |
| `SessionProofs!KeepsPromiseAlways` | the safety part of `KeepsPromise` | runtimes build, nothing panics, no rejected call, no bad timeout |
| `StepDependencyGraphProofs!TypeCorrect` | `TypeOK` | any number of steps |
| `StepDependencyGraphProofs!VisitsAPath` | `VisitIsPath` | any number of steps |
| `StepDependencyGraphProofs!PlacesStablyAlways` | the safety part of `PlacesStably` | any number of steps |
| `MergeJobParameterProofs!MergeTypeCorrect` | `MergeTypeOK` | sizes are integers, fields hold one value or None |
| `MergeJobParameterProofs!MergeIsExact` | `MergedIsExact` | the same; any number of definitions |
| `MergeJobParameterProofs!AgreeingIsMerged` | `AgreeingMerge` | the same; any number of definitions |
| `JobParametersProofs!ParametersTypeCorrect` | `TypeOK` | any templates, names and submissions |
| `JobParametersProofs!EveryMergeIsExact` | `MergedIsExact`, of every name | the same |
| `JobParametersProofs!NoAgreementRejected` | `AgreeingMerge`, of every name | the same |
| `JobParametersProofs!AcceptedValuesMeetEvery` | `AcceptedMeetsEvery` | the same |
| `JobParametersProofs!CreateJobTakesWhatWasReturned` | `CreateJobAgrees` | the same |
| `SymbolTableCacheProofs!TypeCorrect` | `TypeOK` | any threads, symbols, types, rules, formats, changes |
| `SymbolTableCacheProofs!KeptIsFresh` | `CacheFresh` | the same, and `Serial` (section 6) |
| `SymbolTableCacheProofs!KeptIsFreshButTypes` | `CacheFresh` but for the types | any threads, and no more |
| `SymbolTableCacheProofs!ReadsRegularly` | `ReadsRegular`, all of it | any threads, and `Serial` |
| `ParameterDefinitionProofs!OwnValuesAlwaysPass` | `OwnValuesPass` | any documents and submissions |
| `ParameterDefinitionProofs!SameJobEveryTime` | `SameJobAgain` | the same |
| `ParameterDefinitionProofs!JobValuesSuit` | `JobValueSuits` | the same |
| `ParameterDefinitionProofs!SymbolsAlwaysAsDeclared` | `SymbolsAsDeclared` | the same |
| `HostRequirementsProofs!EntriesAnswered` | `EveryEntryAnswered` | any words with any facts, documents and values |
| `HostRequirementsProofs!JobsCanBePlaced` | `JobCanBePlaced` | the same |
| `HostRequirementsProofs!ChecksLateAsEarly` | `LateAsEarly` | the same |
| `RangeExprProofs!ListIsDenoted` | `ListDenoted` | any numbers, lists and lengths of texts |
| `RangeExprProofs!TextIsDenoted` | `TextDenotes` | the same |
| `RangeExprProofs!LookupsDoAgree` | `LookupsAgree` | the same |
| `RangeExprProofs!GrammarIsParsed` | `ParsesTheGrammar` | the same |

The assumptions of the session's theorems are needed: with any one of the faults
they exclude, TLC finds the property violated, with two actions and one
environment (for `ReadyMeansAvailable` and `StatusIsFresh` the traces are those of
section 6). The assumptions on constants are what another part of the system
sees to: what a document's fields may look like once pydantic has parsed
them (`DocumentsAssumption`, twice), that a word reads as at most one number
(`FactsAssumption`), that a default is text of its type, which the decoder has
checked, and that pathlib would not leave a URI as it is written, since it joins
double slashes (`ParametersAssumption`).

*Session.* None of the properties is inductive. `SingleOwner` needs to know that
threads beyond `count` are unborn, that those before it own nothing, and that
the guard's holder is the thread that has just restored (`Bounded`, `OwnInv`).
`ReadyMeansAvailable` adds `Announced`: while the session is away the snapshot
says Running or Canceling. `StatusIsFresh` adds `Fresh`: the status inside the
`Session` is that of the latest action as soon as its thread has started it.
`SnapshotIsFaithful` adds `Faithful`: in the slot with the guard free, snapshot
and session differ at most by a late Canceling. `KeepsPromiseAlways` rests on
all of them and on `Reported`: the snapshot reports nothing of an action that has
not started, at most Running while it runs, and otherwise its outcome; so
`Report` is Progress or a stutter, `Finish` Conclude or a stutter, and `Refresh`
Conclude or Release, according to what the callback got through. A thread that
cannot be spawned does not matter to it. Each is one lemma per action.

*Graph.* `SearchInv` is `TypeOK`, `CompletedIsPlaced` (the completed nodes are
those in the result), `AwaitsDeps` (an open dependency of a node that is being
visited lies above it on the stack), `InOrder` (of the nodes pushed for it, those
earlier in the template lie higher), `SearchesRoot` (the bottom of the stack is the
root, earlier steps are placed, and the stack holds what the root needs) and
`VisitIsPath`. From it each action is a step or a stutter of `StablePlacement`. It is
the root's turn as long as the stack is not empty (`RootsTurn`). The visited nodes
are a path, and by `InOrder` each is the first of those that the one below it still
waits for; so the top of the stack, when `Complete` takes it off, is at the end of
the way from the root (`TopOnTheWay`). `FindCycle` closes the path to a circle that
the root needs.

*Merge.* `LoopInv` says what each loop knows after the definitions at a set of
positions: `AllowedSoFar`, that the values in `allowed` are those in every list
seen, if all the lists have a value in common (without that an empty
intersection begins anew, see section 6);
`LimitsSoFar`, that `lo` and `hi` bound what all the limits seen bound, from the
lemmas `GreatestOfTwo` and `LeastOfTwo`; and `InLoops`, where the loops are. At the
end the merged definition accepts what all definitions accept
(`ExactDefinition`). `AgreeingFinish` follows: a value that all accept lies in
the lists and between the limits, so no error is there, and the merged
definition passes its own validation. The theorems are about `MergeSpec`, the
merge of any one parameter.

*Parameters of a job.* `JobParameters` takes each step of that merge inside a
longer program, so the lemmas about steps serve again, under `Merging`, and
`Restart` is where they begin anew. What the merge of one name came to is kept
as `Sums`: a merged definition has a default of its sources, and is no wider
than any of them. `Sourced` says that each name's sources are the definitions
that the templates have under it, no more and no less; `Aligned`, that with no
conflict the k-th definition sums up the sources of the k-th name, so that
`definitions` may be read by position; `Called`, that report and values are those
of the last call. `AcceptedMeetsEvery` joins them: a value without a report meets
the merged definition, that sums up the sources, and these are all the
templates say. `CreateJobAgrees` is `SecondCall`: every value that a call returns is a fixed
point of the second call's resolution, except an untidy relative default that was
kept as written (`KeptUntidy`). A submitted value is a URI, absolute, empty or made
tidy by the first call (`MadeTidy`); and what is kept is kept again (`KeptStays`).

*Cache.* The invariant has to speak of entries yet to be made: `EntriesKnown`
says that an entry under the present version has parts that may be read now,
`SharingKnown` that a thread which will store something under it has collected
such parts only, and `FindsSeen` that a thread which holds a version finds
under it, now or after another thread has stored, nothing that it could not
have met itself. `ArgumentsTell` is the window of `Serial`: whether the argument
is empty tells whether the table has types. Under `Serial` every action is a step
of `RegularTable` (`StepRefines`); without it the proof goes through for symbols
and rules.

*Definitions.* The rules for a definition's own values and those for a job's
values are two pieces of code for each type. `DataInv` says what the validators
have established of the fields that have passed, type by type, from which
`Checks` of the default and of each listed value follows (`DefaultPasses`,
`ListedPasses`); `ValueInv` says what the value has been through; `JobsInv`, that
it stays what it is when it is coerced again.

*Host requirements.* Entry by entry, the rules for templates and for jobs agree
once the words of the parameters are written in (`AmountAgrees`,
`AttributeAgrees`). `Typed` says that `todo` is the rest of the agenda, `Accepted`
and `Answered` that every entry which is done has been asked and that its
answer is kept, `Placed` that entries are in the job in their places while none
has failed, `Compared` that duplicates are found last.

*Ranges.* Two invariants carry the four theorems. `RangesInv` follows the values.
`Combining` says of the constructor's loop that the combined ranges have the
values of those taken, that none with a lower start is left for later,
and that an overlap is there exactly if two of those taken are not clear of each
other; `Running` says of the
loop of `from_list` that ranges, run and rest together are the list, one after
the other. For the way back, `Script` writes the text of an expression as
elements with what follows each of them, and `Rereading` says at which place in
it the parser is: so it can neither fail nor read another range. That `Script`
is the text is an argument over the recursive function behind `__str__`.
`LookupsAgree` follows because a finished expression ascends: its ranges share no value, the sums of
their lengths grow strictly, so the bisection finds the range in which an index
lies (`Positions`, `Bisected`), and the number of items is the number of values.
`GrammarInv` follows the text. `Grammatical` cuts what was read at its commas: a
range for each element before the last one (`Matched`), the last one read in
part (`Halfway`), or an element that no reading makes sense of (`Hopeless`), and
an element that is cut short may still become one, but one that went astray
never does. An element has at most one reading (`OneReading`), so accepting
it, refusing it and what it means are all determined. Induction over a
recursive function is an argument by the least counterexample throughout
(`LeastNumber`).

Only model-checked: liveness (`SessionComesBack`, the end of `topo_sorted`, the
fairness of `ActionPromise`), since ENABLED is out of the prover's reach; the
properties of the iterator (`ChunksFit` included), of `CombinationExpr` and of
`VariableReferences`, whose operators are recursive over trees, which the prover
cannot use.

## 5. Plan

In this order, each with its runs and theorems:

1. The parser of **CombinationExpr** with its stack, if its trees can be written
   without recursive operators.
2. The **types of symbols** in VariableReferences, which templates with EXPR are
   checked against, and host functions in format strings that are nested.
3. **Format strings**: the scanner against the set of interpolations of a text.
4. The validators of the template model that relate steps, environments and
   extensions by name, and the decode functions: which revision and which
   extensions a document is read with.
5. The iterator of `step_param_space.rs`.

## 6. Findings

With a run (`combination_names`):

* **Names in a combination are not compared** (`v2023_09/_model.py:1883`,
  `1913-1915`). The validator looks for missing and unknown names only if their
  number differs from that of the parameters; its set of duplicates is always
  empty. With parameters A and B, `A * X` is accepted, and `create_job` raises a
  KeyError (`_param_space_dim_validation.py:65`).

What else the models showed. Each is an exception that a property names, or a
state that an assumption of the model excludes:

* **A late cancel overwrites the outcome** (`session.rs:684-689`). The handle
  path of `cancel_action` delivers and then writes Canceling without the session
  mutex; the action may end and refresh the snapshot in between. The snapshot
  says Canceling until the next call. `SnapshotFaithful` shows this is the only
  difference a cancel can leave.
* **Ready before available** (`session.rs:196-203`). When the runtime does not
  build, the snapshot is written before the session is restored, the order that
  the comment at 214-219 rules out.
* **An old status returns** (`session.rs:676`, `702`). The FAILED of a runtime
  that did not build is in the snapshot only; `cancel_action` or `cleanup` copies
  the session's own older status over it.
* **A chunk that starts like an interval** (`_step_param_space_iter.py:831`, `1001`).
  `INTERVAL_RE.match` is anchored at the start only, so `1-2,5` passes for an
  interval.
* **StopIteration is not final** (`_step_param_space_iter.py:214-217`, `639-643`).
  When a product ends it has already reset its right factors and taken their first
  values. Asked again without `reset_iter`, as a second `for` loop over the same
  iterator does (`__iter__` returns self, 211), it hands out tasks once more. If the
  product is below an association, as in `(A * B, D) * H`, the association is out of
  step by then, and what is handed out need not be in the space. `ExactlyOnce`
  therefore speaks of a pass, and its part `AfterTheEnd` says that this happens to
  trees with a product only, and leaving the space only to such associations.
  A reset puts everything right.
* **The circle in the message** (`_step_dependency_graph.py:179-185`). The message
  lists every started node of the stack, including a second copy of one that
  was pushed twice, and then shows steps that do not depend on each other.
* **A limit of 0 is no limit** (`v2023_09/_model.py:2820`, `2824`, `3040`, `3044`).
  `_check_constraints` of INT and FLOAT parameters tests the truth of the limit, so
  minValue 0 accepts -1. `AcceptedMeetsEvery` shows that this is all that gets
  through, with the next finding; `JobValueSuits` says the same of one definition.
* **An empty intersection begins anew** (`_merge_job_parameter.py:299`). Allowed
  values {1}, {2}, {1} merge to {1} without an error. `MergedIsExact` shows that
  the merge is exact when the lists have a value in common.
* **A types mapping that changes its truth** (`_expr_support.py:94`). Whether an
  evaluation takes the table's own types is decided by whether `expr_types` is
  empty, one statement before the version is read. If the mapping gets its first
  entry, loses its last or is replaced in between, a value for the other types is
  stored under the current version, which the docstring at `_symbol_table.py:18-25`
  means to exclude. It takes a second thread; `Serial` leaves the window out.
* **A step's `let` that calls a host function** (`_variable_reference_validation.py:565-581`,
  `697-709`). Only format strings are checked for host functions, so a binding that
  calls `apply_path_mapping` at step level passes decode, and `create_job` always
  refuses it: the exception in `AcceptedCreates`.
* **Two readings of EXPR** (`_create_job.py:548`, `v2023_09/_model.py:4627-4630`). An
  environment template that declares EXPR may use `Job.Name`, which `create_job`
  provides only if the job template declares EXPR. The model gives both templates
  the same extensions.
* **The text `0` as an upper limit** of an amount passes decode (`v2023_09/_model.py:3245`)
  and is refused at creation (3159): the exception in `LateAsEarly`. The text
  `nan` as a lower limit raises decimal.InvalidOperation in decode; an explicit
  null satisfies "at least one of min and max" (3267-3272, 3421-3426); a name that
  is a format string is limited to 100 characters before it is resolved, which
  the comment at 3073-3076 says it is not.
* **Expressions that differ in case** (`v2023_09/_model.py:3475`, `3486`). Duplicate names
  of host requirements are looked for in lower case, and that of an expression is
  its raw text: `attr.{{Param.P}}` and `attr.{{Param.p}}`, two parameters, are taken
  for one name and refused.
* **Exceptions of another class**: the value `nan` for a FLOAT with limits raises
  decimal.InvalidOperation in `_check_constraints` (`v2023_09/_model.py:3040`); a default
  that is explicitly null, next to limits, raises TypeError at decode (2241, 2761);
  a range `3-1` without a step raises a plain ValueError (`_range_expr.py:387`).
* **Rules that are not there**: minLength and maxLength of lists are not compared,
  those of RANGE_EXPR are never looked at (4216-4265); `singleStepDelta` and
  `fileFilters` are not looked at if the control is left to its default; a BOOL
  that is given as the int 1 stays an int, against the comment at 2088-2091;
  the docstring of the combination grammar (`_combination_expr.py:132`) allows
  an association of one, the parser does not (232-235).

Two more things no line of the repository rules out: a default of an earlier
template that a later one forbids ends the merge with a DecodeValidationError
instead of a conflict under the parameter's name; and a default that is untidy
(`a/`) and not joined to a directory is taken for a submitted value by
`create_job` and rewritten to `a`, which fails if only `a/` is in allowedValues.
This is the one exception in `CreateJobAgrees` (`KeptUntidy`); a URI counts as such a
default only without EXPR, when the code knows no URIs.

## 7. Not modelled, and why

The `openjd_*` crates behind the bindings are not in this repository; the
session is modelled from its use, and wrappers that only convert are left out.
What a Python session (the package openjd-sessions) adds to the symbol tables is
external too. So are pickling, text representations, error wording and the stub
generator. Values outside integers, names and kinds of paths (decimals, texts)
are data no property tells apart, except where a text changes what the code
does: `nan`, digits, the spellings of booleans, JSON.

Not yet modelled: the types of symbols in prevalidation; the scanner of format
strings; the choice of revision and extensions in `_parse.py`; the validators that
relate steps, environments and extensions by name.
`_validate_wrapped_variable_scope` (770-808) refuses only what prevalidation has
refused already, and is left out.

The logging bridge forwards records to Python and needs the GIL; what it does
under the session mutex is not visible here (a hazard without a property).
`cleanup` silently does nothing while the session is away (`session.rs:700`); whether
that is right depends on what callers expect, which nothing here states.
