------------------------ MODULE StepDependencyGraph ------------------------
(***************************************************************************)
(* StepDependencyGraph.topo_sorted (openjd/model/_step_dependency_graph.py) *)
(* over any graph, those that template validation rejects included: "if    *)
(* the model object was assembled by hand, this could happen".  A step is  *)
(* its index in the template; deps holds the in-edges the constructor made. *)
(***************************************************************************)
EXTENDS Integers, Sequences, FiniteSets

CONSTANT N            \* the number of steps

ASSUME StepsAssumption == N \in Nat

Steps == 1 .. N

VARIABLES
    deps,             \* in_edges: the steps that each step depends on
    root,             \* the steps that the outer loop has pushed
    node_stack,
    started,          \* started_names
    completed,        \* completed_names
    result,
    error             \* the ValueError that was raised

vars == <<deps, root, node_stack, started, completed, result, error>>

\* The message of the ValueError: the positions of the stack whose nodes it
\* shows, and the dependency that it ends with.
NoError == [shown |-> {}, dep |-> 0]

top == node_stack[Len(node_stack)]
Raised == error.dep # 0

Init ==
    /\ deps \in [Steps -> SUBSET Steps]
    /\ root = 0
    /\ node_stack = <<>>
    /\ started = {}
    /\ completed = {}
    /\ result = <<>>
    /\ error = NoError

\* mutant: sorted without reverse=True, so that the last is processed first
InTemplateOrder(S) ==
    {s \in [1 .. Cardinality(S) -> S] :
       /\ {s[i] : i \in 1 .. Cardinality(S)} = S
       /\ \A i \in 1 .. Cardinality(S) : \A j \in 1 .. i - 1 : s[j] < s[i]}

\* Every way to write S in the reverse of the template's order: there is one.
Reversed(S) ==
    {s \in [1 .. Cardinality(S) -> S] :
       /\ {s[i] : i \in 1 .. Cardinality(S)} = S
       /\ \A i \in 1 .. Cardinality(S) : \A j \in 1 .. i - 1 : s[i] < s[j]}

PushRootTooFar ==     \* mutant: one step too many
    /\ ~Raised /\ node_stack = <<>> /\ root <= N
    /\ root' = root + 1
    /\ node_stack' = <<root'>>
    /\ UNCHANGED <<deps, started, completed, result, error>>

\* The next step of the template, when the stack is empty.
PushRoot ==
    /\ ~Raised /\ node_stack = <<>> /\ root < N
    /\ root' = root + 1
    /\ node_stack' = <<root'>>
    /\ UNCHANGED <<deps, started, completed, result, error>>

\* The node was already completed.
Pop ==
    /\ ~Raised /\ node_stack # <<>> /\ top \in completed
    /\ node_stack' = SubSeq(node_stack, 1, Len(node_stack) - 1)
    /\ UNCHANGED <<deps, root, started, completed, result, error>>

\* The node is now complete.
Complete ==
    /\ ~Raised /\ node_stack # <<>> /\ top \in started \ completed
    /\ result' = Append(result, top)
    /\ completed' = completed \cup {top}
    /\ UNCHANGED <<deps, root, node_stack, started, error>>

\* The dependencies of the node that are not completed.
Todo == deps[top] \ completed

ExpandUnchecked ==     \* mutant: a started dependency is not an error
    /\ ~Raised /\ node_stack # <<>> /\ top \notin started \cup completed
    /\ started' = started \cup {top}
    /\ \E names \in Reversed(Todo) : node_stack' = node_stack \o names
    /\ UNCHANGED <<deps, root, completed, result, error>>

\* The node is ready to start and its dependencies go on top of it.
Expand ==
    /\ ~Raised /\ node_stack # <<>> /\ top \notin started \cup completed
    /\ started' = started \cup {top}
    /\ Todo \cap started' = {}
    /\ \E names \in Reversed(Todo) : node_stack' = node_stack \o names
    /\ UNCHANGED <<deps, root, completed, result, error>>

\* ... or one of them was started but not completed, and the search fails.
\* The last one in the template's order is met first; the message shows the
\* started nodes of the stack, and that dependency again.
FindCycle ==
    /\ ~Raised /\ node_stack # <<>> /\ top \notin started \cup completed
    /\ started' = started \cup {top}
    /\ \E dep \in Todo \cap started' :
         /\ \A other \in Todo \cap started' : other <= dep
         /\ error' = [shown |-> {i \in 1 .. Len(node_stack) :
                                   node_stack[i] \in started'},
                      dep   |-> dep]
    /\ UNCHANGED <<deps, root, node_stack, completed, result>>

Next == PushRoot \/ Pop \/ Complete \/ Expand \/ FindCycle

\* One call that runs to its end.
Spec == Init /\ [][Next]_vars /\ WF_vars(Next)

----------------------------------------------------------------------------
TypeOK ==
    /\ deps \in [Steps -> SUBSET Steps]
    /\ root \in 0 .. N
    /\ node_stack \in Seq(Steps)
    /\ started \in SUBSET Steps /\ completed \in SUBSET Steps
    /\ result \in Seq(Steps)
    /\ error \in [shown : SUBSET Nat, dep : Steps \cup {0}]

\* topo_sorted places the steps in the one order that its docstring and its
\* tests promise: the steps of the template in turn, before each what it still
\* waits for, and that in the template's order too.  It always ends, and reports
\* a circular dependency only where the step whose turn it is needs one
\* (lines 122-189).
Placement == INSTANCE StablePlacement WITH placed <- result, failed <- Raised
PlacesStably == Placement!Spec

\* The nodes that are being visited form a path of dependencies: whatever lies
\* on the stack is a dependency of the closest node being visited below it
\* (what the cycle check at lines 173-186 relies on).
Visiting == started \ completed
LastAt(s, i) ==
    /\ node_stack[i] = s
    /\ \A j \in i + 1 .. Len(node_stack) : node_stack[j] # s
\* Position i is where the node there is being visited.
Open(i) == LastAt(node_stack[i], i) /\ node_stack[i] \in Visiting
VisitIsPath ==
    ~Raised =>
      \A i \in 2 .. Len(node_stack) :
        \E j \in 1 .. i - 1 :
          /\ Open(j) /\ \A k \in j + 1 .. i - 1 : ~Open(k)
          /\ node_stack[i] \in deps[node_stack[j]]

=============================================================================
