------------------------ MODULE MCVariableReferences ------------------------
(* A small instance of VariableReferences: two interchangeable names for    *)
(* bindings, whose expressions are constant or refer to one symbol of each  *)
(* scope, to a file, to a function of the host or to each other.            *)
EXTENDS VariableReferences

CONSTANTS x, y

MCDeclarations == {{}, {"WRAP_ACTIONS"}, {"EXPR", "WRAP_ACTIONS"}}
MCLetNames == {x, y}
MCBoundRefs == {Param("Path"), StepName, Session, TaskParam("T"),
                <<"Task", "File", "F">>, HostFunction, <<x>>, <<y>>}
Interchangeable == Permutations({x, y})

=============================================================================
