-------------------------- MODULE StablePlacement --------------------------
(***************************************************************************)
(* What StepDependencyGraph.topo_sorted promises.  Its docstring: "Each    *)
(* Step, in order of appearance in the template, is placed as early as it  *)
(* can be without being earlier than a dependency or earlier than an       *)
(* already placed Step."  Its test (test_topo_sort_dep_order): what a step *)
(* still waits for is placed right before it, in the template's order too. *)
(* A step is its index in the template.                                    *)
(***************************************************************************)
EXTENDS Integers, Sequences, FiniteSets

CONSTANT N                \* the number of steps

VARIABLES deps,           \* what each step depends on
          placed,         \* the steps placed so far, in order
          failed          \* a circular dependency was reported

vars == <<deps, placed, failed>>

Steps == 1 .. N
Placed == {placed[i] : i \in 1 .. Len(placed)}

Waits(s) == deps[s] \ Placed

\* It is step k's turn: those before it in the template are placed.
Turn(k) == k \in Steps \ Placed /\ \A j \in 1 .. k - 1 : j \in Placed

\* With every step, D has what the step depends on.
Closed(D) == \A s \in D : deps[s] \subseteq D

\* Step s is needed by step k: it is in every closed set that has k.
NeededBy(s, k) == \A D \in SUBSET Steps : k \in D /\ Closed(D) => s \in D

\* With every step, D has the first of those that the step still waits for.
Follows(D) ==
    \A s \in D : \A d \in Waits(s) : (\A o \in Waits(s) : d <= o) => d \in D

\* Step s is on the way from step k along the first that each still waits for.
OnTheWay(s, k) == \A D \in SUBSET Steps : k \in D /\ Follows(D) => s \in D

\* In a nonempty set of steps that k needs each depends on one of the set.
Cyclic(k) ==
    \E C \in SUBSET Steps :
        C # {} /\ \A s \in C : deps[s] \cap C # {} /\ NeededBy(s, k)

Init ==
    /\ deps \in [Steps -> SUBSET Steps]
    /\ placed = <<>>
    /\ failed = FALSE

\* The step placed is the one at the end of the way from the step whose turn
\* it is: all it depends on is placed.  There is at most one.
Place(s) ==
    /\ ~failed
    /\ s \notin Placed /\ Waits(s) = {}
    /\ \E k \in Steps : Turn(k) /\ OnTheWay(s, k)
    /\ placed' = Append(placed, s)
    /\ UNCHANGED <<deps, failed>>

\* The step whose turn it is needs steps that depend on each other.
Fail ==
    /\ ~failed
    /\ \E k \in Steps : Turn(k) /\ Cyclic(k)
    /\ failed' = TRUE
    /\ UNCHANGED <<deps, placed>>

Next == (\E s \in Steps : Place(s)) \/ Fail

Spec == Init /\ [][Next]_vars /\ WF_vars(Next)
=============================================================================
