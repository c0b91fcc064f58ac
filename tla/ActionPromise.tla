--------------------------- MODULE ActionPromise ---------------------------
(***************************************************************************)
(* What the bindings' Session promises to a program that polls it: actions *)
(* run one at a time, the status of an action only ever advances from      *)
(* nothing to running to one final outcome, no outcome of an earlier       *)
(* action is seen again, and a session whose action has announced its      *)
(* outcome becomes available.                                              *)
(***************************************************************************)
EXTENDS Naturals

VARIABLES number,   \* actions begun so far
          phase,    \* "available" or "busy"
          outcome   \* what the latest action has reported

Outcomes == {"Success", "Failed", "Canceled", "Timeout"}
vars == <<number, phase, outcome>>

Init == number = 0 /\ phase = "available" /\ outcome = "None"

Begin ==
    /\ phase = "available"
    /\ phase' = "busy"
    /\ number' = number + 1
    /\ outcome' = "None"

Progress ==
    /\ phase = "busy" /\ outcome = "None"
    /\ outcome' = "Running"
    /\ UNCHANGED <<number, phase>>

Conclude ==
    /\ phase = "busy" /\ outcome \in {"None", "Running"}
    /\ outcome' \in Outcomes
    /\ phase' \in {"busy", "available"}
    /\ UNCHANGED number

Release ==
    /\ phase = "busy" /\ outcome \in Outcomes
    /\ phase' = "available"
    /\ UNCHANGED <<number, outcome>>

Next == Begin \/ Progress \/ Conclude \/ Release

Spec == Init /\ [][Next]_vars /\ WF_vars(Release)
============================================================================
