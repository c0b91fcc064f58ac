---------------------------- MODULE RegularTable ----------------------------
(***************************************************************************)
(* What a symbol table promises to the evaluations that read it, with no   *)
(* cache: every part of what an evaluation used is a value the part had,   *)
(* or was just being given, at some moment of the evaluation.  Each part   *)
(* is a regular register in Lamport's sense.                               *)
(***************************************************************************)
CONSTANTS Threads, Parts, Stored, Vals

VARIABLES
    may,      \* the values that a read of a part may return now
    seen,     \* ... or could since the thread's evaluation began; {} while idle
    returned  \* the thread whose evaluation has just ended, and what it used

vars == <<may, seen, returned>>

Idle == [p \in Parts |-> {}]

Init ==
    /\ may = [p \in Stored |-> may[p]]
    /\ \A p \in Stored : \E v \in Vals : may[p] = {v}
    /\ seen = [t \in Threads |-> Idle]
    /\ returned = {}

\* A part gets a value, at first besides the old one.  The evaluations that
\* take the part from the table may meet it.
Change ==
    \E p \in Stored :
      \E v \in Vals :
        /\ may' = [may EXCEPT ![p] = @ \cup {v}]
        /\ seen' = [t \in Threads |-> seen'[t]]
        /\ \A t \in Threads :
             seen'[t] \in {seen[t], [seen[t] EXCEPT ![p] = @ \cup {v}]}
        /\ returned' = {}

Settle ==
    /\ may' = [p \in Stored |-> may'[p]]
    /\ \A p \in Stored : \E v \in may[p] : may'[p] = {v}
    /\ returned' = {}
    /\ UNCHANGED seen

\* The caller may choose some parts itself, and have no use for others.
Begin(t) ==
    /\ seen[t] = Idle
    /\ seen' = [seen EXCEPT ![t] = [p \in Parts |-> seen'[t][p]]]
    /\ \A p \in Parts :
         \/ p \in Stored /\ seen'[t][p] = may[p]
         \/ \E v \in Vals : seen'[t][p] = {v}
         \/ seen'[t][p] = {}
    /\ returned' = {}
    /\ UNCHANGED may

Return(t) ==
    /\ \E e \in returned' :
         /\ returned' = {e} /\ e[1] = t
         /\ \A p \in DOMAIN e[2] : e[2][p] \in seen[t][p]
    /\ seen' = [seen EXCEPT ![t] = Idle]
    /\ UNCHANGED may

Fail(t) ==
    /\ seen' = [seen EXCEPT ![t] = Idle]
    /\ returned' = {}
    /\ UNCHANGED may

\* A step inside an evaluation.
GoOn == returned' = {} /\ UNCHANGED <<may, seen>>

Next == GoOn \/ Change \/ Settle \/ \E t \in Threads : Begin(t) \/ Return(t) \/ Fail(t)

Spec == Init /\ [][Next]_vars
=============================================================================
