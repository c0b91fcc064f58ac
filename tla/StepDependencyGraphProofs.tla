--------------------- MODULE StepDependencyGraphProofs ---------------------
(***************************************************************************)
(* For a template of any length and any graph over its steps: the search   *)
(* of topo_sorted keeps its types, the nodes it is visiting form a path,   *)
(* and every step of it places the step that StablePlacement places next,  *)
(* reports a circular dependency that is in the way, or places nothing.    *)
(***************************************************************************)
EXTENDS StepDependencyGraph, FiniteSetTheorems, SequenceTheorems,
        WellFoundedInduction, TLAPS

\* A nonempty set of naturals has a least member.
LEMMA Smallest ==
  ASSUME NEW T \in SUBSET Nat, T # {}
  PROVE  \E x \in T : \A y \in T : x <= y
<1> DEFINE R == OpToRel(<, Nat)
<1>1. \E x \in T : \A y \in T : ~ (<<y, x>> \in R)
  <2> HIDE DEF R
  <2>1. IsWellFoundedOn(R, Nat) BY NatLessThanWellFounded DEF R
  <2> QED BY <2>1, WFMin, Zenon
<1>2. \A x, y \in Nat : x < y => <<x, y>> \in R
  BY DEF OpToRel
<1> HIDE DEF R
<1>3. PICK x \in T : \A y \in T : ~ (<<y, x>> \in R) BY <1>1
<1>4. ASSUME NEW y \in T PROVE ~(y < x)
  BY <1>2, <1>3, x \in Nat, y \in Nat, Zenon
<1>5. \A y \in T : x <= y BY <1>4
<1> QED BY <1>5

\* A set of steps, reversed, is a sequence of exactly these steps.
LEMMA ReversedIsSeq ==
  ASSUME NEW S \in SUBSET Steps, NEW names \in Reversed(S)
  PROVE  /\ names \in Seq(S)
         /\ names \in Seq(Steps)
         /\ Len(names) \in Nat
         /\ \A i \in 1 .. Len(names) : names[i] \in S
         /\ \A s \in S : \E i \in 1 .. Len(names) : names[i] = s
         /\ \A i \in 1 .. Len(names) : \A j \in 1 .. i - 1 : names[i] < names[j]
<1>1. IsFiniteSet(Steps) BY StepsAssumption, FS_Interval DEF Steps
<1>2. Cardinality(S) \in Nat BY <1>1, FS_Subset, FS_CardinalityType
<1>3. /\ names \in [1 .. Cardinality(S) -> S]
      /\ {names[i] : i \in 1 .. Cardinality(S)} = S
      /\ \A i \in 1 .. Cardinality(S) : \A j \in 1 .. i - 1 : names[i] < names[j]
  BY DEF Reversed
<1>4. names \in Seq(S) /\ Len(names) = Cardinality(S) BY <1>2, <1>3
<1>5. names \in Seq(Steps) BY <1>4, SeqMonotonic
<1> QED BY <1>2, <1>3, <1>4, <1>5

----------------------------------------------------------------------------
(* Types.                                                                  *)

LEMMA TypeInit == Init => TypeOK
  BY StepsAssumption DEF Init, TypeOK, NoError, Steps

LEMMA TypeNext ==
  ASSUME TypeOK, [Next]_vars
  PROVE  TypeOK'
<1> USE StepsAssumption
<1>1. CASE PushRoot
  <2>1. root' \in Steps BY <1>1 DEF PushRoot, TypeOK, Steps
  <2>2. node_stack' \in Seq(Steps) BY <1>1, <2>1 DEF PushRoot
  <2> QED BY <1>1, <2>1, <2>2 DEF PushRoot, TypeOK, Steps
<1>2. CASE Pop
  <2>1. node_stack' \in Seq(Steps) BY <1>2 DEF Pop, TypeOK
  <2> QED BY <1>2, <2>1 DEF Pop, TypeOK
<1>3. CASE Complete
  <2>1. top \in Steps BY <1>3 DEF Complete, TypeOK, top
  <2> QED BY <1>3, <2>1 DEF Complete, TypeOK
<1>4. CASE Expand
  <2>1. top \in Steps BY <1>4 DEF Expand, TypeOK, top
  <2>2. Todo \in SUBSET Steps BY <2>1 DEF Todo, TypeOK
  <2>3. PICK names \in Reversed(Todo) : node_stack' = node_stack \o names
    BY <1>4 DEF Expand
  <2>4. names \in Seq(Steps) BY <2>2, <2>3, ReversedIsSeq
  <2>5. node_stack' \in Seq(Steps) BY <2>3, <2>4 DEF TypeOK
  <2> QED BY <1>4, <2>1, <2>5 DEF Expand, TypeOK
<1>5. CASE FindCycle
  <2>1. top \in Steps BY <1>5 DEF FindCycle, TypeOK, top
  <2>2. Todo \in SUBSET Steps BY <2>1 DEF Todo, TypeOK
  <2>3. {i \in 1 .. Len(node_stack) : node_stack[i] \in started'} \in SUBSET Nat
    BY DEF TypeOK
  <2>4. error' \in [shown : SUBSET Nat, dep : Steps \cup {0}]
    BY <1>5, <2>2, <2>3 DEF FindCycle
  <2> QED BY <1>5, <2>1, <2>4 DEF FindCycle, TypeOK
<1>6. CASE UNCHANGED vars BY <1>6 DEF vars, TypeOK
<1> QED BY <1>1, <1>2, <1>3, <1>4, <1>5, <1>6 DEF Next

\* The graph, the stack and the sets of names hold steps of the template, and
\* the outer loop stays within it.
THEOREM TypeCorrect == Spec => []TypeOK
<1>1. Init => TypeOK BY TypeInit
<1>2. TypeOK /\ [Next]_vars => TypeOK' BY TypeNext
<1> QED BY <1>1, <1>2, PTL DEF Spec

----------------------------------------------------------------------------
(* The inductive invariant.                                                *)

Last == Len(node_stack)

\* A step is completed when it enters the result.
CompletedIsPlaced ==
    /\ completed = {result[i] : i \in 1 .. Len(result)}
    /\ completed \subseteq started

\* A node that is being visited is on the stack, and its dependencies are
\* completed or above its last position.
AwaitsDeps ==
    ~Raised =>
      \A s \in Visiting :
        \E i \in 1 .. Last :
          /\ LastAt(s, i)
          /\ \A d \in deps[s] :
               d \in completed \/ \E j \in i + 1 .. Last : node_stack[j] = d

\* The position at which a node of the stack hangs off the path being visited.
Hangs(i, j) ==
    /\ Open(j) /\ \A k \in j + 1 .. i - 1 : ~Open(k)
    /\ node_stack[i] \in deps[node_stack[j]]

\* What a node being visited still waits for hangs off it, and the earlier in
\* the template the higher on the stack.
InOrder ==
    ~Raised =>
      \A j \in 1 .. Last : Open(j) =>
        /\ \A d \in deps[node_stack[j]] \ completed :
             \E i \in j + 1 .. Last : Hangs(i, j) /\ node_stack[i] = d
        /\ \A i2 \in j + 1 .. Last : \A i \in j + 1 .. i2 - 1 :
             Hangs(i, j) /\ Hangs(i2, j) => node_stack[i2] < node_stack[i]

\* The steps of the template are searched one after the other, and the stack
\* holds what the current one needs.
SearchesRoot ==
    /\ \A s \in 1 .. root - 1 : s \in completed
    /\ node_stack = <<>> => \A s \in 1 .. root : s \in completed
    /\ node_stack # <<>> => root \in Steps /\ node_stack[1] = root
    /\ \A i \in 1 .. Last : Placement!NeededBy(node_stack[i], root)

SearchInv ==
    /\ TypeOK /\ CompletedIsPlaced /\ SearchesRoot
    /\ AwaitsDeps /\ VisitIsPath /\ InOrder

LEMMA SearchInit == Init => SearchInv
  BY TypeInit, StepsAssumption
  DEF Init, SearchInv, TypeOK, CompletedIsPlaced, AwaitsDeps, SearchesRoot,
      VisitIsPath, InOrder, Visiting, Last

\* What an Expand leaves: the dependencies of the node on top of it.
LEMMA Expanded ==
  ASSUME TypeOK, Expand
  PROVE  /\ top \in Steps /\ Last \in Nat \ {0} /\ Last' \in Nat /\ Last <= Last'
         /\ \A i \in 1 .. Last : node_stack'[i] = node_stack[i]
         /\ \A i \in Last + 1 .. Last' :
              node_stack'[i] \in deps[top] \ (completed \cup started')
         /\ \A d \in deps[top] \ completed :
              \E i \in Last + 1 .. Last' : node_stack'[i] = d
         /\ \A i2 \in Last + 1 .. Last' : \A i \in Last + 1 .. i2 - 1 :
              node_stack'[i2] < node_stack'[i]
<1>1. top \in Steps /\ Last \in Nat \ {0} BY DEF Expand, TypeOK, top, Last
<1>2. Todo \in SUBSET Steps BY <1>1 DEF Todo, TypeOK
<1>3. PICK names \in Reversed(Todo) : node_stack' = node_stack \o names
  BY DEF Expand
<1>4. /\ names \in Seq(Steps) /\ Len(names) \in Nat
      /\ \A i \in 1 .. Len(names) : names[i] \in Todo
      /\ \A s \in Todo : \E i \in 1 .. Len(names) : names[i] = s
      /\ \A i \in 1 .. Len(names) : \A j \in 1 .. i - 1 : names[i] < names[j]
  BY <1>2, <1>3, ReversedIsSeq
<1>5. node_stack \in Seq(Steps) BY DEF TypeOK
<1>6. Last' = Last + Len(names) BY <1>3, <1>4, <1>5 DEF Last
<1>7. \A i \in 1 .. Last : node_stack'[i] = node_stack[i]
  BY <1>3, <1>4, <1>5 DEF Last
<1>8. \A i \in 1 .. Len(names) : node_stack'[Last + i] = names[i]
  BY <1>1, <1>3, <1>4, <1>5 DEF Last
<1>9. Todo \cap started' = {} BY DEF Expand
<1>10. ASSUME NEW i \in Last + 1 .. Last'
       PROVE  node_stack'[i] \in deps[top] \ (completed \cup started')
  <2>1. i - Last \in 1 .. Len(names) /\ Last + (i - Last) = i
    BY <1>1, <1>4, <1>6
  <2>2. node_stack'[i] \in Todo BY <1>4, <1>8, <2>1
  <2> QED BY <1>9, <2>2 DEF Todo
<1>11. ASSUME NEW d \in deps[top] \ completed
       PROVE  \E i \in Last + 1 .. Last' : node_stack'[i] = d
  <2>1. PICK i \in 1 .. Len(names) : names[i] = d BY <1>4 DEF Todo
  <2>2. Last + i \in Last + 1 .. Last' BY <1>1, <1>4, <1>6
  <2> QED BY <1>8, <2>1, <2>2
<1>12. ASSUME NEW i2 \in Last + 1 .. Last', NEW i \in Last + 1 .. i2 - 1
       PROVE  node_stack'[i2] < node_stack'[i]
  <2>1. /\ i2 - Last \in 1 .. Len(names) /\ Last + (i2 - Last) = i2
        /\ i - Last \in 1 .. (i2 - Last) - 1 /\ Last + (i - Last) = i
        /\ i - Last \in 1 .. Len(names)
    BY <1>1, <1>4, <1>6
  <2> QED BY <1>4, <1>8, <2>1
<1> QED BY <1>1, <1>4, <1>6, <1>7, <1>10, <1>11, <1>12

LEMMA PlacedNext ==
  ASSUME TypeOK, CompletedIsPlaced, [Next]_vars
  PROVE  CompletedIsPlaced'
<1>1. CASE Complete
  <2>1. top \in Steps /\ result \in Seq(Steps) BY <1>1 DEF Complete, TypeOK, top
  <2>2. result' = Append(result, top) BY <1>1 DEF Complete
  <2>3. {result'[i] : i \in 1 .. Len(result')}
          = {result[i] : i \in 1 .. Len(result)} \cup {top}
    BY <2>1, <2>2
  <2> QED BY <1>1, <2>3 DEF Complete, CompletedIsPlaced
<1>2. CASE PushRoot BY <1>2 DEF PushRoot, CompletedIsPlaced
<1>3. CASE Pop BY <1>3 DEF Pop, CompletedIsPlaced
<1>4. CASE Expand BY <1>4 DEF Expand, CompletedIsPlaced
<1>5. CASE FindCycle BY <1>5 DEF FindCycle, CompletedIsPlaced
<1>6. CASE UNCHANGED vars BY <1>6 DEF vars, CompletedIsPlaced
<1> QED BY <1>1, <1>2, <1>3, <1>4, <1>5, <1>6 DEF Next

\* Where nothing is being visited there is nothing to show of it.
LEMMA NotRaised ==
  ASSUME TypeOK
  PROVE  /\ Pop \/ Complete \/ Expand \/ PushRoot => ~Raised /\ ~Raised'
         /\ FindCycle => ~Raised /\ Raised'
<1>1. ASSUME Pop \/ Complete \/ Expand \/ PushRoot PROVE ~Raised /\ ~Raised'
  BY <1>1 DEF Pop, Complete, Expand, PushRoot, Raised
<1>2. ASSUME FindCycle PROVE ~Raised /\ Raised'
  <2>1. top \in Steps BY <1>2 DEF FindCycle, TypeOK, top
  <2>2. Todo \in SUBSET Steps BY <2>1 DEF Todo, TypeOK
  <2>3. error'.dep \in Steps BY <1>2, <2>2 DEF FindCycle
  <2> QED BY <1>2, <2>3 DEF FindCycle, Raised, Steps
<1> QED BY <1>1, <1>2

\* Pop leaves the stack without its last node, which is not being visited.
LEMMA Popped ==
  ASSUME TypeOK, Pop
  PROVE  /\ Last \in Nat \ {0} /\ Last' = Last - 1
         /\ node_stack[Last] = top /\ top \in completed
         /\ \A i \in 1 .. Last' : node_stack'[i] = node_stack[i]
<1>1. node_stack \in Seq(Steps) /\ node_stack # <<>> BY DEF Pop, TypeOK
<1>2. Last \in Nat \ {0} BY <1>1 DEF Last
<1>3. node_stack' = SubSeq(node_stack, 1, Last - 1) BY DEF Pop, Last
<1>4. /\ Len(SubSeq(node_stack, 1, Last - 1)) = Last - 1
      /\ \A i \in 1 .. Last - 1 : SubSeq(node_stack, 1, Last - 1)[i] = node_stack[i]
  BY <1>1, <1>2 DEF Last
<1>5. Last' = Last - 1 BY <1>3, <1>4 DEF Last
<1>6. node_stack[Last] = top /\ top \in completed BY DEF Pop, top, Last
<1> QED BY <1>2, <1>3, <1>4, <1>5, <1>6

LEMMA AwaitsNext ==
  ASSUME TypeOK, CompletedIsPlaced, AwaitsDeps, [Next]_vars
  PROVE  AwaitsDeps'
<1>1. CASE PushRoot
  <2>1. \A s \in Visiting : FALSE BY <1>1, NotRaised DEF PushRoot, AwaitsDeps, Last
  <2> QED BY <1>1, <2>1 DEF PushRoot, AwaitsDeps, Visiting
<1>2. CASE Pop
  <2>1. /\ Last \in Nat \ {0} /\ Last' = Last - 1
        /\ node_stack[Last] = top /\ top \in completed
        /\ \A i \in 1 .. Last' : node_stack'[i] = node_stack[i]
        /\ ~Raised
        /\ UNCHANGED <<deps, completed>> /\ Visiting' = Visiting
    BY <1>2, Popped, NotRaised DEF Pop, Visiting
  <2>2. ASSUME NEW s \in Visiting
        PROVE  \E i \in 1 .. Last' :
                 /\ LastAt(s, i)'
                 /\ \A d \in deps[s] : d \in completed
                      \/ \E j \in i + 1 .. Last' : node_stack'[j] = d
    <3>1. PICK i \in 1 .. Last :
            /\ LastAt(s, i)
            /\ \A d \in deps[s] : d \in completed
                 \/ \E j \in i + 1 .. Last : node_stack[j] = d
      BY <2>1 DEF AwaitsDeps
    <3>2. i # Last BY <2>1, <3>1 DEF LastAt, Visiting
    <3>3. i \in 1 .. Last' /\ LastAt(s, i)'
      BY <2>1, <3>1, <3>2 DEF LastAt, Last
    <3>4. ASSUME NEW d \in deps[s], d \notin completed
          PROVE  \E j \in i + 1 .. Last' : node_stack'[j] = d
      <4>1. PICK j \in i + 1 .. Last : node_stack[j] = d BY <3>1, <3>4
      <4>2. j # Last BY <2>1, <3>4, <4>1
      <4> QED BY <2>1, <4>1, <4>2
    <3> QED BY <3>3, <3>4
  <2> QED BY <2>1, <2>2 DEF AwaitsDeps
<1>3. CASE Complete
  <2>1. ~Raised /\ UNCHANGED <<deps, node_stack>> /\ completed \subseteq completed'
          /\ Visiting' \subseteq Visiting /\ Last' = Last
    BY <1>3, NotRaised DEF Complete, Visiting, Last
  <2> QED BY <2>1 DEF AwaitsDeps, LastAt, Last
<1>4. CASE Expand
  <2>1. /\ top \in Steps /\ Last \in Nat \ {0} /\ Last' \in Nat /\ Last <= Last'
        /\ \A i \in 1 .. Last : node_stack'[i] = node_stack[i]
        /\ \A i \in Last + 1 .. Last' :
             node_stack'[i] \in deps[top] \ (completed \cup started')
        /\ \A d \in deps[top] \ completed :
             \E i \in Last + 1 .. Last' : node_stack'[i] = d
    BY <1>4, Expanded
  <2>2. /\ ~Raised /\ UNCHANGED <<deps, completed>>
        /\ Visiting' = Visiting \cup {top} /\ started' = started \cup {top}
        /\ top \notin Visiting /\ node_stack[Last] = top
    BY <1>4, NotRaised DEF Expand, Visiting, top, Last
  <2>3. ASSUME NEW s, s = top
        PROVE  \E i \in 1 .. Last' :
                 /\ LastAt(s, i)'
                 /\ \A d \in deps[s] : d \in completed
                      \/ \E j \in i + 1 .. Last' : node_stack'[j] = d
    <3>1. PICK i \in 1 .. Last' : i = Last BY <2>1
    <3>2. node_stack'[i] = s BY <2>1, <2>2, <2>3, <3>1
    <3>3. ASSUME NEW j \in i + 1 .. Last' PROVE node_stack'[j] # s
      BY <2>1, <2>2, <2>3, <3>1
    <3>4. LastAt(s, i)' BY <3>2, <3>3 DEF LastAt, Last
    <3> QED BY <2>1, <2>3, <3>1, <3>4
  <2>4. ASSUME NEW s \in Visiting
        PROVE  \E i \in 1 .. Last' :
                 /\ LastAt(s, i)'
                 /\ \A d \in deps[s] : d \in completed
                      \/ \E j \in i + 1 .. Last' : node_stack'[j] = d
    <3>1. PICK i \in 1 .. Last :
            /\ LastAt(s, i)
            /\ \A d \in deps[s] : d \in completed
                 \/ \E j \in i + 1 .. Last : node_stack[j] = d
      BY <2>2 DEF AwaitsDeps
    <3>2. i \in 1 .. Last' BY <2>1
    <3>3. ASSUME NEW j \in i + 1 .. Last' PROVE node_stack'[j] # s
      <4>1. CASE j \in i + 1 .. Last BY <2>1, <3>1, <4>1 DEF LastAt, Last
      <4>2. CASE j \in Last + 1 .. Last'
        BY <2>1, <2>2, <4>2 DEF Visiting
      <4> QED BY <2>1, <4>1, <4>2
    <3>4. LastAt(s, i)' BY <2>1, <3>1, <3>3 DEF LastAt, Last
    <3>5. ASSUME NEW d \in deps[s], d \notin completed
          PROVE  \E j \in i + 1 .. Last' : node_stack'[j] = d
      <4>1. PICK j \in i + 1 .. Last : node_stack[j] = d BY <3>1, <3>5
      <4> QED BY <2>1, <4>1
    <3> QED BY <3>2, <3>4, <3>5
  <2> QED BY <2>2, <2>3, <2>4 DEF AwaitsDeps
<1>5. CASE FindCycle BY <1>5, NotRaised DEF AwaitsDeps
<1>6. CASE UNCHANGED vars
  BY <1>6 DEF vars, AwaitsDeps, Raised, Visiting, LastAt, Last
<1> QED BY <1>1, <1>2, <1>3, <1>4, <1>5, <1>6 DEF Next

\* No action but Expand makes a node hang elsewhere: below the node that is
\* popped or completed the path stays as it is.
LEMMA PopKeeps ==
  ASSUME TypeOK, Pop
  PROVE  /\ \A k \in 1 .. Last' : Open(k)' <=> Open(k)
         /\ \A i \in 1 .. Last' : \A j \in 1 .. i - 1 : Hangs(i, j)' <=> Hangs(i, j)
<1>1. /\ Last \in Nat \ {0} /\ Last' = Last - 1
      /\ node_stack[Last] = top /\ top \in completed
      /\ \A i \in 1 .. Last' : node_stack'[i] = node_stack[i]
      /\ UNCHANGED <<deps, completed>> /\ Visiting' = Visiting
  BY Popped DEF Pop, Visiting
<1>2. ASSUME NEW k \in 1 .. Last' PROVE Open(k)' <=> Open(k)
  <2>1. CASE node_stack[k] \notin Visiting BY <1>1, <2>1 DEF Open
  <2>2. CASE node_stack[k] \in Visiting
    <3>1. node_stack[Last] # node_stack[k] BY <1>1, <2>2 DEF Visiting
    <3>2. LastAt(node_stack[k], k)' <=> LastAt(node_stack[k], k)
      BY <1>1, <3>1 DEF LastAt, Last
    <3> QED BY <1>1, <2>2, <3>2 DEF Open
  <2> QED BY <2>1, <2>2
<1>3. ASSUME NEW i \in 1 .. Last', NEW j \in 1 .. i - 1
      PROVE  Hangs(i, j)' <=> Hangs(i, j)
  BY <1>1, <1>2 DEF Hangs
<1> QED BY <1>2, <1>3

LEMMA CompleteKeeps ==
  ASSUME TypeOK, Complete
  PROVE  /\ UNCHANGED <<deps, node_stack>> /\ Last' = Last /\ Last \in Nat \ {0}
         /\ ~Open(Last)'
         /\ \A k \in 1 .. Last - 1 : Open(k)' <=> Open(k)
         /\ \A i \in 1 .. Last : \A j \in 1 .. i - 1 : Hangs(i, j)' <=> Hangs(i, j)
<1>1. /\ UNCHANGED <<deps, node_stack>> /\ Last' = Last
      /\ Visiting' = Visiting \ {top} /\ node_stack[Last] = top
      /\ Last \in Nat \ {0}
  BY DEF Complete, Visiting, Last, top, TypeOK
<1>2. ASSUME NEW k \in 1 .. Last - 1 PROVE Open(k)' <=> Open(k)
  <2>1. CASE node_stack[k] = top
    <3>1. ~LastAt(node_stack[k], k) /\ ~LastAt(node_stack[k], k)'
      BY <1>1, <2>1 DEF LastAt, Last
    <3> QED BY <3>1 DEF Open
  <2>2. CASE node_stack[k] # top BY <1>1, <2>2 DEF Open, LastAt, Last
  <2> QED BY <2>1, <2>2
<1>3. ASSUME NEW i \in 1 .. Last, NEW j \in 1 .. i - 1
      PROVE  Hangs(i, j)' <=> Hangs(i, j)
  BY <1>1, <1>2 DEF Hangs
<1> QED BY <1>1, <1>2, <1>3 DEF Open

\* What Expand pushes hangs off the node that it starts, and off no other.
LEMMA ExpandKeeps ==
  ASSUME TypeOK, CompletedIsPlaced, Expand
  PROVE  /\ Last \in Nat \ {0} /\ Last' \in Nat /\ Last <= Last'
         /\ \A k \in 1 .. Last - 1 : Open(k)' <=> Open(k)
         /\ Open(Last) = FALSE
         /\ \A m \in 1 .. Last' : m = Last => Open(m)'
         /\ \A k \in Last + 1 .. Last' : ~Open(k)'
         /\ \A i \in 1 .. Last : \A j \in 1 .. i - 1 : Hangs(i, j)' <=> Hangs(i, j)
         /\ \A i \in Last + 1 .. Last' : \A m \in 1 .. Last' : m = Last => Hangs(i, m)'
         /\ \A i \in Last + 1 .. Last' : \A j \in 1 .. Last - 1 : ~Hangs(i, j)'
<1>1. /\ top \in Steps /\ Last \in Nat \ {0} /\ Last' \in Nat /\ Last <= Last'
      /\ \A i \in 1 .. Last : node_stack'[i] = node_stack[i]
      /\ \A i \in Last + 1 .. Last' :
           node_stack'[i] \in deps[top] \ (completed \cup started')
  BY Expanded
<1>2. /\ UNCHANGED <<deps, completed>>
      /\ Visiting' = Visiting \cup {top} /\ started' = started \cup {top}
      /\ top \notin Visiting /\ node_stack[Last] = top
  BY DEF Expand, Visiting, top, Last
<1>3. ASSUME NEW k \in 1 .. Last - 1 PROVE Open(k)' <=> Open(k)
  <2>1. CASE node_stack[k] = top
    <3>1. ~LastAt(node_stack[k], k) /\ ~LastAt(node_stack[k], k)'
      BY <1>1, <1>2, <2>1 DEF LastAt, Last
    <3> QED BY <3>1 DEF Open
  <2>2. CASE node_stack[k] # top /\ node_stack[k] \notin Visiting
    BY <1>1, <1>2, <2>2 DEF Open
  <2>3. CASE node_stack[k] # top /\ node_stack[k] \in Visiting
    <3>1. \A j \in Last + 1 .. Last' : node_stack'[j] # node_stack[k]
      BY <1>1, <1>2, <2>3 DEF Visiting
    <3>2. node_stack'[k] = node_stack[k] BY <1>1
    <3>3. (\A j \in k + 1 .. Last' : node_stack'[j] # node_stack[k])
            <=> \A j \in k + 1 .. Last : node_stack[j] # node_stack[k]
      BY <1>1, <3>1
    <3>4. LastAt(node_stack[k], k)' <=> LastAt(node_stack[k], k)
      BY <3>2, <3>3 DEF LastAt, Last
    <3> QED BY <1>2, <2>3, <3>2, <3>4 DEF Open
  <2> QED BY <2>1, <2>2, <2>3
<1>4. ASSUME NEW m \in 1 .. Last', m = Last PROVE Open(m)'
  <2>1. \A j \in m + 1 .. Last' : node_stack'[j] # node_stack'[m]
    BY <1>1, <1>2, <1>4
  <2> QED BY <1>1, <1>2, <1>4, <2>1 DEF Open, LastAt, Last
<1>5. \A k \in Last + 1 .. Last' : ~Open(k)'
  BY <1>1, <1>2 DEF Open, Visiting
<1>6. ASSUME NEW i \in 1 .. Last, NEW j \in 1 .. i - 1
      PROVE  Hangs(i, j)' <=> Hangs(i, j)
  BY <1>1, <1>2, <1>3 DEF Hangs
<1>7. ASSUME NEW i \in Last + 1 .. Last', NEW m \in 1 .. Last', m = Last
      PROVE  Hangs(i, m)'
  BY <1>1, <1>2, <1>4, <1>5, <1>7 DEF Hangs
<1>8. ASSUME NEW i \in Last + 1 .. Last', NEW j \in 1 .. Last - 1
      PROVE  ~Hangs(i, j)'
  <2>1. PICK m \in 1 .. Last' : m = Last BY <1>1
  <2>2. m \in j + 1 .. i - 1 BY <1>1, <2>1
  <2> QED BY <1>4, <2>1, <2>2 DEF Hangs
<1>9. Open(Last) = FALSE BY <1>2 DEF Open
<1> QED BY <1>1, <1>3, <1>4, <1>5, <1>6, <1>7, <1>8, <1>9

LEMMA PathNext ==
  ASSUME TypeOK, CompletedIsPlaced, VisitIsPath, [Next]_vars
  PROVE  VisitIsPath'
<1>1. CASE PushRoot
  <2>1. node_stack' = <<root'>> BY <1>1 DEF PushRoot
  <2> QED BY <2>1 DEF VisitIsPath
<1>2. CASE Pop
  <2>1. ~Raised /\ Last \in Nat \ {0} /\ Last' = Last - 1
    BY <1>2, Popped, NotRaised
  <2>2. ASSUME NEW i \in 2 .. Last' PROVE \E j \in 1 .. i - 1 : Hangs(i, j)'
    <3>1. i \in 2 .. Last /\ i \in 1 .. Last' BY <2>1
    <3>2. PICK j \in 1 .. i - 1 : Hangs(i, j)
      BY <2>1, <3>1 DEF VisitIsPath, Hangs, Last
    <3>3. Hangs(i, j)' BY <1>2, <3>1, <3>2, PopKeeps
    <3> QED BY <3>3
  <2> QED BY <2>1, <2>2 DEF VisitIsPath, Hangs, Last
<1>3. CASE Complete
  <2>1. ~Raised /\ Last' = Last /\ Last \in Nat \ {0}
    BY <1>3, CompleteKeeps, NotRaised
  <2>2. ASSUME NEW i \in 2 .. Last' PROVE \E j \in 1 .. i - 1 : Hangs(i, j)'
    <3>1. PICK j \in 1 .. i - 1 : Hangs(i, j)
      BY <2>1 DEF VisitIsPath, Hangs, Last
    <3>2. Hangs(i, j)' BY <1>3, <2>1, <3>1, CompleteKeeps
    <3> QED BY <3>2
  <2> QED BY <2>1, <2>2 DEF VisitIsPath, Hangs, Last
<1>4. CASE Expand
  <2>1. ~Raised /\ Last \in Nat \ {0} /\ Last' \in Nat /\ Last <= Last'
    BY <1>4, ExpandKeeps, NotRaised
  <2>2. ASSUME NEW i \in 2 .. Last' PROVE \E j \in 1 .. i - 1 : Hangs(i, j)'
    <3>1. CASE i \in 2 .. Last
      <4>1. PICK j \in 1 .. i - 1 : Hangs(i, j)
        BY <2>1, <3>1 DEF VisitIsPath, Hangs, Last
      <4>2. i \in 1 .. Last BY <3>1
      <4>3. Hangs(i, j)' BY <1>4, <4>1, <4>2, ExpandKeeps
      <4> QED BY <4>3
    <3>2. CASE i \in Last + 1 .. Last'
      <4>1. PICK m \in 1 .. Last' : m = Last BY <2>1
      <4>2. Hangs(i, m)' BY <1>4, <3>2, <4>1, ExpandKeeps
      <4>3. m \in 1 .. i - 1 BY <2>1, <3>2, <4>1
      <4> QED BY <4>2, <4>3
    <3> QED BY <2>1, <3>1, <3>2
  <2> QED BY <2>1, <2>2 DEF VisitIsPath, Hangs, Last
<1>5. CASE FindCycle BY <1>5, NotRaised DEF VisitIsPath
<1>6. CASE UNCHANGED vars
  BY <1>6 DEF vars, VisitIsPath, Raised, Open, Visiting, LastAt
<1> QED BY <1>1, <1>2, <1>3, <1>4, <1>5, <1>6 DEF Next

\* What InOrder says of the node being visited at position j.
AllHang(j) ==
    \A d \in deps[node_stack[j]] \ completed :
      \E i \in j + 1 .. Last : Hangs(i, j) /\ node_stack[i] = d
Descend(j) ==
    \A i2 \in j + 1 .. Last : \A i \in j + 1 .. i2 - 1 :
      Hangs(i, j) /\ Hangs(i2, j) => node_stack[i2] < node_stack[i]

LEMMA OrderNext ==
  ASSUME TypeOK, CompletedIsPlaced, AwaitsDeps, InOrder, [Next]_vars
  PROVE  InOrder'
<1>0. /\ InOrder <=> (~Raised => \A j \in 1 .. Last : Open(j) => AllHang(j) /\ Descend(j))
      /\ InOrder' <=> (~Raised' => \A j \in 1 .. Last' :
                                     Open(j)' => AllHang(j)' /\ Descend(j)')
  BY DEF InOrder, AllHang, Descend
<1>1. CASE PushRoot
  <2>1. Visiting = {} BY <1>1, NotRaised DEF PushRoot, AwaitsDeps, Last
  <2>2. Visiting' = {} BY <1>1, <2>1 DEF PushRoot, Visiting
  <2> QED BY <1>0, <2>2 DEF Open
<1>2. CASE Pop
  <2>1. /\ Last \in Nat \ {0} /\ Last' = Last - 1
        /\ node_stack[Last] = top /\ top \in completed
        /\ \A i \in 1 .. Last' : node_stack'[i] = node_stack[i]
        /\ ~Raised /\ UNCHANGED <<deps, completed>>
    BY <1>2, Popped, NotRaised DEF Pop
  <2>2. /\ \A k \in 1 .. Last' : Open(k)' <=> Open(k)
        /\ \A i \in 1 .. Last' : \A j \in 1 .. i - 1 : Hangs(i, j)' <=> Hangs(i, j)
    BY <1>2, PopKeeps
  <2>3. ASSUME NEW j \in 1 .. Last', Open(j)' PROVE AllHang(j)' /\ Descend(j)'
    <3>1. j \in 1 .. Last /\ AllHang(j) /\ Descend(j)
      BY <1>0, <2>1, <2>2, <2>3
    <3>2. ASSUME NEW d \in deps[node_stack[j]] \ completed
          PROVE  \E i \in j + 1 .. Last' : Hangs(i, j)' /\ node_stack'[i] = d
      <4>1. PICK i \in j + 1 .. Last : Hangs(i, j) /\ node_stack[i] = d
        BY <3>1, <3>2 DEF AllHang
      <4>2. i # Last BY <2>1, <3>2, <4>1
      <4>3. i \in 1 .. Last' /\ j \in 1 .. i - 1 /\ i \in j + 1 .. Last'
        BY <2>1, <4>1, <4>2
      <4> QED BY <2>1, <2>2, <4>1, <4>3
    <3>3. ASSUME NEW i2 \in j + 1 .. Last', NEW i \in j + 1 .. i2 - 1,
                 Hangs(i, j)', Hangs(i2, j)'
          PROVE  node_stack'[i2] < node_stack'[i]
      <4>1. /\ i \in 1 .. Last' /\ i2 \in 1 .. Last' /\ i2 \in j + 1 .. Last
            /\ j \in 1 .. i - 1 /\ j \in 1 .. i2 - 1
        BY <2>1
      <4>2. Hangs(i, j) /\ Hangs(i2, j) BY <2>2, <3>3, <4>1
      <4> QED BY <2>1, <3>1, <4>1, <4>2 DEF Descend
    <3> QED BY <2>1, <3>2, <3>3 DEF AllHang, Descend
  <2> QED BY <1>0, <2>3
<1>3. CASE Complete
  <2>1. /\ UNCHANGED <<deps, node_stack>> /\ Last' = Last /\ Last \in Nat \ {0}
        /\ ~Open(Last)'
        /\ \A k \in 1 .. Last - 1 : Open(k)' <=> Open(k)
        /\ \A i \in 1 .. Last : \A j \in 1 .. i - 1 : Hangs(i, j)' <=> Hangs(i, j)
        /\ ~Raised /\ completed \subseteq completed'
    BY <1>3, CompleteKeeps, NotRaised DEF Complete
  <2>2. ASSUME NEW j \in 1 .. Last', Open(j)' PROVE AllHang(j)' /\ Descend(j)'
    <3>1. j \in 1 .. Last - 1 /\ Open(j) BY <2>1, <2>2
    <3>2. AllHang(j) /\ Descend(j) BY <1>0, <2>1, <3>1
    <3>3. AllHang(j)' BY <2>1, <3>1, <3>2 DEF AllHang
    <3>4. Descend(j)' BY <2>1, <3>1, <3>2 DEF Descend
    <3> QED BY <3>3, <3>4
  <2> QED BY <1>0, <2>2
<1>4. CASE Expand
  <2>1. /\ Last \in Nat \ {0} /\ Last' \in Nat /\ Last <= Last'
        /\ \A i \in 1 .. Last : node_stack'[i] = node_stack[i]
        /\ \A d \in deps[top] \ completed :
             \E i \in Last + 1 .. Last' : node_stack'[i] = d
        /\ \A i2 \in Last + 1 .. Last' : \A i \in Last + 1 .. i2 - 1 :
             node_stack'[i2] < node_stack'[i]
        /\ ~Raised /\ UNCHANGED <<deps, completed>> /\ node_stack[Last] = top
    BY <1>4, Expanded, NotRaised DEF Expand, top, Last
  <2>2. /\ \A k \in 1 .. Last - 1 : Open(k)' <=> Open(k)
        /\ \A k \in Last + 1 .. Last' : ~Open(k)'
        /\ \A i \in 1 .. Last : \A j \in 1 .. i - 1 : Hangs(i, j)' <=> Hangs(i, j)
        /\ \A i \in Last + 1 .. Last' : \A m \in 1 .. Last' : m = Last => Hangs(i, m)'
        /\ \A i \in Last + 1 .. Last' : \A j \in 1 .. Last - 1 : ~Hangs(i, j)'
    BY <1>4, ExpandKeeps
  <2>3. ASSUME NEW j \in 1 .. Last', Open(j)' PROVE AllHang(j)' /\ Descend(j)'
    <3>1. CASE j \in 1 .. Last - 1
      <4>1. AllHang(j) /\ Descend(j) BY <1>0, <2>1, <2>2, <2>3, <3>1
      <4>2. ASSUME NEW d \in deps[node_stack[j]] \ completed
            PROVE  \E i \in j + 1 .. Last' : Hangs(i, j)' /\ node_stack'[i] = d
        <5>1. PICK i \in j + 1 .. Last : Hangs(i, j) /\ node_stack[i] = d
          BY <4>1, <4>2 DEF AllHang
        <5>2. i \in 1 .. Last /\ j \in 1 .. i - 1 /\ i \in j + 1 .. Last'
          BY <2>1, <3>1, <5>1
        <5> QED BY <2>1, <2>2, <5>1, <5>2
      <4>3. ASSUME NEW i2 \in j + 1 .. Last', NEW i \in j + 1 .. i2 - 1,
                   Hangs(i, j)', Hangs(i2, j)'
            PROVE  node_stack'[i2] < node_stack'[i]
        <5>1. i2 \notin Last + 1 .. Last' BY <2>2, <3>1, <4>3
        <5>2. /\ i \in 1 .. Last /\ i2 \in 1 .. Last /\ i2 \in j + 1 .. Last
              /\ j \in 1 .. i - 1 /\ j \in 1 .. i2 - 1
          BY <2>1, <3>1, <5>1
        <5>3. Hangs(i, j) /\ Hangs(i2, j) BY <2>2, <4>3, <5>2
        <5> QED BY <2>1, <4>1, <5>2, <5>3 DEF Descend
      <4>4. node_stack'[j] = node_stack[j] BY <2>1, <3>1
      <4> QED BY <2>1, <4>2, <4>3, <4>4 DEF AllHang, Descend
    <3>2. CASE j = Last
      <4>1. node_stack'[j] = top /\ UNCHANGED completed /\ UNCHANGED deps
        BY <2>1, <3>2
      <4>2. \A i \in j + 1 .. Last' : Hangs(i, j)' BY <2>2, <3>2
      <4>3. AllHang(j)' BY <2>1, <3>2, <4>1, <4>2 DEF AllHang
      <4>4. Descend(j)' BY <2>1, <3>2 DEF Descend
      <4> QED BY <4>3, <4>4
    <3>3. j \notin Last + 1 .. Last' BY <2>2, <2>3
    <3> QED BY <2>1, <3>1, <3>2, <3>3
  <2> QED BY <1>0, <2>3
<1>5. CASE FindCycle BY <1>0, <1>5, NotRaised
<1>6. CASE UNCHANGED vars
  <2>1. UNCHANGED <<deps, node_stack, started, completed, error>> BY <1>6 DEF vars
  <2>2. /\ Raised' = Raised /\ Visiting' = Visiting /\ Last' = Last
        /\ \A k : Open(k)' = Open(k)
    BY <2>1 DEF Raised, Visiting, Last, Open, LastAt
  <2>3. \A i, j : Hangs(i, j)' = Hangs(i, j) BY <2>1, <2>2, Zenon DEF Hangs
  <2>4. \A j : AllHang(j)' = AllHang(j) /\ Descend(j)' = Descend(j)
    BY <2>1, <2>2, <2>3 DEF AllHang, Descend
  <2> QED BY <1>0, <2>2, <2>4
<1> QED BY <1>1, <1>2, <1>3, <1>4, <1>5, <1>6 DEF Next

LEMMA RootNext ==
  ASSUME TypeOK, SearchesRoot, [Next]_vars
  PROVE  SearchesRoot'
<1> USE DEF Placement!NeededBy, Placement!Closed, Placement!Steps, Steps
<1>1. CASE PushRoot
  <2>1. node_stack' = <<root'>> /\ root' = root + 1 /\ root' \in Steps
    BY <1>1, StepsAssumption DEF PushRoot, TypeOK
  <2>2. \A s \in 1 .. root : s \in completed' BY <1>1 DEF PushRoot, SearchesRoot
  <2>3. Last' = 1 /\ node_stack'[1] = root' BY <2>1 DEF Last
  <2>4. \A i \in 1 .. Last' : Placement!NeededBy(node_stack[i], root)'
    BY <2>3
  <2> QED BY <1>1, <2>1, <2>2, <2>3, <2>4 DEF SearchesRoot, TypeOK, PushRoot
<1>2. CASE Pop
  <2>1. /\ Last \in Nat \ {0} /\ Last' = Last - 1
        /\ node_stack[Last] = top /\ top \in completed
        /\ \A i \in 1 .. Last' : node_stack'[i] = node_stack[i]
        /\ UNCHANGED <<deps, completed, root>>
    BY <1>2, Popped DEF Pop
  <2>2. \A i \in 1 .. Last' : Placement!NeededBy(node_stack[i], root)'
    BY <2>1 DEF SearchesRoot
  <2>3. node_stack' # <<>> => root \in Steps /\ node_stack'[1] = root
    BY <1>2, <2>1 DEF SearchesRoot, Pop, TypeOK, Last
  <2>4. node_stack' = <<>> => \A s \in 1 .. root : s \in completed
    <3> SUFFICES ASSUME node_stack' = <<>> PROVE \A s \in 1 .. root : s \in completed
      OBVIOUS
    <3>1. Last = 1 BY <2>1 DEF Last
    <3>2. root \in completed BY <1>2, <2>1, <3>1 DEF SearchesRoot, Pop
    <3> QED BY <3>2 DEF SearchesRoot, TypeOK
  <2> QED BY <2>1, <2>2, <2>3, <2>4 DEF SearchesRoot
<1>3. CASE Complete
  <2>1. completed \subseteq completed' /\ UNCHANGED <<deps, node_stack, root>>
    BY <1>3 DEF Complete
  <2> QED BY <2>1 DEF SearchesRoot, Last
<1>4. CASE Expand
  <2>1. /\ top \in Steps /\ Last \in Nat \ {0} /\ Last' \in Nat /\ Last <= Last'
        /\ \A i \in 1 .. Last : node_stack'[i] = node_stack[i]
        /\ \A i \in Last + 1 .. Last' : node_stack'[i] \in deps[top]
        /\ node_stack[Last] = top
        /\ UNCHANGED <<deps, completed, root>> /\ node_stack # <<>>
    BY <1>4, Expanded DEF Expand, top, Last
  <2>2. ASSUME NEW i \in 1 .. Last' PROVE Placement!NeededBy(node_stack'[i], root)
    <3>1. CASE i \in 1 .. Last BY <2>1, <3>1 DEF SearchesRoot
    <3>2. CASE i \in Last + 1 .. Last'
      <4>1. Placement!NeededBy(top, root) BY <2>1 DEF SearchesRoot
      <4> QED BY <2>1, <3>2, <4>1
    <3> QED BY <2>1, <3>1, <3>2
  <2>3. node_stack'[1] = root /\ root \in Steps BY <2>1 DEF SearchesRoot
  <2>4. node_stack' # <<>> BY <2>1 DEF Last
  <2> QED BY <2>1, <2>2, <2>3, <2>4 DEF SearchesRoot
<1>5. CASE FindCycle BY <1>5 DEF FindCycle, SearchesRoot, Last
<1>6. CASE UNCHANGED vars BY <1>6 DEF vars, SearchesRoot, Last
<1> QED BY <1>1, <1>2, <1>3, <1>4, <1>5, <1>6 DEF Next

LEMMA SearchNext == SearchInv /\ [Next]_vars => SearchInv'
  BY TypeNext, PlacedNext, AwaitsNext, PathNext, OrderNext, RootNext DEF SearchInv

LEMMA SearchCorrect == Spec => []SearchInv
  BY SearchInit, SearchNext, PTL DEF Spec

\* The nodes being visited form a path of dependencies, in every graph.
THEOREM VisitsAPath == Spec => []VisitIsPath
<1>1. SearchInv => VisitIsPath BY DEF SearchInv
<1> QED BY <1>1, SearchCorrect, PTL

----------------------------------------------------------------------------
(* The search implements StablePlacement.                                  *)

\* It is the turn of the root as long as a node is not completed.
LEMMA RootsTurn ==
  ASSUME SearchInv, node_stack # <<>>, top \notin completed, ~Raised
  PROVE  Placement!Turn(root)
<1>1. /\ Last \in Nat \ {0} /\ node_stack[Last] = top /\ node_stack[1] = root
      /\ root \in Steps /\ \A s \in 1 .. root - 1 : s \in completed
  BY DEF SearchInv, TypeOK, SearchesRoot, top, Last
<1>2. completed = Placement!Placed BY DEF SearchInv, CompletedIsPlaced, Placement!Placed
<1>3. root \notin completed
  <2>1. CASE Last = 1 BY <1>1, <2>1
  <2>2. CASE Last # 1
    <3>1. 2 \in 2 .. Last BY <1>1, <2>2
    <3>2. PICK j \in 1 .. 2 - 1 : Open(j) BY <3>1 DEF SearchInv, VisitIsPath, Last
    <3>3. j = 1 BY <3>2
    <3> QED BY <1>1, <3>2, <3>3 DEF Open, Visiting
  <2> QED BY <2>1, <2>2
<1> QED BY <1>1, <1>2, <1>3 DEF Placement!Turn, Placement!Steps, Steps

\* The node on top is on the way from the root: on the path of the nodes being
\* visited each is the first that the one below it still waits for.
LEMMA TopOnTheWay ==
  ASSUME SearchInv, node_stack # <<>>, top \notin completed, ~Raised
  PROVE  Placement!OnTheWay(top, root)
<1>1. /\ Last \in Nat \ {0} /\ node_stack[Last] = top /\ node_stack[1] = root
      /\ \A i \in 1 .. Last : node_stack[i] \in Steps
  BY DEF SearchInv, TypeOK, SearchesRoot, top, Last
<1>2. completed = Placement!Placed BY DEF SearchInv, CompletedIsPlaced, Placement!Placed
<1> SUFFICES ASSUME NEW D \in SUBSET Steps, root \in D, Placement!Follows(D),
                    top \notin D
             PROVE  FALSE
  BY DEF Placement!OnTheWay, Placement!Steps, Steps
<1> DEFINE Off == {i \in 1 .. Last : (i = Last \/ Open(i)) /\ node_stack[i] \notin D}
<1>3. PICK i \in Off : \A k \in Off : i <= k
  <2>1. Last \in Off BY <1>1
  <2>2. Off \in SUBSET Nat OBVIOUS
  <2> HIDE DEF Off
  <2> QED BY <2>1, <2>2, Smallest
<1>4. /\ i \in 1 .. Last /\ node_stack[i] \notin D /\ i # 1
      /\ i = Last \/ Open(i)
  BY <1>1, <1>3
<1>5. PICK j \in 1 .. i - 1 : Hangs(i, j)
  <2>1. i \in 2 .. Len(node_stack) BY <1>1, <1>4 DEF Last
  <2> QED BY <2>1 DEF SearchInv, VisitIsPath, Hangs
<1>6. j \in 1 .. Last /\ Open(j) /\ j \notin Off BY <1>1, <1>3, <1>4, <1>5 DEF Hangs
<1>7. node_stack[j] \in D BY <1>6
<1>8. node_stack[i] \in deps[node_stack[j]] \ completed
  BY <1>1, <1>4, <1>5 DEF Hangs, Open, Visiting
<1>9. ASSUME NEW o \in deps[node_stack[j]] \ completed
      PROVE  node_stack[i] <= o
  <2>1. PICK k \in j + 1 .. Last : Hangs(k, j) /\ node_stack[k] = o
    BY <1>6 DEF SearchInv, InOrder
  <2>2. ~(i < k)
    <3>1. CASE i = Last BY <1>1, <2>1, <3>1
    <3>2. CASE Open(i)
      <4>1. SUFFICES ASSUME i < k PROVE FALSE OBVIOUS
      <4>2. i \in j + 1 .. k - 1 BY <1>1, <1>4, <1>5, <2>1, <4>1
      <4> QED BY <2>1, <3>2, <4>2 DEF Hangs
    <3> QED BY <1>4, <3>1, <3>2
  <2>3. CASE k = i BY <1>1, <1>4, <2>1, <2>3 DEF Steps
  <2>4. CASE k # i
    <3>1. i \in j + 1 .. Last /\ k \in j + 1 .. i - 1
      BY <1>1, <1>4, <1>5, <2>1, <2>2, <2>4
    <3>2. node_stack[i] < node_stack[k]
      BY <1>5, <1>6, <2>1, <3>1 DEF SearchInv, InOrder
    <3> QED BY <1>1, <1>4, <2>1, <3>2 DEF Steps
  <2> QED BY <2>3, <2>4
<1>10. node_stack[i] \in D
  BY <1>2, <1>7, <1>8, <1>9 DEF Placement!Follows, Placement!Waits
<1> QED BY <1>4, <1>10

\* A step that completes is placed: all it depends on is, and it is on the way
\* from the step whose turn it is.
LEMMA CompletePlaces ==
  ASSUME SearchInv, Complete
  PROVE  \E s \in Steps : Placement!Place(s)
<1>1. PICK s \in Steps : s = top /\ s \in Visiting /\ node_stack[Last] = s
        /\ Last \in Nat \ {0}
  BY DEF SearchInv, TypeOK, Complete, top, Visiting, Last
<1>2. ~Raised /\ ~Raised' BY NotRaised DEF SearchInv
<1>3. completed = Placement!Placed BY DEF SearchInv, CompletedIsPlaced, Placement!Placed
<1>4. s \notin Placement!Placed BY <1>1, <1>3 DEF Visiting
<1>5. Placement!Waits(s) = {}
  <2>1. PICK i \in 1 .. Last :
          /\ LastAt(s, i)
          /\ \A d \in deps[s] : d \in completed
               \/ \E j \in i + 1 .. Last : node_stack[j] = d
    BY <1>1, <1>2 DEF SearchInv, AwaitsDeps
  <2>2. i = Last BY <1>1, <2>1 DEF LastAt, Last
  <2> QED BY <1>1, <1>3, <2>1, <2>2 DEF Placement!Waits
<1>6. node_stack # <<>> /\ top \notin completed BY DEF Complete
<1>7. Placement!Turn(root) /\ Placement!OnTheWay(s, root)
  BY <1>1, <1>2, <1>6, RootsTurn, TopOnTheWay
<1>8. root \in Steps BY <1>6 DEF SearchInv, SearchesRoot
<1>9. result' = Append(result, s) /\ UNCHANGED deps BY <1>1 DEF Complete
<1>10. UNCHANGED Raised BY DEF Complete, Raised
<1>11. Placement!Place(s)
  BY <1>2, <1>4, <1>5, <1>7, <1>8, <1>9, <1>10
  DEF Placement!Place, Placement!Steps, Steps
<1> QED BY <1>11

\* When a dependency of the top node is being visited, the nodes being visited
\* each depend on one of them: the next on the path, or the one just found.
LEMMA FoundIsCyclic ==
  ASSUME SearchInv, FindCycle
  PROVE  \E k \in Steps : Placement!Turn(k) /\ Placement!Cyclic(k)
<1> DEFINE C == Visiting \cup {top}
<1>1. /\ top \in Steps /\ Last \in Nat \ {0} /\ node_stack[Last] = top
      /\ top \notin Visiting /\ C \in SUBSET Steps /\ ~Raised
      /\ Visiting \subseteq Steps
  BY DEF SearchInv, TypeOK, FindCycle, top, Visiting, Last
<1>2. deps[top] \cap C # {}
  BY DEF FindCycle, Todo, Visiting
<1>3. ASSUME NEW s \in Visiting PROVE deps[s] \cap C # {}
  <2>1. PICK i \in 1 .. Last : LastAt(s, i)
    BY <1>1 DEF SearchInv, AwaitsDeps
  <2>2. node_stack[i] = s /\ Open(i) /\ i < Last
    BY <1>1, <2>1 DEF Open, LastAt, Last
  <2> DEFINE Above == {k \in i + 1 .. Last : k = Last \/ Open(k)}
  <2>3. PICK k \in Above : \A m \in Above : k <= m
    <3>1. Last \in Above BY <1>1, <2>2
    <3>2. Above \in SUBSET Nat BY <1>1
    <3> HIDE DEF Above
    <3> QED BY <3>1, <3>2, Smallest
  <2>4. k \in i + 1 .. Last /\ (k = Last \/ Open(k)) /\ \A m \in i + 1 .. k - 1 : ~Open(m)
    BY <1>1, <2>3
  <2>5. PICK j \in 1 .. k - 1 :
          /\ Open(j) /\ \A m \in j + 1 .. k - 1 : ~Open(m)
          /\ node_stack[k] \in deps[node_stack[j]]
    <3>1. k \in 2 .. Len(node_stack) BY <1>1, <2>4 DEF Last
    <3> QED BY <1>1, <3>1 DEF SearchInv, VisitIsPath
  <2>6. j = i
    <3>1. ~(j > i) BY <2>4, <2>5
    <3>2. ~(j < i) BY <2>2, <2>4, <2>5
    <3> QED BY <2>5, <3>1, <3>2
  <2>7. node_stack[k] \in C BY <1>1, <2>4 DEF Open
  <2> QED BY <2>2, <2>5, <2>6, <2>7
<1>4. \A s \in C : deps[s] \cap C # {} BY <1>2, <1>3
<1>5. ASSUME NEW s \in C PROVE Placement!NeededBy(s, root)
  <2>1. PICK i \in 1 .. Last : node_stack[i] = s
    BY <1>1 DEF SearchInv, AwaitsDeps, LastAt
  <2> QED BY <2>1 DEF SearchInv, SearchesRoot
<1>6. C # {} OBVIOUS
<1>7. node_stack # <<>> /\ top \notin completed BY DEF FindCycle
<1>8. root \in Steps BY <1>7 DEF SearchInv, SearchesRoot
<1>9. Placement!Turn(root) BY <1>1, <1>7, RootsTurn
<1> HIDE DEF C
<1>10. Placement!Cyclic(root)
  BY <1>1, <1>4, <1>5, <1>6 DEF Placement!Cyclic, Placement!Steps, Steps
<1> QED BY <1>8, <1>9, <1>10

LEMMA StepRefines ==
  ASSUME SearchInv, [Next]_vars
  PROVE  [Placement!Next]_(Placement!vars)
<1>1. CASE Complete
  BY <1>1, CompletePlaces DEF Placement!Next, Placement!Steps, Steps
<1>2. CASE FindCycle
  <2>1. ~Raised /\ Raised' BY <1>2, NotRaised DEF SearchInv
  <2>2. UNCHANGED <<deps, result>> BY <1>2 DEF FindCycle
  <2>3. Placement!Fail
    BY <1>2, <2>1, <2>2, FoundIsCyclic
    DEF Placement!Fail, Placement!Steps, Steps
  <2> QED BY <2>3 DEF Placement!Next
<1>3. CASE PushRoot
  BY <1>3 DEF PushRoot, Placement!vars, Raised
<1>4. CASE Pop BY <1>4 DEF Pop, Placement!vars, Raised
<1>5. CASE Expand BY <1>5 DEF Expand, Placement!vars, Raised
<1>6. CASE UNCHANGED vars BY <1>6 DEF vars, Placement!vars, Raised
<1> QED BY <1>1, <1>2, <1>3, <1>4, <1>5, <1>6 DEF Next

\* topo_sorted places the steps in the order StablePlacement determines (the
\* steps of the template in turn, before each what it still waits for in the
\* template's order) and fails only over a circular dependency of the step whose
\* turn it is, for every graph: the part of PlacesStably that is not about
\* termination.
THEOREM PlacesStablyAlways ==
  Spec => Placement!Init /\ [][Placement!Next]_(Placement!vars)
<1>1. Init => Placement!Init
  BY DEF Init, NoError, Raised, Placement!Init, Placement!Steps, Steps
<1>2. SearchInv /\ [Next]_vars => [Placement!Next]_(Placement!vars)
  BY StepRefines
<1> QED BY <1>1, <1>2, SearchCorrect, PTL DEF Spec

=============================================================================
