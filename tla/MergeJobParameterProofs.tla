---------------------- MODULE MergeJobParameterProofs ----------------------
(***************************************************************************)
(* Proofs about the merge of the definitions of one job parameter, for any *)
(* number of definitions over any values.                                  *)
(***************************************************************************)
EXTENDS MergeJobParameter, TLAPS

\* Some value is in every list of allowed values.
Common == \E w \in Values : InEveryList(w)

\* What the loop of _merge_allowed_values knows after the definitions at S.
AllowedSoFar(S) ==
    /\ constrained <=> \E j \in S : params[j].allowed # {}
    /\ allowed # {} => constrained
    /\ Common /\ constrained =>
         \A v \in Values :
           v \in allowed <=> \A j \in S : params[j].allowed # {} => v \in params[j].allowed

\* What the loops over the limits know: lo and hi bound what all of them do.
LimitsSoFar(S) ==
    /\ \A n \in Int : (\A l \in lo : l <= n) <=> \A j \in S : \A l \in params[j].lo : l <= n
    /\ \A n \in Int : (\A h \in hi : n <= h) <=> \A j \in S : \A h \in params[j].hi : n <= h

InLoops ==
    /\ params # <<>>
    /\ i \in 1 .. Len(params) + 1
    /\ at = "start" => i = 1
    /\ at \in {"allowed", "limits"} => ~Differ /\ Latest.type \in LegacyTypes
    /\ at # "end" => outcome = "pending" /\ merged = {}

LoopInv ==
    /\ InLoops
    /\ at \in {"start", "allowed"} => AllowedSoFar(1 .. (i - 1)) /\ lo = {} /\ hi = {}
    /\ at = "limits" =>
         /\ AllowedSoFar(Positions)
         /\ LimitsSoFar(1 .. (i - 1))
         /\ errors = PathErrors
                       \cup IF constrained /\ allowed = {} THEN {"allowedValues"} ELSE {}

----------------------------------------------------------------------------
(* The limits of two definitions, one of them possibly already merged.     *)

LEMMA GreatestOfTwo ==
    ASSUME NEW A \in SUBSET Int, NEW B \in SUBSET Int, Optional(A), Optional(B)
    PROVE  /\ Greatest(A \cup B) \in SUBSET Int
           /\ Optional(Greatest(A \cup B))
           /\ \A n \in Int : (\A x \in Greatest(A \cup B) : x <= n)
                               <=> (\A x \in A : x <= n) /\ (\A x \in B : x <= n)
<1>1. Greatest(A \cup B) \in SUBSET Int
  BY DEF Greatest
<1>2. Optional(Greatest(A \cup B))
  BY DEF Greatest, Optional
<1>3. ASSUME NEW n \in Int, \A x \in Greatest(A \cup B) : x <= n
      PROVE  \A x \in A \cup B : x <= n
  <2>1. CASE \E a \in A, b \in B : TRUE
    <3>1. PICK a \in A, b \in B : TRUE  BY <2>1
    <3>2. A = {a} /\ B = {b}  BY DEF Optional
    <3>3. CASE a <= b
      <4>1. b \in Greatest(A \cup B)  BY <3>2, <3>3 DEF Greatest
      <4> QED  BY <4>1, <3>2, <3>3, <1>3
    <3>4. CASE b <= a
      <4>1. a \in Greatest(A \cup B)  BY <3>2, <3>4 DEF Greatest
      <4> QED  BY <4>1, <3>2, <3>4, <1>3
    <3> QED  BY <3>2, <3>3, <3>4
  <2>2. CASE A = {} \/ B = {}
    <3>1. \A x \in A \cup B : x \in Greatest(A \cup B)
      BY <2>2 DEF Greatest, Optional
    <3> QED  BY <3>1, <1>3
  <2> QED  BY <2>1, <2>2
<1>4. Greatest(A \cup B) \subseteq A \cup B
  BY DEF Greatest
<1> QED  BY <1>1, <1>2, <1>3, <1>4

LEMMA LeastOfTwo ==
    ASSUME NEW A \in SUBSET Int, NEW B \in SUBSET Int, Optional(A), Optional(B)
    PROVE  /\ Least(A \cup B) \in SUBSET Int
           /\ Optional(Least(A \cup B))
           /\ \A n \in Int : (\A x \in Least(A \cup B) : n <= x)
                               <=> (\A x \in A : n <= x) /\ (\A x \in B : n <= x)
<1>1. Least(A \cup B) \in SUBSET Int
  BY DEF Least
<1>2. Optional(Least(A \cup B))
  BY DEF Least, Optional
<1>3. ASSUME NEW n \in Int, \A x \in Least(A \cup B) : n <= x
      PROVE  \A x \in A \cup B : n <= x
  <2>1. CASE \E a \in A, b \in B : TRUE
    <3>1. PICK a \in A, b \in B : TRUE  BY <2>1
    <3>2. A = {a} /\ B = {b}  BY DEF Optional
    <3>3. CASE a <= b
      <4>1. a \in Least(A \cup B)  BY <3>2, <3>3 DEF Least
      <4> QED  BY <4>1, <3>2, <3>3, <1>3
    <3>4. CASE b <= a
      <4>1. b \in Least(A \cup B)  BY <3>2, <3>4 DEF Least
      <4> QED  BY <4>1, <3>2, <3>4, <1>3
    <3> QED  BY <3>2, <3>3, <3>4
  <2>2. CASE A = {} \/ B = {}
    <3>1. \A x \in A \cup B : x \in Least(A \cup B)
      BY <2>2 DEF Least, Optional
    <3> QED  BY <3>1, <1>3
  <2> QED  BY <2>1, <2>2
<1>4. Least(A \cup B) \subseteq A \cup B
  BY DEF Least
<1> QED  BY <1>1, <1>2, <1>3, <1>4

----------------------------------------------------------------------------
(* Types.                                                                  *)

LEMMA PositionTypes ==
    ASSUME MergeTypeOK, NEW j \in Positions
    PROVE  /\ params[j] \in Definitions /\ params[j] \in AllDefinitions
           /\ Optional(params[j].lo) /\ Optional(params[j].hi)
<1>1. params[j] \in Definitions
  BY DEF MergeTypeOK, Positions
<1> QED  BY <1>1, MergeAssumption

LEMMA LatestTypes ==
    ASSUME MergeTypeOK, params # <<>>
    PROVE  Latest \in AllDefinitions /\ Len(params) \in Positions
<1>1. Len(params) \in Positions
  BY DEF MergeTypeOK, Positions
<1> QED  BY <1>1, PositionTypes DEF Latest

LEMMA MergedTypes ==
    ASSUME MergeTypeOK, params # <<>>
    PROVE  /\ MergedDefault \in SUBSET Values
           /\ MergedDefinition \in AllDefinitions
           /\ [Latest EXCEPT !.default = MergedDefault] \in AllDefinitions
<1>1. MergedDefault \in SUBSET Values
  <2>1. \A j \in Positions : params[j].default \in SUBSET Values
    BY PositionTypes DEF AllDefinitions
  <2> QED  BY <2>1 DEF MergedDefault, Greatest
<1>2. SaidObjectTypes \in SUBSET ObjectTypes
  <2>1. \A j \in Positions : params[j].objectType \in SUBSET ObjectTypes
    BY PositionTypes DEF AllDefinitions
  <2> QED  BY <2>1 DEF SaidObjectTypes
<1>3. SaidDataFlows \in SUBSET DataFlows
  <2>1. \A j \in Positions : params[j].dataFlow \in SUBSET DataFlows
    BY PositionTypes DEF AllDefinitions
  <2> QED  BY <2>1 DEF SaidDataFlows
<1>4. Latest \in AllDefinitions
  BY LatestTypes
<1>5. MergedDefinition \in AllDefinitions
  BY <1>1, <1>2, <1>3, <1>4 DEF MergedDefinition, AllDefinitions, MergeTypeOK
<1>6. [Latest EXCEPT !.default = MergedDefault] \in AllDefinitions
  BY <1>1, <1>4 DEF AllDefinitions
<1> QED  BY <1>1, <1>5, <1>6

LEMMA ErrorTypes ==
    /\ PathErrors \in SUBSET {"objectType", "dataFlow"}
    /\ LimitErrors \in SUBSET {"limits"}
  BY DEF PathErrors, LimitErrors


LEMMA TypeStep == MergeTypeOK /\ InLoops /\ [MergeStep]_mergeVars => MergeTypeOK'
<1> SUFFICES ASSUME MergeTypeOK, InLoops, [MergeStep]_mergeVars
             PROVE  MergeTypeOK'
  OBVIOUS
<1> USE DEF MergeTypeOK
<1>1. CASE TypesDiffer
  BY <1>1 DEF TypesDiffer, End, Places, Outcomes, Optional
<1>2. CASE Begin
  BY <1>2 DEF Begin, Places, Outcomes
<1>3. CASE TakeLast
  <2>1. [Latest EXCEPT !.default = MergedDefault] \in AllDefinitions
    BY <1>3, MergedTypes DEF InLoops
  <2> QED  BY <1>3, <2>1 DEF TakeLast, End, Places, Outcomes, Optional
<1>4. CASE Intersect
  <2>1. params[i].allowed \in SUBSET Values
    BY <1>4, PositionTypes DEF Intersect, InLoops, Positions, AllDefinitions
  <2> QED  BY <1>4, <2>1 DEF Intersect
<1>5. CASE AllowedDone
  BY <1>5, ErrorTypes DEF AllowedDone, Places
<1>6. CASE Tighten
  <2>1. i \in Positions
    BY <1>6 DEF Tighten, InLoops, Positions
  <2>2. /\ params[i].lo \in SUBSET Int /\ Optional(params[i].lo)
        /\ params[i].hi \in SUBSET Int /\ Optional(params[i].hi)
    BY <2>1, PositionTypes DEF AllDefinitions
  <2>3. lo' \in SUBSET Int /\ Optional(lo')
    BY <1>6, <2>2, GreatestOfTwo DEF Tighten
  <2>4. hi' \in SUBSET Int /\ Optional(hi')
    BY <1>6, <2>2, LeastOfTwo DEF Tighten
  <2>5. /\ i' \in Nat
        /\ UNCHANGED <<params, at, allowed, constrained, errors, outcome, merged>>
    BY <1>6 DEF Tighten
  <2>6. Optional(merged)'
    BY <2>5 DEF Optional
  <2> QED  BY <2>3, <2>4, <2>5, <2>6
<1>7. CASE Finish
  <2>1. MergedDefinition \in AllDefinitions
    BY MergedTypes DEF InLoops
  <2> QED  BY <1>7, <2>1, ErrorTypes DEF Finish, End, Places, Outcomes, Optional
<1>8. CASE UNCHANGED mergeVars
  BY <1>8 DEF mergeVars, Optional
<1> QED  BY <1>1, <1>2, <1>3, <1>4, <1>5, <1>6, <1>7, <1>8 DEF MergeStep

----------------------------------------------------------------------------
(* The loops.                                                              *)

LEMMA InLoopsStep == MergeTypeOK /\ InLoops /\ [MergeStep]_mergeVars => InLoops'
<1> SUFFICES ASSUME MergeTypeOK, InLoops, [MergeStep]_mergeVars
             PROVE  InLoops'
  OBVIOUS
<1> USE DEF InLoops, Differ, Latest, Positions
<1>1. CASE TypesDiffer  BY <1>1 DEF TypesDiffer, End
<1>2. CASE Begin        BY <1>2 DEF Begin
<1>3. CASE TakeLast     BY <1>3 DEF TakeLast, End
<1>4. CASE Intersect    BY <1>4 DEF Intersect, MergeTypeOK
<1>5. CASE AllowedDone  BY <1>5 DEF AllowedDone, MergeTypeOK
<1>6. CASE Tighten      BY <1>6 DEF Tighten, MergeTypeOK
<1>7. CASE Finish       BY <1>7 DEF Finish, End
<1>8. CASE UNCHANGED mergeVars  BY <1>8 DEF mergeVars
<1> QED  BY <1>1, <1>2, <1>3, <1>4, <1>5, <1>6, <1>7, <1>8 DEF MergeStep

LEMMA IntersectKeeps ==
    ASSUME MergeTypeOK, InLoops, AllowedSoFar(1 .. (i - 1)), Intersect
    PROVE  AllowedSoFar(1 .. (i - 1))'
<1> DEFINE list == params[i].allowed
<1>1. /\ i \in Positions /\ i' = i + 1 /\ params' = params
      /\ 1 .. (i' - 1) = (1 .. (i - 1)) \cup {i}
  BY DEF Intersect, InLoops, Positions, MergeTypeOK
<1>2. list \in SUBSET Values
  BY <1>1, PositionTypes DEF AllDefinitions
<1>3. /\ allowed' = IF list = {} THEN allowed
                    ELSE IF allowed = {} THEN list ELSE allowed \cap list
      /\ constrained' = (constrained \/ list # {})
  BY DEF Intersect
<1>4. (constrained <=> \E j \in 1 .. (i - 1) : params[j].allowed # {})'
  BY <1>1, <1>3 DEF AllowedSoFar
<1>5. (allowed # {} => constrained)'
  BY <1>3 DEF AllowedSoFar
<1>6. ASSUME Common', constrained', NEW v \in Values
      PROVE  v \in allowed' <=>
               \A j \in 1 .. (i' - 1) : params'[j].allowed # {} => v \in params'[j].allowed
  <2>1. PICK w \in Values : \A j \in Positions : params[j].allowed # {} => w \in params[j].allowed
    BY <1>1, <1>6 DEF Common, InEveryList, Positions
  <2>2. Common
    BY <2>1 DEF Common, InEveryList
  <2>3. 1 .. (i - 1) \subseteq Positions
    BY <1>1 DEF Positions, MergeTypeOK
  <2>4. CASE list = {}
    <3>1. constrained /\ allowed' = allowed
      BY <1>3, <1>6, <2>4
    <3> QED  BY <1>1, <2>2, <2>4, <3>1 DEF AllowedSoFar
  <2>5. CASE list # {} /\ ~constrained
    <3>1. allowed' = list /\ \A j \in 1 .. (i - 1) : params[j].allowed = {}
      BY <1>3, <2>5 DEF AllowedSoFar
    <3> QED  BY <1>1, <2>5, <3>1
  <2>6. CASE list # {} /\ constrained
    <3>1. w \in allowed
      BY <2>1, <2>2, <2>3, <2>6 DEF AllowedSoFar
    <3>2. allowed' = allowed \cap list
      BY <1>3, <2>6, <3>1
    <3>3. v \in allowed <=> \A j \in 1 .. (i - 1) : params[j].allowed # {} => v \in params[j].allowed
      BY <2>2, <2>6 DEF AllowedSoFar
    <3> QED  BY <1>1, <2>6, <3>2, <3>3
  <2> QED  BY <2>4, <2>5, <2>6
<1> QED  BY <1>4, <1>5, <1>6 DEF AllowedSoFar

LEMMA TightenKeeps ==
    ASSUME MergeTypeOK, InLoops, LimitsSoFar(1 .. (i - 1)), Tighten
    PROVE  LimitsSoFar(1 .. (i - 1))'
<1>1. /\ i \in Positions /\ i' = i + 1 /\ params' = params
      /\ 1 .. (i' - 1) = (1 .. (i - 1)) \cup {i}
  BY DEF Tighten, InLoops, Positions, MergeTypeOK
<1>2. /\ params[i].lo \in SUBSET Int /\ Optional(params[i].lo)
      /\ params[i].hi \in SUBSET Int /\ Optional(params[i].hi)
      /\ lo \in SUBSET Int /\ Optional(lo) /\ hi \in SUBSET Int /\ Optional(hi)
  BY <1>1, PositionTypes DEF AllDefinitions, MergeTypeOK
<1>3. ASSUME NEW n \in Int
      PROVE  (\A l \in lo' : l <= n)
               <=> \A j \in 1 .. (i' - 1) : \A l \in params'[j].lo : l <= n
  <2>1. (\A l \in lo' : l <= n) <=> (\A l \in lo : l <= n) /\ \A l \in params[i].lo : l <= n
    <3>1. lo' = Greatest(lo \cup params[i].lo)
      BY DEF Tighten
    <3>2. (\A l \in Greatest(lo \cup params[i].lo) : l <= n)
            <=> (\A l \in lo : l <= n) /\ \A l \in params[i].lo : l <= n
      BY <1>2, GreatestOfTwo
    <3> QED  BY <3>1, <3>2
  <2>2. (\A l \in lo : l <= n) <=> \A j \in 1 .. (i - 1) : \A l \in params[j].lo : l <= n
    BY DEF LimitsSoFar
  <2> QED  BY <1>1, <2>1, <2>2, Zenon
<1>4. ASSUME NEW n \in Int
      PROVE  (\A h \in hi' : n <= h)
               <=> \A j \in 1 .. (i' - 1) : \A h \in params'[j].hi : n <= h
  <2>1. (\A h \in hi' : n <= h) <=> (\A h \in hi : n <= h) /\ \A h \in params[i].hi : n <= h
    <3>1. hi' = Least(hi \cup params[i].hi)
      BY DEF Tighten
    <3>2. (\A h \in Least(hi \cup params[i].hi) : n <= h)
            <=> (\A h \in hi : n <= h) /\ \A h \in params[i].hi : n <= h
      BY <1>2, LeastOfTwo
    <3> QED  BY <3>1, <3>2
  <2>2. (\A h \in hi : n <= h) <=> \A j \in 1 .. (i - 1) : \A h \in params[j].hi : n <= h
    BY DEF LimitsSoFar
  <2> QED  BY <1>1, <2>1, <2>2, Zenon
<1> QED  BY <1>3, <1>4 DEF LimitsSoFar

LEMMA LoopStep == MergeTypeOK /\ LoopInv /\ [MergeStep]_mergeVars => LoopInv'
<1> SUFFICES ASSUME MergeTypeOK, LoopInv, [MergeStep]_mergeVars
             PROVE  LoopInv'
  OBVIOUS
<1>1. InLoops /\ InLoops'
  BY InLoopsStep DEF LoopInv
<1>2. CASE TypesDiffer
  BY <1>1, <1>2 DEF TypesDiffer, End, LoopInv
<1>3. CASE Begin
  BY <1>1, <1>3 DEF Begin, LoopInv, AllowedSoFar, Common, InEveryList, Positions
<1>4. CASE TakeLast
  BY <1>1, <1>4 DEF TakeLast, End, LoopInv
<1>5. CASE Intersect
  <2>1. AllowedSoFar(1 .. (i - 1))'
    BY <1>1, <1>5, IntersectKeeps DEF Intersect, LoopInv
  <2> QED  BY <1>1, <1>5, <2>1 DEF Intersect, LoopInv
<1>6. CASE AllowedDone
  <2>1. i = Len(params) + 1 /\ 1 .. (i - 1) = Positions
    BY <1>1, <1>6 DEF AllowedDone, InLoops, Positions, MergeTypeOK
  <2>2. AllowedSoFar(Positions)'
    <3>1. AllowedSoFar(Positions)
      BY <1>6, <2>1 DEF AllowedDone, LoopInv
    <3> QED  BY <1>6, <3>1 DEF AllowedDone, AllowedSoFar, Common, InEveryList, Positions
  <2>3. LimitsSoFar(1 .. (i - 1))'
    BY <1>6 DEF AllowedDone, LoopInv, LimitsSoFar
  <2>4. PathErrors' = PathErrors
    BY <1>6 DEF AllowedDone, PathErrors, Latest, AllObjectTypes, SaidDataFlows, Positions
  <2>5. (errors = PathErrors
                    \cup IF constrained /\ allowed = {} THEN {"allowedValues"} ELSE {})'
    BY <1>6, <2>4 DEF AllowedDone
  <2> QED  BY <1>1, <1>6, <2>2, <2>3, <2>5 DEF AllowedDone, LoopInv
<1>7. CASE Tighten
  <2>1. LimitsSoFar(1 .. (i - 1))'
    BY <1>1, <1>7, TightenKeeps DEF Tighten, LoopInv
  <2>2. AllowedSoFar(Positions)'
    BY <1>7 DEF Tighten, LoopInv, AllowedSoFar, Common, InEveryList, Positions
  <2>3. PathErrors' = PathErrors
    BY <1>7 DEF Tighten, PathErrors, Latest, AllObjectTypes, SaidDataFlows, Positions
  <2>4. (errors = PathErrors
                    \cup IF constrained /\ allowed = {} THEN {"allowedValues"} ELSE {})'
    BY <1>7, <2>3 DEF Tighten, LoopInv
  <2> QED  BY <1>1, <1>7, <2>1, <2>2, <2>4 DEF Tighten, LoopInv
<1>8. CASE Finish
  BY <1>1, <1>8 DEF Finish, End, LoopInv
<1>9. CASE UNCHANGED mergeVars
  <2>1. AllowedSoFar(1 .. (i - 1)) => AllowedSoFar(1 .. (i - 1))'
    BY <1>9 DEF mergeVars, AllowedSoFar, Common, InEveryList, Positions
  <2>2. AllowedSoFar(Positions) => AllowedSoFar(Positions)'
    BY <1>9 DEF mergeVars, AllowedSoFar, Common, InEveryList, Positions
  <2>3. LimitsSoFar(1 .. (i - 1)) => LimitsSoFar(1 .. (i - 1))'
    BY <1>9 DEF mergeVars, LimitsSoFar
  <2>4. PathErrors' = PathErrors
    BY <1>9 DEF mergeVars, PathErrors, Latest, AllObjectTypes, SaidDataFlows, Positions
  <2> QED  BY <1>1, <1>9, <2>1, <2>2, <2>3, <2>4 DEF mergeVars, LoopInv
<1> QED  BY <1>2, <1>3, <1>4, <1>5, <1>6, <1>7, <1>8, <1>9 DEF MergeStep

LEMMA Initially == MergeInit => MergeTypeOK /\ LoopInv /\ MergedIsExact /\ AgreeingMerge
<1> SUFFICES ASSUME NEW ps \in Seq(Definitions), ps # <<>>, Start(ps)
             PROVE  MergeTypeOK /\ LoopInv /\ MergedIsExact /\ AgreeingMerge
  BY DEF MergeInit
<1>1. MergeTypeOK
  BY DEF Start, MergeTypeOK, Places, Outcomes, Optional
<1>2. LoopInv
  BY DEF Start, LoopInv, InLoops, AllowedSoFar
<1> QED  BY <1>1, <1>2 DEF Start, MergedIsExact, AgreeingMerge

----------------------------------------------------------------------------
(* The merged definition.                                                  *)

LEMMA ExactLimits ==
    ASSUME MergeTypeOK, LimitsSoFar(Positions), NEW v \in Values
    PROVE  (\A l \in lo : l <= v.size) /\ (\A h \in hi : v.size <= h)
             <=> \A j \in Positions : InLimits(params[j], v)
<1>1. v.size \in Int
  BY MergeAssumption
<1>2. (\A l \in lo : l <= v.size) <=> \A j \in Positions : \A l \in params[j].lo : l <= v.size
  BY <1>1 DEF LimitsSoFar
<1>3. (\A h \in hi : v.size <= h) <=> \A j \in Positions : \A h \in params[j].hi : v.size <= h
  BY <1>1 DEF LimitsSoFar
<1> QED  BY <1>2, <1>3 DEF InLimits

LEMMA ExactDefinition ==
    ASSUME MergeTypeOK, AllowedSoFar(Positions), LimitsSoFar(Positions), Common,
           NEW v \in Values
    PROVE  Accepts(MergedDefinition, v) <=> AllAccept(v)
<1>1. /\ MergedDefinition.lo = lo /\ MergedDefinition.hi = hi
      /\ MergedDefinition.allowed = allowed
  BY DEF MergedDefinition
<1>2. InLimits(MergedDefinition, v) <=> \A j \in Positions : InLimits(params[j], v)
  BY <1>1, ExactLimits DEF InLimits
<1>3. (allowed # {} => v \in allowed) <=> InEveryList(v)
  <2>1. CASE constrained
    <3>1. PICK w \in Values : InEveryList(w)  BY DEF Common
    <3>2. \A u \in Values : u \in allowed <=> InEveryList(u)
      BY <2>1 DEF AllowedSoFar, InEveryList
    <3> QED  BY <3>1, <3>2
  <2>2. CASE ~constrained
    BY <2>2 DEF AllowedSoFar, InEveryList
  <2> QED  BY <2>1, <2>2
<1> QED  BY <1>1, <1>2, <1>3 DEF Accepts, AllAccept, InEveryList

LEMMA FinishKnows ==
    ASSUME MergeTypeOK, LoopInv, Finish
    PROVE  /\ AllowedSoFar(Positions) /\ LimitsSoFar(Positions)
           /\ errors = PathErrors
                         \cup IF constrained /\ allowed = {} THEN {"allowedValues"} ELSE {}
           /\ params' = params /\ ~Differ /\ Latest.type \in LegacyTypes
<1>1. 1 .. (i - 1) = Positions
  BY DEF Finish, LoopInv, InLoops, Positions, MergeTypeOK
<1> QED  BY <1>1 DEF Finish, LoopInv, InLoops

LEMMA ExactStep ==
    MergeTypeOK /\ LoopInv /\ MergedIsExact /\ [MergeStep]_mergeVars => MergedIsExact'
<1> SUFFICES ASSUME MergeTypeOK, LoopInv, MergedIsExact, [MergeStep]_mergeVars,
                    NEW m \in merged', m.type \in LegacyTypes,
                    NEW w \in Values, InEveryList(w)', NEW v \in Values
             PROVE  Accepts(m, v) <=> AllAccept(v)'
  BY DEF MergedIsExact
<1>1. CASE merged' = merged
  <2>1. params' = params
    BY DEF MergeStep, TypesDiffer, Begin, TakeLast, Intersect, AllowedDone, Tighten, Finish,
           mergeVars
  <2> QED  BY <1>1, <2>1 DEF MergedIsExact, InEveryList, AllAccept, Positions
<1>2. CASE TakeLast
  <2>1. params # <<>>
    BY DEF LoopInv, InLoops
  <2>2. m.type = Latest.type
    BY <1>2, <2>1, LatestTypes DEF TakeLast, End, AllDefinitions
  <2> QED  BY <1>2, <2>2 DEF TakeLast
<1>3. CASE Finish
  <2>1. m = MergedDefinition
    BY <1>3 DEF Finish, End
  <2>2. params' = params
    BY <1>3, FinishKnows
  <2>3. Common
    BY <2>2 DEF Common, InEveryList, Positions
  <2>4. Accepts(m, v) <=> AllAccept(v)
    BY <1>3, <2>1, <2>3, FinishKnows, ExactDefinition
  <2> QED  BY <2>2, <2>4 DEF AllAccept, Positions
<1>4. CASE TypesDiffer
  BY <1>4 DEF TypesDiffer, End
<1> QED  BY <1>1, <1>2, <1>3, <1>4
         DEF MergeStep, Begin, Intersect, AllowedDone, Tighten, mergeVars

----------------------------------------------------------------------------
(* What is rejected.                                                       *)

LEMMA AgreeingFinish ==
    ASSUME MergeTypeOK, LoopInv, Agree, Finish
    PROVE  outcome' = "merged"
<1>1. PICK w \in Values : AllAccept(w)
  BY DEF Agree
<1>2. InEveryList(w) /\ Common
  BY <1>1 DEF AllAccept, Accepts, InEveryList, Common
<1>3. Accepts(MergedDefinition, w)
  BY <1>1, <1>2, FinishKnows, ExactDefinition
<1>4. constrained => allowed # {}
  BY <1>2, FinishKnows DEF AllowedSoFar, InEveryList
<1>5. \A l \in lo, h \in hi : l <= w.size /\ w.size <= h
  BY <1>1, FinishKnows, ExactLimits DEF AllAccept, Accepts
<1>6. \A l \in lo, h \in hi : l <= h
  BY <1>5, MergeAssumption DEF MergeTypeOK
<1>7. LimitErrors = {}
  BY <1>6 DEF LimitErrors, MergeTypeOK
<1>8. errors' = {}
  BY <1>4, <1>7, FinishKnows DEF Finish, Agree
<1>9. ASSUME NEW v \in allowed
      PROVE  InLimits(MergedDefinition, v)
  <2>1. v \in Values /\ constrained
    BY <1>9, FinishKnows DEF MergeTypeOK, AllowedSoFar
  <2>2. InEveryList(v)
    BY <1>2, <2>1, FinishKnows DEF AllowedSoFar, InEveryList
  <2>3. \E j \in Positions : params[j].allowed # {}
    BY <2>1, FinishKnows DEF AllowedSoFar
  <2>4. AllAccept(v)
    BY <2>1, <2>2, <2>3 DEF Agree
  <2> QED  BY <1>2, <2>1, <2>4, FinishKnows, ExactDefinition DEF Accepts
<1>10. ASSUME NEW d \in MergedDefault
       PROVE  Accepts(MergedDefinition, d)
  <2>1. d \in Values /\ AllAccept(d)
    BY MergedTypes DEF Agree, LoopInv, InLoops
  <2> QED  BY <1>2, <2>1, FinishKnows, ExactDefinition
<1>11. Valid(MergedDefinition)
  BY <1>6, <1>9, <1>10 DEF Valid, MergedDefinition
<1> QED  BY <1>8, <1>11 DEF Finish, End

LEMMA AgreeingStep ==
    MergeTypeOK /\ LoopInv /\ AgreeingMerge /\ [MergeStep]_mergeVars => AgreeingMerge'
<1> SUFFICES ASSUME MergeTypeOK, LoopInv, AgreeingMerge, [MergeStep]_mergeVars, Agree',
                    outcome' \in {"CompatibilityError", "DecodeValidationError"}
             PROVE  FALSE
  BY DEF AgreeingMerge
<1>1. params' = params
  BY DEF MergeStep, TypesDiffer, Begin, TakeLast, Intersect, AllowedDone, Tighten, Finish,
         mergeVars
<1>2. Agree
  BY <1>1 DEF Agree, Differ, PathErrors, AllObjectTypes, SaidDataFlows, MergedDefault,
              AllAccept, InEveryList, Latest, Positions
<1>3. CASE outcome' = outcome
  BY <1>2, <1>3 DEF AgreeingMerge
<1>4. CASE TypesDiffer
  BY <1>2, <1>4 DEF TypesDiffer, Agree
<1>5. CASE TakeLast
  <2>1. PICK d \in MergedDefault : ~InLimits(Latest, d)
    BY <1>5 DEF TakeLast, End
  <2>2. AllAccept(d)
    BY <1>2, <2>1 DEF Agree
  <2> QED  BY <2>1, <2>2, LatestTypes DEF AllAccept, Accepts, Latest, LoopInv, InLoops
<1>6. CASE Finish
  BY <1>2, <1>6, AgreeingFinish
<1> QED  BY <1>3, <1>4, <1>5, <1>6
         DEF MergeStep, Begin, Intersect, AllowedDone, Tighten, mergeVars

----------------------------------------------------------------------------
(* The theorems.                                                           *)

LEMMA LoopsInvariant == MergeSpec => [](MergeTypeOK /\ LoopInv)
<1>1. MergeInit => MergeTypeOK /\ LoopInv
  BY Initially
<1>2. MergeTypeOK /\ LoopInv /\ [MergeStep]_mergeVars => (MergeTypeOK /\ LoopInv)'
  BY TypeStep, LoopStep DEF LoopInv
<1> QED  BY <1>1, <1>2, PTL DEF MergeSpec

\* The merge keeps its types, for any number of definitions.
THEOREM MergeTypeCorrect == MergeSpec => []MergeTypeOK
  BY LoopsInvariant, PTL

\* A merged definition accepts exactly what all the definitions accept, if
\* their lists of allowed values have a value in common.
THEOREM MergeIsExact == MergeSpec => []MergedIsExact
<1>1. MergeInit => MergedIsExact
  BY Initially
<1>2. MergeTypeOK /\ LoopInv /\ MergedIsExact /\ [MergeStep]_mergeVars => MergedIsExact'
  BY ExactStep
<1> QED  BY <1>1, <1>2, LoopsInvariant, PTL DEF MergeSpec

\* Definitions that agree are merged without an error.
THEOREM AgreeingIsMerged == MergeSpec => []AgreeingMerge
<1>1. MergeInit => AgreeingMerge
  BY Initially
<1>2. MergeTypeOK /\ LoopInv /\ AgreeingMerge /\ [MergeStep]_mergeVars => AgreeingMerge'
  BY AgreeingStep
<1> QED  BY <1>1, <1>2, LoopsInvariant, PTL DEF MergeSpec

=============================================================================
