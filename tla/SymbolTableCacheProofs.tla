------------------------ MODULE SymbolTableCacheProofs ------------------------
(***************************************************************************)
(* Theorems about SymbolTableCache for any number of threads, symbols,     *)
(* types, rules, path formats and changes.                                 *)
(***************************************************************************)
EXTENDS SymbolTableCache, TLAPS

----------------------------------------------------------------------------
(* The inductive invariant.                                                *)

\* Nothing is said of the types in the window that Serial leaves out.
Sure(p) == p = "types" => Serial

PartType(p) == IF p = "types" THEN TypeMaps ELSE IF p = "rules" THEN RuleLists
               ELSE IF p = "format" THEN Formats ELSE Vals

\* An evaluation has collected parts that it needs, the path format first.
CollectedOK(t) ==
    /\ got[t] = [p \in DOMAIN got[t] |-> got[t][p]]
    /\ DOMAIN got[t] \subseteq Needs(stage[t])
    /\ \A p \in DOMAIN got[t] : got[t][p] \in PartType(p)
    /\ pc[t] # "idle" /\ stage[t] = "table" => "format" \in DOMAIN got[t]
    /\ pc[t] # "read" => DOMAIN got[t] \cap Stored = {}

Typed ==
    /\ TypeOK
    /\ DOMAIN cache = Keys
    /\ landed => version < MaxVersion
    /\ now["types"] \in TypeMaps /\ now["rules"] \in RuleLists
    /\ may \in [Stored -> SUBSET Vals]
    /\ seen \in [Threads -> [Parts -> SUBSET Vals]]
    /\ DOMAIN got = Threads
    /\ \A t \in Threads : CollectedOK(t)
    /\ \A t \in Threads : pc[t] = "idle" => seen[t] = Idle /\ got[t] = NoParts
    /\ \A t \in Threads : pc[t] = "lookup" => cacheable[t]
    /\ \A t \in Threads : pc[t] = "check" => stage[t] = "table"

\* What a reader may meet is what the table has, and between a change and its
\* bump also what it had.
Current ==
    \A p \in Stored : now[p] \in may[p] /\ (~landed => may[p] = {now[p]})

\* An entry was made for its key, and under the present version it has parts
\* that may be read now.
EntriesKnown ==
    \A k \in Keys : \A e \in cache[k] :
      /\ k # "profile" => e.value["format"] = k
      /\ e.version = version =>
           \A p \in DOMAIN e.value \cap Stored : Sure(p) => e.value[p] \in may[p]

\* Since its beginning an evaluation could meet whatever may be read now; its
\* argument and the parts it has are among that.
Following ==
    \A t \in Threads :
      /\ \A p \in Stored : Sees(t, p) => may[p] \subseteq seen[t][p]
      /\ pc[t] # "idle" /\ stage[t] = "table" => TypesArgument(t) \in seen[t]["types"]
      /\ \A p \in DOMAIN got[t] : got[t][p] \in seen[t][p]

\* Up to the version's reading, whether the argument is empty tells whether the
\* table has types.
ArgumentsTell ==
    Serial =>
      \A t \in Threads :
        Exposed(t) =>
          /\ held[t] # "old"
          /\ held[t] = "none" <=> now["types"] = Untyped
          /\ pc[t] = "version" /\ cacheable[t] => held[t] # "untyped"

\* A thread whose result will be kept, and what it is made from.
Sharing(t) == pc[t] \in {"lookup", "read"} /\ cacheable[t]
MadeOf(t, S) ==
    /\ \A p \in DOMAIN got[t] \cap Stored : Sure(p) => got[t][p] \in S[p]
    /\ stage[t] = "table" /\ Serial => TypesArgument(t) \in S["types"]

\* What is made under the present version is made of parts that may be read now.
SharingKnown ==
    \A t \in Threads :
      Sharing(t) =>
        /\ stage[t] = "table" /\ Serial => held[t] # "untyped"
        /\ ver[t] = version => MadeOf(t, may)

\* What a thread may find under its version, now or later, is nothing but what
\* it could have met itself.
FindsSeen ==
    \A t \in Threads :
      pc[t] = "lookup" =>
        /\ \A e \in cache[Key(t)] :
             e.version = ver[t] =>
               \A p \in DOMAIN e.value \cap Stored : Sure(p) => e.value[p] \in seen[t][p]
        /\ \A u \in Threads :
             Sharing(u) /\ stage[u] = stage[t] /\ ver[u] = ver[t] => MadeOf(u, seen[t])

CacheInv ==
    /\ Typed /\ Current /\ EntriesKnown /\ Following /\ ArgumentsTell
    /\ SharingKnown /\ FindsSeen

LEMMA InitInv == Init => CacheInv
<1> SUFFICES ASSUME Init PROVE CacheInv OBVIOUS
<1> USE CacheAssumption DEF Init
<1>1. TypeOK
  <2>0. now \in [Stored -> Vals] OBVIOUS
  <2>1. version \in 0 .. MaxVersion OBVIOUS
  <2>2. \A k \in Keys : cache[k] = {} OBVIOUS
  <2>3. ver \in [Threads -> 0 .. version] OBVIOUS
  <2> QED BY <2>0, <2>1, <2>2, <2>3 DEF TypeOK
<1>2. Typed
  BY <1>1 DEF Typed, Stored, CollectedOK, NoParts, Needs, Idle, Parts, TableParts, Vals
<1>3. Current /\ EntriesKnown BY DEF Current, EntriesKnown, Keys
<1>4. Following BY DEF Following, Sees, NoParts
<1>5. ArgumentsTell /\ SharingKnown /\ FindsSeen
  BY DEF ArgumentsTell, Exposed, SharingKnown, Sharing, FindsSeen
<1> QED BY <1>2, <1>3, <1>4, <1>5 DEF CacheInv

----------------------------------------------------------------------------
(* Changes of the table.                                                   *)

\* What the four changes have in common: a part of the table lands, and the
\* argument of an evaluation stays what it was or is the new mapping.
Changes(p, v) ==
    /\ p \in Stored /\ v \in PartType(p) /\ Land(p, v)
    /\ torn' \in SUBSET Threads /\ kept' \in [Threads -> TypeMaps]
    /\ held' \in [Threads -> {"none", "untyped", "own", "old"}]
    /\ \A t \in Threads :
         /\ held'[t] = "untyped" <=> held[t] = "untyped"
         /\ held'[t] = "none" <=> held[t] = "none"
         /\ \/ TypesArgument(t)' = TypesArgument(t)
            \/ p = "types" /\ held[t] = "own" /\ TypesArgument(t)' = v
         /\ Serial /\ Exposed(t) => held'[t] = held[t]
    /\ p = "types" /\ Serial /\ (\E t \in Threads : Exposed(t)) =>
         (v = Untyped <=> now["types"] = Untyped)

LEMMA AreChanges ==
    ASSUME CacheInv,
           \/ \E n \in Names, v \in Values : SetSymbol(n, v)
           \/ \E m \in TypeMaps : ChangeTypes(m) \/ AssignTypes(m)
           \/ \E l \in RuleLists : AssignRules(l)
    PROVE  \E p \in Stored : \E v \in PartType(p) : Changes(p, v)
<1> USE CacheAssumption
<1>0. /\ TypeOK /\ now["types"] \in TypeMaps
      BY DEF CacheInv, Typed
<1>1. ASSUME NEW n \in Names, NEW v \in Values, SetSymbol(n, v)
      PROVE  n \in Stored /\ v \in PartType(n) /\ Changes(n, v)
  <2>1. n \in Stored /\ n # "types" /\ v \in PartType(n)
    BY DEF Stored, PartType, Vals
  <2>2. now'["types"] = now["types"] BY <1>1, <2>1, <1>0 DEF SetSymbol, Land, TypeOK
  <2>3. torn' \in SUBSET Threads BY <1>1, <1>0 DEF SetSymbol, TypeOK
  <2> QED BY <1>0, <1>1, <2>1, <2>2, <2>3 DEF SetSymbol, Changes, TypesArgument, TypeOK
<1>2. ASSUME NEW m \in TypeMaps, ChangeTypes(m)
      PROVE  "types" \in Stored /\ m \in PartType("types") /\ Changes("types", m)
  <2>1. "types" \in Stored /\ m \in PartType("types") BY DEF Stored, PartType
  <2>2. now'["types"] = m BY <1>2, <2>1, <1>0 DEF ChangeTypes, Land, TypeOK
  <2>3. Serial /\ (\E t \in Threads : Exposed(t)) => (m = Untyped <=> now["types"] = Untyped)
    BY <1>2 DEF ChangeTypes, TypesFree
  <2> QED BY <1>0, <1>2, <2>1, <2>2, <2>3 DEF ChangeTypes, Changes, TypesArgument, TypeOK
<1>3. ASSUME NEW m \in TypeMaps, AssignTypes(m)
      PROVE  "types" \in Stored /\ m \in PartType("types") /\ Changes("types", m)
  <2>1. "types" \in Stored /\ m \in PartType("types") BY DEF Stored, PartType
  <2>2. now'["types"] = m BY <1>3, <2>1, <1>0 DEF AssignTypes, Land, TypeOK
  <2>3. Serial => \A t \in Threads : ~Exposed(t) BY <1>3 DEF AssignTypes, TypesFree
  <2>4. /\ held' \in [Threads -> {"none", "untyped", "own", "old"}]
        /\ kept' \in [Threads -> TypeMaps]
        /\ torn' \in SUBSET Threads
    BY <1>3, <1>0 DEF AssignTypes, TypeOK
  <2>5. \A t \in Threads :
          /\ held'[t] = "untyped" <=> held[t] = "untyped"
          /\ held'[t] = "none" <=> held[t] = "none"
          /\ TypesArgument(t)' = TypesArgument(t)
    BY <1>3, <1>0 DEF AssignTypes, TypesArgument, TypeOK
  <2>6. Land("types", m) BY <1>3 DEF AssignTypes
  <2> QED BY <2>1, <2>3, <2>4, <2>5, <2>6 DEF Changes
<1>4. ASSUME NEW l \in RuleLists, AssignRules(l)
      PROVE  "rules" \in Stored /\ l \in PartType("rules") /\ Changes("rules", l)
  <2>1. "rules" \in Stored /\ l \in PartType("rules") BY DEF Stored, PartType
  <2>2. now'["types"] = now["types"] BY <1>4, <2>1, <1>0 DEF AssignRules, Land, TypeOK
  <2> QED BY <1>0, <1>4, <2>1, <2>2 DEF AssignRules, Changes, TypesArgument, TypeOK
<1> QED BY <1>1, <1>2, <1>3, <1>4

\* A change lets a part be read in two ways, which every evaluation under way
\* takes notice of.
LEMMA ChangesInv ==
    ASSUME CacheInv, NEW p \in Stored, NEW v \in PartType(p), Changes(p, v)
    PROVE  CacheInv'
<1> USE CacheAssumption
<1>0. Typed /\ TypeOK /\ Land(p, v) BY DEF CacheInv, Typed, Changes
<1>1. /\ now' = [now EXCEPT ![p] = v] /\ may' = [may EXCEPT ![p] = @ \cup {v}]
      /\ landed' = TRUE /\ version < MaxVersion /\ returned' = {}
      /\ seen' = [t \in Threads |->
                    IF Sees(t, p) THEN [seen[t] EXCEPT ![p] = @ \cup {v}] ELSE seen[t]]
      /\ UNCHANGED <<version, cache, pc, stage, cacheable, ver, got>>
  BY <1>0 DEF Land
<1>2. v \in Vals /\ p \in Parts BY DEF PartType, Stored, Vals, Parts, TableParts
<1>3. now \in [Stored -> Vals] /\ may \in [Stored -> SUBSET Vals]
      /\ seen \in [Threads -> [Parts -> SUBSET Vals]]
  BY <1>0 DEF Typed, TypeOK
<1>4. \A q \in Stored : may[q] \subseteq may'[q] BY <1>1, <1>3
<1>5. \A t \in Threads, q \in Parts : seen[t][q] \subseteq seen'[t][q] BY <1>1, <1>3
<1>6. \A t \in Threads : Sees(t, p) => v \in seen'[t][p] BY <1>1, <1>2, <1>3
<1>7. \A t \in Threads, q \in Parts : seen'[t][q] \subseteq Vals BY <1>1, <1>2, <1>3
<1>8. v \in may'[p] BY <1>1, <1>3
<1>9. \A t \in Threads : \A q : Sees(t, q)' <=> Sees(t, q)
  BY <1>1 DEF Sees, Changes
<1>10. Typed'
  <2>1. TypeOK'
    BY <1>0, <1>1, <1>2, <1>3 DEF TypeOK, Changes
  <2>2. now'["types"] \in TypeMaps /\ now'["rules"] \in RuleLists
    BY <1>0, <1>1, <1>3 DEF Typed, PartType, Stored
  <2>3. may' \in [Stored -> SUBSET Vals] BY <1>1, <1>2, <1>3
  <2>4. seen' \in [Threads -> [Parts -> SUBSET Vals]] BY <1>1, <1>2, <1>3
  <2>5. \A t \in Threads : CollectedOK(t)'
    BY <1>0, <1>1 DEF Typed, CollectedOK, Needs
  <2>6. \A t \in Threads : pc'[t] = "idle" => seen'[t] = Idle /\ got'[t] = NoParts
    BY <1>0, <1>1 DEF Typed, Sees
  <2> QED BY <1>0, <1>1, <2>1, <2>2, <2>3, <2>4, <2>5, <2>6 DEF Typed
<1>11. Current'
  BY <1>1, <1>3, <1>8, <1>4 DEF CacheInv, Current
<1>12. EntriesKnown'
  BY <1>1, <1>4 DEF CacheInv, EntriesKnown, Sure
<1>13. Following'
  <2> SUFFICES ASSUME NEW t \in Threads
               PROVE  /\ \A q \in Stored : Sees(t, q)' => may'[q] \subseteq seen'[t][q]
                      /\ pc'[t] # "idle" /\ stage'[t] = "table" =>
                           TypesArgument(t)' \in seen'[t]["types"]
                      /\ \A q \in DOMAIN got'[t] : got'[t][q] \in seen'[t][q]
    BY DEF Following
  <2>1. ASSUME NEW q \in Stored, Sees(t, q)' PROVE may'[q] \subseteq seen'[t][q]
    BY <1>1, <1>3, <1>5, <1>6, <1>9, <2>1 DEF CacheInv, Following, Stored, Parts, TableParts
  <2>2. ASSUME pc'[t] # "idle", stage'[t] = "table"
        PROVE  TypesArgument(t)' \in seen'[t]["types"]
    <3>1. pc[t] # "idle" /\ stage[t] = "table" BY <1>1, <2>2
    <3>2. "types" \in Parts /\ "types" \in Needs("table") BY DEF Parts, TableParts, Needs
    <3>3. TypesArgument(t) \in seen'[t]["types"]
      BY <1>5, <3>1, <3>2 DEF CacheInv, Following
    <3>4. p = "types" /\ held[t] = "own" => v \in seen'[t]["types"]
      BY <1>6, <3>1, <3>2 DEF Sees
    <3> QED BY <3>3, <3>4 DEF Changes
  <2>3. \A q \in DOMAIN got[t] : q \in Parts
    BY <1>0 DEF Typed, CollectedOK, Needs, Parts
  <2>4. \A q \in DOMAIN got'[t] : got'[t][q] \in seen'[t][q]
    BY <1>1, <1>5, <2>3 DEF CacheInv, Following
  <2> QED BY <2>1, <2>2, <2>4
<1>14. ArgumentsTell'
  <2> SUFFICES ASSUME Serial, NEW t \in Threads, Exposed(t)'
               PROVE  /\ held'[t] # "old"
                      /\ held'[t] = "none" <=> now'["types"] = Untyped
                      /\ pc'[t] = "version" /\ cacheable'[t] => held'[t] # "untyped"
    BY DEF ArgumentsTell
  <2>1. Exposed(t) BY <1>1 DEF Exposed
  <2>2. held'[t] = held[t] BY <2>1 DEF Changes
  <2>3. now'["types"] = Untyped <=> now["types"] = Untyped
    BY <1>1, <1>3, <2>1 DEF Changes, Stored
  <2> QED BY <1>1, <2>1, <2>2, <2>3 DEF CacheInv, ArgumentsTell
<1>15. SharingKnown'
  <2> SUFFICES ASSUME NEW t \in Threads, Sharing(t)'
               PROVE  /\ stage'[t] = "table" /\ Serial => held'[t] # "untyped"
                      /\ ver'[t] = version' => MadeOf(t, may)'
    BY DEF SharingKnown
  <2>1. Sharing(t) BY <1>1 DEF Sharing
  <2>2. stage'[t] = "table" /\ Serial => held'[t] # "untyped"
    BY <1>1, <2>1 DEF CacheInv, SharingKnown, Changes
  <2>3. ASSUME ver'[t] = version' PROVE MadeOf(t, may)'
    <3>1. MadeOf(t, may) BY <1>1, <2>1, <2>3 DEF CacheInv, SharingKnown
    <3>2. "types" \in Stored BY DEF Stored
    <3>3. stage[t] = "table" /\ Serial => TypesArgument(t)' \in may'["types"]
      BY <3>1, <3>2, <1>4, <1>8 DEF MadeOf, Changes
    <3> QED BY <1>1, <1>4, <3>1, <3>3 DEF MadeOf, Sure
  <2> QED BY <2>2, <2>3
<1>16. FindsSeen'
  <2> SUFFICES ASSUME NEW t \in Threads, pc'[t] = "lookup"
               PROVE  /\ \A e \in cache'[Key(t)'] :
                           e.version = ver'[t] =>
                             \A q \in DOMAIN e.value \cap Stored :
                               Sure(q) => e.value[q] \in seen'[t][q]
                      /\ \A u \in Threads :
                           Sharing(u)' /\ stage'[u] = stage'[t] /\ ver'[u] = ver'[t] =>
                             MadeOf(u, seen[t])'
    BY DEF FindsSeen, Sure
  <2>1. pc[t] = "lookup" /\ Key(t)' = Key(t) BY <1>1 DEF Key
  <2>2. Stored \subseteq Parts BY DEF Stored, Parts, TableParts
  <2>3. \A e \in cache'[Key(t)'] :
          e.version = ver'[t] =>
            \A q \in DOMAIN e.value \cap Stored : Sure(q) => e.value[q] \in seen'[t][q]
    BY <1>1, <1>5, <2>1, <2>2 DEF CacheInv, FindsSeen
  <2>4. ASSUME NEW u \in Threads, Sharing(u)', stage'[u] = stage'[t], ver'[u] = ver'[t]
        PROVE  MadeOf(u, seen[t])'
    <3>1. Sharing(u) /\ Sharing(t) BY <1>0, <1>1, <2>1, <2>4 DEF Sharing, Typed
    <3>2. MadeOf(u, seen[t]) BY <1>1, <2>1, <2>4, <3>1 DEF CacheInv, FindsSeen
    <3>3. ASSUME stage[u] = "table", Serial PROVE TypesArgument(u)' \in seen'[t]["types"]
      <4>1. held[t] # "untyped" /\ stage[t] = "table"
        BY <1>1, <2>4, <3>1, <3>3 DEF CacheInv, SharingKnown
      <4>2. Sees(t, "types") BY <4>1, <2>1 DEF Sees, Needs, TableParts
      <4>3. TypesArgument(u) \in seen'[t]["types"]
        BY <1>5, <2>2, <3>2, <3>3 DEF MadeOf, Stored
      <4>4. p = "types" => v \in seen'[t]["types"] BY <1>6, <4>2
      <4> QED BY <4>3, <4>4 DEF Changes
    <3>4. \A q \in DOMAIN got[u] \cap Stored : Sure(q) => got[u][q] \in seen'[t][q]
      BY <1>5, <2>2, <3>2 DEF MadeOf
    <3> QED BY <1>1, <3>3, <3>4 DEF MadeOf, Sure
  <2> QED BY <2>3, <2>4
<1> QED BY <1>10, <1>11, <1>12, <1>13, <1>14, <1>15, <1>16 DEF CacheInv

\* The version goes up, and nothing is kept or built under it yet.
LEMMA BumpInv == ASSUME CacheInv, Bump PROVE CacheInv'
<1> USE CacheAssumption
<1>0. Typed /\ TypeOK /\ Current /\ landed BY DEF CacheInv, Typed, Bump
<1>1. /\ landed' = FALSE /\ version' = version + 1
      /\ may' = [p \in Stored |-> {now[p]}] /\ returned' = {}
      /\ UNCHANGED <<now, cache, pc, stage, held, kept, cacheable, ver, got, torn, seen>>
  BY DEF Bump, threadVars
<1>2. version \in 0 .. MaxVersion /\ version < MaxVersion BY <1>0 DEF Typed, TypeOK
<1>3. now \in [Stored -> Vals] BY <1>0 DEF TypeOK
<1>4. \A p \in Stored : may'[p] = {now'[p]} /\ may'[p] \subseteq may[p]
  BY <1>0, <1>1 DEF Current
<1>5. \A k \in Keys : \A e \in cache'[k] : e.version # version'
  BY <1>0, <1>1, <1>2 DEF TypeOK
<1>6. \A t \in Threads : ver'[t] # version' BY <1>0, <1>1, <1>2 DEF TypeOK
<1>7. Typed'
  <2>1. version' \in 0 .. MaxVersion BY <1>1, <1>2
  <2>2. ver' \in [Threads -> 0 .. version'] BY <1>0, <1>1, <1>2 DEF TypeOK
  <2>3. \A k \in Keys : \A e \in cache'[k] :
          e.version \in 0 .. version' /\ e.value \in EntryValues(k)
    BY <1>0, <1>1, <1>2 DEF TypeOK
  <2>4. TypeOK' BY <1>0, <1>1, <2>1, <2>2, <2>3 DEF TypeOK
  <2>5. may' \in [Stored -> SUBSET Vals] BY <1>1, <1>3
  <2> QED BY <1>0, <1>1, <2>4, <2>5 DEF Typed, CollectedOK
<1>8. Current' BY <1>4 DEF Current
<1>9. EntriesKnown' BY <1>1, <1>5 DEF CacheInv, EntriesKnown
<1>10. Following'
  BY <1>1, <1>4 DEF CacheInv, Following, Sees, TypesArgument
<1>11. ArgumentsTell' BY <1>1 DEF CacheInv, ArgumentsTell, Exposed
<1>12. SharingKnown' BY <1>1, <1>6 DEF CacheInv, SharingKnown, Sharing
<1>13. FindsSeen'
  BY <1>1 DEF CacheInv, FindsSeen, Sharing, MadeOf, TypesArgument, Key, Sure
<1> QED BY <1>7, <1>8, <1>9, <1>10, <1>11, <1>12, <1>13 DEF CacheInv

----------------------------------------------------------------------------
(* Evaluations.  A step of one thread leaves the table, and the threads     *)
(* beside it, as they are.                                                  *)

Beside(t) ==
    /\ UNCHANGED <<now, version, landed, may>>
    /\ \A u \in Threads \ {t} :
         /\ pc'[u] = pc[u] /\ stage'[u] = stage[u] /\ held'[u] = held[u]
         /\ kept'[u] = kept[u] /\ cacheable'[u] = cacheable[u] /\ ver'[u] = ver[u]
         /\ got'[u] = got[u] /\ seen'[u] = seen[u]

\* What the invariant says of each thread is still true of the others, if the
\* cache has nothing that they must not find, and the thread shares nothing
\* that is strange to them.
LEMMA OthersKeep ==
    ASSUME CacheInv, NEW t \in Threads, Beside(t), NEW u \in Threads \ {t}
    PROVE  /\ CollectedOK(u)'
           /\ \A p \in Stored : Sees(u, p)' => may'[p] \subseteq seen'[u][p]
           /\ pc'[u] # "idle" /\ stage'[u] = "table" =>
                TypesArgument(u)' \in seen'[u]["types"]
           /\ \A p \in DOMAIN got'[u] : got'[u][p] \in seen'[u][p]
           /\ pc'[u] = "idle" => seen'[u] = Idle /\ got'[u] = NoParts
           /\ pc'[u] = "lookup" => cacheable'[u]
           /\ pc'[u] = "check" => stage'[u] = "table"
           /\ Serial /\ Exposed(u)' =>
                /\ held'[u] # "old"
                /\ held'[u] = "none" <=> now'["types"] = Untyped
                /\ pc'[u] = "version" /\ cacheable'[u] => held'[u] # "untyped"
           /\ Sharing(u)' <=> Sharing(u)
           /\ Sharing(u)' =>
                /\ stage'[u] = "table" /\ Serial => held'[u] # "untyped"
                /\ ver'[u] = version' => MadeOf(u, may)'
<1>1. TypesArgument(u)' = TypesArgument(u) BY DEF Beside, TypesArgument
<1>2. CollectedOK(u)' BY DEF CacheInv, Typed, CollectedOK, Beside, Needs
<1>3. /\ pc'[u] = "idle" => seen'[u] = Idle /\ got'[u] = NoParts
      /\ pc'[u] = "lookup" => cacheable'[u]
      /\ pc'[u] = "check" => stage'[u] = "table"
  BY DEF CacheInv, Typed, Beside
<1>4. /\ \A p \in Stored : Sees(u, p)' => may'[p] \subseteq seen'[u][p]
      /\ pc'[u] # "idle" /\ stage'[u] = "table" => TypesArgument(u)' \in seen'[u]["types"]
      /\ \A p \in DOMAIN got'[u] : got'[u][p] \in seen'[u][p]
  BY <1>1 DEF CacheInv, Following, Beside, Sees
<1>5. Serial /\ Exposed(u)' =>
        /\ held'[u] # "old"
        /\ held'[u] = "none" <=> now'["types"] = Untyped
        /\ pc'[u] = "version" /\ cacheable'[u] => held'[u] # "untyped"
  BY DEF CacheInv, ArgumentsTell, Exposed, Beside
<1>6. Sharing(u)' <=> Sharing(u) BY DEF Sharing, Beside
<1>7. MadeOf(u, may) => MadeOf(u, may)' BY <1>1 DEF MadeOf, Beside, Sure
<1>8. Sharing(u)' =>
        /\ stage'[u] = "table" /\ Serial => held'[u] # "untyped"
        /\ ver'[u] = version' => MadeOf(u, may)'
  BY <1>6, <1>7 DEF CacheInv, SharingKnown, Beside
<1> QED BY <1>2, <1>3, <1>4, <1>5, <1>6, <1>8

\* What one thread has to show, when it leaves the cache alone, for the
\* invariant to hold after its step.
LEMMA StepKeeps ==
    ASSUME CacheInv, NEW t \in Threads, Beside(t), TypeOK', UNCHANGED cache,
           seen' \in [Threads -> [Parts -> SUBSET Vals]], DOMAIN got' = Threads,
           CollectedOK(t)',
           pc'[t] = "idle" => seen'[t] = Idle /\ got'[t] = NoParts,
           pc'[t] = "lookup" => cacheable'[t],
           pc'[t] = "check" => stage'[t] = "table",
           \A p \in Stored : Sees(t, p)' => may'[p] \subseteq seen'[t][p],
           pc'[t] # "idle" /\ stage'[t] = "table" => TypesArgument(t)' \in seen'[t]["types"],
           \A p \in DOMAIN got'[t] : got'[t][p] \in seen'[t][p],
           Serial /\ Exposed(t)' =>
             /\ held'[t] # "old"
             /\ held'[t] = "none" <=> now'["types"] = Untyped
             /\ pc'[t] = "version" /\ cacheable'[t] => held'[t] # "untyped",
           Sharing(t)' =>
             /\ stage'[t] = "table" /\ Serial => held'[t] # "untyped"
             /\ ver'[t] = version' => MadeOf(t, may)'
             /\ \A u \in Threads \ {t} :
                  pc[u] = "lookup" /\ stage[u] = stage'[t] /\ ver[u] = ver'[t] =>
                    MadeOf(t, seen[u])',
           pc'[t] = "lookup" =>
             /\ \A e \in cache'[Key(t)'] :
                  e.version = ver'[t] =>
                    \A p \in DOMAIN e.value \cap Stored : Sure(p) => e.value[p] \in seen'[t][p]
             /\ \A u \in Threads :
                  Sharing(u)' /\ stage'[u] = stage'[t] /\ ver'[u] = ver'[t] =>
                    MadeOf(u, seen[t])'
    PROVE  CacheInv'
<1>1. Typed'
  <2>1. \A u \in Threads : CollectedOK(u)' BY OthersKeep
  <2>2. \A u \in Threads :
          /\ pc'[u] = "idle" => seen'[u] = Idle /\ got'[u] = NoParts
          /\ pc'[u] = "lookup" => cacheable'[u]
          /\ pc'[u] = "check" => stage'[u] = "table"
    BY OthersKeep
  <2>3. /\ DOMAIN cache' = Keys /\ (landed' => version' < MaxVersion)
        /\ now'["types"] \in TypeMaps /\ now'["rules"] \in RuleLists
        /\ may' \in [Stored -> SUBSET Vals]
    BY DEF CacheInv, Typed, Beside
  <2> QED BY <2>1, <2>2, <2>3 DEF Typed
<1>2. Current' BY DEF CacheInv, Current, Beside
<1>3. EntriesKnown' BY DEF CacheInv, EntriesKnown, Beside, Sure
<1>4. Following' BY OthersKeep DEF Following
<1>5. ArgumentsTell' BY OthersKeep DEF ArgumentsTell
<1>6. SharingKnown' BY OthersKeep DEF SharingKnown
<1>7. FindsSeen'
  <2> SUFFICES ASSUME NEW u \in Threads \ {t}, pc'[u] = "lookup"
               PROVE  /\ \A e \in cache'[Key(u)'] :
                           e.version = ver'[u] =>
                             \A p \in DOMAIN e.value \cap Stored :
                               Sure(p) => e.value[p] \in seen'[u][p]
                      /\ \A w \in Threads :
                           Sharing(w)' /\ stage'[w] = stage'[u] /\ ver'[w] = ver'[u] =>
                             MadeOf(w, seen[u])'
    BY DEF FindsSeen, Sure
  <2>1. pc[u] = "lookup" /\ Key(u)' = Key(u) BY DEF Beside, Key
  <2>2. \A e \in cache'[Key(u)'] :
          e.version = ver'[u] =>
            \A p \in DOMAIN e.value \cap Stored : Sure(p) => e.value[p] \in seen'[u][p]
    BY <2>1 DEF CacheInv, FindsSeen, Beside
  <2>3. ASSUME NEW w \in Threads \ {t}, Sharing(w)', stage'[w] = stage'[u], ver'[w] = ver'[u]
        PROVE  MadeOf(w, seen[u])'
    <3>1. Sharing(w) BY <2>3, OthersKeep
    <3>2. MadeOf(w, seen[u]) BY <2>1, <2>3, <3>1 DEF CacheInv, FindsSeen, Beside
    <3> QED BY <3>2 DEF MadeOf, Beside, TypesArgument, Sure
  <2>4. Sharing(t)' /\ stage'[t] = stage'[u] /\ ver'[t] = ver'[u] => MadeOf(t, seen[u])'
    BY <2>1 DEF Beside
  <2> QED BY <2>2, <2>3, <2>4
<1> QED BY <1>1, <1>2, <1>3, <1>4, <1>5, <1>6, <1>7 DEF CacheInv

\* An evaluation begins with what may be read now before it.
LEMMA BeginInv ==
    ASSUME CacheInv, NEW t \in Threads, NEW f \in Formats, NEW typed \in BOOLEAN,
           Begin(t, f, typed)
    PROVE  CacheInv'
<1> USE CacheAssumption
<1>0. Typed /\ TypeOK /\ pc[t] = "idle" BY DEF CacheInv, Typed, Begin
<1>1. /\ pc' = [pc EXCEPT ![t] = "check"]
      /\ stage' = [stage EXCEPT ![t] = "table"]
      /\ held' = [held EXCEPT ![t] =
                    IF now["types"] = Untyped THEN "none"
                    ELSE IF typed THEN "own" ELSE "untyped"]
      /\ got' = [got EXCEPT ![t] = [p \in {"format"} |-> f]]
      /\ seen' = [seen EXCEPT ![t] =
                    [p \in Parts |-> IF p = "rules" THEN {} ELSE IF p = "format" THEN {f}
                                     ELSE IF p = "types" /\ held'[t] = "untyped" THEN {Untyped}
                                     ELSE may[p]]]
      /\ UNCHANGED <<now, version, landed, cache, kept, cacheable, ver, torn, may>>
  BY DEF Begin, tableVars
<1>2. /\ pc'[t] = "check" /\ stage'[t] = "table"
      /\ held'[t] \in {"none", "own", "untyped"}
      /\ held'[t] = "none" <=> now["types"] = Untyped
      /\ got'[t] = [p \in {"format"} |-> f]
  BY <1>0, <1>1 DEF Typed, TypeOK
<1>3. seen'[t] = [p \in Parts |-> IF p = "rules" THEN {} ELSE IF p = "format" THEN {f}
                                 ELSE IF p = "types" /\ held'[t] = "untyped" THEN {Untyped}
                                 ELSE may[p]]
  BY <1>0, <1>1 DEF Typed
<1>4. Parts = Names \cup {"types", "format", "rules"} /\ Stored = Names \cup {"types", "rules"}
      /\ Needs("table") = Names \cup {"types", "format"}
  BY DEF Parts, TableParts, Stored, Needs
<1>5. now["types"] \in may["types"] BY <1>4 DEF CacheInv, Current
<1>6. Beside(t) BY <1>0, <1>1 DEF Beside, Typed, TypeOK
<1>7. TypeOK' BY <1>0, <1>1 DEF TypeOK
<1>8. seen' \in [Threads -> [Parts -> SUBSET Vals]]
  <2>1. may \in [Stored -> SUBSET Vals] BY <1>0 DEF Typed
  <2>2. {f} \subseteq Vals /\ {Untyped} \subseteq Vals BY DEF Vals
  <2>3. seen'[t] \in [Parts -> SUBSET Vals] BY <1>3, <1>4, <2>1, <2>2
  <2> QED BY <1>0, <1>1, <2>3 DEF Typed
<1>9. CollectedOK(t)'
  BY <1>2, <1>4 DEF CollectedOK, PartType, Stored
<1>10. \A p \in Stored : Sees(t, p)' => may'[p] \subseteq seen'[t][p]
  BY <1>1, <1>2, <1>3, <1>4 DEF Sees
<1>11. TypesArgument(t)' \in seen'[t]["types"]
  <2>1. seen'[t]["types"] = IF held'[t] = "untyped" THEN {Untyped} ELSE may["types"]
    BY <1>3, <1>4
  <2> QED BY <1>1, <1>2, <1>5, <2>1 DEF TypesArgument
<1>12. \A p \in DOMAIN got'[t] : got'[t][p] \in seen'[t][p]
  BY <1>2, <1>3, <1>4
<1>13. DOMAIN got' = Threads BY <1>0, <1>1 DEF Typed
<1>14. ~Sharing(t)' BY <1>2 DEF Sharing
<1> QED
  BY <1>1, <1>2, <1>6, <1>7, <1>8, <1>9, <1>10, <1>11, <1>12, <1>13, <1>14, StepKeeps

LEMMA BeginProfileInv ==
    ASSUME CacheInv, NEW t \in Threads, BeginProfile(t)
    PROVE  CacheInv'
<1> USE CacheAssumption
<1>0. Typed /\ TypeOK /\ pc[t] = "idle" BY DEF CacheInv, Typed, BeginProfile
<1>1. /\ pc' = [pc EXCEPT ![t] = "version"]
      /\ stage' = [stage EXCEPT ![t] = "profile"]
      /\ cacheable' = [cacheable EXCEPT ![t] = TRUE]
      /\ seen' = [seen EXCEPT ![t] = [p \in Parts |-> IF p = "rules" THEN may[p] ELSE {}]]
      /\ UNCHANGED <<now, version, landed, cache, held, kept, ver, got, torn, may>>
  BY DEF BeginProfile, tableVars
<1>2. /\ pc'[t] = "version" /\ stage'[t] = "profile" /\ got'[t] = NoParts
      /\ seen'[t] = [p \in Parts |-> IF p = "rules" THEN may[p] ELSE {}]
  BY <1>0, <1>1 DEF Typed, TypeOK
<1>3. Stored \subseteq Parts /\ "rules" \in Stored /\ "types" \in Stored
  BY DEF Parts, TableParts, Stored
<1>4. Beside(t) BY <1>0, <1>1 DEF Beside, Typed, TypeOK
<1>5. TypeOK' BY <1>0, <1>1 DEF TypeOK
<1>6. seen' \in [Threads -> [Parts -> SUBSET Vals]]
  BY <1>0, <1>1, <1>3 DEF Typed
<1>7. DOMAIN got'[t] = {} BY <1>2 DEF NoParts
<1>8. CollectedOK(t)' BY <1>2, <1>7 DEF CollectedOK, NoParts
<1>9. \A p \in Stored : Sees(t, p)' => may'[p] \subseteq seen'[t][p]
  BY <1>1, <1>2, <1>3 DEF Sees, Needs
<1>10. DOMAIN got' = Threads BY <1>0, <1>1 DEF Typed
<1>11. ~Sharing(t)' /\ ~Exposed(t)' BY <1>2 DEF Sharing, Exposed
<1> QED BY <1>1, <1>2, <1>4, <1>5, <1>6, <1>7, <1>8, <1>9, <1>10, <1>11, StepKeeps

\* An empty argument was decided upon while the table had no types.
LEMMA CheckInv == ASSUME CacheInv, NEW t \in Threads, Check(t) PROVE CacheInv'
<1> USE CacheAssumption
<1>0. Typed /\ TypeOK /\ pc[t] = "check" /\ stage[t] = "table" BY DEF CacheInv, Typed, Check
<1>1. /\ pc' = [pc EXCEPT ![t] = "version"]
      /\ cacheable' = [cacheable EXCEPT ![t] =
                         held[t] = "own" \/ (held[t] # "old" /\ now["types"] = Untyped)]
      /\ UNCHANGED <<now, version, landed, cache, stage, held, kept, ver, got, torn, may, seen>>
  BY DEF Check, tableVars, quiet
<1>2. pc'[t] = "version"
      /\ (cacheable'[t] <=> held[t] = "own" \/ (held[t] # "old" /\ now["types"] = Untyped))
  BY <1>0, <1>1 DEF TypeOK
<1>3. Beside(t) BY <1>0, <1>1 DEF Beside, TypeOK
<1>4. TypeOK' BY <1>0, <1>1 DEF TypeOK
<1>5. CollectedOK(t)'
  BY <1>0, <1>1, <1>2 DEF Typed, CollectedOK, Needs
<1>6. /\ \A p \in Stored : Sees(t, p)' => may'[p] \subseteq seen'[t][p]
      /\ TypesArgument(t)' \in seen'[t]["types"]
      /\ \A p \in DOMAIN got'[t] : got'[t][p] \in seen'[t][p]
  BY <1>0, <1>1, <1>2 DEF CacheInv, Following, Sees, TypesArgument
<1>7. Serial /\ Exposed(t)' =>
        /\ held'[t] # "old"
        /\ held'[t] = "none" <=> now'["types"] = Untyped
        /\ pc'[t] = "version" /\ cacheable'[t] => held'[t] # "untyped"
  BY <1>0, <1>1, <1>2 DEF CacheInv, ArgumentsTell, Exposed
<1>8. DOMAIN got' = Threads /\ seen' \in [Threads -> [Parts -> SUBSET Vals]]
  BY <1>0, <1>1 DEF Typed
<1>9. ~Sharing(t)' BY <1>2 DEF Sharing
<1> QED BY <1>0, <1>1, <1>2, <1>3, <1>4, <1>5, <1>6, <1>7, <1>8, <1>9, StepKeeps

\* Whatever is built under the version that is read now, or was kept under it,
\* is made of parts that may be read now.
LEMMA ReadVersionInv == ASSUME CacheInv, NEW t \in Threads, ReadVersion(t) PROVE CacheInv'
<1> USE CacheAssumption
<1>0. Typed /\ TypeOK /\ pc[t] = "version" BY DEF CacheInv, Typed, ReadVersion
<1>1. /\ ver' = [ver EXCEPT ![t] = version]
      /\ pc' = [pc EXCEPT ![t] = IF cacheable[t] THEN "lookup" ELSE "read"]
      /\ UNCHANGED <<now, version, landed, cache, stage, held, kept, cacheable, got, torn, may, seen>>
  BY DEF ReadVersion, tableVars, quiet
<1>2. /\ ver'[t] = version /\ pc'[t] = IF cacheable[t] THEN "lookup" ELSE "read"
      /\ TypesArgument(t)' = TypesArgument(t)
  BY <1>0, <1>1 DEF TypeOK, TypesArgument
<1>3. Beside(t) BY <1>0, <1>1 DEF Beside, TypeOK
<1>4. TypeOK' BY <1>0, <1>1 DEF TypeOK
<1>5. CollectedOK(t)' BY <1>0, <1>1, <1>2 DEF Typed, CollectedOK, Needs
<1>6. /\ \A p \in Stored : Sees(t, p)' => may'[p] \subseteq seen'[t][p]
      /\ pc'[t] # "idle" /\ stage'[t] = "table" => TypesArgument(t)' \in seen'[t]["types"]
      /\ \A p \in DOMAIN got'[t] : got'[t][p] \in seen'[t][p]
  BY <1>0, <1>1, <1>2 DEF CacheInv, Following, Sees
<1>7. ~Exposed(t)' /\ pc'[t] \notin {"idle", "check"} BY <1>2 DEF Exposed
<1>8. DOMAIN got' = Threads /\ seen' \in [Threads -> [Parts -> SUBSET Vals]]
  BY <1>0, <1>1 DEF Typed
<1>9. DOMAIN got[t] \cap Stored = {} BY <1>0 DEF Typed, CollectedOK
<1>10. ASSUME cacheable[t], stage[t] = "table", Serial
       PROVE  held[t] # "untyped" /\ TypesArgument(t) \in may["types"]
  <2>1. held[t] \in {"none", "own"} /\ (held[t] = "none" <=> now["types"] = Untyped)
    BY <1>0, <1>10 DEF CacheInv, ArgumentsTell, Exposed, TypeOK
  <2>2. now["types"] \in may["types"] BY DEF CacheInv, Current, Stored
  <2> QED BY <2>1, <2>2 DEF TypesArgument
<1>11. Sharing(t)' =>
         /\ stage'[t] = "table" /\ Serial => held'[t] # "untyped"
         /\ MadeOf(t, may)'
         /\ \A u \in Threads \ {t} :
              pc[u] = "lookup" /\ stage[u] = stage'[t] /\ ver[u] = ver'[t] => MadeOf(t, seen[u])'
  <2> SUFFICES ASSUME Sharing(t)'
               PROVE  /\ stage'[t] = "table" /\ Serial => held'[t] # "untyped"
                      /\ MadeOf(t, may)'
                      /\ \A u \in Threads \ {t} :
                           pc[u] = "lookup" /\ stage[u] = stage'[t] /\ ver[u] = ver'[t] =>
                             MadeOf(t, seen[u])'
    OBVIOUS
  <2>1. cacheable[t] BY <1>1 DEF Sharing
  <2>2. MadeOf(t, may)' BY <1>1, <1>2, <1>9, <1>10, <2>1 DEF MadeOf, Sure
  <2>3. ASSUME NEW u \in Threads \ {t}, pc[u] = "lookup", stage[u] = stage[t]
        PROVE  MadeOf(t, seen[u])'
    <3>1. ASSUME stage[t] = "table", Serial PROVE TypesArgument(t) \in seen[u]["types"]
      <4>1. held[u] # "untyped"
        BY <1>0, <2>3, <3>1 DEF CacheInv, SharingKnown, Sharing, Typed
      <4>2. Sees(u, "types") BY <2>3, <3>1, <4>1 DEF Sees, Needs, TableParts
      <4>3. may["types"] \subseteq seen[u]["types"]
        BY <4>2 DEF CacheInv, Following, Stored
      <4> QED BY <1>10, <2>1, <3>1, <4>3
    <3> QED BY <1>1, <1>2, <1>9, <3>1 DEF MadeOf, Sure
  <2> QED BY <1>1, <1>10, <2>1, <2>2, <2>3
<1>12. ASSUME pc'[t] = "lookup"
       PROVE  /\ cacheable'[t]
              /\ \A e \in cache'[Key(t)'] :
                   e.version = ver'[t] =>
                     \A p \in DOMAIN e.value \cap Stored : Sure(p) => e.value[p] \in seen'[t][p]
              /\ \A u \in Threads :
                   Sharing(u)' /\ stage'[u] = stage'[t] /\ ver'[u] = ver'[t] =>
                     MadeOf(u, seen[t])'
  <2>0. cacheable[t] BY <1>2, <1>12
  <2>1. \A p \in Needs(stage[t]) \cap Stored : Sure(p) => may[p] \subseteq seen[t][p]
    <3> SUFFICES ASSUME NEW p \in Needs(stage[t]) \cap Stored, Sure(p)
                 PROVE  may[p] \subseteq seen[t][p]
      OBVIOUS
    <3>1. p = "types" => stage[t] = "table"
      BY <1>0 DEF Needs, TypeOK
    <3>2. Sees(t, p) BY <1>0, <1>10, <2>0, <3>1 DEF Sees, Sure
    <3> QED BY <3>2 DEF CacheInv, Following
  <2>2. Key(t)' = Key(t) BY <1>1 DEF Key
  <2>3. /\ Key(t) \in Keys
        /\ \A e \in cache[Key(t)] : DOMAIN e.value = Needs(stage[t])
    <3>1. CASE stage[t] = "table"
      <4>1. "format" \in DOMAIN got[t] /\ got[t]["format"] \in Formats
        BY <1>0, <3>1 DEF Typed, CollectedOK, PartType
      <4>2. Key(t) \in Formats /\ Key(t) # "profile" BY <3>1, <4>1 DEF Key
      <4> QED BY <1>0, <3>1, <4>2 DEF TypeOK, EntryValues, Keys, Needs
    <3>2. CASE stage[t] = "profile"
      <4>1. Key(t) = "profile" /\ "profile" \in Keys BY <3>2 DEF Key, Keys
      <4>2. \A e \in cache["profile"] : e.value \in EntryValues("profile")
        BY <1>0, <4>1 DEF TypeOK
      <4>3. \A w \in EntryValues("profile") : DOMAIN w = {"rules"} BY DEF EntryValues
      <4> QED BY <3>2, <4>1, <4>2, <4>3 DEF Needs
    <3> QED BY <1>0, <3>1, <3>2 DEF TypeOK
  <2>4. \A e \in cache'[Key(t)'] :
          e.version = ver'[t] =>
            \A p \in DOMAIN e.value \cap Stored : Sure(p) => e.value[p] \in seen'[t][p]
    BY <1>1, <1>2, <2>1, <2>2, <2>3 DEF CacheInv, EntriesKnown
  <2>5. ASSUME NEW u \in Threads, Sharing(u)', stage'[u] = stage'[t], ver'[u] = ver'[t]
        PROVE  MadeOf(u, seen[t])'
    <3>1. MadeOf(u, may)'
      <4>1. CASE u = t BY <1>11, <2>5, <4>1
      <4>2. CASE u # t BY <1>1, <1>2, <1>3, <2>5, <4>2, OthersKeep
      <4> QED BY <4>1, <4>2
    <3>2. \A p \in DOMAIN got'[u] : p \in Needs(stage[t])
      BY <1>0, <1>1, <2>5 DEF Typed, CollectedOK
    <3>3. stage[t] = "table" /\ Serial => may["types"] \subseteq seen[t]["types"]
      BY <2>1 DEF Needs, TableParts, Stored, Sure
    <3> QED BY <1>1, <2>1, <2>5, <3>1, <3>2, <3>3 DEF MadeOf, Sure
  <2> QED BY <1>1, <2>0, <2>4, <2>5
<1> QED
  BY <1>1, <1>3, <1>4, <1>5, <1>6, <1>7, <1>8, <1>11, <1>12, StepKeeps

LEMMA MissInv == ASSUME CacheInv, NEW t \in Threads, Miss(t) PROVE CacheInv'
<1> USE CacheAssumption
<1>0. Typed /\ TypeOK /\ pc[t] = "lookup" /\ cacheable[t] BY DEF CacheInv, Typed, Miss
<1>1. /\ pc' = [pc EXCEPT ![t] = "read"]
      /\ UNCHANGED <<now, version, landed, cache, stage, held, kept, cacheable, ver, got, torn,
                     may, seen>>
  BY DEF Miss, tableVars, quiet
<1>2. pc'[t] = "read" /\ TypesArgument(t)' = TypesArgument(t) /\ Sharing(t) /\ Sharing(t)'
  BY <1>0, <1>1 DEF TypeOK, TypesArgument, Sharing
<1>3. Beside(t) BY <1>0, <1>1 DEF Beside, TypeOK
<1>4. TypeOK' BY <1>0, <1>1 DEF TypeOK
<1>5. CollectedOK(t)' BY <1>0, <1>1, <1>2 DEF Typed, CollectedOK, Needs
<1>6. /\ \A p \in Stored : Sees(t, p)' => may'[p] \subseteq seen'[t][p]
      /\ pc'[t] # "idle" /\ stage'[t] = "table" => TypesArgument(t)' \in seen'[t]["types"]
      /\ \A p \in DOMAIN got'[t] : got'[t][p] \in seen'[t][p]
  BY <1>0, <1>1, <1>2 DEF CacheInv, Following, Sees
<1>7. DOMAIN got' = Threads /\ seen' \in [Threads -> [Parts -> SUBSET Vals]]
  BY <1>0, <1>1 DEF Typed
<1>8. \A S : MadeOf(t, S) => /\ \A p \in DOMAIN got'[t] \cap Stored : Sure(p) => got'[t][p] \in S[p]
                             /\ stage'[t] = "table" /\ Serial => TypesArgument(t)' \in S["types"]
  BY <1>1, <1>2 DEF MadeOf
<1>9. /\ stage'[t] = "table" /\ Serial => held'[t] # "untyped"
      /\ ver'[t] = version' => MadeOf(t, may)'
  BY <1>1, <1>2, <1>8 DEF CacheInv, SharingKnown, MadeOf, Sure
<1>10. ASSUME NEW u \in Threads \ {t}, pc[u] = "lookup", stage[u] = stage'[t], ver[u] = ver'[t]
       PROVE  MadeOf(t, seen[u])'
  <2>1. MadeOf(t, seen[u]) BY <1>1, <1>2, <1>10 DEF CacheInv, FindsSeen
  <2> QED BY <1>1, <1>8, <2>1 DEF MadeOf, Sure
<1>11. ~Exposed(t)' BY <1>2 DEF Exposed
<1> QED
  BY <1>1, <1>2, <1>3, <1>4, <1>5, <1>6, <1>7, <1>9, <1>10, <1>11, StepKeeps

\* What is read now may be read now, and could have been met by every thread
\* that may find the result.
LEMMA ReadInv ==
    ASSUME CacheInv, NEW t \in Threads, NEW q \in Parts, Read(t, q)
    PROVE  CacheInv'
<1> USE CacheAssumption
<1> DEFINE x == IF q = "types" THEN TypesArgument(t) ELSE now[q]
<1>0. Typed /\ TypeOK /\ pc[t] = "read" /\ q \in Needs(stage[t]) \ DOMAIN got[t]
  BY DEF CacheInv, Typed, Read
<1>1. /\ got' = [got EXCEPT ![t] =
                   [p \in DOMAIN got[t] \cup {q} |-> IF p # q THEN got[t][p] ELSE x]]
      /\ UNCHANGED <<now, version, landed, cache, pc, stage, held, kept, cacheable, ver, torn,
                     may, seen>>
  BY DEF Read, tableVars, quiet
<1>2. /\ got'[t] = [p \in DOMAIN got[t] \cup {q} |-> IF p # q THEN got[t][p] ELSE x]
      /\ TypesArgument(t)' = TypesArgument(t) /\ (Sharing(t)' <=> Sharing(t))
  BY <1>0, <1>1 DEF Typed, TypesArgument, Sharing
<1>3. q \in Stored
  <2>1. stage[t] = "table" => "format" \in DOMAIN got[t]
    BY <1>0 DEF Typed, CollectedOK
  <2> QED BY <1>0, <2>1 DEF Needs, TableParts, Stored, TypeOK
<1>4. Beside(t) BY <1>0, <1>1 DEF Beside, Typed
<1>5. TypeOK' BY <1>0, <1>1 DEF TypeOK
<1>6. q = "types" => stage[t] = "table"
  BY <1>0 DEF Needs, TypeOK
<1>7. x \in PartType(q)
  <2>1. TypesArgument(t) \in TypeMaps BY <1>0 DEF TypesArgument, Typed, TypeOK
  <2>2. now \in [Stored -> Vals] BY <1>0 DEF TypeOK
  <2>3. q # "format" BY <1>3 DEF Stored
  <2> QED BY <1>0, <1>3, <2>1, <2>2, <2>3 DEF PartType, Typed
<1>8. CollectedOK(t)'
  <2>1. DOMAIN got'[t] = DOMAIN got[t] \cup {q} BY <1>2
  <2>2. \A p \in DOMAIN got'[t] : got'[t][p] \in PartType(p)
    BY <1>0, <1>2, <1>7 DEF Typed, CollectedOK
  <2>3. got'[t] = [p \in DOMAIN got'[t] |-> got'[t][p]] BY <1>2
  <2>4. CollectedOK(t) BY <1>0 DEF Typed
  <2>5. DOMAIN got'[t] \subseteq Needs(stage'[t]) BY <1>0, <1>1, <2>1, <2>4 DEF CollectedOK
  <2> QED
    BY <1>0, <1>1, <2>1, <2>2, <2>3, <2>4, <2>5 DEF CollectedOK, PartType
<1>9. x \in seen[t][q]
  <2>1. CASE q = "types" BY <1>0, <1>6, <2>1 DEF CacheInv, Following
  <2>2. CASE q # "types"
    <3>1. Sees(t, q) BY <1>0, <2>2 DEF Sees
    <3> QED BY <1>3, <2>2, <3>1 DEF CacheInv, Following, Current
  <2> QED BY <2>1, <2>2
<1>10. /\ \A p \in Stored : Sees(t, p)' => may'[p] \subseteq seen'[t][p]
       /\ pc'[t] # "idle" /\ stage'[t] = "table" => TypesArgument(t)' \in seen'[t]["types"]
  BY <1>1, <1>2 DEF CacheInv, Following, Sees
<1>11. \A p \in DOMAIN got'[t] : got'[t][p] \in seen'[t][p]
  <2>1. \A p \in DOMAIN got[t] : got[t][p] \in seen[t][p] BY DEF CacheInv, Following
  <2> QED BY <1>1, <1>2, <1>9, <2>1
<1>12. DOMAIN got' = Threads /\ seen' \in [Threads -> [Parts -> SUBSET Vals]]
  BY <1>0, <1>1 DEF Typed
<1>13. ASSUME NEW S, MadeOf(t, S), Sure(q) => x \in S[q]
       PROVE  /\ \A p \in DOMAIN got'[t] \cap Stored : Sure(p) => got'[t][p] \in S[p]
              /\ stage'[t] = "table" /\ Serial => TypesArgument(t)' \in S["types"]
  BY <1>1, <1>2, <1>13 DEF MadeOf
<1>14. Sharing(t)' =>
         /\ stage'[t] = "table" /\ Serial => held'[t] # "untyped"
         /\ ver'[t] = version' => MadeOf(t, may)'
  <2> SUFFICES ASSUME Sharing(t)
               PROVE  /\ stage'[t] = "table" /\ Serial => held'[t] # "untyped"
                      /\ ver'[t] = version' => MadeOf(t, may)'
    BY <1>2
  <2>1. stage'[t] = "table" /\ Serial => held'[t] # "untyped"
    BY <1>1 DEF CacheInv, SharingKnown
  <2>2. ASSUME ver[t] = version PROVE MadeOf(t, may)'
    <3>1. MadeOf(t, may) BY <2>2 DEF CacheInv, SharingKnown
    <3>2. Sure(q) => x \in may[q]
      BY <1>3, <1>6, <3>1 DEF MadeOf, Sure, CacheInv, Current
    <3>3. /\ \A p \in DOMAIN got'[t] \cap Stored : Sure(p) => got'[t][p] \in may[p]
          /\ stage'[t] = "table" /\ Serial => TypesArgument(t)' \in may["types"]
      BY <1>13, <3>1, <3>2
    <3> QED BY <1>1, <3>3 DEF MadeOf, Sure
  <2> QED BY <1>1, <2>1, <2>2
<1>15. ASSUME NEW u \in Threads \ {t}, Sharing(t)',
              pc[u] = "lookup", stage[u] = stage'[t], ver[u] = ver'[t]
       PROVE  MadeOf(t, seen[u])'
  <2>1. MadeOf(t, seen[u]) BY <1>1, <1>2, <1>15 DEF CacheInv, FindsSeen
  <2>2. Sure(q) => x \in seen[u][q]
    <3>1. CASE q = "types" BY <1>6, <2>1, <3>1 DEF MadeOf, Sure
    <3>2. CASE q # "types"
      <4>1. Sees(u, q) BY <1>0, <1>1, <1>15, <3>2 DEF Sees
      <4> QED BY <1>3, <3>2, <4>1 DEF CacheInv, Following, Current
    <3> QED BY <3>1, <3>2
  <2>3. /\ \A p \in DOMAIN got'[t] \cap Stored : Sure(p) => got'[t][p] \in seen[u][p]
        /\ stage'[t] = "table" /\ Serial => TypesArgument(t)' \in seen[u]["types"]
    BY <1>13, <2>1, <2>2
  <2> QED BY <1>1, <2>3 DEF MadeOf, Sure
<1>16. ~Exposed(t)' /\ pc'[t] = "read" BY <1>0, <1>1 DEF Exposed
<1> QED
  BY <1>1, <1>4, <1>5, <1>8, <1>10, <1>11, <1>12, <1>14, <1>15, <1>16, StepKeeps

----------------------------------------------------------------------------
(* The end of an evaluation.                                               *)

\* Whatever the call was doing, its thread has nothing of it left.
LEMMA EndsIdle ==
    ASSUME CacheInv, NEW t \in Threads, End(t), UNCHANGED <<now, version, landed, may>>
    PROVE  /\ Beside(t) /\ ~Sharing(t)' /\ ~Exposed(t)'
           /\ pc'[t] = "idle" /\ seen'[t] = Idle /\ got'[t] = NoParts
           /\ CollectedOK(t)' /\ DOMAIN got' = Threads
           /\ seen' \in [Threads -> [Parts -> SUBSET Vals]]
           /\ pc' \in [Threads -> {"idle", "check", "version", "lookup", "read"}]
           /\ stage' \in [Threads -> {"table", "profile"}]
           /\ held' \in [Threads -> {"none", "untyped", "own", "old"}]
           /\ kept' \in [Threads -> TypeMaps]
           /\ cacheable' \in [Threads -> BOOLEAN]
           /\ ver' \in [Threads -> 0 .. version]
           /\ torn' \in SUBSET Threads
<1> USE CacheAssumption
<1>1. Typed /\ TypeOK BY DEF CacheInv, Typed
<1>2. /\ pc' = [pc EXCEPT ![t] = "idle"] /\ got' = [got EXCEPT ![t] = NoParts]
      /\ seen' = [seen EXCEPT ![t] = Idle] /\ stage' = [stage EXCEPT ![t] = "table"]
      /\ held' = [held EXCEPT ![t] = "none"] /\ kept' = [kept EXCEPT ![t] = Untyped]
      /\ cacheable' = [cacheable EXCEPT ![t] = FALSE] /\ ver' = [ver EXCEPT ![t] = 0]
      /\ torn' = torn \ {t}
  BY DEF End
<1>3. /\ pc'[t] = "idle" /\ seen'[t] = Idle /\ got'[t] = NoParts
  BY <1>1, <1>2 DEF Typed, TypeOK
<1>4. Beside(t) BY <1>1, <1>2 DEF Beside, Typed, TypeOK
<1>5. CollectedOK(t)' BY <1>3 DEF CollectedOK, NoParts
<1>6. ~Sharing(t)' /\ ~Exposed(t)' BY <1>3 DEF Sharing, Exposed
<1>7. DOMAIN got' = Threads /\ seen' \in [Threads -> [Parts -> SUBSET Vals]]
  BY <1>1, <1>2 DEF Typed, Idle
<1>8. version \in Nat BY <1>1 DEF TypeOK
<1>9. /\ pc' \in [Threads -> {"idle", "check", "version", "lookup", "read"}]
      /\ stage' \in [Threads -> {"table", "profile"}]
      /\ held' \in [Threads -> {"none", "untyped", "own", "old"}]
      /\ kept' \in [Threads -> TypeMaps]
      /\ cacheable' \in [Threads -> BOOLEAN]
      /\ torn' \in SUBSET Threads
  BY <1>1, <1>2 DEF TypeOK
<1>10. ver' \in [Threads -> 0 .. version] BY <1>1, <1>2, <1>8 DEF TypeOK
<1> QED BY <1>3, <1>4, <1>5, <1>6, <1>7, <1>9, <1>10

LEMMA FailOrHitInv ==
    ASSUME CacheInv, NEW t \in Threads, Fail(t) \/ Hit(t)
    PROVE  CacheInv'
<1>1. End(t) /\ UNCHANGED <<now, version, landed, cache, may>>
  BY DEF Fail, Hit, Return, tableVars
<1>2. TypeOK' BY <1>1, EndsIdle DEF CacheInv, Typed, TypeOK
<1>3. \A p \in Stored : ~Sees(t, p)' BY <1>1, EndsIdle DEF Sees
<1>4. DOMAIN got'[t] = {} BY <1>1, EndsIdle DEF NoParts
<1> QED BY <1>1, <1>2, <1>3, <1>4, EndsIdle, StepKeeps

\* What a thread keeps is what its evaluation may share.
LEMMA StoreInv == ASSUME CacheInv, NEW t \in Threads, Store(t) PROVE CacheInv'
<1> USE CacheAssumption
<1>0. Typed /\ TypeOK BY DEF CacheInv, Typed
<1>1. /\ Complete(t) /\ Put(t, ver[t]) /\ End(t)
      /\ UNCHANGED <<now, version, landed, may>>
  BY DEF Store, Return, tableVars
<1>2. Beside(t) BY <1>1, EndsIdle
<1>3. pc[t] = "read" /\ DOMAIN got[t] = Needs(stage[t]) BY <1>1 DEF Complete
<1> DEFINE new == [version |-> ver[t], value |-> got[t]]
<1>4. Key(t) \in Keys /\ got[t] \in EntryValues(Key(t))
      /\ (Key(t) # "profile" => got[t]["format"] = Key(t))
      /\ \A u \in Threads : Key(u) = Key(t) /\ pc[u] = "lookup" => stage[u] = stage[t]
  <2>0. \A u \in Threads : pc[u] # "idle" /\ stage[u] = "table" => Key(u) \in Formats
    BY <1>0 DEF Typed, CollectedOK, Key, PartType
  <2>1. CollectedOK(t) BY <1>0 DEF Typed
  <2>2. CASE stage[t] = "table"
    <3>1. DOMAIN got[t] = TableParts BY <1>3, <2>2 DEF Needs
    <3>2. Key(t) = got[t]["format"] /\ Key(t) \in Formats /\ Key(t) # "profile"
      BY <1>3, <2>0, <2>2 DEF Key
    <3>3. "types" \in TableParts /\ "format" \in TableParts BY DEF TableParts
    <3>4. \A p \in TableParts : got[t][p] \in Vals
      BY <2>1, <3>1 DEF CollectedOK, PartType, Vals
    <3>5. got[t] \in [TableParts -> Vals] BY <2>1, <3>1, <3>4 DEF CollectedOK
    <3>6. got[t]["types"] \in TypeMaps BY <2>1, <3>1, <3>3 DEF CollectedOK, PartType
    <3>7. got[t] \in EntryValues(Key(t)) BY <3>2, <3>5, <3>6 DEF EntryValues
    <3>8. \A u \in Threads : Key(u) = Key(t) /\ pc[u] = "lookup" => stage[u] = "table"
      BY <1>0, <3>2 DEF Key, TypeOK
    <3> QED BY <2>2, <3>2, <3>7, <3>8 DEF Keys
  <2>3. CASE stage[t] = "profile"
    <3>1. DOMAIN got[t] = {"rules"} BY <1>3, <2>3 DEF Needs
    <3>2. Key(t) = "profile" BY <2>3 DEF Key
    <3>3. got[t]["rules"] \in RuleLists BY <2>1, <3>1 DEF CollectedOK, PartType
    <3>4. got[t] = [r \in {"rules"} |-> got[t]["rules"]]
      <4>1. got[t] = [p \in {"rules"} |-> got[t][p]] BY <2>1, <3>1 DEF CollectedOK
      <4> QED BY <4>1
    <3>5. got[t] \in EntryValues(Key(t)) BY <3>2, <3>3, <3>4 DEF EntryValues
    <3>6. \A u \in Threads : Key(u) = Key(t) /\ pc[u] = "lookup" => stage[u] = "profile"
      BY <1>0, <2>0, <3>2 DEF TypeOK
    <3> QED BY <2>3, <3>2, <3>5, <3>6 DEF Keys
  <2> QED BY <1>0, <2>2, <2>3 DEF TypeOK
<1>5. /\ DOMAIN cache' = Keys
      /\ \A k \in Keys : \A e \in cache'[k] :
           e \in cache[k] \/ (cacheable[t] /\ k = Key(t) /\ e = new)
  BY <1>0, <1>1, <1>4 DEF Put, Typed
<1>6. ver[t] \in 0 .. version BY <1>0 DEF TypeOK
<1>7. Typed'
  <2>1. \A k \in Keys : \A e \in cache'[k] :
          e.version \in 0 .. version /\ e.value \in EntryValues(k)
    BY <1>0, <1>4, <1>5, <1>6 DEF TypeOK
  <2>2. TypeOK' BY <1>0, <1>1, <2>1, EndsIdle DEF TypeOK
  <2>3. \A u \in Threads : CollectedOK(u)' BY <1>1, <1>2, EndsIdle, OthersKeep
  <2>4. \A u \in Threads :
          /\ pc'[u] = "idle" => seen'[u] = Idle /\ got'[u] = NoParts
          /\ pc'[u] = "lookup" => cacheable'[u]
          /\ pc'[u] = "check" => stage'[u] = "table"
    BY <1>1, <1>2, EndsIdle, OthersKeep
  <2> QED BY <1>0, <1>1, <1>5, <2>2, <2>3, <2>4, EndsIdle DEF Typed
<1>8. Current' BY <1>1 DEF CacheInv, Current
<1>9. EntriesKnown'
  <2> SUFFICES ASSUME NEW k \in Keys, NEW e \in cache'[k]
               PROVE  /\ k # "profile" => e.value["format"] = k
                      /\ e.version = version =>
                           \A p \in DOMAIN e.value \cap Stored : Sure(p) => e.value[p] \in may[p]
    BY <1>1 DEF EntriesKnown, Sure
  <2>1. CASE e \in cache[k] BY <2>1 DEF CacheInv, EntriesKnown
  <2>2. CASE cacheable[t] /\ k = Key(t) /\ e = new
    <3>1. Sharing(t) BY <1>3, <2>2 DEF Sharing
    <3>2. ver[t] = version => MadeOf(t, may) BY <3>1 DEF CacheInv, SharingKnown
    <3> QED BY <1>4, <2>2, <3>2 DEF MadeOf
  <2> QED BY <1>5, <2>1, <2>2
<1>10. Following'
  <2>1. \A p \in Stored : ~Sees(t, p)' BY <1>1, EndsIdle DEF Sees
  <2>2. DOMAIN got'[t] = {} /\ pc'[t] = "idle" BY <1>1, EndsIdle DEF NoParts
  <2> QED BY <1>2, <2>1, <2>2, OthersKeep DEF Following
<1>11. ArgumentsTell' BY <1>1, <1>2, EndsIdle, OthersKeep DEF ArgumentsTell
<1>12. SharingKnown' BY <1>1, <1>2, EndsIdle, OthersKeep DEF SharingKnown
<1>13. FindsSeen'
  <2> SUFFICES ASSUME NEW u \in Threads \ {t}, pc'[u] = "lookup"
               PROVE  /\ \A e \in cache'[Key(u)'] :
                           e.version = ver'[u] =>
                             \A p \in DOMAIN e.value \cap Stored :
                               Sure(p) => e.value[p] \in seen'[u][p]
                      /\ \A w \in Threads :
                           Sharing(w)' /\ stage'[w] = stage'[u] /\ ver'[w] = ver'[u] =>
                             MadeOf(w, seen[u])'
    BY <1>1, EndsIdle DEF FindsSeen, Sure
  <2>1. pc[u] = "lookup" /\ Key(u)' = Key(u) /\ ver'[u] = ver[u] /\ seen'[u] = seen[u]
        /\ stage'[u] = stage[u]
    BY <1>2 DEF Beside, Key
  <2>2. Key(u) \in Keys
    BY <1>0, <2>1 DEF Typed, TypeOK, CollectedOK, Key, Keys, PartType
  <2>3. ASSUME NEW e \in cache'[Key(u)], e.version = ver[u],
               NEW p \in DOMAIN e.value \cap Stored, Sure(p)
        PROVE  e.value[p] \in seen[u][p]
    <3>1. CASE e \in cache[Key(u)] BY <2>1, <2>3, <3>1 DEF CacheInv, FindsSeen
    <3>2. CASE cacheable[t] /\ Key(u) = Key(t) /\ e = new
      <4>1. Sharing(t) /\ stage[u] = stage[t] /\ ver[u] = ver[t]
        BY <1>3, <1>4, <2>1, <2>3, <3>2 DEF Sharing
      <4>2. MadeOf(t, seen[u]) BY <2>1, <4>1 DEF CacheInv, FindsSeen
      <4> QED BY <2>3, <3>2, <4>2 DEF MadeOf
    <3> QED BY <1>5, <2>2, <2>3, <3>1, <3>2
  <2>4. ASSUME NEW w \in Threads, Sharing(w)', stage'[w] = stage'[u], ver'[w] = ver'[u]
        PROVE  MadeOf(w, seen[u])'
    <3>1. w # t BY <1>1, <2>4, EndsIdle
    <3>2. Sharing(w) BY <1>2, <2>4, <3>1, OthersKeep
    <3>3. MadeOf(w, seen[u]) BY <1>2, <2>1, <2>4, <3>1, <3>2 DEF CacheInv, FindsSeen, Beside
    <3> QED BY <1>2, <2>1, <3>1, <3>3 DEF MadeOf, Beside, TypesArgument, Sure
  <2> QED BY <2>1, <2>3, <2>4
<1> QED BY <1>7, <1>8, <1>9, <1>10, <1>11, <1>12, <1>13 DEF CacheInv

\* Nothing happens.
LEMMA StutterInv == ASSUME CacheInv, UNCHANGED vars PROVE CacheInv'
<1>1. UNCHANGED <<now, version, landed, cache, pc, stage, held, kept, cacheable, ver, got, torn,
                  may, seen>>
  BY DEF vars, tableVars, threadVars
<1>2. Typed' BY <1>1 DEF CacheInv, Typed, TypeOK, CollectedOK
<1>3. Current' /\ EntriesKnown' BY <1>1 DEF CacheInv, Current, EntriesKnown
<1>4. Following' BY <1>1 DEF CacheInv, Following, Sees, TypesArgument
<1>5. ArgumentsTell' BY <1>1 DEF CacheInv, ArgumentsTell, Exposed
<1>6. SharingKnown' BY <1>1 DEF CacheInv, SharingKnown, Sharing, MadeOf, TypesArgument
<1>7. FindsSeen' BY <1>1 DEF CacheInv, FindsSeen, Sharing, MadeOf, TypesArgument, Key
<1> QED BY <1>2, <1>3, <1>4, <1>5, <1>6, <1>7 DEF CacheInv

LEMMA CacheStep == CacheInv /\ [Next]_vars => CacheInv'
<1> SUFFICES ASSUME CacheInv, [Next]_vars PROVE CacheInv' OBVIOUS
<1>1. CASE \/ \E n \in Names, v \in Values : SetSymbol(n, v)
           \/ \E m \in TypeMaps : ChangeTypes(m) \/ AssignTypes(m)
           \/ \E l \in RuleLists : AssignRules(l)
  BY <1>1, AreChanges, ChangesInv
<1>2. CASE Bump BY <1>2, BumpInv
<1>3. ASSUME NEW t \in Threads, NEW f \in Formats, NEW typed \in BOOLEAN, Begin(t, f, typed)
      PROVE  CacheInv'
  BY <1>3, BeginInv
<1>4. ASSUME NEW t \in Threads, BeginProfile(t) PROVE CacheInv' BY <1>4, BeginProfileInv
<1>5. ASSUME NEW t \in Threads, Check(t) PROVE CacheInv' BY <1>5, CheckInv
<1>6. ASSUME NEW t \in Threads, ReadVersion(t) PROVE CacheInv' BY <1>6, ReadVersionInv
<1>7. ASSUME NEW t \in Threads, Hit(t) \/ Fail(t) PROVE CacheInv' BY <1>7, FailOrHitInv
<1>8. ASSUME NEW t \in Threads, Miss(t) PROVE CacheInv' BY <1>8, MissInv
<1>9. ASSUME NEW t \in Threads, NEW p \in Parts, Read(t, p) PROVE CacheInv' BY <1>9, ReadInv
<1>10. ASSUME NEW t \in Threads, Store(t) PROVE CacheInv' BY <1>10, StoreInv
<1>11. CASE UNCHANGED vars BY <1>11, StutterInv
<1> QED
  BY <1>1, <1>2, <1>3, <1>4, <1>5, <1>6, <1>7, <1>8, <1>9, <1>10, <1>11 DEF Next

LEMMA CacheIsInv == Spec => []CacheInv
BY InitInv, CacheStep, PTL DEF Spec

----------------------------------------------------------------------------
(* Theorems.                                                               *)

\* The table, the cache and the threads keep their types through every
\* interleaving.
THEOREM TypeCorrect == Spec => []TypeOK
<1>1. CacheInv => TypeOK BY DEF CacheInv, Typed
<1> QED BY <1>1, CacheIsInv, PTL

\* What the cache holds under the table's version is what the engine would
\* build now, for any number of threads and changes, if expr_types is replaced,
\* filled and emptied only while nobody starts to evaluate.
THEOREM KeptIsFresh ==
    ASSUME Serial
    PROVE  Spec => []CacheFresh
<1>1. CacheInv => CacheFresh
  <2> SUFFICES ASSUME CacheInv, ~landed, NEW k \in Keys, NEW e \in cache[k], e.version = version
               PROVE  /\ \A p \in DOMAIN e.value \cap Stored : e.value[p] = now[p]
                      /\ k # "profile" => e.value["format"] = k
    BY DEF CacheFresh
  <2>1. \A p \in Stored : may[p] = {now[p]} BY DEF CacheInv, Current
  <2> QED BY <2>1 DEF CacheInv, EntriesKnown, Sure
<1> QED BY <1>1, CacheIsInv, PTL

\* With no such restriction, symbols and rules are still fresh, and the path
\* format is the key's: the window in _expr_support.py concerns the types only.
FreshButTypes ==
    ~landed =>
      \A k \in Keys : \A e \in cache[k] :
        e.version = version =>
          /\ \A p \in (DOMAIN e.value \cap Stored) \ {"types"} : e.value[p] = now[p]
          /\ k # "profile" => e.value["format"] = k

\* The copies of symbols and rules are never stale, whatever threads do.
THEOREM KeptIsFreshButTypes == Spec => []FreshButTypes
<1>1. CacheInv => FreshButTypes
  <2> SUFFICES ASSUME CacheInv, ~landed, NEW k \in Keys, NEW e \in cache[k], e.version = version
               PROVE  /\ \A p \in (DOMAIN e.value \cap Stored) \ {"types"} : e.value[p] = now[p]
                      /\ k # "profile" => e.value["format"] = k
    BY DEF FreshButTypes
  <2>1. \A p \in Stored : may[p] = {now[p]} BY DEF CacheInv, Current
  <2> QED BY <2>1 DEF CacheInv, EntriesKnown, Sure
<1> QED BY <1>1, CacheIsInv, PTL

----------------------------------------------------------------------------
(* The refinement.  A change is a Change, its bump a Settle; an evaluation  *)
(* begins, and returns or fails; whatever it does in between goes on.       *)

\* A new table has one value of each part, and no evaluations.
LEMMA InitRefines == Init => Uncached!Init
<1> SUFFICES ASSUME Init PROVE Uncached!Init OBVIOUS
<1>1. now \in [Stored -> Vals] BY DEF Init
<1>2. /\ may = [p \in Stored |-> {now[p]}] /\ seen = [t \in Threads |-> Idle]
      /\ returned = {}
  BY DEF Init
<1>3. Idle = Uncached!Idle BY DEF Idle, Uncached!Idle
<1>4. may = [p \in Stored |-> may[p]] /\ \A p \in Stored : \E v \in Vals : may[p] = {v}
  BY <1>1, <1>2
<1> QED BY <1>2, <1>3, <1>4 DEF Uncached!Init

\* What a thread finds under its version, it could have met itself.
LEMMA FoundIsSeen ==
    ASSUME CacheInv, Serial, NEW t \in Threads, pc[t] = "lookup",
           NEW e \in cache[Key(t)], e.version = ver[t], NEW p \in DOMAIN e.value
    PROVE  e.value[p] \in seen[t][p]
<1>0. Typed /\ TypeOK /\ CollectedOK(t) BY DEF CacheInv, Typed
<1>1. CASE p \in Stored BY <1>1 DEF CacheInv, FindsSeen, Sure
<1>2. CASE p \notin Stored
  <2>1. CASE stage[t] = "table"
    <3>1. "format" \in DOMAIN got[t] /\ got[t]["format"] \in Formats
      BY <1>0, <2>1 DEF CollectedOK, PartType
    <3>2. Key(t) = got[t]["format"] /\ Key(t) \in Keys /\ Key(t) # "profile"
      BY <2>1, <3>1, CacheAssumption DEF Key, Keys
    <3>3. e.value["format"] = got[t]["format"] BY <3>2 DEF CacheInv, EntriesKnown
    <3>4. e.value \in EntryValues(Key(t)) BY <1>0, <3>2 DEF TypeOK
    <3>5. DOMAIN e.value = TableParts BY <3>2, <3>4 DEF EntryValues
    <3>6. p = "format" BY <1>2, <3>5 DEF TableParts, Stored
    <3>7. got[t]["format"] \in seen[t]["format"] BY <3>1 DEF CacheInv, Following
    <3> QED BY <3>3, <3>6, <3>7
  <2>2. CASE stage[t] = "profile"
    <3>1. Key(t) = "profile" /\ Key(t) \in Keys BY <2>2 DEF Key, Keys
    <3>2. e.value \in EntryValues("profile") BY <1>0, <3>1 DEF TypeOK
    <3>3. DOMAIN e.value = {"rules"} BY <3>2 DEF EntryValues
    <3> QED BY <1>2, <3>3 DEF Stored
  <2> QED BY <1>0, <2>1, <2>2 DEF TypeOK
<1> QED BY <1>1, <1>2

LEMMA StepRefines ==
    ASSUME CacheInv, Serial, [Next]_vars
    PROVE  [Uncached!Next]_(Uncached!vars)
<1> USE CacheAssumption
<1>0. /\ may \in [Stored -> SUBSET Vals] /\ seen \in [Threads -> [Parts -> SUBSET Vals]]
      /\ \A t \in Threads : pc[t] = "idle" => seen[t] = Idle
  BY DEF CacheInv, Typed
<1>11. Idle = Uncached!Idle BY DEF Idle, Uncached!Idle
<1>1. ASSUME \/ \E n \in Names, v \in Values : SetSymbol(n, v)
             \/ \E m \in TypeMaps : ChangeTypes(m) \/ AssignTypes(m)
             \/ \E l \in RuleLists : AssignRules(l)
      PROVE  Uncached!Change
  <2>0. PICK p \in Stored : \E v \in PartType(p) : Changes(p, v) BY <1>1, AreChanges
  <2>1. PICK v \in PartType(p) : Changes(p, v) BY <2>0
  <2>2. v \in Vals BY <2>1 DEF PartType, Vals
  <2>3. /\ may' = [may EXCEPT ![p] = @ \cup {v}] /\ returned' = {}
        /\ seen' = [t \in Threads |->
                      IF Sees(t, p) THEN [seen[t] EXCEPT ![p] = @ \cup {v}] ELSE seen[t]]
    BY <2>1 DEF Changes, Land
  <2>4. /\ seen' = [t \in Threads |-> seen'[t]]
        /\ \A t \in Threads : seen'[t] \in {seen[t], [seen[t] EXCEPT ![p] = @ \cup {v}]}
    BY <2>3
  <2> QED BY <2>2, <2>3, <2>4 DEF Uncached!Change
<1>2. CASE Bump
  <2>1. may' = [p \in Stored |-> {now[p]}] /\ returned' = {} /\ seen' = seen
    BY <1>2 DEF Bump
  <2>2. \A p \in Stored : now[p] \in may[p] BY DEF CacheInv, Current
  <2>3. may' = [p \in Stored |-> may'[p]] /\ \A p \in Stored : \E v \in may[p] : may'[p] = {v}
    BY <2>1, <2>2
  <2> QED BY <2>1, <2>3 DEF Uncached!Settle, Uncached!Next
<1>3. ASSUME NEW t \in Threads, NEW f \in Formats, NEW typed \in BOOLEAN, Begin(t, f, typed)
      PROVE  Uncached!Begin(t)
  <2>1. pc[t] = "idle" /\ returned' = {} /\ may' = may BY <1>3 DEF Begin
  <2> DEFINE s == [p \in Parts |-> IF p = "rules" THEN {} ELSE IF p = "format" THEN {f}
                                   ELSE IF p = "types" /\ held'[t] = "untyped" THEN {Untyped}
                                   ELSE may[p]]
  <2>2. seen' = [seen EXCEPT ![t] = s] BY <1>3 DEF Begin
  <2>3. seen'[t] = s BY <1>0, <2>2
  <2>4. seen' = [seen EXCEPT ![t] = [p \in Parts |-> seen'[t][p]]] BY <2>2, <2>3
  <2>5. ASSUME NEW p \in Parts
        PROVE  \/ p \in Stored /\ seen'[t][p] = may[p]
               \/ \E v \in Vals : seen'[t][p] = {v}
               \/ seen'[t][p] = {}
    <3>1. f \in Vals /\ Untyped \in Vals BY DEF Vals
    <3>2. p \in Stored \/ p = "format" BY DEF Parts, TableParts, Stored
    <3> QED BY <2>3, <3>1, <3>2
  <2> QED BY <1>0, <1>11, <2>1, <2>4, <2>5 DEF Uncached!Begin
<1>4. ASSUME NEW t \in Threads, BeginProfile(t) PROVE Uncached!Begin(t)
  <2>1. /\ pc[t] = "idle" /\ returned' = {} /\ may' = may
        /\ seen' = [seen EXCEPT ![t] = [p \in Parts |-> IF p = "rules" THEN may[p] ELSE {}]]
    BY <1>4 DEF BeginProfile
  <2>2. seen'[t] = [p \in Parts |-> IF p = "rules" THEN may[p] ELSE {}] BY <1>0, <2>1
  <2>3. seen' = [seen EXCEPT ![t] = [p \in Parts |-> seen'[t][p]]] BY <2>1, <2>2
  <2>4. \A p \in Parts : (p \in Stored /\ seen'[t][p] = may[p]) \/ seen'[t][p] = {}
    BY <2>2 DEF Stored
  <2> QED BY <1>0, <1>11, <2>1, <2>3, <2>4 DEF Uncached!Begin
<1>5. ASSUME NEW t \in Threads, NEW p \in Parts, Read(t, p) PROVE Uncached!GoOn
  BY <1>5 DEF Read, quiet, Uncached!GoOn
<1>6. ASSUME NEW t \in Threads, Fail(t) PROVE Uncached!Fail(t)
  BY <1>6, <1>11 DEF Fail, End, Uncached!Fail
<1>7. ASSUME NEW t \in Threads, Hit(t) PROVE Uncached!Return(t)
  <2>1. PICK e \in cache[Key(t)] : e.version = ver[t] /\ Return(t, e.value)
    BY <1>7 DEF Hit
  <2>2. pc[t] = "lookup" /\ may' = may BY <1>7 DEF Hit
  <2>3. \A p \in DOMAIN e.value : e.value[p] \in seen[t][p] BY <2>1, <2>2, FoundIsSeen
  <2>4. returned' = {<<t, e.value>>} /\ seen' = [seen EXCEPT ![t] = Idle]
    BY <2>1 DEF Return, End
  <2> QED BY <1>11, <2>2, <2>3, <2>4 DEF Uncached!Return
<1>8. ASSUME NEW t \in Threads, Store(t) PROVE Uncached!Return(t)
  <2>1. returned' = {<<t, got[t]>>} /\ seen' = [seen EXCEPT ![t] = Idle] /\ may' = may
    BY <1>8 DEF Store, Return, End
  <2>2. \A p \in DOMAIN got[t] : got[t][p] \in seen[t][p] BY DEF CacheInv, Following
  <2> QED BY <1>11, <2>1, <2>2 DEF Uncached!Return
<1>9. CASE UNCHANGED vars BY <1>9 DEF vars, Uncached!vars
<1>10. ASSUME NEW t \in Threads, Check(t) \/ ReadVersion(t) \/ Miss(t)
       PROVE  Uncached!GoOn
  BY <1>10 DEF Check, ReadVersion, Miss, quiet, Uncached!GoOn
<1> QED
  BY <1>1, <1>2, <1>3, <1>4, <1>5, <1>6, <1>7, <1>8, <1>9, <1>10 DEF Next, Uncached!Next

\* The cached table implements the one without a cache: every part that an
\* evaluation uses is one that it could have read from the table itself.
THEOREM ReadsRegularly ==
    ASSUME Serial
    PROVE  Spec => ReadsRegular
<1>1. CacheInv /\ [Next]_vars => [Uncached!Next]_(Uncached!vars) BY StepRefines
<1> QED BY <1>1, InitRefines, CacheIsInv, PTL DEF Spec, ReadsRegular, Uncached!Spec

=============================================================================
