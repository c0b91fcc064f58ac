-------------------------- MODULE JobParametersProofs --------------------------
(***************************************************************************)
(* The parameters of a job, proved for any templates and submissions.      *)
(*                                                                         *)
(* Sourced says that collected_definitions holds every definition that has *)
(* been read, under its name, and no other.  Merging carries what          *)
(* MergeJobParameterProofs proves of one name through the merge of all of  *)
(* them: every merged definition sums up the definitions of its name.      *)
(* Aligned says that the k-th definition is that of the k-th name as long  *)
(* as there is no conflict, and Called that the values are those of the    *)
(* last call.                                                              *)
(***************************************************************************)
EXTENDS JobParameters, MergeJobParameterProofs, FiniteSetTheorems, SequenceTheorems

\* The definition m is what the definitions ps merge to: it has a default of theirs,
\* and is no wider than any of them.
Sums(m, ps) ==
    /\ m \in AllDefinitions
    /\ \A v \in m.default : v.place # "malformed"
    /\ m.type \in LegacyTypes =>
         /\ Optional(m.lo) /\ Optional(m.hi)
         /\ \A n \in Int : (\A l \in m.lo : l <= n) =>
              \A j \in DOMAIN ps : \A l \in ps[j].lo : l <= n
         /\ \A n \in Int : (\A h \in m.hi : n <= h) =>
              \A j \in DOMAIN ps : \A h \in ps[j].hi : n <= h
         /\ \A w \in Values, j \in DOMAIN ps :
              (\A k \in DOMAIN ps : ps[k].allowed # {} => w \in ps[k].allowed) /\ ps[j].allowed # {} =>
                m.allowed # {} /\ \A v \in m.allowed : v \in ps[j].allowed

Merging ==
    /\ MergeTypeOK /\ MergedIsExact /\ AgreeingMerge
    /\ params # <<>> => LoopInv
    /\ params = <<>> => merged = {} /\ outcome = "pending"
    /\ \A m \in merged : Sums(m, params)

\* The k-th source of ss has the definition d.
Holds(ss, k, d) == \E n \in DOMAIN ss[k].definitions : ss[k].definitions[n] = d

\* The sources ss are those of the first n definitions of ts.
SourcesOf(ts) == [name : {ts[k].name : k \in DOMAIN ts}, definitions : Seq(Definitions)]
HaveSources(ts, n, ss) ==
    /\ ss \in Seq(SourcesOf(ts))
    /\ \A k \in DOMAIN ss : ss[k].definitions # <<>>
    /\ \A j, k \in DOMAIN ss : ss[j].name = ss[k].name => j = k
    /\ \A j \in 1 .. n :
         \E k \in DOMAIN ss : ss[k].name = ts[j].name /\ Holds(ss, k, ts[j].definition)
    /\ \A k \in DOMAIN ss : \A m \in DOMAIN ss[k].definitions :
         \E j \in DOMAIN ts : ts[j].name = ss[k].name /\ ts[j].definition = ss[k].definitions[m]

Sourced ==
    /\ templates \in Templates /\ read \in 0 .. Len(templates)
    /\ HaveSources(templates, read, sources)

Aligned ==
    /\ taken \in 0 .. Len(sources)
    /\ ~AllRead => taken = 0 /\ params = <<>>
    /\ params # <<>> => taken > 0 /\ params = sources[taken].definitions
    /\ conflicts \subseteq Range(names) /\ IsFiniteSet(conflicts)
    /\ definitions \in Seq(AllDefinitions)
    /\ Len(definitions) + Cardinality(conflicts) <= IF params = <<>> THEN taken ELSE taken - 1
    /\ conflicts = {} => Len(definitions) = IF params = <<>> THEN taken ELSE taken - 1
    /\ conflicts = {} => \A k \in DOMAIN definitions : Sums(definitions[k], sources[k].definitions)
    /\ phase \in {"merging", "failed", "merged", "preprocessed", "created"}
    /\ phase \in {"merged", "preprocessed", "created"} =>
         AllRead /\ params = <<>> /\ taken = Len(sources) /\ conflicts = {}

Called ==
    /\ settings \in Settings
    /\ \A name \in DOMAIN given : given[name] \in AnyValue
    /\ phase \in {"merging", "failed", "merged"} => values = NoValues
    /\ phase \in {"preprocessed", "created"} =>
         /\ reported = Report(given, settings)
         /\ values = IF reported = NoReport THEN Collected(given, settings) ELSE NoValues
    /\ CreateJobAgrees

ParametersInv == Merging /\ Sourced /\ Aligned /\ Called

----------------------------------------------------------------------------
(* The merge of one name.                                                  *)

\* What the merge comes to sums its definitions up.
LEMMA SumsStep ==
    ASSUME MergeTypeOK, LoopInv, MergeStep, \A m \in merged : Sums(m, params)
    PROVE  params' = params /\ \A m \in merged' : Sums(m, params)
<1>1. params' = params
      BY DEF MergeStep, TypesDiffer, Begin, TakeLast, Intersect, AllowedDone, Tighten, Finish
<1>2. params # <<>> /\ Positions = DOMAIN params
      BY DEF LoopInv, InLoops, MergeTypeOK, Positions
<1>3. \A v \in MergedDefault : v.place # "malformed"
  <2>1. \A j \in Positions : \A v \in params[j].default : v.place # "malformed"
        BY PositionTypes, ParametersAssumption
  <2>q. QED  BY <2>1 DEF MergedDefault, Greatest
<1>4. CASE TakeLast
  <2>1. Latest \in AllDefinitions /\ [Latest EXCEPT !.default = MergedDefault] \in AllDefinitions
        BY <1>2, LatestTypes, MergedTypes
  <2>2. \A m \in merged' : /\ m \in AllDefinitions /\ m.default = MergedDefault
                           /\ m.type \notin LegacyTypes
        BY <1>4, <2>1 DEF TakeLast, End, AllDefinitions
  <2>q. QED  BY <1>1, <1>3, <2>2 DEF Sums
<1>5. CASE Finish
  <2> DEFINE m == MergedDefinition
  <2>1. merged' \subseteq {m}
        BY <1>5 DEF Finish, End
  <2>2. m \in AllDefinitions
        BY <1>2, MergedTypes
  <2>3. m.default = MergedDefault /\ m.lo = lo /\ m.hi = hi /\ m.allowed = allowed
        BY DEF MergedDefinition
  <2>4. AllowedSoFar(Positions) /\ LimitsSoFar(Positions)
        BY <1>5, FinishKnows
  <2>5. Optional(m.lo) /\ Optional(m.hi)
        BY <2>3 DEF MergeTypeOK
  <2>6. \A n \in Int : /\ (\A l \in m.lo : l <= n) => \A j \in DOMAIN params : \A l \in params[j].lo : l <= n
                       /\ (\A h \in m.hi : n <= h) => \A j \in DOMAIN params : \A h \in params[j].hi : n <= h
        BY <1>2, <2>3, <2>4 DEF LimitsSoFar
  <2>7. ASSUME NEW w \in Values, NEW j \in DOMAIN params, params[j].allowed # {},
               \A k \in DOMAIN params : params[k].allowed # {} => w \in params[k].allowed
        PROVE  m.allowed # {} /\ \A v \in m.allowed : v \in params[j].allowed
    <3>1. Common /\ constrained
          BY <1>2, <2>4, <2>7 DEF Common, InEveryList, AllowedSoFar
    <3>2. \A v \in Values : v \in allowed <=> \A k \in Positions : params[k].allowed # {} => v \in params[k].allowed
          BY <2>4, <3>1 DEF AllowedSoFar
    <3>3. allowed \subseteq Values
          BY DEF MergeTypeOK
    <3>q. QED  BY <1>2, <2>3, <2>7, <3>2, <3>3
  <2>8. Sums(m, params)
        BY <1>3, <2>2, <2>3, <2>5, <2>6, <2>7 DEF Sums
  <2>q. QED  BY <1>1, <2>1, <2>8
<1>6. CASE TypesDiffer
      BY <1>1, <1>6 DEF TypesDiffer, End
<1>q. QED  BY <1>1, <1>4, <1>5, <1>6 DEF MergeStep, Begin, Intersect, AllowedDone, Tighten

\* A step of the merge, or of something else, leaves it in order.
LEMMA MergingStep ==
    ASSUME Merging, (params # <<>> /\ MergeStep) \/ UNCHANGED mergeVars
    PROVE  Merging' /\ params' = params
<1>1. CASE params # <<>> /\ MergeStep
  <2>1. MergeTypeOK /\ LoopInv /\ InLoops /\ MergedIsExact /\ AgreeingMerge /\ [MergeStep]_mergeVars
        BY <1>1 DEF Merging, LoopInv
  <2>2. MergeTypeOK' /\ LoopInv' /\ MergedIsExact' /\ AgreeingMerge'
        BY <2>1, TypeStep, LoopStep, ExactStep, AgreeingStep
  <2>3. params' = params /\ \A m \in merged' : Sums(m, params)
        BY <1>1, <2>1, SumsStep DEF Merging
  <2>q. QED  BY <1>1, <2>2, <2>3 DEF Merging, Sums
<1>2. CASE UNCHANGED mergeVars
  <2>1. params' = params /\ merged' = merged /\ outcome' = outcome
        BY <1>2 DEF mergeVars
  <2>2. MergeTypeOK'
        BY <1>2 DEF Merging, MergeTypeOK, mergeVars
  <2>3. CASE params # <<>>
    <3>1. MergeTypeOK /\ LoopInv /\ MergedIsExact /\ AgreeingMerge /\ [MergeStep]_mergeVars
          BY <1>2, <2>3 DEF Merging
    <3>2. LoopInv' /\ MergedIsExact' /\ AgreeingMerge'
          BY <3>1, LoopStep, ExactStep, AgreeingStep
    <3>q. QED  BY <2>1, <2>2, <2>3, <3>2 DEF Merging, Sums
  <2>4. CASE params = <<>>
        BY <2>1, <2>2, <2>4 DEF Merging, MergedIsExact, AgreeingMerge
  <2>q. QED  BY <2>1, <2>3, <2>4
<1>q. QED  BY <1>1, <1>2

\* The merge of the next definitions starts.
LEMMA MergingRestart ==
    ASSUME NEW ps \in Seq(Definitions), Restart(ps)
    PROVE  Merging' /\ params' = ps
<1>1. params' = ps /\ merged' = {} /\ outcome' = "pending"
      BY DEF Restart
<1>2. MergeTypeOK'
      BY DEF Restart, MergeTypeOK, Places, Outcomes, Optional
<1>3. MergedIsExact' /\ AgreeingMerge'
      BY <1>1 DEF MergedIsExact, AgreeingMerge
<1>4. ps # <<>> => LoopInv'
      BY DEF Restart, LoopInv, InLoops, AllowedSoFar
<1>q. QED  BY <1>1, <1>2, <1>3, <1>4 DEF Merging

----------------------------------------------------------------------------
(* Steps that collect and merge.                                           *)

\* What sequences and names are made of.
LEMMA Shapes ==
    ASSUME Sourced
    PROVE  /\ Len(templates) \in Nat /\ DOMAIN templates = 1 .. Len(templates)
           /\ \A k \in DOMAIN templates : templates[k].definition \in Definitions
           /\ Len(sources) \in Nat /\ DOMAIN sources = 1 .. Len(sources)
           /\ \A k \in DOMAIN sources : sources[k] \in SourcesOf(templates)
           /\ \A name : name \in Range(names) <=> \E k \in DOMAIN sources : sources[k].name = name
<1>1. /\ Len(templates) \in Nat /\ DOMAIN templates = 1 .. Len(templates)
      /\ \A k \in DOMAIN templates : templates[k].definition \in Definitions
      BY ParametersAssumption DEF Sourced
<1>2. /\ Len(sources) \in Nat /\ DOMAIN sources = 1 .. Len(sources)
      /\ \A k \in DOMAIN sources : sources[k] \in SourcesOf(templates)
      BY DEF Sourced, HaveSources
<1>3. \A name : name \in Range(names) <=> \E k \in DOMAIN sources : sources[k].name = name
      BY DEF Range, names
<1>q. QED  BY <1>1, <1>2, <1>3

\* A definition that is read gets an entry of its own if it is the first under its name.
LEMMA FirstOfName ==
    ASSUME NEW ts, NEW n \in Nat, NEW ss, HaveSources(ts, n, ss),
           n + 1 \in DOMAIN ts, ts[n + 1].definition \in Definitions,
           NEW new, new = [name |-> ts[n + 1].name, definitions |-> <<ts[n + 1].definition>>],
           \A k \in DOMAIN ss : ss[k].name # new.name
    PROVE  HaveSources(ts, n + 1, Append(ss, new))
<1> DEFINE last == Len(ss) + 1
<1>1. new \in SourcesOf(ts)
      BY DEF SourcesOf
<1>2. /\ new.name = ts[n + 1].name /\ new.definitions # <<>>
      /\ \A m \in DOMAIN new.definitions : new.definitions[m] = ts[n + 1].definition
      /\ 1 \in DOMAIN new.definitions
      OBVIOUS
<1>3. PICK tt : tt = Append(ss, new)
      OBVIOUS
<1>4. /\ tt \in Seq(SourcesOf(ts)) /\ DOMAIN tt = DOMAIN ss \cup {last}
      /\ \A k \in DOMAIN ss : k # last /\ tt[k] = ss[k]
      /\ tt[last] = new
  <2>1. ss \in Seq(SourcesOf(ts))
        BY DEF HaveSources
  <2>2. /\ tt \in Seq(SourcesOf(ts)) /\ Len(tt) = last
        /\ \A k \in 1 .. Len(ss) : tt[k] = ss[k]
        /\ tt[last] = new
        BY <1>1, <1>3, <2>1, AppendProperties
  <2>3. DOMAIN tt = 1 .. last /\ DOMAIN ss = 1 .. Len(ss) /\ Len(ss) \in Nat
        BY <2>1, <2>2
  <2>q. QED  BY <2>2, <2>3
<1> HIDE DEF last
<1>5. \A k \in DOMAIN tt : tt[k].definitions # <<>>
      BY <1>2, <1>4 DEF HaveSources
<1>6. \A j, k \in DOMAIN tt : tt[j].name = tt[k].name => j = k
      BY <1>4 DEF HaveSources
<1>7. ASSUME NEW j \in 1 .. n + 1
      PROVE  \E k \in DOMAIN tt : tt[k].name = ts[j].name /\ Holds(tt, k, ts[j].definition)
  <2>1. CASE j \in 1 .. n
    <3>1. PICK k \in DOMAIN ss : ss[k].name = ts[j].name /\ Holds(ss, k, ts[j].definition)
          BY <2>1 DEF HaveSources
    <3>2. Holds(tt, k, ts[j].definition)
          BY <1>4, <3>1 DEF Holds
    <3>q. QED  BY <1>4, <3>1, <3>2
  <2>2. CASE j = n + 1
    <3>1. tt[last].name = ts[j].name /\ Holds(tt, last, ts[j].definition)
          BY <1>2, <1>4, <2>2 DEF Holds
    <3>q. QED  BY <1>4, <3>1
  <2>q. QED  BY <2>1, <2>2
<1>8. ASSUME NEW k \in DOMAIN tt, NEW m \in DOMAIN tt[k].definitions
      PROVE  \E j \in DOMAIN ts : ts[j].name = tt[k].name /\ ts[j].definition = tt[k].definitions[m]
  <2>1. CASE k \in DOMAIN ss
        BY <1>4, <2>1 DEF HaveSources
  <2>2. CASE k = last
        BY <1>2, <1>4, <2>2
  <2>q. QED  BY <1>4, <2>1, <2>2
<1>9. HaveSources(ts, n + 1, tt)
      BY <1>4, <1>5, <1>6, <1>7, <1>8 DEF HaveSources
<1>q. QED  BY <1>3, <1>9

\* A further definition under a name is added to the others.
LEMMA NextOfName ==
    ASSUME NEW ts, NEW n \in Nat, NEW ss, HaveSources(ts, n, ss),
           n + 1 \in DOMAIN ts, ts[n + 1].definition \in Definitions,
           NEW own \in DOMAIN ss, ss[own].name = ts[n + 1].name,
           NEW tt, DOMAIN tt = DOMAIN ss,
           tt[own] = [ss[own] EXCEPT !.definitions = Append(@, ts[n + 1].definition)],
           \A k \in DOMAIN ss : k # own => tt[k] = ss[k],
           tt = [k \in DOMAIN ss |-> tt[k]]
    PROVE  HaveSources(ts, n + 1, tt)
<1>1. /\ ss \in Seq(SourcesOf(ts)) /\ ss[own] \in SourcesOf(ts) /\ ss[own].definitions \in Seq(Definitions)
      /\ Len(ss) \in Nat /\ DOMAIN ss = 1 .. Len(ss) /\ \A k \in DOMAIN ss : ss[k] \in SourcesOf(ts)
  <2>1. ss \in Seq(SourcesOf(ts))
        BY DEF HaveSources
  <2>2. /\ Len(ss) \in Nat /\ DOMAIN ss = 1 .. Len(ss) /\ \A k \in DOMAIN ss : ss[k] \in SourcesOf(ts)
        BY <2>1
  <2>3. ss[own].definitions \in Seq(Definitions)
        BY <2>2 DEF SourcesOf
  <2>q. QED  BY <2>1, <2>2, <2>3
<1>2. PICK longer : longer = Append(ss[own].definitions, ts[n + 1].definition)
      OBVIOUS
<1>3. /\ longer \in Seq(Definitions) /\ longer # <<>>
      /\ \E m \in DOMAIN longer : longer[m] = ts[n + 1].definition
      /\ \A m \in DOMAIN ss[own].definitions : m \in DOMAIN longer /\ longer[m] = ss[own].definitions[m]
      /\ \A m \in DOMAIN longer : m \in DOMAIN ss[own].definitions \/ longer[m] = ts[n + 1].definition
  <2>1. PICK q : q = ss[own].definitions
        OBVIOUS
  <2>2. /\ longer \in Seq(Definitions) /\ longer # <<>> /\ Len(longer) = Len(q) + 1
        /\ \A m \in 1 .. Len(q) : longer[m] = q[m]
        /\ longer[Len(q) + 1] = ts[n + 1].definition
        BY <1>1, <1>2, <2>1, AppendProperties
  <2>3. DOMAIN q = 1 .. Len(q) /\ DOMAIN longer = 1 .. Len(longer) /\ Len(q) \in Nat
        BY <1>1, <2>1, <2>2
  <2>4. /\ \E m \in DOMAIN longer : longer[m] = ts[n + 1].definition
        /\ \A m \in DOMAIN q : m \in DOMAIN longer /\ longer[m] = q[m]
        /\ \A m \in DOMAIN longer : m \in DOMAIN q \/ longer[m] = ts[n + 1].definition
        BY <2>2, <2>3
  <2>q. QED  BY <2>1, <2>2, <2>4
<1>4. tt[own] = [ss[own] EXCEPT !.definitions = longer]
      BY <1>2
<1>5. tt[own].name = ss[own].name /\ tt[own].definitions = longer /\ tt[own] \in SourcesOf(ts)
      BY <1>1, <1>3, <1>4 DEF SourcesOf
<1>6. tt \in Seq(SourcesOf(ts))
  <2>1. \A k \in DOMAIN ss : tt[k] \in SourcesOf(ts)
        BY <1>1, <1>5
  <2>2. tt \in [1 .. Len(ss) -> SourcesOf(ts)]
        BY <1>1, <2>1
  <2>q. QED  BY <1>1, <2>2
<1>7. \A k \in DOMAIN tt : tt[k].definitions # <<>>
  <2>1. \A k \in DOMAIN ss : k # own => tt[k].definitions # <<>>
        BY DEF HaveSources
  <2>2. tt[own].definitions # <<>>
        BY <1>3, <1>5
  <2>q. QED  BY <2>1, <2>2
<1>8. \A k \in DOMAIN ss : tt[k].name = ss[k].name
      BY <1>5
<1>9. \A j, k \in DOMAIN tt : tt[j].name = tt[k].name => j = k
      BY <1>8 DEF HaveSources
<1>10. ASSUME NEW j \in 1 .. n + 1
       PROVE  \E k \in DOMAIN tt : tt[k].name = ts[j].name /\ Holds(tt, k, ts[j].definition)
  <2>1. CASE j \in 1 .. n
    <3>1. PICK k \in DOMAIN ss : ss[k].name = ts[j].name /\ Holds(ss, k, ts[j].definition)
          BY <2>1 DEF HaveSources
    <3>2. Holds(tt, k, ts[j].definition)
      <4>1. CASE k = own
            BY <1>3, <1>5, <3>1, <4>1 DEF Holds
      <4>2. CASE k # own
            BY <3>1, <4>2 DEF Holds
      <4>q. QED  BY <4>1, <4>2
    <3>q. QED  BY <1>8, <3>1, <3>2
  <2>2. CASE j = n + 1
    <3>1. Holds(tt, own, ts[j].definition)
          BY <1>3, <1>5, <2>2 DEF Holds
    <3>q. QED  BY <1>8, <2>2, <3>1
  <2>q. QED  BY <2>1, <2>2
<1>11. ASSUME NEW k \in DOMAIN tt, NEW m \in DOMAIN tt[k].definitions
       PROVE  \E j \in DOMAIN ts : ts[j].name = tt[k].name /\ ts[j].definition = tt[k].definitions[m]
  <2>1. CASE k # own
        BY <2>1 DEF HaveSources
  <2>2. CASE k = own
    <3>1. \A l \in DOMAIN ss[own].definitions : \E j \in DOMAIN ts :
            ts[j].name = ss[own].name /\ ts[j].definition = ss[own].definitions[l]
          BY DEF HaveSources
    <3>2. m \in DOMAIN longer /\ tt[k].definitions[m] = longer[m] /\ tt[k].name = ss[own].name
          BY <1>5, <2>2
    <3>q. QED  BY <1>3, <3>1, <3>2
  <2>q. QED  BY <2>1, <2>2
<1>q. QED  BY <1>6, <1>7, <1>9, <1>10, <1>11 DEF HaveSources

\* The sources stay in order while nothing is collected.
LEMMA SourcedStays ==
    ASSUME Sourced, UNCHANGED collectVars
    PROVE  Sourced' /\ names' = names /\ (AllRead' <=> AllRead)
<1>1. templates' = templates /\ read' = read /\ sources' = sources
      BY DEF collectVars
<1>q. QED  BY <1>1 DEF Sourced, names, AllRead

\* A definition is collected.
LEMMA SourcedCollects ==
    ASSUME Sourced, Collect
    PROVE  Sourced'
<1> DEFINE p == templates[read + 1]
           new == [name |-> p.name, definitions |-> <<p.definition>>]
<1>1. templates' = templates /\ read' = read + 1 /\ read < Len(templates)
      BY DEF Collect
<1>2. read \in Nat /\ read + 1 \in DOMAIN templates /\ p.definition \in Definitions
      /\ read + 1 \in 0 .. Len(templates)
      BY <1>1, Shapes DEF Sourced
<1>3. HaveSources(templates, read, sources)
      BY DEF Sourced
<1>4. CASE p.name \notin Range(names)
  <2>1. sources' = Append(sources, new)
        BY <1>1, <1>4 DEF Collect
  <2>2. \A k \in DOMAIN sources : sources[k].name # new.name
        BY <1>4, Shapes
  <2>3. HaveSources(templates, read + 1, Append(sources, new))
        BY <1>2, <1>3, <2>2, FirstOfName
  <2>q. QED  BY <1>1, <1>2, <2>1, <2>3 DEF Sourced
<1>5. CASE p.name \in Range(names)
  <2>1. PICK own \in DOMAIN sources : sources[own].name = p.name
        BY <1>5, Shapes
  <2>2. sources' = [k \in DOMAIN sources |->
                      IF sources[k].name = p.name
                      THEN [sources[k] EXCEPT !.definitions = Append(@, p.definition)]
                      ELSE sources[k]]
        BY <1>1, <1>5 DEF Collect
  <2>3. \A k \in DOMAIN sources : k # own => sources[k].name # p.name
        BY <2>1 DEF Sourced, HaveSources
  <2>4. PICK tt : tt = sources'
        OBVIOUS
  <2>5. /\ DOMAIN tt = DOMAIN sources /\ tt = [k \in DOMAIN sources |-> tt[k]]
        /\ tt[own] = [sources[own] EXCEPT !.definitions = Append(@, p.definition)]
        /\ \A k \in DOMAIN sources : k # own => tt[k] = sources[k]
        BY <2>1, <2>2, <2>3, <2>4
  <2>6. HaveSources(templates, read + 1, tt)
        BY SMTT(30), <1>2, <1>3, <2>1, <2>5, NextOfName
  <2>q. QED  BY <1>1, <1>2, <2>4, <2>6 DEF Sourced
<1>q. QED  BY <1>4, <1>5

\* A call says the same as long as the definitions stay.
LEMMA CallsStay ==
    ASSUME definitions' = definitions, sources' = sources
    PROVE  \A g, s : Report(g, s)' = Report(g, s) /\ Collected(g, s)' = Collected(g, s)
<1>1. \A name : Definition(name)' = Definition(name)
      BY DEF Definition
<1>2. names' = names
      BY DEF names
<1>3. \A g, s : Raising(g, s)' = Raising(g, s)
      BY <1>1, <1>2 DEF Raising
<1>4. \A g, s : Collected(g, s)' = Collected(g, s)
      BY <1>1, <1>2 DEF Collected
<1>5. \A g, s : Report(g, s)' = Report(g, s)
      BY SMTT(30), <1>1, <1>2, <1>3, <1>4 DEF Report
<1>q. QED  BY <1>4, <1>5

\* Before the first call there are no values.
LEMMA CalledEarly ==
    ASSUME Called, UNCHANGED resultVars, phase \in {"merging", "failed", "merged"},
           phase' \in {"merging", "failed", "merged"}
    PROVE  Called'
BY DEF Called, resultVars, CreateJobAgrees

\* What Aligned says of numbers.
LEMMA Counts ==
    ASSUME Sourced, Aligned
    PROVE  /\ taken \in Nat /\ taken <= Len(sources) /\ Len(sources) \in Nat
           /\ Len(definitions) \in Nat /\ DOMAIN definitions = 1 .. Len(definitions)
           /\ Cardinality(conflicts) \in Nat
           /\ ~AllRead => conflicts = {} /\ Len(definitions) = 0
<1>1. /\ taken \in Nat /\ taken <= Len(sources) /\ Len(sources) \in Nat
      /\ Len(definitions) \in Nat /\ DOMAIN definitions = 1 .. Len(definitions)
  <2>1. Len(sources) \in Nat
        BY Shapes
  <2>2. taken \in 0 .. Len(sources)
        BY DEF Aligned
  <2>3. definitions \in Seq(AllDefinitions)
        BY DEF Aligned
  <2>4. Len(definitions) \in Nat /\ DOMAIN definitions = 1 .. Len(definitions)
        BY <2>3
  <2>q. QED  BY <2>1, <2>2, <2>4
<1>2. Cardinality(conflicts) \in Nat
      BY FS_CardinalityType DEF Aligned
<1>3. ASSUME ~AllRead
      PROVE  conflicts = {} /\ Len(definitions) = 0
  <2>1. Len(definitions) + Cardinality(conflicts) <= 0
        BY <1>3 DEF Aligned
  <2>2. Len(definitions) = 0 /\ Cardinality(conflicts) = 0
        BY <1>1, <1>2, <2>1
  <2>q. QED  BY <2>2, FS_EmptySet DEF Aligned
<1>q. QED  BY <1>1, <1>2, <1>3

\* The invariant holds at first.
LEMMA InitInv == Init => ParametersInv
<1> SUFFICES ASSUME Init  PROVE ParametersInv
    OBVIOUS
<1>1. /\ templates \in Templates /\ read = 0 /\ sources = <<>> /\ taken = 0
      /\ definitions = <<>> /\ conflicts = {} /\ phase = "merging"
      /\ given = NoValues /\ values = NoValues /\ settings = Server(FALSE) /\ params = <<>>
      BY DEF Init, Start
<1>2. Merging
  <2>1. merged = {} /\ outcome = "pending"
        BY DEF Init, Start
  <2>2. MergeTypeOK
    <3>1. Start(<<>>)
          BY DEF Init
    <3>2. <<>> \in Seq(Definitions)
          OBVIOUS
    <3>3. params \in Seq(Definitions)
          BY <3>1, <3>2 DEF Start
    <3>q. QED  BY <3>1, <3>3 DEF Start, MergeTypeOK, Places, Outcomes, Optional
  <2>q. QED  BY <1>1, <2>1, <2>2 DEF Merging, MergedIsExact, AgreeingMerge
<1>3. Sourced
  <2>1. Len(templates) \in Nat
        BY <1>1, ParametersAssumption
  <2>2. HaveSources(templates, 0, <<>>)
        BY DEF HaveSources
  <2>q. QED  BY <1>1, <2>1, <2>2 DEF Sourced
<1>4. Aligned
      BY <1>1, FS_EmptySet DEF Aligned
<1>5. Called
  <2>1. DOMAIN NoValues = {}
        BY DEF NoValues
  <2>q. QED  BY <1>1, <2>1 DEF Called, Server, Settings, Kinds, CreateJobAgrees
<1>q. QED  BY <1>2, <1>3, <1>4, <1>5 DEF ParametersInv

\* Collect keeps it: nothing is merged yet.
LEMMA CollectInv ==
    ASSUME ParametersInv, Collect
    PROVE  ParametersInv'
<1>1. /\ Merging /\ Sourced /\ Aligned /\ Called /\ phase = "merging"
      /\ UNCHANGED mergeVars /\ UNCHANGED resultVars /\ phase' = phase
      /\ taken' = taken /\ definitions' = definitions /\ conflicts' = conflicts
      BY DEF ParametersInv, Collect, mergingVars
<1>2. ~AllRead
      BY <1>1 DEF Collect, AllRead, Sourced
<1>3. Merging' /\ params' = params
      BY <1>1, MergingStep
<1>4. Sourced'
      BY <1>1, SourcedCollects
<1>5. conflicts = {} /\ Len(definitions) = 0 /\ DOMAIN definitions = {} /\ taken = 0 /\ params = <<>>
      BY <1>1, <1>2, Counts DEF Aligned
<1>6. Len(sources') \in Nat
      BY <1>4 DEF Sourced, HaveSources
<1>7. Aligned'
      BY <1>1, <1>3, <1>5, <1>6, FS_EmptySet DEF Aligned
<1>8. Called'
      BY <1>1, CalledEarly
<1>q. QED  BY <1>3, <1>4, <1>7, <1>8 DEF ParametersInv

\* MergeNext keeps it: the definitions of the next name are taken up as they were collected.
LEMMA MergeNextInv ==
    ASSUME ParametersInv, MergeNext
    PROVE  ParametersInv'
<1>1. /\ Merging /\ Sourced /\ Aligned /\ Called /\ phase = "merging" /\ phase' = phase
      /\ UNCHANGED collectVars /\ UNCHANGED resultVars /\ sources' = sources
      /\ AllRead /\ params = <<>> /\ taken < Len(sources) /\ taken' = taken + 1
      /\ Restart(sources[taken + 1].definitions)
      /\ definitions' = definitions /\ conflicts' = conflicts
      BY DEF ParametersInv, MergeNext, collectVars
<1>2. Sourced' /\ names' = names /\ AllRead'
      BY <1>1, SourcedStays
<1>3. taken + 1 \in DOMAIN sources /\ taken' \in 0 .. Len(sources) /\ taken \in Nat
      BY <1>1, Counts, Shapes
<1>4. sources[taken + 1].definitions \in Seq(Definitions)
      BY <1>1, <1>3, Shapes DEF SourcesOf
<1>5. sources[taken + 1].definitions # <<>>
      BY <1>1, <1>3 DEF Sourced, HaveSources
<1>6. Merging' /\ params' = sources[taken + 1].definitions
      BY <1>1, <1>4, MergingRestart
<1>7. Aligned'
  <2>1. taken' > 0 /\ taken' - 1 = taken
        BY <1>1, <1>3
  <2>2. params' # <<>> /\ params' = sources'[taken'].definitions
        BY <1>1, <1>5, <1>6
  <2>q. QED  BY <1>1, <1>2, <1>3, <2>1, <2>2 DEF Aligned
<1>8. Called'
      BY <1>1, CalledEarly
<1>q. QED  BY <1>2, <1>6, <1>7, <1>8 DEF ParametersInv

\* Merge keeps it, by what is known of the merge of one name.
LEMMA MergeInv ==
    ASSUME ParametersInv, Merge
    PROVE  ParametersInv'
<1>1. /\ Merging /\ Sourced /\ Aligned /\ Called /\ phase = "merging" /\ phase' = phase
      /\ UNCHANGED collectVars /\ UNCHANGED resultVars /\ sources' = sources
      /\ params # <<>> /\ MergeStep
      /\ taken' = taken /\ definitions' = definitions /\ conflicts' = conflicts
      BY DEF ParametersInv, Merge, collectVars, mergingVars
<1>2. Sourced' /\ names' = names /\ (AllRead' <=> AllRead)
      BY <1>1, SourcedStays
<1>3. Merging' /\ params' = params
      BY <1>1, MergingStep
<1>4. Aligned'
      BY <1>1, <1>2, <1>3 DEF Aligned
<1>5. Called'
      BY <1>1, CalledEarly
<1>q. QED  BY <1>2, <1>3, <1>4, <1>5 DEF ParametersInv

\* Merged keeps it: the new definition comes in the place of its name and sums it up.
LEMMA MergedInv ==
    ASSUME ParametersInv, Merged
    PROVE  ParametersInv'
<1>1. /\ Merging /\ Sourced /\ Aligned /\ Called /\ phase = "merging" /\ phase' = phase
      /\ UNCHANGED collectVars /\ UNCHANGED resultVars /\ sources' = sources
      /\ Restart(<<>>) /\ outcome = "merged"
      /\ taken' = taken /\ conflicts' = conflicts
      BY DEF ParametersInv, Merged, collectVars
<1>2. PICK m \in merged : definitions' = Append(definitions, m)
      BY DEF Merged
<1>3. Sourced' /\ names' = names /\ (AllRead' <=> AllRead)
      BY <1>1, SourcedStays
<1>4. Merging' /\ params' = <<>>
  <2>1. <<>> \in Seq(Definitions)
        OBVIOUS
  <2>q. QED  BY <1>1, <2>1, MergingRestart
<1>5. params # <<>> /\ Sums(m, params) /\ m \in AllDefinitions
      BY <1>1, <1>2 DEF Merging, Sums
<1>6. taken > 0 /\ params = sources[taken].definitions /\ AllRead
      BY <1>1, <1>5 DEF Aligned
<1>7. /\ definitions' \in Seq(AllDefinitions) /\ Len(definitions') = Len(definitions) + 1
      /\ \A k \in 1 .. Len(definitions) : definitions'[k] = definitions[k]
      /\ definitions'[Len(definitions) + 1] = m
      BY <1>1, <1>2, <1>5, AppendProperties DEF Aligned
<1>8. Aligned'
  <2>1. Len(definitions') + Cardinality(conflicts') <= taken'
    <3>1. Len(definitions) + Cardinality(conflicts) <= taken - 1
          BY <1>1, <1>5 DEF Aligned
    <3>q. QED  BY <1>1, <1>7, <3>1, Counts
  <2>2. ASSUME conflicts' = {}
        PROVE  /\ Len(definitions') = taken'
               /\ \A k \in DOMAIN definitions' : Sums(definitions'[k], sources'[k].definitions)
    <3>1. Len(definitions) = taken - 1 /\ taken \in Nat
          BY <1>1, <1>5, <2>2, Counts DEF Aligned
    <3>2. DOMAIN definitions' = 1 .. taken /\ Len(definitions') = taken
          BY <1>7, <3>1
    <3>3. \A k \in 1 .. taken : k = taken \/ k \in 1 .. Len(definitions)
          BY <3>1
    <3>4. \A k \in 1 .. Len(definitions) : Sums(definitions'[k], sources[k].definitions)
          BY <1>1, <1>7, <2>2, Counts DEF Aligned
    <3>5. definitions'[taken] = m
          BY <1>7, <3>1
    <3>6. Sums(definitions'[taken], sources[taken].definitions)
          BY <1>5, <1>6, <3>5
    <3>q. QED  BY <1>1, <3>2, <3>3, <3>4, <3>6
  <2>q. QED  BY <1>1, <1>3, <1>4, <1>6, <1>7, <2>1, <2>2 DEF Aligned
<1>9. Called'
      BY <1>1, CalledEarly
<1>q. QED  BY <1>3, <1>4, <1>8, <1>9 DEF ParametersInv

\* Conflict keeps it: a name more, at most, and no definition.
LEMMA ConflictInv ==
    ASSUME ParametersInv, Conflict
    PROVE  ParametersInv'
<1>1. /\ Merging /\ Sourced /\ Aligned /\ Called /\ phase = "merging" /\ phase' = phase
      /\ UNCHANGED collectVars /\ UNCHANGED resultVars /\ sources' = sources
      /\ Restart(<<>>) /\ outcome = "CompatibilityError"
      /\ taken' = taken /\ definitions' = definitions /\ conflicts' = conflicts \cup {names[taken]}
      BY DEF ParametersInv, Conflict, collectVars
<1>2. Sourced' /\ names' = names /\ (AllRead' <=> AllRead)
      BY <1>1, SourcedStays
<1>3. Merging' /\ params' = <<>>
  <2>1. <<>> \in Seq(Definitions)
        OBVIOUS
  <2>q. QED  BY <1>1, <2>1, MergingRestart
<1>4. params # <<>> /\ taken > 0 /\ AllRead
      BY <1>1 DEF Merging, Aligned
<1>5. names[taken] \in Range(names)
  <2>1. taken \in DOMAIN sources
        BY <1>1, <1>4, Counts, Shapes
  <2>q. QED  BY <2>1 DEF names, Range
<1>6. /\ IsFiniteSet(conflicts') /\ conflicts' # {}
      /\ Cardinality(conflicts') <= Cardinality(conflicts) + 1
  <2>1. IsFiniteSet(conflicts) /\ Cardinality(conflicts) \in Nat
        BY <1>1, Counts DEF Aligned
  <2>2. /\ IsFiniteSet(conflicts')
        /\ Cardinality(conflicts') = Cardinality(conflicts) \/ Cardinality(conflicts') = Cardinality(conflicts) + 1
        BY <1>1, <2>1, FS_AddElement
  <2>q. QED  BY <1>1, <2>1, <2>2
<1>7. Len(definitions) + Cardinality(conflicts') <= taken
  <2>1. Len(definitions) + Cardinality(conflicts) <= taken - 1
        BY <1>1, <1>4 DEF Aligned
  <2>2. Cardinality(conflicts') \in Nat
        BY <1>6, FS_CardinalityType
  <2>q. QED  BY <1>1, <1>6, <2>1, <2>2, Counts
<1>8. Aligned'
  <2>1. conflicts' \subseteq Range(names)'
        BY <1>1, <1>2, <1>5 DEF Aligned
  <2>q. QED  BY <1>1, <1>2, <1>3, <1>4, <1>6, <1>7, <2>1 DEF Aligned
<1>9. Called'
      BY <1>1, CalledEarly
<1>q. QED  BY <1>2, <1>3, <1>8, <1>9 DEF ParametersInv

\* The ends of the merge keep it: what is returned without a conflict is complete.
LEMMA EndsInv ==
    ASSUME ParametersInv, Invalid \/ MergeReturns
    PROVE  ParametersInv'
<1>1. /\ Merging /\ Sourced /\ Aligned /\ Called /\ phase = "merging"
      /\ UNCHANGED collectVars /\ UNCHANGED resultVars /\ UNCHANGED mergeVars /\ sources' = sources
      /\ taken' = taken /\ definitions' = definitions /\ conflicts' = conflicts
      BY DEF ParametersInv, Invalid, MergeReturns, collectVars, mergingVars
<1>2. \/ phase' = "failed"
      \/ phase' = "merged" /\ AllRead /\ params = <<>> /\ taken = Len(sources) /\ conflicts = {}
      BY DEF Invalid, MergeReturns
<1>3. Sourced' /\ names' = names /\ (AllRead' <=> AllRead)
      BY <1>1, SourcedStays
<1>4. Merging' /\ params' = params
      BY <1>1, MergingStep
<1>5. Aligned'
      BY <1>1, <1>2, <1>3, <1>4 DEF Aligned
<1>6. Called'
      BY <1>1, <1>2, CalledEarly
<1>q. QED  BY <1>3, <1>4, <1>5, <1>6 DEF ParametersInv

----------------------------------------------------------------------------
(* The calls.                                                              *)

\* The definition of a name is the one in its place.
LEMMA DefinitionOfName ==
    ASSUME Sourced, Aligned, phase \in {"merged", "preprocessed", "created"}, NEW name \in Range(names)
    PROVE  \E k \in DOMAIN sources : /\ sources[k].name = name /\ Definition(name) = definitions[k]
                                     /\ Sums(Definition(name), sources[k].definitions)
<1>1. PICK k \in DOMAIN sources : sources[k].name = name
      BY Shapes
<1>2. (CHOOSE j \in DOMAIN sources : sources[j].name = name) = k
      BY <1>1 DEF Sourced, HaveSources
<1>3. Definition(name) = definitions[k]
      BY <1>2 DEF Definition
<1>4. /\ conflicts = {} /\ Len(definitions) = Len(sources)
      /\ \A j \in DOMAIN definitions : Sums(definitions[j], sources[j].definitions)
      BY DEF Aligned
<1>5. k \in DOMAIN definitions
      BY <1>1, <1>4, Counts, Shapes
<1>q. QED  BY <1>1, <1>3, <1>4, <1>5

\* Its default is a value, and well formed.
LEMMA DefaultOfName ==
    ASSUME Sourced, Aligned, phase \in {"merged", "preprocessed", "created"}, NEW name \in Range(names),
           Definition(name).default # {}
    PROVE  /\ TheOne(Definition(name).default) \in Values
           /\ TheOne(Definition(name).default).place # "malformed"
<1>1. Definition(name) \in AllDefinitions /\ \A v \in Definition(name).default : v.place # "malformed"
      BY DefinitionOfName DEF Sums
<1>2. TheOne(Definition(name).default) \in Definition(name).default
      BY DEF TheOne
<1>q. QED  BY <1>1, <1>2 DEF AllDefinitions

\* What is collected: for which names, and what.
LEMMA CollectedValues ==
    ASSUME NEW g, NEW s
    PROVE  /\ \A name : name \in DOMAIN Collected(g, s) <=>
                          name \in Range(names) /\ (name \in DOMAIN g \/ Definition(name).default # {})
           /\ \A name \in DOMAIN Collected(g, s) :
                Collected(g, s)[name] =
                  IF name \in DOMAIN g
                  THEN IF Definition(name).type = "PATH" THEN ResolvedGiven(g[name], s) ELSE g[name]
                  ELSE IF Definition(name).type = "PATH"
                       THEN ResolvedDefault(TheOne(Definition(name).default), s)
                       ELSE TheOne(Definition(name).default)
           /\ Collected(g, s) = [name \in DOMAIN Collected(g, s) |-> Collected(g, s)[name]]
BY DEF Collected

\* Tidying and joining make a value of a value.
LEMMA TidiedIsValue ==
    ASSUME NEW v \in AnyValue
    PROVE  Tidied(v) \in AnyValue
<1>1. CASE v.tidy
      BY <1>1 DEF Tidied
<1>2. CASE ~v.tidy
  <2> DEFINE size == v.size - 1
             place == IF v.place = "uri" THEN "relative" ELSE v.place
  <2>1. size \in Int /\ place \in {"plain", "malformed"} \cup PathPlaces
        BY DEF AnyValue, PathPlaces
  <2>2. [v EXCEPT !.tidy = TRUE, !.size = size, !.place = place] \in AnyValue
    <3> HIDE DEF size, place
    <3>q. QED  BY <2>1 DEF AnyValue
  <2>3. Tidied(v) = [v EXCEPT !.tidy = TRUE, !.size = size, !.place = place]
        BY <1>2 DEF Tidied, AnyValue
  <2>q. QED  BY <2>2, <2>3
<1>q. QED  BY <1>1, <1>2

LEMMA ResolvedValues ==
    ASSUME NEW v \in AnyValue, NEW s
    PROVE  ResolvedGiven(v, s) \in AnyValue /\ ResolvedDefault(v, s) \in AnyValue
<1>1. DirSize \in Int
      BY ParametersAssumption
<1>2. Tidied(v) \in AnyValue
      BY TidiedIsValue
<1>3. Joined(v) \in AnyValue
  <2>1. PICK w \in AnyValue : w = Tidied(v)
        BY <1>2
  <2>2. PICK n \in Int : n = w.size + DirSize
        BY <1>1 DEF AnyValue
  <2>3. [w EXCEPT !.size = n, !.place = "absolute"] \in AnyValue
        BY <2>2 DEF AnyValue, PathPlaces
  <2>4. Joined(v) = [w EXCEPT !.size = n, !.place = "absolute"]
        BY <2>1, <2>2 DEF Joined, AnyValue
  <2>q. QED  BY <2>3, <2>4
<1>q. QED  BY <1>2, <1>3 DEF ResolvedGiven, ResolvedDefault

\* Values are collected.
LEMMA CollectedAreValues ==
    ASSUME Sourced, Aligned, phase \in {"merged", "preprocessed", "created"},
           NEW g, NEW s, \A name \in DOMAIN g : g[name] \in AnyValue
    PROVE  \A name \in DOMAIN Collected(g, s) : Collected(g, s)[name] \in AnyValue
<1> SUFFICES ASSUME NEW name \in DOMAIN Collected(g, s)
             PROVE  Collected(g, s)[name] \in AnyValue
    OBVIOUS
<1>1. name \in Range(names) /\ (name \in DOMAIN g \/ Definition(name).default # {})
      BY CollectedValues
<1>2. CASE name \in DOMAIN g
      BY <1>2, CollectedValues, ResolvedValues
<1>3. CASE name \notin DOMAIN g
  <2>1. TheOne(Definition(name).default) \in AnyValue
        BY <1>1, <1>3, DefaultOfName, ParametersAssumption
  <2>q. QED  BY <1>3, <2>1, CollectedValues, ResolvedValues
<1>q. QED  BY <1>2, <1>3

\* A call that reports nothing: every name has a value, which meets its definition.
LEMMA NothingReported ==
    ASSUME NEW g, NEW s, Report(g, s) = NoReport
    PROVE  /\ DOMAIN g \subseteq Range(names)
           /\ Raising(g, s) \cap Range(names) = {}
           /\ DOMAIN Collected(g, s) = Range(names)
           /\ \A name \in Range(names) : Meets(Definition(name), Collected(g, s)[name])
<1> DEFINE unanchored == ~s.walkUp /\ s.template = "relative"
           raising == IF unanchored THEN Range(names) ELSE Raising(g, s)
           collected == IF raising = {} THEN Collected(g, s) ELSE NoValues
           bad == {name \in DOMAIN collected : ~Meets(Definition(name), collected[name])}
<1>1. Report(g, s) = [extra |-> DOMAIN g \ Range(names), raised |-> raising, bad |-> bad,
                      missing |-> Range(names) \ DOMAIN collected]
      BY DEF Report
<1> HIDE DEF bad, collected, raising
<1>2. /\ DOMAIN g \ Range(names) = {} /\ raising = {} /\ bad = {}
      /\ Range(names) \ DOMAIN collected = {}
      BY <1>1 DEF NoReport
<1>3. collected = Collected(g, s)
      BY <1>2 DEF collected
<1>4. Raising(g, s) \cap Range(names) = {}
      BY <1>2 DEF raising
<1>5. DOMAIN Collected(g, s) = Range(names)
      BY <1>2, <1>3, CollectedValues
<1>q. QED  BY <1>2, <1>3, <1>4, <1>5 DEF bad

\* What tidying and joining make is tidy.
LEMMA MadeTidy ==
    ASSUME NEW v \in AnyValue
    PROVE  Tidied(v).tidy /\ Joined(v).tidy
<1>1. Tidied(v).tidy
      BY DEF Tidied, AnyValue
<1>2. PICK w \in AnyValue : w = Tidied(v)
      BY TidiedIsValue
<1>q. QED  BY <1>1, <1>2 DEF Joined, AnyValue

\* What a call returns without a report goes through a second call, with no directories:
\* it comes out as it is, but for the untidy defaults that the first call kept.
LEMMA SecondCall ==
    ASSUME Sourced, Aligned, phase \in {"merged", "preprocessed", "created"},
           NEW g, NEW s, Report(g, s) = NoReport, NEW w, w = Collected(g, s),
           \A name \in DOMAIN g : g[name] \in AnyValue,
           NEW e, e = s.expr, NEW t, t = Server(e)
    PROVE  /\ Collected(w, t) = [name \in DOMAIN w |->
                IF name \in KeptUntidy(w, t) THEN Tidied(w[name]) ELSE w[name]]
           /\ Report(w, t) = [NoReport EXCEPT !.bad = Report(w, t).bad]
           /\ Report(w, t).bad \subseteq KeptUntidy(w, t)
<1>1. /\ DOMAIN w = Range(names)
      /\ \A name \in Range(names) : Meets(Definition(name), w[name])
      /\ Raising(g, s) \cap Range(names) = {}
      BY NothingReported
<1>2. ASSUME NEW name \in Range(names), Definition(name).type = "LIST"
      PROVE  w[name].place # "malformed"
  <2>1. CASE name \in DOMAIN g
    <3>1. w[name] = g[name]
          BY <1>1, <1>2, <2>1, CollectedValues
    <3>q. QED  BY <1>1, <1>2, <2>1, <3>1 DEF Raising
  <2>2. CASE name \notin DOMAIN g
    <3>1. w[name] = TheOne(Definition(name).default) /\ Definition(name).default # {}
          BY <1>1, <1>2, <2>2, CollectedValues
    <3>q. QED  BY <3>1, DefaultOfName
  <2>q. QED  BY <2>1, <2>2
<1>3. Raising(w, t) = {}
      BY <1>1, <1>2 DEF Raising
<1>4. /\ t.cwd = "relative" /\ t.walkUp /\ t.expr = s.expr
      BY DEF Server
<1>5. \A v : Uri(v, t) = Uri(v, s)
      BY <1>4 DEF Uri
<1>6. ASSUME NEW name \in Range(names), Definition(name).type = "PATH"
      PROVE  ResolvedGiven(w[name], t) =
               IF name \in KeptUntidy(w, t) THEN Tidied(w[name]) ELSE w[name]
  <2>1. CASE name \in KeptUntidy(w, t)
        BY <1>4, <2>1 DEF KeptUntidy, ResolvedGiven
  <2>2. CASE w[name].tidy \/ w[name].size = 0 \/ w[name].place = "absolute" \/ Uri(w[name], t)
        BY <1>4, <2>2 DEF KeptUntidy, ResolvedGiven, Tidied
  <2>3. CASE /\ ~w[name].tidy /\ w[name].size # 0
             /\ w[name].place # "absolute" /\ ~Uri(w[name], t)
    <3>1. CASE name \in DOMAIN g
      <4>1. w[name] = ResolvedGiven(g[name], s)
            BY <1>1, <1>6, <3>1, CollectedValues
      <4>2. Tidied(g[name]).tidy /\ Joined(g[name]).tidy
            BY <3>1, MadeTidy
      <4>q. QED  BY <1>5, <2>3, <4>1, <4>2 DEF ResolvedGiven
    <3>2. CASE name \notin DOMAIN g
      <4>1. PICK d \in Definition(name).default : d = TheOne(Definition(name).default)
            BY <1>1, <3>2, CollectedValues DEF TheOne
      <4>2. w[name] = ResolvedDefault(d, s)
            BY <1>1, <1>6, <3>2, <4>1, CollectedValues
      <4>3. Joined(d).tidy
        <5>1. d \in AnyValue
              BY <1>6, <4>1, DefaultOfName, ParametersAssumption
        <5>q. QED  BY <5>1, MadeTidy
      <4>4. w[name] = d
            BY <2>3, <4>2, <4>3 DEF ResolvedDefault
      <4>5. name \in KeptUntidy(w, t)
            BY <1>1, <1>6, <2>3, <4>1, <4>4 DEF KeptUntidy
      <4>q. QED  BY <2>1, <4>5
    <3>q. QED  BY <3>1, <3>2
  <2>q. QED  BY <2>2, <2>3
<1>7. ASSUME NEW name \in KeptUntidy(w, t)
      PROVE  name \in Range(names) /\ Definition(name).type = "PATH"
      BY <1>1, <1>7 DEF KeptUntidy
<1>8. Collected(w, t) = [name \in DOMAIN w |->
                IF name \in KeptUntidy(w, t) THEN Tidied(w[name]) ELSE w[name]]
  <2>1. DOMAIN Collected(w, t) = Range(names)
        BY <1>1, CollectedValues
  <2>2. \A name \in Range(names) : Collected(w, t)[name] =
                IF name \in KeptUntidy(w, t) THEN Tidied(w[name]) ELSE w[name]
        BY <1>1, <1>6, <1>7, <2>1, CollectedValues
  <2>3. Collected(w, t) = [name \in Range(names) |-> Collected(w, t)[name]]
        BY <2>1, CollectedValues
  <2>q. QED  BY <1>1, <2>2, <2>3
<1>9. Report(w, t) =
        [extra   |-> {}, raised  |-> {},
         bad     |-> {name \in DOMAIN w : ~Meets(Definition(name), Collected(w, t)[name])},
         missing |-> {}]
  <2>1. DOMAIN Collected(w, t) = DOMAIN w
        BY <1>8
  <2>2. Report(w, t) =
          [extra   |-> DOMAIN w \ Range(names),
           raised  |-> {},
           bad     |-> {name \in DOMAIN Collected(w, t) :
                          ~Meets(Definition(name), Collected(w, t)[name])},
           missing |-> Range(names) \ DOMAIN Collected(w, t)]
        BY <1>3, <1>4 DEF Report
  <2>q. QED  BY <1>1, <2>1, <2>2
<1>10. Report(w, t).bad \subseteq KeptUntidy(w, t)
       BY <1>1, <1>8, <1>9
<1>11. Report(w, t) = [NoReport EXCEPT !.bad = Report(w, t).bad]
  <2>1. PICK bad : /\ bad = {name \in DOMAIN w : ~Meets(Definition(name), Collected(w, t)[name])}
                   /\ Report(w, t) = [extra |-> {}, raised |-> {}, bad |-> bad, missing |-> {}]
        BY <1>9
  <2>2. Report(w, t).bad = bad
        BY <2>1
  <2>q. QED  BY <2>1, <2>2 DEF NoReport
<1>q. QED  BY <1>8, <1>10, <1>11

\* Which defaults are kept depends on the definitions.
LEMMA KeptStays ==
    ASSUME UNCHANGED <<collectVars, mergingVars>>
    PROVE  KeptUntidy(given, settings)' = KeptUntidy(given', settings')
<1>1. definitions' = definitions /\ sources' = sources
      BY DEF collectVars, mergingVars
<1>2. \A name : Definition(name)' = Definition(name)
      BY <1>1 DEF Definition
<1>q. QED  BY <1>2 DEF KeptUntidy, Uri

\* The merge is over, and its results stay.
LEMMA ResultsStay ==
    ASSUME Merging, Sourced, Aligned, UNCHANGED <<collectVars, mergingVars, mergeVars>>,
           phase \in {"merged", "preprocessed", "created"},
           phase' \in {"merged", "preprocessed", "created"}
    PROVE  /\ Merging' /\ Sourced' /\ Aligned' /\ names' = names
           /\ \A g, s : Report(g, s)' = Report(g, s) /\ Collected(g, s)' = Collected(g, s)
<1>1. /\ UNCHANGED collectVars /\ UNCHANGED mergeVars /\ sources' = sources
      /\ taken' = taken /\ definitions' = definitions /\ conflicts' = conflicts
      BY DEF collectVars, mergingVars
<1>2. Sourced' /\ names' = names /\ (AllRead' <=> AllRead)
      BY <1>1, SourcedStays
<1>3. Merging' /\ params' = params
      BY <1>1, MergingStep
<1>4. Aligned'
      BY <1>1, <1>2, <1>3 DEF Aligned
<1>q. QED  BY <1>1, <1>2, <1>3, <1>4, CallsStay

\* Preprocess keeps it: values and report are those of the call.
LEMMA PreprocessInv ==
    ASSUME ParametersInv, Preprocess
    PROVE  ParametersInv'
<1>1. /\ Merging /\ Sourced /\ Aligned /\ Called /\ phase = "merged" /\ phase' = "preprocessed"
      /\ UNCHANGED <<collectVars, mergingVars, mergeVars>>
      BY DEF ParametersInv, Preprocess
<1>2. PICK g \in Submitted, s \in Settings : Call(g, s)
      BY DEF Preprocess
<1>3. /\ Merging' /\ Sourced' /\ Aligned'
      /\ \A h, t : Report(h, t)' = Report(h, t) /\ Collected(h, t)' = Collected(h, t)
      BY <1>1, ResultsStay
<1>4. /\ given' = g /\ settings' = s /\ reported' = Report(g, s)
      /\ values' = IF reported' = NoReport THEN Collected(g, s) ELSE NoValues
      BY <1>2 DEF Call
<1>5. \A name \in DOMAIN g : g[name] \in AnyValue
      BY ParametersAssumption DEF Range
<1>6. reported' = Report(given, settings)' /\ (Collected(given, settings))' = Collected(g, s)
      BY <1>3, <1>4
<1>7. Called'
      BY <1>1, <1>4, <1>5, <1>6 DEF Called, CreateJobAgrees
<1>q. QED  BY <1>3, <1>7 DEF ParametersInv

\* CreateJob keeps it: the second call changes only what the first kept untidy.
LEMMA CreateJobInv ==
    ASSUME ParametersInv, CreateJob
    PROVE  ParametersInv'
<1> DEFINE s == Server(settings.expr)
<1>1. /\ Merging /\ Sourced /\ Aligned /\ Called /\ phase = "preprocessed" /\ phase' = "created"
      /\ UNCHANGED <<collectVars, mergingVars, mergeVars>> /\ reported = NoReport
      BY DEF ParametersInv, CreateJob
<1>2. /\ Merging' /\ Sourced' /\ Aligned'
      /\ \A h, t : Report(h, t)' = Report(h, t) /\ Collected(h, t)' = Collected(h, t)
      BY <1>1, ResultsStay
<1>3. /\ given' = values /\ settings' = s /\ reported' = Report(values, s)
      /\ values' = IF reported' = NoReport THEN Collected(values, s) ELSE NoValues
      BY DEF CreateJob, Call
<1>4. Report(given, settings) = NoReport /\ values = Collected(given, settings)
      BY <1>1 DEF Called
<1>5. \A name \in DOMAIN values : values[name] \in AnyValue
      BY <1>1, <1>4, CollectedAreValues DEF Called
<1>6. settings' \in Settings
      BY <1>1, <1>3 DEF Called, Settings, Server, Kinds
<1>7. CreateJobAgrees'
  <2>1. KeptUntidy(given, settings)' = KeptUntidy(values, s)
        BY <1>1, <1>3, KeptStays
  <2>2. /\ Collected(values, s) = [name \in DOMAIN values |->
             IF name \in KeptUntidy(values, s) THEN Tidied(values[name]) ELSE values[name]]
        /\ Report(values, s) = [NoReport EXCEPT !.bad = Report(values, s).bad]
        /\ Report(values, s).bad \subseteq KeptUntidy(values, s)
        BY <1>1, <1>4, SecondCall DEF Called
  <2>q. QED  BY <1>3, <2>1, <2>2 DEF CreateJobAgrees
<1>8. reported' = Report(given, settings)' /\ (Collected(given, settings))' = Collected(values, s)
      BY <1>2, <1>3
<1>9. Called'
      BY <1>1, <1>3, <1>5, <1>6, <1>7, <1>8 DEF Called
<1>q. QED  BY <1>2, <1>9 DEF ParametersInv

\* Nothing moves.
LEMMA StutterInv ==
    ASSUME ParametersInv, UNCHANGED vars
    PROVE  ParametersInv'
<1>1. /\ Merging /\ Sourced /\ Aligned /\ Called /\ phase' = phase
      /\ UNCHANGED collectVars /\ UNCHANGED mergeVars /\ sources' = sources
      /\ taken' = taken /\ definitions' = definitions /\ conflicts' = conflicts
      /\ given' = given /\ settings' = settings /\ values' = values /\ reported' = reported
      BY DEF ParametersInv, vars, collectVars, mergingVars, resultVars
<1>2. Sourced' /\ names' = names /\ (AllRead' <=> AllRead)
      BY <1>1, SourcedStays
<1>3. Merging' /\ params' = params
      BY <1>1, MergingStep
<1>4. Aligned'
      BY <1>1, <1>2, <1>3 DEF Aligned
<1>5. /\ Report(given, settings)' = Report(given, settings)
      /\ Collected(given, settings)' = Collected(given, settings)
  <2>1. \A g, s : Report(g, s)' = Report(g, s) /\ Collected(g, s)' = Collected(g, s)
        BY <1>1, CallsStay
  <2>q. QED  BY <1>1, <2>1
<1>6. Called'
  <2>1. KeptUntidy(given, settings)' = KeptUntidy(given, settings)
        BY <1>1, KeptStays DEF mergingVars
  <2>q. QED  BY <1>1, <1>5, <2>1 DEF Called, CreateJobAgrees
<1>q. QED  BY <1>2, <1>3, <1>4, <1>6 DEF ParametersInv

\* The invariant holds in every state.
LEMMA ParametersIsInv == Spec => []ParametersInv
<1>1. Init => ParametersInv
      BY InitInv
<1>2. ParametersInv /\ [Next]_vars => ParametersInv'
      BY CollectInv, MergeNextInv, MergeInv, MergedInv, ConflictInv, EndsInv,
         PreprocessInv, CreateJobInv, StutterInv DEF Next
<1>q. QED  BY <1>1, <1>2, PTL DEF Spec

----------------------------------------------------------------------------
(* What holds of the parameters of every job.                              *)

\* The variables keep their types: there are never more definitions and conflicts than names
\* taken up, and never a value for a name that no template defines.
THEOREM ParametersTypeCorrect == Spec => []TypeOK
<1>1. ParametersInv => TypeOK
  <2> SUFFICES ASSUME ParametersInv  PROVE TypeOK
      OBVIOUS
  <2>1. Merging /\ Sourced /\ Aligned /\ Called
        BY DEF ParametersInv
  <2>2. Len(definitions) + Cardinality(conflicts) <= taken
        BY <2>1, Counts DEF Aligned
  <2>3. DOMAIN values \subseteq Range(names)
    <3>1. values = NoValues \/ values = Collected(given, settings)
          BY <2>1 DEF Called, Aligned
    <3>2. DOMAIN NoValues = {}
          BY DEF NoValues
    <3>q. QED  BY <3>1, <3>2, CollectedValues
  <2>q. QED  BY <2>1, <2>2, <2>3 DEF Merging, Sourced, Aligned, Called, TypeOK
<1>q. QED  BY <1>1, ParametersIsInv, PTL

\* Of every parameter of a job, the merged definition accepts exactly what all its
\* definitions accept, if any value is in all their lists of allowed values.
THEOREM EveryMergeIsExact == Spec => []MergedIsExact
<1>1. ParametersInv => MergedIsExact
      BY DEF ParametersInv, Merging
<1>q. QED  BY <1>1, ParametersIsInv, PTL

\* Of no parameter of a job are definitions that agree rejected.
THEOREM NoAgreementRejected == Spec => []AgreeingMerge
<1>1. ParametersInv => AgreeingMerge
      BY DEF ParametersInv, Merging
<1>q. QED  BY <1>1, ParametersIsInv, PTL

\* create_job takes what preprocess_job_parameters returned: it changes no value, and faults
\* none, but an untidy relative default that was kept as written.
THEOREM CreateJobTakesWhatWasReturned == Spec => []CreateJobAgrees
<1>1. ParametersInv => CreateJobAgrees
      BY DEF ParametersInv, Called
<1>q. QED  BY <1>1, ParametersIsInv, PTL

\* The definition of a name sums up the definitions that the templates have of it.
LEMMA SumsTemplates ==
    ASSUME Sourced, Aligned, phase \in {"merged", "preprocessed", "created"}, NEW name \in Range(names)
    PROVE  LET defs == {templates[k].definition : k \in {k \in DOMAIN templates : templates[k].name = name}}
           IN  \E ps : /\ \A d \in defs : \E j \in DOMAIN ps : ps[j] = d
                       /\ \A j \in DOMAIN ps : ps[j] \in defs
                       /\ Sums(Definition(name), ps)
<1> DEFINE defs == {templates[k].definition : k \in {k \in DOMAIN templates : templates[k].name = name}}
<1>1. PICK own \in DOMAIN sources : /\ sources[own].name = name
                                   /\ Sums(Definition(name), sources[own].definitions)
      BY DefinitionOfName
<1>2. PICK ps : ps = sources[own].definitions
      OBVIOUS
<1>3. HaveSources(templates, Len(templates), sources) /\ DOMAIN templates = 1 .. Len(templates)
      BY Shapes DEF Sourced, Aligned, AllRead
<1>4. ASSUME NEW k \in DOMAIN templates, templates[k].name = name
      PROVE  \E j \in DOMAIN ps : ps[j] = templates[k].definition
  <2>1. PICK n \in DOMAIN sources : sources[n].name = name /\ Holds(sources, n, templates[k].definition)
        BY <1>3, <1>4 DEF HaveSources
  <2>2. n = own
        BY <1>1, <1>3, <2>1 DEF HaveSources
  <2>q. QED  BY <1>2, <2>1, <2>2 DEF Holds
<1>5. ASSUME NEW j \in DOMAIN ps
      PROVE  ps[j] \in defs
  <2>1. PICK k \in DOMAIN templates : templates[k].name = name /\ templates[k].definition = ps[j]
        BY <1>1, <1>2, <1>3 DEF HaveSources
  <2>q. QED  BY <2>1
<1>6. \A d \in defs : \E j \in DOMAIN ps : ps[j] = d
      BY <1>4
<1>q. QED  BY <1>1, <1>2, <1>5, <1>6

\* A value that meets a definition meets what the definition sums up.
LEMMA MeetsAll ==
    ASSUME NEW m, NEW ps, Sums(m, ps), m.type # "LIST", NEW v, v.size \in Int, Meets(m, v),
           NEW j \in DOMAIN ps
    PROVE  /\ \A l \in ps[j].lo : l <= v.size \/ m.lo = {0}
           /\ \A h \in ps[j].hi : v.size <= h \/ m.hi = {0}
           /\ \A w \in Values : 
                (\A k \in DOMAIN ps : ps[k].allowed # {} => w \in ps[k].allowed) /\ ps[j].allowed # {} =>
                  v \in ps[j].allowed
<1>1. m.type \in LegacyTypes
      BY DEF Sums, AllDefinitions, Types
<1>2. /\ Optional(m.lo) /\ Optional(m.hi)
      /\ (\A l \in m.lo : l <= v.size) => \A l \in ps[j].lo : l <= v.size
      /\ (\A h \in m.hi : v.size <= h) => \A h \in ps[j].hi : v.size <= h
      BY <1>1 DEF Sums
<1>3. /\ \A l \in m.lo \ {0} : l <= v.size
      /\ \A h \in m.hi \ {0} : v.size <= h
      /\ m.allowed # {} => v \in m.allowed
      BY DEF Meets
<1>4. (0 \in m.lo => m.lo = {0}) /\ (0 \in m.hi => m.hi = {0})
      BY <1>2 DEF Optional
<1>5. \A w \in Values :
        (\A k \in DOMAIN ps : ps[k].allowed # {} => w \in ps[k].allowed) /\ ps[j].allowed # {} =>
          m.allowed # {} /\ \A u \in m.allowed : u \in ps[j].allowed
      BY <1>1 DEF Sums
<1>q. QED  BY <1>2, <1>3, <1>4, <1>5

\* When preprocess_job_parameters or create_job returns, every parameter has a value, and it
\* meets what the definition in every template demands, but for limits that merge to 0 and
\* for lists of allowed values that have nothing in common.
THEOREM AcceptedValuesMeetEvery == Spec => []AcceptedMeetsEvery
<1>1. ParametersInv => AcceptedMeetsEvery
  <2> SUFFICES ASSUME ParametersInv, Returned  PROVE AcceptedMeetsEvery
      BY DEF AcceptedMeetsEvery
  <2>1. /\ Sourced /\ Aligned /\ Called /\ phase \in {"preprocessed", "created"}
        /\ Report(given, settings) = NoReport /\ values = Collected(given, settings)
        BY DEF ParametersInv, Called, Returned
  <2>2. /\ DOMAIN values = Range(names)
        /\ \A name \in Range(names) : Meets(Definition(name), values[name])
        BY <2>1, NothingReported
  <2>3. \A name \in Range(names) : values[name].size \in Int
    <3>1. \A name \in DOMAIN values : values[name] \in AnyValue
          BY <2>1, CollectedAreValues DEF Called
    <3>q. QED  BY <2>2, <3>1 DEF AnyValue
  <2>4. ASSUME NEW name \in Range(names), Definition(name).type # "LIST"
        PROVE  LET own  == {k \in DOMAIN templates : templates[k].name = name}
                   defs == {templates[k].definition : k \in own}
                   v == values[name]
                   lists == {d.allowed : d \in {d \in defs : d.allowed # {}}}
                   common == {w \in Values : \A S \in lists : w \in S}
               IN  \A d \in defs :
                     /\ \A l \in d.lo : l <= v.size \/ Definition(name).lo = {0}
                     /\ \A h \in d.hi : v.size <= h \/ Definition(name).hi = {0}
                     /\ d.allowed # {} /\ common # {} => v \in d.allowed
    <3> DEFINE own  == {k \in DOMAIN templates : templates[k].name = name}
               defs == {templates[k].definition : k \in own}
               v == values[name]
               lists == {d.allowed : d \in {d \in defs : d.allowed # {}}}
               common == {w \in Values : \A S \in lists : w \in S}
    <3>1. PICK ps : /\ \A d \in defs : \E j \in DOMAIN ps : ps[j] = d
                    /\ \A j \in DOMAIN ps : ps[j] \in defs
                    /\ Sums(Definition(name), ps)
          BY <2>1, SumsTemplates
    <3> HIDE DEF defs
    <3>2. SUFFICES ASSUME NEW d \in defs
                   PROVE  /\ \A l \in d.lo : l <= v.size \/ Definition(name).lo = {0}
                          /\ \A h \in d.hi : v.size <= h \/ Definition(name).hi = {0}
                          /\ d.allowed # {} /\ common # {} => v \in d.allowed
          BY DEF defs
    <3>3. PICK j \in DOMAIN ps : ps[j] = d
          BY <3>1
    <3>4. /\ \A l \in d.lo : l <= v.size \/ Definition(name).lo = {0}
          /\ \A h \in d.hi : v.size <= h \/ Definition(name).hi = {0}
          /\ \A w \in Values :
               (\A k \in DOMAIN ps : ps[k].allowed # {} => w \in ps[k].allowed) /\ d.allowed # {} =>
                 v \in d.allowed
          BY <2>2, <2>3, <2>4, <3>1, <3>3, MeetsAll
    <3>5. \A w \in common, k \in DOMAIN ps : ps[k].allowed # {} => w \in ps[k].allowed
          BY <3>1
    <3>q. QED  BY <3>4, <3>5
  <2>q. QED  BY <2>2, <2>4 DEF AcceptedMeetsEvery
<1>q. QED  BY <1>1, ParametersIsInv, PTL
=============================================================================
