-------------------------- MODULE SymbolTableCache --------------------------
(***************************************************************************)
(* SymbolTable (openjd/model/_symbol_table.py) and the two values that     *)
(* openjd/model/_format_strings/_expr_support.py builds from it for every  *)
(* evaluation of an expression and keeps in it under the table's version:  *)
(* the engine's symbol table, one per path format, and the host profile.   *)
(*                                                                         *)
(* One thread changes the table; a change lands first and bumps the        *)
(* version after it, in a step of its own.  Other threads evaluate.  The   *)
(* parts of a table are its symbols, the mapping expr_types as a whole     *)
(* and expr_host_rules; what the engine builds is the parts it was given.  *)
(***************************************************************************)
EXTENDS Naturals

CONSTANTS
    Threads,      \* threads that evaluate
    Names,        \* symbols
    Values,       \* their values
    Absent,       \* ... or this, for a symbol the table does not have
    TypeMaps,     \* contents of expr_types
    Untyped,      \* ... the empty one
    RuleLists,    \* lists of path mapping rules, and None
    Formats,      \* path formats
    MaxVersion,   \* bound on the version
    Serial        \* nobody starts to evaluate while expr_types is replaced, gets
                  \* its first entry or loses its last one

TableParts == Names \cup {"types", "format"}
Parts  == TableParts \cup {"rules"}
Stored == Names \cup {"types", "rules"}
Vals   == Values \cup TypeMaps \cup RuleLists \cup Formats

ASSUME CacheAssumption ==
    /\ Absent \in Values /\ Untyped \in TypeMaps
    /\ Names \cap {"types", "format", "rules"} = {}
    /\ "profile" \notin Formats
    /\ MaxVersion \in Nat /\ Serial \in BOOLEAN

VARIABLES
    now,          \* the parts of the table
    version,      \* _version
    landed,       \* a change has landed and not yet bumped the version
    cache,        \* _expr_eval_cache: at most one entry per key
    pc,           \* where each thread is in an evaluation
    stage,        \* "table" in symtab_to_expr_values, "profile" in profile_for_symtab
    held,         \* the argument `types': the "own" mapping of the table, or an
                  \* "old" one that was replaced since; None for a table that has
                  \* no types is "none", and for one that has some is "untyped"
    kept,         \* the content of an old mapping
    cacheable,
    ver,          \* the local variable `version'
    got,          \* the parts collected so far
    torn,         \* threads whose iteration over the symbols met a new one
    may, seen, returned   \* see RegularTable

tableVars  == <<now, version, landed>>
threadVars == <<pc, stage, held, kept, cacheable, ver, got, torn>>
vars == <<tableVars, cache, threadVars, may, seen, returned>>
\* What a step inside an evaluation leaves alone.
quiet == <<may, seen>>

Needs(s) == IF s = "table" THEN TableParts ELSE {"rules"}
Key(t)   == IF stage[t] = "table" THEN got[t]["format"] ELSE "profile"
Keys     == Formats \cup {"profile"}
NoParts  == [p \in {} |-> {}]
Idle     == [p \in Parts |-> {}]

\* The table as it is when it is made or copied: no cache, version 0.
Init ==
    /\ now \in {s \in [Stored -> Vals] :
                  /\ \A n \in Names : s[n] \in Values
                  /\ s["types"] \in TypeMaps /\ s["rules"] \in RuleLists}
    /\ version = 0 /\ landed = FALSE
    /\ cache = [k \in Keys |-> {}]
    /\ pc = [t \in Threads |-> "idle"]
    /\ stage = [t \in Threads |-> "table"]
    /\ held = [t \in Threads |-> "none"]
    /\ kept = [t \in Threads |-> Untyped]
    /\ cacheable = [t \in Threads |-> FALSE]
    /\ ver = [t \in Threads |-> 0]
    /\ got = [t \in Threads |-> NoParts]
    /\ torn = {}
    /\ may = [p \in Stored |-> {now[p]}]
    /\ seen = [t \in Threads |-> Idle]
    /\ returned = {}

----------------------------------------------------------------------------
\* Changes of the table.

\* An evaluation sees the parts it is for; without the types of a table that
\* has some it never sees them.
Sees(t, p) ==
    /\ pc[t] # "idle" /\ p \in Needs(stage[t])
    /\ ~(p = "types" /\ held[t] = "untyped")

Land(p, v) ==
    /\ ~landed /\ version < MaxVersion
    /\ landed' = TRUE
    /\ now' = [now EXCEPT ![p] = v]
    /\ may' = [may EXCEPT ![p] = @ \cup {v}]
    /\ seen' = [t \in Threads |->
                  IF Sees(t, p) THEN [seen[t] EXCEPT ![p] = @ \cup {v}] ELSE seen[t]]
    /\ returned' = {}
    /\ UNCHANGED <<version, cache, pc, stage, cacheable, ver, got>>

\* Threads in the middle of the iteration over the symbols.
Iterating(t) ==
    /\ pc[t] = "read" /\ stage[t] = "table"
    /\ Names \cap DOMAIN got[t] # {} /\ ~(Names \subseteq DOMAIN got[t])

\* symtab[name] = value
SetSymbol(n, v) ==
    /\ v # Absent
    /\ Land(n, v)
    /\ torn' = IF now[n] = Absent THEN torn \cup {t \in Threads : Iterating(t)} ELSE torn
    /\ UNCHANGED <<held, kept>>

\* A thread that has decided whether the result may be cached and has not
\* read the version.
Exposed(t) == stage[t] = "table" /\ pc[t] \in {"check", "version"}
TypesFree == Serial => \A t \in Threads : ~Exposed(t)

\* A method of the versioned mapping.
ChangeTypes(m) ==
    /\ (m = Untyped) # (now["types"] = Untyped) => TypesFree
    /\ Land("types", m)
    /\ UNCHANGED <<held, kept, torn>>

\* expr_types = m
AssignTypes(m) ==
    /\ TypesFree
    /\ Land("types", m)
    /\ held' = [t \in Threads |-> IF held[t] = "own" THEN "old" ELSE held[t]]
    /\ kept' = [t \in Threads |-> IF held[t] = "own" THEN now["types"] ELSE kept[t]]
    /\ UNCHANGED torn

\* expr_host_rules = rules
AssignRules(l) == Land("rules", l) /\ UNCHANGED <<held, kept, torn>>

BumpReset ==     \* mutant: versions are used again
    /\ landed
    /\ landed' = FALSE /\ version' = 1 - version
    /\ may' = [p \in Stored |-> {now[p]}]
    /\ returned' = {}
    /\ UNCHANGED <<now, cache, threadVars, seen>>

\* _bump_version
Bump ==
    /\ landed
    /\ landed' = FALSE /\ version' = version + 1
    /\ may' = [p \in Stored |-> {now[p]}]
    /\ returned' = {}
    /\ UNCHANGED <<now, cache, threadVars, seen>>

----------------------------------------------------------------------------
\* symtab_to_expr_values.  The caller passes `symtab.expr_types or None', or no
\* types at all.
Begin(t, f, typed) ==
    /\ pc[t] = "idle"
    /\ pc' = [pc EXCEPT ![t] = "check"]
    /\ stage' = [stage EXCEPT ![t] = "table"]
    /\ held' = [held EXCEPT ![t] =
                  IF now["types"] = Untyped THEN "none"
                  ELSE IF typed THEN "own" ELSE "untyped"]
    /\ got' = [got EXCEPT ![t] = [p \in {"format"} |-> f]]
    /\ seen' = [seen EXCEPT ![t] =
                  [p \in Parts |-> IF p = "rules" THEN {} ELSE IF p = "format" THEN {f}
                                   ELSE IF p = "types" /\ held'[t] = "untyped" THEN {Untyped}
                                   ELSE may[p]]]
    /\ returned' = {}
    /\ UNCHANGED <<tableVars, cache, kept, cacheable, ver, torn, may>>

\* profile_for_symtab: whatever it builds may be cached.
BeginProfile(t) ==
    /\ pc[t] = "idle"
    /\ pc' = [pc EXCEPT ![t] = "version"]
    /\ stage' = [stage EXCEPT ![t] = "profile"]
    /\ cacheable' = [cacheable EXCEPT ![t] = TRUE]
    /\ seen' = [seen EXCEPT ![t] = [p \in Parts |-> IF p = "rules" THEN may[p] ELSE {}]]
    /\ returned' = {}
    /\ UNCHANGED <<tableVars, cache, held, kept, ver, got, torn, may>>

CheckAlways(t) ==     \* mutant: an untyped build is cached too
    /\ pc[t] = "check"
    /\ cacheable' = [cacheable EXCEPT ![t] = TRUE]
    /\ pc' = [pc EXCEPT ![t] = "version"]
    /\ returned' = {}
    /\ UNCHANGED <<tableVars, cache, stage, held, kept, ver, got, torn, quiet>>

\* Only the table's own types, or none when it has none, make a result that
\* others may use.
Check(t) ==
    /\ pc[t] = "check"
    /\ cacheable' = [cacheable EXCEPT ![t] =
                       held[t] = "own" \/ (held[t] # "old" /\ now["types"] = Untyped)]
    /\ pc' = [pc EXCEPT ![t] = "version"]
    /\ returned' = {}
    /\ UNCHANGED <<tableVars, cache, stage, held, kept, ver, got, torn, quiet>>

ReadVersion(t) ==
    /\ pc[t] = "version"
    /\ ver' = [ver EXCEPT ![t] = version]
    /\ pc' = [pc EXCEPT ![t] = IF cacheable[t] THEN "lookup" ELSE "read"]
    /\ returned' = {}
    /\ UNCHANGED <<tableVars, cache, stage, held, kept, cacheable, got, torn, quiet>>

\* The call ends, and its local variables with it.
End(t) ==
    /\ pc' = [pc EXCEPT ![t] = "idle"]
    /\ stage' = [stage EXCEPT ![t] = "table"]
    /\ held' = [held EXCEPT ![t] = "none"]
    /\ kept' = [kept EXCEPT ![t] = Untyped]
    /\ cacheable' = [cacheable EXCEPT ![t] = FALSE]
    /\ ver' = [ver EXCEPT ![t] = 0]
    /\ got' = [got EXCEPT ![t] = NoParts]
    /\ torn' = torn \ {t}
    /\ seen' = [seen EXCEPT ![t] = Idle]

Return(t, value) == End(t) /\ returned' = {<<t, value>>}

HitAny(t) ==     \* mutant: the version of the entry is not compared
    /\ pc[t] = "lookup"
    /\ \E e \in cache[Key(t)] : Return(t, e.value)
    /\ UNCHANGED <<tableVars, cache, may>>

Hit(t) ==
    /\ pc[t] = "lookup"
    /\ \E e \in cache[Key(t)] : e.version = ver[t] /\ Return(t, e.value)
    /\ UNCHANGED <<tableVars, cache, may>>

Miss(t) ==
    /\ pc[t] = "lookup"
    /\ \A e \in cache[Key(t)] : e.version # ver[t]
    /\ pc' = [pc EXCEPT ![t] = "read"]
    /\ returned' = {}
    /\ UNCHANGED <<tableVars, cache, stage, held, kept, cacheable, ver, got, torn, quiet>>

TypesArgument(t) ==
    IF held[t] = "own" THEN now["types"] ELSE IF held[t] = "old" THEN kept[t] ELSE Untyped

\* The symbols one at a time, the types after them; or the rules.
Read(t, p) ==
    /\ pc[t] = "read" /\ t \notin torn
    /\ p \in Needs(stage[t]) \ DOMAIN got[t]
    /\ p = "types" => Names \subseteq DOMAIN got[t]
    /\ got' = [got EXCEPT ![t] =
                 [q \in DOMAIN got[t] \cup {p} |->
                    IF q # p THEN got[t][q] ELSE IF p = "types" THEN TypesArgument(t) ELSE now[p]]]
    /\ returned' = {}
    /\ UNCHANGED <<tableVars, cache, pc, stage, held, kept, cacheable, ver, torn, quiet>>

\* "dictionary changed size during iteration"
Fail(t) ==
    /\ pc[t] = "read" /\ t \in torn
    /\ End(t) /\ returned' = {}
    /\ UNCHANGED <<tableVars, cache, may>>

Complete(t) == pc[t] = "read" /\ t \notin torn /\ DOMAIN got[t] = Needs(stage[t])
Put(t, v)   == cache' = IF cacheable[t] THEN [cache EXCEPT ![Key(t)] = {[version |-> v, value |-> got[t]]}]
                        ELSE cache

StoreNow(t) ==     \* mutant: the entry is kept under the version of the moment
    /\ Complete(t) /\ Put(t, version) /\ Return(t, got[t])
    /\ UNCHANGED <<tableVars, may>>

\* The value is built, and kept under the version read before its parts.
Store(t) ==
    /\ Complete(t) /\ Put(t, ver[t]) /\ Return(t, got[t])
    /\ UNCHANGED <<tableVars, may>>

Next ==
    \/ \E n \in Names, v \in Values : SetSymbol(n, v)
    \/ \E m \in TypeMaps : ChangeTypes(m) \/ AssignTypes(m)
    \/ \E l \in RuleLists : AssignRules(l)
    \/ Bump
    \/ \E t \in Threads :
         \/ \E f \in Formats, typed \in BOOLEAN : Begin(t, f, typed)
         \/ BeginProfile(t)
         \/ Check(t) \/ ReadVersion(t) \/ Hit(t) \/ Miss(t)
         \/ \E p \in Parts : Read(t, p)
         \/ Fail(t) \/ Store(t)

Spec == Init /\ [][Next]_vars

----------------------------------------------------------------------------
EntryValues(k) ==
    IF k = "profile" THEN {[r \in {"rules"} |-> l] : l \in RuleLists}
    ELSE {e \in [TableParts -> Vals] : e["types"] \in TypeMaps /\ e["format"] \in Formats}

TypeOK ==
    /\ now \in [Stored -> Vals] /\ version \in 0 .. MaxVersion /\ landed \in BOOLEAN
    /\ \A k \in Keys : \A e \in cache[k] :
         e.version \in 0 .. version /\ e.value \in EntryValues(k)
    /\ pc \in [Threads -> {"idle", "check", "version", "lookup", "read"}]
    /\ stage \in [Threads -> {"table", "profile"}]
    /\ held \in [Threads -> {"none", "untyped", "own", "old"}]
    /\ kept \in [Threads -> TypeMaps]
    /\ cacheable \in [Threads -> BOOLEAN]
    /\ ver \in [Threads -> 0 .. version]
    /\ torn \in SUBSET Threads

\* Outside of a change, what the cache holds under the version of the table is
\* what the engine would build from the table now: for the parts, with the
\* table's types, for the key's path format ("those mutations must be
\* observable for the cache to be sound"; an entry made in the middle of a
\* change is superseded at once, _VersionedDict's docstring).
CacheFresh ==
    ~landed =>
      \A k \in Keys : \A e \in cache[k] :
        e.version = version =>
          /\ \A p \in DOMAIN e.value \cap Stored : e.value[p] = now[p]
          /\ k # "profile" => e.value["format"] = k

\* With the cache, the table still promises what it would without one: no part
\* an evaluation used is older than the evaluation, however many changes and
\* other evaluations there are in between.
Uncached == INSTANCE RegularTable
ReadsRegular == Uncached!Spec
=============================================================================
