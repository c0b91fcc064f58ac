------------------------ MODULE MCSymbolTableCache ------------------------
(* Two threads evaluate while a third changes a table of two symbols. *)
EXTENDS SymbolTableCache, TLC
CONSTANTS t1, t2, a, absent, untyped, typed, noRules, rules1, posix

MCValues    == {a, absent}
MCTypeMaps  == {untyped, typed}
MCRuleLists == {noRules, rules1}
MCFormats   == {posix}
MCNames     == {"x", "y"}

Fresh == [s \in Stored |-> IF s \in Names THEN absent
                           ELSE IF s = "types" THEN untyped ELSE noRules]
MCInit == Init /\ now = Fresh
MCSymmetry == Permutations(Threads)
MCSpec == MCInit /\ [][Next]_vars
=============================================================================
