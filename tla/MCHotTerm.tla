----------------------------- MODULE MCHotTerm -----------------------------
EXTENDS HotTerm, TLC

\* Four terms in orders that make build_min_heap and the later replacements
\* swap to the left and to the right or not at all, with and without ties.
Table(d0, d1, d2, d3) == (0 :> d0) @@ (1 :> d1) @@ (2 :> d2) @@ (3 :> d3)
DfsRace == {Table(3, 1, 2, 2), Table(3, 2, 1, 4), Table(1, 1, 2, 3), Table(4, 3, 2, 1)}

\* Fewer terms than entries.
DfsFew == {(0 :> 3) @@ (1 :> 1)}

DfsAll == DfsRace \cup DfsFew

Threads == Permutations(Worker)
=============================================================================
