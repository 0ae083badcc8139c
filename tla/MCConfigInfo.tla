---------------------------- MODULE MCConfigInfo ----------------------------
(* Files that include themselves, each other, one another twice, or a file *)
(* that does not open or cannot be read to its end, on lines with and      *)
(* without an assignment.                                                  *)
EXTENDS ConfigInfo

Inc(f) == [inc |-> f, key |-> None, value |-> None, sep |-> "="]
Set(k, v) == [inc |-> None, key |-> k, value |-> v, sep |-> "="]
Tab(k, v) == [Set(k, v) EXCEPT !.sep = "tab"]
Both(f, k, v) == [Set(k, v) EXCEPT !.inc = f]

MCDisks ==
    LET f == {<< >>, <<Set("a", "1"), Inc("g"), Tab("b", "2")>>, <<Both("f", "a", "2"), Both("g", "b", "1")>>,
              <<Inc("h"), Inc("g"), Inc("g"), Set("a", "b")>>}
        g == {NoFile, <<Set("a", "2"), Inc("f")>>, <<Both("g", "b", "a"), Tab("a", "1"), Set("b", "1")>>, <<Set("b", "2"), Broken>>}
    IN  {[n \in {"f", "g", "h"} |-> IF n = "f" THEN x ELSE IF n = "g" THEN y ELSE NoFile] : x \in f, y \in g}
=============================================================================
