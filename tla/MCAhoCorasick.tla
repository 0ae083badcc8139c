--------------------------- MODULE MCAhoCorasick ---------------------------
(* Words over two characters that overlap in every way: suffixes of one    *)
(* another, prefixes, one inside another, with borders, and the empty word. *)
EXTENDS AhoCorasick

MCWords == {<< >>, <<"a">>, <<"b">>, <<"a", "b">>, <<"b", "a", "b">>, <<"a", "a", "b">>,
            <<"b", "b">>}
=============================================================================
