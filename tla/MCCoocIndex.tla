---------------------------- MODULE MCCoocIndex ----------------------------
(* Small instances of CoocIndex for TLC.                                   *)
EXTENDS CoocIndex

\* Lines with one, two and three terms, with a repeated term and with none.
LinesSmall == {<< >>, <<1, 2>>, <<2, 3, 2>>, <<3, 1, 2>>}
=============================================================================
