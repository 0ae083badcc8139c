---------------------------- MODULE MCIndexFiles ----------------------------
(* Small indexes: none; one term that met no other; two terms, of which    *)
(* only one has kept its relation, walked in the other order.              *)
EXTENDS IndexFiles

MCDumps == {
    Empty,
    [walk |-> <<0>>, ends |-> <<0>>],
    [walk |-> <<1, 0>>, ends |-> <<0, 1>>]}
=============================================================================
