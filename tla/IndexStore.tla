----------------------------- MODULE IndexStore -----------------------------
(***************************************************************************)
(* What the five index files of the word net promise the batch program: an *)
(* index is there as a whole or not at all.  Every run of MakeNetIndex may *)
(* count on top of the installed index, makes one of its own or none, and  *)
(* only a whole one is ever counted on.  Index 0 stands for no index.      *)
(***************************************************************************)
EXTENDS Integers

CONSTANT MaxRuns

VARIABLES
    last,       \* the number of the last run
    made,       \* the index under output/, named by the run that wrote it
    installed,  \* the index under data/index/
    base        \* base[r]: the index run r counted on, -1 when refused

storeVars == <<last, made, installed, base>>

StoreInit ==
    /\ last = 0 /\ made = 0 /\ installed = 0
    /\ base = [r \in 1 .. MaxRuns |-> 0]

Begin == last' = last + 1 /\ UNCHANGED <<made, installed, base>>

CountOnInstalled ==
    /\ installed # 0
    /\ base' = [base EXCEPT ![last] = installed]
    /\ UNCHANGED <<last, made, installed>>

Refuse ==
    /\ installed = 0
    /\ base' = [base EXCEPT ![last] = -1]
    /\ UNCHANGED <<last, made, installed>>

Publish == made' = last /\ UNCHANGED <<last, installed, base>>
Withdraw == made' = 0 /\ UNCHANGED <<last, installed, base>>

\* What a run left is the index from now on, even when that is none.
InstallMade == installed' = made /\ UNCHANGED <<last, made, base>>

StoreNext ==
    Begin \/ CountOnInstalled \/ Refuse \/ Publish \/ Withdraw \/ InstallMade

StoreSpec == StoreInit /\ [][StoreNext]_storeVars
=============================================================================
