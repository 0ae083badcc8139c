---------------------------- MODULE CoocCounter ----------------------------
(***************************************************************************)
(* What MakeNetIndex is for: it counts in how many weibos every term is,   *)
(* and how often two terms meet in one weibo, over all days.  A weibo      *)
(* counts as a whole, a run counts on from the installed counts or from    *)
(* nothing, and filtering forgets a pair altogether or not at all.  Once   *)
(* memory has run short a run may miss meetings.                           *)
(***************************************************************************)
EXTENDS Integers

CONSTANT Hash

VARIABLES
    phase,      \* "off", "counting", "filtered" or "saved"
    now,        \* the counts of the run
    short,      \* memory has run short in this run
    saved,      \* the counts a run has left behind: one element, or none
    installed   \* the counts the next run may start from

counterVars == <<phase, now, short, saved, installed>>

Pair == Hash \X Hash

Counts == [seen : [Hash -> Nat], met : [Pair -> Nat], weibos : Nat]

Zero == [seen |-> [h \in Hash |-> 0], met |-> [p \in Pair |-> 0], weibos |-> 0]

CounterInit ==
    /\ phase = "off" /\ now = Zero /\ short = FALSE
    /\ saved = {} /\ installed = {}

Begin ==
    /\ phase = "off" /\ phase' = "counting"
    /\ now' \in installed \cup {Zero}
    /\ UNCHANGED <<short, saved, installed>>

\* A weibo with the terms S.
Count(S) ==
    /\ phase = "counting" /\ phase' = phase
    /\ short' \in {short, TRUE}
    /\ now' \in Counts
    /\ \A h \in Hash : now'.seen[h] = now.seen[h] + (IF h \in S THEN 1 ELSE 0)
    /\ \A g, h \in Hash :
        LET p == <<g, h>>
        IN  IF g # h /\ {g, h} \subseteq S
            THEN now'.met[p] = now.met[p] + 1 \/ (short' /\ now'.met[p] = now.met[p])
            ELSE now'.met[p] = now.met[p]
    /\ now'.weibos = now.weibos + 1
    /\ UNCHANGED <<saved, installed>>

Filter ==
    /\ phase = "counting" /\ phase' = "filtered"
    /\ now' \in Counts
    /\ \A p \in Pair : now'.met[p] \in {now.met[p], 0}
    /\ now'.seen = now.seen /\ now'.weibos = now.weibos
    /\ UNCHANGED <<short, saved, installed>>

Save ==
    /\ phase = "filtered" /\ phase' = "saved"
    /\ saved' = {now}
    /\ UNCHANGED <<now, short, installed>>

\* The run ends; while it was saving, what was saved may be lost.
Stop ==
    /\ phase # "off" /\ phase' = "off"
    /\ now' = Zero /\ short' = FALSE
    /\ saved' = saved \/ (phase \in {"filtered", "saved"} /\ saved' = {})
    /\ UNCHANGED installed

PutInPlace ==
    /\ phase = "off"
    /\ saved # {} /\ installed' = saved
    /\ UNCHANGED <<phase, now, short, saved>>

CounterNext ==
    \/ Begin \/ (\E S \in SUBSET Hash : Count(S)) \/ Filter \/ Save \/ Stop \/ PutInPlace

CounterSpec == CounterInit /\ [][CounterNext]_counterVars
=============================================================================
