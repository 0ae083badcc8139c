------------------------------ MODULE HotTerm ------------------------------
(***************************************************************************)
(* GetHotTerm of the word net server (WordNetServer/src/commonworker.cpp): *)
(* the HotSize terms with the greatest df_now, selected with a min-heap.   *)
(* The heap lives in global_data.hot_term_buf, which CreateGlobalData      *)
(* allocates once and all worker threads of the server use without a lock. *)
(*                                                                         *)
(* A step is one load or one store of the shared buffer, so that calls     *)
(* interleave as the threads do.  A sort_item_t is eight aligned bytes and *)
(* is copied with one access.  A local of the code that is not read again  *)
(* has its initial value here.                                             *)
(***************************************************************************)
EXTENDS Integers, FiniteSets

CONSTANTS
    Worker,     \* the worker threads (g_threadNum of them)
    TermNums,   \* how many terms an index may have
    Dfs,        \* what df_now of the terms may be
    HotSize     \* entries of hot_term_buf (1000)

ASSUME TermNumsAssumption == TermNums \subseteq Nat
ASSUME DfsAssumption == \A d \in Dfs : \E n \in TermNums : d \in [0 .. n - 1 -> Nat]
ASSUME HotSizeAssumption == HotSize \in Nat \ {0}

VARIABLES
    TermNum, Df,    \* TermInfo.size() and TermInfo[].df_now, loaded once
    hot_term_buf,   \* the shared heap
    pc,             \* per worker: where it stands in GetHotTerm
    i,              \* the counter of both loops
    root,           \* build_min_heap's counter; 0 for a single heapify_r
    node,           \* heapify_r's i
    min,            \* heapify_r's min
    tmp,            \* heapify_r's tmp
    reg,            \* the entry loaded for a comparison or a copy
    alone           \* history variable: no other call overlaps this one

heap == <<root, node, min, tmp, reg>>
terms == <<TermNum, Df>>
vars == <<terms, hot_term_buf, pc, i, heap, alone>>

Cells == 0 .. HotSize - 1

\* malloc gives memory with any content.
Junk == -1
Unwritten == [sort_int |-> Junk, appendix |-> Junk]

Goto(w, label) == pc' = [pc EXCEPT ![w] = label]

-----------------------------------------------------------------------------
Init ==
    /\ Df \in Dfs /\ TermNum \in TermNums /\ DOMAIN Df = 0 .. TermNum - 1
    /\ hot_term_buf = [k \in Cells |-> Unwritten]
    /\ pc = [w \in Worker |-> "idle"]
    /\ i = [w \in Worker |-> 0]
    /\ root = [w \in Worker |-> 0]
    /\ node = [w \in Worker |-> 0]
    /\ min = [w \in Worker |-> 0]
    /\ tmp = [w \in Worker |-> Unwritten]
    /\ reg = [w \in Worker |-> Unwritten]
    /\ alone = [w \in Worker |-> FALSE]

\* A request of type 0 arrives.
Call(w) ==
    /\ pc[w] = "idle"
    /\ Goto(w, "loop")
    /\ alone' = [v \in Worker |-> v = w /\ \A u \in Worker \ {w} : pc[u] = "idle"]
    /\ UNCHANGED <<terms, hot_term_buf, i, heap>>

-----------------------------------------------------------------------------
(* The loop over TermInfo.                                                 *)

\* The entry this term goes to: its own, or the root once the heap is full.
Cell(w) == IF i[w] < HotSize THEN i[w] ELSE 0

\* The first HotSize terms fill the buffer.  A later one replaces the root if
\* it is more frequent.
Replaces(w) == i[w] < HotSize \/ Df[i[w]] > hot_term_buf[0].sort_int

SkipTerm(w) ==
    /\ pc[w] = "loop"
    /\ i[w] < TermNum
    /\ ~Replaces(w)
    /\ i' = [i EXCEPT ![w] = @ + 1]
    /\ UNCHANGED <<hot_term_buf, pc, heap, alone>>

\* The root was compared; the store is a step of its own.
TakeTerm(w) ==
    /\ pc[w] = "loop"
    /\ i[w] < TermNum
    /\ Replaces(w)
    /\ Goto(w, "sort_int")
    /\ UNCHANGED <<hot_term_buf, i, heap, alone>>

StoreSortInt(w) ==
    /\ pc[w] = "sort_int"
    /\ hot_term_buf' = [hot_term_buf EXCEPT ![Cell(w)].sort_int = Df[i[w]]]
    /\ Goto(w, "appendix")
    /\ UNCHANGED <<i, heap, alone>>

\* heapify_r(hot_term_buf, HotSize, n)
Heapify(w, n) ==
    /\ node' = [node EXCEPT ![w] = n]
    /\ min' = [min EXCEPT ![w] = n]
    /\ Goto(w, "left")

\* The next term, or the heap: built at the last entry (i == 999) and
\* repaired after each replacement.
AfterStore(w) ==
    IF i[w] < HotSize - 1
    THEN /\ Goto(w, "loop")
         /\ i' = [i EXCEPT ![w] = @ + 1]
         /\ UNCHANGED <<root, node, min>>
    ELSE LET first == IF i[w] = HotSize - 1 THEN (HotSize - 1) \div 2 ELSE 0
         IN  /\ root' = [root EXCEPT ![w] = first]
             /\ Heapify(w, first)
             /\ UNCHANGED i

StoreAppendix_OneBased(w) ==
    /\ pc[w] = "appendix"
    /\ hot_term_buf' = [hot_term_buf EXCEPT ![Cell(w)].appendix = i[w] + 1]
    /\ AfterStore(w)
    /\ UNCHANGED <<tmp, reg, alone>>
StoreAppendix(w) ==
    /\ pc[w] = "appendix"
    /\ hot_term_buf' = [hot_term_buf EXCEPT ![Cell(w)].appendix = i[w]]
    /\ AfterStore(w)
    /\ UNCHANGED <<tmp, reg, alone>>

-----------------------------------------------------------------------------
(* heapify_r: compare with the children, swap, and go down.                *)

Left(w)  == 2 * node[w] + 1
Right(w) == 2 * node[w] + 2

Load(w, k) == reg' = [reg EXCEPT ![w] = hot_term_buf[k]]

\* The comparison of a child, loaded before, with input[min].
Smaller_Greater(w) == reg[w].sort_int > hot_term_buf[min[w]].sort_int
Smaller(w) == reg[w].sort_int < hot_term_buf[min[w]].sort_int

Compare(w, child) ==
    /\ min' = [min EXCEPT ![w] = IF Smaller(w) THEN child ELSE @]
    /\ reg' = [reg EXCEPT ![w] = Unwritten]

LoadLeft(w) ==
    /\ pc[w] = "left"
    /\ IF Left(w) <= HotSize - 1
       THEN Load(w, Left(w)) /\ Goto(w, "compare_left")
       ELSE Goto(w, "right") /\ UNCHANGED reg
    /\ UNCHANGED <<hot_term_buf, i, root, node, min, tmp, alone>>

CompareLeft(w) ==
    /\ pc[w] = "compare_left"
    /\ Compare(w, Left(w))
    /\ Goto(w, "right")
    /\ UNCHANGED <<hot_term_buf, i, root, node, tmp, alone>>

LoadRight(w) ==
    /\ pc[w] = "right"
    /\ IF Right(w) <= HotSize - 1
       THEN Load(w, Right(w)) /\ Goto(w, "compare_right")
       ELSE Goto(w, "swap") /\ UNCHANGED reg
    /\ UNCHANGED <<hot_term_buf, i, root, node, min, tmp, alone>>

CompareRight(w) ==
    /\ pc[w] = "compare_right"
    /\ Compare(w, Right(w))
    /\ Goto(w, "swap")
    /\ UNCHANGED <<hot_term_buf, i, root, node, tmp, alone>>

\* tmp = input[min]
LoadMin_Always(w) ==
    /\ pc[w] = "swap"
    /\ tmp' = [tmp EXCEPT ![w] = hot_term_buf[min[w]]]
    /\ Goto(w, "load_node")
    /\ UNCHANGED <<hot_term_buf, i, root, node, min, reg, alone>>
LoadMin(w) ==
    /\ pc[w] = "swap"
    /\ min[w] # node[w]
    /\ tmp' = [tmp EXCEPT ![w] = hot_term_buf[min[w]]]
    /\ Goto(w, "load_node")
    /\ UNCHANGED <<hot_term_buf, i, root, node, min, reg, alone>>

\* input[min] = input[i], a load ...
LoadNode(w) ==
    /\ pc[w] = "load_node"
    /\ Load(w, node[w])
    /\ Goto(w, "store_min")
    /\ UNCHANGED <<hot_term_buf, i, root, node, min, tmp, alone>>

\* ... and a store
StoreMin(w) ==
    /\ pc[w] = "store_min"
    /\ hot_term_buf' = [hot_term_buf EXCEPT ![min[w]] = reg[w]]
    /\ reg' = [reg EXCEPT ![w] = Unwritten]
    /\ Goto(w, "store_node")
    /\ UNCHANGED <<i, root, node, min, tmp, alone>>

\* input[i] = tmp, and heapify_r(input, len, min)
StoreNode(w) ==
    /\ pc[w] = "store_node"
    /\ hot_term_buf' = [hot_term_buf EXCEPT ![node[w]] = tmp[w]]
    /\ tmp' = [tmp EXCEPT ![w] = Unwritten]
    /\ Heapify(w, min[w])
    /\ UNCHANGED <<i, root, reg, alone>>

\* heapify_r returns: to build_min_heap's loop, or to the loop over TermInfo.
HeapifyReturns(w) ==
    /\ pc[w] = "swap"
    /\ min[w] = node[w]
    /\ IF root[w] > 0
       THEN /\ root' = [root EXCEPT ![w] = @ - 1]
            /\ Heapify(w, root[w] - 1)
            /\ UNCHANGED i
       ELSE /\ i' = [i EXCEPT ![w] = @ + 1]
            /\ Goto(w, "loop")
            /\ node' = [node EXCEPT ![w] = 0]
            /\ min' = [min EXCEPT ![w] = 0]
            /\ UNCHANGED root
    /\ UNCHANGED <<hot_term_buf, tmp, reg, alone>>

-----------------------------------------------------------------------------
(* The answer: the buffer from its end, until the text is full.            *)

StartAnswer(w) ==
    /\ pc[w] = "loop"
    /\ i[w] >= TermNum
    /\ i' = [i EXCEPT ![w] = HotSize - 1]
    /\ Goto(w, "answer")
    /\ UNCHANGED <<hot_term_buf, heap, alone>>

\* The entry names a term.
Written(k) == hot_term_buf[k].appendix \in 0 .. TermNum - 1

AnswerTerm(w) ==
    /\ pc[w] = "answer"
    /\ i[w] >= 0
    /\ Written(i[w])
    /\ i' = [i EXCEPT ![w] = @ - 1]
    /\ UNCHANGED <<hot_term_buf, pc, heap, alone>>

\* TermInfo[term_index] with an entry that was never written: what malloc left
\* there may read as some term, or the access goes wrong.
AnswerJunk(w) ==
    /\ pc[w] = "answer"
    /\ i[w] >= 0
    /\ ~Written(i[w])
    /\ \/ i' = [i EXCEPT ![w] = @ - 1] /\ UNCHANGED pc
       \/ Goto(w, "undefined") /\ UNCHANGED i
    /\ UNCHANGED <<hot_term_buf, heap, alone>>

\* All entries are out (i < 0), or strlen(buf) has reached 2000, which one
\* entry alone does not.
AnswerEnds(w) ==
    /\ pc[w] = "answer"
    /\ i[w] < HotSize - 1
    /\ Goto(w, "idle")
    /\ i' = [i EXCEPT ![w] = 0]
    /\ UNCHANGED <<hot_term_buf, heap, alone>>

-----------------------------------------------------------------------------
Step(w) ==
    /\ \/ SkipTerm(w)
       \/ TakeTerm(w)
       \/ StoreSortInt(w)
       \/ StoreAppendix(w)
       \/ LoadLeft(w)
       \/ CompareLeft(w)
       \/ LoadRight(w)
       \/ CompareRight(w)
       \/ LoadMin(w)
       \/ LoadNode(w)
       \/ StoreMin(w)
       \/ StoreNode(w)
       \/ HeapifyReturns(w)
       \/ StartAnswer(w)
       \/ AnswerTerm(w)
       \/ AnswerJunk(w)
       \/ AnswerEnds(w)
    /\ UNCHANGED terms

Next == \E w \in Worker : Call(w) \/ Step(w)

Spec == Init /\ [][Next]_vars

-----------------------------------------------------------------------------
Heaping == {"left", "compare_left", "right", "compare_right", "swap", "load_node", "store_min",
            "store_node"}

Labels == {"idle", "loop", "sort_int", "appendix", "answer", "undefined"} \cup Heaping

Item == [sort_int : Nat \cup {Junk}, appendix : (0 .. TermNum - 1) \cup {Junk}]

\* Every variable has its type; heapify_r stays inside the buffer, and goes
\* down only.
TypeOK ==
    /\ TermNum \in Nat /\ Df \in [0 .. TermNum - 1 -> Nat]
    /\ hot_term_buf \in [Cells -> Item]
    /\ pc \in [Worker -> Labels]
    /\ i \in [Worker -> -1 .. TermNum + HotSize]
    /\ root \in [Worker -> Cells]
    /\ node \in [Worker -> Cells]
    /\ min \in [Worker -> Cells]
    /\ tmp \in [Worker -> Item]
    /\ reg \in [Worker -> Item]
    /\ alone \in [Worker -> BOOLEAN]

\* Whatever the other threads do to the buffer meanwhile, GetHotTerm answers
\* with terms that exist: it reads no entry that was never written, unless
\* the index has fewer terms than the buffer has entries; and even then only
\* beyond the last term.
ReadsDefined ==
    \A w \in Worker :
        /\ pc[w] = "undefined" => TermNum < HotSize
        /\ pc[w] = "answer" /\ i[w] \in 0 .. TermNum - 1 => Written(i[w])

-----------------------------------------------------------------------------
(* The inductive invariant behind ReadsDefined (HotTermProofs).            *)

\* What a worker may rely on where it stands.  Entries are written in order,
\* heapify_r starts when all are, and it only copies entries.
Phase(w) ==
    /\ pc[w] = "idle" => i[w] = 0
    /\ pc[w] = "loop" => i[w] \in 0 .. TermNum
    /\ pc[w] \in {"sort_int", "appendix"} => i[w] \in 0 .. TermNum - 1
    /\ pc[w] \in {"loop", "sort_int", "appendix"} => \A k \in Cells : k < i[w] => Written(k)
    /\ pc[w] \in Heaping => /\ i[w] \in HotSize - 1 .. TermNum - 1
                            /\ \A k \in Cells : Written(k)
    /\ pc[w] = "compare_left" => Left(w) \in Cells
    /\ pc[w] = "compare_right" => Right(w) \in Cells
    /\ pc[w] \in {"load_node", "store_min", "store_node"} => tmp[w].appendix \in 0 .. TermNum - 1
    /\ pc[w] = "store_min" => reg[w].appendix \in 0 .. TermNum - 1
    /\ pc[w] = "answer" => /\ i[w] \in -1 .. HotSize - 1
                           /\ \A k \in Cells : k < TermNum => Written(k)
    /\ pc[w] = "undefined" => TermNum < HotSize

HeapInv == TypeOK /\ \A w \in Worker : Phase(w)

-----------------------------------------------------------------------------
\* A call that no other call overlaps selects the HotSize most frequent
\* terms: no term twice, and none left out is more frequent than one selected.
TopTerms ==
    \A w \in Worker :
        pc[w] = "answer" /\ alone[w] /\ HotSize <= TermNum =>
            LET selected == {hot_term_buf[k].appendix : k \in Cells}
            IN  /\ \A k \in Cells : hot_term_buf[k].sort_int = Df[hot_term_buf[k].appendix]
                /\ Cardinality(selected) = HotSize
                /\ \A s \in selected, t \in (0 .. TermNum - 1) \ selected : Df[t] <= Df[s]

-----------------------------------------------------------------------------
(* What is left of a call: the terms and answers to come, build_min_heap's *)
(* rounds, the way down in the heap, the steps at a node.                  *)
StepsLeft ==
    [label \in Labels |->
        CASE label = "loop" -> 10 [] label = "sort_int" -> 9 [] label = "appendix" -> 8
          [] label = "left" -> 7 [] label = "compare_left" -> 6
          [] label = "right" -> 5 [] label = "compare_right" -> 4
          [] label = "swap" -> 3 [] label = "load_node" -> 2 [] label = "store_min" -> 1
          [] OTHER -> 0]

RoundsLeft(w) ==
    IF pc[w] \in {"idle", "undefined"} THEN 0
    ELSE IF pc[w] = "answer" THEN i[w] + 2 ELSE HotSize + 2 + (TermNum - i[w])

Work(w) ==
    <<RoundsLeft(w), IF pc[w] \in Heaping THEN root[w] ELSE HotSize, HotSize - node[w], StepsLeft[pc[w]]>>

\* a comes before b in the lexical order, which has no infinite descent.
Lower(a, b) ==
    /\ \A k \in 1 .. 4 : a[k] \in Nat
    /\ \E k \in 1 .. 4 : a[k] < b[k] /\ \A j \in 1 .. k - 1 : a[j] = b[j]

Locals(w) == <<pc[w], i[w], root[w], node[w], min[w], tmp[w], reg[w]>>

\* A call takes a bounded number of steps of its own thread, also when other
\* threads reorder the heap under it: each of them, which moves pc or i, lowers
\* what is left of the call, and no step of another thread touches it.
\* heapify_r recurses only to a greater node (commonworker.cpp:57-63).
CallsProgress ==
    [][\A w \in Worker :
        pc[w] # "idle" => Locals(w)' = Locals(w) \/ Lower(Work(w)', Work(w))]_vars
=============================================================================
