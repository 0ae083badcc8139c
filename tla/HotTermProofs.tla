--------------------------- MODULE HotTermProofs ---------------------------
(***************************************************************************)
(* GetHotTerm reads no entry of the shared buffer that was never written,  *)
(* for every number of threads, terms and entries and every interleaving   *)
(* (ReadsDefined).  HeapInv is inductive: no step of a thread makes a      *)
(* written entry unwritten, so what another thread relies on stays true.   *)
(* A call that no other overlaps selects the most frequent terms           *)
(* (TopTerms).  TopInv is the invariant of the heap selection: entries are *)
(* different terms with their frequencies, a term left out is no more      *)
(* frequent than any of them, and the order of the heap fails only at the  *)
(* node heapify_r works on.  Every call comes to its end (CallsProgress),  *)
(* because heapify_r only goes down (DeepInv).                             *)
(***************************************************************************)
EXTENDS HotTerm, FiniteSetTheorems, NatLemmas, TLAPS

\* Written entries stay written.
Kept == \A k \in Cells : Written(k) => Written(k)'

\* A step of another thread leaves the locals of v alone.
Untouched(v) ==
    /\ pc'[v] = pc[v]
    /\ i'[v] = i[v]
    /\ node'[v] = node[v]
    /\ tmp'[v] = tmp[v]
    /\ reg'[v] = reg[v]

\* What every step of thread w has to show.
Good(w) ==
    /\ TypeOK'
    /\ Kept
    /\ Phase(w)'
    /\ \A v \in Worker \ {w} : Untouched(v)

-----------------------------------------------------------------------------
\* The number of terms is a number.
LEMMA TermNumNat == HeapInv => TermNum \in Nat
  BY DEF HeapInv, TypeOK

\* The terms an entry may name are the same as long as their number is.
LEMMA ItemSame == TermNum' = TermNum => Item' = Item
  BY DEF Item

\* The nodes heapify_r is called with are entries of the buffer.
LEMMA CellFacts ==
    /\ 0 \in Cells
    /\ HotSize - 1 \in Cells
    /\ (HotSize - 1) \div 2 \in Cells
  BY HotSizeAssumption DEF Cells

\* The entry a term goes to is one of the buffer.
LEMMA CellInBuffer ==
    ASSUME NEW w \in Worker, i[w] \in Nat
    PROVE  Cell(w) \in Cells
  BY HotSizeAssumption DEF Cell, Cells

\* What thread v relies on survives a step that leaves its locals alone and
\* keeps the written entries.
LEMMA PhaseKept ==
    ASSUME NEW v \in Worker, Untouched(v), Kept, Phase(v), TermNum' = TermNum
    PROVE  Phase(v)'
  BY DEF Untouched, Kept, Phase, Left, Right

\* The initial state: nobody is in GetHotTerm and nothing is written.
LEMMA InitInv == Init => HeapInv
  <1> SUFFICES ASSUME Init PROVE HeapInv
    OBVIOUS
  <1>1. Unwritten \in Item
    BY DEF Unwritten, Item, Junk
  <1>2. TypeOK
    <2>1. TermNum \in Nat /\ Df \in [0 .. TermNum - 1 -> Nat]
      BY DfsAssumption, TermNumsAssumption DEF Init
    <2>2. 0 \in -1 .. TermNum + HotSize
      BY <2>1, HotSizeAssumption
    <2> QED
      BY <1>1, <2>1, <2>2, CellFacts DEF Init, TypeOK, Labels
  <1>3. ASSUME NEW w \in Worker PROVE Phase(w)
    BY <1>3 DEF Init, Phase, Heaping
  <1> QED
    BY <1>2, <1>3 DEF HeapInv

-----------------------------------------------------------------------------
(* One lemma per action.                                                   *)

\* A call starts at the first term.
LEMMA CallGood ==
    ASSUME HeapInv, NEW w \in Worker, Call(w), UNCHANGED <<TermNum, Df>>
    PROVE  Good(w)
  <1>1. TypeOK'
    BY ItemSame, CellFacts, HotSizeAssumption, TermNumNat
    DEF HeapInv, TypeOK, Phase, Call, heap, Goto, Labels, Heaping
  <1>2. Kept
    BY HotSizeAssumption DEF HeapInv, TypeOK, Phase, Call, heap, Kept, Written, Heaping
  <1>3. Phase(w)'
    BY <1>2, HotSizeAssumption, TermNumNat
    DEF HeapInv, TypeOK, Phase, Call, heap, Goto, Kept, Heaping, Left, Right, Cells
  <1>4. \A v \in Worker \ {w} : Untouched(v)
    BY DEF HeapInv, TypeOK, Call, heap, Goto, Untouched
  <1> QED
    BY <1>1, <1>2, <1>3, <1>4 DEF Good

\* A term that does not replace the root leaves the buffer, which is full.
LEMMA SkipTermGood ==
    ASSUME HeapInv, NEW w \in Worker, SkipTerm(w), UNCHANGED <<TermNum, Df>>
    PROVE  Good(w)
  <1>a. ~(i[w] < HotSize)
    BY DEF SkipTerm, Replaces
  <1>b. /\ i[w] \in 0 .. TermNum
        /\ i[w] < TermNum
        /\ i' = [i EXCEPT ![w] = i[w] + 1]
        /\ i'[w] = i[w] + 1
    BY DEF HeapInv, TypeOK, Phase, SkipTerm
  <1>0. /\ i[w] \in HotSize .. TermNum - 1
        /\ i[w] + 1 \in -1 .. TermNum + HotSize
        /\ i' = [i EXCEPT ![w] = i[w] + 1]
        /\ i'[w] = i[w] + 1
        /\ \A k \in Cells : k < i[w]
    BY <1>a, <1>b, HotSizeAssumption, TermNumNat DEF Cells
  <1>1. TypeOK'
    BY ItemSame, <1>0, CellFacts, HotSizeAssumption, TermNumNat
    DEF HeapInv, TypeOK, Phase, SkipTerm, heap, Goto, Labels, Heaping
  <1>2. Kept
    BY <1>0, HotSizeAssumption DEF HeapInv, TypeOK, Phase, SkipTerm, heap, Kept, Written, Heaping
  <1>3. Phase(w)'
    BY <1>0, <1>2, HotSizeAssumption, TermNumNat, SMTT(30)
    DEF HeapInv, TypeOK, Phase, SkipTerm, heap, Goto, Kept, Heaping, Left, Right, Cells
  <1>4. \A v \in Worker \ {w} : Untouched(v)
    BY DEF HeapInv, TypeOK, SkipTerm, heap, Goto, Untouched
  <1> QED
    BY <1>1, <1>2, <1>3, <1>4 DEF Good

\* A term that is taken has a number below TermNum.
LEMMA TakeTermGood ==
    ASSUME HeapInv, NEW w \in Worker, TakeTerm(w), UNCHANGED <<TermNum, Df>>
    PROVE  Good(w)
  <1>1. TypeOK'
    BY ItemSame, CellFacts, HotSizeAssumption, TermNumNat
    DEF HeapInv, TypeOK, Phase, TakeTerm, heap, Goto, Labels, Heaping
  <1>2. Kept
    BY HotSizeAssumption DEF HeapInv, TypeOK, Phase, TakeTerm, heap, Kept, Written, Heaping
  <1>3. Phase(w)'
    BY <1>2, HotSizeAssumption, TermNumNat
    DEF HeapInv, TypeOK, Phase, TakeTerm, heap, Goto, Kept, Heaping, Left, Right, Cells
  <1>4. \A v \in Worker \ {w} : Untouched(v)
    BY DEF HeapInv, TypeOK, TakeTerm, heap, Goto, Untouched
  <1> QED
    BY <1>1, <1>2, <1>3, <1>4 DEF Good

\* The answer starts when every term was seen, so the entries below TermNum
\* are written.
LEMMA StartAnswerGood ==
    ASSUME HeapInv, NEW w \in Worker, StartAnswer(w), UNCHANGED <<TermNum, Df>>
    PROVE  Good(w)
  <1>1. TypeOK'
    BY ItemSame, CellFacts, HotSizeAssumption, TermNumNat
    DEF HeapInv, TypeOK, Phase, StartAnswer, heap, Goto, Labels, Heaping
  <1>2. Kept
    BY HotSizeAssumption DEF HeapInv, TypeOK, Phase, StartAnswer, heap, Kept, Written, Heaping
  <1>3. Phase(w)'
    BY <1>2, HotSizeAssumption, TermNumNat
    DEF HeapInv, TypeOK, Phase, StartAnswer, heap, Goto, Kept, Heaping, Left, Right, Cells
  <1>4. \A v \in Worker \ {w} : Untouched(v)
    BY DEF HeapInv, TypeOK, StartAnswer, heap, Goto, Untouched
  <1> QED
    BY <1>1, <1>2, <1>3, <1>4 DEF Good

\* The answer goes down in the buffer.
LEMMA AnswerTermGood ==
    ASSUME HeapInv, NEW w \in Worker, AnswerTerm(w), UNCHANGED <<TermNum, Df>>
    PROVE  Good(w)
  <1>0. /\ i[w] \in 0 .. HotSize - 1
        /\ i[w] - 1 \in -1 .. TermNum + HotSize
        /\ i[w] - 1 \in -1 .. HotSize - 1
        /\ i' = [i EXCEPT ![w] = i[w] - 1]
        /\ i'[w] = i[w] - 1
    BY HotSizeAssumption, TermNumNat DEF HeapInv, TypeOK, Phase, AnswerTerm
  <1>1. TypeOK'
    BY ItemSame, <1>0, CellFacts, HotSizeAssumption, TermNumNat
    DEF HeapInv, TypeOK, Phase, AnswerTerm, heap, Goto, Labels, Heaping
  <1>2. Kept
    BY <1>0, HotSizeAssumption DEF HeapInv, TypeOK, Phase, AnswerTerm, heap, Kept, Written, Heaping
  <1>3. Phase(w)'
    BY <1>0, <1>2, HotSizeAssumption, TermNumNat
    DEF HeapInv, TypeOK, Phase, AnswerTerm, heap, Goto, Kept, Heaping, Left, Right, Cells
  <1>4. \A v \in Worker \ {w} : Untouched(v)
    BY DEF HeapInv, TypeOK, AnswerTerm, heap, Goto, Untouched
  <1> QED
    BY <1>1, <1>2, <1>3, <1>4 DEF Good

\* Only an entry beyond the last term can be unwritten.
LEMMA AnswerJunkGood ==
    ASSUME HeapInv, NEW w \in Worker, AnswerJunk(w), UNCHANGED <<TermNum, Df>>
    PROVE  Good(w)
  <1>0. /\ i[w] \in 0 .. HotSize - 1
        /\ i[w] - 1 \in -1 .. TermNum + HotSize
        /\ i[w] - 1 \in -1 .. HotSize - 1
        /\ TermNum < HotSize
    <2>1. i[w] \in 0 .. HotSize - 1
      BY HotSizeAssumption DEF HeapInv, Phase, AnswerJunk
    <2>2. ~(i[w] < TermNum)
      BY <2>1 DEF HeapInv, Phase, AnswerJunk, Cells
    <2> QED
      BY <2>1, <2>2, HotSizeAssumption, TermNumNat
  <1>1. TypeOK'
    BY ItemSame, <1>0 DEF HeapInv, TypeOK, AnswerJunk, heap, Goto, Labels
  <1>2. Kept
    BY DEF AnswerJunk, Kept, Written
  <1>3. Phase(w)'
    BY <1>0, <1>2 DEF HeapInv, TypeOK, Phase, AnswerJunk, heap, Goto, Kept, Heaping
  <1>4. \A v \in Worker \ {w} : Untouched(v)
    BY DEF HeapInv, TypeOK, AnswerJunk, heap, Goto, Untouched
  <1> QED
    BY <1>1, <1>2, <1>3, <1>4 DEF Good

\* The call returns.
LEMMA AnswerEndsGood ==
    ASSUME HeapInv, NEW w \in Worker, AnswerEnds(w), UNCHANGED <<TermNum, Df>>
    PROVE  Good(w)
  <1>1. TypeOK'
    BY ItemSame, CellFacts, HotSizeAssumption, TermNumNat
    DEF HeapInv, TypeOK, Phase, AnswerEnds, heap, Goto, Labels, Heaping
  <1>2. Kept
    BY HotSizeAssumption DEF HeapInv, TypeOK, Phase, AnswerEnds, heap, Kept, Written, Heaping
  <1>3. Phase(w)'
    BY <1>2, HotSizeAssumption, TermNumNat
    DEF HeapInv, TypeOK, Phase, AnswerEnds, heap, Goto, Kept, Heaping, Left, Right, Cells
  <1>4. \A v \in Worker \ {w} : Untouched(v)
    BY DEF HeapInv, TypeOK, AnswerEnds, heap, Goto, Untouched
  <1> QED
    BY <1>1, <1>2, <1>3, <1>4 DEF Good

\* The first half of an entry is stored; the second says whether it is written.
LEMMA StoreSortIntGood ==
    ASSUME HeapInv, NEW w \in Worker, StoreSortInt(w), UNCHANGED <<TermNum, Df>>
    PROVE  Good(w)
  <1>0. i[w] \in 0 .. TermNum - 1 /\ Df[i[w]] \in Nat /\ Cell(w) \in Cells
    BY CellInBuffer, TermNumNat DEF HeapInv, TypeOK, Phase, StoreSortInt
  <1>5. hot_term_buf' = [hot_term_buf EXCEPT ![Cell(w)].sort_int = Df[i[w]]]
    BY DEF StoreSortInt
  <1>6. hot_term_buf \in [Cells -> Item]
    BY DEF HeapInv, TypeOK
  <1>7. /\ hot_term_buf' \in [Cells -> Item]
        /\ \A k \in Cells : hot_term_buf'[k].appendix = hot_term_buf[k].appendix
    BY <1>0, <1>5, <1>6 DEF Item
  <1>1. TypeOK'
    BY ItemSame, <1>7 DEF HeapInv, TypeOK, StoreSortInt, heap, Goto, Labels
  <1>2. Kept
    BY <1>7 DEF Kept, Written
  <1>3. Phase(w)'
    BY <1>2 DEF HeapInv, TypeOK, Phase, StoreSortInt, heap, Goto, Kept, Heaping
  <1>4. \A v \in Worker \ {w} : Untouched(v)
    BY DEF HeapInv, TypeOK, StoreSortInt, heap, Goto, Untouched
  <1> QED
    BY <1>1, <1>2, <1>3, <1>4 DEF Good

\* The entry is written.  If it was the last one that was missing, the heap may
\* be built.
LEMMA StoreAppendixGood ==
    ASSUME HeapInv, NEW w \in Worker, StoreAppendix(w), UNCHANGED <<TermNum, Df>>
    PROVE  Good(w)
  <1>0. i[w] \in 0 .. TermNum - 1 /\ Cell(w) \in Cells
    BY CellInBuffer, TermNumNat DEF HeapInv, TypeOK, Phase, StoreAppendix
  <1>5. hot_term_buf' = [hot_term_buf EXCEPT ![Cell(w)].appendix = i[w]]
    BY DEF StoreAppendix
  <1>6. hot_term_buf \in [Cells -> Item]
    BY DEF HeapInv, TypeOK
  <1>7. /\ hot_term_buf' \in [Cells -> Item]
        /\ hot_term_buf'[Cell(w)].appendix = i[w]
        /\ \A k \in Cells \ {Cell(w)} : hot_term_buf'[k] = hot_term_buf[k]
    BY <1>0, <1>5, <1>6 DEF Item
  <1>2. Kept
    BY <1>0, <1>7 DEF Kept, Written
  <1>8. \A k \in Cells : k < i[w] => Written(k)'
    BY <1>2 DEF HeapInv, Phase, StoreAppendix, Kept
  <1>9. \A k \in Cells : k = Cell(w) => Written(k)'
    <2>1. hot_term_buf'[Cell(w)].appendix \in 0 .. TermNum - 1
      BY <1>0, <1>7
    <2> QED
      BY <2>1 DEF Written
  <1>10. \A v \in Worker \ {w} : Untouched(v)
    BY DEF HeapInv, TypeOK, StoreAppendix, AfterStore, Heapify, Goto, Untouched
  <1>11. CASE i[w] < HotSize - 1
    <2>1. /\ i' = [i EXCEPT ![w] = i[w] + 1]
          /\ i'[w] = i[w] + 1
          /\ i[w] + 1 \in 0 .. TermNum
          /\ i[w] + 1 \in -1 .. TermNum + HotSize
          /\ Cell(w) = i[w]
          /\ pc' = [pc EXCEPT ![w] = "loop"]
          /\ UNCHANGED <<root, node, min>>
      BY <1>0, <1>11, HotSizeAssumption, TermNumNat
      DEF HeapInv, TypeOK, StoreAppendix, AfterStore, Goto, Cell
    <2>2. TypeOK'
      BY ItemSame, <1>7, <2>1 DEF HeapInv, TypeOK, StoreAppendix, Labels
    <2>3. \A k \in Cells : k < i[w] + 1 => Written(k)'
      <3>1. ASSUME NEW k \in Cells, k < i[w] + 1 PROVE k < i[w] \/ k = i[w]
        BY <1>0, <3>1 DEF Cells
      <3> QED
        BY <1>8, <1>9, <2>1, <3>1
    <2>4. Phase(w)'
      BY <2>1, <2>3 DEF HeapInv, TypeOK, Phase, Heaping
    <2> QED
      BY <1>2, <1>10, <2>2, <2>4 DEF Good
  <1>12. CASE ~(i[w] < HotSize - 1)
    <2> DEFINE first == IF i[w] = HotSize - 1 THEN (HotSize - 1) \div 2 ELSE 0
    <2>0. first \in Cells
      BY CellFacts
    <2>1. /\ root' = [root EXCEPT ![w] = first]
          /\ node' = [node EXCEPT ![w] = first]
          /\ min' = [min EXCEPT ![w] = first]
          /\ pc' = [pc EXCEPT ![w] = "left"]
          /\ i' = i
      BY <1>12 DEF StoreAppendix, AfterStore, Heapify, Goto
    <2> HIDE DEF first
    <2>2. TypeOK'
      BY ItemSame, <1>7, <2>0, <2>1 DEF HeapInv, TypeOK, StoreAppendix, Labels, Heaping
    <2>3. i[w] \in HotSize - 1 .. TermNum - 1
      BY <1>0, <1>12, HotSizeAssumption, TermNumNat
    <2>4. \A k \in Cells : Written(k)'
      <3>1. CASE i[w] = HotSize - 1
        <4>1. Cell(w) = i[w]
          BY <3>1, HotSizeAssumption DEF Cell
        <4>2. \A k \in Cells : k < i[w] \/ k = i[w]
          BY <3>1, HotSizeAssumption DEF Cells
        <4> QED
          BY <1>8, <1>9, <4>1, <4>2
      <3>2. CASE i[w] # HotSize - 1
        <4>1. \A k \in Cells : k < i[w]
          BY <2>3, <3>2, HotSizeAssumption, TermNumNat DEF Cells
        <4> QED
          BY <1>8, <4>1
      <3> QED
        BY <3>1, <3>2
    <2>5. Phase(w)'
      BY <2>1, <2>3, <2>4 DEF HeapInv, TypeOK, Phase, Heaping
    <2> QED
      BY <1>2, <1>10, <2>2, <2>5 DEF Good
  <1> QED
    BY <1>11, <1>12

\* The left child is loaded if it is in the buffer.
LEMMA LoadLeftGood ==
    ASSUME HeapInv, NEW w \in Worker, LoadLeft(w), UNCHANGED <<TermNum, Df>>
    PROVE  Good(w)
  <1>0. Left(w) <= HotSize - 1 => Left(w) \in Cells /\ hot_term_buf[Left(w)] \in Item
    BY HotSizeAssumption DEF HeapInv, TypeOK, Left, Cells
  <1>1. TypeOK'
    BY ItemSame, <1>0, CellFacts DEF HeapInv, TypeOK, LoadLeft, Goto, Labels, Heaping, Load
  <1>2. Kept
    BY DEF LoadLeft, Kept, Written
  <1>3. Phase(w)'
    BY <1>0, <1>2 DEF HeapInv, TypeOK, Phase, LoadLeft, Goto, Kept, Heaping, Left, Right, Load
  <1>4. \A v \in Worker \ {w} : Untouched(v)
    BY DEF HeapInv, TypeOK, LoadLeft, Goto, Untouched, Load
  <1> QED
    BY <1>1, <1>2, <1>3, <1>4 DEF Good

\* min is the node, or its left child, an entry of the buffer.
LEMMA CompareLeftGood ==
    ASSUME HeapInv, NEW w \in Worker, CompareLeft(w), UNCHANGED <<TermNum, Df>>
    PROVE  Good(w)
  <1>0. Left(w) \in Cells /\ Unwritten \in Item
    BY DEF HeapInv, Phase, CompareLeft, Unwritten, Item, Junk
  <1>1. TypeOK'
    BY ItemSame, <1>0, CellFacts DEF HeapInv, TypeOK, CompareLeft, Goto, Labels, Heaping, Compare
  <1>2. Kept
    BY DEF CompareLeft, Kept, Written
  <1>3. Phase(w)'
    BY <1>0, <1>2 DEF HeapInv, TypeOK, Phase, CompareLeft, Goto, Kept, Heaping, Left, Right, Compare
  <1>4. \A v \in Worker \ {w} : Untouched(v)
    BY DEF HeapInv, TypeOK, CompareLeft, Goto, Untouched, Compare
  <1> QED
    BY <1>1, <1>2, <1>3, <1>4 DEF Good

\* The right child is loaded if it is in the buffer.
LEMMA LoadRightGood ==
    ASSUME HeapInv, NEW w \in Worker, LoadRight(w), UNCHANGED <<TermNum, Df>>
    PROVE  Good(w)
  <1>0. Right(w) <= HotSize - 1 => Right(w) \in Cells /\ hot_term_buf[Right(w)] \in Item
    BY HotSizeAssumption DEF HeapInv, TypeOK, Right, Cells
  <1>1. TypeOK'
    BY ItemSame, <1>0, CellFacts DEF HeapInv, TypeOK, LoadRight, Goto, Labels, Heaping, Load
  <1>2. Kept
    BY DEF LoadRight, Kept, Written
  <1>3. Phase(w)'
    BY <1>0, <1>2 DEF HeapInv, TypeOK, Phase, LoadRight, Goto, Kept, Heaping, Left, Right, Load
  <1>4. \A v \in Worker \ {w} : Untouched(v)
    BY DEF HeapInv, TypeOK, LoadRight, Goto, Untouched, Load
  <1> QED
    BY <1>1, <1>2, <1>3, <1>4 DEF Good

\* min is the node, or its right child, an entry of the buffer.
LEMMA CompareRightGood ==
    ASSUME HeapInv, NEW w \in Worker, CompareRight(w), UNCHANGED <<TermNum, Df>>
    PROVE  Good(w)
  <1>0. Right(w) \in Cells /\ Unwritten \in Item
    BY DEF HeapInv, Phase, CompareRight, Unwritten, Item, Junk
  <1>1. TypeOK'
    BY ItemSame, <1>0, CellFacts DEF HeapInv, TypeOK, CompareRight, Goto, Labels, Heaping, Compare
  <1>2. Kept
    BY DEF CompareRight, Kept, Written
  <1>3. Phase(w)'
    BY <1>0, <1>2 DEF HeapInv, TypeOK, Phase, CompareRight, Goto, Kept, Heaping, Left, Right, Compare
  <1>4. \A v \in Worker \ {w} : Untouched(v)
    BY DEF HeapInv, TypeOK, CompareRight, Goto, Untouched, Compare
  <1> QED
    BY <1>1, <1>2, <1>3, <1>4 DEF Good

\* The smaller child is written, and so is its copy.
LEMMA LoadMinGood ==
    ASSUME HeapInv, NEW w \in Worker, LoadMin(w), UNCHANGED <<TermNum, Df>>
    PROVE  Good(w)
  <1>0. /\ hot_term_buf[min[w]] \in Item
        /\ hot_term_buf[min[w]].appendix \in 0 .. TermNum - 1
    BY DEF HeapInv, TypeOK, Phase, Heaping, LoadMin, Written
  <1>1. TypeOK'
    BY ItemSame, <1>0, CellFacts DEF HeapInv, TypeOK, LoadMin, Goto, Labels, Heaping
  <1>2. Kept
    BY DEF LoadMin, Kept, Written
  <1>3. Phase(w)'
    BY <1>0, <1>2 DEF HeapInv, TypeOK, Phase, LoadMin, Goto, Kept, Heaping, Left, Right
  <1>4. \A v \in Worker \ {w} : Untouched(v)
    BY DEF HeapInv, TypeOK, LoadMin, Goto, Untouched
  <1> QED
    BY <1>1, <1>2, <1>3, <1>4 DEF Good

\* The node is written, and so is its copy.
LEMMA LoadNodeGood ==
    ASSUME HeapInv, NEW w \in Worker, LoadNode(w), UNCHANGED <<TermNum, Df>>
    PROVE  Good(w)
  <1>0. /\ hot_term_buf[node[w]] \in Item
        /\ hot_term_buf[node[w]].appendix \in 0 .. TermNum - 1
    BY DEF HeapInv, TypeOK, Phase, Heaping, LoadNode, Written
  <1>1. TypeOK'
    BY ItemSame, <1>0, CellFacts DEF HeapInv, TypeOK, LoadNode, Goto, Labels, Heaping, Load
  <1>2. Kept
    BY DEF LoadNode, Kept, Written
  <1>3. Phase(w)'
    BY <1>0, <1>2 DEF HeapInv, TypeOK, Phase, LoadNode, Goto, Kept, Heaping, Left, Right, Load
  <1>4. \A v \in Worker \ {w} : Untouched(v)
    BY DEF HeapInv, TypeOK, LoadNode, Goto, Untouched, Load
  <1> QED
    BY <1>1, <1>2, <1>3, <1>4 DEF Good

\* What is stored is a copy of a written entry.
LEMMA StoreMinGood ==
    ASSUME HeapInv, NEW w \in Worker, StoreMin(w), UNCHANGED <<TermNum, Df>>
    PROVE  Good(w)
  <1>0. /\ min[w] \in Cells
        /\ reg[w] \in Item
        /\ reg[w].appendix \in 0 .. TermNum - 1
        /\ Unwritten \in Item
    BY DEF HeapInv, TypeOK, Phase, StoreMin, Unwritten, Item, Junk
  <1>5. /\ hot_term_buf' \in [Cells -> Item]
        /\ hot_term_buf'[min[w]] = reg[w]
        /\ \A k \in Cells \ {min[w]} : hot_term_buf'[k] = hot_term_buf[k]
    BY <1>0 DEF HeapInv, TypeOK, StoreMin
  <1>1. TypeOK'
    BY ItemSame, <1>0, <1>5 DEF HeapInv, TypeOK, StoreMin, Goto, Labels, Heaping
  <1>2. Kept
    BY <1>0, <1>5 DEF Kept, Written
  <1>3. Phase(w)'
    BY <1>2 DEF HeapInv, TypeOK, Phase, StoreMin, Goto, Kept, Heaping
  <1>4. \A v \in Worker \ {w} : Untouched(v)
    BY DEF HeapInv, TypeOK, StoreMin, Goto, Untouched
  <1> QED
    BY <1>1, <1>2, <1>3, <1>4 DEF Good

\* What is stored is a copy of a written entry; heapify_r goes down.
LEMMA StoreNodeGood ==
    ASSUME HeapInv, NEW w \in Worker, StoreNode(w), UNCHANGED <<TermNum, Df>>
    PROVE  Good(w)
  <1>0. /\ node[w] \in Cells
        /\ tmp[w] \in Item
        /\ tmp[w].appendix \in 0 .. TermNum - 1
        /\ Unwritten \in Item
    BY DEF HeapInv, TypeOK, Phase, StoreNode, Unwritten, Item, Junk
  <1>5. /\ hot_term_buf' \in [Cells -> Item]
        /\ hot_term_buf'[node[w]] = tmp[w]
        /\ \A k \in Cells \ {node[w]} : hot_term_buf'[k] = hot_term_buf[k]
    BY <1>0 DEF HeapInv, TypeOK, StoreNode
  <1>1. TypeOK'
    BY ItemSame, <1>0, <1>5 DEF HeapInv, TypeOK, StoreNode, Goto, Labels, Heaping, Heapify
  <1>2. Kept
    BY <1>0, <1>5 DEF Kept, Written
  <1>3. Phase(w)'
    BY <1>2 DEF HeapInv, TypeOK, Phase, StoreNode, Goto, Kept, Heaping, Heapify
  <1>4. \A v \in Worker \ {w} : Untouched(v)
    BY DEF HeapInv, TypeOK, StoreNode, Goto, Untouched, Heapify
  <1> QED
    BY <1>1, <1>2, <1>3, <1>4 DEF Good

\* The next node of build_min_heap is in the buffer too; otherwise the next
\* term is.
LEMMA HeapifyReturnsGood ==
    ASSUME HeapInv, NEW w \in Worker, HeapifyReturns(w), UNCHANGED <<TermNum, Df>>
    PROVE  Good(w)
  <1>2. Kept
    BY DEF HeapifyReturns, Kept, Written
  <1>4. \A v \in Worker \ {w} : Untouched(v)
    BY DEF HeapInv, TypeOK, HeapifyReturns, Heapify, Goto, Untouched
  <1>5. i[w] \in HotSize - 1 .. TermNum - 1 /\ \A k \in Cells : Written(k)
    BY DEF HeapInv, TypeOK, Phase, HeapifyReturns, Heaping
  <1>6. CASE root[w] > 0
    <2>1. root[w] - 1 \in Cells
      <3>1. root[w] \in 0 .. HotSize - 1
        BY DEF HeapInv, TypeOK, Cells
      <3> QED
        BY <1>6, <3>1, HotSizeAssumption DEF Cells
    <2>2. /\ root' = [root EXCEPT ![w] = root[w] - 1]
          /\ node' = [node EXCEPT ![w] = root[w] - 1]
          /\ min' = [min EXCEPT ![w] = root[w] - 1]
          /\ pc' = [pc EXCEPT ![w] = "left"]
          /\ i' = i
      BY <1>6 DEF HeapifyReturns, Heapify, Goto
    <2>4. TypeOK'
      BY ItemSame, <2>1, <2>2 DEF HeapInv, TypeOK, HeapifyReturns, Labels, Heaping
    <2>3. Phase(w)'
      BY <1>2, <1>5, <1>6 DEF HeapInv, TypeOK, Phase, HeapifyReturns, Heapify, Goto, Kept, Heaping
    <2> QED
      BY <1>2, <1>4, <2>3, <2>4 DEF Good
  <1>7. CASE ~(root[w] > 0)
    <2>1. /\ i' = [i EXCEPT ![w] = i[w] + 1]
          /\ i'[w] = i[w] + 1
          /\ i[w] + 1 \in -1 .. TermNum + HotSize
          /\ i[w] + 1 \in 0 .. TermNum
      BY <1>5, <1>7, HotSizeAssumption, TermNumNat DEF HeapInv, TypeOK, HeapifyReturns
    <2>2. TypeOK'
      BY ItemSame, <1>7, <2>1, CellFacts DEF HeapInv, TypeOK, HeapifyReturns, Goto, Labels
    <2>3. Phase(w)'
      BY <1>2, <1>5, <1>7, <2>1 DEF HeapInv, TypeOK, Phase, HeapifyReturns, Goto, Kept, Heaping
    <2> QED
      BY <1>2, <1>4, <2>2, <2>3 DEF Good
  <1> QED
    BY <1>6, <1>7

-----------------------------------------------------------------------------
\* Every step keeps the inductive invariant: the thread that moves by the
\* lemma of its action, the others because written entries stay written.
LEMMA NextInv == HeapInv /\ [Next]_vars => HeapInv'
  <1> SUFFICES ASSUME HeapInv, [Next]_vars PROVE HeapInv'
    OBVIOUS
  <1>1. CASE UNCHANGED vars
    <2>1. TypeOK'
      BY <1>1, ItemSame DEF HeapInv, TypeOK, vars, terms, heap
    <2>2. ASSUME NEW w \in Worker PROVE Phase(w)'
      <3>1. Untouched(w) /\ Kept /\ TermNum' = TermNum
        BY <1>1 DEF vars, terms, heap, Untouched, Kept, Written
      <3> QED
        BY <3>1, PhaseKept DEF HeapInv
    <2> QED
      BY <2>1, <2>2 DEF HeapInv
  <1>2. ASSUME NEW w \in Worker, Call(w) \/ Step(w) PROVE HeapInv'
    <2>1. Good(w)
      <3>1. CASE Call(w)
        BY <3>1, CallGood DEF Call, terms
      <3>2. CASE Step(w)
        BY <3>2, SkipTermGood, TakeTermGood, StoreSortIntGood, StoreAppendixGood, LoadLeftGood,
           CompareLeftGood, LoadRightGood, CompareRightGood, LoadMinGood, LoadNodeGood,
           StoreMinGood, StoreNodeGood, HeapifyReturnsGood, StartAnswerGood, AnswerTermGood,
           AnswerJunkGood, AnswerEndsGood
        DEF Step, terms
      <3> QED
        BY <1>2, <3>1, <3>2
    <2>2. ASSUME NEW v \in Worker PROVE Phase(v)'
      <3>1. CASE v = w
        BY <2>1, <3>1 DEF Good
      <3>2. CASE v # w
        <4>1. TermNum' = TermNum
          BY <1>2 DEF Call, Step, terms
        <4> QED
          BY <2>1, <3>2, <4>1, PhaseKept DEF Good, HeapInv
      <3> QED
        BY <3>1, <3>2
    <2> QED
      BY <2>1, <2>2 DEF Good, HeapInv
  <1> QED
    BY <1>1, <1>2 DEF Next

\* The inductive invariant of GetHotTerm holds in every state.
THEOREM HeapInvariance == Spec => []HeapInv
  BY InitInv, NextInv, PTL DEF Spec

\* Every variable keeps its type; in particular heapify_r and the loops of
\* GetHotTerm never index outside hot_term_buf, whatever the other threads do.
THEOREM TypeCorrect == Spec => []TypeOK
  <1>1. HeapInv => TypeOK
    BY DEF HeapInv
  <1> QED
    BY <1>1, HeapInvariance, PTL

\* GetHotTerm answers from entries that were written, unless the index has
\* fewer terms than the buffer has entries.
THEOREM ReadsAreDefined == Spec => []ReadsDefined
  <1>1. HeapInv => ReadsDefined
    <2> SUFFICES ASSUME HeapInv, NEW w \in Worker
                 PROVE  /\ pc[w] = "undefined" => TermNum < HotSize
                        /\ pc[w] = "answer" /\ i[w] \in 0 .. TermNum - 1 => Written(i[w])
      BY DEF ReadsDefined
    <2>1. pc[w] = "undefined" => TermNum < HotSize
      BY DEF HeapInv, Phase
    <2>2. ASSUME pc[w] = "answer", i[w] \in 0 .. TermNum - 1 PROVE Written(i[w])
      <3>1. i[w] \in Cells /\ i[w] < TermNum
        BY <2>2, HotSizeAssumption, TermNumNat DEF HeapInv, Phase, Cells
      <3> QED
        BY <2>2, <3>1 DEF HeapInv, Phase
    <2> QED
      BY <2>1, <2>2
  <1> QED
    BY <1>1, HeapInvariance, PTL

-----------------------------------------------------------------------------
(* A call that no other call overlaps.                                     *)

Children(p) == {2 * p + 1, 2 * p + 2} \cap Cells

\* Entry p of buffer b is no greater than its children.
Ordered(b, p) == \A c \in Children(p) : b[p].sort_int <= b[c].sort_int

\* The part of buffer b from entry r on is in heap order.
IsHeap(b, r) == \A p \in Cells : p >= r => Ordered(b, p)

\* It is, but for entry x, which may be too great: its children are no smaller
\* than its parent.
Sinking(b, r, x) ==
    /\ \A p \in Cells : p >= r /\ p # x => Ordered(b, p)
    /\ \A p \in Cells : p >= r /\ x \in Children(p) =>
           \A c \in Children(x) : b[p].sort_int <= b[c].sort_int

\* The entries of b, but for those in Except, are different terms below m with
\* their frequencies.
Distinct(b, m, Except) ==
    /\ \A k \in Cells \ Except : /\ b[k].appendix \in 0 .. m - 1
                                 /\ b[k].sort_int = Df[b[k].appendix]
    /\ \A j, k \in Cells \ Except : b[j].appendix = b[k].appendix => j = k

\* A term below m that is not in b is no more frequent than the entries of b.
NoneBetter(b, m, Except) ==
    \A t \in 0 .. m - 1 : \/ \E k \in Cells \ Except : b[k].appendix = t
                          \/ \A k \in Cells : Df[t] <= b[k].sort_int

Selection(b, m) == Distinct(b, m, {}) /\ NoneBetter(b, m, {})

\* The buffer once heapify_r has stored the smaller child.
Swapped(w) == [hot_term_buf EXCEPT ![node[w]] = tmp[w]]

\* heapify_r has compared the entries of S: min is the least of them.
Least(w, S) ==
    /\ min[w] \in S
    /\ \A k \in S : hot_term_buf[min[w]].sort_int <= hot_term_buf[k].sort_int

\* What a call that is alone may rely on where it stands.
Filling(w) ==
    /\ pc[w] \in {"loop", "sort_int", "appendix"} /\ i[w] < HotSize =>
          \A k \in Cells : k < i[w] => hot_term_buf[k] = [sort_int |-> Df[k], appendix |-> k]
    /\ pc[w] = "appendix" => hot_term_buf[Cell(w)].sort_int = Df[i[w]]

Replacing(w) ==
    /\ pc[w] \in {"loop", "sort_int"} /\ i[w] >= HotSize =>
          Selection(hot_term_buf, i[w]) /\ IsHeap(hot_term_buf, 0)
    /\ pc[w] = "sort_int" /\ i[w] >= HotSize => Df[i[w]] > hot_term_buf[0].sort_int
    /\ pc[w] = "appendix" /\ i[w] >= HotSize =>
          /\ Distinct(hot_term_buf, i[w], {0})
          /\ NoneBetter(hot_term_buf, i[w], {0})
          /\ IsHeap(hot_term_buf, 1)

Repairing(w) ==
    /\ pc[w] \in Heaping \ {"store_node"} =>
          Selection(hot_term_buf, i[w] + 1) /\ Sinking(hot_term_buf, root[w], node[w])
    /\ pc[w] = "store_node" =>
          Selection(Swapped(w), i[w] + 1) /\ Sinking(Swapped(w), root[w], min[w])
    /\ pc[w] \in {"left", "compare_left"} => min[w] = node[w]
    /\ pc[w] = "compare_left" => reg[w] = hot_term_buf[Left(w)]
    /\ pc[w] \in {"right", "compare_right"} => Least(w, ({node[w], Left(w)} \cap Cells))
    /\ pc[w] = "compare_right" => reg[w] = hot_term_buf[Right(w)]
    /\ pc[w] \in {"swap", "load_node", "store_min"} => Least(w, {node[w]} \cup Children(node[w]))
    /\ pc[w] \in {"load_node", "store_min", "store_node"} => min[w] # node[w]
    /\ pc[w] \in {"load_node", "store_min"} => tmp[w] = hot_term_buf[min[w]]
    /\ pc[w] = "store_min" => reg[w] = hot_term_buf[node[w]]

Answering(w) ==
    pc[w] = "answer" /\ HotSize <= TermNum => Selection(hot_term_buf, TermNum)

TopPhase(w) == Filling(w) /\ Replacing(w) /\ Repairing(w) /\ Answering(w)

\* The inductive invariant for TopTerms.
TopInv ==
    /\ HeapInv
    /\ \A w \in Worker : alone[w] => /\ \A v \in Worker \ {w} : pc[v] = "idle"
                                     /\ TopPhase(w)


\* An entry of a buffer has a number to sort by.
LEMMA KeysAreNumbers ==
    ASSUME NEW b \in [Cells -> Item], NEW k \in Cells
    PROVE  b[k].sort_int \in Int
  BY DEF Item, Junk

\* A child comes after its parent, and has one only.
LEMMA OneParent ==
    ASSUME NEW p \in Cells, NEW c \in Children(p)
    PROVE  /\ c \in Cells /\ c > p
           /\ \A q \in Cells : c \in Children(q) => q = p
  <1>1. c \in Cells /\ p \in Nat /\ (c = 2 * p + 1 \/ c = 2 * p + 2)
    BY DEF Children, Cells
  <1>2. \A q \in Cells : q \in Nat /\ (c \in Children(q) => c = 2 * q + 1 \/ c = 2 * q + 2)
    BY DEF Children, Cells
  <1> QED
    BY <1>1, <1>2

\* The root of a heap is the least of its entries.
LEMMA RootIsLeast ==
    ASSUME NEW b \in [Cells -> Item], IsHeap(b, 0)
    PROVE  \A k \in Cells : b[0].sort_int <= b[k].sort_int
  <1> DEFINE Less == {k \in Cells : ~(b[0].sort_int <= b[k].sort_int)}
  <1> SUFFICES ASSUME Less # {} PROVE FALSE
    OBVIOUS
  <1>1. Less \subseteq Nat
    BY DEF Cells
  <1>2. PICK k \in Less : \A j \in Less : k <= j
    <2> HIDE DEF Less
    <2> QED
      BY <1>1, SmallestNat
  <1>3. k \in Cells /\ ~(b[0].sort_int <= b[k].sort_int)
    BY <1>2
  <1>4. 0 \in Cells /\ k # 0
    BY <1>3, CellFacts, KeysAreNumbers
  <1> DEFINE p == (k - 1) \div 2
  <1>5. p \in Cells /\ p < k /\ (k = 2 * p + 1 \/ k = 2 * p + 2)
    BY <1>3, <1>4, HotSizeAssumption DEF Cells
  <1>6. b[p].sort_int <= b[k].sort_int
    <2> HIDE DEF p
    <2>1. k \in Children(p) /\ p >= 0
      BY <1>3, <1>5 DEF Children, Cells
    <2> QED
      BY <1>5, <2>1 DEF IsHeap, Ordered
  <1>7. p \notin Less
    <2> HIDE DEF p, Less
    <2> QED
      BY <1>1, <1>2, <1>5 DEF Cells
  <1>8. b[0].sort_int <= b[p].sort_int
    <2> HIDE DEF p
    <2> QED
      BY <1>5, <1>7
  <1> HIDE DEF p
  <1> QED
    BY <1>3, <1>4, <1>5, <1>6, <1>8, KeysAreNumbers

\* What heapify_r does in a round: entry x and its least child y change places.
\* Only y may be too great now.
LEMMA SwapSinks ==
    ASSUME NEW b \in [Cells -> Item], NEW B \in [Cells -> Item],
           NEW r \in Cells, NEW x \in Cells, NEW y \in Children(x), Sinking(b, r, x),
           b[y].sort_int <= b[x].sort_int,
           \A c \in Children(x) : b[y].sort_int <= b[c].sort_int,
           B[x] = b[y], B[y] = b[x], \A k \in Cells \ {x, y} : B[k] = b[k]
    PROVE  Sinking(B, r, y)
  <1>1. y \in Cells /\ y > x /\ y # x
    BY OneParent DEF Cells
  <1>2. ASSUME NEW p \in Cells, p >= r, p # y PROVE Ordered(B, p)
    <2> SUFFICES ASSUME NEW c \in Children(p) PROVE B[p].sort_int <= B[c].sort_int
      BY DEF Ordered
    <2>1. c \in Cells /\ c > p /\ c # p
      BY OneParent DEF Cells
    <2>2. CASE p = x
      <3>1. CASE c = y
        BY <2>2, <3>1
      <3>2. CASE c # y
        BY <2>1, <2>2, <3>2
      <3> QED
        BY <3>1, <3>2
    <2>3. CASE p # x /\ c = x
      <3>1. b[p].sort_int <= b[y].sort_int
        BY <1>2, <2>3 DEF Sinking
      <3> QED
        BY <1>2, <2>3, <3>1
    <2>4. CASE p # x /\ c # x
      <3>1. c # y
        BY <2>4, OneParent
      <3>2. b[p].sort_int <= b[c].sort_int
        BY <1>2, <2>4 DEF Sinking, Ordered
      <3> QED
        BY <1>2, <2>1, <2>4, <3>1, <3>2
    <2> QED
      BY <2>2, <2>3, <2>4
  <1>3. ASSUME NEW p \in Cells, p >= r, y \in Children(p), NEW c \in Children(y)
        PROVE  B[p].sort_int <= B[c].sort_int
    <2>1. p = x
      BY <1>3, OneParent
    <2>2. c \in Cells /\ c # y /\ c # x
      BY <1>1, OneParent DEF Cells
    <2>3. Ordered(b, y)
      BY <1>1, <1>3, <2>1 DEF Sinking, Cells
    <2> QED
      BY <2>1, <2>2, <2>3 DEF Ordered
  <1> QED
    BY <1>2, <1>3 DEF Sinking

\* The terms that are selected stay the same.
LEMMA SwapSelects ==
    ASSUME NEW b \in [Cells -> Item], NEW B \in [Cells -> Item], NEW m,
           NEW x \in Cells, NEW y \in Cells, x # y, Selection(b, m),
           B[x] = b[y], B[y] = b[x], \A k \in Cells \ {x, y} : B[k] = b[k]
    PROVE  Selection(B, m)
  <1> DEFINE at(k) == IF k = x THEN y ELSE IF k = y THEN x ELSE k
  <1>1. \A k \in Cells : at(k) \in Cells /\ B[k] = b[at(k)] /\ b[k] = B[at(k)]
    OBVIOUS
  <1>2. \A j, k \in Cells : at(j) = at(k) => j = k
    OBVIOUS
  <1> HIDE DEF at
  <1>3. Distinct(B, m, {})
    BY <1>1, <1>2 DEF Selection, Distinct
  <1>4. NoneBetter(B, m, {})
    BY <1>1 DEF Selection, NoneBetter
  <1> QED
    BY <1>3, <1>4 DEF Selection

\* heapify_r stops where the entry is no greater than its children.
LEMMA SettledIsHeap ==
    ASSUME NEW b, NEW r, NEW x, Sinking(b, r, x), Ordered(b, x)
    PROVE  IsHeap(b, r)
  BY DEF Sinking, IsHeap

\* build_min_heap goes on with the entry before.
LEMMA NextRoot ==
    ASSUME NEW b, NEW r \in Cells, IsHeap(b, r + 1)
    PROVE  Sinking(b, r, r)
  <1>1. \A p \in Cells : p >= r /\ p # r => p >= r + 1
    BY DEF Cells
  <1>2. \A p \in Cells : p >= r => r \notin Children(p)
    BY OneParent DEF Cells
  <1> QED
    BY <1>1, <1>2 DEF Sinking, IsHeap

\* What is selected when all terms were seen is what TopTerms asks for.
LEMMA SelectionIsTop ==
    ASSUME NEW b \in [Cells -> Item], Selection(b, TermNum)
    PROVE  LET selected == {b[k].appendix : k \in Cells}
           IN  /\ \A k \in Cells : b[k].sort_int = Df[b[k].appendix]
               /\ Cardinality(selected) = HotSize
               /\ \A s \in selected, t \in (0 .. TermNum - 1) \ selected : Df[t] <= Df[s]
  <1> DEFINE selected == {b[k].appendix : k \in Cells}
             f == [k \in Cells |-> b[k].appendix]
  <1>1. \A k \in Cells : b[k].sort_int = Df[b[k].appendix]
    BY DEF Selection, Distinct
  <1>2. ASSUME NEW s \in selected, NEW t \in (0 .. TermNum - 1) \ selected
        PROVE  Df[t] <= Df[s]
    <2>1. PICK k \in Cells : s = b[k].appendix
      OBVIOUS
    <2>2. ~\E j \in Cells : b[j].appendix = t
      OBVIOUS
    <2>3. Df[t] <= b[k].sort_int
      BY <2>2 DEF Selection, NoneBetter
    <2> QED
      BY <1>1, <2>1, <2>3
  <1>3. f \in Bijection(Cells, selected)
    BY DEF Bijection, Injection, Surjection, IsInjective, Selection, Distinct
  <1>4. ExistsBijection(Cells, selected)
    BY <1>3 DEF ExistsBijection
  <1>5. IsFiniteSet(Cells) /\ Cardinality(Cells) = HotSize
    BY FS_Interval, HotSizeAssumption DEF Cells
  <1> HIDE DEF selected
  <1>6. Cardinality(selected) = HotSize
    BY <1>4, <1>5, FS_Bijection
  <1> QED
    BY <1>1, <1>2, <1>6 DEF selected


-----------------------------------------------------------------------------
(* One lemma per action of a call that is alone.                           *)

\* What such a call may rely on, of types and of its own place.
LEMMA AloneFacts ==
    ASSUME HeapInv, NEW w \in Worker
    PROVE  /\ hot_term_buf \in [Cells -> Item] /\ node[w] \in Cells /\ min[w] \in Cells
           /\ root[w] \in Cells /\ tmp[w] \in Item /\ reg[w] \in Item /\ i[w] \in Int
           /\ Df \in [0 .. TermNum - 1 -> Nat] /\ pc \in [Worker -> Labels]
           /\ Phase(w)
  BY DEF HeapInv, TypeOK

\* All frequencies are numbers.
LEMMA Frequencies ==
    ASSUME HeapInv
    PROVE  /\ \A k \in Cells : hot_term_buf[k].sort_int \in Int
           /\ \A t \in 0 .. TermNum - 1 : Df[t] \in Int
  <1>1. hot_term_buf \in [Cells -> Item] /\ Df \in [0 .. TermNum - 1 -> Nat]
    BY DEF HeapInv, TypeOK
  <1>2. \A t \in 0 .. TermNum - 1 : Df[t] \in Nat
    BY <1>1
  <1> QED
    BY <1>1, <1>2, KeysAreNumbers

\* The first term finds nothing it relies on.
LEMMA CallTop ==
    ASSUME HeapInv, NEW w \in Worker, Call(w), UNCHANGED <<TermNum, Df>>
    PROVE  TopPhase(w)'
  <1>1. pc'[w] = "loop" /\ i'[w] = 0
    BY DEF HeapInv, TypeOK, Phase, Call, Goto
  <1>2. Filling(w)'
    BY <1>1 DEF Filling, Cells
  <1>3. Replacing(w)'
    BY <1>1, HotSizeAssumption DEF Replacing
  <1>4. Repairing(w)' /\ Answering(w)'
    BY <1>1 DEF Repairing, Answering, Heaping
  <1> QED
    BY <1>2, <1>3, <1>4 DEF TopPhase

\* A term that does not replace the root is no more frequent than any entry.
LEMMA SkipTermTop ==
    ASSUME HeapInv, NEW w \in Worker, TopPhase(w), SkipTerm(w), UNCHANGED <<TermNum, Df>>
    PROVE  TopPhase(w)'
  <1>1. /\ pc[w] = "loop" /\ ~(i[w] < HotSize) /\ ~(Df[i[w]] > hot_term_buf[0].sort_int)
        /\ i[w] \in 0 .. TermNum /\ i[w] < TermNum
        /\ i'[w] = i[w] + 1 /\ UNCHANGED <<hot_term_buf, pc>>
    BY DEF HeapInv, TypeOK, Phase, SkipTerm, Replaces
  <1>2. i[w] >= HotSize /\ i[w] + 1 >= HotSize /\ i[w] \in 0 .. TermNum - 1 /\ i[w] \in Nat
    BY <1>1, HotSizeAssumption, TermNumNat
  <1>3. Selection(hot_term_buf, i[w]) /\ IsHeap(hot_term_buf, 0)
    BY <1>1, <1>2 DEF TopPhase, Replacing
  <1>4. \A k \in Cells : Df[i[w]] <= hot_term_buf[k].sort_int
    <2>1. \A k \in Cells : hot_term_buf[0].sort_int <= hot_term_buf[k].sort_int
      BY <1>3, AloneFacts, RootIsLeast
    <2>2. Df[i[w]] \in Int /\ \A k \in Cells : hot_term_buf[k].sort_int \in Int
      BY <1>2, Frequencies
    <2> QED
      BY <1>1, <2>1, <2>2, CellFacts
  <1>5. \A t \in 0 .. i[w] : t \in 0 .. i[w] - 1 \/ t = i[w]
    BY <1>2
  <1>6. 0 .. i[w] - 1 \subseteq 0 .. i[w] /\ (i[w] + 1) - 1 = i[w]
    BY <1>2
  <1>7. Selection(hot_term_buf, i[w] + 1)
    BY <1>3, <1>4, <1>5, <1>6 DEF Selection, Distinct, NoneBetter
  <1>8. Selection(hot_term_buf, i[w])'
    BY <1>1, <1>7 DEF Selection, Distinct, NoneBetter
  <1>9. IsHeap(hot_term_buf, 0)'
    BY <1>1, <1>3 DEF IsHeap, Ordered
  <1>10. Replacing(w)'
    BY <1>1, <1>8, <1>9 DEF Replacing
  <1>11. Filling(w)'
    BY <1>1, <1>2, HotSizeAssumption DEF Filling
  <1>12. Repairing(w)' /\ Answering(w)'
    BY <1>1 DEF Repairing, Answering, Heaping
  <1> QED
    BY <1>10, <1>11, <1>12 DEF TopPhase

\* A term that is taken after the buffer was filled is more frequent than the
\* root.
LEMMA TakeTermTop ==
    ASSUME HeapInv, NEW w \in Worker, TopPhase(w), TakeTerm(w), UNCHANGED <<TermNum, Df>>
    PROVE  TopPhase(w)'
  <1>1. /\ pc[w] = "loop" /\ (i[w] < HotSize \/ Df[i[w]] > hot_term_buf[0].sort_int)
        /\ pc'[w] = "sort_int" /\ UNCHANGED <<hot_term_buf, i>> /\ i[w] \in Int
    BY DEF HeapInv, TypeOK, TakeTerm, Replaces, Goto
  <1>2. Filling(w)'
    BY <1>1 DEF TopPhase, Filling
  <1>3. Replacing(w)'
    BY <1>1, HotSizeAssumption
    DEF TopPhase, Replacing, Selection, Distinct, NoneBetter, IsHeap, Ordered
  <1>4. Repairing(w)' /\ Answering(w)'
    BY <1>1 DEF Repairing, Answering, Heaping
  <1> QED
    BY <1>2, <1>3, <1>4 DEF TopPhase

\* The frequency of the term goes in; if it goes over the root's, no term that
\* is left out is more frequent, the one that was in the root included.
LEMMA StoreSortIntTop ==
    ASSUME HeapInv, NEW w \in Worker, TopPhase(w), StoreSortInt(w), UNCHANGED <<TermNum, Df>>
    PROVE  TopPhase(w)'
  <1>1. /\ pc[w] = "sort_int" /\ pc'[w] = "appendix" /\ UNCHANGED i
        /\ hot_term_buf' = [hot_term_buf EXCEPT ![Cell(w)].sort_int = Df[i[w]]]
        /\ i[w] \in 0 .. TermNum - 1
    BY DEF HeapInv, TypeOK, Phase, StoreSortInt, Goto
  <1>2. i[w] \in Nat /\ Cell(w) \in Cells /\ Cell(w)' = Cell(w) /\ Df[i[w]] \in Nat
    BY <1>1, AloneFacts, CellInBuffer, TermNumNat DEF Cell
  <1>3. /\ hot_term_buf'[Cell(w)].sort_int = Df[i[w]]
        /\ \A k \in Cells \ {Cell(w)} : hot_term_buf'[k] = hot_term_buf[k]
    BY <1>1, <1>2, AloneFacts DEF Item
  <1>4. Filling(w)'
    <2>1. i[w] < HotSize => \A k \in Cells : k < i[w] => k # Cell(w)
      BY <1>2 DEF Cell, Cells
    <2> QED
      BY <1>1, <1>2, <1>3, <2>1 DEF TopPhase, Filling
  <1>5. Replacing(w)'
    <2> SUFFICES ASSUME i[w] >= HotSize
                 PROVE  /\ Distinct(hot_term_buf, i[w], {0})'
                        /\ NoneBetter(hot_term_buf, i[w], {0})'
                        /\ IsHeap(hot_term_buf, 1)'
      BY <1>1 DEF Replacing
    <2>1. /\ Cell(w) = 0 /\ Df[i[w]] > hot_term_buf[0].sort_int
          /\ Distinct(hot_term_buf, i[w], {}) /\ NoneBetter(hot_term_buf, i[w], {})
          /\ IsHeap(hot_term_buf, 0)
      BY <1>1, <1>2, HotSizeAssumption DEF Cell, TopPhase, Replacing, Selection
    <2>2. Distinct(hot_term_buf, i[w], {0})'
      BY <1>1, <1>3, <2>1 DEF Distinct
    <2>3. IsHeap(hot_term_buf, 1)'
      <3>1. ASSUME NEW p \in Cells, p >= 1, NEW c \in Children(p)
            PROVE  hot_term_buf'[p].sort_int <= hot_term_buf'[c].sort_int
        <4>1. c \in Cells /\ c # 0 /\ p # 0 /\ p >= 0
          BY <3>1, OneParent DEF Cells
        <4>2. hot_term_buf[p].sort_int <= hot_term_buf[c].sort_int
          BY <2>1, <4>1 DEF IsHeap, Ordered
        <4> QED
          BY <1>3, <2>1, <4>1, <4>2
      <3> QED
        BY <3>1 DEF IsHeap, Ordered
    <2>4. ASSUME NEW t \in 0 .. i[w] - 1, ~\E k \in Cells \ {0} : hot_term_buf'[k].appendix = t,
                 NEW k \in Cells
          PROVE  Df[t] <= hot_term_buf'[k].sort_int
      <3>1. \A j \in Cells : hot_term_buf[0].sort_int <= hot_term_buf[j].sort_int
        BY <2>1, AloneFacts, RootIsLeast
      <3>2. /\ \A j \in Cells : hot_term_buf[j].sort_int \in Int
            /\ Df[t] \in Int
        <4>1. t \in 0 .. TermNum - 1
          BY <1>1, TermNumNat
        <4> QED
          BY <4>1, Frequencies
      <3>3. ~\E j \in Cells \ {0} : hot_term_buf[j].appendix = t
        BY <1>3, <2>1, <2>4
      <3>4. \A j \in Cells : Df[t] <= hot_term_buf[j].sort_int
        <4>1. CASE hot_term_buf[0].appendix = t
          <5>1. Df[t] = hot_term_buf[0].sort_int
            BY <2>1, <4>1, CellFacts DEF Distinct
          <5> QED
            BY <3>1, <5>1
        <4>2. CASE hot_term_buf[0].appendix # t
          BY <2>1, <3>3, <4>2 DEF NoneBetter
        <4> QED
          BY <4>1, <4>2
      <3>5. CASE k = 0
        BY <1>2, <1>3, <2>1, <3>2, <3>4, <3>5
      <3>6. CASE k # 0
        BY <1>3, <2>1, <3>4, <3>6
      <3> QED
        BY <3>5, <3>6
    <2>5. NoneBetter(hot_term_buf, i[w], {0})'
      BY <1>1, <2>4 DEF NoneBetter
    <2> QED
      BY <2>2, <2>3, <2>5
  <1>6. Repairing(w)' /\ Answering(w)'
    BY <1>1 DEF Repairing, Answering, Heaping
  <1> QED
    BY <1>4, <1>5, <1>6 DEF TopPhase

\* The entry is whole again: the term is selected, and the heap has to be
\* built or repaired.
LEMMA StoreAppendixTop ==
    ASSUME HeapInv, NEW w \in Worker, TopPhase(w), StoreAppendix(w), UNCHANGED <<TermNum, Df>>
    PROVE  TopPhase(w)'
  <1> DEFINE b == hot_term_buf'
  <1>1. /\ pc[w] = "appendix"
        /\ b = [hot_term_buf EXCEPT ![Cell(w)].appendix = i[w]]
        /\ i[w] \in 0 .. TermNum - 1
    BY DEF HeapInv, TypeOK, Phase, StoreAppendix
  <1>2. i[w] \in Nat /\ Cell(w) \in Cells
    BY <1>1, CellInBuffer, TermNumNat
  <1>3. /\ b[Cell(w)] = [sort_int |-> Df[i[w]], appendix |-> i[w]]
        /\ \A k \in Cells \ {Cell(w)} : b[k] = hot_term_buf[k]
    <2>1. hot_term_buf[Cell(w)].sort_int = Df[i[w]] /\ hot_term_buf[Cell(w)] \in Item
      BY <1>1, <1>2, AloneFacts DEF TopPhase, Filling
    <2> QED
      BY <1>1, <1>2, <2>1, AloneFacts DEF Item
  <1>4. ASSUME i[w] < HotSize
        PROVE  \A k \in Cells : k < i[w] + 1 => b[k] = [sort_int |-> Df[k], appendix |-> k]
    <2>1. Cell(w) = i[w]
      BY <1>4 DEF Cell
    <2>2. \A k \in Cells : k < i[w] + 1 /\ k # i[w] => k < i[w]
      BY <1>2 DEF Cells
    <2> QED
      BY <1>1, <1>3, <1>4, <2>1, <2>2 DEF TopPhase, Filling
  <1>5. CASE i[w] < HotSize - 1
    <2>1. pc'[w] = "loop" /\ i'[w] = i[w] + 1 /\ i[w] + 1 < HotSize /\ i[w] < HotSize
      BY <1>2, <1>5, HotSizeAssumption DEF HeapInv, TypeOK, StoreAppendix, AfterStore, Goto
    <2>2. Filling(w)'
      BY <1>4, <2>1 DEF Filling
    <2>3. Replacing(w)' /\ Repairing(w)' /\ Answering(w)'
      BY <1>2, <2>1, HotSizeAssumption DEF Replacing, Repairing, Answering, Heaping
    <2> QED
      BY <2>2, <2>3 DEF TopPhase
  <1>6. CASE ~(i[w] < HotSize - 1)
    <2> DEFINE first == IF i[w] = HotSize - 1 THEN (HotSize - 1) \div 2 ELSE 0
    <2>1. /\ root'[w] = first /\ node'[w] = first /\ min'[w] = first /\ pc'[w] = "left" /\ i' = i
      BY <1>6 DEF HeapInv, TypeOK, StoreAppendix, AfterStore, Heapify, Goto
    <2>2. first \in Cells
      BY CellFacts
    <2>3. Selection(b, i[w] + 1) /\ IsHeap(b, first + 1)
      <3>1. CASE i[w] = HotSize - 1
        <4>1. i[w] < HotSize /\ \A k \in Cells : k < i[w] + 1 /\ k \in 0 .. (i[w] + 1) - 1
          BY <3>1, HotSizeAssumption DEF Cells
        <4>2. \A k \in Cells : b[k] = [sort_int |-> Df[k], appendix |-> k]
          BY <1>4, <4>1
        <4>3. \A t \in 0 .. (i[w] + 1) - 1 : t \in Cells
          BY <3>1, HotSizeAssumption DEF Cells
        <4>4. Selection(b, i[w] + 1)
          <5> HIDE DEF b
          <5>1. ASSUME NEW k \in Cells PROVE b[k].appendix = k /\ b[k].sort_int = Df[k]
            <6>1. b[k] = [sort_int |-> Df[k], appendix |-> k]
              BY <4>2
            <6> QED
              BY <6>1
          <5>2. Distinct(b, i[w] + 1, {})
            BY <4>1, <5>1 DEF Distinct
          <5>3. NoneBetter(b, i[w] + 1, {})
            BY <4>3, <5>1 DEF NoneBetter
          <5> QED
            BY <5>2, <5>3 DEF Selection
        <4>5. \A p \in Cells : p >= first + 1 => Children(p) = {}
          <5>1. \A p \in Nat : p >= (HotSize - 1) \div 2 + 1 => 2 * p + 1 > HotSize - 1
            BY HotSizeAssumption
          <5> QED
            BY <3>1, <5>1, HotSizeAssumption DEF Children, Cells
        <4> QED
          BY <4>4, <4>5 DEF IsHeap, Ordered
      <3>2. CASE i[w] # HotSize - 1
        <4>1. i[w] >= HotSize /\ ~(i[w] < HotSize) /\ first = 0
          BY <1>2, <1>6, <3>2, HotSizeAssumption
        <4>2. /\ Distinct(hot_term_buf, i[w], {0}) /\ NoneBetter(hot_term_buf, i[w], {0})
              /\ IsHeap(hot_term_buf, 1) /\ Cell(w) = 0
              /\ hot_term_buf[0].sort_int = b[0].sort_int
          BY <1>1, <1>3, <4>1 DEF TopPhase, Replacing, Filling, Cell
        <4> HIDE DEF b, first
        <4>3. \A k \in Cells : b[k].sort_int = hot_term_buf[k].sort_int
          BY <1>3, <4>2
        <4>4. IsHeap(b, first + 1)
          <5>1. first + 1 = 1
            BY <4>1
          <5>2. \A p \in Cells : \A c \in Children(p) : c \in Cells
            BY DEF Children
          <5> QED
            BY <4>2, <4>3, <5>1, <5>2 DEF IsHeap, Ordered
        <4>5. /\ (i[w] + 1) - 1 = i[w] /\ i[w] \in 0 .. i[w] /\ i[w] \notin 0 .. i[w] - 1
              /\ 0 .. i[w] - 1 \subseteq 0 .. i[w]
              /\ \A t \in 0 .. i[w] : t \in 0 .. i[w] - 1 \/ t = i[w]
          BY <1>2
        <4>6. Distinct(b, i[w] + 1, {})
          BY <1>3, <4>2, <4>5 DEF Distinct
        <4>7. NoneBetter(b, i[w] + 1, {})
          BY <1>3, <4>2, <4>3, <4>5, CellFacts DEF NoneBetter
        <4> QED
          BY <4>4, <4>6, <4>7 DEF Selection
      <3> QED
        BY <3>1, <3>2
    <2>4. Sinking(b, first, first)
      <3> HIDE DEF b, first
      <3> QED
        BY <2>2, <2>3, NextRoot
    <2> HIDE DEF first
    <2>5. Selection(hot_term_buf, i[w] + 1)' /\ Sinking(hot_term_buf, root[w], node[w])'
      BY <2>1, <2>3, <2>4 DEF Selection, Distinct, NoneBetter, Sinking, Ordered
    <2>6. Repairing(w)'
      BY <2>1, <2>5 DEF Repairing, Heaping
    <2>7. Filling(w)' /\ Replacing(w)' /\ Answering(w)'
      BY <2>1 DEF Filling, Replacing, Answering
    <2> QED
      BY <2>6, <2>7 DEF TopPhase
  <1> QED
    BY <1>5, <1>6


\* Nothing of the buffer changes while heapify_r compares and loads.
LEMMA BufferKept ==
    ASSUME NEW w \in Worker, UNCHANGED <<Df, hot_term_buf>>, i'[w] = i[w],
           root'[w] = root[w], node'[w] = node[w],
           Selection(hot_term_buf, i[w] + 1), Sinking(hot_term_buf, root[w], node[w])
    PROVE  Selection(hot_term_buf, i[w] + 1)' /\ Sinking(hot_term_buf, root[w], node[w])'
  BY DEF Selection, Distinct, NoneBetter, Sinking, Ordered

\* A state of heapify_r is about nothing but the heap.
LEMMA HeapingOnly ==
    ASSUME NEW w \in Worker, pc'[w] \in Heaping, Repairing(w)'
    PROVE  TopPhase(w)'
  BY DEF TopPhase, Filling, Replacing, Answering, Heaping

\* The left child is in the register, or there is none.
LEMMA LoadLeftTop ==
    ASSUME HeapInv, NEW w \in Worker, TopPhase(w), LoadLeft(w), UNCHANGED <<TermNum, Df>>
    PROVE  TopPhase(w)'
  <1>1. /\ pc[w] = "left" /\ UNCHANGED <<hot_term_buf, i, root, node, min, tmp>>
        /\ min[w] = node[w]
        /\ Selection(hot_term_buf, i[w] + 1) /\ Sinking(hot_term_buf, root[w], node[w])
    BY DEF LoadLeft, TopPhase, Repairing, Heaping
  <1>2. Selection(hot_term_buf, i[w] + 1)' /\ Sinking(hot_term_buf, root[w], node[w])'
    BY <1>1, BufferKept
  <1>3. CASE Left(w) <= HotSize - 1
    <2>1. pc'[w] = "compare_left" /\ reg'[w] = hot_term_buf[Left(w)] /\ Left(w)' = Left(w)
      BY <1>1, <1>3 DEF LoadLeft, Load, Goto, Left, HeapInv, TypeOK
    <2>2. Repairing(w)'
      BY <1>1, <1>2, <2>1 DEF Repairing
    <2> QED
      BY <2>1, <2>2, HeapingOnly DEF Heaping
  <1>4. CASE ~(Left(w) <= HotSize - 1)
    <2>1. pc'[w] = "right"
      BY <1>1, <1>4 DEF LoadLeft, Goto, HeapInv, TypeOK
    <2>2. {node[w], Left(w)} \cap Cells = {node[w]}
      BY <1>4, AloneFacts, HotSizeAssumption DEF Left, Cells
    <2>3. Least(w, {node[w], Left(w)} \cap Cells)
      BY <1>1, <2>2, AloneFacts, Frequencies DEF Least
    <2>4. Least(w, {node[w], Left(w)} \cap Cells)'
      BY <1>1, <2>3 DEF Least, Left
    <2>5. Repairing(w)'
      BY <1>2, <2>1, <2>4 DEF Repairing
    <2> QED
      BY <2>1, <2>5, HeapingOnly DEF Heaping
  <1> QED
    BY <1>3, <1>4

\* min is the lesser of the node and its left child.
LEMMA CompareLeftTop ==
    ASSUME HeapInv, NEW w \in Worker, TopPhase(w), CompareLeft(w), UNCHANGED <<TermNum, Df>>
    PROVE  TopPhase(w)'
  <1>1. /\ pc[w] = "compare_left" /\ UNCHANGED <<hot_term_buf, i, root, node, tmp>>
        /\ min[w] = node[w] /\ reg[w] = hot_term_buf[Left(w)] /\ pc'[w] = "right"
        /\ Selection(hot_term_buf, i[w] + 1) /\ Sinking(hot_term_buf, root[w], node[w])
    BY DEF CompareLeft, TopPhase, Repairing, Heaping, Goto, HeapInv, TypeOK
  <1>2. Selection(hot_term_buf, i[w] + 1)' /\ Sinking(hot_term_buf, root[w], node[w])'
    BY <1>1, BufferKept
  <1>3. Left(w) \in Cells /\ node[w] \in Cells
    BY <1>1, AloneFacts DEF Phase
  <1>4. min'[w] = IF hot_term_buf[Left(w)].sort_int < hot_term_buf[node[w]].sort_int
                  THEN Left(w) ELSE node[w]
    BY <1>1 DEF CompareLeft, Compare, Smaller, HeapInv, TypeOK
  <1>5. hot_term_buf[Left(w)].sort_int \in Int /\ hot_term_buf[node[w]].sort_int \in Int
    BY <1>3, Frequencies
  <1>6. /\ min'[w] \in {node[w], Left(w)}
        /\ hot_term_buf[min'[w]].sort_int <= hot_term_buf[node[w]].sort_int
        /\ hot_term_buf[min'[w]].sort_int <= hot_term_buf[Left(w)].sort_int
    BY <1>4, <1>5
  <1>7. Least(w, {node[w], Left(w)} \cap Cells)'
    BY <1>1, <1>3, <1>6 DEF Least, Left
  <1>8. Repairing(w)'
    BY <1>1, <1>2, <1>7 DEF Repairing
  <1> QED
    BY <1>1, <1>8, HeapingOnly DEF Heaping

\* The right child is in the register, or there is none.
LEMMA LoadRightTop ==
    ASSUME HeapInv, NEW w \in Worker, TopPhase(w), LoadRight(w), UNCHANGED <<TermNum, Df>>
    PROVE  TopPhase(w)'
  <1>1. /\ pc[w] = "right" /\ UNCHANGED <<hot_term_buf, i, root, node, min, tmp>>
        /\ Least(w, {node[w], Left(w)} \cap Cells)
        /\ Selection(hot_term_buf, i[w] + 1) /\ Sinking(hot_term_buf, root[w], node[w])
    BY DEF LoadRight, TopPhase, Repairing, Heaping
  <1>2. Selection(hot_term_buf, i[w] + 1)' /\ Sinking(hot_term_buf, root[w], node[w])'
    BY <1>1, BufferKept
  <1>3. CASE Right(w) <= HotSize - 1
    <2>1. pc'[w] = "compare_right" /\ reg'[w] = hot_term_buf[Right(w)] /\ Right(w)' = Right(w)
      BY <1>1, <1>3 DEF LoadRight, Load, Goto, Right, HeapInv, TypeOK
    <2>2. Least(w, {node[w], Left(w)} \cap Cells)'
      BY <1>1 DEF Least, Left
    <2>3. Repairing(w)'
      BY <1>1, <1>2, <2>1, <2>2 DEF Repairing
    <2> QED
      BY <2>1, <2>3, HeapingOnly DEF Heaping
  <1>4. CASE ~(Right(w) <= HotSize - 1)
    <2>1. pc'[w] = "swap"
      BY <1>1, <1>4 DEF LoadRight, Goto, HeapInv, TypeOK
    <2>2. {node[w], Left(w)} \cap Cells = {node[w]} \cup Children(node[w])
      BY <1>4, AloneFacts, HotSizeAssumption DEF Left, Right, Cells, Children
    <2>3. Least(w, {node[w]} \cup Children(node[w]))
      BY <1>1, <2>2
    <2>4. Least(w, {node[w]} \cup Children(node[w]))'
      BY <1>1, <2>3 DEF Least
    <2>5. Repairing(w)'
      BY <1>2, <2>1, <2>4 DEF Repairing
    <2> QED
      BY <2>1, <2>5, HeapingOnly DEF Heaping
  <1> QED
    BY <1>3, <1>4

\* min is the least of the node and its children.
LEMMA CompareRightTop ==
    ASSUME HeapInv, NEW w \in Worker, TopPhase(w), CompareRight(w), UNCHANGED <<TermNum, Df>>
    PROVE  TopPhase(w)'
  <1>1. /\ pc[w] = "compare_right" /\ UNCHANGED <<hot_term_buf, i, root, node, tmp>>
        /\ Least(w, {node[w], Left(w)} \cap Cells)
        /\ reg[w] = hot_term_buf[Right(w)] /\ pc'[w] = "swap"
        /\ Selection(hot_term_buf, i[w] + 1) /\ Sinking(hot_term_buf, root[w], node[w])
    BY DEF CompareRight, TopPhase, Repairing, Heaping, Goto, HeapInv, TypeOK
  <1>2. Selection(hot_term_buf, i[w] + 1)' /\ Sinking(hot_term_buf, root[w], node[w])'
    BY <1>1, BufferKept
  <1>3. Right(w) \in Cells /\ node[w] \in Cells /\ min[w] \in Cells
    BY <1>1, AloneFacts DEF Phase
  <1> DEFINE S == {node[w], Left(w)} \cap Cells
  <1>4. min'[w] = IF hot_term_buf[Right(w)].sort_int < hot_term_buf[min[w]].sort_int
                  THEN Right(w) ELSE min[w]
    BY <1>1 DEF CompareRight, Compare, Smaller, HeapInv, TypeOK
  <1>5. {node[w]} \cup Children(node[w]) = S \cup {Right(w)} /\ S \subseteq Cells
    BY <1>3 DEF Left, Right, Children
  <1> HIDE DEF S
  <1>6. /\ min[w] \in S /\ \A k \in S : hot_term_buf[min[w]].sort_int <= hot_term_buf[k].sort_int
        /\ \A k \in S \cup {Right(w)} : hot_term_buf[k].sort_int \in Int
    BY <1>1, <1>3, <1>5, Frequencies DEF Least, S
  <1>7. /\ min'[w] \in S \cup {Right(w)}
        /\ \A k \in S \cup {Right(w)} : hot_term_buf[min'[w]].sort_int <= hot_term_buf[k].sort_int
    BY <1>4, <1>6
  <1>8. Least(w, {node[w]} \cup Children(node[w]))'
    BY <1>1, <1>5, <1>7 DEF Least
  <1>9. Repairing(w)'
    BY <1>1, <1>2, <1>8 DEF Repairing
  <1> QED
    BY <1>1, <1>9, HeapingOnly DEF Heaping

\* The least child is in tmp.
LEMMA LoadMinTop ==
    ASSUME HeapInv, NEW w \in Worker, TopPhase(w), LoadMin(w), UNCHANGED <<TermNum, Df>>
    PROVE  TopPhase(w)'
  <1>1. /\ pc[w] = "swap" /\ UNCHANGED <<hot_term_buf, i, root, node, min>>
        /\ min[w] # node[w] /\ Least(w, {node[w]} \cup Children(node[w]))
        /\ tmp'[w] = hot_term_buf[min[w]] /\ pc'[w] = "load_node"
        /\ Selection(hot_term_buf, i[w] + 1) /\ Sinking(hot_term_buf, root[w], node[w])
    BY DEF LoadMin, TopPhase, Repairing, Heaping, Goto, HeapInv, TypeOK
  <1>2. Selection(hot_term_buf, i[w] + 1)' /\ Sinking(hot_term_buf, root[w], node[w])'
    BY <1>1, BufferKept
  <1>3. Least(w, {node[w]} \cup Children(node[w]))'
    BY <1>1 DEF Least
  <1>4. Repairing(w)'
    BY <1>1, <1>2, <1>3 DEF Repairing
  <1> QED
    BY <1>1, <1>4, HeapingOnly DEF Heaping

\* The node is in the register.
LEMMA LoadNodeTop ==
    ASSUME HeapInv, NEW w \in Worker, TopPhase(w), LoadNode(w), UNCHANGED <<TermNum, Df>>
    PROVE  TopPhase(w)'
  <1>1. /\ pc[w] = "load_node" /\ UNCHANGED <<hot_term_buf, i, root, node, min, tmp>>
        /\ min[w] # node[w] /\ Least(w, {node[w]} \cup Children(node[w]))
        /\ tmp[w] = hot_term_buf[min[w]] /\ pc'[w] = "store_min"
        /\ reg'[w] = hot_term_buf[node[w]]
        /\ Selection(hot_term_buf, i[w] + 1) /\ Sinking(hot_term_buf, root[w], node[w])
    BY DEF LoadNode, Load, TopPhase, Repairing, Heaping, Goto, HeapInv, TypeOK
  <1>2. Selection(hot_term_buf, i[w] + 1)' /\ Sinking(hot_term_buf, root[w], node[w])'
    BY <1>1, BufferKept
  <1>3. Least(w, {node[w]} \cup Children(node[w]))'
    BY <1>1 DEF Least
  <1>4. Repairing(w)'
    BY <1>1, <1>2, <1>3 DEF Repairing
  <1> QED
    BY <1>1, <1>4, HeapingOnly DEF Heaping

\* The first half of the swap: with tmp in the node, it is done.
LEMMA StoreMinTop ==
    ASSUME HeapInv, NEW w \in Worker, TopPhase(w), StoreMin(w), UNCHANGED <<TermNum, Df>>
    PROVE  TopPhase(w)'
  <1> DEFINE x == node[w]
             y == min[w]
             B == Swapped(w)'
  <1>1. /\ pc[w] = "store_min" /\ UNCHANGED <<i, root, node, min, tmp>>
        /\ y # x /\ Least(w, {x} \cup Children(x))
        /\ tmp[w] = hot_term_buf[y] /\ reg[w] = hot_term_buf[x]
        /\ pc'[w] = "store_node"
        /\ hot_term_buf' = [hot_term_buf EXCEPT ![y] = hot_term_buf[x]]
        /\ Selection(hot_term_buf, i[w] + 1) /\ Sinking(hot_term_buf, root[w], x)
    BY DEF StoreMin, TopPhase, Repairing, Heaping, Goto, HeapInv, TypeOK
  <1>2. /\ hot_term_buf \in [Cells -> Item] /\ x \in Cells /\ y \in Cells /\ root[w] \in Cells
    BY AloneFacts
  <1>3. /\ B \in [Cells -> Item] /\ B[x] = hot_term_buf[y] /\ B[y] = hot_term_buf[x]
        /\ \A k \in Cells \ {x, y} : B[k] = hot_term_buf[k]
    BY <1>1, <1>2 DEF Swapped
  <1>4. /\ y \in Children(x) /\ hot_term_buf[y].sort_int <= hot_term_buf[x].sort_int
        /\ \A c \in Children(x) : hot_term_buf[y].sort_int <= hot_term_buf[c].sort_int
    BY <1>1 DEF Least
  <1> HIDE DEF B, x, y
  <1>5. Sinking(B, root[w], y)
    BY <1>1, <1>2, <1>3, <1>4, SwapSinks
  <1>6. Selection(B, i[w] + 1)
    BY <1>1, <1>2, <1>3, SwapSelects
  <1>7. Selection(Swapped(w), i[w] + 1)' /\ Sinking(Swapped(w), root[w], min[w])'
    BY <1>1, <1>5, <1>6 DEF B, y, Selection, Distinct, NoneBetter, Sinking, Ordered
  <1>8. Repairing(w)'
    BY <1>1, <1>7 DEF Repairing, x, y
  <1> QED
    BY <1>1, <1>8, HeapingOnly DEF Heaping

\* The swap is done, and heapify_r goes down.
LEMMA StoreNodeTop ==
    ASSUME HeapInv, NEW w \in Worker, TopPhase(w), StoreNode(w), UNCHANGED <<TermNum, Df>>
    PROVE  TopPhase(w)'
  <1>1. /\ pc[w] = "store_node" /\ UNCHANGED <<i, root>>
        /\ hot_term_buf' = Swapped(w)
        /\ node'[w] = min[w] /\ min'[w] = min[w] /\ pc'[w] = "left"
        /\ Selection(Swapped(w), i[w] + 1) /\ Sinking(Swapped(w), root[w], min[w])
    BY DEF StoreNode, Swapped, Heapify, TopPhase, Repairing, Heaping, Goto, HeapInv, TypeOK
  <1>2. Selection(hot_term_buf, i[w] + 1)' /\ Sinking(hot_term_buf, root[w], node[w])'
    BY <1>1 DEF Selection, Distinct, NoneBetter, Sinking, Ordered
  <1>3. Repairing(w)'
    BY <1>1, <1>2 DEF Repairing
  <1> QED
    BY <1>1, <1>3, HeapingOnly DEF Heaping

\* From here on the buffer is a heap; with the root it is one altogether.
LEMMA HeapifyReturnsTop ==
    ASSUME HeapInv, NEW w \in Worker, TopPhase(w), HeapifyReturns(w), UNCHANGED <<TermNum, Df>>
    PROVE  TopPhase(w)'
  <1>1. /\ pc[w] = "swap" /\ UNCHANGED hot_term_buf /\ min[w] = node[w]
        /\ Least(w, {node[w]} \cup Children(node[w]))
        /\ Selection(hot_term_buf, i[w] + 1) /\ Sinking(hot_term_buf, root[w], node[w])
    BY DEF HeapifyReturns, TopPhase, Repairing, Heaping
  <1>2. IsHeap(hot_term_buf, root[w])
    BY <1>1, SettledIsHeap DEF Least, Ordered
  <1>3. root[w] \in Nat /\ root[w] \in Cells
    BY AloneFacts DEF Cells
  <1>4. CASE root[w] > 0
    <2>1. /\ root'[w] = root[w] - 1 /\ node'[w] = root[w] - 1 /\ min'[w] = root[w] - 1
          /\ pc'[w] = "left" /\ i' = i
      BY <1>4 DEF HeapifyReturns, Heapify, Goto, HeapInv, TypeOK
    <2>2. root[w] - 1 \in Cells /\ (root[w] - 1) + 1 = root[w]
      BY <1>3, <1>4, HotSizeAssumption DEF Cells
    <2>3. Sinking(hot_term_buf, root[w] - 1, root[w] - 1)
      BY <1>2, <2>2, NextRoot
    <2>4. Selection(hot_term_buf, i[w] + 1)' /\ Sinking(hot_term_buf, root[w], node[w])'
      BY <1>1, <2>1, <2>3 DEF Selection, Distinct, NoneBetter, Sinking, Ordered
    <2>5. Repairing(w)'
      BY <2>1, <2>4 DEF Repairing
    <2> QED
      BY <2>1, <2>5, HeapingOnly DEF Heaping
  <1>5. CASE ~(root[w] > 0)
    <2>1. pc'[w] = "loop" /\ i'[w] = i[w] + 1 /\ root[w] = 0 /\ i[w] \in HotSize - 1 .. TermNum - 1
      BY <1>1, <1>3, <1>5, AloneFacts DEF HeapifyReturns, Goto, HeapInv, TypeOK, Phase, Heaping
    <2>2. i[w] + 1 >= HotSize /\ ~(i[w] + 1 < HotSize)
      BY <2>1, HotSizeAssumption, TermNumNat
    <2>3. Selection(hot_term_buf, i[w])' /\ IsHeap(hot_term_buf, 0)'
      BY <1>1, <1>2, <2>1 DEF Selection, Distinct, NoneBetter, IsHeap, Ordered
    <2>4. Filling(w)' /\ Replacing(w)'
      BY <2>1, <2>2, <2>3 DEF Filling, Replacing
    <2>5. Repairing(w)' /\ Answering(w)'
      BY <2>1 DEF Repairing, Answering, Heaping
    <2> QED
      BY <2>4, <2>5 DEF TopPhase
  <1> QED
    BY <1>4, <1>5

\* When the loop has seen all terms, the selection is of all terms.
LEMMA StartAnswerTop ==
    ASSUME HeapInv, NEW w \in Worker, TopPhase(w), StartAnswer(w), UNCHANGED <<TermNum, Df>>
    PROVE  TopPhase(w)'
  <1>1. /\ pc[w] = "loop" /\ i[w] >= TermNum /\ i[w] \in 0 .. TermNum
        /\ pc'[w] = "answer" /\ UNCHANGED hot_term_buf
    BY AloneFacts DEF StartAnswer, Goto, HeapInv, TypeOK, Phase
  <1>2. i[w] = TermNum /\ (HotSize <= TermNum => i[w] >= HotSize)
    BY <1>1, HotSizeAssumption, TermNumNat
  <1>3. HotSize <= TermNum => Selection(hot_term_buf, TermNum)
    BY <1>1, <1>2 DEF TopPhase, Replacing
  <1>4. Answering(w)'
    BY <1>1, <1>3 DEF Answering, Selection, Distinct, NoneBetter
  <1>5. Filling(w)' /\ Replacing(w)' /\ Repairing(w)'
    BY <1>1 DEF Filling, Replacing, Repairing, Heaping
  <1> QED
    BY <1>4, <1>5 DEF TopPhase

\* The answer changes nothing.
LEMMA AnswerTop ==
    ASSUME HeapInv, NEW w \in Worker, TopPhase(w), UNCHANGED <<TermNum, Df>>,
           AnswerTerm(w) \/ AnswerJunk(w) \/ AnswerEnds(w)
    PROVE  TopPhase(w)'
  <1>1. pc[w] = "answer" /\ UNCHANGED hot_term_buf /\ pc'[w] \in {"answer", "undefined", "idle"}
    BY DEF AnswerTerm, AnswerJunk, AnswerEnds, Goto, HeapInv, TypeOK
  <1>2. Answering(w)'
    BY <1>1 DEF TopPhase, Answering, Selection, Distinct, NoneBetter
  <1>3. Filling(w)' /\ Replacing(w)' /\ Repairing(w)'
    BY <1>1 DEF Filling, Replacing, Repairing, Heaping
  <1> QED
    BY <1>2, <1>3 DEF TopPhase

-----------------------------------------------------------------------------
\* A thread in a call takes a step: the others are alone no more than before.
LEMMA StepTop ==
    ASSUME TopInv, NEW w \in Worker, Step(w)
    PROVE  /\ alone' = alone /\ pc[w] # "idle"
           /\ \A v \in Worker \ {w} : pc'[v] = pc[v]
           /\ alone[w] => TopPhase(w)'
  <1>1. alone' = alone /\ pc[w] # "idle"
    BY DEF Step, SkipTerm, TakeTerm, StoreSortInt, StoreAppendix, LoadLeft, CompareLeft,
           LoadRight, CompareRight, LoadMin, LoadNode, StoreMin, StoreNode, HeapifyReturns,
           StartAnswer, AnswerTerm, AnswerJunk, AnswerEnds
  <1>2. Good(w)
    BY SkipTermGood, TakeTermGood, StoreSortIntGood, StoreAppendixGood, LoadLeftGood,
       CompareLeftGood, LoadRightGood, CompareRightGood, LoadMinGood, LoadNodeGood,
       StoreMinGood, StoreNodeGood, HeapifyReturnsGood, StartAnswerGood, AnswerTermGood,
       AnswerJunkGood, AnswerEndsGood
    DEF Step, TopInv, terms
  <1>3. alone[w] => TopPhase(w)'
    BY SkipTermTop, TakeTermTop, StoreSortIntTop, StoreAppendixTop, LoadLeftTop,
       CompareLeftTop, LoadRightTop, CompareRightTop, LoadMinTop, LoadNodeTop,
       StoreMinTop, StoreNodeTop, HeapifyReturnsTop, StartAnswerTop, AnswerTop
    DEF Step, TopInv, terms
  <1> QED
    BY <1>1, <1>2, <1>3 DEF Good, Untouched

\* Every step keeps the invariant.  While a call is alone no other thread
\* moves; a thread that starts a call takes that from all others.
LEMMA NextTopInv == TopInv /\ [Next]_vars => TopInv'
  <1> SUFFICES ASSUME TopInv, [Next]_vars PROVE TopInv'
    OBVIOUS
  <1>1. HeapInv'
    BY NextInv DEF TopInv
  <1> SUFFICES ASSUME NEW u \in Worker, alone'[u]
               PROVE  (\A v \in Worker \ {u} : pc'[v] = "idle") /\ TopPhase(u)'
    BY <1>1 DEF TopInv
  <1>2. CASE UNCHANGED vars
    <2>1. UNCHANGED <<TermNum, Df, hot_term_buf, pc, i, root, node, min, tmp, reg, alone>>
      BY <1>2 DEF vars, terms, heap
    <2>2. TopPhase(u)
      BY <2>1 DEF TopInv
    <2>3. Filling(u)' /\ Replacing(u)' /\ Answering(u)'
      BY <2>1, <2>2 DEF TopPhase, Filling, Replacing, Answering, Cell, Selection, Distinct,
                        NoneBetter, IsHeap, Ordered
    <2>4. Repairing(u)'
      BY <2>1, <2>2 DEF TopPhase, Repairing, Selection, Distinct, NoneBetter, Sinking, Ordered,
                        Swapped, Least, Left, Right
    <2> QED
      BY <2>1, <2>3, <2>4 DEF TopInv, TopPhase
  <1>3. ASSUME NEW w \in Worker, Call(w)
        PROVE  (\A v \in Worker \ {u} : pc'[v] = "idle") /\ TopPhase(u)'
    <2>1. u = w /\ \A v \in Worker \ {w} : pc[v] = "idle" /\ pc'[v] = pc[v]
      BY <1>3 DEF Call, Goto, TopInv, HeapInv, TypeOK
    <2>2. TopPhase(w)'
      BY <1>3, CallTop DEF TopInv, Call, terms
    <2> QED
      BY <2>1, <2>2
  <1>4. ASSUME NEW w \in Worker, Step(w)
        PROVE  (\A v \in Worker \ {u} : pc'[v] = "idle") /\ TopPhase(u)'
    <2>1. /\ alone' = alone /\ pc[w] # "idle"
          /\ \A v \in Worker \ {w} : pc'[v] = pc[v]
          /\ alone[w] => TopPhase(w)'
      BY <1>4, StepTop
    <2>2. u = w
      BY <2>1 DEF TopInv
    <2> QED
      BY <2>1, <2>2 DEF TopInv
  <1> QED
    BY <1>2, <1>3, <1>4 DEF Next

\* A call of GetHotTerm that no other call overlaps answers with the HotSize
\* most frequent terms, for any number of terms and any frequencies:
\* build_min_heap and heapify_r keep the least of the selected at the root.
THEOREM SelectsTopTerms == Spec => []TopTerms
  <1>1. Init => TopInv
    BY InitInv DEF Init, TopInv
  <1>2. TopInv => TopTerms
    <2> SUFFICES ASSUME TopInv, NEW w \in Worker, pc[w] = "answer", alone[w], HotSize <= TermNum
                 PROVE  LET selected == {hot_term_buf[k].appendix : k \in Cells}
                        IN  /\ \A k \in Cells :
                                  hot_term_buf[k].sort_int = Df[hot_term_buf[k].appendix]
                            /\ Cardinality(selected) = HotSize
                            /\ \A s \in selected, t \in (0 .. TermNum - 1) \ selected :
                                  Df[t] <= Df[s]
      BY DEF TopTerms
    <2>1. Selection(hot_term_buf, TermNum) /\ hot_term_buf \in [Cells -> Item]
      BY DEF TopInv, TopPhase, Answering, HeapInv, TypeOK
    <2> QED
      BY <2>1, SelectionIsTop
  <1> QED
    BY <1>1, <1>2, NextTopInv, PTL DEF Spec

-----------------------------------------------------------------------------
(* Every call comes to its end.  heapify_r goes down only: the node it      *)
(* swaps with is greater than the one it is at, whatever it read there.    *)

Deeper(w) ==
    /\ pc[w] \in Heaping => min[w] >= node[w]
    /\ pc[w] \in {"load_node", "store_min", "store_node"} => min[w] > node[w]

DeepInv == HeapInv /\ \A w \in Worker : Deeper(w)

RootLeft(w) == IF pc[w] \in Heaping THEN root[w] ELSE HotSize

\* What is left of a call is in numbers, and the first that changes falls.
Falls(w) ==
    \/ RoundsLeft(w)' < RoundsLeft(w)
    \/ RoundsLeft(w)' = RoundsLeft(w) /\ RootLeft(w)' < RootLeft(w)
    \/ /\ RoundsLeft(w)' = RoundsLeft(w) /\ RootLeft(w)' = RootLeft(w)
       /\ \/ node'[w] > node[w]
          \/ node'[w] = node[w] /\ StepsLeft[pc'[w]] < StepsLeft[pc[w]]

\* The steps left at a node.
LEMMA StepNumbers ==
    /\ StepsLeft["loop"] = 10 /\ StepsLeft["sort_int"] = 9 /\ StepsLeft["appendix"] = 8
    /\ StepsLeft["left"] = 7 /\ StepsLeft["compare_left"] = 6 /\ StepsLeft["right"] = 5
    /\ StepsLeft["compare_right"] = 4 /\ StepsLeft["swap"] = 3 /\ StepsLeft["load_node"] = 2
    /\ StepsLeft["store_min"] = 1 /\ StepsLeft["store_node"] = 0
    /\ \A label \in Labels : StepsLeft[label] \in Nat
  BY DEF StepsLeft, Labels, Heaping

\* What is left of a call is four natural numbers.
LEMMA WorkNat ==
    ASSUME NEW p \in Labels, NEW n \in Int, NEW r \in Cells, NEW d \in Cells, NEW t \in Nat,
           p = "answer" => n >= -1, p \in {"loop", "sort_int", "appendix"} \cup Heaping => n <= t
    PROVE  /\ (IF p \in {"idle", "undefined"} THEN 0
               ELSE IF p = "answer" THEN n + 2 ELSE HotSize + 2 + (t - n)) \in Nat
           /\ (IF p \in Heaping THEN r ELSE HotSize) \in Nat /\ HotSize - d \in Nat
  <1>1. HotSize \in Nat /\ r \in Nat /\ d \in Nat /\ d <= HotSize
    BY HotSizeAssumption DEF Cells
  <1>2. p \in {"idle", "undefined", "answer", "loop", "sort_int", "appendix"} \cup Heaping
    BY DEF Labels
  <1>3. CASE p \in {"idle", "undefined"}
    BY <1>1, <1>3 DEF Heaping
  <1>4. CASE p = "answer"
    BY <1>1, <1>4 DEF Heaping
  <1>5. CASE p \in {"loop", "sort_int", "appendix"} \cup Heaping
    <2>1. p \notin {"idle", "undefined"} /\ p # "answer"
      BY <1>5 DEF Heaping
    <2>2. n <= t /\ HotSize + 2 + (t - n) \in Nat
      BY <1>1, <1>5
    <2> QED
      BY <1>1, <2>1, <2>2
  <1> QED
    BY <1>2, <1>3, <1>4, <1>5

\* Numbers that fall are lower in the lexical order.
LEMMA LowerTuples ==
    ASSUME NEW a1 \in Nat, NEW a2 \in Nat, NEW a3 \in Nat, NEW a4 \in Nat,
           NEW b1 \in Nat, NEW b2 \in Nat, NEW b3 \in Nat, NEW b4 \in Nat,
           \/ a1 < b1
           \/ a1 = b1 /\ a2 < b2
           \/ a1 = b1 /\ a2 = b2 /\ (a3 < b3 \/ (a3 = b3 /\ a4 < b4))
    PROVE  Lower(<<a1, a2, a3, a4>>, <<b1, b2, b3, b4>>)
  <1> DEFINE a == <<a1, a2, a3, a4>>
             b == <<b1, b2, b3, b4>>
  <1>1. /\ a[1] = a1 /\ a[2] = a2 /\ a[3] = a3 /\ a[4] = a4
        /\ b[1] = b1 /\ b[2] = b2 /\ b[3] = b3 /\ b[4] = b4
    OBVIOUS
  <1> HIDE DEF a, b
  <1>2. \A k \in 1 .. 4 : a[k] \in Nat
    <2>1. \A k \in 1 .. 4 : k = 1 \/ k = 2 \/ k = 3 \/ k = 4
      OBVIOUS
    <2> QED
      BY <1>1, <2>1
  <1>3. /\ \A j \in 1 .. 1 - 1 : FALSE
        /\ \A j \in 1 .. 2 - 1 : j = 1
        /\ \A j \in 1 .. 3 - 1 : j = 1 \/ j = 2
        /\ \A j \in 1 .. 4 - 1 : j = 1 \/ j = 2 \/ j = 3
        /\ 1 \in 1 .. 4 /\ 2 \in 1 .. 4 /\ 3 \in 1 .. 4 /\ 4 \in 1 .. 4
    OBVIOUS
  <1>4. \E k \in 1 .. 4 : a[k] < b[k] /\ \A j \in 1 .. k - 1 : a[j] = b[j]
    <2>1. CASE a1 < b1
      BY <1>1, <1>3, <2>1
    <2>2. CASE a1 = b1 /\ a2 < b2
      BY <1>1, <1>3, <2>2
    <2>3. CASE a1 = b1 /\ a2 = b2 /\ a3 < b3
      BY <1>1, <1>3, <2>3
    <2>4. CASE a1 = b1 /\ a2 = b2 /\ a3 = b3 /\ a4 < b4
      BY <1>1, <1>3, <2>4
    <2> QED
      BY <2>1, <2>2, <2>3, <2>4
  <1> QED
    BY <1>2, <1>4 DEF Lower, a, b

\* A step at a node, which only moves on to the next.
LEMMA NextAtNode ==
    ASSUME HeapInv, NEW w \in Worker, UNCHANGED TermNum, i'[w] = i[w], root'[w] = root[w], node'[w] = node[w],
           StepsLeft[pc'[w]] < StepsLeft[pc[w]],
           \/ pc[w] \in Heaping /\ pc'[w] \in Heaping
           \/ pc[w] \in {"loop", "sort_int"} /\ pc'[w] \in {"sort_int", "appendix"}
    PROVE  Falls(w)
  <1>1. RoundsLeft(w)' = RoundsLeft(w)
    BY DEF RoundsLeft, Heaping
  <1>2. RootLeft(w)' = RootLeft(w)
    BY DEF RootLeft, Heaping
  <1> QED
    BY <1>1, <1>2 DEF Falls

\* The thread that moves: what is left of its call falls, and its node stays
\* above the one it will swap with.
LEMMA StepFalls ==
    ASSUME DeepInv, NEW w \in Worker, Step(w)
    PROVE  Falls(w) /\ Deeper(w)'
  <1>0. /\ UNCHANGED TermNum /\ TermNum \in Nat /\ HotSize \in Nat \ {0} /\ i[w] \in Int
        /\ root[w] \in Cells /\ node[w] \in Cells /\ min[w] \in Cells /\ Phase(w) /\ Deeper(w)
        /\ Worker = DOMAIN pc /\ Worker = DOMAIN i /\ Worker = DOMAIN root
        /\ Worker = DOMAIN node /\ Worker = DOMAIN min
    BY HotSizeAssumption DEF Step, terms, DeepInv, HeapInv, TypeOK
  <1>c. root[w] \in Nat /\ node[w] \in Nat /\ min[w] \in Nat /\ root[w] < HotSize
    BY <1>0 DEF Cells
  <1>h. HeapInv
    BY DEF DeepInv
  <1>1. CASE SkipTerm(w)
    <2>1. pc[w] = "loop" /\ pc'[w] = "loop" /\ i'[w] = i[w] + 1
      BY <1>0, <1>1 DEF SkipTerm
    <2> QED
      BY <1>0, <2>1 DEF Falls, RoundsLeft, Deeper, Heaping
  <1>2. CASE TakeTerm(w)
    <2>1. pc[w] = "loop" /\ pc'[w] = "sort_int" /\ i'[w] = i[w] /\ root'[w] = root[w] /\ node'[w] = node[w]
      BY <1>0, <1>2 DEF TakeTerm, Goto, heap
    <2>2. Falls(w)
      BY <1>0, <1>h, <2>1, StepNumbers, NextAtNode
    <2> QED
      BY <2>1, <2>2 DEF Deeper, Heaping
  <1>3. CASE StoreSortInt(w)
    <2>1. pc[w] = "sort_int" /\ pc'[w] = "appendix" /\ i'[w] = i[w] /\ root'[w] = root[w] /\ node'[w] = node[w]
      BY <1>0, <1>3 DEF StoreSortInt, Goto, heap
    <2>2. Falls(w)
      BY <1>0, <1>h, <2>1, StepNumbers, NextAtNode
    <2> QED
      BY <2>1, <2>2 DEF Deeper, Heaping
  <1>4. CASE StoreAppendix(w)
    <2>1. CASE i[w] < HotSize - 1
      <3>1. pc[w] = "appendix" /\ pc'[w] = "loop" /\ i'[w] = i[w] + 1
        BY <1>0, <1>4, <2>1 DEF StoreAppendix, AfterStore, Goto
      <3> QED
        BY <1>0, <3>1 DEF Falls, RoundsLeft, Deeper, Heaping
    <2>2. CASE ~(i[w] < HotSize - 1)
      <3> DEFINE first == IF i[w] = HotSize - 1 THEN (HotSize - 1) \div 2 ELSE 0
      <3>1. /\ pc[w] = "appendix" /\ pc'[w] = "left" /\ i'[w] = i[w]
            /\ root'[w] = first /\ node'[w] = first /\ min'[w] = first
        BY <1>0, <1>4, <2>2 DEF StoreAppendix, AfterStore, Heapify, Goto
      <3>2. first \in Nat /\ first < HotSize
        BY <1>0, CellFacts DEF Cells
      <3> HIDE DEF first
      <3>3. RoundsLeft(w)' = RoundsLeft(w)
        BY <1>0, <3>1 DEF RoundsLeft
      <3>4. RootLeft(w)' < RootLeft(w)
        BY <3>1, <3>2 DEF RootLeft, Heaping
      <3>5. Deeper(w)'
        BY <3>1, <3>2 DEF Deeper
      <3> QED
        BY <3>3, <3>4, <3>5 DEF Falls
    <2> QED
      BY <2>1, <2>2
  <1>5. CASE LoadLeft(w) \/ CompareLeft(w) \/ LoadRight(w) \/ CompareRight(w)
    <2>1. /\ i'[w] = i[w] /\ root'[w] = root[w] /\ node'[w] = node[w]
          /\ pc[w] \in {"left", "compare_left", "right", "compare_right"}
          /\ pc'[w] \in {"compare_left", "right", "compare_right", "swap"}
          /\ pc[w] = "left" => pc'[w] \in {"compare_left", "right"}
          /\ pc[w] = "compare_left" => pc'[w] = "right"
          /\ pc[w] = "right" => pc'[w] \in {"compare_right", "swap"}
          /\ pc[w] = "compare_right" => pc'[w] = "swap"
      BY <1>0, <1>5 DEF LoadLeft, CompareLeft, LoadRight, CompareRight, Goto
    <2>2. StepsLeft[pc'[w]] < StepsLeft[pc[w]] /\ pc[w] \in Heaping /\ pc'[w] \in Heaping
      BY <2>1, StepNumbers DEF Heaping
    <2>3. Falls(w)
      BY <1>0, <1>h, <2>1, <2>2, NextAtNode
    <2>4. min'[w] \in {min[w], Left(w), Right(w)}
      BY <1>0, <1>5 DEF LoadLeft, CompareLeft, LoadRight, CompareRight, Compare
    <2>5. min'[w] >= node[w]
      BY <1>0, <1>c, <2>2, <2>4 DEF Deeper, Left, Right
    <2> QED
      BY <2>1, <2>2, <2>3, <2>5 DEF Deeper
  <1>6. CASE LoadMin(w) \/ LoadNode(w) \/ StoreMin(w)
    <2>1. /\ i'[w] = i[w] /\ root'[w] = root[w] /\ node'[w] = node[w] /\ min'[w] = min[w]
          /\ pc[w] \in {"swap", "load_node", "store_min"}
          /\ pc'[w] \in {"load_node", "store_min", "store_node"}
          /\ pc[w] = "swap" => pc'[w] = "load_node" /\ min[w] # node[w]
          /\ pc[w] = "load_node" => pc'[w] = "store_min"
          /\ pc[w] = "store_min" => pc'[w] = "store_node"
      BY <1>0, <1>6 DEF LoadMin, LoadNode, StoreMin, Goto
    <2>2. StepsLeft[pc'[w]] < StepsLeft[pc[w]] /\ pc[w] \in Heaping /\ pc'[w] \in Heaping
      BY <2>1, StepNumbers DEF Heaping
    <2>3. Falls(w)
      BY <1>0, <1>h, <2>1, <2>2, NextAtNode
    <2>4. min[w] > node[w]
      BY <1>0, <1>c, <2>1, <2>2 DEF Deeper
    <2> QED
      BY <1>c, <2>1, <2>2, <2>3, <2>4 DEF Deeper
  <1>7. CASE StoreNode(w)
    <2>1. /\ pc[w] = "store_node" /\ pc'[w] = "left" /\ i'[w] = i[w] /\ root'[w] = root[w]
          /\ node'[w] = min[w] /\ min'[w] = min[w]
      BY <1>0, <1>7 DEF StoreNode, Heapify, Goto
    <2>2. min[w] > node[w]
      BY <1>0, <2>1 DEF Deeper
    <2>3. RoundsLeft(w)' = RoundsLeft(w) /\ RootLeft(w)' = RootLeft(w)
      BY <1>0, <2>1 DEF RoundsLeft, RootLeft, Heaping
    <2>4. Deeper(w)'
      BY <1>c, <2>1 DEF Deeper
    <2> QED
      BY <2>1, <2>2, <2>3, <2>4 DEF Falls
  <1>8. CASE HeapifyReturns(w)
    <2>1. CASE root[w] > 0
      <3>1. /\ pc[w] = "swap" /\ pc'[w] = "left" /\ i'[w] = i[w]
            /\ root'[w] = root[w] - 1 /\ node'[w] = root[w] - 1 /\ min'[w] = root[w] - 1
        BY <1>0, <1>8, <2>1 DEF HeapifyReturns, Heapify, Goto
      <3>2. RoundsLeft(w)' = RoundsLeft(w)
        BY <1>0, <3>1 DEF RoundsLeft
      <3>3. RootLeft(w)' < RootLeft(w)
        BY <1>c, <3>1 DEF RootLeft, Heaping
      <3>4. Deeper(w)'
        BY <1>c, <3>1 DEF Deeper
      <3> QED
        BY <3>2, <3>3, <3>4 DEF Falls
    <2>2. CASE ~(root[w] > 0)
      <3>1. pc[w] = "swap" /\ pc'[w] = "loop" /\ i'[w] = i[w] + 1
        BY <1>0, <1>8, <2>2 DEF HeapifyReturns, Goto
      <3> QED
        BY <1>0, <3>1 DEF Falls, RoundsLeft, Deeper, Heaping
    <2> QED
      BY <2>1, <2>2
  <1>9. CASE StartAnswer(w)
    <2>1. pc[w] = "loop" /\ pc'[w] = "answer" /\ i'[w] = HotSize - 1
      BY <1>0, <1>9 DEF StartAnswer, Goto
    <2>2. i[w] <= TermNum
      <3>1. i[w] \in 0 .. TermNum
        BY <1>0, <2>1 DEF Phase
      <3> QED
        BY <1>0, <3>1
    <2> QED
      BY <1>0, <2>1, <2>2 DEF Falls, RoundsLeft, Deeper, Heaping
  <1>10. CASE AnswerTerm(w) \/ AnswerJunk(w) \/ AnswerEnds(w)
    <2>1. /\ pc[w] = "answer"
          /\ (pc'[w] = "answer" /\ i'[w] = i[w] - 1) \/ pc'[w] \in {"idle", "undefined"}
      BY <1>0, <1>10 DEF AnswerTerm, AnswerJunk, AnswerEnds, Goto
    <2>2. i[w] >= -1
      <3>1. i[w] \in -1 .. HotSize - 1
        BY <1>0, <2>1 DEF Phase
      <3> QED
        BY <1>0, <3>1
    <2> QED
      BY <1>0, <2>1, <2>2 DEF Falls, RoundsLeft, Deeper, Heaping
  <1> QED
    BY <1>1, <1>2, <1>3, <1>4, <1>5, <1>6, <1>7, <1>8, <1>9, <1>10 DEF Step

\* The others keep their variables.
LEMMA OthersKeep ==
    ASSUME HeapInv, NEW w \in Worker, Call(w) \/ Step(w), NEW v \in Worker \ {w}
    PROVE  Locals(v)' = Locals(v)
  <1>1. /\ \A f \in {pc, i, root, node, min, tmp, reg} : DOMAIN f = Worker
    BY DEF HeapInv, TypeOK
  <1>2. CASE Call(w)
    BY <1>1, <1>2 DEF Call, Goto, heap, Locals
  <1>3. CASE SkipTerm(w) \/ TakeTerm(w) \/ StoreSortInt(w) \/ StartAnswer(w) \/ AnswerTerm(w) \/ AnswerJunk(w)
             \/ AnswerEnds(w)
    BY <1>1, <1>3 DEF SkipTerm, TakeTerm, StoreSortInt, StartAnswer, AnswerTerm, AnswerJunk, AnswerEnds, Goto,
                      heap, Locals
  <1>4. CASE StoreAppendix(w)
    BY <1>1, <1>4 DEF StoreAppendix, AfterStore, Heapify, Goto, Locals
  <1>5. CASE LoadLeft(w) \/ CompareLeft(w) \/ LoadRight(w) \/ CompareRight(w)
    BY <1>1, <1>5 DEF LoadLeft, CompareLeft, LoadRight, CompareRight, Compare, Load, Goto, Locals
  <1>6. CASE LoadMin(w) \/ LoadNode(w) \/ StoreMin(w) \/ StoreNode(w)
    BY <1>1, <1>6 DEF LoadMin, LoadNode, StoreMin, StoreNode, Load, Heapify, Goto, Locals
  <1>7. CASE HeapifyReturns(w)
    BY <1>1, <1>7 DEF HeapifyReturns, Heapify, Goto, Locals
  <1> QED
    BY <1>2, <1>3, <1>4, <1>5, <1>6, <1>7 DEF Step

\* Every step keeps the invariant.
LEMMA NextDeepInv == DeepInv /\ [Next]_vars => DeepInv'
  <1> SUFFICES ASSUME DeepInv, [Next]_vars PROVE DeepInv'
    OBVIOUS
  <1>1. HeapInv'
    BY NextInv DEF DeepInv
  <1> SUFFICES ASSUME NEW v \in Worker PROVE Deeper(v)'
    BY <1>1 DEF DeepInv
  <1>2. ASSUME Locals(v)' = Locals(v) PROVE Deeper(v)'
    BY <1>2 DEF Locals, DeepInv, Deeper
  <1>3. CASE UNCHANGED vars
    BY <1>2, <1>3 DEF vars, heap, Locals
  <1>4. ASSUME NEW w \in Worker, Call(w) \/ Step(w) PROVE Deeper(v)'
    <2>1. CASE v # w
      BY <1>2, <1>4, <2>1, OthersKeep DEF DeepInv
    <2>2. CASE v = w /\ Call(w)
      BY <2>2 DEF Call, Goto, DeepInv, HeapInv, TypeOK, Deeper, Heaping
    <2>3. CASE v = w /\ Step(w)
      BY <2>3, StepFalls
    <2> QED
      BY <1>4, <2>1, <2>2, <2>3
  <1> QED
    BY <1>3, <1>4 DEF Next

\* What falls is lower.
LEMMA FallsIsLower ==
    ASSUME HeapInv, HeapInv', NEW w \in Worker, Falls(w)
    PROVE  Lower(Work(w)', Work(w))
  <1>1. /\ pc[w] \in Labels /\ i[w] \in Int /\ root[w] \in Cells /\ node[w] \in Cells /\ TermNum \in Nat
        /\ pc'[w] \in Labels /\ i'[w] \in Int /\ root'[w] \in Cells /\ node'[w] \in Cells /\ TermNum' \in Nat
    BY DEF HeapInv, TypeOK
  <1>2. /\ pc[w] = "answer" => i[w] >= -1
        /\ pc[w] \in {"loop", "sort_int", "appendix"} \cup Heaping => i[w] <= TermNum
    <2>1. Phase(w)
      BY DEF HeapInv
    <2> QED
      BY <1>1, <2>1, HotSizeAssumption DEF Phase
  <1>3. /\ pc'[w] = "answer" => i'[w] >= -1
        /\ pc'[w] \in {"loop", "sort_int", "appendix"} \cup Heaping => i'[w] <= TermNum'
    <2>1. Phase(w)'
      BY DEF HeapInv
    <2> QED
      BY <1>1, <2>1, HotSizeAssumption DEF Phase
  <1>4. RoundsLeft(w) \in Nat /\ RootLeft(w) \in Nat /\ HotSize - node[w] \in Nat /\ StepsLeft[pc[w]] \in Nat
    BY <1>1, <1>2, WorkNat, StepNumbers DEF RoundsLeft, RootLeft
  <1>5. /\ RoundsLeft(w)' \in Nat /\ RootLeft(w)' \in Nat
        /\ HotSize - node'[w] \in Nat /\ StepsLeft[pc'[w]] \in Nat
    BY <1>1, <1>3, WorkNat, StepNumbers DEF RoundsLeft, RootLeft
  <1>6. /\ Work(w) = <<RoundsLeft(w), RootLeft(w), HotSize - node[w], StepsLeft[pc[w]]>>
        /\ Work(w)' = <<RoundsLeft(w)', RootLeft(w)', HotSize - node'[w], StepsLeft[pc'[w]]>>
    BY DEF Work, RootLeft
  <1>7. /\ node'[w] > node[w] => HotSize - node'[w] < HotSize - node[w]
        /\ node'[w] = node[w] => HotSize - node'[w] = HotSize - node[w]
    BY <1>1, HotSizeAssumption DEF Cells
  <1>8. PICK a1, a2, a3, a4 \in Nat : /\ a1 = RoundsLeft(w)' /\ a2 = RootLeft(w)'
                                     /\ a3 = HotSize - node'[w] /\ a4 = StepsLeft[pc'[w]]
    BY <1>5
  <1>9. PICK b1, b2, b3, b4 \in Nat : /\ b1 = RoundsLeft(w) /\ b2 = RootLeft(w)
                                     /\ b3 = HotSize - node[w] /\ b4 = StepsLeft[pc[w]]
    BY <1>4
  <1>10. \/ a1 < b1
         \/ a1 = b1 /\ a2 < b2
         \/ a1 = b1 /\ a2 = b2 /\ (a3 < b3 \/ (a3 = b3 /\ a4 < b4))
    BY <1>7, <1>8, <1>9 DEF Falls
  <1>11. Lower(<<a1, a2, a3, a4>>, <<b1, b2, b3, b4>>)
    BY <1>10, LowerTuples
  <1>12. Work(w)' = <<a1, a2, a3, a4>> /\ Work(w) = <<b1, b2, b3, b4>>
    BY <1>6, <1>8, <1>9
  <1> QED
    BY <1>11, <1>12

\* For every number of threads, terms and entries and every interleaving, a
\* call of GetHotTerm takes a bounded number of steps of its thread: its own
\* lower what is left of it, those of others leave it.  A thread that is given
\* the processor therefore answers (commonworker.cpp:36-63, 274-323).
THEOREM CallsAreBounded == Spec => CallsProgress
  <1> DEFINE A == \A w \in Worker : pc[w] # "idle" => Locals(w)' = Locals(w) \/ Lower(Work(w)', Work(w))
  <1>1. Init => DeepInv
    BY InitInv DEF Init, DeepInv, Deeper, Heaping
  <1>2. DeepInv /\ [Next]_vars => [A]_vars
    <2> SUFFICES ASSUME DeepInv, Next, NEW v \in Worker, pc[v] # "idle"
                 PROVE  Locals(v)' = Locals(v) \/ Lower(Work(v)', Work(v))
      OBVIOUS
    <2>1. HeapInv /\ HeapInv'
      BY NextInv DEF DeepInv
    <2>2. PICK w \in Worker : Call(w) \/ Step(w)
      BY DEF Next
    <2>3. CASE v # w
      BY <2>1, <2>2, <2>3, OthersKeep
    <2>4. CASE v = w
      <3>1. Step(v)
        BY <2>2, <2>4 DEF Call
      <3> QED
        BY <2>1, <3>1, StepFalls, FallsIsLower
    <2> QED
      BY <2>3, <2>4
  <1> QED
    BY <1>1, <1>2, NextDeepInv, PTL DEF Spec, CallsProgress
=============================================================================
