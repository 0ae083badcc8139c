----------------------------- MODULE CoocIndex -----------------------------
(***************************************************************************)
(* The co-occurrence index that MakeNetIndex builds from one day of        *)
(* segmented weibos (MakeNetIndex/src/TermsProcessor.cpp), saves with      *)
(* DumpIndex and, on a later day, loads back as history with LoadIndex     *)
(* (MakeNetIndex/src/WordNetIndexor.cpp).                                  *)
(*                                                                         *)
(* A term is its hashlittle value: every map of the program is keyed by    *)
(* it, and two strings with one hash are one term to the program.  Vectors *)
(* are sequences, so index n of the code is position n + 1 here.           *)
(***************************************************************************)
EXTENDS Integers, Sequences, FiniteSets

CONSTANTS
    Hash,       \* the u_int hash values that occur in the input
    Lines,      \* the lines the input file may hold: sequences of hashes
    K,          \* FiltIndex's argument (main passes 100)
    MaxLines,   \* bound: lines read by one run of the program
    MaxRuns     \* bound: runs of the program

ASSUME HashAssumption  == Hash \subseteq Nat /\ IsFiniteSet(Hash)
ASSUME LinesAssumption == Lines \subseteq Seq(Hash)
ASSUME KAssumption     == K \in Nat \ {0}
ASSUME BoundAssumption == MaxLines \in Nat /\ MaxRuns \in Nat

VARIABLES
    pc,                \* where main stands
    line,              \* ParseLineTerms: terms of the line not yet looked at
    hmInWeibo,         \* the hashes met in this line
    hash_values,       \* the same hashes in order of appearance
    i, j,              \* the loop counters of AddCooc
    mTermIndex,        \* hash -> index into mTermInfo
    mTermInfo,         \* per term: frequencies and cooc_term (hash -> slot)
    mRelateInfo,       \* the slots: how often the two terms met
    mRelateIndexSlot,  \* slots given back by SortIndex and FiltIndex
    mNoMemory,         \* an allocation has failed in this run
    m_total_info,      \* the four totals
    output,            \* the index files under output/
    data,              \* the index files under data/index/
    runs,              \* runs started (bounded by MaxRuns)
    weibos             \* history variable: the lines counted in this run

memory == <<mTermIndex, mTermInfo, mRelateInfo, mRelateIndexSlot, mNoMemory,
            m_total_info>>
locals == <<line, hmInWeibo, hash_values, i, j>>
files  == <<output, data>>
vars   == <<pc, locals, memory, files, runs, weibos>>

-----------------------------------------------------------------------------
(* Vectors, maps and the order in which the hash maps are walked.          *)

At(v, n) == v[n + 1]

\* A hash_map<u_int,u_int> gives every hash its value, or End where find()
\* returns end().
End == -1
EmptyMap == [h \in Hash |-> End]
Keys(map) == {h \in Hash : map[h] # End}

\* A relation is a pair <<n, h>>: h is a key of cooc_term of the n-th term.
Relations(terms) ==
    {r \in (0 .. Len(terms) - 1) \X Hash : At(terms, r[1]).cooc_term[r[2]] # End}

Slot(terms, r) == At(terms, r[1]).cooc_term[r[2]]

\* The loops over mTermInfo and, inside, over cooc_term.  The order of a
\* hash_map is arbitrary but fixed while it is walked: increasing hash.
Precedes(r, s) == r[1] < s[1] \/ (r[1] = s[1] /\ r[2] < s[2])

Rank(R, r) == Cardinality({s \in R : Precedes(s, r)})

InOrder(R) == [n \in 1 .. Cardinality(R) |-> CHOOSE r \in R : Rank(R, r) = n - 1]

-----------------------------------------------------------------------------
NewRelation_Zero == [num_history |-> 0, num_now |-> 0]
NewRelation == [num_history |-> 0, num_now |-> 1]

NewTerm == [df_history |-> 0, df_now |-> 1, relate_term_num |-> 0,
            cooc_term |-> EmptyMap]

NoTotals == [term_num |-> 0, relate_term_num |-> 0,
             sorted_relate_term_num |-> 0, weibo_num |-> 0]

NoIndex == [found |-> FALSE]

\* Counters are u_int.  No bound of a run comes near 2^32.
Weight(rel) == rel.num_history + rel.num_now

\* SortIndex and FiltIndex erase keys of cooc_term and recount the rest.
Without_NoRecount(term, gone) ==
    [term EXCEPT !.cooc_term = [h \in Hash |-> IF h \in gone THEN End ELSE @[h]]]
Without(term, gone) ==
    [term EXCEPT !.cooc_term = [h \in Hash |-> IF h \in gone THEN End ELSE @[h]],
                 !.relate_term_num = Cardinality(Keys(term.cooc_term) \ gone)]

SlotsOf(terms, R) == [n \in 1 .. Cardinality(R) |-> Slot(terms, InOrder(R)[n])]

-----------------------------------------------------------------------------
(* The life of the process.                                                *)

Init ==
    /\ pc = "idle"
    /\ line = << >> /\ hmInWeibo = {} /\ hash_values = << >> /\ i = 0 /\ j = 0
    /\ mTermIndex = EmptyMap /\ mTermInfo = << >>
    /\ mRelateInfo = << >> /\ mRelateIndexSlot = << >>
    /\ mNoMemory = FALSE
    /\ m_total_info = NoTotals
    /\ output = NoIndex /\ data = NoIndex
    /\ runs = 0
    /\ weibos = << >>

\* main returns, or the process dies: everything in memory is gone.
Exit ==
    /\ pc' = "idle"
    /\ line' = << >> /\ hmInWeibo' = {} /\ hash_values' = << >> /\ i' = 0 /\ j' = 0
    /\ mTermIndex' = EmptyMap /\ mTermInfo' = << >>
    /\ mRelateInfo' = << >> /\ mRelateIndexSlot' = << >>
    /\ mNoMemory' = FALSE
    /\ m_total_info' = NoTotals
    /\ weibos' = << >>
    /\ UNCHANGED runs

\* main starts: WBProcessorInit resets the totals of an empty processor.
WBProcessorInit ==
    /\ pc = "idle"
    /\ runs < MaxRuns
    /\ pc' = "load"
    /\ runs' = runs + 1
    /\ UNCHANGED <<memory, locals, files, weibos>>

\* The index files are never closed: what stdio still buffers is lost by a
\* kill, and at exit by a full disk (module IndexFiles).
Flushed == data' = data /\ output' \in {output, NoIndex}

\* kill, abort, or an exception nobody catches (bad_alloc in RecordTerm).
Crash ==
    /\ pc # "idle"
    /\ Exit
    /\ IF pc = "text" THEN Flushed ELSE UNCHANGED files

-----------------------------------------------------------------------------
(* LoadTermsToIndex: the history, if the configuration asks for it.        *)

\* What LoadIndex checks while it reads: no index beyond the totals.
Accepts(image) ==
    /\ \A h \in Keys(image.TermIndex) : image.TermIndex[h] < image.total.term_num
    /\ \A r \in Relations(image.TermInfo) :
           Slot(image.TermInfo, r) < image.total.sorted_relate_term_num

\* "merge history info and now info, different from server"
MergeTerm_Lost(term) == [term EXCEPT !.df_now = 0]
MergeTerm(term) == [term EXCEPT !.df_history = @ + term.df_now, !.df_now = 0]
MergeRelation_Lost(rel) == [rel EXCEPT !.num_now = 0]
MergeRelation(rel) == [num_history |-> Weight(rel), num_now |-> 0]

\* "a patch. sorted_relate_term_num and relate_term_num should be one"
Patched_Not(total) == total
Patched(total) == [total EXCEPT !.relate_term_num = total.sorted_relate_term_num]

LoadIndex ==
    /\ pc = "load"
    /\ data.found
    /\ Accepts(data)
    /\ mTermIndex' = data.TermIndex
    /\ mTermInfo' = [n \in 1 .. Len(data.TermInfo) |-> MergeTerm(data.TermInfo[n])]
    /\ mRelateInfo' = [n \in 1 .. Len(data.RelateInfo) |-> MergeRelation(data.RelateInfo[n])]
    /\ m_total_info' = Patched(data.total)
    /\ pc' = "lines"
    /\ UNCHANGED <<mRelateIndexSlot, mNoMemory, locals, files, runs, weibos>>

LoadIndexFails ==
    /\ pc = "load"
    /\ data.found => ~Accepts(data)
    /\ Exit
    /\ UNCHANGED files

\* load_history is not 1: the index starts empty.
NoHistory ==
    /\ pc = "load"
    /\ pc' = "lines"
    /\ UNCHANGED <<memory, locals, files, runs, weibos>>

-----------------------------------------------------------------------------
(* ProcessTerms and ParseLineTerms: one line at a time, one term at a time. *)

ReadLine ==
    /\ pc = "lines"
    /\ Len(weibos) < MaxLines
    /\ line' \in Lines
    /\ hmInWeibo' = {}
    /\ pc' = "terms"
    /\ UNCHANGED <<hash_values, i, j, memory, files, runs, weibos>>

RecordTerm(h) ==
    IF mTermIndex[h] # End
    THEN /\ mTermInfo' = [mTermInfo EXCEPT ![mTermIndex[h] + 1].df_now = @ + 1]
         /\ UNCHANGED <<mTermIndex, m_total_info>>
    ELSE /\ mTermIndex' = [mTermIndex EXCEPT ![h] = m_total_info.term_num]
         /\ mTermInfo' = Append(mTermInfo, NewTerm)
         /\ m_total_info' = [m_total_info EXCEPT !.term_num = @ + 1]

\* The first occurrence of a term in the line is recorded ...
FirstInLine ==
    /\ pc = "terms"
    /\ line # << >>
    /\ Head(line) \notin hmInWeibo
    /\ RecordTerm(Head(line))
    /\ hash_values' = Append(hash_values, Head(line))
    /\ hmInWeibo' = hmInWeibo \cup {Head(line)}
    /\ line' = Tail(line)
    /\ UNCHANGED <<pc, i, j, mRelateInfo, mRelateIndexSlot, mNoMemory, files, runs, weibos>>

\* ... and "term turned out twice in this weibo" is skipped.
TwiceInLine ==
    /\ pc = "terms"
    /\ line # << >>
    /\ Head(line) \in hmInWeibo
    /\ line' = Tail(line)
    /\ UNCHANGED <<pc, hmInWeibo, hash_values, i, j, memory, files, runs, weibos>>

EndOfTerms ==
    /\ pc = "terms"
    /\ line = << >>
    /\ pc' = "cooc"
    /\ UNCHANGED <<locals, memory, files, runs, weibos>>

\* ParseLineTerms ignores what AddCooc returns and counts the weibo.
EndLine_Uncounted(total) ==
    /\ pc' = "lines"
    /\ m_total_info' = total
    /\ weibos' = Append(weibos, hmInWeibo)
    /\ hash_values' = << >>
    /\ i' = 0
    /\ j' = 0
    /\ UNCHANGED <<line, hmInWeibo, files, runs>>
EndLine(total) ==
    /\ pc' = "lines"
    /\ m_total_info' = [total EXCEPT !.weibo_num = @ + 1]
    /\ weibos' = Append(weibos, hmInWeibo)
    /\ hash_values' = << >>
    /\ i' = 0
    /\ j' = 0
    /\ UNCHANGED <<line, hmInWeibo, files, runs>>

EndOfFile ==
    /\ pc = "lines"
    /\ pc' = "filt"
    /\ UNCHANGED <<locals, memory, files, runs, weibos>>

-----------------------------------------------------------------------------
(* AddCooc: one step for every ordered pair (i, j) of terms of the line.   *)

Here  == mTermIndex[At(hash_values, i)]     \* term_index
Other == At(hash_values, j)                 \* hash_values[j]

AtPair_Self == pc = "cooc" /\ i < Len(hash_values)
AtPair == pc = "cooc" /\ i < Len(hash_values) /\ i # j

NextPair_TooFar ==
    /\ IF j < Len(hash_values) THEN j' = j + 1 /\ i' = i
                               ELSE j' = 0 /\ i' = i + 1
    /\ UNCHANGED <<pc, line, hmInWeibo, hash_values, files, runs, weibos>>
NextPair ==
    /\ IF j + 1 < Len(hash_values) THEN j' = j + 1 /\ i' = i
                                   ELSE j' = 0 /\ i' = i + 1
    /\ UNCHANGED <<pc, line, hmInWeibo, hash_values, files, runs, weibos>>

\* "do not co-oc with itself"
SkipSelf ==
    /\ pc = "cooc"
    /\ i < Len(hash_values)
    /\ i = j
    /\ NextPair
    /\ UNCHANGED memory

CoocAgain ==
    /\ AtPair
    /\ At(mTermInfo, Here).cooc_term[Other] # End
    /\ At(mTermInfo, Here).cooc_term[Other] < Len(mRelateInfo)
    /\ mRelateInfo' = [mRelateInfo EXCEPT
                          ![At(mTermInfo, Here).cooc_term[Other] + 1].num_now = @ + 1]
    /\ NextPair
    /\ UNCHANGED <<mTermIndex, mTermInfo, mRelateIndexSlot, mNoMemory, m_total_info>>

FirstCooc == AtPair /\ At(mTermInfo, Here).cooc_term[Other] = End

\* terms with the new relation (Here, Other) stored in the given slot
Linked(terms, slot) ==
    [terms EXCEPT ![Here + 1].cooc_term[Other] = slot,
                  ![Here + 1].relate_term_num = @ + 1]

Related(total) == [total EXCEPT !.relate_term_num = @ + 1]

\* cooc_index = mRelateInfo.size(), taken before push_back
NextSlot_OneBased == Len(mRelateInfo) + 1
NextSlot == Len(mRelateInfo)

\* "i and j co-occurrence for the first time", and memory suffices
NewCooc ==
    /\ FirstCooc
    /\ ~mNoMemory
    /\ mRelateInfo' = Append(mRelateInfo, NewRelation)
    /\ mTermInfo' = Linked(mTermInfo, NextSlot)
    /\ m_total_info' = Related(m_total_info)
    /\ NextPair
    /\ UNCHANGED <<mTermIndex, mRelateIndexSlot, mNoMemory>>

\* The slot last given back, or -1.
GetIndexSlot(slots) == IF slots = << >> THEN -1 ELSE slots[Len(slots)]

\* The relation goes into a slot given back earlier; the slot keeps the
\* counts it had.  Without such a slot AddCooc gives up the line:
\* "run out of memory,quit!".
AddInOldSlot(terms, slots) ==
    LET cooc_index == GetIndexSlot(slots)
    IN  IF cooc_index < 0
        THEN /\ mTermInfo' = terms
             /\ mRelateIndexSlot' = slots
             /\ EndLine(m_total_info)
        ELSE /\ mTermInfo' = Linked(terms, cooc_index)
             /\ mRelateIndexSlot' = SubSeq(slots, 1, Len(slots) - 1)
             /\ m_total_info' = Related(m_total_info)
             /\ NextPair

SortThreshold == 1

\* SortIndex(int): relations seen fewer than SortThreshold times ...
Rare(terms, relate) ==
    {r \in Relations(terms) : Weight(At(relate, Slot(terms, r))) < SortThreshold}

\* ... are erased, and their slots given back.
SortedTerms(terms, relate) ==
    [n \in 1 .. Len(terms) |->
        Without(terms[n], {h \in Hash : <<n - 1, h>> \in Rare(terms, relate)})]

\* bad_alloc comes from mRelateInfo.push_back or, when that succeeded
\* (pushed), from the insertion into cooc_term.
BadAlloc(pushed) ==
    LET relate == IF pushed THEN Append(mRelateInfo, NewRelation) ELSE mRelateInfo
    IN  /\ FirstCooc
        /\ ~mNoMemory
        /\ mNoMemory' = TRUE
        /\ mRelateInfo' = relate
        /\ AddInOldSlot(SortedTerms(mTermInfo, relate),
                        mRelateIndexSlot \o SlotsOf(mTermInfo, Rare(mTermInfo, relate)))
        /\ UNCHANGED mTermIndex

NoMemory ==
    /\ FirstCooc
    /\ mNoMemory
    /\ AddInOldSlot(mTermInfo, mRelateIndexSlot)
    /\ UNCHANGED <<mTermIndex, mRelateInfo, mNoMemory>>

AddCoocReturns ==
    /\ pc = "cooc"
    /\ i >= Len(hash_values)
    /\ EndLine(m_total_info)
    /\ UNCHANGED <<mTermIndex, mTermInfo, mRelateInfo, mRelateIndexSlot, mNoMemory>>

-----------------------------------------------------------------------------
(* FiltIndex(K): per term, the relations above the K-th largest count.     *)

Now(term, h) == At(mRelateInfo, term.cooc_term[h]).num_now
His(term, h) == At(mRelateInfo, term.cooc_term[h]).num_history

\* The root of a min-heap of the K largest values of count (heapify_r,
\* build_min_heap): the K-th largest.
KthLargest(count) ==
    CHOOSE v \in {count[h] : h \in DOMAIN count} :
        /\ Cardinality({h \in DOMAIN count : count[h] > v}) < K
        /\ Cardinality({h \in DOMAIN count : count[h] >= v}) >= K

AboveKth_NowOnly(term) ==
    LET keys == Keys(term.cooc_term)
    IN  {h \in keys : Now(term, h) > KthLargest([g \in keys |-> Now(term, g)])}
AboveKth(term) ==
    LET keys == Keys(term.cooc_term)
        kthNow == KthLargest([h \in keys |-> Now(term, h)])
        kthHis == KthLargest([h \in keys |-> His(term, h)])
    IN  {h \in keys : Now(term, h) > kthNow \/ His(term, h) > kthHis}

\* relate_term_num < K * 2: at most 2K of them, in the order of the walk.
Kept(term) ==
    {h \in AboveKth(term) : Cardinality({g \in AboveKth(term) : g < h}) < 2 * K}

\* The relations that FiltIndex deletes; terms with fewer than K are left alone.
Filtered ==
    {r \in Relations(mTermInfo) :
        /\ At(mTermInfo, r[1]).relate_term_num >= K
        /\ r[2] \notin Kept(At(mTermInfo, r[1]))}

FiltIndex ==
    /\ pc = "filt"
    /\ mTermInfo' = [n \in 1 .. Len(mTermInfo) |->
                        IF mTermInfo[n].relate_term_num < K
                        THEN mTermInfo[n]
                        ELSE Without(mTermInfo[n], {h \in Hash : <<n - 1, h>> \in Filtered})]
    /\ mRelateIndexSlot' = mRelateIndexSlot \o SlotsOf(mTermInfo, Filtered)
    /\ pc' = "dump"
    /\ UNCHANGED <<mTermIndex, mRelateInfo, mNoMemory, m_total_info, locals, files,
                   runs, weibos>>

-----------------------------------------------------------------------------
(* DumpIndex: the relations are written in the order of the walk, each     *)
(* under its new number, so deleted slots leave no gap.                    *)

Renumbered_PerTerm(terms) ==
    [n \in 1 .. Len(terms) |->
        [terms[n] EXCEPT !.cooc_term =
            [h \in Hash |-> IF @[h] = End THEN End
                          ELSE Cardinality({g \in Keys(terms[n].cooc_term) : g < h})]]]
Renumbered(terms) ==
    [n \in 1 .. Len(terms) |->
        [terms[n] EXCEPT !.cooc_term =
            [h \in Hash |-> IF @[h] = End THEN End
                          ELSE Rank(Relations(terms), <<n - 1, h>>)]]]

Written(terms, relate) ==
    LET R == Relations(terms)
    IN  [n \in 1 .. Cardinality(R) |-> At(relate, SlotsOf(terms, R)[n])]

DumpIndex ==
    /\ pc = "dump"
    /\ m_total_info' = [m_total_info EXCEPT
                           !.sorted_relate_term_num = Cardinality(Relations(mTermInfo))]
    /\ output' = [found      |-> TRUE,
                  TermIndex  |-> mTermIndex,
                  TermInfo   |-> Renumbered(mTermInfo),
                  RelateInfo |-> Written(mTermInfo, mRelateInfo),
                  total      |-> m_total_info']
    /\ pc' = "text"
    /\ UNCHANGED <<mTermIndex, mTermInfo, mRelateInfo, mRelateIndexSlot, mNoMemory,
                   locals, data, runs, weibos>>

\* A file cannot be opened or written (or the uninitialised fp_indexn happens
\* to be NULL): main returns -1 and output/ is not a complete index any more.
DumpIndexFails ==
    /\ pc = "dump"
    /\ output' = NoIndex
    /\ Exit
    /\ UNCHANGED data

\* The text files are for people; then main returns 0.
DumpIndexAsText ==
    /\ pc = "text"
    /\ Exit
    /\ Flushed

\* External: after a run that returned 0 its files are put in place for the
\* next run and for the server.
Install ==
    /\ pc = "idle"
    /\ output.found
    /\ data' = output
    /\ UNCHANGED <<pc, locals, memory, output, runs, weibos>>

-----------------------------------------------------------------------------
AddCooc ==
    \/ SkipSelf
    \/ CoocAgain
    \/ NewCooc
    \/ \E pushed \in BOOLEAN : BadAlloc(pushed)
    \/ NoMemory
    \/ AddCoocReturns

Next ==
    \/ WBProcessorInit
    \/ LoadIndex
    \/ LoadIndexFails
    \/ NoHistory
    \/ ReadLine
    \/ FirstInLine
    \/ TwiceInLine
    \/ EndOfTerms
    \/ AddCooc
    \/ EndOfFile
    \/ FiltIndex
    \/ DumpIndex
    \/ DumpIndexFails
    \/ DumpIndexAsText
    \/ Install
    \/ Crash

Spec == Init /\ [][Next]_vars

-----------------------------------------------------------------------------
(* Types.                                                                  *)

Map == [Hash -> Nat \cup {End}]

TermRec == [df_history : Nat, df_now : Nat, relate_term_num : Nat, cooc_term : Map]

RelateRec == [num_history : Nat, num_now : Nat]

Totals == [term_num : Nat, relate_term_num : Nat, sorted_relate_term_num : Nat,
           weibo_num : Nat]

Image == [found : {TRUE}, TermIndex : Map, TermInfo : Seq(TermRec),
          RelateInfo : Seq(RelateRec), total : Totals]

\* Every variable has the type the program gives it, and AddCooc's counters
\* stay inside hash_values.
TypeOK ==
    /\ pc \in {"idle", "load", "lines", "terms", "cooc", "filt", "dump", "text"}
    /\ line \in Seq(Hash)
    /\ hmInWeibo \subseteq Hash
    /\ hash_values \in Seq(Hash)
    /\ i \in 0 .. Len(hash_values)
    /\ j \in 0 .. Len(hash_values)
    /\ j = Len(hash_values) => j = 0
    /\ mTermIndex \in Map
    /\ mTermInfo \in Seq(TermRec)
    /\ mRelateInfo \in Seq(RelateRec)
    /\ mRelateIndexSlot \in Seq(Nat)
    /\ mNoMemory \in BOOLEAN
    /\ m_total_info \in Totals
    /\ output \in {NoIndex} \cup Image
    /\ data \in {NoIndex} \cup Image
    /\ runs \in Nat
    /\ weibos \in Seq(SUBSET Hash)

-----------------------------------------------------------------------------
(* Safety.  Each property is about the index in memory and about the       *)
(* index files, which the next run and the server trust.                   *)

Images == {f \in {output, data} : f.found}

SlotsOK(terms, relate) ==
    \A r, s \in Relations(terms) :
        /\ Slot(terms, r) < Len(relate)
        /\ Slot(terms, r) = Slot(terms, s) => r = s

\* Every relation has a slot of mRelateInfo to itself: AddCooc's num_now++
\* never counts for another pair, and no slot on the free list is in use or
\* listed twice, so GetIndexSlot never hands out a slot that is taken.
SlotsExclusive ==
    /\ SlotsOK(mTermInfo, mRelateInfo)
    /\ \A n \in DOMAIN mRelateIndexSlot :
           /\ \A r \in Relations(mTermInfo) : Slot(mTermInfo, r) # mRelateIndexSlot[n]
           /\ \A m \in DOMAIN mRelateIndexSlot :
                  mRelateIndexSlot[m] = mRelateIndexSlot[n] => m = n
    /\ \A f \in Images : SlotsOK(f.TermInfo, f.RelateInfo)

Closed(index, terms, total) ==
    /\ total.term_num = Len(terms)
    /\ \A h \in Keys(index) : index[h] < Len(terms)
    /\ \A g, h \in Keys(index) : index[g] = index[h] => g = h
    /\ \A n \in 0 .. Len(terms) - 1 : \E h \in Keys(index) : index[h] = n
    /\ \A r \in Relations(terms) : r[2] \in Keys(index) /\ index[r[2]] # r[1]

\* mTermIndex numbers the terms one to one, and the key of every relation is
\* an indexed term other than the term itself,
\* so mTermInfo[mTermIndex[key]] (DumpIndexAsText, and GetCoocTerm in the
\* server, where operator[] would insert a missing key) finds a term.
IndexClosed ==
    /\ Closed(mTermIndex, mTermInfo, m_total_info)
    /\ \A f \in Images : Closed(f.TermIndex, f.TermInfo, f.total)

Counted(terms) ==
    \A n \in DOMAIN terms : terms[n].relate_term_num = Cardinality(Keys(terms[n].cooc_term))

\* relate_term_num is the size of cooc_term: FiltIndex builds its heaps only
\* from at least K relations, and LoadIndex reads exactly the pairs written.
RelateNumExact ==
    /\ Counted(mTermInfo)
    /\ \A f \in Images : Counted(f.TermInfo)

WithinDf(index, terms, relate) ==
    \A r \in Relations(terms) :
        LET rel == At(relate, Slot(terms, r))
        IN  \A term \in {At(terms, r[1]), At(terms, index[r[2]])} :
                rel.num_now <= term.df_now /\ rel.num_history <= term.df_history

\* Two terms never meet more often than either of them occurs, today and in
\* the history.
CoocWithinDf ==
    /\ WithinDf(mTermIndex, mTermInfo, mRelateInfo)
    /\ \A f \in Images : WithinDf(f.TermIndex, f.TermInfo, f.RelateInfo)

InLine == pc \in {"terms", "cooc"}

\* No term occurs in more weibos than were counted (the line being read is
\* counted at its end): weibo_num / df, whose logarithm is the idf, is at
\* least 1.
DfWithinWeibos ==
    /\ \A n \in DOMAIN mTermInfo :
           mTermInfo[n].df_history + mTermInfo[n].df_now
               <= m_total_info.weibo_num + (IF InLine THEN 1 ELSE 0)
    /\ \A f \in Images : \A n \in DOMAIN f.TermInfo :
           f.TermInfo[n].df_history + f.TermInfo[n].df_now <= f.total.weibo_num

Live(terms, relate) ==
    \A r \in Relations(terms) : Weight(At(relate, Slot(terms, r))) >= 1

\* A relation that exists was seen at least once, also after it went through
\* the files and was merged into the history.
RelationsSeen ==
    /\ Live(mTermInfo, mRelateInfo)
    /\ \A f \in Images : Live(f.TermInfo, f.RelateInfo)

\* Until FiltIndex deletes relations, total_info.relate_term_num counts them,
\* and mRelateInfo holds nothing else, except the one slot that a failed
\* insertion into cooc_term leaves behind.
TotalExact ==
    pc \in {"lines", "terms", "cooc", "filt"} =>
        LET live == Cardinality(Relations(mTermInfo))
        IN  /\ m_total_info.relate_term_num = live
            /\ Len(mRelateInfo) - live \in (IF mNoMemory THEN {0, 1} ELSE {0})

\* num_now of the relation (g, h), 0 if it does not exist
NowOf(g, h) ==
    IF mTermIndex[g] # End /\ At(mTermInfo, mTermIndex[g]).cooc_term[h] # End
    THEN Now(At(mTermInfo, mTermIndex[g]), h)
    ELSE 0

Holding(S) == {n \in DOMAIN weibos : S \subseteq weibos[n]}

\* Between two lines: df_now counts the lines of this run a term is in.
\* num_now counts the lines both terms are in, in both directions alike,
\* as long as memory sufficed; later it may only miss some.
CountsExact ==
    pc = "lines" =>
        /\ \A h \in Keys(mTermIndex) :
               At(mTermInfo, mTermIndex[h]).df_now = Cardinality(Holding({h}))
        /\ \A g, h \in Hash : g # h =>
               LET met == Cardinality(Holding({g, h}))
               IN  IF mNoMemory THEN NowOf(g, h) <= met ELSE NowOf(g, h) = met

\* What DumpIndex has written is what was in memory, relation by relation,
\* under the new numbers, and LoadIndex will not refuse it.
DumpFaithful ==
    /\ pc = "text" =>
          /\ Relations(output.TermInfo) = Relations(mTermInfo)
          /\ \A r \in Relations(mTermInfo) :
                 At(output.RelateInfo, Slot(output.TermInfo, r))
                     = At(mRelateInfo, Slot(mTermInfo, r))
    /\ \A f \in Images : Accepts(f)

\* "after sortindex ,we have momery" (TermsProcessor.cpp:441): where there are
\* relations to sort out, a failed allocation costs no new one.  So between two
\* lines any two terms of a weibo that was counted are related.
MemoryAfterSort ==
    pc = "lines" /\ Relations(mTermInfo) # {} =>
        \A n \in DOMAIN weibos : \A g, h \in weibos[n] : g # h => NowOf(g, h) > 0

-----------------------------------------------------------------------------
(* What a step may never do.                                               *)

\* Why MemoryAfterSort fails: once an allocation has failed, no relation is
\* added in the rest of the run and none disappears before FiltIndex, because
\* SortIndex finds nothing to delete and there is never an old slot to use
\* (TermsProcessor.cpp:437-462).
FrozenAfterNoMemory ==
    [][(mNoMemory' /\ pc \in {"lines", "terms", "cooc"}) =>
           Relations(mTermInfo') = Relations(mTermInfo)]_vars

\* A relation that is among the K - 1 most frequent of its term, ties
\* included, today or in the history, survives FiltIndex; and a filtered term
\* keeps at most 2K - 2 relations, so the limit of 2K is never what decides.
FiltKeepsLeaders ==
    [][pc = "filt" /\ pc' = "dump" =>
         \A n \in DOMAIN mTermInfo :
            LET term == mTermInfo[n]
                keys == Keys(term.cooc_term)
            IN  /\ \A h \in keys :
                      (\/ Cardinality({g \in keys : Now(term, g) >= Now(term, h)}) < K
                       \/ Cardinality({g \in keys : His(term, g) >= His(term, h)}) < K)
                      => mTermInfo'[n].cooc_term[h] # End
                /\ Cardinality(keys) >= K =>
                      Cardinality(Keys(mTermInfo'[n].cooc_term)) <= 2 * K - 2]_vars

-----------------------------------------------------------------------------
(* The inductive invariant behind the safety properties (CoocIndexProofs). *)

\* An index is sound if it has the properties that a later step relies on.
Sound(index, terms, relate, total) ==
    /\ SlotsOK(terms, relate)
    /\ Closed(index, terms, total)
    /\ Counted(terms)
    /\ WithinDf(index, terms, relate)
    /\ Live(terms, relate)

\* The locals of ParseLineTerms and AddCooc: hash_values lists the terms of
\* the line once each, and all of them are indexed.
LocalsOK ==
    /\ pc # "cooc" => i = 0 /\ j = 0
    /\ ~InLine => hash_values = << >>
    /\ InLine => /\ hmInWeibo = {hash_values[n] : n \in 1 .. Len(hash_values)}
                 /\ hmInWeibo \subseteq Keys(mTermIndex)
    /\ \A m, n \in 1 .. Len(hash_values) : hash_values[m] = hash_values[n] => m = n

\* Slots are given back by FiltIndex only.
NoFreeSlots == pc \notin {"dump", "text"} => mRelateIndexSlot = << >>

FreeSlotsOK ==
    \A n \in 1 .. Len(mRelateIndexSlot) :
        /\ \A r \in Relations(mTermInfo) : Slot(mTermInfo, r) # mRelateIndexSlot[n]
        /\ \A m \in 1 .. Len(mRelateIndexSlot) :
              mRelateIndexSlot[m] = mRelateIndexSlot[n] => m = n

DfNow(h) == At(mTermInfo, mTermIndex[h]).df_now

\* AddCooc has not come to the pair at positions p and q of the line yet.
Ahead(p, q) == p # q /\ (p > i \/ (p = i /\ q >= j))

\* df_now already counts the line being read.  A relation that the line will
\* count later therefore has room for one more.
RoomForLine ==
    /\ InLine => \A h \in hmInWeibo : DfNow(h) >= 1
    /\ pc = "terms" =>
          \A r \in Relations(mTermInfo), h \in hmInWeibo :
              (mTermIndex[h] = r[1] \/ h = r[2]) =>
                  At(mRelateInfo, Slot(mTermInfo, r)).num_now < DfNow(h)
    /\ pc = "cooc" =>
          \A p, q \in 0 .. Len(hash_values) - 1 :
              LET g == At(hash_values, p)
                  h == At(hash_values, q)
                  r == <<mTermIndex[g], h>>
              IN  Ahead(p, q) /\ r \in Relations(mTermInfo) =>
                      /\ At(mRelateInfo, Slot(mTermInfo, r)).num_now < DfNow(g)
                      /\ At(mRelateInfo, Slot(mTermInfo, r)).num_now < DfNow(h)

DfBound ==
    \A h \in Keys(mTermIndex) :
        At(mTermInfo, mTermIndex[h]).df_history + DfNow(h)
            <= m_total_info.weibo_num + (IF InLine /\ h \in hmInWeibo THEN 1 ELSE 0)

ImageOK(f) ==
    /\ Sound(f.TermIndex, f.TermInfo, f.RelateInfo, f.total)
    /\ f.total.sorted_relate_term_num = Len(f.RelateInfo)
    /\ \A n \in 1 .. Len(f.TermInfo) :
           f.TermInfo[n].df_history + f.TermInfo[n].df_now <= f.total.weibo_num

IInv ==
    /\ TypeOK
    /\ LocalsOK
    /\ Sound(mTermIndex, mTermInfo, mRelateInfo, m_total_info)
    /\ NoFreeSlots
    /\ FreeSlotsOK
    /\ RoomForLine
    /\ DfBound
    /\ output.found => ImageOK(output)
    /\ data.found => ImageOK(data)

-----------------------------------------------------------------------------
(* The index as a counter.                                                 *)

CountsOf(index, terms, relate, total) ==
    [seen |-> [h \in Hash |->
                  IF index[h] = End THEN 0
                  ELSE At(terms, index[h]).df_history + At(terms, index[h]).df_now],
     met |-> [p \in Hash \X Hash |->
                  IF index[p[1]] = End THEN 0
                  ELSE IF At(terms, index[p[1]]).cooc_term[p[2]] = End THEN 0
                  ELSE Weight(At(relate, At(terms, index[p[1]]).cooc_term[p[2]]))],
     weibos |-> total.weibo_num]

\* AddCooc has already counted the pair (g, h) of the line.
Passed(g, h) ==
    /\ pc = "cooc"
    /\ \E p, q \in 0 .. Len(hash_values) - 1 :
          /\ p # q /\ ~Ahead(p, q)
          /\ At(hash_values, p) = g /\ At(hash_values, q) = h

\* What memory holds, without the part of the line being read.
CountsNow ==
    LET all == CountsOf(mTermIndex, mTermInfo, mRelateInfo, m_total_info)
    IN  [all EXCEPT
            !.seen = [h \in Hash |-> @[h] - (IF InLine /\ h \in hmInWeibo THEN 1 ELSE 0)],
            !.met = [p \in Hash \X Hash |-> @[p] - (IF Passed(p[1], p[2]) THEN 1 ELSE 0)]]

CountsIn(f) ==
    IF f.found THEN {CountsOf(f.TermIndex, f.TermInfo, f.RelateInfo, f.total)} ELSE {}

Phase == CASE pc \in {"idle", "load"} -> "off"
           [] pc = "dump" -> "filtered"
           [] pc = "text" -> "saved"
           [] OTHER -> "counting"

Counter == INSTANCE CoocCounter WITH
    phase <- Phase, now <- CountsNow, short <- mNoMemory,
    saved <- CountsIn(output), installed <- CountsIn(data)

\* The maps, slots and loops of AddCooc, FiltIndex, the new numbers of
\* DumpIndex and the merge of LoadIndex, over several days, crashes included,
\* count terms and pairs of terms exactly (TermsProcessor.cpp:199-795).
CountsWhole == Counter!CounterSpec

=============================================================================
