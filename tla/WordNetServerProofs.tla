------------------------- MODULE WordNetServerProofs -----------------------
(***************************************************************************)
(* With an index as DumpIndex writes it, and totals that are read as they  *)
(* were written, GetCoocTerm has no undefined behaviour, for any number of *)
(* threads and any requests (WalkDefined), and its answers are ranked as   *)
(* they should be (CoocRanked).  With any index, and whatever is done to   *)
(* the map they share, threads answer the request they got (OwnAnswer).    *)
(***************************************************************************)
EXTENDS WordNetServer, FiniteSetTheorems, NatLemmas, TLAPS

\* What a step of thread w leaves alone in another thread v.
Untouched(v) ==
    /\ pc'[v] = pc[v]
    /\ asked'[v] = asked[v]
    /\ todo'[v] = todo[v]
    /\ query_type'[v] = query_type[v]

\* The part of ServerInv about the locals of the threads.
Locals ==
    /\ pc \in [Worker -> {"idle", "pairs", "walk", "undefined"}]
    /\ asked \in [Worker -> Hash \cup {0}]
    /\ todo \in [Worker -> SUBSET Hash]
    /\ pairs \in [Worker -> Seq(Pair)]
    /\ query_type \in [Worker -> Pointer]

\* The part of ServerInv about what all threads share.
Shared ==
    /\ up => index \in Images /\ Accepts(index)
    /\ up /\ SizeTBits = 64 => weibo_num = index.total.weibo_num
    /\ up /\ AsDumped(index) => TermIndex = index.TermIndex

\* The part of ServerInv about thread v.
Thread(v) ==
    /\ ~up => pc[v] = "idle"
    /\ up /\ AsDumped(index) /\ pc[v] = "walk" =>
          /\ asked[v] \in Keys(index.TermIndex)
          /\ todo[v] \subseteq Keys(At(index.TermInfo, index.TermIndex[asked[v]]).cooc_term)
    /\ up /\ AsDumped(index) /\ pc[v] = "undefined" => query_type[v].null

\* What no thread changes.
Loaded == <<up, index, weibo_num>>

\* What a step of thread w has to show.
Good(w) ==
    /\ UNCHANGED Loaded
    /\ Shared'
    /\ Locals'
    /\ Thread(w)'
    /\ \A v \in Worker \ {w} : Untouched(v)

\* ServerInv, by its parts.
LEMMA Parts == ServerInv <=> Shared /\ Locals /\ \A v \in Worker : Thread(v)
  BY DEF ServerInv, Shared, Locals, Thread

\* At the start no thread works.
LEMMA InitInv == Init => ServerInv
  <1> SUFFICES ASSUME Init PROVE ServerInv
    OBVIOUS
  <1>1. NULL \in Pointer
    BY DEF NULL, Pointer
  <1> QED
    BY <1>1 DEF Init, ServerInv

\* Whether the index is as dumped does not change once it is loaded.
LEMMA SameIndex == UNCHANGED Loaded => (AsDumped(index)' <=> AsDumped(index))
  BY DEF Loaded, AsDumped

\* Every relation of a term that was found is one whose visit is defined.
LEMMA VisitIsDefined ==
    ASSUME ServerInv, SizeTBits = 64, up, AsDumped(index),
           NEW w \in Worker, pc[w] = "walk", NEW h \in todo[w]
    PROVE  TermIndex[h] # End /\ Computable(asked[w], h)
  <1> DEFINE n == index.TermIndex[asked[w]] + 1
  <1>1. /\ index.TermIndex \in Map
        /\ asked[w] \in Hash
        /\ index.TermIndex[asked[w]] # End
        /\ index.TermIndex[asked[w]] < index.total.term_num
        /\ index.total.term_num = Len(index.TermInfo)
        /\ Len(index.TermInfo) \in Nat
    BY ImagesAssumption DEF IsImage, ServerInv, Accepts, Keys
  <1>2. index.TermIndex[asked[w]] \in Nat
    BY <1>1 DEF Map
  <1>3. n \in 1 .. Len(index.TermInfo)
    BY <1>1, <1>2
  <1>4. h \in Keys(index.TermInfo[n].cooc_term)
    BY DEF ServerInv, At
  <1>5. /\ index.TermIndex[h] # End
        /\ At(index.TermInfo, index.TermIndex[h]).df_now
               + At(index.TermInfo, index.TermIndex[h]).df_history > 0
        /\ index.TermInfo[n].cooc_term[h] < Len(index.RelateInfo)
    BY <1>3, <1>4 DEF AsDumped
  <1>6. weibo_num > 0
    BY DEF ServerInv, AsDumped
  <1>7. TermIndex = index.TermIndex
    BY DEF ServerInv
  <1> QED
    BY <1>5, <1>6, <1>7 DEF Computable, Df, Relation, At, Touched

\* The number of the relation that is visited is a number.
LEMMA RelationIsNumber ==
    ASSUME ServerInv, up, AsDumped(index),
           NEW w \in Worker, pc[w] = "walk", NEW h \in todo[w]
    PROVE  Relation(asked[w], h) \in Int /\ Len(index.RelateInfo) \in Int
  <1> DEFINE n == index.TermIndex[asked[w]] + 1
             Term == [df_now : Nat, df_history : Nat, cooc_term : Map]
             Rel == [num_now : Nat, num_history : Nat]
  <1>1. /\ index.TermIndex \in Map
        /\ asked[w] \in Hash
        /\ index.TermIndex[asked[w]] # End
        /\ index.TermIndex[asked[w]] < Len(index.TermInfo)
        /\ index.TermInfo \in Seq(Term)
        /\ index.RelateInfo \in Seq(Rel)
    BY ImagesAssumption DEF IsImage, ServerInv, Accepts, Keys
  <1>2. n \in 1 .. Len(index.TermInfo)
    BY <1>1 DEF Map
  <1>3. index.TermInfo[n] \in Term
    <2> HIDE DEF Term
    <2> QED
      BY <1>1, <1>2
  <1>4. index.TermInfo[n].cooc_term \in Map
    BY <1>3
  <1>5. h \in Hash
    BY DEF ServerInv
  <1>6. TermIndex = index.TermIndex
    BY DEF ServerInv
  <1>7. index.TermInfo[n].cooc_term[h] \in Int
    BY <1>4, <1>5 DEF Map, End
  <1>8. Len(index.RelateInfo) \in Int
    <2> HIDE DEF Rel
    <2> QED
      BY <1>1
  <1> QED
    BY <1>6, <1>7, <1>8 DEF Relation, At

-----------------------------------------------------------------------------
(* One lemma per action of a thread.                                       *)

\* A request arrives: the pointers go stale.
LEMMA DoWorkGood ==
    ASSUME ServerInv, NEW w \in Worker, NEW r \in Requests, DoWork(w, r)
    PROVE  Good(w)
  <1>1. UNCHANGED Loaded /\ TermIndex' = TermIndex
    BY DEF DoWork, Loaded, global
  <1>0. /\ r.pairs \in Seq(Pair)
        /\ Stale(query_type[w]) \in Pointer
    BY RequestsAssumption, Parts DEF Locals, Stale, Pointer
  <1>2. Locals'
    BY <1>0, Parts DEF Locals, DoWork, Return, workData, walk
  <1>3. Thread(w)'
    BY <1>0, <1>1, SameIndex, Parts DEF Locals, Thread, Loaded, DoWork, Return, workData, walk
  <1>4. \A v \in Worker \ {w} : Untouched(v)
    BY Parts DEF Locals, Untouched, DoWork, Return, workData, walk
  <1>9. Shared'
    BY <1>1, SameIndex, Parts DEF Shared, Loaded, Accepts
  <1> QED
    BY <1>1, <1>2, <1>3, <1>4, <1>9 DEF Good

\* A pair that is no string: the request is refused.
LEMMA NotAStringGood ==
    ASSUME ServerInv, NEW w \in Worker, NotAString(w)
    PROVE  Good(w)
  <1>1. UNCHANGED Loaded /\ TermIndex' = TermIndex
    BY DEF NotAString, Loaded, global
  <1>0. << >> \in Seq(Pair)
    OBVIOUS
  <1>2. Locals'
    BY <1>0, Parts DEF Locals, NotAString, Return, workData, walk
  <1>3. Thread(w)'
    BY <1>0, <1>1, SameIndex, Parts DEF Locals, Thread, Loaded, NotAString, Return, workData, walk
  <1>4. \A v \in Worker \ {w} : Untouched(v)
    BY Parts DEF Locals, Untouched, NotAString, Return, workData, walk
  <1>9. Shared'
    BY <1>1, SameIndex, Parts DEF Shared, Loaded, Accepts
  <1> QED
    BY <1>1, <1>2, <1>3, <1>4, <1>9 DEF Good

\* A pair is taken: the pointer is new.
LEMMA TakePairGood ==
    ASSUME ServerInv, NEW w \in Worker, TakePair(w)
    PROVE  Good(w)
  <1>1. UNCHANGED Loaded /\ TermIndex' = TermIndex
    BY DEF TakePair, Loaded, global
  <1>0. /\ Tail(pairs[w]) \in Seq(Pair)
        /\ Fresh(Head(pairs[w]).value) \in Pointer
    <2>1. pairs[w] \in Seq(Pair) /\ pairs[w] # << >>
      BY Parts DEF Locals, TakePair
    <2>2. Head(pairs[w]) \in Pair
      BY <2>1
    <2>3. Head(pairs[w]).value \in Nat
      BY <2>2 DEF Pair
    <2> QED
      BY <2>1, <2>3 DEF Fresh, Pointer
  <1>2. Locals'
    BY <1>0, Parts DEF Locals, TakePair, workData, walk, Assigned
  <1>3. Thread(w)'
    BY <1>0, <1>1, SameIndex, Parts DEF Locals, Thread, Loaded, TakePair, workData, walk, Assigned
  <1>4. \A v \in Worker \ {w} : Untouched(v)
    BY Parts DEF Locals, Untouched, TakePair, workData, walk, Assigned
  <1>9. Shared'
    BY <1>1, SameIndex, Parts DEF Shared, Loaded, Accepts
  <1> QED
    BY <1>1, <1>2, <1>3, <1>4, <1>9 DEF Good

\* No content: the request is refused.
LEMMA NoContentGood ==
    ASSUME ServerInv, NEW w \in Worker, NoContent(w)
    PROVE  Good(w)
  <1>1. UNCHANGED Loaded /\ TermIndex' = TermIndex
    BY DEF NoContent, Loaded, global
  <1>2. Locals'
    BY Parts DEF Locals, NoContent, Return, workData, walk
  <1>3. Thread(w)'
    BY <1>1, SameIndex, Parts DEF Locals, Thread, Loaded, NoContent, Return, workData, walk
  <1>4. \A v \in Worker \ {w} : Untouched(v)
    BY Parts DEF Locals, Untouched, NoContent, Return, workData, walk
  <1>9. Shared'
    BY <1>1, SameIndex, Parts DEF Shared, Loaded, Accepts
  <1> QED
    BY <1>1, <1>2, <1>3, <1>4, <1>9 DEF Good

\* No type: this is the one undefined behaviour that WalkDefined leaves.
LEMMA NoQueryTypeGood ==
    ASSUME ServerInv, NEW w \in Worker, NoQueryType(w)
    PROVE  Good(w)
  <1>1. UNCHANGED Loaded /\ TermIndex' = TermIndex
    BY DEF NoQueryType, Loaded, global
  <1>2. Locals'
    BY Parts DEF Locals, NoQueryType, workData, walk, Parsed
  <1>3. Thread(w)'
    BY <1>1, SameIndex, Parts DEF Locals, Thread, Loaded, NoQueryType, workData, walk, Parsed
  <1>4. \A v \in Worker \ {w} : Untouched(v)
    BY Parts DEF Locals, Untouched, NoQueryType, workData, walk, Parsed
  <1>9. Shared'
    BY <1>1, SameIndex, Parts DEF Shared, Loaded, Accepts
  <1> QED
    BY <1>1, <1>2, <1>3, <1>4, <1>9 DEF Good

\* Request type 0 ends here.
LEMMA GetHotTermGood ==
    ASSUME ServerInv, NEW w \in Worker, GetHotTerm(w)
    PROVE  Good(w)
  <1>1. UNCHANGED Loaded /\ TermIndex' = TermIndex
    BY DEF GetHotTerm, Loaded, global
  <1>2. Locals'
    BY Parts DEF Locals, GetHotTerm, Return, workData, walk
  <1>3. Thread(w)'
    BY <1>1, SameIndex, Parts DEF Locals, Thread, Loaded, GetHotTerm, Return, workData, walk
  <1>4. \A v \in Worker \ {w} : Untouched(v)
    BY Parts DEF Locals, Untouched, GetHotTerm, Return, workData, walk
  <1>9. Shared'
    BY <1>1, SameIndex, Parts DEF Shared, Loaded, Accepts
  <1> QED
    BY <1>1, <1>2, <1>3, <1>4, <1>9 DEF Good

\* So does an unknown type.
LEMMA OtherTypeGood ==
    ASSUME ServerInv, NEW w \in Worker, OtherType(w)
    PROVE  Good(w)
  <1>1. UNCHANGED Loaded /\ TermIndex' = TermIndex
    BY DEF OtherType, Loaded, global
  <1>2. Locals'
    BY Parts DEF Locals, OtherType, Return, workData, walk
  <1>3. Thread(w)'
    BY <1>1, SameIndex, Parts DEF Locals, Thread, Loaded, OtherType, Return, workData, walk
  <1>4. \A v \in Worker \ {w} : Untouched(v)
    BY Parts DEF Locals, Untouched, OtherType, Return, workData, walk
  <1>9. Shared'
    BY <1>1, SameIndex, Parts DEF Shared, Loaded, Accepts
  <1> QED
    BY <1>1, <1>2, <1>3, <1>4, <1>9 DEF Good

\* A term that is found is walked by its own keys.
LEMMA FindTermGood ==
    ASSUME ServerInv, NEW w \in Worker, NEW h \in Hash, FindTerm(w, h)
    PROVE  Good(w)
  <1>1. UNCHANGED Loaded /\ TermIndex' = TermIndex
    BY DEF FindTerm, Loaded, global
  <1>0. /\ Keys(At(index.TermInfo, TermIndex[h]).cooc_term) \subseteq Hash
        /\ up
    BY Parts DEF Keys, FindTerm, Dispatch, Parsed, Thread
  <1>5. AsDumped(index) => /\ TermIndex = index.TermIndex
                           /\ TermIndex[h] # End => h \in Keys(index.TermIndex)
    BY <1>0, Parts DEF Keys, Shared
  <1>2. Locals'
    BY <1>0, <1>5, Parts DEF Locals, FindTerm, Return, workData, walk
  <1>3. Thread(w)'
    BY <1>0, <1>5, <1>1, SameIndex, Parts DEF Locals, Thread, Loaded, FindTerm, Return, workData, walk
  <1>4. \A v \in Worker \ {w} : Untouched(v)
    BY Parts DEF Locals, Untouched, FindTerm, Return, workData, walk
  <1>9. Shared'
    BY <1>1, SameIndex, Parts DEF Shared, Loaded, Accepts
  <1> QED
    BY <1>1, <1>2, <1>3, <1>4, <1>9 DEF Good

\* A visit takes a key off the list.  It inserts nothing into TermIndex if
\* the index is as dumped.
LEMMA VisitGood ==
    ASSUME ServerInv, NEW w \in Worker, NEW h \in Hash, Visit(w, h), SizeTBits = 64
    PROVE  Good(w)
  <1>1. UNCHANGED Loaded
    BY DEF Visit, Loaded
  <1>2. Locals'
    BY Parts DEF Locals, Visit, workData
  <1>3. Thread(w)'
    BY <1>1, SameIndex, Parts DEF Locals, Thread, Loaded, Visit, workData
  <1>4. \A v \in Worker \ {w} : Untouched(v)
    BY Parts DEF Locals, Untouched, Visit, workData
  <1>5. pc[w] = "walk" /\ h \in todo[w] /\ TermIndex' = Touched(h)
    BY DEF Visit
  <1>6. up /\ AsDumped(index) => TermIndex' = TermIndex
    BY <1>5, SizeTBits = 64, VisitIsDefined DEF Touched
  <1>9. Shared'
    BY <1>1, <1>6, SameIndex, Parts DEF Shared, Loaded, Accepts
  <1> QED
    BY <1>1, <1>2, <1>3, <1>4, <1>9 DEF Good

\* A visit that may end the process does not happen with an index as dumped.
LEMMA VisitUndefinedGood ==
    ASSUME ServerInv, NEW w \in Worker, NEW h \in Hash, VisitUndefined(w, h), SizeTBits = 64
    PROVE  Good(w)
  <1>1. UNCHANGED Loaded /\ TermIndex' = TermIndex
    BY DEF VisitUndefined, Loaded, global
  <1>5. /\ up /\ pc[w] = "walk" /\ h \in todo[w]
        /\ \/ TermIndex[h] = End
           \/ Relation(asked[w], h) >= Len(index.RelateInfo)
    BY Parts DEF Thread, VisitUndefined, Unsafe
  <1>6. ASSUME AsDumped(index) PROVE FALSE
    <2>1. TermIndex[h] # End /\ Relation(asked[w], h) < Len(index.RelateInfo)
      BY <1>5, <1>6, SizeTBits = 64, VisitIsDefined DEF Computable
    <2>2. Relation(asked[w], h) \in Int /\ Len(index.RelateInfo) \in Int
      BY <1>5, <1>6, RelationIsNumber
    <2> QED
      BY <1>5, <2>1, <2>2
  <1>2. Locals'
    BY Parts DEF Locals, VisitUndefined, workData, walk
  <1>3. Thread(w)'
    BY <1>1, <1>5, <1>6, SameIndex, Parts DEF Thread, Loaded, Locals, VisitUndefined
  <1>4. \A v \in Worker \ {w} : Untouched(v)
    BY Parts DEF Locals, Untouched, VisitUndefined, workData, walk
  <1>9. Shared'
    BY <1>1, SameIndex, Parts DEF Shared, Loaded, Accepts
  <1> QED
    BY <1>1, <1>2, <1>3, <1>4, <1>9 DEF Good

\* readahead fails and the walk ends, again without an insertion.
LEMMA MmapErrorGood ==
    ASSUME ServerInv, NEW w \in Worker, NEW h \in Hash, MmapError(w, h), SizeTBits = 64
    PROVE  Good(w)
  <1>1. UNCHANGED Loaded
    BY DEF MmapError, Loaded
  <1>2. Locals'
    BY Parts DEF Locals, MmapError, Return, workData
  <1>3. Thread(w)'
    BY <1>1, SameIndex, Parts DEF Locals, Thread, Loaded, MmapError, Return, workData
  <1>4. \A v \in Worker \ {w} : Untouched(v)
    BY Parts DEF Locals, Untouched, MmapError, Return, workData
  <1>5. pc[w] = "walk" /\ h \in todo[w] /\ TermIndex' = Touched(h)
    BY DEF MmapError
  <1>6. up /\ AsDumped(index) => TermIndex' = TermIndex
    BY <1>5, SizeTBits = 64, VisitIsDefined DEF Touched
  <1>9. Shared'
    BY <1>1, <1>6, SameIndex, Parts DEF Shared, Loaded, Accepts
  <1> QED
    BY <1>1, <1>2, <1>3, <1>4, <1>9 DEF Good

\* The walk is over.
LEMMA CoocReplyGood ==
    ASSUME ServerInv, NEW w \in Worker, CoocReply(w)
    PROVE  Good(w)
  <1>1. UNCHANGED Loaded /\ TermIndex' = TermIndex
    BY DEF CoocReply, Loaded, global
  <1>2. Locals'
    BY Parts DEF Locals, CoocReply, Return, workData, walk
  <1>3. Thread(w)'
    BY <1>1, SameIndex, Parts DEF Locals, Thread, Loaded, CoocReply, Return, workData, walk
  <1>4. \A v \in Worker \ {w} : Untouched(v)
    BY Parts DEF Locals, Untouched, CoocReply, Return, workData, walk
  <1>9. Shared'
    BY <1>1, SameIndex, Parts DEF Shared, Loaded, Accepts
  <1> QED
    BY <1>1, <1>2, <1>3, <1>4, <1>9 DEF Good

-----------------------------------------------------------------------------
\* Every step keeps the inductive invariant where size_t has 64 bits.
LEMMA NextInv ==
    ASSUME SizeTBits = 64, ServerInv, [Next]_vars
    PROVE  ServerInv'
  <1>1. ASSUME NEW image \in Images, CreateGlobalData(image) PROVE ServerInv'
    <2>1. \A v \in Worker : pc[v] = "idle"
      BY <1>1, Parts DEF Thread, CreateGlobalData
    <2>2. Shared'
      BY <1>1, SizeTBits = 64 DEF Shared, CreateGlobalData, Accepts, WeiboNumRead
    <2>3. Locals'
      BY <1>1, Parts DEF Locals, CreateGlobalData, workData, walk
    <2>4. \A v \in Worker : Thread(v)'
      BY <1>1, <2>1 DEF Thread, CreateGlobalData
    <2> QED
      BY <2>2, <2>3, <2>4 DEF ServerInv, Shared, Locals, Thread
  <1>2. ASSUME NEW w \in Worker, Work(w) PROVE ServerInv'
    <2>1. Good(w)
      BY <1>2, SizeTBits = 64, DoWorkGood, NotAStringGood, TakePairGood, NoContentGood,
         NoQueryTypeGood, GetHotTermGood, OtherTypeGood, FindTermGood, VisitGood,
         VisitUndefinedGood, MmapErrorGood, CoocReplyGood
      DEF Work
    <2>2. ASSUME NEW v \in Worker PROVE Thread(v)'
      <3>1. CASE v = w
        BY <2>1, <3>1 DEF Good
      <3>2. CASE v # w
        BY <2>1, <3>2, SameIndex, Parts DEF Good, Untouched, Thread, Loaded
      <3> QED
        BY <3>1, <3>2
    <2> QED
      BY <2>1, <2>2 DEF Good, ServerInv, Shared, Locals, Thread
  <1>3. CASE UNCHANGED vars
    <2>1. UNCHANGED Loaded
      BY <1>3 DEF vars, global, Loaded
    <2> QED
      BY <1>3, <2>1, SameIndex DEF vars, global, workData, walk, ServerInv, Accepts
  <1> QED
    BY <1>1, <1>2, <1>3 DEF Next

\* In a build with a size_t of 64 bits, GetCoocTerm never inserts into the
\* shared TermIndex, takes no logarithm of zero and reads inside the mapped
\* file, if the index files are as DumpIndex writes them.
THEOREM WalkIsDefined ==
    ASSUME SizeTBits = 64
    PROVE  Spec => []WalkDefined
  <1>1. ServerInv /\ [Next]_vars => ServerInv'
    BY NextInv, SizeTBits = 64
  <1>2. ServerInv => WalkDefined
    <2> SUFFICES ASSUME ServerInv, AsDumped(index)
                 PROVE  /\ up => TermIndex = index.TermIndex
                        /\ \A w \in Worker :
                              /\ pc[w] = "walk" =>
                                    \A h \in todo[w] : TermIndex[h] # End /\ Computable(asked[w], h)
                              /\ pc[w] = "undefined" => query_type[w].null
      BY DEF WalkDefined
    <2>1. up \/ \A w \in Worker : pc[w] = "idle"
      BY DEF ServerInv
    <2>2. up => TermIndex = index.TermIndex
      BY DEF ServerInv
    <2>3. \A w \in Worker : pc[w] = "undefined" => query_type[w].null
      BY <2>1 DEF ServerInv
    <2>4. \A w \in Worker : pc[w] = "walk" =>
              \A h \in todo[w] : TermIndex[h] # End /\ Computable(asked[w], h)
      BY <2>1, SizeTBits = 64, VisitIsDefined
    <2> QED
      BY <2>2, <2>3, <2>4
  <1> QED
    BY <1>1, <1>2, InitInv, PTL DEF Spec

-----------------------------------------------------------------------------
(* Types, requests and answers, for any index that is accepted.            *)

Entry == [key : Hash, term : Nat, weight : Nat]
Reply == {Working, InputError, NoResult, Hot}
             \cup [ret : {0}, result : {"cooc"}, term : Hash, terms : SUBSET Entry]

\* The locals of the threads.
Shapes ==
    /\ pc \in [Worker -> {"idle", "pairs", "walk", "undefined"}]
    /\ request \in [Worker -> Requests \cup {NoRequest}]
    /\ pairs \in [Worker -> Seq(Pair)]
    /\ query_type \in [Worker -> Pointer]
    /\ content \in [Worker -> Pointer]
    /\ asked \in [Worker -> Hash \cup {0}]
    /\ todo \in [Worker -> SUBSET Hash]
    /\ v_tmp \in [Worker -> SUBSET Entry]
    /\ reply \in [Worker -> Reply]

\* What they share: a key that is in the map leads to a term, also a key that
\* a visit has inserted.
Store ==
    /\ up \in BOOLEAN
    /\ index \in Images \cup {NoIndex}
    /\ TermIndex \in Map
    /\ weibo_num \in Nat
    /\ up => /\ index \in Images /\ Accepts(index)
             /\ \A h \in Keys(TermIndex) : TermIndex[h] < Len(index.TermInfo)

CoocOf(g) == At(index.TermInfo, TermIndex[g]).cooc_term

\* A thread that walks has found its term.
Walking(v) ==
    /\ ~up => pc[v] = "idle" /\ reply[v] = InputError
    /\ pc[v] = "walk" => asked[v] \in Keys(TermIndex) /\ todo[v] \subseteq Keys(CoocOf(asked[v]))

\* All that is thread v's.
Mine(v) == <<pc[v], request[v], pairs[v], query_type[v], content[v], asked[v], todo[v],
             v_tmp[v], reply[v]>>

\* A request that OwnAnswer is about, and the answer to it.
Complete(r) == WellFormed(r) /\ Given(r, "qt") # {} /\ Given(r, "content") # {}

Answered(r, a) ==
    \/ Last(r, "qt") = 0 /\ a = Hot
    \/ Last(r, "qt") = 1 /\ a.result = "cooc" /\ a.term = Last(r, "content")
    \/ Last(r, "qt") # 0 /\ a = NoResult

\* Pointer p is to the value of the last pair with the key among the first n
\* of the request, if there is one: it is not left over from a request before.
Latest(p, r, key, n) ==
    \A m \in 1 .. n :
        r.pairs[m].key = key /\ (\A l \in m + 1 .. n : r.pairs[l].key # key)
            => p = Fresh(r.pairs[m].value)

Taken(v) == Len(request[v].pairs) - Len(pairs[v])

Own(v) ==
    /\ pc[v] = "pairs" =>
          /\ Taken(v) \in Nat
          /\ \A k \in 1 .. Len(pairs[v]) : pairs[v][k] = request[v].pairs[Taken(v) + k]
          /\ Latest(query_type[v], request[v], "qt", Taken(v))
          /\ Latest(content[v], request[v], "content", Taken(v))
    /\ pc[v] = "walk" /\ Complete(request[v]) =>
          Last(request[v], "qt") = 1 /\ Last(request[v], "content") = asked[v]
    /\ pc[v] = "idle" /\ Complete(request[v]) => Answered(request[v], reply[v])

\* The inductive invariant for TypeOK and OwnAnswer.
ThreadInv == Store /\ Shapes /\ \A v \in Worker : Walking(v) /\ Own(v)

\* What a step of thread w has to show.
Fine(w) ==
    /\ UNCHANGED Loaded
    /\ Store'
    /\ \A g \in Keys(TermIndex) : TermIndex'[g] = TermIndex[g]
    /\ Shapes'
    /\ Walking(w)' /\ Own(w)'
    /\ \A v \in Worker \ {w} : Mine(v)' = Mine(v)

\* A request has a sequence of pairs.
LEMMA RequestPairs ==
    ASSUME NEW r \in Requests \cup {NoRequest}
    PROVE  r.pairs \in Seq(Pair)
  <1>1. CASE r \in Requests
    BY <1>1, RequestsAssumption
  <1>2. CASE r = NoRequest
    BY <1>2 DEF NoRequest
  <1> QED
    BY <1>1, <1>2

\* When all pairs are taken, a pointer is to what the request gives last.
LEMMA AllTaken ==
    ASSUME NEW r \in Requests \cup {NoRequest}, NEW key, Given(r, key) # {},
           NEW p, Latest(p, r, key, Len(r.pairs))
    PROVE  p = Fresh(Last(r, key))
  <1>1. Len(r.pairs) \in Nat
    BY RequestPairs
  <1>2. Given(r, key) \subseteq 0 .. Len(r.pairs)
    BY <1>1 DEF Given
  <1>3. \E m \in Given(r, key) : \A l \in Given(r, key) : l <= m
    BY <1>1, <1>2, LargestNat
  <1> DEFINE last == CHOOSE m \in Given(r, key) : \A l \in Given(r, key) : l <= m
  <1>4. last \in Given(r, key) /\ \A l \in Given(r, key) : l <= last
    BY <1>3
  <1>5. Last(r, key) = r.pairs[last].value
    BY DEF Last
  <1> HIDE DEF last
  <1>6. last \in 1 .. Len(r.pairs) /\ r.pairs[last].key = key
    BY <1>4 DEF Given
  <1>7. \A l \in last + 1 .. Len(r.pairs) : r.pairs[l].key # key
    <2> SUFFICES ASSUME NEW l \in last + 1 .. Len(r.pairs), r.pairs[l].key = key PROVE FALSE
      OBVIOUS
    <2>1. l \in Given(r, key)
      BY <1>1, <1>6 DEF Given
    <2> QED
      BY <1>1, <1>4, <1>6, <2>1
  <1> QED
    BY <1>5, <1>6, <1>7 DEF Latest

\* What a fresh pointer gives is what it points to.
LEMMA FreshPointer ==
    ASSUME NEW value, NEW any
    PROVE  ~Fresh(value).null /\ Deref(Fresh(value), any) = {value}
  BY DEF Fresh, Deref

\* A thread that has taken all pairs of a complete request has its type and
\* its content.
LEMMA ParsedOwn ==
    ASSUME Shapes, NEW w \in Worker, Own(w), Parsed(w), Complete(request[w])
    PROVE  /\ query_type[w] = Fresh(Last(request[w], "qt"))
           /\ content[w] = Fresh(Last(request[w], "content"))
  <1>1. request[w] \in Requests \cup {NoRequest} /\ pairs[w] = << >>
    BY DEF Shapes, Parsed
  <1>2. Len(request[w].pairs) \in Nat /\ Len(pairs[w]) = 0
    BY <1>1, RequestPairs
  <1>3. Taken(w) = Len(request[w].pairs)
    BY <1>2 DEF Taken
  <1>4. /\ Latest(query_type[w], request[w], "qt", Len(request[w].pairs))
        /\ Latest(content[w], request[w], "content", Len(request[w].pairs))
    BY <1>3 DEF Own, Parsed
  <1> QED
    BY <1>1, <1>4, AllTaken DEF Complete

\* An action that leaves what is shared alone.
LEMMA SharedKept ==
    ASSUME Store, UNCHANGED global
    PROVE  /\ UNCHANGED Loaded
           /\ Store'
           /\ \A g \in Keys(TermIndex) : TermIndex'[g] = TermIndex[g]
           /\ \A g : CoocOf(g)' = CoocOf(g)
  BY DEF Store, global, Loaded, Accepts, CoocOf

\* Every reply that is not a list of terms is a reply.
LEMMA Replies == {Working, InputError, NoResult, Hot} \subseteq Reply
  BY DEF Reply

\* A request arrives: nothing of it is taken yet.
LEMMA DoWorkFine ==
    ASSUME ThreadInv, NEW w \in Worker, NEW r \in Requests, DoWork(w, r)
    PROVE  Fine(w)
  <1> USE DEF ThreadInv
  <1>1. UNCHANGED global /\ UNCHANGED <<asked, todo, v_tmp>> /\ up /\ pc[w] = "idle"
    BY DEF DoWork, walk
  <1>2. r.pairs \in Seq(Pair)
    BY RequestPairs
  <1>3. Stale(query_type[w]) \in Pointer /\ Stale(content[w]) \in Pointer
    <2>1. query_type[w] \in Pointer /\ content[w] \in Pointer
      BY DEF Shapes
    <2>2. \A p \in Pointer : Stale(p) \in Pointer
      BY DEF Stale, Pointer
    <2> QED
      BY <2>1, <2>2
  <1>4. Shapes'
    BY <1>1, <1>2, <1>3, Replies, ZenonT(60) DEF Shapes, DoWork, Return
  <1>5. \A v \in Worker \ {w} : Mine(v)' = Mine(v)
    BY <1>1 DEF Shapes, DoWork, Return, Mine
  <1>6. request'[w] = r
    BY DEF Shapes, DoWork
  <1>7. CASE r.json
    <2>1. pc'[w] = "pairs" /\ pairs'[w] = r.pairs
      BY <1>7 DEF Shapes, DoWork
    <2>2. Taken(w)' = 0
      BY <1>2, <1>6, <2>1 DEF Taken
    <2>3. Own(w)'
      BY <1>2, <1>6, <2>1, <2>2 DEF Own, Latest
    <2>4. Walking(w)'
      BY <1>1, <2>1 DEF Walking, global
    <2> QED
      BY <1>1, <1>4, <1>5, <2>3, <2>4, SharedKept DEF Fine
  <1>8. CASE ~r.json
    <2>1. pc'[w] = "idle" /\ ~Complete(request'[w])
      BY <1>6, <1>8 DEF Shapes, DoWork, Return, Complete, WellFormed
    <2>2. Own(w)' /\ Walking(w)'
      BY <1>1, <2>1 DEF Own, Walking, global
    <2> QED
      BY <1>1, <1>4, <1>5, <2>2, SharedKept DEF Fine
  <1> QED
    BY <1>7, <1>8

\* A thread that returns with all pairs of its request taken, or none left to
\* take: what it has to show is that a complete request is answered.
LEMMA ReturnFine ==
    ASSUME ThreadInv, NEW w \in Worker, pc[w] # "idle", NEW a \in Reply, Return(w, a),
           UNCHANGED Loaded, Store', \A g \in Keys(TermIndex) : TermIndex'[g] = TermIndex[g],
           UNCHANGED <<request, workData>>,
           pairs' \in [Worker -> Seq(Pair)], asked' \in [Worker -> Hash \cup {0}],
           todo' \in [Worker -> SUBSET Hash], v_tmp' \in [Worker -> SUBSET Entry],
           \A v \in Worker \ {w} : /\ pairs'[v] = pairs[v] /\ asked'[v] = asked[v]
                                   /\ todo'[v] = todo[v] /\ v_tmp'[v] = v_tmp[v],
           Complete(request[w]) => Answered(request[w], a)
    PROVE  Fine(w)
  <1> USE DEF ThreadInv
  <1>1. up
    BY DEF Walking
  <1>2. Shapes'
    BY DEF Shapes, Return, workData
  <1>3. \A v \in Worker \ {w} : Mine(v)' = Mine(v)
    BY DEF Shapes, Return, Mine, workData
  <1>4. pc'[w] = "idle" /\ reply'[w] = a /\ request'[w] = request[w]
    BY DEF Shapes, Return
  <1>5. Own(w)' /\ Walking(w)'
    BY <1>1, <1>4 DEF Own, Walking, Loaded
  <1> QED
    BY <1>2, <1>3, <1>5 DEF Fine

\* A pair that is no string: the request is not well-formed.
LEMMA NotAStringFine ==
    ASSUME ThreadInv, NEW w \in Worker, NotAString(w)
    PROVE  Fine(w)
  <1> USE DEF ThreadInv
  <1>1. /\ pc[w] = "pairs" /\ Head(pairs[w]).key \in {"qt", "content"} /\ ~Head(pairs[w]).str
        /\ pairs[w] \in Seq(Pair) /\ pairs[w] # << >>
    BY DEF NotAString, Shapes
  <1>2. Len(pairs[w]) \in Nat \ {0} /\ Head(pairs[w]) = pairs[w][1]
    BY <1>1
  <1>3. Head(pairs[w]) = request[w].pairs[Taken(w) + 1] /\ Taken(w) \in Nat
    BY <1>1, <1>2 DEF Own
  <1>4. Taken(w) + 1 \in 1 .. Len(request[w].pairs)
    <2>1. Len(request[w].pairs) \in Nat
      BY RequestPairs DEF Shapes
    <2>2. \A a \in Nat, b \in Nat \ {0} : a - b \in Nat => a - b + 1 \in 1 .. a
      OBVIOUS
    <2> QED
      BY <1>2, <1>3, <2>1, <2>2 DEF Taken
  <1>5. ~WellFormed(request[w])
    BY <1>1, <1>3, <1>4 DEF WellFormed, Given
  <1>6. pairs' = [pairs EXCEPT ![w] = << >>] /\ Return(w, InputError)
        /\ UNCHANGED <<global, request, workData, asked, todo, v_tmp>>
    BY DEF NotAString, walk
  <1>7. pairs' \in [Worker -> Seq(Pair)] /\ \A v \in Worker \ {w} : pairs'[v] = pairs[v]
    BY <1>6 DEF Shapes
  <1> QED
    BY <1>1, <1>5, <1>6, <1>7, SharedKept, ReturnFine, Replies DEF Shapes, Complete

\* A pair is taken: the pointers follow.
LEMMA TakePairFine ==
    ASSUME ThreadInv, NEW w \in Worker, TakePair(w)
    PROVE  Fine(w)
  <1> USE DEF ThreadInv
  <1> DEFINE r == request[w]
             n == Taken(w)
             pair == Head(pairs[w])
  <1>1. /\ pc[w] = "pairs" /\ pairs[w] \in Seq(Pair) /\ pairs[w] # << >>
        /\ UNCHANGED <<global, pc, request, asked, todo, v_tmp, reply>>
        /\ query_type' = IF pair.key = "qt" THEN [query_type EXCEPT ![w] = Fresh(pair.value)] ELSE query_type
        /\ content' = IF pair.key = "content" THEN [content EXCEPT ![w] = Fresh(pair.value)] ELSE content
        /\ pairs' = [pairs EXCEPT ![w] = Tail(@)]
    BY DEF TakePair, Shapes, walk, Assigned
  <1>2. /\ Len(pairs[w]) \in Nat \ {0} /\ pair = pairs[w][1] /\ pair \in Pair
        /\ Tail(pairs[w]) \in Seq(Pair) /\ Len(Tail(pairs[w])) = Len(pairs[w]) - 1
        /\ \A k \in 1 .. Len(pairs[w]) - 1 : Tail(pairs[w])[k] = pairs[w][k + 1]
    BY <1>1
  <1>3. Fresh(pair.value) \in Pointer
    BY <1>2 DEF Fresh, Pointer, Pair
  <1>4. Shapes'
    BY <1>1, <1>2, <1>3 DEF Shapes
  <1>5. \A v \in Worker \ {w} : Mine(v)' = Mine(v)
    BY <1>1 DEF Shapes, Mine
  <1>6. Walking(w)'
    BY <1>1 DEF Walking, global
  <1>7. /\ n \in Nat /\ Len(r.pairs) \in Nat /\ pair = r.pairs[n + 1]
        /\ \A k \in 1 .. Len(pairs[w]) : pairs[w][k] = r.pairs[n + k]
        /\ Latest(query_type[w], r, "qt", n) /\ Latest(content[w], r, "content", n)
    BY <1>1, <1>2, RequestPairs DEF Own, Shapes
  <1>8. /\ pairs'[w] = Tail(pairs[w]) /\ request'[w] = r /\ pc'[w] = "pairs"
        /\ query_type'[w] = IF pair.key = "qt" THEN Fresh(pair.value) ELSE query_type[w]
        /\ content'[w] = IF pair.key = "content" THEN Fresh(pair.value) ELSE content[w]
    BY <1>1 DEF Shapes
  <1>9. Taken(w)' = n + 1
    <2>1. \A a, b \in Nat : a - (b - 1) = a - b + 1
      OBVIOUS
    <2>2. Len(r.pairs) - (Len(pairs[w]) - 1) = Len(r.pairs) - Len(pairs[w]) + 1
      BY <1>2, <1>7, <2>1
    <2>3. Taken(w)' = Len(r.pairs) - (Len(pairs[w]) - 1)
      BY <1>2, <1>8 DEF Taken
    <2> QED
      BY <2>2, <2>3 DEF Taken
  <1> HIDE DEF r, n, pair
  <1>10. ASSUME NEW key, NEW p, NEW q, Latest(p, r, key, n),
                q = IF pair.key = key THEN Fresh(pair.value) ELSE p
         PROVE  Latest(q, r, key, n + 1)
    <2> SUFFICES ASSUME NEW m \in 1 .. n + 1, r.pairs[m].key = key,
                        \A l \in m + 1 .. n + 1 : r.pairs[l].key # key
                 PROVE  q = Fresh(r.pairs[m].value)
      BY DEF Latest
    <2>1. CASE m = n + 1
      BY <1>7, <1>10, <2>1
    <2>2. CASE m # n + 1
      <3>1. m \in 1 .. n /\ n + 1 \in m + 1 .. n + 1
        BY <1>7, <2>2
      <3>2. pair.key # key /\ \A l \in m + 1 .. n : r.pairs[l].key # key
        BY <1>7, <3>1
      <3> QED
        BY <1>10, <3>1, <3>2 DEF Latest
    <2> QED
      BY <2>1, <2>2
  <1>11. \A k \in 1 .. Len(pairs'[w]) : pairs'[w][k] = r.pairs[n + 1 + k]
    <2> SUFFICES ASSUME NEW k \in 1 .. Len(pairs[w]) - 1 PROVE Tail(pairs[w])[k] = r.pairs[n + 1 + k]
      BY <1>2, <1>8
    <2>1. k + 1 \in 1 .. Len(pairs[w]) /\ n + (k + 1) = n + 1 + k
      BY <1>2, <1>7
    <2> QED
      BY <1>2, <1>7, <2>1
  <1>12. Latest(query_type'[w], r, "qt", n + 1) /\ Latest(content'[w], r, "content", n + 1)
    BY <1>7, <1>8, <1>10
  <1>13. Own(w)'
    BY <1>7, <1>8, <1>9, <1>11, <1>12 DEF Own, Latest
  <1> QED
    BY <1>1, <1>4, <1>5, <1>6, <1>13, SharedKept DEF Fine

\* No content: the request gives none.
LEMMA NoContentFine ==
    ASSUME ThreadInv, NEW w \in Worker, NoContent(w)
    PROVE  Fine(w)
  <1> USE DEF ThreadInv
  <1>1. /\ Parsed(w) /\ content[w].null /\ pc[w] = "pairs" /\ Return(w, InputError)
        /\ UNCHANGED <<global, request, pairs, workData, asked, todo, v_tmp>>
    BY DEF NoContent, Parsed, walk
  <1>2. ~Complete(request[w])
    BY <1>1, ParsedOwn, FreshPointer
  <1> QED
    BY <1>1, <1>2, SharedKept, ReturnFine, Replies DEF Shapes

\* No type: the thread ends.
LEMMA NoQueryTypeFine ==
    ASSUME ThreadInv, NEW w \in Worker, NoQueryType(w)
    PROVE  Fine(w)
  <1> USE DEF ThreadInv
  <1>1. /\ pc[w] = "pairs" /\ pc' = [pc EXCEPT ![w] = "undefined"]
        /\ UNCHANGED <<global, request, pairs, query_type, content, asked, todo, v_tmp, reply>>
    BY DEF NoQueryType, Parsed, workData, walk
  <1>2. Shapes' /\ pc'[w] = "undefined"
    BY <1>1 DEF Shapes
  <1>3. \A v \in Worker \ {w} : Mine(v)' = Mine(v)
    BY <1>1 DEF Shapes, Mine
  <1>4. Walking(w)' /\ Own(w)'
    BY <1>1, <1>2 DEF Walking, Own, global
  <1> QED
    BY <1>1, <1>2, <1>3, <1>4, SharedKept DEF Fine

\* The type that a thread acts on is the request's.
LEMMA DispatchOwn ==
    ASSUME ThreadInv, NEW w \in Worker, NEW type, Dispatch(w, type), Complete(request[w])
    PROVE  Last(request[w], "qt") = type
  <1>1. query_type[w] = Fresh(Last(request[w], "qt")) /\ type \in Deref(query_type[w], {0, 1, 2})
    BY ParsedOwn DEF ThreadInv, Dispatch
  <1> QED
    BY <1>1, FreshPointer

\* Request type 0.
LEMMA GetHotTermFine ==
    ASSUME ThreadInv, NEW w \in Worker, GetHotTerm(w)
    PROVE  Fine(w)
  <1> USE DEF ThreadInv
  <1>1. /\ Dispatch(w, 0) /\ pc[w] = "pairs" /\ Return(w, Hot)
        /\ UNCHANGED <<global, request, pairs, workData, asked, todo, v_tmp>>
    BY DEF GetHotTerm, Dispatch, Parsed, walk
  <1>2. Complete(request[w]) => Answered(request[w], Hot)
    BY <1>1, DispatchOwn DEF Answered
  <1> QED
    BY <1>1, <1>2, SharedKept, ReturnFine, Replies DEF Shapes

\* An unknown type.
LEMMA OtherTypeFine ==
    ASSUME ThreadInv, NEW w \in Worker, OtherType(w)
    PROVE  Fine(w)
  <1> USE DEF ThreadInv
  <1>1. /\ Dispatch(w, 2) /\ pc[w] = "pairs" /\ Return(w, NoResult)
        /\ UNCHANGED <<global, request, pairs, workData, asked, todo, v_tmp>>
    BY DEF OtherType, Dispatch, Parsed, walk
  <1>2. Complete(request[w]) => Answered(request[w], NoResult)
    BY <1>1, DispatchOwn DEF Answered
  <1> QED
    BY <1>1, <1>2, SharedKept, ReturnFine, Replies DEF Shapes

\* Request type 1: the term looked for is the request's.
LEMMA FindTermFine ==
    ASSUME ThreadInv, NEW w \in Worker, NEW h \in Hash, FindTerm(w, h)
    PROVE  Fine(w)
  <1> USE DEF ThreadInv
  <1>1. /\ Dispatch(w, 1) /\ pc[w] = "pairs" /\ h \in Deref(content[w], Hash)
        /\ UNCHANGED <<global, request, pairs, query_type, content>>
    BY DEF FindTerm, Dispatch, Parsed, workData
  <1>2. Complete(request[w]) => Last(request[w], "qt") = 1 /\ Last(request[w], "content") = h
    <2> SUFFICES ASSUME Complete(request[w])
                 PROVE  Last(request[w], "qt") = 1 /\ Last(request[w], "content") = h
      OBVIOUS
    <2>1. content[w] = Fresh(Last(request[w], "content"))
      BY <1>1, ParsedOwn DEF Dispatch
    <2> QED
      BY <1>1, <2>1, DispatchOwn, FreshPointer
  <1>3. CASE TermIndex[h] = End
    <2>1. Return(w, Cooc(h, {})) /\ UNCHANGED <<asked, todo, v_tmp>>
      BY <1>3 DEF FindTerm, walk
    <2>2. Cooc(h, {}) \in Reply /\ (Complete(request[w]) => Answered(request[w], Cooc(h, {})))
      BY <1>2 DEF Reply, Cooc, Answered
    <2> QED
      BY <1>1, <2>1, <2>2, SharedKept, ReturnFine DEF Shapes, workData
  <1>4. CASE TermIndex[h] # End
    <2>1. /\ asked' = [asked EXCEPT ![w] = h]
          /\ todo' = [todo EXCEPT ![w] = Keys(CoocOf(h))]
          /\ v_tmp' = [v_tmp EXCEPT ![w] = {}]
          /\ pc' = [pc EXCEPT ![w] = "walk"]
          /\ reply' = reply
      BY <1>4 DEF FindTerm, CoocOf
    <2>2. Keys(CoocOf(h)) \subseteq Hash /\ h \in Keys(TermIndex)
      BY <1>4 DEF Keys
    <2>3. Shapes'
      BY <1>1, <2>1, <2>2 DEF Shapes
    <2>4. \A v \in Worker \ {w} : Mine(v)' = Mine(v)
      BY <1>1, <2>1 DEF Shapes, Mine
    <2>5. pc'[w] = "walk" /\ asked'[w] = h /\ todo'[w] = Keys(CoocOf(h)) /\ request'[w] = request[w]
      BY <1>1, <2>1 DEF Shapes
    <2>6. Own(w)'
      BY <1>2, <2>5 DEF Own
    <2>7. Walking(w)'
      <3>1. up /\ up' = up /\ TermIndex' = TermIndex /\ index' = index
        BY <1>1 DEF Walking, global
      <3>2. CoocOf(h)' = CoocOf(h)
        BY <3>1 DEF CoocOf
      <3> QED
        BY <2>2, <2>5, <3>1, <3>2 DEF Walking, CoocOf
    <2> QED
      BY <1>1, <2>3, <2>4, <2>6, <2>7, SharedKept DEF Fine
  <1> QED
    BY <1>3, <1>4

\* The key that a visit may insert leads to the first term, and there is one.
LEMMA TouchedFine ==
    ASSUME ThreadInv, NEW w \in Worker, pc[w] = "walk", NEW h \in todo[w],
           UNCHANGED Loaded, TermIndex' = Touched(h)
    PROVE  /\ Store'
           /\ \A g \in Keys(TermIndex) : TermIndex'[g] = TermIndex[g]
           /\ Touched(h)[h] \in Nat /\ Touched(h)[h] < Len(index.TermInfo)
           /\ Keys(TermIndex) \subseteq Keys(TermIndex')
           /\ \A g \in Keys(TermIndex) : CoocOf(g)' = CoocOf(g)
  <1> USE DEF ThreadInv
  <1>1. up /\ asked[w] \in Keys(TermIndex) /\ h \in Hash /\ TermIndex \in Map
    BY DEF Walking, Shapes, Store
  <1>2. /\ Len(index.TermInfo) \in Nat
        /\ \A g \in Keys(TermIndex) : TermIndex[g] \in Nat /\ TermIndex[g] < Len(index.TermInfo)
    BY <1>1, ImagesAssumption DEF IsImage, Store, Keys, Map
  <1>3. 0 < Len(index.TermInfo)
    BY <1>1, <1>2
  <1>4. /\ TermIndex' \in Map
        /\ \A g \in Hash : TermIndex'[g] = IF g = h /\ TermIndex[h] = End THEN 0 ELSE TermIndex[g]
    BY <1>1 DEF Touched, Map
  <1>5. \A g \in Keys(TermIndex) : TermIndex'[g] = TermIndex[g]
    BY <1>4 DEF Keys
  <1>6. \A g \in Keys(TermIndex') : TermIndex'[g] < Len(index.TermInfo)
    BY <1>2, <1>3, <1>4 DEF Keys
  <1>7. TermIndex'[h] \in Nat /\ TermIndex'[h] < Len(index.TermInfo)
    BY <1>1, <1>2, <1>3, <1>4 DEF Keys
  <1>8. Store'
    BY <1>4, <1>6 DEF Store, Loaded, Accepts
  <1>9. Keys(TermIndex) \subseteq Keys(TermIndex')
    BY <1>5 DEF Keys
  <1>10. \A g \in Keys(TermIndex) : CoocOf(g)' = CoocOf(g)
    BY <1>5 DEF CoocOf, Loaded
  <1> QED
    BY <1>5, <1>7, <1>8, <1>9, <1>10

\* int(log10(a / b)) is a number.
LEMMA Log10IsNumber == \A a, b : Log10(a, b) \in Int
  <1> SUFFICES ASSUME NEW a, NEW b PROVE Log10(a, b) \in Int
    OBVIOUS
  <1> DEFINE digits(q) == Cardinality({e \in 1 .. 9 : 10 ^ e <= q})
  <1>1. ASSUME NEW q PROVE digits(q) \in Nat
    <2>1. \A m, n \in Int : IsFiniteSet(m .. n)
      BY FS_Interval
    <2>2. 1 \in Int /\ 9 \in Int => IsFiniteSet(1 .. 9)
      BY <2>1, Zenon
    <2>3. IsFiniteSet({e \in 1 .. 9 : 10 ^ e <= q})
      BY <2>2, FS_Subset
    <2> QED
      BY <2>3, FS_CardinalityType
  <1>2. Log10(a, b) = IF a >= b THEN digits(a \div b) ELSE -digits(b \div a)
    BY DEF Log10
  <1> HIDE DEF digits
  <1>3. digits(a \div b) \in Nat /\ digits(b \div a) \in Nat
    BY <1>1
  <1> QED
    BY <1>2, <1>3

\* A square times a count is a count.
LEMMA SquareTimes == \A n \in Nat, e \in Int : n * e * e \in Nat
  <1> SUFFICES ASSUME NEW n \in Nat, NEW e \in Int PROVE n * e * e \in Nat
    OBVIOUS
  <1>1. e * e \in Nat
    BY Z3
  <1>2. n * e * e = n * (e * e)
    BY Z3
  <1>3. n * (e * e) \in Nat
    <2> DEFINE s == e * e
    <2>1. s \in Nat
      BY <1>1
    <2> HIDE DEF s
    <2>2. n * s \in Nat
      BY <2>1, Z3
    <2> QED
      BY <2>2 DEF s
  <1> QED
    BY <1>2, <1>3

\* A weight is a number, also where it is computed from what happens to be
\* there.
LEMMA WeightsAreNumbers ==
    ASSUME ThreadInv, NEW w \in Worker, pc[w] = "walk", NEW h \in todo[w],
           Touched(h)[h] \in Nat, Touched(h)[h] < Len(index.TermInfo)
    PROVE  Weights(asked[w], h) \subseteq Nat
  <1> USE DEF ThreadInv
  <1> DEFINE rel == Relation(asked[w], h)
             Rel == [num_now : Nat, num_history : Nat]
             Term == [df_now : Nat, df_history : Nat, cooc_term : Map]
  <1>1. /\ up /\ asked[w] \in Keys(TermIndex) /\ asked[w] \in Hash
        /\ h \in Keys(CoocOf(asked[w])) /\ h \in Hash
    BY DEF Walking, Shapes, Keys
  <1>2. /\ index.TermInfo \in Seq(Term) /\ index.RelateInfo \in Seq(Rel)
        /\ TermIndex[asked[w]] \in Nat /\ TermIndex[asked[w]] < Len(index.TermInfo)
    BY <1>1, ImagesAssumption DEF IsImage, Store, Keys, Map
  <1> HIDE DEF Rel, Term
  <1>3. index.TermInfo[TermIndex[asked[w]] + 1] \in Term
    BY <1>2
  <1>4. rel \in Nat
    BY <1>1, <1>3 DEF Relation, CoocOf, At, Keys, Map, Term
  <1>5. CASE ~Computable(asked[w], h)
    BY <1>5, ServerAssumption DEF Weights
  <1>6. CASE Computable(asked[w], h)
    <2> HIDE DEF rel
    <2>1. rel < Len(index.RelateInfo)
      BY <1>6 DEF Computable, rel
    <2>2. index.RelateInfo[rel + 1] \in Rel
      BY <1>2, <1>4, <2>1
    <2>3. At(index.RelateInfo, rel).num_now \in Nat
      BY <2>2 DEF At, Rel
    <2>4. Weight(rel, Touched(h)[h], weibo_num) \in Nat
      BY <2>3, Log10IsNumber, SquareTimes DEF Weight
    <2> QED
      BY <1>6, <2>4 DEF Weights, rel
  <1> QED
    BY <1>5, <1>6

\* A visit.
LEMMA VisitFine ==
    ASSUME ThreadInv, NEW w \in Worker, NEW h \in Hash, Visit(w, h)
    PROVE  Fine(w)
  <1> USE DEF ThreadInv
  <1>1. /\ pc[w] = "walk" /\ h \in todo[w] /\ TermIndex' = Touched(h)
        /\ UNCHANGED <<up, index, weibo_num>>
        /\ UNCHANGED <<pc, request, pairs, query_type, content, asked, reply>>
        /\ todo' = [todo EXCEPT ![w] = @ \ {h}]
    BY DEF Visit, workData
  <1>2. PICK weight \in Weights(asked[w], h) :
           v_tmp' = [v_tmp EXCEPT ![w] =
                       @ \cup {[key |-> h, term |-> Touched(h)[h], weight |-> weight]}]
    BY DEF Visit
  <1>3. /\ Store'
        /\ \A g \in Keys(TermIndex) : TermIndex'[g] = TermIndex[g]
        /\ Touched(h)[h] \in Nat /\ Touched(h)[h] < Len(index.TermInfo)
        /\ Keys(TermIndex) \subseteq Keys(TermIndex')
        /\ \A g \in Keys(TermIndex) : CoocOf(g)' = CoocOf(g)
    BY <1>1, TouchedFine DEF Loaded
  <1>4. [key |-> h, term |-> Touched(h)[h], weight |-> weight] \in Entry
    BY <1>1, <1>3, WeightsAreNumbers DEF Entry
  <1>5. Shapes'
    BY <1>1, <1>2, <1>4 DEF Shapes
  <1>6. \A v \in Worker \ {w} : Mine(v)' = Mine(v)
    BY <1>1, <1>2 DEF Shapes, Mine
  <1>7. Own(w)'
    BY <1>1 DEF Own
  <1>8. asked[w] \in Keys(TermIndex) /\ todo[w] \subseteq Keys(CoocOf(asked[w])) /\ up
    BY <1>1 DEF Walking
  <1>9. todo'[w] = todo[w] \ {h} /\ asked'[w] = asked[w] /\ pc'[w] = "walk"
    BY <1>1 DEF Shapes
  <1>10. CoocOf(asked[w])' = CoocOf(asked[w]) /\ asked[w] \in Keys(TermIndex')
    BY <1>1, <1>3, <1>8 DEF CoocOf
  <1>11. todo'[w] \subseteq Keys(CoocOf(asked[w])')
    BY <1>8, <1>9, <1>10
  <1>12. Walking(w)'
    BY <1>1, <1>8, <1>9, <1>10, <1>11 DEF Walking, CoocOf, Keys
  <1> QED
    BY <1>1, <1>3, <1>5, <1>6, <1>7, <1>12 DEF Fine, Loaded

\* A visit that ends the process.
LEMMA VisitUndefinedFine ==
    ASSUME ThreadInv, NEW w \in Worker, NEW h \in Hash, VisitUndefined(w, h)
    PROVE  Fine(w)
  <1> USE DEF ThreadInv
  <1>1. /\ pc[w] = "walk" /\ pc' = [pc EXCEPT ![w] = "undefined"]
        /\ UNCHANGED <<global, request, pairs, query_type, content, asked, todo, v_tmp, reply>>
    BY DEF VisitUndefined, workData, walk
  <1>2. Shapes' /\ pc'[w] = "undefined"
    BY <1>1 DEF Shapes
  <1>3. \A v \in Worker \ {w} : Mine(v)' = Mine(v)
    BY <1>1 DEF Shapes, Mine
  <1>4. Walking(w)' /\ Own(w)'
    BY <1>1, <1>2 DEF Walking, Own, global
  <1> QED
    BY <1>1, <1>2, <1>3, <1>4, SharedKept DEF Fine

\* readahead fails: an empty answer to a request of type 1.
LEMMA MmapErrorFine ==
    ASSUME ThreadInv, NEW w \in Worker, NEW h \in Hash, MmapError(w, h)
    PROVE  Fine(w)
  <1> USE DEF ThreadInv
  <1>1. /\ pc[w] = "walk" /\ h \in todo[w] /\ TermIndex' = Touched(h) /\ Return(w, NoResult)
        /\ todo' = [todo EXCEPT ![w] = {}]
        /\ asked' = [asked EXCEPT ![w] = 0]
        /\ v_tmp' = [v_tmp EXCEPT ![w] = {}]
        /\ UNCHANGED Loaded /\ UNCHANGED <<request, pairs, workData>>
    BY DEF MmapError, Loaded
  <1>2. Store' /\ \A g \in Keys(TermIndex) : TermIndex'[g] = TermIndex[g]
    BY <1>1, TouchedFine
  <1>3. Complete(request[w]) => Answered(request[w], NoResult)
    BY <1>1 DEF Own, Answered
  <1>4. /\ asked' \in [Worker -> Hash \cup {0}] /\ todo' \in [Worker -> SUBSET Hash]
        /\ v_tmp' \in [Worker -> SUBSET Entry] /\ pairs' \in [Worker -> Seq(Pair)]
        /\ \A v \in Worker \ {w} : /\ pairs'[v] = pairs[v] /\ asked'[v] = asked[v]
                                   /\ todo'[v] = todo[v] /\ v_tmp'[v] = v_tmp[v]
    BY <1>1 DEF Shapes
  <1> QED
    BY <1>1, <1>2, <1>3, <1>4, ReturnFine, Replies

\* The walk is over.
LEMMA CoocReplyFine ==
    ASSUME ThreadInv, NEW w \in Worker, CoocReply(w)
    PROVE  Fine(w)
  <1> USE DEF ThreadInv
  <1>1. /\ pc[w] = "walk"
        /\ asked' = [asked EXCEPT ![w] = 0]
        /\ v_tmp' = [v_tmp EXCEPT ![w] = {}]
        /\ UNCHANGED <<global, request, pairs, workData, todo>>
    BY DEF CoocReply
  <1>2. PICK L \in Listed(v_tmp[w]) : Return(w, Cooc(asked[w], L))
    BY DEF CoocReply
  <1>3. asked[w] \in Hash /\ L \subseteq Entry
    BY <1>1, <1>2 DEF Walking, Keys, Listed, Shapes
  <1>4. Cooc(asked[w], L) \in Reply
    BY <1>3 DEF Cooc, Reply
  <1>5. Complete(request[w]) => Answered(request[w], Cooc(asked[w], L))
    BY <1>1 DEF Own, Answered, Cooc
  <1>6. /\ asked' \in [Worker -> Hash \cup {0}] /\ todo' \in [Worker -> SUBSET Hash]
        /\ v_tmp' \in [Worker -> SUBSET Entry] /\ pairs' \in [Worker -> Seq(Pair)]
        /\ \A v \in Worker \ {w} : /\ pairs'[v] = pairs[v] /\ asked'[v] = asked[v]
                                   /\ todo'[v] = todo[v] /\ v_tmp'[v] = v_tmp[v]
    BY <1>1 DEF Shapes
  <1> QED
    BY <1>1, <1>2, <1>4, <1>5, <1>6, SharedKept, ReturnFine

-----------------------------------------------------------------------------
\* At the start no thread has a request.
LEMMA InitThreadInv == Init => ThreadInv
  <1> SUFFICES ASSUME Init PROVE ThreadInv
    OBVIOUS
  <1>1. NULL \in Pointer
    BY DEF NULL, Pointer
  <1>2. NoIndex.TermIndex \in Map
    BY DEF NoIndex, Map
  <1>3. ~Complete(NoRequest)
    BY DEF Complete, WellFormed, NoRequest
  <1>4. Store
    BY <1>2 DEF Init, Store
  <1>5. Shapes
    BY <1>1, Replies DEF Init, Shapes
  <1>6. \A v \in Worker : pc[v] = "idle" /\ reply[v] = InputError /\ request[v] = NoRequest
    BY DEF Init
  <1>7. \A v \in Worker : Walking(v) /\ Own(v)
    BY <1>3, <1>6 DEF Walking, Own
  <1> QED
    BY <1>4, <1>5, <1>7 DEF ThreadInv

\* What is read of word_net.n is a number.
LEMMA WeiboNumIsNumber == \A n \in Nat : WeiboNumRead(n) \subseteq Nat
  <1>1. \A n \in Nat : n \div 10 \in Nat
    OBVIOUS
  <1> QED
    BY <1>1, ServerAssumption DEF WeiboNumRead

\* Loading finds the threads without a request.
LEMMA CreateGlobalDataFine ==
    ASSUME ThreadInv, NEW image \in Images, CreateGlobalData(image)
    PROVE  ThreadInv'
  <1> USE DEF ThreadInv
  <1>1. /\ ~up /\ Accepts(image) /\ up' = TRUE /\ index' = image /\ TermIndex' = image.TermIndex
        /\ weibo_num' \in WeiboNumRead(image.total.weibo_num)
        /\ UNCHANGED <<pc, request, pairs, query_type, content, asked, todo, v_tmp, reply>>
    BY DEF CreateGlobalData, workData, walk
  <1>2. /\ image.TermIndex \in Map /\ image.total.weibo_num \in Nat
        /\ image.total.term_num = Len(image.TermInfo)
    BY ImagesAssumption DEF IsImage
  <1>3. weibo_num' \in Nat
    BY <1>1, <1>2, WeiboNumIsNumber
  <1>4. Store'
    BY <1>1, <1>2, <1>3 DEF Store, Accepts, Keys
  <1>5. Shapes'
    BY <1>1 DEF Shapes
  <1>6. \A v \in Worker : pc[v] = "idle"
    BY <1>1 DEF Walking
  <1>7. \A v \in Worker : Walking(v)' /\ Own(v)'
    BY <1>1, <1>6 DEF Walking, Own
  <1> QED
    BY <1>4, <1>5, <1>7

\* One thread's step is fine for all.
LEMMA FineForAll ==
    ASSUME ThreadInv, NEW w \in Worker, Fine(w)
    PROVE  ThreadInv'
  <1>1. Store' /\ Shapes'
    BY DEF Fine
  <1>2. ASSUME NEW v \in Worker PROVE Walking(v)' /\ Own(v)'
    <2>1. CASE v = w
      BY <2>1 DEF Fine
    <2>2. CASE v # w
      <3>1. /\ pc'[v] = pc[v] /\ request'[v] = request[v] /\ pairs'[v] = pairs[v]
            /\ query_type'[v] = query_type[v] /\ content'[v] = content[v]
            /\ asked'[v] = asked[v] /\ todo'[v] = todo[v] /\ reply'[v] = reply[v]
            /\ up' = up /\ index' = index
        BY <2>2 DEF Fine, Mine, Loaded
      <3>2. Walking(v) /\ Own(v)
        BY DEF ThreadInv
      <3>3. Own(v)'
        BY <3>1, <3>2 DEF Own, Taken
      <3>4. \A g \in Keys(TermIndex) : g \in Keys(TermIndex') /\ CoocOf(g)' = CoocOf(g)
        BY <3>1 DEF Fine, Keys, CoocOf
      <3>5. ASSUME pc[v] = "walk"
            PROVE  asked'[v] \in Keys(TermIndex') /\ todo'[v] \subseteq Keys(CoocOf(asked[v])')
        <4>1. asked[v] \in Keys(TermIndex) /\ todo[v] \subseteq Keys(CoocOf(asked[v]))
          BY <3>2, <3>5 DEF Walking
        <4>2. asked[v] \in Keys(TermIndex') /\ CoocOf(asked[v])' = CoocOf(asked[v])
          BY <3>1, <3>4, <4>1 DEF CoocOf
        <4> QED
          BY <3>1, <4>1, <4>2
      <3>6. Walking(v)'
        BY <3>1, <3>2, <3>5 DEF Walking, CoocOf, Keys
      <3> QED
        BY <3>3, <3>6
    <2> QED
      BY <2>1, <2>2
  <1> QED
    BY <1>1, <1>2 DEF ThreadInv

\* Every step of a thread is fine.
LEMMA WorkFine ==
    ASSUME ThreadInv, NEW w \in Worker, Work(w)
    PROVE  Fine(w)
  BY DoWorkFine, NotAStringFine, TakePairFine, NoContentFine, NoQueryTypeFine, GetHotTermFine,
     OtherTypeFine, FindTermFine, VisitFine, VisitUndefinedFine, MmapErrorFine, CoocReplyFine
  DEF Work

\* Every step keeps the invariant.
LEMMA NextThreadInv ==
    ASSUME ThreadInv, [Next]_vars
    PROVE  ThreadInv'
  <1>1. CASE \E image \in Images : CreateGlobalData(image)
    BY <1>1, CreateGlobalDataFine
  <1>2. CASE \E w \in Worker : Work(w)
    BY <1>2, WorkFine, FineForAll
  <1>3. CASE UNCHANGED vars
    <2>1. /\ UNCHANGED <<up, index, TermIndex, weibo_num>>
          /\ UNCHANGED <<pc, request, pairs, query_type, content, asked, todo, v_tmp, reply>>
      BY <1>3 DEF vars, global, workData, walk
    <2>2. Store' /\ Shapes'
      BY <2>1 DEF ThreadInv, Store, Shapes, Accepts
    <2>3. \A v \in Worker : Walking(v)' /\ Own(v)'
      BY <2>1, ZenonT(60) DEF ThreadInv, Walking, Own, Taken, CoocOf
    <2> QED
      BY <2>2, <2>3 DEF ThreadInv
  <1> QED
    BY <1>1, <1>2, <1>3 DEF Next

\* Every variable keeps its type, for any number of threads and any index
\* that LoadIndexmmap accepts: in particular no weight is negative.
THEOREM TypeCorrect == Spec => []TypeOK
  <1>1. ThreadInv => TypeOK
    <2> SUFFICES ASSUME ThreadInv PROVE TypeOK
      OBVIOUS
    <2>1. \A a \in Reply : a.ret \in {0, 1}
      BY DEF Reply, Working, InputError, NoResult, Hot
    <2> QED
      BY <2>1 DEF ThreadInv, Store, Shapes, TypeOK, Entry
  <1> QED
    BY <1>1, InitThreadInv, NextThreadInv, PTL DEF Spec

\* A request that has a type and a content is answered by them, whatever
\* earlier requests left in the thread's WorkData_t, and whatever the other
\* threads do to the index.
THEOREM AnswersAreOwn == Spec => []OwnAnswer
  <1>1. ThreadInv => OwnAnswer
    BY DEF ThreadInv, Own, OwnAnswer, Complete, Answered
  <1> QED
    BY <1>1, InitThreadInv, NextThreadInv, PTL DEF Spec

-----------------------------------------------------------------------------
(* The ranking of an answer, for an index as DumpIndex writes it.          *)

\* What the index that was loaded says of term g and its relations.
Related(g) == At(index.TermInfo, index.TermIndex[g]).cooc_term
TrueWeight(g, h) == Weight(Related(g)[h], index.TermIndex[h], index.total.weibo_num)

\* Terms and weights as the index has them.
TrueOf(g, terms) ==
    \A t \in terms : /\ t.key \in Keys(Related(g))
                     /\ t.weight = TrueWeight(g, t.key)
                     /\ t.term = index.TermIndex[t.key]

KeysOf(terms) == {t.key : t \in terms}

RankedReply(a) ==
    a.result = "cooc" /\ a.terms # {} =>
        /\ TrueOf(a.term, a.terms)
        /\ \A g1 \in KeysOf(a.terms), h \in Keys(Related(a.term)) \ KeysOf(a.terms) :
              ~(TrueWeight(a.term, h) > TrueWeight(a.term, g1))

\* A thread that walks has collected what it has visited, and only the rest
\* is left.
Ranked(v) ==
    up /\ AsDumped(index) =>
        /\ pc[v] = "walk" => /\ TrueOf(asked[v], v_tmp[v])
                             /\ Keys(Related(asked[v])) \subseteq todo[v] \cup KeysOf(v_tmp[v])
        /\ pc[v] = "idle" => RankedReply(reply[v])

\* The inductive invariant for CoocRanked.
RankInv == ServerInv /\ ThreadInv /\ \A v \in Worker : Ranked(v)

\* What is true of the index stays true.
LEMMA SameWeights ==
    ASSUME UNCHANGED index
    PROVE  /\ \A g : Related(g)' = Related(g)
           /\ \A g, h : TrueWeight(g, h)' = TrueWeight(g, h)
           /\ \A g, terms : TrueOf(g, terms)' <=> TrueOf(g, terms)
           /\ \A a : RankedReply(a)' <=> RankedReply(a)
  <1>1. \A g : Related(g)' = Related(g)
    BY DEF Related
  <1>2. \A g, h : TrueWeight(g, h)' = TrueWeight(g, h)
    BY <1>1 DEF TrueWeight, Weight, Df
  <1>3. \A g, terms : TrueOf(g, terms)' <=> TrueOf(g, terms)
    BY <1>1, <1>2 DEF TrueOf, Keys
  <1>4. \A a : RankedReply(a)' <=> RankedReply(a)
    BY <1>1, <1>2, <1>3 DEF RankedReply, Keys
  <1> QED
    BY <1>1, <1>2, <1>3, <1>4

\* So does what a thread has that does not move.
LEMMA RankedKept ==
    ASSUME UNCHANGED Loaded, NEW v \in Worker, Ranked(v),
           pc'[v] = pc[v], asked'[v] = asked[v], todo'[v] = todo[v],
           v_tmp'[v] = v_tmp[v], reply'[v] = reply[v]
    PROVE  Ranked(v)'
  <1>1. UNCHANGED <<up, index>> /\ (AsDumped(index)' <=> AsDumped(index))
    BY SameIndex DEF Loaded
  <1>2. Related(asked[v])' = Related(asked[v])
    BY <1>1 DEF Related
  <1>3. TrueOf(asked[v], v_tmp[v])' <=> TrueOf(asked[v], v_tmp[v])
    BY <1>1, SameWeights
  <1>4. RankedReply(reply[v])' <=> RankedReply(reply[v])
    BY <1>1, SameWeights
  <1>5. /\ Keys(Related(asked[v]))' = Keys(Related(asked[v]))
        /\ KeysOf(v_tmp[v])' = KeysOf(v_tmp[v])
    BY <1>2 DEF Keys, KeysOf
  <1> QED
    BY <1>1, <1>3, <1>4, <1>5 DEF Ranked

\* A visit notes the weight of the relation.
LEMMA VisitWeighs ==
    ASSUME RankInv, SizeTBits = 64, up, AsDumped(index),
           NEW w \in Worker, NEW h \in Hash, Visit(w, h)
    PROVE  v_tmp'[w] = v_tmp[w] \cup {[key |-> h, term |-> index.TermIndex[h],
                                       weight |-> TrueWeight(asked[w], h)]}
  <1> USE DEF RankInv
  <1>1. pc[w] = "walk" /\ h \in todo[w]
    BY DEF Visit
  <1>2. TermIndex[h] # End /\ Computable(asked[w], h)
    BY <1>1, VisitIsDefined
  <1>3. TermIndex = index.TermIndex /\ weibo_num = index.total.weibo_num
    BY DEF ServerInv
  <1>4. Touched(h)[h] = index.TermIndex[h]
    BY <1>2, <1>3 DEF Touched
  <1>5. Relation(asked[w], h) = Related(asked[w])[h]
    BY <1>3 DEF Relation, Related
  <1>6. Weights(asked[w], h) = {TrueWeight(asked[w], h)}
    BY <1>2, <1>3, <1>4, <1>5 DEF Weights, TrueWeight
  <1>7. v_tmp' = [v_tmp EXCEPT ![w] = @ \cup {[key |-> h, term |-> index.TermIndex[h],
                                               weight |-> TrueWeight(asked[w], h)]}]
    BY <1>4, <1>6 DEF Visit
  <1> QED
    BY <1>7 DEF ThreadInv, Shapes

\* A visit takes a key from what is left to what is collected.
LEMMA VisitRanked ==
    ASSUME RankInv, SizeTBits = 64, up, AsDumped(index),
           NEW w \in Worker, NEW h \in Hash, Visit(w, h)
    PROVE  Ranked(w)'
  <1> DEFINE t == [key |-> h, term |-> index.TermIndex[h], weight |-> TrueWeight(asked[w], h)]
  <1> USE DEF RankInv
  <1>1. /\ pc[w] = "walk" /\ h \in todo[w] /\ UNCHANGED <<index, pc, asked, reply>>
        /\ todo'[w] = todo[w] \ {h}
    BY DEF Visit, ThreadInv, Shapes
  <1>2. /\ TrueOf(asked[w], v_tmp[w])
        /\ Keys(Related(asked[w])) \subseteq todo[w] \cup KeysOf(v_tmp[w])
    BY <1>1 DEF Ranked
  <1>3. h \in Keys(Related(asked[w]))
    BY <1>1 DEF ServerInv, Related
  <1>4. v_tmp'[w] = v_tmp[w] \cup {t}
    BY VisitWeighs
  <1>5. TrueOf(asked[w], v_tmp'[w])
    BY <1>2, <1>3, <1>4 DEF TrueOf
  <1>6. Keys(Related(asked[w])) \subseteq todo'[w] \cup KeysOf(v_tmp'[w])
    BY <1>1, <1>2, <1>4 DEF KeysOf
  <1>7. Related(asked[w])' = Related(asked[w])
    BY <1>1 DEF Related
  <1>8. TrueOf(asked[w], v_tmp[w])'
    BY <1>1, <1>5, SameWeights
  <1>9. Keys(Related(asked[w]))' \subseteq (todo[w] \cup KeysOf(v_tmp[w]))'
    BY <1>6, <1>7 DEF Keys, KeysOf
  <1> QED
    BY <1>1, <1>8, <1>9 DEF Ranked

\* The answer is a part of what was collected that leaves out nothing heavier.
LEMMA CoocReplyRanked ==
    ASSUME RankInv, up, AsDumped(index), NEW w \in Worker, CoocReply(w)
    PROVE  Ranked(w)'
  <1> USE DEF RankInv
  <1>1. pc[w] = "walk" /\ todo[w] = {} /\ UNCHANGED index
    BY DEF CoocReply, global
  <1>2. PICK L \in Listed(v_tmp[w]) : Return(w, Cooc(asked[w], L))
    BY DEF CoocReply
  <1>3. pc'[w] = "idle" /\ reply'[w] = Cooc(asked[w], L)
    BY <1>2 DEF Return, ThreadInv, Shapes
  <1>4. /\ TrueOf(asked[w], v_tmp[w])
        /\ Keys(Related(asked[w])) \subseteq KeysOf(v_tmp[w])
    BY <1>1 DEF Ranked
  <1>5. L \subseteq v_tmp[w] /\ \A s \in L, t \in v_tmp[w] \ L : ~(t.weight > s.weight)
    BY DEF Listed, CmpTerm
  <1>6. ASSUME NEW g1 \in KeysOf(L), NEW h \in Keys(Related(asked[w])) \ KeysOf(L)
        PROVE  ~(TrueWeight(asked[w], h) > TrueWeight(asked[w], g1))
    <2>1. PICK s \in L : s.key = g1
      BY DEF KeysOf
    <2>2. PICK t \in v_tmp[w] : t.key = h
      BY <1>4 DEF KeysOf
    <2>3. t \notin L
      BY <2>2 DEF KeysOf
    <2>4. t.weight = TrueWeight(asked[w], h) /\ s.weight = TrueWeight(asked[w], g1)
      BY <1>4, <1>5, <2>1, <2>2 DEF TrueOf
    <2> QED
      BY <1>5, <2>1, <2>2, <2>3, <2>4
  <1>7. TrueOf(asked[w], L)
    BY <1>4, <1>5 DEF TrueOf
  <1> DEFINE a == Cooc(asked[w], L)
  <1>8. a.term = asked[w] /\ a.terms = L
    BY DEF Cooc
  <1> HIDE DEF a
  <1>9. RankedReply(a)
    BY <1>6, <1>7, <1>8 DEF RankedReply
  <1>10. RankedReply(reply[w])'
    BY <1>1, <1>3, <1>9, SameWeights DEF a
  <1> QED
    BY <1>3, <1>10 DEF Ranked

\* The other steps of a thread begin a walk or answer without one.
LEMMA OthersRanked ==
    ASSUME RankInv, up, AsDumped(index), NEW w \in Worker,
           \/ \E r \in Requests : DoWork(w, r)
           \/ NotAString(w) \/ TakePair(w) \/ NoContent(w) \/ NoQueryType(w)
           \/ GetHotTerm(w) \/ OtherType(w)
           \/ \E h \in Hash : FindTerm(w, h) \/ VisitUndefined(w, h) \/ MmapError(w, h)
    PROVE  Ranked(w)'
  <1> USE DEF RankInv, ThreadInv
  <1>1. \A a \in {Working, InputError, NoResult, Hot} : RankedReply(a)'
    BY DEF RankedReply, Working, InputError, NoResult, Hot
  <1>2. ASSUME pc'[w] \in {"pairs", "undefined"} PROVE Ranked(w)'
    BY <1>2 DEF Ranked
  <1>3. ASSUME NEW a \in {Working, InputError, NoResult, Hot}, Return(w, a) PROVE Ranked(w)'
    <2>1. pc'[w] = "idle" /\ reply'[w] = a
      BY <1>3 DEF Return, Shapes
    <2>2. RankedReply(reply[w])'
      BY <1>1, <2>1
    <2> QED
      BY <2>1, <2>2 DEF Ranked
  <1>4. ASSUME NEW h \in Hash, FindTerm(w, h) PROVE Ranked(w)'
    <2>1. UNCHANGED index /\ TermIndex = index.TermIndex
      BY <1>4 DEF FindTerm, global, ServerInv
    <2>2. CASE TermIndex[h] = End
      <3>1. pc'[w] = "idle" /\ reply'[w].terms = {}
        BY <1>4, <2>2 DEF FindTerm, Return, Shapes, Cooc
      <3>2. RankedReply(reply[w])'
        BY <3>1 DEF RankedReply
      <3> QED
        BY <3>1, <3>2 DEF Ranked
    <2>3. CASE TermIndex[h] # End
      <3>1. /\ pc'[w] = "walk" /\ asked'[w] = h /\ v_tmp'[w] = {}
            /\ todo'[w] = Keys(Related(h))
        BY <1>4, <2>1, <2>3 DEF FindTerm, Shapes, Related
      <3>2. Keys(Related(asked[w]))' = Keys(Related(h))
        BY <2>1, <3>1 DEF Related, Keys
      <3>3. TrueOf(asked[w], v_tmp[w])'
        BY <3>1 DEF TrueOf
      <3> QED
        BY <3>1, <3>2, <3>3 DEF Ranked
    <2> QED
      BY <2>2, <2>3
  <1>5. ASSUME NEW r \in Requests, DoWork(w, r) PROVE Ranked(w)'
    <2>1. CASE r.json
      BY <1>2, <1>5, <2>1 DEF DoWork, Shapes
    <2>2. CASE ~r.json
      BY <1>3, <1>5, <2>2 DEF DoWork
    <2> QED
      BY <2>1, <2>2
  <1>6. CASE NotAString(w) \/ NoContent(w) \/ GetHotTerm(w) \/ OtherType(w)
    BY <1>3, <1>6 DEF NotAString, NoContent, GetHotTerm, OtherType
  <1>7. CASE TakePair(w)
    BY <1>2, <1>7 DEF TakePair
  <1>8. CASE NoQueryType(w)
    BY <1>2, <1>8 DEF NoQueryType, Shapes
  <1>9. ASSUME NEW h \in Hash, VisitUndefined(w, h) \/ MmapError(w, h) PROVE Ranked(w)'
    BY <1>2, <1>3, <1>9 DEF VisitUndefined, MmapError, Shapes
  <1> QED
    BY <1>4, <1>5, <1>6, <1>7, <1>8, <1>9

\* Every step keeps the invariant where size_t has 64 bits.
LEMMA NextRankInv ==
    ASSUME SizeTBits = 64, RankInv, [Next]_vars
    PROVE  RankInv'
  <1> USE DEF RankInv
  <1>1. ServerInv' /\ ThreadInv'
    BY NextInv, NextThreadInv
  <1>2. ASSUME NEW image \in Images, CreateGlobalData(image), NEW v \in Worker PROVE Ranked(v)'
    <2>1. pc[v] = "idle" /\ reply[v] = InputError
      BY <1>2 DEF ThreadInv, Walking, CreateGlobalData
    <2>2. pc'[v] = "idle" /\ reply'[v] = InputError
      BY <1>2, <2>1 DEF CreateGlobalData
    <2> QED
      BY <2>2 DEF Ranked, RankedReply, InputError
  <1>3. ASSUME NEW w \in Worker, Work(w), NEW v \in Worker PROVE Ranked(v)'
    <2>1. Fine(w)
      BY <1>3, WorkFine
    <2>2. UNCHANGED <<up, index>> /\ (AsDumped(index)' <=> AsDumped(index))
      BY <2>1, SameIndex DEF Fine, Loaded
    <2>3. CASE ~(up /\ AsDumped(index))
      BY <2>2, <2>3 DEF Ranked
    <2>4. CASE up /\ AsDumped(index) /\ v = w
      BY <1>3, <2>4, SizeTBits = 64, VisitRanked, CoocReplyRanked, OthersRanked DEF Work
    <2>5. CASE v # w
      BY <2>1, <2>5, RankedKept DEF Fine, Mine, Loaded
    <2> QED
      BY <2>3, <2>4, <2>5
  <1>4. ASSUME UNCHANGED vars, NEW v \in Worker PROVE Ranked(v)'
    <2>1. UNCHANGED <<pc, asked, todo, v_tmp, reply>> /\ UNCHANGED Loaded
      BY <1>4 DEF vars, global, walk, Loaded
    <2> QED
      BY <2>1, RankedKept
  <1> QED
    BY <1>1, <1>2, <1>3, <1>4 DEF Next

\* In a build with a size_t of 64 bits and with an index as DumpIndex writes
\* it, an answer to a request of type 1 has the weights the index gives and
\* leaves out nothing heavier than what it lists, for any number of threads.
THEOREM AnswersAreRanked ==
    ASSUME SizeTBits = 64
    PROVE  Spec => []CoocRanked
  <1>1. Init => RankInv
    <2> SUFFICES ASSUME Init PROVE \A v \in Worker : Ranked(v)
      BY InitInv, InitThreadInv DEF RankInv
    <2> QED
      BY DEF Init, Ranked
  <1>2. RankInv /\ [Next]_vars => RankInv'
    BY NextRankInv, SizeTBits = 64
  <1>3. RankInv => CoocRanked
    <2> SUFFICES ASSUME RankInv, NEW w \in Worker, AsDumped(index), pc[w] = "idle",
                        reply[w].result = "cooc", reply[w].terms # {}
                 PROVE  /\ KeysOf(reply[w].terms) \subseteq Keys(Related(reply[w].term))
                        /\ \A t \in reply[w].terms :
                              /\ t.weight = TrueWeight(reply[w].term, t.key)
                              /\ t.term = index.TermIndex[t.key]
                        /\ \A g1 \in KeysOf(reply[w].terms),
                              h \in Keys(Related(reply[w].term)) \ KeysOf(reply[w].terms) :
                              ~(TrueWeight(reply[w].term, h) > TrueWeight(reply[w].term, g1))
      BY DEF CoocRanked, KeysOf, Related, TrueWeight
    <2>1. up
      BY DEF RankInv, ThreadInv, Walking, InputError
    <2>2. RankedReply(reply[w])
      BY <2>1 DEF RankInv, Ranked
    <2> QED
      BY <2>2 DEF RankedReply, TrueOf, KeysOf
  <1> QED
    BY <1>1, <1>2, <1>3, PTL DEF Spec
=============================================================================
