--------------------------- MODULE WordNetServer ---------------------------
(***************************************************************************)
(* The word net server: CreateGlobalData loads an index with LoadIndexmmap *)
(* (WordNetServer/src/WordNetIndexor.cpp), then the worker threads call    *)
(* DoWork (WordNetServer/src/commonworker.cpp) for one request after       *)
(* another.  The index is shared and has no lock.  Each thread has one     *)
(* WorkData_t, which keeps its pointers from request to request: they      *)
(* point into a JSON tree that the next request overwrites.                *)
(*                                                                         *)
(* Request type 0 (GetHotTerm) is one step here; HotTerm has its detail.   *)
(* A term is its hash, an index of a vector is its position less one.      *)
(* A local that is not read again has its initial value here.              *)
(***************************************************************************)
EXTENDS Integers, Sequences, FiniteSets

CONSTANTS
    Worker,      \* the worker threads
    Hash,        \* the hash values of terms
    Images,      \* what the index files may hold when the server starts
    Requests,    \* what clients send
    SizeTBits,   \* the width of size_t in the build
    Garbage      \* what a variable that was never set may hold

ASSUME ServerAssumption == SizeTBits \in {32, 64} /\ Garbage \subseteq Nat /\ Hash \subseteq Nat

\* A map from hashes gives every hash its value, or End where find() returns
\* end().
End == -1
Keys(map) == {h \in Hash : map[h] # End}
At(v, n) == v[n + 1]

Map == [Hash -> Nat \cup {End}]

\* LoadIndexmmap reads term_num records of term_info.index and maps all of
\* relate_info.index, which may have any length.
IsImage(image) ==
    /\ image.TermIndex \in Map
    /\ image.TermInfo \in Seq([df_now : Nat, df_history : Nat, cooc_term : Map])
    /\ image.RelateInfo \in Seq([num_now : Nat, num_history : Nat])
    /\ image.total \in [term_num : {Len(image.TermInfo)}, sorted_relate_term_num : Nat,
                        weibo_num : Nat]

ASSUME ImagesAssumption == \A image \in Images : IsImage(image)

VARIABLES
    up,           \* CreateGlobalData has succeeded
    index,        \* what was loaded: TermInfo and the mapped relate_info.index
    TermIndex,    \* the map from hashes to positions in TermInfo, as it is now
    weibo_num,    \* total_index_info.weibo_num, as parsed
    pc,           \* per worker: where it stands in DoWork
    request,      \* the request it works on
    pairs,        \* ParseJsonInput: pairs not yet looked at
    query_type,   \* WorkData_t: a pointer into the JSON tree, or NULL
    content,      \* WorkData_t: likewise
    asked,        \* the term GetCoocTerm looks for
    todo,         \* GetCoocTerm: keys of cooc_term not yet visited
    v_tmp,        \* GetCoocTerm: terms and weights collected
    reply         \* what the last DoWork returned

global   == <<up, index, TermIndex, weibo_num>>
workData == <<query_type, content>>
walk     == <<asked, todo, v_tmp>>
vars     == <<global, pc, request, pairs, workData, walk, reply>>

\* A name and its value; only a value of type string has a string.
Pair == [key : STRING, str : BOOLEAN, value : Nat]

ASSUME RequestsAssumption ==
    \A r \in Requests :
        /\ r.json \in BOOLEAN
        /\ r.pairs \in Seq(Pair)

-----------------------------------------------------------------------------
(* Loading.                                                                *)

\* word_net.n ends without a newline.  Where size_t has 32 bits, SpliteByChar
\* recognises npos and takes the rest of the line up to its last character;
\* where it has 64, the comparison with npos fails and substr takes all of it.
\* A number of one digit leaves nothing for StrTo to read.
WeiboNumRead_Narrow(n) == IF n < 10 THEN Garbage ELSE {n \div 10}
WeiboNumRead(n) ==
    IF SizeTBits = 64 THEN {n} ELSE IF n < 10 THEN Garbage ELSE {n \div 10}

\* LoadIndexmmap checks that no index exceeds the totals and that there is
\* something to map.
Accepts(image) ==
    /\ \A h \in Keys(image.TermIndex) : image.TermIndex[h] < image.total.term_num
    /\ \A t \in 1 .. Len(image.TermInfo) : \A h \in Keys(image.TermInfo[t].cooc_term) :
           image.TermInfo[t].cooc_term[h] < image.total.sorted_relate_term_num
    /\ image.RelateInfo # << >>

CreateGlobalData(image) ==
    /\ ~up
    /\ Accepts(image)
    /\ up' = TRUE
    /\ index' = image
    /\ TermIndex' = image.TermIndex
    /\ weibo_num' \in WeiboNumRead(image.total.weibo_num)
    /\ UNCHANGED <<pc, request, pairs, workData, walk, reply>>

-----------------------------------------------------------------------------
(* Pointers into the JSON tree.                                            *)

NULL == [null |-> TRUE, fresh |-> FALSE, value |-> 0]
Fresh(value) == [null |-> FALSE, fresh |-> TRUE, value |-> value]

\* ParseJson fills the tree anew: old pointers stay, what they point to does
\* not.
Stale(p) == [p EXCEPT !.fresh = FALSE, !.value = 0]

\* What dereferencing gives: the string, or whatever is there now.
Deref(p, any) == IF p.fresh THEN {p.value} ELSE any

Return(w, r) ==
    /\ reply' = [reply EXCEPT ![w] = r]
    /\ pc' = [pc EXCEPT ![w] = "idle"]

\* DoWork's return value, and what it left in pResultData.
Working    == [ret |-> 0, result |-> "working"]
InputError == [ret |-> 1, result |-> "none"]
NoResult   == [ret |-> 0, result |-> "none"]
Hot        == [ret |-> 0, result |-> "hot"]
Cooc(h, terms) == [ret |-> 0, result |-> "cooc", term |-> h, terms |-> terms]

-----------------------------------------------------------------------------
(* DoWork: ParseJsonInput.                                                 *)

DoWork(w, r) ==
    /\ up
    /\ pc[w] = "idle"
    /\ request' = [request EXCEPT ![w] = r]
    /\ query_type' = [query_type EXCEPT ![w] = Stale(@)]
    /\ content' = [content EXCEPT ![w] = Stale(@)]
    /\ IF r.json
       THEN /\ pairs' = [pairs EXCEPT ![w] = r.pairs]
            /\ pc' = [pc EXCEPT ![w] = "pairs"]
            /\ reply' = [reply EXCEPT ![w] = Working]
       ELSE Return(w, InputError) /\ UNCHANGED pairs    \* not JSON, or not an object
    /\ UNCHANGED <<global, walk>>

\* A pair that is no string stops ParseJsonInput; pairs before it have been
\* taken already.
NotAString(w) ==
    /\ pc[w] = "pairs"
    /\ pairs[w] # << >>
    /\ Head(pairs[w]).key \in {"qt", "content"}
    /\ ~Head(pairs[w]).str
    /\ Return(w, InputError)
    /\ pairs' = [pairs EXCEPT ![w] = << >>]
    /\ UNCHANGED <<global, request, workData, walk>>

Assigned_Once(p, value) == IF p.null THEN Fresh(value) ELSE p
Assigned(p, value) == Fresh(value)

TakePair(w) ==
    LET pair == Head(pairs[w])
    IN  /\ pc[w] = "pairs"
        /\ pairs[w] # << >>
        /\ pair.key \in {"qt", "content"} => pair.str
        /\ query_type' = IF pair.key = "qt"
                         THEN [query_type EXCEPT ![w] = Assigned(@, pair.value)] ELSE query_type
        /\ content' = IF pair.key = "content"
                      THEN [content EXCEPT ![w] = Assigned(@, pair.value)] ELSE content
        /\ pairs' = [pairs EXCEPT ![w] = Tail(@)]
        /\ UNCHANGED <<global, pc, request, walk, reply>>

-----------------------------------------------------------------------------
(* GenJsonResult.                                                          *)

Parsed(w) == pc[w] = "pairs" /\ pairs[w] = << >>

NoContent(w) ==
    /\ Parsed(w)
    /\ content[w].null
    /\ Return(w, InputError)
    /\ UNCHANGED <<global, request, pairs, workData, walk>>

\* atoi(NULL)
NoQueryType(w) ==
    /\ Parsed(w)
    /\ ~content[w].null
    /\ query_type[w].null
    /\ pc' = [pc EXCEPT ![w] = "undefined"]
    /\ UNCHANGED <<global, request, pairs, workData, walk, reply>>

Dispatch(w, type) ==
    /\ Parsed(w)
    /\ ~content[w].null
    /\ ~query_type[w].null
    /\ type \in Deref(query_type[w], {0, 1, 2})

GetHotTerm(w) ==
    /\ Dispatch(w, 0)
    /\ Return(w, Hot)
    /\ UNCHANGED <<global, request, pairs, workData, walk>>

\* The switch has no default.
OtherType(w) ==
    /\ Dispatch(w, 2)
    /\ Return(w, NoResult)
    /\ UNCHANGED <<global, request, pairs, workData, walk>>

-----------------------------------------------------------------------------
(* GetCoocTerm.                                                            *)

FindTerm(w, h) ==
    /\ Dispatch(w, 1)
    /\ h \in Deref(content[w], Hash)
    /\ IF TermIndex[h] = End
       THEN /\ Return(w, Cooc(h, {}))
            /\ UNCHANGED walk
       ELSE /\ asked' = [asked EXCEPT ![w] = h]
            /\ todo' = [todo EXCEPT ![w] = Keys(At(index.TermInfo, TermIndex[h]).cooc_term)]
            /\ v_tmp' = [v_tmp EXCEPT ![w] = {}]
            /\ pc' = [pc EXCEPT ![w] = "walk"]
            /\ UNCHANGED reply
    /\ UNCHANGED <<global, request, pairs, workData>>

\* int(log10(a / b)), which truncates towards zero, for quotients up to ten
\* digits: the number of digits of the quotient, less one.
Log10(a, b) ==
    LET digits(q) == Cardinality({e \in 1 .. 9 : 10 ^ e <= q})
    IN  IF a >= b THEN digits(a \div b) ELSE -digits(b \div a)

Df(n) == At(index.TermInfo, n).df_now + At(index.TermInfo, n).df_history

\* The number of the relation of g with h.
Relation(g, h) == At(index.TermInfo, TermIndex[g]).cooc_term[h]

\* The weight of relation number rel with the term at position n.
Weight_Linear(rel, n, weibos) == At(index.RelateInfo, rel).num_now * Log10(weibos, Df(n))
Weight(rel, n, weibos) ==
    LET idf == Log10(weibos, Df(n))
    IN  At(index.RelateInfo, rel).num_now * idf * idf

\* TermIndex[h] with operator[]: a key that is missing is inserted, with 0.
Touched(h) == IF TermIndex[h] = End THEN [TermIndex EXCEPT ![h] = 0] ELSE TermIndex

\* log10 needs positive numbers, and the relation must be in the file that is
\* mapped.
Computable(g, h) ==
    /\ Df(Touched(h)[h]) > 0
    /\ weibo_num > 0
    /\ Relation(g, h) < Len(index.RelateInfo)

Weights(g, h) ==
    IF Computable(g, h) THEN {Weight(Relation(g, h), Touched(h)[h], weibo_num)} ELSE Garbage

Visit(w, h) ==
    /\ pc[w] = "walk"
    /\ h \in todo[w]
    /\ TermIndex' = Touched(h)
    /\ \E weight \in Weights(asked[w], h) :
          v_tmp' = [v_tmp EXCEPT ![w] =
                       @ \cup {[key |-> h, term |-> Touched(h)[h], weight |-> weight]}]
    /\ todo' = [todo EXCEPT ![w] = @ \ {h}]
    /\ UNCHANGED <<up, index, weibo_num, pc, request, pairs, workData, asked, reply>>

\* A read beyond the mapped file, or an insertion while other threads use
\* the map, may also end the process.
Unsafe(w, h) ==
    \/ Relation(asked[w], h) >= Len(index.RelateInfo)
    \/ TermIndex[h] = End /\ \E v \in Worker \ {w} : pc[v] \in {"pairs", "walk"}

VisitUndefined(w, h) ==
    /\ pc[w] = "walk"
    /\ h \in todo[w]
    /\ Unsafe(w, h)
    /\ pc' = [pc EXCEPT ![w] = "undefined"]
    /\ UNCHANGED <<global, request, pairs, workData, walk, reply>>

\* readahead fails, after the idf was computed: GetCoocTerm returns -1, which
\* GenJsonResult drops.
MmapError(w, h) ==
    /\ pc[w] = "walk"
    /\ h \in todo[w]
    /\ TermIndex' = Touched(h)
    /\ Return(w, NoResult)
    /\ todo' = [todo EXCEPT ![w] = {}]
    /\ asked' = [asked EXCEPT ![w] = 0]
    /\ v_tmp' = [v_tmp EXCEPT ![w] = {}]
    /\ UNCHANGED <<up, index, weibo_num, request, pairs, workData>>

CmpTerm_Reversed(s, t) == s.weight < t.weight
CmpTerm(s, t) == s.weight > t.weight

\* The terms in the order of CmpTerm until the text is full, which one alone
\* does not fill.
Listed(terms) ==
    {L \in SUBSET terms : /\ terms # {} => L # {}
                          /\ \A s \in L, t \in terms \ L : ~CmpTerm(t, s)}

CoocReply(w) ==
    /\ pc[w] = "walk"
    /\ todo[w] = {}
    /\ \E L \in Listed(v_tmp[w]) : Return(w, Cooc(asked[w], L))
    /\ asked' = [asked EXCEPT ![w] = 0]
    /\ v_tmp' = [v_tmp EXCEPT ![w] = {}]
    /\ UNCHANGED <<global, request, pairs, workData, todo>>

-----------------------------------------------------------------------------
NoRequest == [json |-> FALSE, pairs |-> << >>]

NoIndex == [TermIndex |-> [h \in Hash |-> End], TermInfo |-> << >>, RelateInfo |-> << >>,
            total |-> [term_num |-> 0, sorted_relate_term_num |-> 0, weibo_num |-> 0]]

Init ==
    /\ up = FALSE /\ index = NoIndex /\ TermIndex = NoIndex.TermIndex /\ weibo_num = 0
    /\ pc = [w \in Worker |-> "idle"]
    /\ request = [w \in Worker |-> NoRequest]
    /\ pairs = [w \in Worker |-> << >>]
    /\ query_type = [w \in Worker |-> NULL]
    /\ content = [w \in Worker |-> NULL]
    /\ asked = [w \in Worker |-> 0]
    /\ todo = [w \in Worker |-> {}]
    /\ v_tmp = [w \in Worker |-> {}]
    /\ reply = [w \in Worker |-> InputError]

Work(w) ==
    \/ \E r \in Requests : DoWork(w, r)
    \/ NotAString(w)
    \/ TakePair(w)
    \/ NoContent(w)
    \/ NoQueryType(w)
    \/ GetHotTerm(w)
    \/ OtherType(w)
    \/ \E h \in Hash : FindTerm(w, h) \/ Visit(w, h) \/ VisitUndefined(w, h) \/ MmapError(w, h)
    \/ CoocReply(w)

Next ==
    \/ \E image \in Images : CreateGlobalData(image)
    \/ \E w \in Worker : Work(w)

Spec == Init /\ [][Next]_vars

-----------------------------------------------------------------------------
Pointer == [null : BOOLEAN, fresh : BOOLEAN, value : Nat]

\* Every variable has its type; weights are u_int, so none is negative.
TypeOK ==
    /\ up \in BOOLEAN
    /\ index \in Images \cup {NoIndex}
    /\ TermIndex \in Map
    /\ weibo_num \in Nat
    /\ pc \in [Worker -> {"idle", "pairs", "walk", "undefined"}]
    /\ request \in [Worker -> Requests \cup {NoRequest}]
    /\ query_type \in [Worker -> Pointer]
    /\ content \in [Worker -> Pointer]
    /\ \A w \in Worker :
          /\ todo[w] \subseteq Hash
          /\ \A t \in v_tmp[w] : t.key \in Hash /\ t.term \in Nat /\ t.weight \in Nat
          /\ reply[w].ret \in {0, 1}

-----------------------------------------------------------------------------
(* What a request gives, and what it gets.                                 *)

Given(r, key) == {n \in 1 .. Len(r.pairs) : r.pairs[n].key = key}

\* The request is an object in which qt and content are strings.
WellFormed(r) == r.json /\ \A n \in Given(r, "qt") \cup Given(r, "content") : r.pairs[n].str

Last(r, key) ==
    r.pairs[CHOOSE n \in Given(r, key) : \A m \in Given(r, key) : m <= n].value

\* A well-formed request with a type and a content is answered by its own
\* type and content, whatever the thread's earlier requests left in WorkData_t
\* and whatever the other threads do.  Of a repeated key the last one counts.
OwnAnswer ==
    \A w \in Worker :
        LET r == request[w]
        IN  pc[w] = "idle" /\ WellFormed(r) /\ Given(r, "qt") # {} /\ Given(r, "content") # {} =>
                \/ Last(r, "qt") = 0 /\ reply[w] = Hot
                \/ Last(r, "qt") = 1 /\ reply[w].result = "cooc"
                                     /\ reply[w].term = Last(r, "content")
                \/ Last(r, "qt") # 0 /\ reply[w] = NoResult

\* What DumpIndex writes (ReadersGetDumps in CoocIndexProofs): every relation
\* leads to an indexed term that occurs, and has an entry.
AsDumped(image) ==
    /\ image.total.weibo_num > 0
    /\ \A n \in 1 .. Len(image.TermInfo) : \A h \in Keys(image.TermInfo[n].cooc_term) :
          /\ image.TermIndex[h] # End
          /\ At(image.TermInfo, image.TermIndex[h]).df_now
                + At(image.TermInfo, image.TermIndex[h]).df_history > 0
          /\ image.TermInfo[n].cooc_term[h] < Len(image.RelateInfo)

\* With an index as DumpIndex writes it, GetCoocTerm never inserts into the
\* TermIndex that all threads share, and every visit still to come takes the
\* logarithm of a positive number and reads inside the mapped file.  The one
\* undefined behaviour left is that of a thread which never got a type.
WalkDefined ==
    AsDumped(index) =>
        /\ up => TermIndex = index.TermIndex
        /\ \A w \in Worker :
              /\ pc[w] = "walk" => \A h \in todo[w] : TermIndex[h] # End /\ Computable(asked[w], h)
              /\ pc[w] = "undefined" => query_type[w].null

\* The inductive invariant behind WalkDefined (WordNetServerProofs): what was
\* loaded does not change, and a thread that walks has found its term and
\* visits keys of that term only.
ServerInv ==
    /\ up => index \in Images /\ Accepts(index)
    /\ up /\ SizeTBits = 64 => weibo_num = index.total.weibo_num
    /\ up /\ AsDumped(index) => TermIndex = index.TermIndex
    /\ pc \in [Worker -> {"idle", "pairs", "walk", "undefined"}]
    /\ asked \in [Worker -> Hash \cup {0}]
    /\ todo \in [Worker -> SUBSET Hash]
    /\ pairs \in [Worker -> Seq(Pair)]
    /\ query_type \in [Worker -> Pointer]
    /\ \A w \in Worker :
          /\ ~up => pc[w] = "idle"
          /\ up /\ AsDumped(index) /\ pc[w] = "walk" =>
                /\ asked[w] \in Keys(index.TermIndex)
                /\ todo[w] \subseteq
                       Keys(At(index.TermInfo, index.TermIndex[asked[w]]).cooc_term)
          /\ up /\ AsDumped(index) /\ pc[w] = "undefined" => query_type[w].null

\* With an index as DumpIndex writes it, the answer lists relations of the
\* term with their weights, and nothing heavier is left out, although other
\* threads walk the index meanwhile.
CoocRanked ==
    \A w \in Worker :
        AsDumped(index) /\ pc[w] = "idle" /\ reply[w].result = "cooc" /\ reply[w].terms # {} =>
            LET g == reply[w].term
                cooc == At(index.TermInfo, index.TermIndex[g]).cooc_term
                weight(h) == Weight(cooc[h], index.TermIndex[h], index.total.weibo_num)
                listed == {t.key : t \in reply[w].terms}
            IN  /\ listed \subseteq Keys(cooc)
                /\ \A t \in reply[w].terms :
                      t.weight = weight(t.key) /\ t.term = index.TermIndex[t.key]
                /\ \A g1 \in listed, h \in Keys(cooc) \ listed : ~(weight(h) > weight(g1))

-----------------------------------------------------------------------------
(* What the source says, and the code does not do.                         *)

\* "get input json error" for a request without content: DoWork refuses it.
MissingContentRefused ==
    \A w \in Worker :
        pc[w] = "idle" /\ Given(request[w], "content") = {} => reply[w].ret = 1
=============================================================================
