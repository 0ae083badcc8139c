---------------------------- MODULE AhoCorasick ----------------------------
(***************************************************************************)
(* The Aho-Corasick automaton of TuangouLandMark (ac.cpp, and its copy in  *)
(* libsrc/rqlib with get_match_off): a trie of words with ids, the failure *)
(* links that build_automata adds breadth first, and the search that walks *)
(* them.  Node n of the vector _node is position n + 1 here.               *)
(***************************************************************************)
EXTENDS Integers, Sequences, SequencesExt, FiniteSets

CONSTANTS
    Char,        \* the characters
    Words,       \* the words that may be inserted
    Ids,         \* the ids they may get
    MaxInserts,  \* bound: insertions
    MaxText      \* bound: length of the text searched

ASSUME WordsAssumption == Words \subseteq Seq(Char)
ASSUME IdsAssumption == Ids \subseteq Nat
ASSUME BoundAssumption == MaxInserts \in Nat /\ MaxText \in Nat

VARIABLES
    pc,       \* what is going on: "words", "build", "ready", "match"
    _node,    \* the trie
    que,      \* build_automata: nodes whose children wait for their links
    text,     \* get_match: what has been read of str
    off,      \* get_match: the node reached
    ret,      \* get_match: the ids found
    retOff,   \* get_match_off: id -> offset, for the ids found
    path,     \* history variable: the word that leads to each node
    dict,     \* history variable: the pairs <<word, id>> in force
    stale,    \* history variable: pairs replaced after a build
    inserts,  \* insertions (bounded by MaxInserts)
    builds    \* history variable: build_automata has been called

trie == <<_node, path, dict, stale, inserts>>
search == <<text, off, ret, retOff>>
vars == <<pc, trie, que, search, builds>>

None == -1
Root == 0
At(n) == _node[n + 1]

NewRoot == [id |-> None, fail_off |-> None, child |-> [c \in Char |-> None]]
NewNode == [NewRoot EXCEPT !.fail_off = Root]

-----------------------------------------------------------------------------
Init ==
    /\ pc = "words"
    /\ _node = <<NewRoot>> /\ path = << << >> >>
    /\ dict = {} /\ stale = {} /\ inserts = 0 /\ builds = FALSE
    /\ que = << >>
    /\ text = << >> /\ off = Root /\ ret = {} /\ retOff = {}

clear ==
    /\ pc \in {"words", "ready"}
    /\ pc' = "words"
    /\ _node' = <<NewRoot>> /\ path' = << << >> >>
    /\ dict' = {} /\ stale' = {} /\ builds' = FALSE
    /\ UNCHANGED <<inserts, que, search>>

\* One character of insert's loop: to the child, which is made if need be.
Descend_PastEnd(s, c) ==
    IF s.node[s.off + 1].child[c] # None
    THEN [s EXCEPT !.off = s.node[s.off + 1].child[c]]
    ELSE [node |-> Append([s.node EXCEPT ![s.off + 1].child[c] = Len(s.node) + 1], NewNode),
          path |-> Append(s.path, Append(s.path[s.off + 1], c)),
          off  |-> Len(s.node)]
Descend(s, c) ==
    IF s.node[s.off + 1].child[c] # None
    THEN [s EXCEPT !.off = s.node[s.off + 1].child[c]]
    ELSE [node |-> Append([s.node EXCEPT ![s.off + 1].child[c] = Len(s.node)], NewNode),
          path |-> Append(s.path, Append(s.path[s.off + 1], c)),
          off  |-> Len(s.node)]

\* insert's loop over all characters of the word.
Descended(word) ==
    LET s[k \in 0 .. Len(word)] ==
            IF k = 0 THEN [node |-> _node, path |-> path, off |-> Root] ELSE Descend(s[k - 1], word[k])
    IN  s[Len(word)]

insert(word, id) ==
    LET end == Descended(word)
        old == {d \in dict : d[1] = word}
    IN  /\ pc \in {"words", "ready"} /\ inserts < MaxInserts
        /\ pc' = "words"
        /\ _node' = [end.node EXCEPT ![end.off + 1].id = id]
        /\ path' = end.path
        /\ dict' = (dict \ old) \cup {<<word, id>>}
        /\ stale' = IF builds THEN stale \cup old ELSE stale
        /\ inserts' = inserts + 1
        /\ UNCHANGED <<que, search, builds>>

-----------------------------------------------------------------------------
build_automata ==
    /\ pc = "words"
    /\ pc' = "build"
    /\ que' = <<Root>>
    /\ builds' = TRUE
    /\ UNCHANGED <<trie, search>>

\* The first node on the chain of failure links from n with a child c.
Climb(n, c) ==
    LET up[m \in {None} \cup 0 .. Len(_node) - 1] ==
            IF m = None THEN None
            ELSE IF At(m).child[c] # None THEN m ELSE up[At(m).fail_off]
    IN  up[n]

\* The child of father by c, with its link and, if it ends no word, the id of
\* the node the link leads to.
LinkedChild_OwnIdOnly(father, c) ==
    LET node == At(At(father).child[c])
        next == IF father = Root THEN None ELSE Climb(At(father).fail_off, c)
    IN  IF next = None THEN [node EXCEPT !.fail_off = Root]
        ELSE [node EXCEPT !.fail_off = At(next).child[c]]
LinkedChild_OneStep(father, c) ==
    LET node == At(At(father).child[c])
        next == IF father = Root THEN None ELSE At(father).fail_off
    IN  IF next = None THEN [node EXCEPT !.fail_off = Root]
        ELSE IF At(next).child[c] = None THEN [node EXCEPT !.fail_off = Root]
        ELSE [node EXCEPT !.fail_off = At(next).child[c],
                          !.id = IF @ = None THEN At(At(next).child[c]).id ELSE @]
LinkedChild(father, c) ==
    LET node == At(At(father).child[c])
        next == IF father = Root THEN None ELSE Climb(At(father).fail_off, c)
    IN  IF next = None THEN [node EXCEPT !.fail_off = Root]
        ELSE [node EXCEPT !.fail_off = At(next).child[c],
                          !.id = IF @ = None THEN At(At(next).child[c]).id ELSE @]

LinkChildren ==
    /\ pc = "build" /\ que # << >>
    /\ LET father == Head(que)
           chars == {c \in Char : At(father).child[c] # None}
       IN  /\ _node' = [n \in 1 .. Len(_node) |->
                           IF \E c \in chars : At(father).child[c] + 1 = n
                           THEN LinkedChild(father, CHOOSE c \in chars : At(father).child[c] + 1 = n)
                           ELSE _node[n]]
           /\ que' = Tail(que) \o SetToSeq({At(father).child[c] : c \in chars})
    /\ UNCHANGED <<pc, path, dict, stale, inserts, search, builds>>

BuildReturns ==
    /\ pc = "build" /\ que = << >>
    /\ pc' = "ready"
    /\ UNCHANGED <<trie, que, search, builds>>

-----------------------------------------------------------------------------
\* Every caller builds the automaton after the last insert and before it
\* searches.
get_match ==
    /\ pc = "ready"
    /\ pc' = "match"
    /\ UNCHANGED <<trie, que, search, builds>>

\* The ids at n and along its links, while there are any.
IdsFrom(n) ==
    LET ids[m \in 0 .. Len(_node) - 1] ==
            IF m = Root THEN {}
            ELSE IF At(m).id = None THEN {} ELSE {At(m).id} \cup ids[At(m).fail_off]
    IN  ids[n]

\* The while loop and the step to the child: Root when no suffix goes on.
Advance(n, c) ==
    LET m == Climb(n, c)
    IN  IF m = None THEN Root ELSE At(m).child[c]

\* A set of pairs ordered by the id alone: insert keeps the pair it has.
Reported_Last(old, ids, offset) ==
    {p \in old : p[1] \notin ids} \cup {<<id, offset>> : id \in ids}
Reported(old, ids, offset) ==
    old \cup {<<id, offset>> : id \in {i \in ids : \A p \in old : p[1] # i}}

ReadChar(c) ==
    /\ pc = "match" /\ Len(text) < MaxText
    /\ off' = Advance(off, c)
    /\ ret' = ret \cup IdsFrom(off')
    /\ retOff' = Reported(retOff, IdsFrom(off'), Len(text))
    /\ text' = Append(text, c)
    /\ UNCHANGED <<pc, trie, que, builds>>

MatchReturns ==
    /\ pc = "match"
    /\ pc' = "ready"
    /\ text' = << >> /\ off' = Root /\ ret' = {} /\ retOff' = {}
    /\ UNCHANGED <<trie, que, builds>>

Next ==
    \/ clear
    \/ \E word \in Words, id \in Ids : insert(word, id)
    \/ build_automata \/ LinkChildren \/ BuildReturns
    \/ get_match \/ (\E c \in Char : ReadChar(c)) \/ MatchReturns

Spec == Init /\ [][Next]_vars

-----------------------------------------------------------------------------
Node == [id : Ids \cup {None}, fail_off : Nat \cup {None}, child : [Char -> Nat \cup {None}]]

\* Every variable has its type, and no offset leaves the vector.
TypeOK ==
    /\ pc \in {"words", "build", "ready", "match"}
    /\ _node \in Seq(Node) /\ Len(path) = Len(_node)
    /\ off \in 0 .. Len(_node) - 1
    /\ \A n \in 1 .. Len(_node) :
        /\ _node[n].fail_off < Len(_node)
        /\ \A c \in Char : _node[n].child[c] < Len(_node)
    /\ ret \subseteq Ids /\ retOff \subseteq Ids \X Nat
    /\ inserts \in 0 .. MaxInserts

Paths == {path[n] : n \in 1 .. Len(path)}

\* The longest of a set of words, no two of which have the same length.
Longest(ws) == CHOOSE w \in ws : \A v \in ws : Len(v) <= Len(w)

SuffixesIn(w) == {v \in Paths : IsSuffix(v, w)}

\* build_automata: when it is done, the link of a node leads to the longest
\* proper suffix of its word that the trie has, also where a link had to be
\* found several links away and after a rebuild (ac.cpp:29-63); and the node
\* that get_match has reached is the longest suffix of what has been read, so
\* that nothing that could still match is given up (ac.cpp:69-75).
LongestSuffixes ==
    /\ pc \in {"ready", "match"} =>
        \A n \in 2 .. Len(_node) :
            path[_node[n].fail_off + 1] = Longest(SuffixesIn(path[n]) \ {path[n]})
    /\ pc = "match" => path[off + 1] = Longest(SuffixesIn(text))

Occurs(w, t) == w # << >> /\ \E n \in 0 .. Len(t) : IsSuffix(w, SubSeq(t, 1, n))

IdsOf(pairs, t) == {d[2] : d \in {d \in pairs : Occurs(d[1], t)}}

\* get_match returns the ids of exactly the words that occur in the text
\* (ac.cpp:65-82).  A word that gets a new id after a build may also be found
\* under the old one: the ids that build_automata passed on are not undone.
MatchExact ==
    pc = "match" =>
        /\ IdsOf(dict, text) \subseteq ret
        /\ ret \subseteq IdsOf(dict \cup stale, text)

\* get_match_off gives every id it returns once, with the offset of the last
\* character of its first occurrence (setcomp in rqlib/ac.h looks at the id
\* only).
FirstOffset ==
    pc = "match" /\ stale = {} =>
        /\ {p[1] : p \in retOff} = ret
        /\ \A p \in retOff :
            /\ p[1] \in IdsOf(dict, SubSeq(text, 1, p[2] + 1))
            /\ p[1] \notin IdsOf(dict, SubSeq(text, 1, p[2]))
=============================================================================
