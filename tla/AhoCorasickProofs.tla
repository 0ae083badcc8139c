------------------------- MODULE AhoCorasickProofs -------------------------
(***************************************************************************)
(* The automaton, for all characters, words, ids and bounds: no offset     *)
(* leaves the vector (TypeCorrect), build_automata gives every node the    *)
(* longest suffix that the trie has (LinksAreLongest), get_match finds     *)
(* exactly the words that occur (MatchIsExact) and get_match_off their     *)
(* first occurrences (OffsetsAreFirst).                                    *)
(***************************************************************************)
EXTENDS AhoCorasick, NatLemmas, SequenceTheorems, FiniteSetTheorems, TLAPS

-----------------------------------------------------------------------------
(* Words.                                                                  *)

\* v is the beginning, or the end, of w.
Begins(v, w) == Len(v) <= Len(w) /\ \A i \in 1 .. Len(v) : v[i] = w[i]
Ends(v, w) == Len(v) <= Len(w) /\ \A i \in 1 .. Len(v) : v[i] = w[Len(w) - Len(v) + i]

\* IsSuffix compares the words from their ends.
LEMMA SuffixEnds ==
    ASSUME NEW v \in Seq(Char), NEW w \in Seq(Char)
    PROVE  IsSuffix(v, w) <=> Ends(v, w)
<1>1. PICK m \in Nat, n \in Nat : m = Len(v) /\ n = Len(w)  OBVIOUS
<1>2. /\ Reverse(v) = [i \in 1 .. m |-> v[(m - i) + 1]]
      /\ Reverse(w) = [i \in 1 .. n |-> w[(n - i) + 1]]
    BY <1>1 DEF Reverse
<1>3. Reverse(v) \in Seq(Char) /\ Len(Reverse(v)) = m /\ Reverse(w) \in Seq(Char) /\ Len(Reverse(w)) = n
    BY <1>1, <1>2
<1>4. ASSUME m <= n
      PROVE  SubSeq(Reverse(v), 1, m) = SubSeq(Reverse(w), 1, m)
                <=> \A i \in 1 .. m : v[(m - i) + 1] = w[(n - i) + 1]
    <2>1. SubSeq(Reverse(v), 1, m) = [i \in 1 .. m |-> Reverse(v)[i]]
        BY <1>3
    <2>2. SubSeq(Reverse(w), 1, m) = [i \in 1 .. m |-> Reverse(w)[i]]
        BY <1>3, <1>4
    <2>3. /\ \A i \in 1 .. m : Reverse(v)[i] = v[(m - i) + 1]
          /\ \A i \in 1 .. m : Reverse(w)[i] = w[(n - i) + 1]
        BY <1>2, <1>4
    <2> QED  BY <2>1, <2>2, <2>3
<1>5. (\A i \in 1 .. m : v[(m - i) + 1] = w[(n - i) + 1]) <=> \A i \in 1 .. m : v[i] = w[n - m + i]
    <2>1. \A i \in 1 .. m : (m - i) + 1 \in 1 .. m /\ (m - ((m - i) + 1)) + 1 = i
        BY <1>1
    <2>2. \A i \in 1 .. m : n - m + ((m - i) + 1) = (n - i) + 1
        BY <1>1
    <2>3. \A i \in 1 .. m : (n - ((m - i) + 1)) + 1 = n - m + i
        BY <1>1
    <2>4. ASSUME \A i \in 1 .. m : v[(m - i) + 1] = w[(n - i) + 1], NEW i \in 1 .. m
          PROVE  v[i] = w[n - m + i]
        BY <2>1, <2>3, <2>4
    <2>5. ASSUME \A i \in 1 .. m : v[i] = w[n - m + i], NEW i \in 1 .. m
          PROVE  v[(m - i) + 1] = w[(n - i) + 1]
        BY <2>1, <2>2, <2>5
    <2> QED  BY <2>4, <2>5
<1> QED  BY <1>1, <1>3, <1>4, <1>5 DEF IsSuffix, IsPrefix, Ends

\* Ends of one word.
LEMMA EndsOfOne ==
    /\ \A w \in Seq(Char) : Ends(w, w) /\ Ends(<< >>, w)
    /\ \A u, v, w \in Seq(Char) : Ends(u, v) /\ Ends(v, w) => Ends(u, w)
    /\ \A u, v, w \in Seq(Char) : Ends(u, w) /\ Ends(v, w) /\ Len(u) <= Len(v) => Ends(u, v)
    /\ \A v, w \in Seq(Char) : Ends(v, w) => Len(v) <= Len(w) /\ (Len(v) = Len(w) => v = w)
<1>1. \A w \in Seq(Char) : Ends(w, w) /\ Ends(<< >>, w)  BY DEF Ends
<1>2. ASSUME NEW u \in Seq(Char), NEW v \in Seq(Char), NEW w \in Seq(Char), Ends(u, v), Ends(v, w)
      PROVE  Ends(u, w)
    <2>1. Len(u) \in Nat /\ Len(v) \in Nat /\ Len(w) \in Nat /\ Len(u) <= Len(v) /\ Len(v) <= Len(w)
        BY <1>2 DEF Ends
    <2>2. ASSUME NEW i \in 1 .. Len(u) PROVE u[i] = w[Len(w) - Len(u) + i]
        <3>1. u[i] = v[Len(v) - Len(u) + i]  BY <1>2 DEF Ends
        <3>2. Len(v) - Len(u) + i \in 1 .. Len(v)  BY <2>1
        <3>3. v[Len(v) - Len(u) + i] = w[Len(w) - Len(v) + (Len(v) - Len(u) + i)]
            BY <1>2, <3>2 DEF Ends
        <3>4. Len(w) - Len(v) + (Len(v) - Len(u) + i) = Len(w) - Len(u) + i  BY <2>1
        <3> QED  BY <3>1, <3>3, <3>4
    <2> QED  BY <2>1, <2>2 DEF Ends
<1>3. ASSUME NEW u \in Seq(Char), NEW v \in Seq(Char), NEW w \in Seq(Char), Ends(u, w), Ends(v, w), Len(u) <= Len(v)
      PROVE  Ends(u, v)
    <2>1. Len(u) \in Nat /\ Len(v) \in Nat /\ Len(w) \in Nat  OBVIOUS
    <2>2. ASSUME NEW i \in 1 .. Len(u) PROVE u[i] = v[Len(v) - Len(u) + i]
        <3>1. u[i] = w[Len(w) - Len(u) + i]  BY <1>3 DEF Ends
        <3>2. Len(v) - Len(u) + i \in 1 .. Len(v)  BY <2>1, <1>3
        <3>3. v[Len(v) - Len(u) + i] = w[Len(w) - Len(v) + (Len(v) - Len(u) + i)]
            BY <1>3, <3>2 DEF Ends
        <3>4. Len(w) - Len(v) + (Len(v) - Len(u) + i) = Len(w) - Len(u) + i  BY <2>1
        <3> QED  BY <3>1, <3>3, <3>4
    <2> QED  BY <1>3, <2>2 DEF Ends
<1>4. ASSUME NEW v \in Seq(Char), NEW w \in Seq(Char), Ends(v, w), Len(v) = Len(w)
      PROVE  v = w
    <2>1. \A i \in 1 .. Len(v) : v[i] = w[i]
        <3>1. Len(v) \in Nat  OBVIOUS
        <3>2. \A i \in 1 .. Len(v) : Len(w) - Len(v) + i = i  BY <1>4, <3>1
        <3> QED  BY <1>4, <3>2 DEF Ends
    <2> QED  BY <1>4, <2>1, SeqEqual
<1>5. \A v, w \in Seq(Char) : Ends(v, w) => Len(v) <= Len(w)  BY DEF Ends
<1> QED  BY <1>1, <1>2, <1>3, <1>4, <1>5

\* Nothing but the empty word ends the empty word.
LEMMA NothingElseEnds ==
    ASSUME NEW v \in Seq(Char), Ends(v, << >>)
    PROVE  v = << >>
<1>1. Len(v) \in Nat /\ Len(v) <= Len(<< >>)  BY DEF Ends
<1>2. Len(<< >>) = 0  OBVIOUS
<1>3. Len(v) = 0  BY <1>1, <1>2
<1> QED  BY <1>3, EmptySeq

\* One more character does not make different words equal.
LEMMA SameWord ==
    ASSUME NEW v \in Seq(Char), NEW w \in Seq(Char), NEW c \in Char, NEW d \in Char, Append(v, c) = Append(w, d)
    PROVE  v = w /\ c = d
<1>1. \A u \in Seq(Char), b \in Char :
          /\ Len(Append(u, b)) = Len(u) + 1 /\ Append(u, b)[Len(u) + 1] = b
          /\ \A i \in 1 .. Len(u) : Append(u, b)[i] = u[i]
    OBVIOUS
<1>2. Len(v) \in Nat /\ Len(w) \in Nat /\ Len(v) = Len(w)  BY <1>1
<1>3. \A i \in 1 .. Len(v) : v[i] = w[i]  BY <1>1, <1>2
<1>4. v = w  BY <1>2, <1>3, SeqEqual
<1> QED  BY <1>1, <1>2, <1>4

\* One more character.
LEMMA OneMore ==
    /\ \A v \in Seq(Char), c \in Char : Append(v, c) \in Seq(Char) /\ Len(Append(v, c)) = Len(v) + 1
    /\ \A v, w \in Seq(Char), c, d \in Char : Append(v, c) = Append(w, d) => v = w /\ c = d
    /\ \A v, w \in Seq(Char), c, d \in Char : Ends(Append(v, c), Append(w, d)) <=> c = d /\ Ends(v, w)
    /\ \A w \in Seq(Char) : w # << >> => \E v \in Seq(Char), c \in Char : w = Append(v, c)
<1>1. \A v \in Seq(Char), c \in Char :
          /\ Append(v, c) \in Seq(Char) /\ Len(Append(v, c)) = Len(v) + 1
          /\ Append(v, c)[Len(v) + 1] = c /\ \A i \in 1 .. Len(v) : Append(v, c)[i] = v[i]
    OBVIOUS
<1>2. ASSUME NEW v \in Seq(Char), NEW w \in Seq(Char), NEW c \in Char, NEW d \in Char, Append(v, c) = Append(w, d)
      PROVE  v = w /\ c = d
    BY <1>2, SameWord
<1>3. ASSUME NEW v \in Seq(Char), NEW w \in Seq(Char), NEW c \in Char, NEW d \in Char
      PROVE  Ends(Append(v, c), Append(w, d)) <=> c = d /\ Ends(v, w)
    <2>0. PICK m \in Nat, n \in Nat : m = Len(v) /\ n = Len(w)  OBVIOUS
    <2>1. Ends(Append(v, c), Append(w, d)) <=>
             m <= n /\ \A i \in 1 .. m + 1 : Append(v, c)[i] = Append(w, d)[n - m + i]
        <3>1. (n + 1) - (m + 1) = n - m /\ (m + 1 <= n + 1 <=> m <= n)  BY <2>0
        <3>2. PICK a, b : a = Append(v, c) /\ b = Append(w, d)  OBVIOUS
        <3>3. Len(a) = m + 1 /\ Len(b) = n + 1  BY <1>1, <2>0, <3>2
        <3>4. Ends(a, b) <=> m <= n /\ \A i \in 1 .. m + 1 : a[i] = b[n - m + i]
            BY <3>1, <3>3 DEF Ends
        <3> QED  BY <3>2, <3>4
    <2>2. ASSUME m <= n
          PROVE  /\ Append(v, c)[m + 1] = c /\ Append(w, d)[n - m + (m + 1)] = d
                 /\ \A i \in 1 .. m : Append(v, c)[i] = v[i] /\ Append(w, d)[n - m + i] = w[n - m + i]
        <3>1. n - m + (m + 1) = n + 1 /\ \A i \in 1 .. m : n - m + i \in 1 .. n  BY <2>0, <2>2
        <3> QED  BY <1>1, <2>0, <3>1
    <2>3. \A i \in 1 .. m + 1 : i = m + 1 \/ i \in 1 .. m  BY <2>0
    <2>4. m + 1 \in 1 .. m + 1 /\ \A i \in 1 .. m : i \in 1 .. m + 1  BY <2>0
    <2> QED  BY <2>0, <2>1, <2>2, <2>3, <2>4, ZenonT(60) DEF Ends
<1>4. ASSUME NEW w \in Seq(Char), w # << >>
      PROVE  \E v \in Seq(Char), c \in Char : w = Append(v, c)
    <2>1. Len(w) \in Nat /\ Len(w) # 0  BY <1>4, EmptySeq
    <2>2. PICK m \in Nat : Len(w) = m + 1
        <3>1. Len(w) - 1 \in Nat /\ Len(w) = (Len(w) - 1) + 1  BY <2>1
        <3> QED  BY <3>1
    <2> DEFINE v == [i \in 1 .. m |-> w[i]]
    <2>3. v \in Seq(Char) /\ Len(v) = m /\ \A i \in 1 .. m : v[i] = w[i]
        <3>1. \A i \in 1 .. m : w[i] \in Char  BY <2>2
        <3> QED  BY <3>1
    <2>4. w[m + 1] \in Char  BY <2>2
    <2> HIDE DEF v
    <2>5. \A i \in 1 .. m + 1 : Append(v, w[m + 1])[i] = w[i]
        <3>1. \A i \in 1 .. m + 1 : i = m + 1 \/ i \in 1 .. m  BY <2>2
        <3> QED  BY <1>1, <2>3, <2>4, <3>1
    <2>6. Append(v, w[m + 1]) \in Seq(Char) /\ Len(Append(v, w[m + 1])) = m + 1  BY <1>1, <2>3, <2>4
    <2>7. w = Append(v, w[m + 1])  BY <2>2, <2>5, <2>6, SeqEqual
    <2> QED  BY <2>3, <2>4, <2>7
<1> QED  BY <1>1, <1>2, <1>3, <1>4

\* Beginnings of one word.
LEMMA BeginsOfOne ==
    /\ \A w \in Seq(Char) : Begins(w, w) /\ Begins(<< >>, w)
    /\ \A u, v, w \in Seq(Char) : Begins(u, v) /\ Begins(v, w) => Begins(u, w)
    /\ \A v, w \in Seq(Char) : Begins(v, w) => Len(v) <= Len(w) /\ (Len(v) = Len(w) => v = w)
<1>1. \A w \in Seq(Char) : Begins(w, w) /\ Begins(<< >>, w)  BY DEF Begins
<1>2. ASSUME NEW u \in Seq(Char), NEW v \in Seq(Char), NEW w \in Seq(Char), Begins(u, v), Begins(v, w)
      PROVE  Begins(u, w)
    <2>1. Len(u) \in Nat /\ Len(v) \in Nat /\ Len(w) \in Nat /\ Len(u) <= Len(v) /\ Len(v) <= Len(w)
        BY <1>2 DEF Begins
    <2>2. \A i \in 1 .. Len(u) : i \in 1 .. Len(v)  BY <2>1
    <2> QED  BY <1>2, <2>1, <2>2 DEF Begins
<1>3. \A v, w \in Seq(Char) : Begins(v, w) => Len(v) <= Len(w) /\ (Len(v) = Len(w) => v = w)
    BY SeqEqual DEF Begins
<1> QED  BY <1>1, <1>2, <1>3

\* One more character at the end of a word or of its beginning.
LEMMA BeginsOneMore ==
    /\ \A w \in Seq(Char), c \in Char : Begins(w, Append(w, c))
    /\ \A v, w \in Seq(Char), c \in Char : Begins(v, Append(w, c)) => v = Append(w, c) \/ Begins(v, w)
    /\ \A v, w \in Seq(Char) : Begins(v, w) /\ Len(v) < Len(w) => \E c \in Char : Begins(Append(v, c), w)
<1>1. \A v \in Seq(Char), c \in Char :
          /\ Append(v, c) \in Seq(Char) /\ Len(v) \in Nat /\ Len(Append(v, c)) = Len(v) + 1
          /\ Append(v, c)[Len(v) + 1] = c /\ \A i \in 1 .. Len(v) : Append(v, c)[i] = v[i]
    OBVIOUS
<1>2. \A w \in Seq(Char), c \in Char : Begins(w, Append(w, c))  BY <1>1 DEF Begins
<1>3. ASSUME NEW v \in Seq(Char), NEW w \in Seq(Char), NEW c \in Char, Begins(v, Append(w, c)), v # Append(w, c)
      PROVE  Begins(v, w)
    <2>1. Len(v) \in Nat /\ Len(w) \in Nat /\ Len(v) <= Len(w) + 1  BY <1>1, <1>3 DEF Begins
    <2>2. Len(v) # Len(w) + 1
        <3>1. Append(w, c) \in Seq(Char) /\ Len(Append(w, c)) = Len(w) + 1  BY <1>1
        <3> QED  BY <1>3, <3>1, BeginsOfOne
    <2>3. Len(v) <= Len(w) /\ \A i \in 1 .. Len(v) : i \in 1 .. Len(w)  BY <2>1, <2>2
    <2> QED  BY <1>1, <1>3, <2>3 DEF Begins
<1>4. ASSUME NEW v \in Seq(Char), NEW w \in Seq(Char), Begins(v, w), Len(v) < Len(w)
      PROVE  \E c \in Char : Begins(Append(v, c), w)
    <2>1. Len(v) \in Nat /\ Len(w) \in Nat /\ Len(v) + 1 \in 1 .. Len(w)  BY <1>4
    <2>2. PICK c \in Char : c = w[Len(v) + 1]  BY <2>1
    <2>3. \A i \in 1 .. Len(v) + 1 : i = Len(v) + 1 \/ i \in 1 .. Len(v)  BY <2>1
    <2>4. \A i \in 1 .. Len(v) + 1 : Append(v, c)[i] = w[i]  BY <1>1, <1>4, <2>2, <2>3 DEF Begins
    <2>5. Begins(Append(v, c), w)  BY <1>1, <2>1, <2>4 DEF Begins
    <2> QED  BY <2>5
<1> QED  BY <1>2, <1>3, <1>4

-----------------------------------------------------------------------------
(* Recursion along links that lead to lower ranks, below N, has a solution. *)
(* There is one for the ranks below any n, or a smallest n without.        *)

\* The loop goes on to the next until it stops.
Follows(f, D, stop, next, out) == f = [m \in D |-> IF m \in stop THEN out[m] ELSE f[next[m]]]

\* It has a solution.
LEMMA FollowExists ==
    ASSUME NEW D, NEW N \in Nat, NEW rank, NEW stop, NEW next, NEW out,
           \A m \in D : rank[m] \in Nat /\ rank[m] < N,
           \A m \in D : m \notin stop => next[m] \in D /\ rank[next[m]] < rank[m]
    PROVE  \E f : Follows(f, D, stop, next, out)
<1> DEFINE Low(n) == {m \in D : rank[m] < n}
           Part(f, n) == f = [m \in Low(n) |-> IF m \in stop THEN out[m] ELSE f[next[m]]]
           Bad == {n \in Nat : ~ \E f : Part(f, n)}
<1>1. ASSUME Bad # {} PROVE FALSE
    <2>1. Bad \subseteq Nat  OBVIOUS
    <2>2. PICK n \in Bad : \A k \in Bad : n <= k
        <3> HIDE DEF Bad
        <3> QED  BY <1>1, <2>1, SmallestNat
    <2>3. n \in Nat /\ ~ \E f : Part(f, n)  OBVIOUS
    <2>4. n # 0
        <3>1. Low(0) = {}  OBVIOUS
        <3>2. Part([m \in {} |-> 0], 0)  BY <3>1
        <3> QED  BY <2>3, <3>2
    <2>5. n - 1 \in Nat /\ ~(n <= n - 1)  BY <2>3, <2>4
    <2>6. PICK g : Part(g, n - 1)  BY <2>2, <2>5
    <2> DEFINE h == [m \in Low(n) |-> IF m \in stop THEN out[m] ELSE g[next[m]]]
    <2>7. \A m \in Low(n - 1) : m \in Low(n) /\ h[m] = g[m]
        <3>1. \A m \in Low(n - 1) : m \in Low(n)  BY <2>3
        <3>2. \A m \in Low(n - 1) : g[m] = IF m \in stop THEN out[m] ELSE g[next[m]]  BY <2>6
        <3> QED  BY <3>1, <3>2
    <2>8. \A m \in Low(n) : m \notin stop => next[m] \in Low(n - 1)  BY <2>3, <2>5
    <2>9. \A m \in Low(n) : h[m] = IF m \in stop THEN out[m] ELSE h[next[m]]  BY <2>7, <2>8
    <2>10. Part(h, n)
        <3>1. h = [m \in Low(n) |-> h[m]]  OBVIOUS
        <3> HIDE DEF h, Low
        <3> QED  BY <2>9, <3>1
    <2> QED  BY <2>3, <2>10
<1>2. PICK f : Part(f, N)  BY <1>1
<1>3. Low(N) = D  OBVIOUS
<1> QED  BY <1>2, <1>3 DEF Follows

\* The loop collects a value on its way.
Collects(f, D, stop, next, out) == f = [m \in D |-> IF m \in stop THEN {} ELSE {out[m]} \cup f[next[m]]]

\* It has a solution.
LEMMA CollectExists ==
    ASSUME NEW D, NEW N \in Nat, NEW rank, NEW stop, NEW next, NEW out,
           \A m \in D : rank[m] \in Nat /\ rank[m] < N,
           \A m \in D : m \notin stop => next[m] \in D /\ rank[next[m]] < rank[m]
    PROVE  \E f : Collects(f, D, stop, next, out)
<1> DEFINE Low(n) == {m \in D : rank[m] < n}
           Part(f, n) == f = [m \in Low(n) |-> IF m \in stop THEN {} ELSE {out[m]} \cup f[next[m]]]
           Bad == {n \in Nat : ~ \E f : Part(f, n)}
<1>1. ASSUME Bad # {} PROVE FALSE
    <2>1. Bad \subseteq Nat  OBVIOUS
    <2>2. PICK n \in Bad : \A k \in Bad : n <= k
        <3> HIDE DEF Bad
        <3> QED  BY <1>1, <2>1, SmallestNat
    <2>3. n \in Nat /\ ~ \E f : Part(f, n)  OBVIOUS
    <2>4. n # 0
        <3>1. Low(0) = {}  OBVIOUS
        <3>2. Part([m \in {} |-> 0], 0)  BY <3>1
        <3> QED  BY <2>3, <3>2
    <2>5. n - 1 \in Nat /\ ~(n <= n - 1)  BY <2>3, <2>4
    <2>6. PICK g : Part(g, n - 1)  BY <2>2, <2>5
    <2> DEFINE h == [m \in Low(n) |-> IF m \in stop THEN {} ELSE {out[m]} \cup g[next[m]]]
    <2>7. \A m \in Low(n - 1) : m \in Low(n) /\ h[m] = g[m]
        <3>1. \A m \in Low(n - 1) : m \in Low(n)  BY <2>3
        <3>2. \A m \in Low(n - 1) : g[m] = IF m \in stop THEN {} ELSE {out[m]} \cup g[next[m]]  BY <2>6
        <3> QED  BY <3>1, <3>2
    <2>8. \A m \in Low(n) : m \notin stop => next[m] \in Low(n - 1)  BY <2>3, <2>5
    <2>9. \A m \in Low(n) : h[m] = IF m \in stop THEN {} ELSE {out[m]} \cup h[next[m]]  BY <2>7, <2>8
    <2>10. Part(h, n)
        <3>1. h = [m \in Low(n) |-> h[m]]  OBVIOUS
        <3> HIDE DEF h, Low
        <3> QED  BY <2>9, <3>1
    <2> QED  BY <2>3, <2>10
<1>2. PICK f : Part(f, N)  BY <1>1
<1>3. Low(N) = D  OBVIOUS
<1> QED  BY <1>2, <1>3 DEF Collects

-----------------------------------------------------------------------------
(* The inductive invariant.                                                *)

Positions == 1 .. Len(_node)
Inner == 2 .. Len(_node)
Link(n) == _node[n].fail_off + 1

\* A trie: the nodes are the words of path, each once, with all their
\* beginnings, and children are longer by their character.
IsTrie(node, words) ==
    /\ node \in Seq(Node) /\ words \in Seq(Seq(Char))
    /\ Len(words) = Len(node) /\ Len(node) >= 1 /\ words[1] = << >>
    /\ \A n \in 1 .. Len(node) : Len(words[n]) < n
    /\ \A m, n \in 1 .. Len(node) : words[m] = words[n] => m = n
    /\ \A n \in 1 .. Len(node), c \in Char :
          node[n].child[c] # None =>
              node[n].child[c] \in 1 .. Len(node) - 1 /\ words[node[n].child[c] + 1] = Append(words[n], c)
    /\ \A m, n \in 1 .. Len(node), c \in Char :
          words[m] = Append(words[n], c) => node[n].child[c] = m - 1
    /\ \A n \in 1 .. Len(node) : \A v \in Seq(Char) :
          Begins(v, words[n]) => \E m \in 1 .. Len(node) : words[m] = v

\* At any time a link leads to a shorter end of the word.
HasLinks(node, words) ==
    /\ node[1].fail_off = None
    /\ \A n \in 2 .. Len(node) :
          /\ node[n].fail_off \in 0 .. Len(node) - 1
          /\ Ends(words[node[n].fail_off + 1], words[n])
          /\ Len(words[node[n].fail_off + 1]) < Len(words[n])

\* build_automata is done with node n: no end of its word is longer than the
\* one it links to, and it has an id if that one has.
LongestLink(n) ==
    \A m \in Positions : Ends(path[m], path[n]) /\ path[m] # path[n] => Len(path[m]) <= Len(path[Link(n)])
IdPassed(n) == _node[n].id = None /\ Link(n) # 1 => _node[Link(n)].id = None
Linked(n) == LongestLink(n) /\ IdPassed(n)

\* Every word has its id, and an id belongs to an end of the node's word: to
\* the word itself as long as no id has been passed on.
IdsInForce ==
    /\ dict \subseteq Seq(Char) \X Ids /\ stale \subseteq Seq(Char) \X Ids
    /\ \A d \in dict : \E n \in Positions : path[n] = d[1] /\ _node[n].id = d[2]
    /\ \A n \in Inner : _node[n].id # None =>
          \E d \in dict \cup stale : d[2] = _node[n].id /\ d[1] # << >> /\ Ends(d[1], path[n])
    /\ ~builds => stale = {} /\ \A n \in Inner : _node[n].id # None => <<path[n], _node[n].id>> \in dict

TrieInv == IsTrie(_node, path) /\ HasLinks(_node, path) /\ IdsInForce

\* A node waits for its link while a node above it is in the queue; the queue
\* goes from one depth to the next, and what does not wait is not far below.
Depth(q) == Len(path[q + 1])
Waits(n) == \E k \in 1 .. Len(que) : Begins(path[que[k] + 1], path[n]) /\ Depth(que[k]) < Len(path[n])

ByDepth(q) ==
    \A j, k \in 1 .. Len(q) : (j <= k => Depth(q[j]) <= Depth(q[k])) /\ Depth(q[k]) <= Depth(q[j]) + 1
Reached(n) == Linked(n) /\ \A k \in 1 .. Len(que) : Len(path[n]) <= Depth(que[k]) + 1

BuildInv ==
    /\ que \in Seq(0 .. Len(_node) - 1)
    /\ pc # "words" => builds
    /\ pc # "build" => que = << >>
    /\ pc = "build" => ByDepth(que) /\ \A n \in Inner : Waits(n) \/ Reached(n)
    /\ pc \in {"ready", "match"} => \A n \in Inner : Linked(n)

SearchInv ==
    /\ pc # "match" => text = << >> /\ off = Root /\ ret = {} /\ retOff = {}
    /\ text \in Seq(Char) /\ off \in 0 .. Len(_node) - 1
    /\ pc = "match" =>
          /\ Ends(path[off + 1], text)
          /\ \A m \in Positions : Ends(path[m], text) => Len(path[m]) <= Len(path[off + 1])
    /\ ret \subseteq Ids /\ retOff \subseteq Ids \X Nat /\ {p[1] : p \in retOff} = ret
    /\ \A p \in retOff : p[2] < Len(text)
    /\ MatchExact /\ FirstOffset

Control == pc \in {"words", "build", "ready", "match"} /\ inserts \in 0 .. MaxInserts

IInv == Control /\ TrieInv /\ BuildInv /\ SearchInv

-----------------------------------------------------------------------------
(* The trie.                                                               *)

\* What is in a node, and its word.
LEMMA NodeFacts ==
    ASSUME NEW node, NEW words, IsTrie(node, words)
    PROVE  /\ Len(node) \in Nat \ {0} /\ Len(words) = Len(node) /\ words[1] = << >> /\ Len(words[1]) = 0
           /\ \A n \in 1 .. Len(node) :
                 /\ node[n] \in Node /\ node[n].id \in Ids \cup {None} /\ node[n].fail_off \in Nat \cup {None}
                 /\ node[n].child \in [Char -> Nat \cup {None}]
                 /\ words[n] \in Seq(Char) /\ Len(words[n]) \in Nat /\ Len(words[n]) < n
           /\ \A n \in 2 .. Len(node) : n \in 1 .. Len(node) /\ words[n] # << >> /\ Len(words[n]) > 0
<1>1. /\ node \in Seq(Node) /\ words \in Seq(Seq(Char)) /\ Len(words) = Len(node) /\ Len(node) >= 1
      /\ words[1] = << >> /\ \A n \in 1 .. Len(node) : Len(words[n]) < n
      /\ \A m, n \in 1 .. Len(node) : words[m] = words[n] => m = n
    BY DEF IsTrie
<1>2. Len(node) \in Nat \ {0}  BY <1>1
<1>3. \A n \in 1 .. Len(node) : node[n] \in Node  BY <1>1
<1>4. \A n \in 1 .. Len(node) : words[n] \in Seq(Char)
    <2> DEFINE W == Seq(Char)
    <2>1. words \in Seq(W)  BY <1>1
    <2> HIDE DEF W
    <2>2. \A n \in 1 .. Len(node) : words[n] \in W  BY <1>1, <2>1
    <2> QED  BY <2>2 DEF W
<1>5. \A n \in 1 .. Len(node) :
          /\ node[n].id \in Ids \cup {None} /\ node[n].fail_off \in Nat \cup {None}
          /\ node[n].child \in [Char -> Nat \cup {None}]
    BY <1>3 DEF Node
<1>6. \A n \in 1 .. Len(node) : Len(words[n]) \in Nat  BY <1>4
<1>7. \A n \in 2 .. Len(node) : n \in 1 .. Len(node) /\ words[n] # << >> /\ Len(words[n]) > 0
    <2>1. \A n \in 2 .. Len(node) : n \in 1 .. Len(node) /\ 1 \in 1 .. Len(node) /\ n # 1  BY <1>2
    <2>2. \A n \in 2 .. Len(node) : words[n] # << >>  BY <1>1, <2>1
    <2>3. \A w \in Seq(Char) : w # << >> => Len(w) > 0  BY EmptySeq
    <2> QED  BY <1>4, <2>1, <2>2, <2>3
<1>8. Len(words[1]) = 0  BY <1>1
<1> QED  BY <1>1, <1>2, <1>3, <1>4, <1>5, <1>6, <1>7, <1>8

\* Children and beginnings.
LEMMA ChildFacts ==
    ASSUME NEW node, NEW words, IsTrie(node, words)
    PROVE  /\ \A m, n \in 1 .. Len(node) : words[m] = words[n] => m = n
           /\ \A n \in 1 .. Len(node), c \in Char : node[n].child[c] # None =>
                 /\ node[n].child[c] \in 1 .. Len(node) - 1 /\ node[n].child[c] + 1 \in 2 .. Len(node)
                 /\ words[node[n].child[c] + 1] = Append(words[n], c)
           /\ \A m, n \in 1 .. Len(node), c \in Char : words[m] = Append(words[n], c) => node[n].child[c] = m - 1
           /\ \A n \in 1 .. Len(node) : \A v \in Seq(Char) :
                 Begins(v, words[n]) => \E m \in 1 .. Len(node) : words[m] = v
<1>1. Len(node) \in Nat  BY NodeFacts
<1>2. \A k \in 1 .. Len(node) - 1 : k + 1 \in 2 .. Len(node)  BY <1>1
<1> QED  BY <1>2 DEF IsTrie

\* The first loop of build_automata and of get_match, one link at a time.
LEMMA ClimbSteps ==
    ASSUME TrieInv, NEW c \in Char
    PROVE  /\ Climb(None, c) = None
           /\ \A m \in 0 .. Len(_node) - 1 :
                 Climb(m, c) = IF At(m).child[c] # None THEN m ELSE Climb(At(m).fail_off, c)
<1> DEFINE D == {None} \cup 0 .. Len(_node) - 1
           Rec(f) == f = [m \in D |-> IF m = None THEN None
                                      ELSE IF At(m).child[c] # None THEN m ELSE f[At(m).fail_off]]
           up == CHOOSE f : Rec(f)
           stop == {m \in D : m = None \/ At(m).child[c] # None}
           next == [m \in D |-> At(m).fail_off]
           out == [m \in D |-> m]
           rank == [m \in D |-> IF m = None THEN 0 ELSE Len(path[m + 1]) + 1]
           N == Len(_node) + 1
<1>1. N \in Nat /\ None = -1 /\ \A m \in 0 .. Len(_node) - 1 : m # None /\ m + 1 \in 1 .. Len(_node)
    BY NodeFacts DEF TrieInv, None
<1>2. \A m \in D : rank[m] \in Nat /\ rank[m] < N
    <2>1. \A m \in 0 .. Len(_node) - 1 : Len(path[m + 1]) \in Nat /\ Len(path[m + 1]) < Len(_node)
        BY <1>1, NodeFacts DEF TrieInv
    <2> QED  BY <1>1, <2>1
<1>3. ASSUME NEW m \in D, m \notin stop PROVE next[m] \in D /\ rank[next[m]] < rank[m]
    <2>1. m \in 0 .. Len(_node) - 1 /\ m + 1 \in 1 .. Len(_node) /\ m # None  BY <1>1, <1>3
    <2>2. CASE m = 0
        <3>1. next[m] = None  BY <2>2, <2>1 DEF TrieInv, HasLinks, At
        <3> QED  BY <1>1, <2>1, <3>1, NodeFacts DEF TrieInv
    <2>3. CASE m # 0
        <3>1. m + 1 \in 2 .. Len(_node)  BY <2>1, <2>3, NodeFacts DEF TrieInv
        <3>2. /\ At(m).fail_off \in 0 .. Len(_node) - 1
              /\ Len(path[At(m).fail_off + 1]) < Len(path[m + 1])
            BY <3>1 DEF TrieInv, HasLinks, At
        <3>3. next[m] = At(m).fail_off /\ next[m] \in D /\ next[m] # None  BY <1>1, <2>1, <3>2
        <3>4. Len(path[m + 1]) \in Nat /\ Len(path[next[m] + 1]) \in Nat
            BY <1>1, <2>1, <3>2, <3>3, NodeFacts DEF TrieInv
        <3>5. rank[m] = Len(path[m + 1]) + 1 /\ rank[next[m]] = Len(path[next[m] + 1]) + 1
            BY <2>1, <3>3
        <3> QED  BY <3>2, <3>3, <3>4, <3>5
    <2> QED  BY <2>2, <2>3
<1>4. PICK f : Follows(f, D, stop, next, out)
    <2>1. N \in Nat  BY <1>1
    <2>2. \A m \in D : m \notin stop => next[m] \in D /\ rank[next[m]] < rank[m]  BY <1>3
    <2> HIDE DEF D, N, rank, stop, next, out, Rec, up
    <2> QED  BY <1>2, <2>1, <2>2, FollowExists
<1>5. Rec(f)
    <2>1. \A m \in D : (IF m \in stop THEN out[m] ELSE f[next[m]])
                        = IF m = None THEN None ELSE IF At(m).child[c] # None THEN m ELSE f[At(m).fail_off]
        OBVIOUS
    <2> HIDE DEF D, stop, next, out
    <2> QED  BY <1>4, <2>1 DEF Follows
<1>6. Rec(up)
    <2> HIDE DEF Rec
    <2> QED  BY <1>5
<1>7. \A n : Climb(n, c) = up[n]  BY DEF Climb
<1> HIDE DEF up
<1>8. /\ up[None] = None
      /\ \A m \in 0 .. Len(_node) - 1 : up[m] = IF At(m).child[c] # None THEN m ELSE up[At(m).fail_off]
    <2>1. None \in D /\ \A m \in 0 .. Len(_node) - 1 : m \in D /\ m # None  BY <1>1
    <2> QED  BY <1>6, <2>1
<1> QED  BY <1>7, <1>8

\* The second loop of get_match: ids are collected up to the first node without.
LEMMA IdsSteps ==
    ASSUME TrieInv
    PROVE  \A m \in 0 .. Len(_node) - 1 :
              IdsFrom(m) = IF m = Root \/ At(m).id = None THEN {} ELSE {At(m).id} \cup IdsFrom(At(m).fail_off)
<1> DEFINE D == 0 .. Len(_node) - 1
           Rec(f) == f = [m \in D |-> IF m = Root THEN {}
                                      ELSE IF At(m).id = None THEN {} ELSE {At(m).id} \cup f[At(m).fail_off]]
           ids == CHOOSE f : Rec(f)
           stop == {m \in D : m = Root \/ At(m).id = None}
           next == [m \in D |-> At(m).fail_off]
           out == [m \in D |-> At(m).id]
           rank == [m \in D |-> Len(path[m + 1])]
           N == Len(_node)
<1>1. N \in Nat /\ Root = 0 /\ \A m \in D : m + 1 \in 1 .. Len(_node)
    BY NodeFacts DEF TrieInv, Root
<1>2. \A m \in D : rank[m] \in Nat /\ rank[m] < N
    <2>1. \A m \in D : Len(path[m + 1]) \in Nat /\ Len(path[m + 1]) < Len(_node)
        BY <1>1, NodeFacts DEF TrieInv
    <2> QED  BY <1>1, <2>1
<1>3. \A m \in D : m \notin stop => next[m] \in D /\ rank[next[m]] < rank[m]
    <2> SUFFICES ASSUME NEW m \in D, m \notin stop PROVE next[m] \in D /\ rank[next[m]] < rank[m]  OBVIOUS
    <2>1. m + 1 \in 2 .. Len(_node)  BY <1>1
    <2>2. At(m).fail_off \in D /\ Len(path[At(m).fail_off + 1]) < Len(path[m + 1])
        BY <2>1 DEF TrieInv, HasLinks, At
    <2> QED  BY <2>2
<1>4. PICK f : Collects(f, D, stop, next, out)
    <2>1. N \in Nat  BY <1>1
    <2> HIDE DEF D, N, rank, stop, next, out, Rec, ids
    <2> QED  BY <1>2, <1>3, <2>1, CollectExists
<1>5. Rec(f)
    <2>1. \A m \in D : (IF m \in stop THEN {} ELSE {out[m]} \cup f[next[m]])
                        = IF m = Root THEN {} ELSE IF At(m).id = None THEN {} ELSE {At(m).id} \cup f[At(m).fail_off]
        OBVIOUS
    <2> HIDE DEF D, stop, next, out
    <2> QED  BY <1>4, <2>1 DEF Collects
<1>6. Rec(ids)
    <2> HIDE DEF Rec
    <2> QED  BY <1>5
<1>7. \A n : IdsFrom(n) = ids[n]  BY DEF IdsFrom
<1> HIDE DEF ids
<1>8. \A m \in D : ids[m] = IF m = Root \/ At(m).id = None THEN {} ELSE {At(m).id} \cup ids[At(m).fail_off]
    BY <1>6
<1> QED  BY <1>7, <1>8

\* Of the ends of w that go on with c, r is the longest, None if there is none.
Best(w, c, r) ==
    IF r = None THEN \A k, m \in Positions : Ends(path[m], w) => path[k] # Append(path[m], c)
    ELSE /\ r \in 0 .. Len(_node) - 1 /\ At(r).child[c] # None /\ Ends(path[r + 1], w)
         /\ \A k, m \in Positions :
               Ends(path[m], w) /\ path[k] = Append(path[m], c) => Len(path[m]) <= Len(path[r + 1])

\* It is enough to look at an end u of w that is no shorter than all of them.
LEMMA BestOfEnd ==
    ASSUME TrieInv, NEW c \in Char, NEW r, NEW u \in Seq(Char), NEW w \in Seq(Char), Ends(u, w), Best(u, c, r),
           \A k, m \in Positions : Ends(path[m], w) /\ path[k] = Append(path[m], c) => Len(path[m]) <= Len(u)
    PROVE  Best(w, c, r)
<1>1. \A m \in Positions : path[m] \in Seq(Char)  BY NodeFacts DEF TrieInv, Positions
<1>2. \A k, m \in Positions : Ends(path[m], w) /\ path[k] = Append(path[m], c) => Ends(path[m], u)
    BY <1>1, EndsOfOne
<1>3. CASE r = None  BY <1>2, <1>3 DEF Best
<1>4. CASE r # None
    <2>1. r \in 0 .. Len(_node) - 1 /\ Ends(path[r + 1], u)  BY <1>4 DEF Best
    <2>2. r + 1 \in Positions  BY <2>1, NodeFacts DEF TrieInv, Positions
    <2>3. Ends(path[r + 1], w)  BY <1>1, <2>1, <2>2, EndsOfOne
    <2> QED  BY <1>2, <1>4, <2>3 DEF Best
<1> QED  BY <1>3, <1>4

\* The first node with a child c on the way along the links is the longest end
\* that goes on with c, if links are longest up to this depth.
LEMMA ClimbIsBest ==
    ASSUME TrieInv, NEW c \in Char, NEW n \in 0 .. Len(_node) - 1,
           \A m \in Inner : Len(path[m]) <= Len(path[n + 1]) => LongestLink(m)
    PROVE  Best(path[n + 1], c, Climb(n, c))
<1> DEFINE Fits(m) == Best(path[m + 1], c, Climb(m, c))
           Bad == {k \in Nat : \E m \in 0 .. Len(_node) - 1 :
                      k = Len(path[m + 1]) /\ k <= Len(path[n + 1]) /\ ~Fits(m)}
<1>1. ASSUME Bad # {} PROVE FALSE
    <2>1. Bad \subseteq Nat  OBVIOUS
    <2>2. PICK k \in Bad : \A j \in Bad : k <= j
        <3> HIDE DEF Bad
        <3> QED  BY <1>1, <2>1, SmallestNat
    <2>3. PICK m \in 0 .. Len(_node) - 1 : k = Len(path[m + 1]) /\ k <= Len(path[n + 1]) /\ ~Fits(m)  OBVIOUS
    <2>4. /\ m + 1 \in Positions /\ Len(_node) \in Nat /\ path[m + 1] \in Seq(Char) /\ k \in Nat
          /\ \A j \in Positions : path[j] \in Seq(Char)
        BY NodeFacts DEF TrieInv, Positions
    <2>5. m # None  BY DEF None
    <2>6. CASE At(m).child[c] # None
        <3>1. Climb(m, c) = m  BY <2>6, ClimbSteps
        <3>2. \A j \in Positions : Ends(path[j], path[m + 1]) => Len(path[j]) <= Len(path[m + 1])
            BY <2>4, EndsOfOne
        <3> QED  BY <2>3, <2>4, <2>5, <2>6, <3>1, <3>2, EndsOfOne DEF Best
    <2>7. CASE At(m).child[c] = None
        <3>1. Climb(m, c) = Climb(At(m).fail_off, c)  BY <2>7, ClimbSteps
        <3>2. \A j \in Positions : path[j] # Append(path[m + 1], c)
            <4> SUFFICES ASSUME NEW j \in Positions, path[j] = Append(path[m + 1], c) PROVE FALSE  OBVIOUS
            <4>1. IsTrie(_node, path)  BY DEF TrieInv
            <4>3. _node[m + 1].child[c] = j - 1
                <5> HIDE DEF Bad
                <5>1. j \in 1 .. Len(_node) /\ m + 1 \in 1 .. Len(_node)  BY <2>4 DEF Positions
                <5>2. \A i, l \in 1 .. Len(_node), d \in Char :
                          path[i] = Append(path[l], d) => _node[l].child[d] = i - 1
                    BY <4>1, ChildFacts
                <5> QED  BY <5>1, <5>2, Zenon
            <4>2. j - 1 # -1  BY DEF Positions
            <4> QED  BY <2>7, <4>3, <4>2 DEF None, At
        <3>3. CASE m = 0
            <4>1. Climb(m, c) = None  BY <3>1, <3>3, ClimbSteps DEF TrieInv, HasLinks, At
            <4>2. path[m + 1] = << >> /\ Len(path[m + 1]) = 0  BY <3>3, NodeFacts DEF TrieInv
            <4>3. ASSUME NEW j \in Positions, Ends(path[j], path[m + 1]) PROVE path[j] = path[m + 1]
                <5>1. Len(path[j]) \in Nat /\ Len(path[j]) <= 0  BY <2>4, <4>2, <4>3, EndsOfOne
                <5> QED  BY <2>4, <4>2, <4>3, <5>1, EndsOfOne
            <4> QED  BY <2>3, <3>2, <4>1, <4>3 DEF Best
        <3>4. CASE m # 0
            <4> DEFINE f == At(m).fail_off
            <4>1. m + 1 \in Inner  BY <2>4, <3>4 DEF Inner, Positions
            <4>2. /\ f \in 0 .. Len(_node) - 1 /\ Ends(path[f + 1], path[m + 1])
                  /\ Len(path[f + 1]) < Len(path[m + 1]) /\ Link(m + 1) = f + 1
                BY <4>1 DEF TrieInv, HasLinks, At, Inner, Link
            <4> HIDE DEF f
            <4>3. f + 1 \in Positions /\ path[f + 1] \in Seq(Char) /\ Len(path[f + 1]) \in Nat
                BY <2>4, <4>2 DEF Positions
            <4>4. Len(path[f + 1]) < k /\ Len(path[n + 1]) \in Nat
                <5>1. n + 1 \in Positions  BY <2>4 DEF Positions
                <5> QED  BY <2>3, <2>4, <4>2, <5>1
            <4>5. Fits(f)
                <5>1. Len(path[f + 1]) \notin Bad  BY <2>2, <2>4, <4>3, <4>4
                <5>2. Len(path[f + 1]) <= Len(path[n + 1])  BY <2>3, <2>4, <4>3, <4>4, SMTT(30)
                <5> QED  BY <4>2, <4>3, <5>1, <5>2
            <4>6. LongestLink(m + 1)  BY <2>3, <4>1
            <4>7. \A i, j \in Positions :
                      Ends(path[j], path[m + 1]) /\ path[i] = Append(path[j], c) => Len(path[j]) <= Len(path[f + 1])
                BY <3>2, <4>2, <4>6 DEF LongestLink
            <4>8. Best(path[f + 1], c, Climb(f, c))  BY <4>5
            <4>9. Best(path[m + 1], c, Climb(f, c))
                <5> HIDE DEF Fits, Bad
                <5> QED  BY <2>4, <4>2, <4>3, <4>7, <4>8, BestOfEnd
            <4> QED  BY <2>3, <3>1, <4>9 DEF f
        <3> QED  BY <3>3, <3>4
    <2> QED  BY <2>6, <2>7
<1>2. Fits(n)
    <2>1. n + 1 \in Positions /\ Len(path[n + 1]) \in Nat  BY NodeFacts DEF TrieInv, Positions
    <2> QED  BY <1>1, <2>1
<1> QED  BY <1>2

\* The child of that node, or the root, is the longest end of w with c added.
Child(r, c) == IF r = None THEN Root ELSE At(r).child[c]

LEMMA ChildOfBest ==
    ASSUME TrieInv, NEW w \in Seq(Char), NEW c \in Char, NEW r, Best(w, c, r)
    PROVE  /\ Child(r, c) \in 0 .. Len(_node) - 1 /\ Child(r, c) + 1 \in Positions
           /\ Ends(path[Child(r, c) + 1], Append(w, c))
           /\ \A m \in Positions : Ends(path[m], Append(w, c)) => Len(path[m]) <= Len(path[Child(r, c) + 1])
           /\ r # None => /\ Child(r, c) # Root /\ r + 1 \in Positions
                          /\ Len(path[Child(r, c) + 1]) = Len(path[r + 1]) + 1
<1> DEFINE a == Child(r, c)
<1>1. /\ IsTrie(_node, path) /\ Len(_node) \in Nat \ {0} /\ 1 \in Positions /\ path[1] = << >> /\ Len(path[1]) = 0
      /\ \A m \in Positions : path[m] \in Seq(Char) /\ Len(path[m]) \in Nat
    BY NodeFacts DEF TrieInv, Positions
<1>2. Append(w, c) \in Seq(Char)  BY OneMore
<1>3. ASSUME NEW m \in Positions, Ends(path[m], Append(w, c)), path[m] # << >>
      PROVE  \E j \in Positions : Ends(path[j], w) /\ path[m] = Append(path[j], c) /\ Len(path[m]) = Len(path[j]) + 1
    <2>1. PICK v \in Seq(Char), d \in Char : path[m] = Append(v, d)  BY <1>1, <1>3, OneMore
    <2>2. d = c /\ Ends(v, w)  BY <1>3, <2>1, OneMore
    <2>3. Begins(v, path[m])  BY <2>1, BeginsOneMore
    <2>4. PICK j \in Positions : path[j] = v
        <3>1. m \in 1 .. Len(_node)  BY DEF Positions
        <3>2. \A u \in Seq(Char) : Begins(u, path[m]) => \E j \in 1 .. Len(_node) : path[j] = u
            BY <1>1, <3>1, ChildFacts
        <3> QED  BY <2>3, <3>2 DEF Positions
    <2>5. path[m] = Append(path[j], c) /\ Ends(path[j], w)  BY <2>1, <2>2, <2>4
    <2>6. Len(path[m]) = Len(path[j]) + 1  BY <1>1, <2>5, OneMore
    <2> QED  BY <2>5, <2>6
<1>4. CASE r = None
    <2>1. a = 0 /\ a + 1 = 1  BY <1>4 DEF Child, Root
    <2>2. \A m \in Positions : Ends(path[m], Append(w, c)) => path[m] = << >>
        BY <1>3, <1>4 DEF Best
    <2>3. Ends(path[1], Append(w, c))  BY <1>1, <1>2, EndsOfOne
    <2>4. \A m \in Positions : Ends(path[m], Append(w, c)) => Len(path[m]) <= Len(path[1])
        BY <1>1, <2>2
    <2>5. 0 \in 0 .. Len(_node) - 1  BY <1>1
    <2> QED  BY <1>1, <1>4, <2>1, <2>3, <2>4, <2>5
<1>5. CASE r # None
    <2>1. /\ r \in 0 .. Len(_node) - 1 /\ At(r).child[c] # None /\ Ends(path[r + 1], w)
          /\ \A k, m \in Positions :
               Ends(path[m], w) /\ path[k] = Append(path[m], c) => Len(path[m]) <= Len(path[r + 1])
        BY <1>5 DEF Best
    <2>2. r + 1 \in 1 .. Len(_node) /\ r + 1 \in Positions  BY <1>1, <2>1 DEF Positions
    <2>3. a = _node[r + 1].child[c]  BY <1>5 DEF Child, At
    <2>4. a \in 1 .. Len(_node) - 1 /\ path[a + 1] = Append(path[r + 1], c)
        <3>1. \A n \in 1 .. Len(_node), d \in Char : _node[n].child[d] # None =>
                 _node[n].child[d] \in 1 .. Len(_node) - 1 /\ path[_node[n].child[d] + 1] = Append(path[n], d)
            BY <1>1, ChildFacts
        <3>2. _node[r + 1].child[c] # None  BY <2>1 DEF At
        <3> QED  BY <2>2, <2>3, <3>1, <3>2, Zenon
    <2> HIDE DEF a
    <2>5. a \in 0 .. Len(_node) - 1 /\ a + 1 \in Positions /\ a # Root  BY <1>1, <2>4 DEF Positions, Root
    <2>6. Len(path[a + 1]) = Len(path[r + 1]) + 1  BY <1>1, <2>2, <2>4, OneMore
    <2>7. Ends(path[a + 1], Append(w, c))  BY <1>1, <2>1, <2>2, <2>4, OneMore
    <2>8. ASSUME NEW m \in Positions, Ends(path[m], Append(w, c)) PROVE Len(path[m]) <= Len(path[a + 1])
        <3>1. CASE path[m] = << >>
            <4>1. Len(path[m]) = 0  BY <3>1
            <4> QED  BY <1>1, <2>5, <4>1
        <3>2. CASE path[m] # << >>
            <4>1. PICK j \in Positions : Ends(path[j], w) /\ path[m] = Append(path[j], c) /\ Len(path[m]) = Len(path[j]) + 1
                BY <1>3, <2>8, <3>2
            <4>2. Len(path[j]) <= Len(path[r + 1])  BY <2>1, <4>1
            <4> QED  BY <1>1, <2>2, <2>6, <4>1, <4>2
        <3> QED  BY <3>1, <3>2
    <2> QED  BY <2>2, <2>5, <2>6, <2>7, <2>8 DEF a
<1> QED  BY <1>4, <1>5

\* get_match goes from the longest end of what it has read to the longest end
\* with the next character.
LEMMA AdvanceIsLongest ==
    ASSUME TrieInv, \A m \in Inner : LongestLink(m), NEW t \in Seq(Char), NEW c \in Char,
           NEW n \in 0 .. Len(_node) - 1, Ends(path[n + 1], t),
           \A m \in Positions : Ends(path[m], t) => Len(path[m]) <= Len(path[n + 1])
    PROVE  /\ Advance(n, c) \in 0 .. Len(_node) - 1 /\ Ends(path[Advance(n, c) + 1], Append(t, c))
           /\ \A m \in Positions : Ends(path[m], Append(t, c)) => Len(path[m]) <= Len(path[Advance(n, c) + 1])
<1>1. Advance(n, c) = Child(Climb(n, c), c)  BY DEF Advance, Child
<1>2. Best(path[n + 1], c, Climb(n, c))  BY ClimbIsBest
<1>3. path[n + 1] \in Seq(Char)
    <2>1. n + 1 \in 1 .. Len(_node)  BY NodeFacts DEF TrieInv
    <2> QED  BY <2>1, NodeFacts DEF TrieInv
<1>4. Best(t, c, Climb(n, c))  BY <1>2, <1>3, BestOfEnd
<1> QED  BY <1>1, <1>4, ChildOfBest

\* The ids along the links are those of the ends of the word.
LEMMA IdsAreThoseOfEnds ==
    ASSUME TrieInv, \A m \in Inner : Linked(m), NEW n \in 0 .. Len(_node) - 1
    PROVE  /\ \A i \in IdsFrom(n) : \E d \in dict \cup stale : d[2] = i /\ d[1] # << >> /\ Ends(d[1], path[n + 1])
           /\ \A d \in dict : d[1] # << >> /\ Ends(d[1], path[n + 1]) => d[2] \in IdsFrom(n)
<1> DEFINE Sound(m) == \A i \in IdsFrom(m) :
                          \E d \in dict \cup stale : d[2] = i /\ d[1] # << >> /\ Ends(d[1], path[m + 1])
           Full(m) == \A d \in dict : d[1] # << >> /\ Ends(d[1], path[m + 1]) => d[2] \in IdsFrom(m)
           Bad == {k \in Nat : \E m \in 0 .. Len(_node) - 1 : k = Len(path[m + 1]) /\ ~(Sound(m) /\ Full(m))}
<1>0. /\ IsTrie(_node, path) /\ Len(_node) \in Nat \ {0} /\ path[1] = << >> /\ Len(path[1]) = 0
      /\ \A m \in Positions : path[m] \in Seq(Char) /\ Len(path[m]) \in Nat
    BY NodeFacts DEF TrieInv, Positions
<1>00. /\ \A d \in dict \cup stale : d[1] \in Seq(Char) /\ d[2] \in Ids /\ d[2] # None
       /\ \A d \in dict : \E m \in Positions : path[m] = d[1] /\ _node[m].id = d[2]
    <2>1. \A d \in dict \cup stale : d \in Seq(Char) \X Ids  BY DEF TrieInv, IdsInForce
    <2>2. \A i \in Ids : i # None  BY IdsAssumption DEF None
    <2>3. \A d \in dict \cup stale : d[1] \in Seq(Char) /\ d[2] \in Ids  BY <2>1
    <2> QED  BY <2>2, <2>3 DEF TrieInv, IdsInForce
<1>1. ASSUME Bad # {} PROVE FALSE
    <2>1. Bad \subseteq Nat  OBVIOUS
    <2>2. PICK k \in Bad : \A j \in Bad : k <= j
        <3> HIDE DEF Bad
        <3> QED  BY <1>1, <2>1, SmallestNat
    <2>3. PICK m \in 0 .. Len(_node) - 1 : k = Len(path[m + 1]) /\ ~(Sound(m) /\ Full(m))  OBVIOUS
    <2>4. m + 1 \in Positions /\ path[m + 1] \in Seq(Char) /\ k \in Nat  BY <1>0 DEF Positions
    <2>5. IdsFrom(m) = IF m = Root \/ At(m).id = None THEN {} ELSE {At(m).id} \cup IdsFrom(At(m).fail_off)
        BY IdsSteps
    <2>6. CASE m = Root
        <3>1. IdsFrom(m) = {} /\ path[m + 1] = << >>  BY <1>0, <2>5, <2>6 DEF Root
        <3>2. \A d \in dict : Ends(d[1], << >>) => d[1] = << >>
            <4> SUFFICES ASSUME NEW d \in dict, Ends(d[1], << >>) PROVE d[1] = << >>  OBVIOUS
            <4>1. d[1] \in Seq(Char)  BY <1>00
            <4> QED  BY <4>1, NothingElseEnds
        <3> QED  BY <2>3, <3>1, <3>2
    <2>7. CASE m # Root
        <3> DEFINE f == At(m).fail_off
        <3>1. m + 1 \in Inner  BY <1>0, <2>7 DEF Inner, Root
        <3>2. /\ f \in 0 .. Len(_node) - 1 /\ Ends(path[f + 1], path[m + 1])
              /\ Len(path[f + 1]) < Len(path[m + 1]) /\ Link(m + 1) = f + 1
            BY <3>1 DEF TrieInv, HasLinks, At, Inner, Link
        <3>3. f + 1 \in Positions /\ path[f + 1] \in Seq(Char) /\ Len(path[f + 1]) \in Nat
            <4> HIDE DEF f, Bad
            <4>1. f + 1 \in Positions  BY <1>0, <3>2 DEF Positions
            <4> QED  BY <1>0, <4>1
        <3>4. Sound(f) /\ Full(f)
            <4> HIDE DEF f
            <4>1. Len(path[f + 1]) \notin Bad
                <5>1. ~(k <= Len(path[f + 1]))  BY <2>3, <2>4, <3>2, <3>3
                <5> HIDE DEF Bad
                <5> QED  BY <2>2, <5>1
            <4> QED  BY <3>2, <3>3, <4>1
        <3>5. IdsFrom(f) = IF f = Root \/ At(f).id = None THEN {} ELSE {At(f).id} \cup IdsFrom(At(f).fail_off)
            BY <3>2, IdsSteps
        <3>6. LongestLink(m + 1) /\ IdPassed(m + 1)  BY <3>1 DEF Linked
        <3> HIDE DEF f
        <3>7. At(m).id = None => IdsFrom(f) = {}
            BY <3>2, <3>3, <3>5, <3>6 DEF IdPassed, At, Root
        <3>8. IdsFrom(m) = IF At(m).id = None THEN {} ELSE {At(m).id} \cup IdsFrom(f)
            BY <2>5, <2>7 DEF f
        <3>9. Sound(m)
            <4> SUFFICES ASSUME NEW i \in IdsFrom(m)
                         PROVE  \E d \in dict \cup stale : d[2] = i /\ d[1] # << >> /\ Ends(d[1], path[m + 1])
                OBVIOUS
            <4>1. CASE i \in IdsFrom(f)
                <5>1. PICK d \in dict \cup stale : d[2] = i /\ d[1] # << >> /\ Ends(d[1], path[f + 1])
                    BY <3>4, <4>1
                <5>2. Ends(d[1], path[m + 1])  BY <1>00, <2>4, <3>2, <3>3, <5>1, EndsOfOne, SMTT(30)
                <5> QED  BY <5>1, <5>2
            <4>2. CASE i = At(m).id /\ i # None
                BY <3>1, <4>2 DEF TrieInv, IdsInForce, At
            <4> QED  BY <3>8, <4>1, <4>2
        <3>10. Full(m)
            <4> SUFFICES ASSUME NEW d \in dict, d[1] # << >>, Ends(d[1], path[m + 1])
                         PROVE  d[2] \in IdsFrom(m)
                OBVIOUS
            <4>1. PICK j \in Positions : path[j] = d[1] /\ _node[j].id = d[2]  BY <1>00
            <4>2. CASE path[j] = path[m + 1]
                <5>1. j = m + 1  BY <1>0, <2>4, <4>2, ChildFacts DEF Positions
                <5>2. At(m).id = d[2]  BY <4>1, <5>1 DEF At
                <5> QED  BY <1>00, <3>8, <5>2
            <4>3. CASE path[j] # path[m + 1]
                <5>1. Len(path[j]) <= Len(path[f + 1])  BY <3>2, <3>6, <4>1, <4>3 DEF LongestLink
                <5>2. Ends(path[j], path[f + 1])  BY <1>0, <2>4, <3>2, <3>3, <4>1, <5>1, EndsOfOne
                <5>3. d[2] \in IdsFrom(f)  BY <3>4, <4>1, <5>2
                <5> QED  BY <3>7, <3>8, <5>3
            <4> QED  BY <4>2, <4>3
        <3> QED  BY <2>3, <3>9, <3>10
    <2> QED  BY <2>6, <2>7
<1>2. Sound(n) /\ Full(n)
    <2>1. n + 1 \in Positions /\ Len(path[n + 1]) \in Nat  BY <1>0 DEF Positions
    <2> QED  BY <1>1, <2>1
<1> QED  BY <1>2

-----------------------------------------------------------------------------
(* The search.                                                             *)

\* A word that occurs in a longer text occurs before, or ends it.
LEMMA OccursOneMore ==
    ASSUME NEW w \in Seq(Char), NEW t \in Seq(Char), NEW c \in Char
    PROVE  Occurs(w, Append(t, c)) <=> Occurs(w, t) \/ (w # << >> /\ Ends(w, Append(t, c)))
<1>0. Append(t, c) \in Seq(Char) /\ Len(Append(t, c)) = Len(t) + 1 /\ Len(t) \in Nat  BY OneMore
<1>1. PICK x \in Seq(Char), N \in Nat : x = Append(t, c) /\ N = Len(t) /\ Len(x) = N + 1  BY <1>0
<1>2. \A n \in 0 .. N : SubSeq(x, 1, n) = SubSeq(t, 1, n) /\ SubSeq(t, 1, n) \in Seq(Char)  BY <1>1
<1>3. SubSeq(x, 1, N + 1) = x  BY <1>1
<1>4. \A n \in 0 .. N + 1 : n = N + 1 \/ n \in 0 .. N  BY <1>1
<1>5. \A n \in 0 .. N : n \in 0 .. N + 1  BY <1>1
<1>6. N + 1 \in 0 .. N + 1  BY <1>1
<1>7. IsSuffix(w, x) <=> Ends(w, x)  BY <1>1, SuffixEnds
<1>8. (\E n \in 0 .. N + 1 : IsSuffix(w, SubSeq(x, 1, n))) <=> IsSuffix(w, x) \/ \E n \in 0 .. N : IsSuffix(w, SubSeq(t, 1, n))
    BY <1>2, <1>3, <1>4, <1>5, <1>6
<1> QED  BY <1>1, <1>7, <1>8 DEF Occurs

\* The ids of the words that occur, when one more character is read.
LEMMA IdsOneMore ==
    ASSUME NEW pairs, \A d \in pairs : d[1] \in Seq(Char), NEW t \in Seq(Char), NEW c \in Char
    PROVE  IdsOf(pairs, Append(t, c))
             = IdsOf(pairs, t) \cup {d[2] : d \in {d \in pairs : d[1] # << >> /\ Ends(d[1], Append(t, c))}}
<1>1. \A d \in pairs : Occurs(d[1], Append(t, c)) <=> Occurs(d[1], t) \/ (d[1] # << >> /\ Ends(d[1], Append(t, c)))
    BY OccursOneMore
<1> QED  BY <1>1 DEF IdsOf

\* Nothing occurs in the empty text.
LEMMA NothingOccurs ==
    ASSUME NEW pairs, \A d \in pairs : d[1] \in Seq(Char)
    PROVE  IdsOf(pairs, << >>) = {}
<1>1. \A n \in 0 .. Len(<< >>) : SubSeq(<< >>, 1, n) = << >>  OBVIOUS
<1>2. << >> \in Seq(Char)  OBVIOUS
<1>3. \A w \in Seq(Char) : ~Occurs(w, << >>)  BY <1>1, <1>2, SuffixEnds, NothingElseEnds DEF Occurs
<1> QED  BY <1>3 DEF IdsOf

\* Where only the search goes on, the trie and the links stay.
LEMMA TrieStays ==
    ASSUME TrieInv, UNCHANGED <<_node, path, dict, stale, builds>>
    PROVE  TrieInv' /\ (\A n \in Inner : Linked(n) => Linked(n)') /\ Inner' = Inner
<1>1. IsTrie(_node, path)' /\ HasLinks(_node, path)'  BY DEF TrieInv, IsTrie, HasLinks
<1>2. IdsInForce'  BY DEF TrieInv, IdsInForce, Positions, Inner
<1>3. \A n \in Inner : Linked(n) => Linked(n)'  BY DEF Linked, LongestLink, IdPassed, Link, Positions
<1>4. Inner' = Inner  BY DEF Inner
<1> QED  BY <1>1, <1>2, <1>3, <1>4 DEF TrieInv

\* One character of get_match.
LEMMA ReadCharKeeps ==
    ASSUME IInv, NEW c \in Char, ReadChar(c)
    PROVE  IInv'
<1>1. /\ pc = "match" /\ pc' = "match" /\ text' = Append(text, c)
      /\ UNCHANGED <<_node, path, dict, stale, inserts, que, builds>>
    BY DEF ReadChar, trie
<1>2. TrieInv /\ TrieInv' /\ (\A n \in Inner : Linked(n) /\ Linked(n)') /\ Inner' = Inner
    BY <1>1, TrieStays DEF IInv, BuildInv
<1>3. Control' /\ BuildInv'
    BY <1>1, <1>2 DEF IInv, Control, BuildInv
<1>4. /\ text \in Seq(Char) /\ off \in 0 .. Len(_node) - 1 /\ Ends(path[off + 1], text)
      /\ \A m \in Positions : Ends(path[m], text) => Len(path[m]) <= Len(path[off + 1])
      /\ ret \subseteq Ids /\ retOff \subseteq Ids \X Nat /\ {p[1] : p \in retOff} = ret
      /\ \A p \in retOff : p[2] < Len(text)
      /\ IdsOf(dict, text) \subseteq ret /\ ret \subseteq IdsOf(dict \cup stale, text)
    BY <1>1 DEF IInv, SearchInv, MatchExact
<1>5. PICK N \in Nat, t \in Seq(Char) : N = Len(text) /\ t = Append(text, c) /\ Len(t) = N + 1
    <2>1. Append(text, c) \in Seq(Char) /\ Len(Append(text, c)) = Len(text) + 1 /\ Len(text) \in Nat  BY <1>4, OneMore
    <2> QED  BY <2>1
<1>6. PICK a : a = off'  OBVIOUS
<1>7. /\ a \in 0 .. Len(_node) - 1 /\ Ends(path[a + 1], t)
      /\ \A m \in Positions : Ends(path[m], t) => Len(path[m]) <= Len(path[a + 1])
    <2>1. \A m \in Inner : LongestLink(m)  BY <1>2 DEF Linked
    <2>2. a = Advance(off, c)  BY <1>6 DEF ReadChar
    <2> QED  BY <1>2, <1>4, <1>5, <2>1, <2>2, AdvanceIsLongest
<1> DEFINE new == IdsFrom(a)
<1>8. ret' = ret \cup new /\ retOff' = Reported(retOff, new, N)  BY <1>5, <1>6 DEF ReadChar
<1>9. /\ dict \cup stale \subseteq Seq(Char) \X Ids
      /\ \A d \in dict : \E m \in Positions : path[m] = d[1]
    BY <1>2 DEF TrieInv, IdsInForce
<1>10. /\ \A d \in dict \cup stale : d[1] \in Seq(Char) /\ d[2] \in Ids
       /\ \A d \in dict : d[1] \in Seq(Char)
    BY <1>9
<1>11. a + 1 \in Positions /\ \A m \in Positions : path[m] \in Seq(Char)
    BY <1>2, <1>7, NodeFacts DEF TrieInv, Positions
<1>12. /\ \A i \in new : \E d \in dict \cup stale : d[2] = i /\ d[1] # << >> /\ Ends(d[1], path[a + 1])
       /\ \A d \in dict : d[1] # << >> /\ Ends(d[1], path[a + 1]) => d[2] \in new
    BY <1>2, <1>7, IdsAreThoseOfEnds
<1> HIDE DEF new
<1>13. \A i \in new : \E d \in dict \cup stale : d[2] = i /\ d[1] # << >> /\ Ends(d[1], t)
    BY <1>7, <1>10, <1>11, <1>12, EndsOfOne
<1>14. ASSUME NEW d \in dict, d[1] # << >>, Ends(d[1], t) PROVE d[2] \in new
    <2>1. PICK m \in Positions : path[m] = d[1]  BY <1>9
    <2>2. Len(path[m]) <= Len(path[a + 1])  BY <1>7, <1>14, <2>1
    <2>3. Ends(path[m], path[a + 1])  BY <1>7, <1>11, <1>14, <2>1, <2>2, EndsOfOne
    <2> QED  BY <1>12, <1>14, <2>1, <2>3
<1>15. /\ IdsOf(dict, t) = IdsOf(dict, text) \cup {d[2] : d \in {d \in dict : d[1] # << >> /\ Ends(d[1], t)}}
       /\ IdsOf(dict \cup stale, t)
            = IdsOf(dict \cup stale, text) \cup {d[2] : d \in {d \in dict \cup stale : d[1] # << >> /\ Ends(d[1], t)}}
    BY <1>4, <1>5, <1>10, IdsOneMore
<1>16. IdsOf(dict, t) \subseteq ret \cup new
    <2>1. {d[2] : d \in {d \in dict : d[1] # << >> /\ Ends(d[1], t)}} \subseteq new  BY <1>14
    <2> QED  BY <1>4, <1>15, <2>1
<1>17. ret \cup new \subseteq IdsOf(dict \cup stale, t)
    <2>1. new \subseteq {d[2] : d \in {d \in dict \cup stale : d[1] # << >> /\ Ends(d[1], t)}}  BY <1>13
    <2> QED  BY <1>4, <1>15, <2>1
<1>18. new \subseteq Ids  BY <1>10, <1>13
<1>19. retOff' = retOff \cup {<<i, N>> : i \in new \ ret}
    <2>1. {i \in new : \A p \in retOff : p[1] # i} = new \ ret  BY <1>4
    <2> QED  BY <1>8, <2>1 DEF Reported
<1>20. retOff' \subseteq Ids \X Nat /\ {p[1] : p \in retOff'} = ret'
    <2>1. {<<i, N>> : i \in new \ ret} \subseteq Ids \X Nat  BY <1>18
    <2>2. {p[1] : p \in {<<i, N>> : i \in new \ ret}} = new \ ret
        <3> DEFINE S == {<<i, N>> : i \in new \ ret}
        <3>1. \A p \in S : p[1] \in new \ ret  OBVIOUS
        <3>2. \A i \in new \ ret : <<i, N>> \in S /\ <<i, N>>[1] = i  OBVIOUS
        <3> HIDE DEF S
        <3>3. {p[1] : p \in S} = new \ ret  BY <3>1, <3>2
        <3> QED  BY <3>3 DEF S
    <2>3. {p[1] : p \in retOff'} = {p[1] : p \in retOff} \cup {p[1] : p \in {<<i, N>> : i \in new \ ret}}  BY <1>19
    <2>4. {p[1] : p \in retOff'} = ret \cup (new \ ret)  BY <1>4, <2>2, <2>3
    <2> QED  BY <1>4, <1>8, <1>19, <2>1, <2>4
<1>21. \A p \in retOff' : p[2] < N + 1
    <2>1. \A p \in retOff : p[2] \in Nat /\ p[2] < N  BY <1>4, <1>5
    <2>2. \A p \in {<<i, N>> : i \in new \ ret} : p[2] = N  OBVIOUS
    <2> QED  BY <1>5, <1>19, <2>1, <2>2
<1>22. ASSUME stale = {}, NEW p \in retOff'
       PROVE  p[1] \in IdsOf(dict, SubSeq(t, 1, p[2] + 1)) /\ p[1] \notin IdsOf(dict, SubSeq(t, 1, p[2]))
    <2>1. CASE p \in retOff
        <3>1. p[2] \in Nat /\ p[2] < N  BY <1>4, <1>5, <2>1
        <3>2. p[1] \in IdsOf(dict, SubSeq(text, 1, p[2] + 1)) /\ p[1] \notin IdsOf(dict, SubSeq(text, 1, p[2]))
            BY <1>1, <1>22, <2>1 DEF IInv, SearchInv, FirstOffset
        <3>3. \A k \in 0 .. N : SubSeq(t, 1, k) = SubSeq(text, 1, k)  BY <1>4, <1>5
        <3>4. p[2] \in 0 .. N /\ p[2] + 1 \in 0 .. N  BY <3>1, <1>5
        <3> QED  BY <3>2, <3>3, <3>4
    <2>2. CASE p \in {<<i, N>> : i \in new \ ret}
        <3>1. p[1] \in new \ ret /\ p[2] = N  BY <2>2
        <3>2. SubSeq(t, 1, N + 1) = t /\ SubSeq(t, 1, N) = text  BY <1>4, <1>5
        <3>3. dict \cup stale = dict  BY <1>22
        <3> QED  BY <1>4, <1>17, <3>1, <3>2, <3>3
    <2> QED  BY <1>19, <2>1, <2>2
<1>23. MatchExact' /\ FirstOffset'
    <2>1. MatchExact'  BY <1>1, <1>5, <1>8, <1>16, <1>17 DEF MatchExact
    <2>2. FirstOffset'  BY <1>1, <1>5, <1>20, <1>22 DEF FirstOffset
    <2> QED  BY <2>1, <2>2
<1>24. SearchInv'
    <2>1. text' = t /\ Positions' = Positions  BY <1>1, <1>5 DEF Positions
    <2>2. ret' \subseteq Ids  BY <1>4, <1>8, <1>18
    <2>3. \A p \in retOff' : p[2] < Len(text')  BY <1>5, <1>21, <2>1
    <2>4. /\ text' \in Seq(Char) /\ off' \in 0 .. Len(_node') - 1 /\ Ends(path'[off' + 1], text')
          /\ \A m \in Positions' : Ends(path'[m], text') => Len(path'[m]) <= Len(path'[off' + 1])
        BY <1>1, <1>5, <1>6, <1>7, <2>1
    <2> QED  BY <1>1, <1>20, <1>23, <2>2, <2>3, <2>4 DEF SearchInv
<1> QED  BY <1>2, <1>3, <1>24 DEF IInv

\* Between two searches there is nothing of a search.
LEMMA NoSearch ==
    ASSUME IsTrie(_node, path)', pc' # "match",
           text' = << >>, off' = Root, ret' = {}, retOff' = {}
    PROVE  SearchInv'
<1>1. Len(_node') \in Nat \ {0}  BY NodeFacts
<1>2. 0 \in 0 .. Len(_node') - 1  BY <1>1
<1>3. text' \in Seq(Char) /\ off' \in 0 .. Len(_node') - 1  BY <1>2 DEF Root
<1>4. MatchExact' /\ FirstOffset'  BY DEF MatchExact, FirstOffset
<1> QED  BY <1>3, <1>4 DEF SearchInv

\* get_match begins at the root, with nothing read.
LEMMA GetMatchKeeps ==
    ASSUME IInv, get_match
    PROVE  IInv'
<1>1. /\ pc = "ready" /\ pc' = "match" /\ text = << >> /\ off = Root /\ ret = {} /\ retOff = {}
      /\ UNCHANGED <<_node, path, dict, stale, inserts, que, builds, text, off, ret, retOff>>
    BY DEF get_match, trie, search, IInv, SearchInv
<1>2. TrieInv /\ TrieInv' /\ (\A n \in Inner : Linked(n) /\ Linked(n)') /\ Inner' = Inner
    BY <1>1, TrieStays DEF IInv, BuildInv
<1>3. Control' /\ BuildInv'
    BY <1>1, <1>2 DEF IInv, Control, BuildInv
<1>4. path[1] = << >> /\ Len(path[1]) = 0 /\ \A m \in Positions : path[m] \in Seq(Char)
    BY <1>2, NodeFacts DEF TrieInv, Positions
<1>5. Ends(path[off + 1], text) /\ \A m \in Positions : Ends(path[m], text) => Len(path[m]) <= Len(path[off + 1])
    <2>1. off + 1 = 1  BY <1>1 DEF Root
    <2>2. \A m \in Positions : Ends(path[m], << >>) => path[m] = << >>  BY <1>4, NothingElseEnds
    <2>3. << >> \in Seq(Char)  OBVIOUS
    <2>4. Ends(<< >>, << >>)  BY <2>3, EndsOfOne
    <2> QED  BY <1>1, <1>4, <2>1, <2>2, <2>4
<1>6. IdsOf(dict, text) = {}
    <2>1. \A d \in dict : d[1] \in Seq(Char)  BY <1>2 DEF TrieInv, IdsInForce
    <2> QED  BY <1>1, <2>1, NothingOccurs
<1>7. MatchExact' /\ FirstOffset'  BY <1>1, <1>6 DEF MatchExact, FirstOffset
<1>8. SearchInv'
    BY <1>1, <1>5, <1>7 DEF IInv, SearchInv, Positions
<1> QED  BY <1>2, <1>3, <1>8 DEF IInv

LEMMA MatchReturnsKeeps ==
    ASSUME IInv, MatchReturns
    PROVE  IInv'
<1>1. /\ pc = "match" /\ pc' = "ready"
      /\ UNCHANGED <<_node, path, dict, stale, inserts, que, builds>>
    BY DEF MatchReturns, trie
<1>2. TrieInv /\ TrieInv' /\ (\A n \in Inner : Linked(n) /\ Linked(n)') /\ Inner' = Inner
    BY <1>1, TrieStays DEF IInv, BuildInv
<1>3. Control' /\ BuildInv'
    BY <1>1, <1>2 DEF IInv, Control, BuildInv
<1>4. SearchInv'
    <2>1. IsTrie(_node, path)'  BY <1>2 DEF TrieInv
    <2> QED  BY <1>1, <2>1, NoSearch DEF MatchReturns
<1> QED  BY <1>2, <1>3, <1>4 DEF IInv

-----------------------------------------------------------------------------
(* The trie is made and unmade.                                            *)

\* A root alone.
LEMMA RootOnly == IsTrie(<<NewRoot>>, << << >> >>) /\ HasLinks(<<NewRoot>>, << << >> >>)
<1> DEFINE node == <<NewRoot>>
           words == << << >> >>
<1>1. NewRoot \in Node /\ NewRoot.fail_off = None /\ \A c \in Char : NewRoot.child[c] = None
    BY DEF NewRoot, Node
<1>2. node \in Seq(Node) /\ Len(node) = 1 /\ node[1] = NewRoot  BY <1>1
<1>3. words \in Seq(Seq(Char)) /\ Len(words) = 1 /\ words[1] = << >> /\ << >> \in Seq(Char) /\ Len(words[1]) = 0
    <2>1. << >> \in Seq(Char)  OBVIOUS
    <2> DEFINE W == Seq(Char)
    <2> HIDE DEF W
    <2>2. \A e \in W : <<e>> \in Seq(W) /\ Len(<<e>>) = 1 /\ <<e>>[1] = e  OBVIOUS
    <2>3. << >> \in W  BY <2>1 DEF W
    <2>4. words \in Seq(W) /\ Len(words) = 1 /\ words[1] = << >>  BY <2>2, <2>3
    <2> QED  BY <2>1, <2>4 DEF W
<1> HIDE DEF node, words
<1>4. 1 .. 1 = {1} /\ 2 .. 1 = {}  OBVIOUS
<1>5. \A c \in Char : << >> # Append(<< >>, c)
    <2>1. \A c \in Char : Len(Append(<< >>, c)) = Len(<< >>) + 1  BY <1>3, OneMore
    <2> QED  BY <2>1
<1>6. \A v \in Seq(Char) : Begins(v, << >>) => v = << >>
    <2>1. \A v \in Seq(Char) : Begins(v, << >>) => Len(v) \in Nat /\ Len(v) <= Len(<< >>)  BY DEF Begins
    <2>2. Len(<< >>) = 0  OBVIOUS
    <2>3. \A v \in Seq(Char) : Begins(v, << >>) => Len(v) = 0  BY <2>1, <2>2
    <2> QED  BY <2>3, EmptySeq
<1>7. IsTrie(node, words)
    <2>1. \A n \in 1 .. Len(node) : n = 1  BY <1>2, <1>4
    <2>2. \A n \in 1 .. Len(node) : Len(words[n]) < n  BY <1>3, <2>1
    <2>3. \A m, n \in 1 .. Len(node) : words[m] = words[n] => m = n  BY <2>1
    <2>4. \A n \in 1 .. Len(node), c \in Char : node[n].child[c] = None  BY <1>1, <1>2, <2>1
    <2>5. \A m, n \in 1 .. Len(node), c \in Char : words[m] # Append(words[n], c)  BY <1>3, <1>5, <2>1
    <2>6. \A n \in 1 .. Len(node) : \A v \in Seq(Char) : Begins(v, words[n]) => v = words[n]
        BY <1>3, <1>6, <2>1
    <2>7. Len(node) >= 1  BY <1>2
    <2> QED  BY <1>2, <1>3, <2>2, <2>3, <2>4, <2>5, <2>6, <2>7 DEF IsTrie
<1>8. HasLinks(node, words)  BY <1>1, <1>2, <1>4 DEF HasLinks
<1> QED  BY <1>7, <1>8 DEF node, words

\* A trie without words is in order.
LEMMA NoWords ==
    ASSUME _node = <<NewRoot>>, path = << << >> >>, dict = {}, stale = {}
    PROVE  TrieInv /\ Inner = {} /\ Len(_node) = 1
<1>1. Len(_node) = 1  OBVIOUS
<1>2. Inner = {}  BY <1>1 DEF Inner
<1>3. IdsInForce  BY <1>2 DEF IdsInForce
<1> QED  BY <1>1, <1>2, <1>3, RootOnly DEF TrieInv

LEMMA InitHolds ==
    ASSUME Init
    PROVE  IInv
<1>1. TrieInv /\ Inner = {} /\ Len(_node) = 1  BY NoWords DEF Init
<1>2. Control  BY BoundAssumption DEF Init, Control
<1>3. BuildInv  BY <1>1 DEF Init, BuildInv
<1>4. text \in Seq(Char) /\ off \in 0 .. Len(_node) - 1  BY <1>1 DEF Init, Root
<1>5. SearchInv  BY <1>4 DEF Init, SearchInv, MatchExact, FirstOffset
<1> QED  BY <1>1, <1>2, <1>3, <1>5 DEF IInv

LEMMA ClearKeeps ==
    ASSUME IInv, clear
    PROVE  IInv'
<1>1. /\ pc \in {"words", "ready"} /\ pc' = "words" /\ builds' = FALSE
      /\ _node' = <<NewRoot>> /\ path' = << << >> >> /\ dict' = {} /\ stale' = {}
      /\ UNCHANGED <<inserts, que, text, off, ret, retOff>>
    BY DEF clear, search
<1>2. TrieInv' /\ Inner' = {} /\ Len(_node') = 1
    <2>1. Len(_node') = 1  BY <1>1
    <2>2. Inner' = {}  BY <2>1 DEF Inner
    <2>3. IdsInForce'  BY <1>1, <2>2 DEF IdsInForce
    <2>4. IsTrie(_node, path)' /\ HasLinks(_node, path)'  BY <1>1, RootOnly DEF IsTrie, HasLinks
    <2> QED  BY <2>1, <2>2, <2>3, <2>4 DEF TrieInv
<1>3. que = << >> /\ text = << >> /\ off = Root /\ ret = {} /\ retOff = {}
    BY <1>1 DEF IInv, BuildInv, SearchInv
<1>4. Control' /\ BuildInv'  BY <1>1, <1>2, <1>3 DEF IInv, Control, BuildInv
<1>5. SearchInv'
    <2>1. IsTrie(_node, path)'  BY <1>2 DEF TrieInv
    <2> QED  BY <1>1, <1>3, <2>1, NoSearch
<1> QED  BY <1>2, <1>4, <1>5 DEF IInv

\* build_automata starts from the root, above which nothing waits.
LEMMA BuildAutomataKeeps ==
    ASSUME IInv, build_automata
    PROVE  IInv'
<1>1. /\ pc = "words" /\ pc' = "build" /\ que' = <<Root>> /\ builds' = TRUE
      /\ UNCHANGED <<_node, path, dict, stale, inserts, text, off, ret, retOff>>
    BY DEF build_automata, trie, search
<1>2. TrieInv'
    <2>1. IsTrie(_node, path)' /\ HasLinks(_node, path)'  BY <1>1 DEF IInv, TrieInv, IsTrie, HasLinks
    <2>2. IdsInForce'  BY <1>1 DEF IInv, TrieInv, IdsInForce, Positions, Inner
    <2> QED  BY <2>1, <2>2 DEF TrieInv
<1>3. /\ Len(_node) \in Nat \ {0} /\ path[1] = << >> /\ Len(path[1]) = 0
      /\ \A n \in Inner : path[n] \in Seq(Char) /\ Len(path[n]) > 0
    <2>1. IsTrie(_node, path)  BY DEF IInv, TrieInv
    <2> QED  BY <2>1, NodeFacts DEF Inner
<1>4. 0 \in 0 .. Len(_node) - 1 /\ Root = 0 /\ Root + 1 = 1  BY <1>3 DEF Root
<1>5. que' \in Seq(0 .. Len(_node') - 1) /\ Len(que') = 1 /\ que'[1] = 0  BY <1>1, <1>4
<1>6. \A k \in 1 .. Len(que') : k = 1  BY <1>5
<1>7. ByDepth(que)'
    <2>1. Len(path'[que'[1] + 1]) = 0  BY <1>1, <1>3, <1>5
    <2> QED  BY <1>6, <2>1 DEF ByDepth, Depth
<1>8. \A n \in Inner' : Waits(n)'
    <2> SUFFICES ASSUME NEW n \in Inner PROVE Waits(n)'  BY <1>1 DEF Inner
    <2>1. Begins(<< >>, path[n]) /\ 0 < Len(path[n])  BY <1>3, BeginsOfOne
    <2>2. 1 \in 1 .. Len(que') /\ path'[que'[1] + 1] = << >> /\ Len(path'[que'[1] + 1]) = 0 /\ path'[n] = path[n]
        BY <1>1, <1>3, <1>5
    <2> QED  BY <2>1, <2>2 DEF Waits, Depth
<1>9. BuildInv'  BY <1>1, <1>5, <1>7, <1>8 DEF BuildInv
<1>10. SearchInv'
    <2>1. IsTrie(_node, path)'  BY <1>2 DEF TrieInv
    <2> QED  BY <1>1, <2>1, NoSearch DEF IInv, SearchInv
<1>11. Control'  BY <1>1 DEF IInv, Control
<1> QED  BY <1>2, <1>9, <1>10, <1>11 DEF IInv

\* With the queue empty no node waits.
LEMMA BuildReturnsKeeps ==
    ASSUME IInv, BuildReturns
    PROVE  IInv'
<1>1. /\ pc = "build" /\ que = << >> /\ pc' = "ready"
      /\ UNCHANGED <<_node, path, dict, stale, inserts, que, builds, text, off, ret, retOff>>
    BY DEF BuildReturns, trie, search
<1>2. \A n \in Inner : Linked(n)
    <2>1. \A k \in 1 .. Len(que) : FALSE  BY <1>1
    <2>2. \A n \in Inner : ~Waits(n)  BY <2>1 DEF Waits
    <2> QED  BY <1>1, <2>2 DEF IInv, BuildInv, Reached
<1>3. TrieInv' /\ (\A n \in Inner : Linked(n)') /\ Inner' = Inner
    BY <1>1, <1>2, TrieStays DEF IInv
<1>4. Control' /\ BuildInv'  BY <1>1, <1>3 DEF IInv, Control, BuildInv
<1>5. SearchInv'
    <2>1. IsTrie(_node, path)'  BY <1>3 DEF TrieInv
    <2> QED  BY <1>1, <2>1, NoSearch DEF IInv, SearchInv
<1> QED  BY <1>3, <1>4, <1>5 DEF IInv

-----------------------------------------------------------------------------
(* insert.                                                                 *)

\* The trie nn, with words ww, has a new child c of node k.
NewChild(nn, ww, node, words, k, c) ==
    /\ node[k].child[c] = None
    /\ nn = Append([node EXCEPT ![k].child[c] = Len(node)], NewNode)
    /\ ww = Append(words, Append(words[k], c))

\* It is a trie.
LEMMA GrowTrie ==
    ASSUME NEW node, NEW words, IsTrie(node, words), HasLinks(node, words),
           NEW k \in 1 .. Len(node), NEW c \in Char,
           NEW nn, NEW ww, NewChild(nn, ww, node, words, k, c)
    PROVE  /\ IsTrie(nn, ww) /\ HasLinks(nn, ww) /\ Len(nn) = Len(node) + 1
           /\ \A n \in 1 .. Len(node) : ww[n] = words[n] /\ nn[n].id = node[n].id
           /\ nn[Len(node) + 1].id = None /\ ww[Len(node) + 1] = Append(words[k], c)
<1> DEFINE L == Len(node)
           e == [node EXCEPT ![k].child[c] = L]
<1>1. L \in Nat \ {0} /\ L = Len(node) /\ L = Len(words) /\ k \in 1 .. L  BY NodeFacts
<1>10. \A m, n \in 1 .. L : words[m] = words[n] => m = n  BY ChildFacts
<1>21. \A n \in 1 .. L, d \in Char : node[n].child[d] # None =>
             node[n].child[d] \in 1 .. L - 1 /\ words[node[n].child[d] + 1] = Append(words[n], d)
    BY ChildFacts
<1>22. \A m, n \in 1 .. L, d \in Char : words[m] = Append(words[n], d) => node[n].child[d] = m - 1
    BY ChildFacts
<1>23. \A n \in 1 .. L : \A v \in Seq(Char) : Begins(v, words[n]) => \E m \in 1 .. L : words[m] = v
    BY ChildFacts
<1>2. PICK w \in Seq(Char) : w = Append(words[k], c) /\ Len(w) = Len(words[k]) + 1
    <2>1. words[k] \in Seq(Char)  BY NodeFacts
    <2> QED  BY <2>1, OneMore
<1>3. /\ node \in Seq(Node) /\ \A n \in 1 .. L : node[n] \in Node /\ node[n].child \in [Char -> Nat \cup {None}]
      /\ \A n \in 1 .. L : words[n] \in Seq(Char) /\ Len(words[n]) \in Nat /\ Len(words[n]) < n
      /\ words \in Seq(Seq(Char)) /\ words[1] = << >>
    <2>1. node \in Seq(Node) /\ words \in Seq(Seq(Char))  BY DEF IsTrie
    <2> QED  BY <1>1, <2>1, NodeFacts
<1>4. e \in Seq(Node) /\ Len(e) = L /\ DOMAIN e = 1 .. L
      /\ \A n \in 1 .. L : /\ e[n].id = node[n].id /\ e[n].fail_off = node[n].fail_off
                           /\ \A d \in Char : e[n].child[d] = IF n = k /\ d = c THEN L ELSE node[n].child[d]
    <2>1. node[k] \in Node /\ [node[k] EXCEPT !.child[c] = L] \in Node  BY <1>1, <1>3 DEF Node
    <2>2. e = [node EXCEPT ![k] = [node[k] EXCEPT !.child[c] = L]]  BY <1>1
    <2>3. node \in [1 .. L -> Node] /\ k \in 1 .. L
        <3>1. node \in [1 .. Len(node) -> Node]  BY <1>3
        <3> QED  BY <1>1, <3>1
    <2>4. /\ e \in [1 .. L -> Node]
          /\ \A n \in 1 .. L : e[n] = IF n = k THEN [node[k] EXCEPT !.child[c] = L] ELSE node[n]
        <3> HIDE DEF e
        <3> DEFINE r == [node[k] EXCEPT !.child[c] = L]
        <3>1. r \in Node /\ e = [node EXCEPT ![k] = r]  BY <2>1, <2>2
        <3> HIDE DEF r
        <3>2. e \in [1 .. L -> Node] /\ \A n \in 1 .. L : e[n] = IF n = k THEN r ELSE node[n]  BY <2>3, <3>1
        <3> QED  BY <3>2 DEF r
    <2>6. e \in Seq(Node) /\ Len(e) = L /\ DOMAIN e = 1 .. L
        <3> HIDE DEF e
        <3> QED  BY <1>1, <2>4
    <2>5. LET r == [node[k] EXCEPT !.child[c] = L]
          IN  /\ r.id = node[k].id /\ r.fail_off = node[k].fail_off
              /\ \A d \in Char : r.child[d] = IF d = c THEN L ELSE node[k].child[d]
        <3>1. node[k] \in Node /\ node[k].child \in [Char -> Nat \cup {None}]  BY <1>1, <1>3
        <3> QED  BY <3>1 DEF Node
    <2> HIDE DEF e
    <2> QED  BY <2>4, <2>5, <2>6
<1>5. NewNode \in Node /\ NewNode.id = None /\ NewNode.fail_off = 0 /\ \A d \in Char : NewNode.child[d] = None
    BY DEF NewNode, NewRoot, Node, Root
<1>6. nn = Append(e, NewNode) /\ ww = Append(words, w) /\ node[k].child[c] = None  BY <1>2 DEF NewChild
<1> HIDE DEF e, L
<1>7. nn \in Seq(Node) /\ Len(nn) = L + 1 /\ nn[L + 1] = NewNode /\ \A n \in 1 .. L : nn[n] = e[n]
    BY <1>4, <1>5, <1>6
<1>8. ww \in Seq(Seq(Char)) /\ Len(ww) = L + 1 /\ ww[L + 1] = w /\ \A n \in 1 .. L : ww[n] = words[n]
    <2> DEFINE W == Seq(Char)
    <2>1. words \in Seq(W) /\ w \in W /\ ww = Append(words, w)  BY <1>3, <1>6
    <2> HIDE DEF W
    <2>2. ww \in Seq(W) /\ Len(ww) = L + 1 /\ ww[L + 1] = w /\ \A n \in 1 .. L : ww[n] = words[n]
        BY <1>1, <2>1
    <2> QED  BY <2>2 DEF W
<1>9. (\A n \in 1 .. L + 1 : n = L + 1 \/ n \in 1 .. L) /\ L + 1 \notin 1 .. L /\ 1 \in 1 .. L /\ k \in 1 .. L
    BY <1>1
<1>11. \A n \in 1 .. L : n - 1 # None  BY DEF None
<1>12. ASSUME NEW n \in 1 .. L, words[n] = w PROVE FALSE
    <2>1. words[n] = Append(words[k], c)  BY <1>2, <1>12
    <2>2. node[k].child[c] = n - 1  BY <1>9, <1>22, <2>1
    <2> QED  BY <1>6, <1>11, <2>2
<1>13. \A n \in 1 .. L + 1 : Len(ww[n]) < n
    <2>2. Len(words[k]) \in Nat /\ Len(words[k]) < k /\ k \in 1 .. L  BY <1>3, <1>9
    <2>1. Len(w) < L + 1  BY <1>1, <1>2, <2>2
    <2> QED  BY <1>3, <1>8, <1>9, <2>1
<1>14. ASSUME NEW m \in 1 .. L + 1, NEW n \in 1 .. L + 1, ww[m] = ww[n] PROVE m = n
    <2>1. CASE m \in 1 .. L /\ n \in 1 .. L  BY <1>8, <1>10, <1>14, <2>1
    <2>2. CASE m = L + 1 /\ n \in 1 .. L  BY <1>8, <1>12, <1>14, <2>2
    <2>3. CASE m \in 1 .. L /\ n = L + 1  BY <1>8, <1>12, <1>14, <2>3
    <2> QED  BY <1>9, <2>1, <2>2, <2>3
<1>15. ASSUME NEW n \in 1 .. L + 1, NEW d \in Char, nn[n].child[d] # None
       PROVE  nn[n].child[d] \in 1 .. (L + 1) - 1 /\ ww[nn[n].child[d] + 1] = Append(ww[n], d)
    <2>1. n \in 1 .. L  BY <1>5, <1>7, <1>9, <1>15
    <2>2. CASE n = k /\ d = c
        <3>1. nn[n].child[d] = L  BY <1>4, <1>7, <2>1, <2>2
        <3>2. L \in 1 .. (L + 1) - 1  BY <1>1
        <3> QED  BY <1>2, <1>8, <2>1, <2>2, <3>1, <3>2
    <2>3. CASE ~(n = k /\ d = c)
        <3>1. nn[n].child[d] = node[n].child[d]  BY <1>4, <1>7, <2>1, <2>3
        <3>2. node[n].child[d] \in 1 .. L - 1 /\ words[node[n].child[d] + 1] = Append(words[n], d)
            BY <1>15, <1>21, <2>1, <3>1
        <3>3. node[n].child[d] \in 1 .. (L + 1) - 1 /\ node[n].child[d] + 1 \in 1 .. L  BY <1>1, <3>2, SMTT(30)
        <3> QED  BY <1>8, <2>1, <3>1, <3>2, <3>3
    <2> QED  BY <2>2, <2>3
<1>16. ASSUME NEW m \in 1 .. L + 1, NEW n \in 1 .. L + 1, NEW d \in Char, ww[m] = Append(ww[n], d)
       PROVE  nn[n].child[d] = m - 1
    <2>1. CASE n \in 1 .. L /\ m \in 1 .. L
        <3>0. words[m] = Append(words[n], d)  BY <1>8, <1>16, <2>1
        <3>1. node[n].child[d] = m - 1 /\ m - 1 # None  BY <1>11, <1>22, <2>1, <3>0
        <3>2. ~(n = k /\ d = c)  BY <1>6, <3>1
        <3> QED  BY <1>4, <1>7, <2>1, <3>1, <3>2
    <2>2. CASE n \in 1 .. L /\ m = L + 1
        <3>1. Append(words[k], c) = Append(words[n], d)  BY <1>2, <1>8, <1>16, <2>2
        <3>5. words[k] \in Seq(Char) /\ words[n] \in Seq(Char)  BY <1>3, <1>9, <2>2
        <3>6. PICK u \in Seq(Char), v \in Seq(Char) : u = words[k] /\ v = words[n]  BY <3>5
        <3>7. Append(u, c) = Append(v, d)  BY <3>1, <3>6
        <3>8. u = v /\ c = d  BY <3>7, SameWord
        <3>2. words[k] = words[n] /\ c = d  BY <3>6, <3>8
        <3>3. k = n  BY <1>9, <1>10, <2>2, <3>2
        <3>4. nn[n].child[d] = L /\ L = m - 1  BY <1>1, <1>4, <1>7, <2>2, <3>2, <3>3
        <3> QED  BY <3>4
    <2>3. CASE n = L + 1 /\ m \in 1 .. L
        <3>1. words[m] = Append(w, d)  BY <1>8, <1>16, <2>3
        <3>2. Begins(w, words[m])  BY <3>1, BeginsOneMore
        <3> QED  BY <1>12, <1>23, <2>3, <3>2
    <2>4. CASE n = L + 1 /\ m = L + 1
        <3>1. w = Append(w, d)  BY <1>8, <1>16, <2>4
        <3>2. Len(w) \in Nat /\ Len(Append(w, d)) = Len(w) + 1  BY OneMore
        <3>3. Len(w) = Len(w) + 1  BY <3>1, <3>2
        <3> QED  BY <3>2, <3>3
    <2> QED  BY <1>9, <2>1, <2>2, <2>3, <2>4
<1>17. ASSUME NEW n \in 1 .. L + 1, NEW v \in Seq(Char), Begins(v, ww[n])
       PROVE  \E m \in 1 .. L + 1 : ww[m] = v
    <2>1. \A m \in 1 .. L : m \in 1 .. L + 1  BY <1>1
    <2>2. CASE n \in 1 .. L  BY <1>8, <1>17, <1>23, <2>1, <2>2
    <2>3. CASE n = L + 1
        <3>3. words[k] \in Seq(Char) /\ Begins(v, Append(words[k], c))  BY <1>2, <1>3, <1>8, <1>9, <1>17, <2>3
        <3>1. v = w \/ Begins(v, words[k])  BY <1>2, <3>3, BeginsOneMore
        <3>2. L + 1 \in 1 .. L + 1  BY <1>1
        <3> QED  BY <1>8, <1>9, <1>23, <2>1, <3>1, <3>2
    <2> QED  BY <1>9, <2>2, <2>3
<1>18. IsTrie(nn, ww)
    <2>1. 1 <= L + 1 /\ ww[1] = << >>  BY <1>1, <1>3, <1>8, <1>9
    <2>2. \A n \in 1 .. Len(nn), d \in Char : nn[n].child[d] # None =>
              nn[n].child[d] \in 1 .. Len(nn) - 1 /\ ww[nn[n].child[d] + 1] = Append(ww[n], d)
        BY <1>7, <1>15
    <2>3. \A m, n \in 1 .. Len(nn), d \in Char : ww[m] = Append(ww[n], d) => nn[n].child[d] = m - 1
        BY <1>7, <1>16
    <2>4. \A n \in 1 .. Len(nn) : \A v \in Seq(Char) : Begins(v, ww[n]) => \E m \in 1 .. Len(nn) : ww[m] = v
        BY <1>7, <1>17
    <2>5. /\ \A n \in 1 .. Len(nn) : Len(ww[n]) < n
          /\ \A m, n \in 1 .. Len(nn) : ww[m] = ww[n] => m = n
        BY <1>7, <1>13, <1>14
    <2>6. nn \in Seq(Node) /\ ww \in Seq(Seq(Char)) /\ Len(ww) = Len(nn) /\ Len(nn) >= 1  BY <1>1, <1>7, <1>8
    <2> QED  BY <2>1, <2>2, <2>3, <2>4, <2>5, <2>6, Zenon DEF IsTrie
<1>19. HasLinks(nn, ww)
    <2>1. nn[1].fail_off = None  BY <1>4, <1>7, <1>9 DEF HasLinks
    <2>2. ASSUME NEW n \in 2 .. L + 1
          PROVE  /\ nn[n].fail_off \in 0 .. (L + 1) - 1 /\ Ends(ww[nn[n].fail_off + 1], ww[n])
                 /\ Len(ww[nn[n].fail_off + 1]) < Len(ww[n])
        <3>1. CASE n = L + 1
            <4>1. nn[n].fail_off = 0 /\ 0 \in 0 .. (L + 1) - 1 /\ ww[n] = w  BY <1>1, <1>5, <1>7, <1>8, <3>1
            <4>2. ww[0 + 1] = << >>  BY <1>3, <1>8, <1>9
            <4>5. Len(words[k]) \in Nat  BY <1>3, <1>9
            <4>6. Len(<< >>) = 0  OBVIOUS
            <4>7. Ends(<< >>, w)  BY EndsOfOne
            <4>3. Ends(<< >>, w) /\ Len(<< >>) < Len(w)  BY <1>2, <4>5, <4>6, <4>7
            <4> QED  BY <4>1, <4>2, <4>3
        <3>2. CASE n \in 2 .. L
            <4>1. n \in 1 .. L  BY <3>2
            <4>2. nn[n].fail_off = node[n].fail_off  BY <1>4, <1>7, <4>1
            <4>3. /\ node[n].fail_off \in 0 .. L - 1 /\ Ends(words[node[n].fail_off + 1], words[n])
                  /\ Len(words[node[n].fail_off + 1]) < Len(words[n])
                BY <1>1, <3>2 DEF HasLinks
            <4>4. node[n].fail_off \in 0 .. (L + 1) - 1 /\ node[n].fail_off + 1 \in 1 .. L  BY <1>1, <4>3, SMTT(30)
            <4>5. ww[n] = words[n] /\ ww[node[n].fail_off + 1] = words[node[n].fail_off + 1]  BY <1>8, <4>1, <4>4
            <4> QED  BY <4>2, <4>3, <4>4, <4>5
        <3> QED  BY <1>1, <3>1, <3>2
    <2> QED  BY <1>7, <2>1, <2>2 DEF HasLinks
<1>20. \A n \in 1 .. L : ww[n] = words[n] /\ nn[n].id = node[n].id  BY <1>4, <1>7, <1>8
<1>24. nn[L + 1].id = None /\ ww[L + 1] = Append(words[k], c)  BY <1>2, <1>5, <1>7, <1>8
<1> QED  BY <1>7, <1>18, <1>19, <1>20, <1>24 DEF L

\* A trie is its words and children: ids and links do not matter.
LEMMA SameShape ==
    ASSUME NEW node, NEW words, IsTrie(node, words), NEW nn \in Seq(Node), Len(nn) = Len(node),
           \A n \in 1 .. Len(node) : nn[n].child = node[n].child
    PROVE  IsTrie(nn, words)
<1>1. ASSUME NEW n \in 1 .. Len(nn), NEW d \in Char, nn[n].child[d] # None
      PROVE  nn[n].child[d] \in 1 .. Len(nn) - 1 /\ words[nn[n].child[d] + 1] = Append(words[n], d)
    <2>1. \A i \in 1 .. Len(node), b \in Char : node[i].child[b] # None =>
              node[i].child[b] \in 1 .. Len(node) - 1 /\ words[node[i].child[b] + 1] = Append(words[i], b)
        BY ChildFacts
    <2>2. nn[n].child = node[n].child  OBVIOUS
    <2> QED  BY <1>1, <2>1, <2>2, Zenon
<1>2. ASSUME NEW m \in 1 .. Len(nn), NEW n \in 1 .. Len(nn), NEW d \in Char, words[m] = Append(words[n], d)
      PROVE  nn[n].child[d] = m - 1
    <2>1. \A j, i \in 1 .. Len(node), b \in Char : words[j] = Append(words[i], b) => node[i].child[b] = j - 1
        BY Zenon DEF IsTrie
    <2>2. nn[n].child = node[n].child  OBVIOUS
    <2> QED  BY <1>2, <2>1, <2>2, Zenon
<1>3. \A n \in 1 .. Len(nn) : \A v \in Seq(Char) : Begins(v, words[n]) => \E m \in 1 .. Len(nn) : words[m] = v
    BY DEF IsTrie
<1>4. /\ words \in Seq(Seq(Char)) /\ Len(words) = Len(nn) /\ Len(nn) >= 1 /\ words[1] = << >>
      /\ \A n \in 1 .. Len(nn) : Len(words[n]) < n
      /\ \A m, n \in 1 .. Len(nn) : words[m] = words[n] => m = n
    BY DEF IsTrie
<1> QED  BY <1>1, <1>2, <1>3, <1>4, Zenon DEF IsTrie

\* The trie while insert goes down: the nodes it had are there, with their ids.
Grown(s) ==
    /\ s = [node |-> s.node, path |-> s.path, off |-> s.off]
    /\ IsTrie(s.node, s.path) /\ HasLinks(s.node, s.path)
    /\ s.off \in 0 .. Len(s.node) - 1 /\ Len(_node) <= Len(s.node)
    /\ \A n \in 1 .. Len(_node) : s.path[n] = path[n] /\ s.node[n].id = _node[n].id
    /\ \A n \in Len(_node) + 1 .. Len(s.node) : s.node[n].id = None

\* One character of the word.
LEMMA DescendKeeps ==
    ASSUME Len(_node) \in Nat, NEW s, Grown(s), NEW c \in Char, NEW t, t = Descend(s, c)
    PROVE  Grown(t) /\ t.path[t.off + 1] = Append(s.path[s.off + 1], c)
<1> DEFINE k == s.off + 1
           L == Len(s.node)
<1>1. /\ IsTrie(s.node, s.path) /\ HasLinks(s.node, s.path)
      /\ L \in Nat \ {0} /\ k \in 1 .. L
    <2>1. IsTrie(s.node, s.path) /\ HasLinks(s.node, s.path) /\ s.off \in 0 .. L - 1  BY DEF Grown
    <2>2. L \in Nat \ {0}  BY <2>1, NodeFacts
    <2> QED  BY <2>1, <2>2
<1>2. CASE s.node[k].child[c] # None
    <2>1. s.node[k].child[c] \in 1 .. L - 1 /\ s.path[s.node[k].child[c] + 1] = Append(s.path[k], c)
        <3>1. \A n \in 1 .. Len(s.node), d \in Char : s.node[n].child[d] # None =>
                 s.node[n].child[d] \in 1 .. Len(s.node) - 1 /\ s.path[s.node[n].child[d] + 1] = Append(s.path[n], d)
            BY <1>1, Zenon DEF IsTrie
        <3> QED  BY <1>1, <1>2, <3>1, Zenon
    <2>2. t = [s EXCEPT !.off = s.node[k].child[c]]  BY <1>2 DEF Descend
    <2>3. /\ t = [node |-> s.node, path |-> s.path, off |-> s.node[k].child[c]]
          /\ t.node = s.node /\ t.path = s.path /\ t.off = s.node[k].child[c]
        BY <2>2 DEF Grown
    <2>4. t.off \in 0 .. L - 1
        <3> HIDE DEF L, k
        <3>1. \A i \in 1 .. L - 1 : i \in 0 .. L - 1  OBVIOUS
        <3> QED  BY <2>1, <2>3, <3>1, Zenon
    <2> QED  BY <2>1, <2>3, <2>4 DEF Grown
<1>3. CASE s.node[k].child[c] = None
    <2> DEFINE nn == Append([s.node EXCEPT ![k].child[c] = Len(s.node)], NewNode)
               ww == Append(s.path, Append(s.path[k], c))
    <2>1. t = [node |-> nn, path |-> ww, off |-> L]  BY <1>3 DEF Descend
    <2>2. NewChild(nn, ww, s.node, s.path, k, c)  BY <1>3 DEF NewChild
    <2> HIDE DEF nn, ww
    <2>3. /\ IsTrie(nn, ww) /\ HasLinks(nn, ww) /\ Len(nn) = L + 1
          /\ \A n \in 1 .. L : ww[n] = s.path[n] /\ nn[n].id = s.node[n].id
          /\ nn[L + 1].id = None /\ ww[L + 1] = Append(s.path[k], c)
        <3>1. PICK node, words : node = s.node /\ words = s.path  OBVIOUS
        <3>2. PICK i \in 1 .. Len(node) : i = k  BY <1>1, <3>1
        <3> HIDE DEF k
        <3>3. IsTrie(node, words) /\ HasLinks(node, words) /\ NewChild(nn, ww, node, words, i, c)
            BY <1>1, <2>2, <3>1, <3>2
        <3>4. /\ IsTrie(nn, ww) /\ HasLinks(nn, ww) /\ Len(nn) = Len(node) + 1
              /\ \A n \in 1 .. Len(node) : ww[n] = words[n] /\ nn[n].id = node[n].id
              /\ nn[Len(node) + 1].id = None /\ ww[Len(node) + 1] = Append(words[i], c)
            BY <3>3, GrowTrie
        <3> QED  BY <3>1, <3>2, <3>4
    <2>4. t.node = nn /\ t.path = ww /\ t.off = L /\ t = [node |-> t.node, path |-> t.path, off |-> t.off]
        BY <2>1
    <2> HIDE DEF L, k
    <2>5. Len(_node) \in Nat /\ Len(_node) <= L  BY DEF Grown, L
    <2>6. L \in 0 .. Len(nn) - 1 /\ Len(_node) <= Len(nn)  BY <1>1, <2>3, <2>5
    <2>7. \A n \in 1 .. Len(_node) : ww[n] = path[n] /\ nn[n].id = _node[n].id
        <3>1. \A n \in 1 .. Len(_node) : n \in 1 .. L  BY <1>1, <2>5
        <3>2. \A n \in 1 .. Len(_node) : s.path[n] = path[n] /\ s.node[n].id = _node[n].id  BY DEF Grown
        <3> QED  BY <2>3, <3>1, <3>2
    <2>8. \A n \in Len(_node) + 1 .. Len(nn) : nn[n].id = None
        <3>1. \A n \in Len(_node) + 1 .. L + 1 : n = L + 1 \/ (n \in Len(_node) + 1 .. L /\ n \in 1 .. L)
            BY <1>1, <2>5
        <3>2. \A n \in Len(_node) + 1 .. L : s.node[n].id = None  BY DEF Grown, L
        <3> QED  BY <2>3, <3>1, <3>2
    <2>9. Grown(t)
        <3>1. t.off \in 0 .. Len(t.node) - 1 /\ Len(_node) <= Len(t.node)  BY <2>4, <2>6
        <3> QED  BY <2>3, <2>4, <2>7, <2>8, <3>1 DEF Grown
    <2>10. t.path[t.off + 1] = Append(s.path[k], c)  BY <2>3, <2>4
    <2> QED  BY <2>9, <2>10 DEF k
<1> QED  BY <1>2, <1>3

\* The loop of insert has a result.
Descends(f, word, n) ==
    f = [k \in 0 .. n |-> IF k = 0 THEN [node |-> _node, path |-> path, off |-> Root] ELSE Descend(f[k - 1], word[k])]

LEMMA DescentExists ==
    ASSUME NEW word, NEW N \in Nat
    PROVE  \E f : Descends(f, word, N)
<1> DEFINE Bad == {n \in Nat : ~ \E f : Descends(f, word, n)}
           base == [node |-> _node, path |-> path, off |-> Root]
<1>1. ASSUME Bad # {} PROVE FALSE
    <2>1. Bad \subseteq Nat  OBVIOUS
    <2>2. PICK n \in Bad : \A k \in Bad : n <= k
        <3> HIDE DEF Bad
        <3> QED  BY <1>1, <2>1, SmallestNat
    <2>3. n \in Nat /\ ~ \E f : Descends(f, word, n)  OBVIOUS
    <2>4. n # 0
        <3> SUFFICES ASSUME n = 0 PROVE FALSE  OBVIOUS
        <3>1. PICK g : g = [k \in 0 .. 0 |-> base]  OBVIOUS
        <3>2. \A k \in 0 .. 0 : k = 0  OBVIOUS
        <3>3. Descends(g, word, 0)  BY <3>1, <3>2 DEF Descends
        <3> QED  BY <2>3, <3>3
    <2>5. n - 1 \in Nat /\ ~(n <= n - 1)  BY <2>3, <2>4
    <2>6. PICK g : Descends(g, word, n - 1)  BY <2>2, <2>5
    <2> DEFINE h == [k \in 0 .. n |-> IF k = 0 THEN base ELSE Descend(g[k - 1], word[k])]
    <2>7. \A k \in 0 .. n - 1 : k \in 0 .. n /\ g[k] = IF k = 0 THEN base ELSE Descend(g[k - 1], word[k])
        <3>1. \A k \in 0 .. n - 1 : k \in 0 .. n  BY <2>3
        <3> QED  BY <2>6, <3>1 DEF Descends
    <2>8. \A k \in 0 .. n - 1 : h[k] = g[k]  BY <2>7
    <2>9. \A k \in 0 .. n : k # 0 => k - 1 \in 0 .. n - 1  BY <2>3
    <2>10. \A k \in 0 .. n : (IF k = 0 THEN base ELSE Descend(g[k - 1], word[k]))
                              = IF k = 0 THEN base ELSE Descend(h[k - 1], word[k])
        <3> HIDE DEF h, base
        <3> QED  BY <2>8, <2>9
    <2>11. h = [k \in 0 .. n |-> IF k = 0 THEN base ELSE Descend(h[k - 1], word[k])]
        <3>1. PICK x : x = h  OBVIOUS
        <3>2. x = [k \in 0 .. n |-> IF k = 0 THEN base ELSE Descend(x[k - 1], word[k])]
            <4>1. \A k \in 0 .. n : (IF k = 0 THEN base ELSE Descend(g[k - 1], word[k]))
                              = IF k = 0 THEN base ELSE Descend(x[k - 1], word[k])
                BY <2>10, <3>1
            <4>2. x = [k \in 0 .. n |-> IF k = 0 THEN base ELSE Descend(g[k - 1], word[k])]  BY <3>1
            <4> HIDE DEF base, h
            <4> QED  BY <4>1, <4>2
        <3> QED  BY <3>1, <3>2
    <2>12. Descends(h, word, n)
        <3> HIDE DEF h
        <3> QED  BY <2>11 DEF Descends
    <2> QED  BY <2>3, <2>12
<1> QED  BY <1>1

\* The whole word: insert ends at the node of the word.
LEMMA DescendedWord ==
    ASSUME TrieInv, NEW word \in Seq(Char)
    PROVE  Grown(Descended(word)) /\ Descended(word).path[Descended(word).off + 1] = word
<1>1. PICK N \in Nat : N = Len(word)  OBVIOUS
<1> DEFINE f == CHOOSE g : Descends(g, word, N)
<1>2. Descended(word) = f[N]  BY <1>1 DEF Descended, Descends
<1>3. Descends(f, word, N)  BY DescentExists
<1> HIDE DEF f
<1>4. /\ f[0] = [node |-> _node, path |-> path, off |-> Root]
      /\ \A k \in 1 .. N : f[k] = Descend(f[k - 1], word[k])
    <2>1. 0 \in 0 .. N /\ \A k \in 1 .. N : k \in 0 .. N /\ k # 0  OBVIOUS
    <2> QED  BY <1>3, <2>1 DEF Descends
<1> DEFINE At0(k) == f[k].path[f[k].off + 1]
           Fits(k) == Grown(f[k]) /\ At0(k) \in Seq(Char) /\ Len(At0(k)) = k /\ Begins(At0(k), word)
           Bad == {k \in 0 .. N : ~Fits(k)}
<1>5. Len(_node) \in Nat \ {0} /\ path[1] = << >> /\ IsTrie(_node, path)  BY NodeFacts DEF TrieInv
<1>6. Fits(0)
    <2>1. f[0].node = _node /\ f[0].path = path /\ f[0].off = 0 /\ f[0] = [node |-> f[0].node, path |-> f[0].path, off |-> f[0].off]
        BY <1>4 DEF Root
    <2>2. 0 \in 0 .. Len(_node) - 1 /\ Len(_node) + 1 .. Len(_node) = {} /\ Len(_node) <= Len(_node)  BY <1>5
    <2>3. Grown(f[0])  BY <2>1, <2>2 DEF Grown, TrieInv
    <2>4. At0(0) = << >>  BY <1>5, <2>1
    <2>5. << >> \in Seq(Char) /\ Len(<< >>) = 0 /\ Begins(<< >>, word)  BY BeginsOfOne
    <2> QED  BY <2>3, <2>4, <2>5
<1>7. ASSUME NEW k \in 1 .. N, Fits(k - 1) PROVE Fits(k)
    <2>1. PICK s, t, c : s = f[k - 1] /\ t = f[k] /\ c = word[k]  OBVIOUS
    <2>2. c \in Char  BY <1>1, <2>1
    <2>3. Grown(s) /\ t = Descend(s, c)  BY <1>4, <1>7, <2>1
    <2>4. Grown(t) /\ t.path[t.off + 1] = Append(s.path[s.off + 1], c)  BY <1>5, <2>2, <2>3, DescendKeeps
    <2>5. PICK v \in Seq(Char) : v = At0(k - 1) /\ Len(v) = k - 1 /\ Begins(v, word)  BY <1>7
    <2>6. At0(k) = Append(v, c)  BY <2>1, <2>4, <2>5
    <2>7. Append(v, c) \in Seq(Char) /\ Len(Append(v, c)) = k
        <3>1. Append(v, c) \in Seq(Char) /\ Len(Append(v, c)) = Len(v) + 1  BY <2>2, OneMore
        <3> QED  BY <2>5, <3>1
    <2>8. Begins(Append(v, c), word)
        <3>1. \A i \in 1 .. k - 1 : Append(v, c)[i] = word[i]  BY <2>2, <2>5 DEF Begins
        <3>2. Append(v, c)[k] = word[k]  BY <2>1, <2>2, <2>5
        <3>3. \A i \in 1 .. k : i = k \/ i \in 1 .. k - 1  OBVIOUS
        <3>4. k <= Len(word)  BY <1>1
        <3> QED  BY <2>7, <3>1, <3>2, <3>3, <3>4 DEF Begins
    <2> QED  BY <2>1, <2>4, <2>6, <2>7, <2>8
<1>8. ASSUME Bad # {} PROVE FALSE
    <2>1. Bad \subseteq Nat  OBVIOUS
    <2>2. PICK k \in Bad : \A j \in Bad : k <= j
        <3> HIDE DEF Bad
        <3> QED  BY <1>8, <2>1, SmallestNat
    <2>3. k \in 0 .. N /\ ~Fits(k)  OBVIOUS
    <2> HIDE DEF Fits
    <2>4. k \in 1 .. N /\ k - 1 \in 0 .. N /\ ~(k <= k - 1)  BY <1>6, <2>3
    <2>5. Fits(k - 1)  BY <2>2, <2>4
    <2> QED  BY <1>7, <2>3, <2>4, <2>5
<1>9. Fits(N)
    <2> HIDE DEF Fits
    <2> QED  BY <1>8
<1>10. At0(N) = word
    <2> HIDE DEF At0
    <2> QED  BY <1>1, <1>9, BeginsOfOne
<1> QED  BY <1>2, <1>9, <1>10

\* insert gives the word its id, and takes it from no other.
LEMMA InsertKeeps ==
    ASSUME IInv, NEW word \in Words, NEW id \in Ids, insert(word, id)
    PROVE  IInv'
<1>0. PICK end, old : end = Descended(word) /\ old = {d \in dict : d[1] = word}  OBVIOUS
<1>1. /\ pc \in {"words", "ready"} /\ inserts < MaxInserts /\ pc' = "words" /\ inserts' = inserts + 1
      /\ _node' = [end.node EXCEPT ![end.off + 1].id = id] /\ path' = end.path
      /\ dict' = (dict \ old) \cup {<<word, id>>}
      /\ stale' = (IF builds THEN stale \cup old ELSE stale)
      /\ UNCHANGED <<que, text, off, ret, retOff, builds>>
    BY <1>0 DEF insert, search
<1>2. word \in Seq(Char) /\ TrieInv  BY WordsAssumption DEF IInv
<1>3. Grown(end) /\ end.path[end.off + 1] = word  BY <1>0, <1>2, DescendedWord
<1>4. PICK node, words, k, L :
          /\ node = end.node /\ words = end.path /\ k = end.off + 1 /\ L = Len(_node)
    OBVIOUS
<1>5. /\ IsTrie(node, words) /\ HasLinks(node, words) /\ words[k] = word
      /\ L <= Len(node) /\ end.off \in 0 .. Len(node) - 1
      /\ \A n \in 1 .. L : words[n] = path[n] /\ node[n].id = _node[n].id
      /\ \A n \in L + 1 .. Len(node) : node[n].id = None
    BY <1>3, <1>4 DEF Grown
<1>6. L \in Nat \ {0} /\ Len(node) \in Nat \ {0} /\ k \in 1 .. Len(node)
    <2>1. L \in Nat \ {0}  BY <1>2, <1>4, NodeFacts DEF TrieInv
    <2>2. Len(node) \in Nat \ {0}  BY <1>5, NodeFacts
    <2> QED  BY <1>4, <1>5, <2>1, <2>2
<1>7. PICK nn : nn = [node EXCEPT ![k].id = id]  OBVIOUS
<1>8. _node' = nn /\ path' = words  BY <1>1, <1>4, <1>7
<1>9. /\ nn \in Seq(Node) /\ Len(nn) = Len(node)
      /\ \A n \in 1 .. Len(node) :
            /\ nn[n].child = node[n].child /\ nn[n].fail_off = node[n].fail_off
            /\ nn[n].id = IF n = k THEN id ELSE node[n].id
    <2>1. node \in Seq(Node) /\ node[k] \in Node  BY <1>5, <1>6, NodeFacts DEF IsTrie
    <2>2. PICK r : r = [node[k] EXCEPT !.id = id]  OBVIOUS
    <2>3. r \in Node /\ r.child = node[k].child /\ r.fail_off = node[k].fail_off /\ r.id = id
        BY <2>1, <2>2 DEF Node
    <2>4. nn = [node EXCEPT ![k] = r]  BY <1>7, <2>2
    <2>5. node \in [1 .. Len(node) -> Node]  BY <2>1
    <2>6. nn \in [1 .. Len(node) -> Node] /\ \A n \in 1 .. Len(node) : nn[n] = IF n = k THEN r ELSE node[n]
        BY <2>3, <2>4, <2>5
    <2>7. nn \in Seq(Node) /\ Len(nn) = Len(node)  BY <1>6, <2>6
    <2> QED  BY <2>3, <2>6, <2>7
<1>10. IsTrie(nn, words)  BY <1>5, <1>9, SameShape
<1>11. HasLinks(nn, words)
    <2>1. 1 \in 1 .. Len(node) /\ \A n \in 2 .. Len(node) : n \in 1 .. Len(node)  BY <1>6
    <2> QED  BY <1>5, <1>9, <2>1 DEF HasLinks
<1>12. \A n \in 1 .. Len(node) : words[n] = word => n = k
    BY <1>5, <1>6, ChildFacts
<1>13. ASSUME NEW n \in 2 .. Len(node), nn[n].id # None, n # k
       PROVE  n \in Inner /\ words[n] = path[n] /\ nn[n].id = _node[n].id /\ words[n] # word
    <2>1. n \in 1 .. Len(node) /\ (n \in L + 1 .. Len(node) \/ (n \in 1 .. L /\ n \in 2 .. L))  BY <1>6
    <2>2. nn[n].id = node[n].id  BY <1>9, <1>13, <2>1
    <2>3. n \in 1 .. L /\ n \in 2 .. L  BY <1>5, <1>13, <2>1, <2>2
    <2> QED  BY <1>4, <1>5, <1>12, <1>13, <2>1, <2>2, <2>3 DEF Inner
<1>14. \A n \in Inner : path[n] \in Seq(Char)  BY <1>2, NodeFacts DEF TrieInv, Inner
<1>15. IdsInForce'
    <2>1. dict' \subseteq Seq(Char) \X Ids /\ stale' \subseteq Seq(Char) \X Ids
        BY <1>0, <1>1, <1>2 DEF TrieInv, IdsInForce
    <2>2. ASSUME NEW d \in dict' PROVE \E n \in 1 .. Len(nn) : words[n] = d[1] /\ nn[n].id = d[2]
        <3>1. CASE d = <<word, id>>
            <4>1. d[1] = word /\ d[2] = id  BY <3>1
            <4> QED  BY <1>5, <1>6, <1>9, <4>1
        <3>2. CASE d \in dict /\ d[1] # word
            <4>1. PICK n \in 1 .. L : path[n] = d[1] /\ _node[n].id = d[2]
                BY <1>2, <1>4, <3>2 DEF TrieInv, IdsInForce, Positions
            <4>2. n \in 1 .. Len(node) /\ words[n] = path[n] /\ node[n].id = _node[n].id  BY <1>5, <1>6, <4>1
            <4>3. n # k  BY <1>5, <3>2, <4>1, <4>2
            <4> QED  BY <1>9, <4>1, <4>2, <4>3
        <3> QED  BY <1>0, <1>1, <2>2, <3>1, <3>2
    <2>3. ASSUME NEW n \in 2 .. Len(nn), nn[n].id # None
          PROVE  /\ \E d \in dict' \cup stale' : d[2] = nn[n].id /\ d[1] # << >> /\ Ends(d[1], words[n])
                 /\ ~builds => <<words[n], nn[n].id>> \in dict'
        <3>1. n \in 2 .. Len(node)  BY <1>9
        <3>2. CASE n = k
            <4>1. words[n] # << >> /\ words[n] = word  BY <1>5, <3>1, <3>2, NodeFacts
            <4>2. nn[n].id = id  BY <1>6, <1>9, <3>2
            <4>3. PICK d : d = <<word, id>>  OBVIOUS
            <4>4. d \in dict' /\ d[1] = word /\ d[2] = id  BY <1>1, <4>3
            <4>5. Ends(word, word)  BY <1>2, EndsOfOne
            <4> QED  BY <4>1, <4>2, <4>3, <4>4, <4>5
        <3>3. CASE n # k
            <4>1. n \in Inner /\ words[n] = path[n] /\ nn[n].id = _node[n].id /\ words[n] # word
                BY <1>13, <2>3, <3>1, <3>3
            <4>2. CASE builds
                <5>1. PICK d \in dict \cup stale : d[2] = nn[n].id /\ d[1] # << >> /\ Ends(d[1], words[n])
                    BY <1>2, <2>3, <4>1 DEF TrieInv, IdsInForce
                <5>2. d \in dict' \cup stale'  BY <1>0, <1>1, <4>2
                <5> QED  BY <4>2, <5>1, <5>2
            <4>3. CASE ~builds
                <5>1. PICK d : d = <<path[n], _node[n].id>>  OBVIOUS
                <5>2. d \in dict /\ d[1] = words[n] /\ d[2] = nn[n].id
                    BY <1>2, <2>3, <4>1, <4>3, <5>1 DEF TrieInv, IdsInForce
                <5>3. d \in dict'  BY <1>0, <1>1, <4>1, <5>2
                <5>4. words[n] # << >> /\ words[n] \in Seq(Char)  BY <1>5, <1>14, <3>1, <4>1, NodeFacts
                <5>5. Ends(words[n], words[n])  BY <5>4, EndsOfOne
                <5> QED  BY <4>1, <5>1, <5>2, <5>3, <5>4, <5>5
            <4> QED  BY <4>2, <4>3
        <3> QED  BY <3>2, <3>3
    <2>4. ~builds' => stale' = {}  BY <1>1, <1>2 DEF TrieInv, IdsInForce
    <2>5. Positions' = 1 .. Len(nn) /\ Inner' = 2 .. Len(nn)  BY <1>8 DEF Positions, Inner
    <2>6. \A d \in dict' : \E n \in Positions' : path'[n] = d[1] /\ _node'[n].id = d[2]
        BY <1>8, <2>2, <2>5
    <2>7. \A n \in Inner' : _node'[n].id # None =>
              \E d \in dict' \cup stale' : d[2] = _node'[n].id /\ d[1] # << >> /\ Ends(d[1], path'[n])
        BY <1>8, <2>3, <2>5
    <2>8. ~builds' => \A n \in Inner' : _node'[n].id # None => <<path'[n], _node'[n].id>> \in dict'
        BY <1>1, <1>8, <2>3, <2>5
    <2> QED  BY <2>1, <2>4, <2>6, <2>7, <2>8 DEF IdsInForce
<1>16. IsTrie(_node, path)' /\ HasLinks(_node, path)'  BY <1>8, <1>10, <1>11 DEF IsTrie, HasLinks
<1>17. TrieInv'  BY <1>15, <1>16 DEF TrieInv
<1>18. Control'  BY <1>1, BoundAssumption DEF IInv, Control
<1>19. que = << >> /\ text = << >> /\ off = Root /\ ret = {} /\ retOff = {}
    BY <1>1 DEF IInv, BuildInv, SearchInv
<1>20. BuildInv'  BY <1>1, <1>19 DEF BuildInv
<1>21. SearchInv'  BY <1>1, <1>16, <1>19, NoSearch
<1> QED  BY <1>17, <1>18, <1>20, <1>21 DEF IInv

-----------------------------------------------------------------------------
(* build_automata.                                                         *)

\* The children of f are the words longer by one character.
IsChild(f, n) == \E c \in Char : path[n] = Append(path[f + 1], c)

LEMMA Children ==
    ASSUME TrieInv, NEW f \in 0 .. Len(_node) - 1
    PROVE  /\ f + 1 \in Positions /\ path[f + 1] \in Seq(Char) /\ Len(path[f + 1]) \in Nat
           /\ \A n \in Positions, c \in Char :
                 At(f).child[c] # None /\ At(f).child[c] + 1 = n <=> path[n] = Append(path[f + 1], c)
           /\ \A c \in Char : At(f).child[c] # None =>
                 /\ At(f).child[c] \in 1 .. Len(_node) - 1 /\ At(f).child[c] + 1 \in Positions
                 /\ path[At(f).child[c] + 1] = Append(path[f + 1], c)
           /\ \A n \in Positions : IsChild(f, n) => n \in Inner /\ Len(path[n]) = Len(path[f + 1]) + 1
<1>1. IsTrie(_node, path) /\ Len(_node) \in Nat \ {0} /\ path[1] = << >>  BY NodeFacts DEF TrieInv
<1>2. f + 1 \in 1 .. Len(_node)  BY <1>1
<1>3. path[f + 1] \in Seq(Char) /\ Len(path[f + 1]) \in Nat  BY <1>1, <1>2, NodeFacts
<1>4. \A n \in 1 .. Len(_node), c \in Char : _node[n].child[c] # None =>
          /\ _node[n].child[c] \in 1 .. Len(_node) - 1 /\ _node[n].child[c] + 1 \in 2 .. Len(_node)
          /\ path[_node[n].child[c] + 1] = Append(path[n], c)
    BY <1>1, ChildFacts
<1>5. \A m, n \in 1 .. Len(_node), c \in Char : path[m] = Append(path[n], c) => _node[n].child[c] = m - 1
    BY <1>1, Zenon DEF IsTrie
<1>6. \A n \in 1 .. Len(_node) : n - 1 # None /\ (n - 1) + 1 = n  BY DEF None
<1>7. \A k \in 2 .. Len(_node) : k \in 1 .. Len(_node)  BY <1>1
<1>8. ASSUME NEW n \in Positions, NEW c \in Char, At(f).child[c] # None, At(f).child[c] + 1 = n
      PROVE  path[n] = Append(path[f + 1], c)
    <2>1. _node[f + 1].child[c] # None /\ _node[f + 1].child[c] + 1 = n  BY <1>8 DEF At
    <2> QED  BY <1>2, <1>4, <2>1, Zenon
<1>9. ASSUME NEW n \in Positions, NEW c \in Char, path[n] = Append(path[f + 1], c)
      PROVE  At(f).child[c] # None /\ At(f).child[c] + 1 = n
    <2>1. n \in 1 .. Len(_node)  BY DEF Positions
    <2>2. _node[f + 1].child[c] = n - 1  BY <1>2, <1>5, <1>9, <2>1, Zenon
    <2> QED  BY <1>6, <2>1, <2>2 DEF At
<1>10. ASSUME NEW c \in Char, At(f).child[c] # None
       PROVE  /\ At(f).child[c] \in 1 .. Len(_node) - 1 /\ At(f).child[c] + 1 \in Positions
              /\ path[At(f).child[c] + 1] = Append(path[f + 1], c)
    <2>1. _node[f + 1].child[c] # None  BY <1>10 DEF At
    <2>2. /\ _node[f + 1].child[c] \in 1 .. Len(_node) - 1 /\ _node[f + 1].child[c] + 1 \in 2 .. Len(_node)
          /\ path[_node[f + 1].child[c] + 1] = Append(path[f + 1], c)
        BY <1>2, <1>4, <2>1, Zenon
    <2> QED  BY <1>7, <2>2, Zenon DEF At, Positions
<1>11. ASSUME NEW n \in Positions, IsChild(f, n) PROVE n \in Inner /\ Len(path[n]) = Len(path[f + 1]) + 1
    <2>1. PICK c \in Char : path[n] = Append(path[f + 1], c)  BY <1>11 DEF IsChild
    <2>2. Len(path[n]) = Len(path[f + 1]) + 1  BY <1>3, <2>1, OneMore
    <2>3. n # 1
        <3>1. Len(<< >>) = 0  OBVIOUS
        <3> QED  BY <1>1, <1>3, <2>2, <3>1
    <2> QED  BY <2>2, <2>3 DEF Positions, Inner
<1> QED  BY <1>2, <1>3, <1>8, <1>9, <1>10, <1>11, Zenon DEF Positions

\* Less than one is nothing.
LEMMA BelowOne == \A i \in Nat : i <= 1 /\ i # 1 => i <= 0
OBVIOUS

\* Node a is the longest end of the word of n, and n with the link to it.
LongestEnd(a, n) ==
    /\ Ends(path[a + 1], path[n]) /\ Len(path[a + 1]) < Len(path[n])
    /\ \A m \in Positions : Ends(path[m], path[n]) /\ path[m] # path[n] => Len(path[m]) <= Len(path[a + 1])
LinkedTo(a, n) == [_node[n] EXCEPT !.fail_off = a, !.id = IF @ = None /\ a # Root THEN _node[a + 1].id ELSE @]

\* That is what a child of f becomes, when all links up to the depth of f are
\* the longest.
LEMMA ChildLinked ==
    ASSUME TrieInv, NEW f \in 0 .. Len(_node) - 1, NEW c \in Char, NEW n \in Positions,
           path[n] = Append(path[f + 1], c),
           \A m \in Inner : Len(path[m]) <= Len(path[f + 1]) => LongestLink(m)
    PROVE  \E a \in 0 .. Len(_node) - 1 : LongestEnd(a, n) /\ LinkedChild(f, c) = LinkedTo(a, n)
<1>1. /\ Len(_node) \in Nat \ {0} /\ path[1] = << >> /\ Len(path[1]) = 0 /\ 1 \in Positions
      /\ \A m \in Positions : path[m] \in Seq(Char) /\ Len(path[m]) \in Nat
    BY NodeFacts DEF TrieInv, Positions
<1>2. /\ f + 1 \in Positions /\ path[f + 1] \in Seq(Char) /\ Len(path[f + 1]) \in Nat
      /\ At(f).child[c] # None /\ At(f).child[c] + 1 = n /\ Len(path[n]) = Len(path[f + 1]) + 1
    BY Children DEF IsChild
<1>3. At(At(f).child[c]) = _node[n]  BY <1>2 DEF At
<1>4. _node[n] \in Node  BY NodeFacts DEF TrieInv, Positions
<1>5. CASE f = Root
    <2>1. LinkedChild(f, c) = [_node[n] EXCEPT !.fail_off = Root]  BY <1>3, <1>5 DEF LinkedChild
    <2>2. LinkedChild(f, c) = [_node[n] EXCEPT !.fail_off = 0, !.id = IF @ = None /\ 0 # Root THEN _node[0 + 1].id ELSE @]
        BY <1>4, <2>1 DEF Root, Node
    <2>3. f + 1 = 1 /\ Len(path[n]) = 1  BY <1>1, <1>2, <1>5 DEF Root
    <2>7. path[0 + 1] = << >> /\ Len(path[0 + 1]) = 0
        <3>1. 0 + 1 = 1  OBVIOUS
        <3> QED  BY <1>1, <3>1
    <2>8. Ends(<< >>, path[n])  BY <1>1, EndsOfOne
    <2>4. Ends(path[0 + 1], path[n]) /\ Len(path[0 + 1]) < Len(path[n])
        <3>1. Ends(path[0 + 1], path[n])  BY <2>7, <2>8, Zenon
        <3>2. Len(path[0 + 1]) < Len(path[n])  BY <2>3, <2>7
        <3> QED  BY <3>1, <3>2
    <2>5. ASSUME NEW m \in Positions, Ends(path[m], path[n]), path[m] # path[n] PROVE Len(path[m]) <= Len(path[0 + 1])
        <3>1. Len(path[m]) \in Nat /\ Len(path[m]) <= Len(path[n]) /\ Len(path[m]) # Len(path[n])
            BY <1>1, <2>5, EndsOfOne
        <3>3. PICK i \in Nat : i = Len(path[m]) /\ i <= 1 /\ i # 1  BY <2>3, <3>1, Zenon
        <3>4. i <= 0  BY <3>3, BelowOne, Zenon
        <3>2. Len(path[m]) <= 0  BY <3>3, <3>4, Zenon
        <3> QED  BY <2>7, <3>2
    <2>6. 0 \in 0 .. Len(_node) - 1  BY <1>1
    <2>9. LongestEnd(0, n) /\ LinkedChild(f, c) = LinkedTo(0, n)  BY <2>2, <2>4, <2>5 DEF LongestEnd, LinkedTo
    <2> QED  BY <2>6, <2>9
<1>6. CASE f # Root
    <2>1. f + 1 \in Inner  BY <1>2, <1>6 DEF Inner, Positions, Root
    <2>2. PICK l \in 0 .. Len(_node) - 1 : /\ l = At(f).fail_off /\ l + 1 = Link(f + 1)
                                           /\ Ends(path[l + 1], path[f + 1]) /\ Len(path[l + 1]) < Len(path[f + 1])
        BY <2>1 DEF TrieInv, HasLinks, At, Inner, Link
    <2>3. l + 1 \in Positions /\ path[l + 1] \in Seq(Char) /\ Len(path[l + 1]) \in Nat
        <3>1. l + 1 \in Positions  BY <1>1 DEF Positions
        <3> QED  BY <1>1, <3>1
    <2>4. PICK r : r = Climb(l, c)  OBVIOUS
    <2>5. Best(path[l + 1], c, r)
        <3>1. \A m \in Inner : Len(path[m]) <= Len(path[l + 1]) => LongestLink(m)
            <4>1. \A m \in Inner : m \in Positions  BY DEF Inner, Positions
            <4> QED  BY <1>1, <1>2, <2>2, <2>3, <4>1, SMTT(30)
        <3> QED  BY <2>4, <3>1, ClimbIsBest
    <2>6. PICK a : a = Child(r, c)  OBVIOUS
    <2>7. /\ a \in 0 .. Len(_node) - 1 /\ a + 1 \in Positions
          /\ Ends(path[a + 1], Append(path[l + 1], c))
          /\ \A m \in Positions : Ends(path[m], Append(path[l + 1], c)) => Len(path[m]) <= Len(path[a + 1])
          /\ r # None => a # Root
        BY <2>3, <2>5, <2>6, ChildOfBest
    <2>8. LinkedChild(f, c) = [_node[n] EXCEPT !.fail_off = a, !.id = IF @ = None /\ a # Root THEN _node[a + 1].id ELSE @]
        <3>1. CASE r = None
            <4>1. a = Root  BY <2>6, <3>1 DEF Child
            <4>2. LinkedChild(f, c) = [_node[n] EXCEPT !.fail_off = Root]  BY <1>3, <1>6, <2>2, <2>4, <3>1 DEF LinkedChild
            <4> QED  BY <1>4, <4>1, <4>2 DEF Node
        <3>2. CASE r # None
            <4>1. a = At(r).child[c] /\ a # Root /\ At(a) = _node[a + 1]  BY <2>6, <2>7, <3>2 DEF Child, At
            <4>2. LinkedChild(f, c) = [_node[n] EXCEPT !.fail_off = a, !.id = IF @ = None THEN At(a).id ELSE @]
                BY <1>3, <1>6, <2>2, <2>4, <3>2, <4>1 DEF LinkedChild
            <4> QED  BY <4>1, <4>2
        <3> QED  BY <3>1, <3>2
    <2>9. PICK w \in Seq(Char) : w = Append(path[l + 1], c) /\ Len(w) = Len(path[l + 1]) + 1
        <3>1. Append(path[l + 1], c) \in Seq(Char) /\ Len(Append(path[l + 1], c)) = Len(path[l + 1]) + 1
            BY <2>3, OneMore
        <3> QED  BY <3>1
    <2>10. Ends(w, path[n])  BY <1>2, <2>2, <2>3, <2>9, OneMore, SMTT(30)
    <2>11. Ends(path[a + 1], path[n]) /\ Len(path[a + 1]) < Len(path[n])
        <3>1. Ends(path[a + 1], w)  BY <2>7, <2>9
        <3>2. Ends(path[a + 1], path[n])  BY <1>1, <2>7, <2>10, <3>1, EndsOfOne, ZenonT(60)
        <3>3. Len(path[a + 1]) \in Nat /\ Len(path[a + 1]) <= Len(w)  BY <1>1, <2>7, <3>1, EndsOfOne
        <3>4. Len(w) < Len(path[n])  BY <1>2, <2>2, <2>3, <2>9, SMTT(30)
        <3>5. Len(w) \in Nat /\ Len(path[n]) \in Nat  BY <1>1
        <3> QED  BY <3>2, <3>3, <3>4, <3>5
    <2>12. ASSUME NEW m \in Positions, Ends(path[m], path[n]), path[m] # path[n] PROVE Len(path[m]) <= Len(path[a + 1])
        <3>1. CASE path[m] = << >>
            <4>1. Len(path[m]) = 0  BY <3>1
            <4> QED  BY <1>1, <2>7, <4>1
        <3>2. CASE path[m] # << >>
            <4>1. PICK v \in Seq(Char), d \in Char : path[m] = Append(v, d)  BY <1>1, <3>2, OneMore
            <4>2. d = c /\ Ends(v, path[f + 1])  BY <1>2, <2>12, <4>1, OneMore
            <4>3. v # path[f + 1]  BY <2>12, <4>1, <4>2
            <4>4. PICK j \in Positions : path[j] = v
                <5>1. Begins(v, path[m])  BY <4>1, BeginsOneMore
                <5>2. \A u \in Seq(Char) : Begins(u, path[m]) => \E j \in 1 .. Len(_node) : path[j] = u
                    BY ChildFacts DEF TrieInv, Positions
                <5> QED  BY <5>1, <5>2 DEF Positions
            <4>5. LongestLink(f + 1)  BY <1>2, <2>1
            <4>6. Len(v) <= Len(path[l + 1])  BY <2>2, <4>2, <4>3, <4>4, <4>5 DEF LongestLink
            <4>7. Ends(v, path[l + 1])  BY <1>2, <2>2, <2>3, <4>2, <4>6, EndsOfOne
            <4>8. Ends(path[m], Append(path[l + 1], c))  BY <2>3, <4>1, <4>2, <4>7, OneMore
            <4> QED  BY <2>7, <4>8
        <3> QED  BY <3>1, <3>2
    <2>13. LongestEnd(a, n) /\ LinkedChild(f, c) = LinkedTo(a, n)  BY <2>8, <2>11, <2>12 DEF LongestEnd, LinkedTo
    <2> QED  BY <2>7, <2>13
<1> QED  BY <1>5, <1>6

\* SetToSeq lists a finite set, whose elements can be numbered.
LEMMA Listed ==
    ASSUME NEW S, IsFiniteSet(S)
    PROVE  /\ SetToSeq(S) \in Seq(S) /\ Len(SetToSeq(S)) \in Nat
           /\ \A i \in 1 .. Len(SetToSeq(S)) : SetToSeq(S)[i] \in S
           /\ \A x \in S : \E i \in 1 .. Len(SetToSeq(S)) : SetToSeq(S)[i] = x
<1> DEFINE N == Cardinality(S)
           s == SetToSeq(S)
           R == {s[i] : i \in 1 .. N}
<1>1. N \in Nat  BY FS_CardinalityType
<1>2. \E f \in [1 .. N -> S] : IsInjective(f)
    <2>1. PICK n \in Nat : ExistsBijection(1 .. n, S)  BY FS_NatBijection
    <2>2. N = n  BY <2>1, FS_CountingElements
    <2> QED  BY <2>1, <2>2 DEF ExistsBijection, Bijection, Injection
<1>3. s \in [1 .. N -> S] /\ IsInjective(s)  BY <1>2 DEF SetToSeq
<1> HIDE DEF s, N
<1>4. s \in Seq(S) /\ Len(s) = N  BY <1>1, <1>3
<1>5. R = S
    <2>1. s \in [1 .. N -> R] /\ \A x \in R : \E i \in 1 .. N : s[i] = x  BY <1>3
    <2>2. s \in Surjection(1 .. N, R) /\ s \in Injection(1 .. N, R)
        BY <1>3, <2>1 DEF Surjection, Injection, IsInjective
    <2>3. ExistsBijection(1 .. N, R)  BY <2>2 DEF ExistsBijection, Bijection
    <2>4. Cardinality(R) = N  BY <1>1, <2>3, FS_CountingElements
    <2>5. R \in SUBSET S  BY <1>3
    <2> HIDE DEF R
    <2> QED  BY <2>4, <2>5, FS_Subset DEF N
<1>6. \A x \in S : \E i \in 1 .. N : s[i] = x  BY <1>5
<1> QED  BY <1>1, <1>3, <1>4, <1>6 DEF s

\* The queue without its first element, and with the children at the end.
LEMMA QueueFacts ==
    ASSUME NEW S, NEW q \in Seq(S), q # << >>, NEW s \in Seq(S), NEW p, p = Tail(q) \o s
    PROVE  /\ p \in Seq(S) /\ Len(q) \in Nat \ {0} /\ Len(s) \in Nat /\ Len(p) = (Len(q) - 1) + Len(s)
           /\ Head(q) = q[1] /\ q[1] \in S
           /\ \A i \in 1 .. Len(q) - 1 : i \in 1 .. Len(p) /\ p[i] = q[i + 1]
           /\ \A i \in 1 .. Len(s) : (Len(q) - 1) + i \in 1 .. Len(p) /\ p[(Len(q) - 1) + i] = s[i]
           /\ \A i \in 1 .. Len(p) :
                 \/ i \in 1 .. Len(q) - 1 /\ i + 1 \in 1 .. Len(q) /\ p[i] = q[i + 1]
                 \/ i - (Len(q) - 1) \in 1 .. Len(s) /\ p[i] = s[i - (Len(q) - 1)]
<1>1. Len(q) \in Nat \ {0} /\ Len(s) \in Nat  BY EmptySeq
<1>2. PICK t : t = Tail(q)  OBVIOUS
<1>3. t \in Seq(S) /\ Len(t) = Len(q) - 1 /\ \A i \in 1 .. Len(q) - 1 : t[i] = q[i + 1]  BY <1>1, <1>2
<1>10. Len(q) - 1 \in Nat  BY <1>1
<1>4. PICK N \in Nat, M \in Nat : N = Len(q) - 1 /\ M = Len(s)  BY <1>1, <1>10, Zenon
<1>5. p = t \o s  BY <1>2
<1>6. p \in Seq(S) /\ Len(p) = N + M  BY <1>3, <1>4, <1>5
<1>7. /\ \A i \in 1 .. N : p[i] = t[i]
      /\ \A i \in 1 .. N + M : i \notin 1 .. N => p[i] = s[i - N]
    BY <1>3, <1>4, <1>5
<1>8. /\ \A i \in 1 .. N : i \in 1 .. N + M /\ i + 1 \in 1 .. Len(q)
      /\ \A i \in 1 .. M : N + i \in 1 .. N + M /\ N + i \notin 1 .. N /\ (N + i) - N = i
      /\ \A i \in 1 .. N + M : i \in 1 .. N \/ (i \notin 1 .. N /\ i - N \in 1 .. M)
    BY <1>1, <1>4
<1>9. Head(q) = q[1] /\ q[1] \in S  BY <1>1
<1> QED  BY <1>1, <1>3, <1>4, <1>6, <1>7, <1>8, <1>9

\* What one turn of the loop does to the nodes: the children of father get
\* their longest links, the others stay.
LEMMA LinkChildrenStep ==
    ASSUME IInv, LinkChildren, NEW f, f = Head(que)
    PROVE  /\ f \in 0 .. Len(_node) - 1
           /\ _node' \in Seq(Node) /\ Len(_node') = Len(_node)
           /\ \A n \in Positions : _node'[n].child = _node[n].child /\ (~IsChild(f, n) => _node'[n] = _node[n])
           /\ \A n \in Positions : IsChild(f, n) => \E a \in 0 .. Len(_node) - 1 :
                 /\ LongestEnd(a, n) /\ _node'[n].fail_off = a
                 /\ _node'[n].id = IF _node[n].id = None /\ a # Root THEN _node[a + 1].id ELSE _node[n].id
<1>1. pc = "build" /\ que # << >>  BY DEF LinkChildren
<1>2. TrieInv /\ BuildInv  BY DEF IInv
<1>3. /\ que \in Seq(0 .. Len(_node) - 1) /\ ByDepth(que) /\ \A n \in Inner : Waits(n) \/ Reached(n)
    BY <1>1, <1>2 DEF BuildInv
<1>4. /\ Len(_node) \in Nat \ {0} /\ \A n \in Positions : path[n] \in Seq(Char) /\ Len(path[n]) \in Nat /\ _node[n] \in Node
    BY <1>2, NodeFacts DEF TrieInv, Positions
<1>5. Len(que) \in Nat \ {0} /\ f = que[1] /\ f \in 0 .. Len(_node) - 1
    BY <1>1, <1>3, EmptySeq
<1>6. ASSUME NEW m \in Inner, Len(path[m]) <= Len(path[f + 1]) PROVE LongestLink(m)
    <2>1. ASSUME NEW k \in 1 .. Len(que) PROVE ~(Depth(que[k]) < Len(path[m]))
        <3>1. que[k] + 1 \in Positions  BY <1>3, <1>4 DEF Positions
        <3>2. f + 1 \in Positions /\ m \in Positions  BY <1>4, <1>5 DEF Positions, Inner
        <3>3. 1 \in 1 .. Len(que) /\ 1 <= k  BY <1>5
        <3>4. Len(path[que[1] + 1]) <= Len(path[que[k] + 1])  BY <1>3, <3>3 DEF ByDepth, Depth
        <3>5. Len(path[que[k] + 1]) \in Nat /\ Len(path[f + 1]) \in Nat /\ Len(path[m]) \in Nat  BY <1>4, <3>1, <3>2
        <3> QED  BY <1>5, <1>6, <3>4, <3>5 DEF Depth
    <2>2. ~Waits(m)  BY <2>1 DEF Waits
    <2> QED  BY <1>3, <2>2 DEF Reached, Linked
<1>c. \A n \in Positions, c \in Char :
          At(f).child[c] # None /\ At(f).child[c] + 1 = n <=> path[n] = Append(path[f + 1], c)
    BY <1>2, <1>5, Children, Zenon
<1> DEFINE chars == {c \in Char : At(f).child[c] # None}
           Mine(n) == \E c \in chars : At(f).child[c] + 1 = n
           The(n) == CHOOSE c \in chars : At(f).child[c] + 1 = n
<1>7. _node' = [n \in 1 .. Len(_node) |-> IF Mine(n) THEN LinkedChild(f, The(n)) ELSE _node[n]]
    BY DEF LinkChildren
<1>8. \A n \in Positions : Mine(n) <=> IsChild(f, n)
    BY <1>c DEF IsChild
<1>9. \A n \in Positions : Mine(n) => The(n) \in Char /\ path[n] = Append(path[f + 1], The(n))
    <2> SUFFICES ASSUME NEW n \in Positions, Mine(n) PROVE The(n) \in Char /\ path[n] = Append(path[f + 1], The(n))
        OBVIOUS
    <2>1. The(n) \in chars /\ At(f).child[The(n)] + 1 = n  OBVIOUS
    <2> HIDE DEF The
    <2>2. The(n) \in Char /\ At(f).child[The(n)] # None /\ At(f).child[The(n)] + 1 = n  BY <2>1
    <2> QED  BY <1>c, <2>2
<1> HIDE DEF Mine, The
<1>10. /\ \A n \in Positions : IsChild(f, n) => _node'[n] = LinkedChild(f, The(n))
       /\ \A n \in Positions : ~IsChild(f, n) => _node'[n] = _node[n]
    BY <1>7, <1>8 DEF Positions
<1>11. ASSUME NEW n \in Positions, IsChild(f, n)
       PROVE  /\ _node'[n] \in Node /\ _node'[n].child = _node[n].child
              /\ \E a \in 0 .. Len(_node) - 1 :
                   /\ LongestEnd(a, n) /\ _node'[n].fail_off = a
                   /\ _node'[n].id = IF _node[n].id = None /\ a # Root THEN _node[a + 1].id ELSE _node[n].id
    <2>1. PICK c \in Char : c = The(n) /\ path[n] = Append(path[f + 1], c)  BY <1>8, <1>9, <1>11
    <2>2. PICK a \in 0 .. Len(_node) - 1 : LongestEnd(a, n) /\ LinkedChild(f, c) = LinkedTo(a, n)
        <3>1. \A m \in Inner : Len(path[m]) <= Len(path[f + 1]) => LongestLink(m)  BY <1>6
        <3>2. f \in 0 .. Len(_node) - 1 /\ path[n] = Append(path[f + 1], c)  BY <1>5, <2>1
        <3> QED  BY <1>2, <3>1, <3>2, ChildLinked, Zenon
    <2>3. _node'[n] = [_node[n] EXCEPT !.fail_off = a, !.id = IF @ = None /\ a # Root THEN _node[a + 1].id ELSE @]
        BY <1>10, <1>11, <2>1, <2>2, Zenon DEF LinkedTo
    <2>4. _node[n] \in Node /\ _node[a + 1] \in Node /\ a \in Nat  BY <1>4 DEF Positions
    <2>5. PICK i : i = IF _node[n].id = None /\ a # Root THEN _node[a + 1].id ELSE _node[n].id  OBVIOUS
    <2>6. i \in Ids \cup {None}  BY <2>4, <2>5 DEF Node
    <2>7. _node'[n] = [_node[n] EXCEPT !.fail_off = a, !.id = i]  BY <2>3, <2>4, <2>5 DEF Node
    <2>8. _node'[n] \in Node /\ _node'[n].child = _node[n].child /\ _node'[n].fail_off = a /\ _node'[n].id = i
        BY <2>4, <2>6, <2>7 DEF Node
    <2> QED  BY <2>2, <2>5, <2>8
<1>12. _node' \in [1 .. Len(_node) -> Node]
    <2>1. \A n \in 1 .. Len(_node) : _node'[n] \in Node  BY <1>4, <1>10, <1>11 DEF Positions
    <2>2. _node' = [n \in 1 .. Len(_node) |-> _node'[n]]  BY <1>7
    <2> QED  BY <2>1, <2>2
<1>13. _node' \in Seq(Node) /\ Len(_node') = Len(_node)  BY <1>4, <1>12
<1>14. \A n \in Positions : _node'[n].child = _node[n].child  BY <1>10, <1>11
<1> QED  BY <1>5, <1>10, <1>11, <1>13, <1>14

\* The trie after one turn.
LEMMA LinkChildrenTrie ==
    ASSUME IInv, LinkChildren, NEW f, f = Head(que)
    PROVE  TrieInv'
<1>1. /\ UNCHANGED <<path, dict, stale, builds>> /\ TrieInv /\ builds
    BY DEF LinkChildren, IInv, BuildInv
<1>2. /\ f \in 0 .. Len(_node) - 1
      /\ _node' \in Seq(Node) /\ Len(_node') = Len(_node)
      /\ \A n \in Positions : _node'[n].child = _node[n].child /\ (~IsChild(f, n) => _node'[n] = _node[n])
      /\ \A n \in Positions : IsChild(f, n) => \E a \in 0 .. Len(_node) - 1 :
            /\ LongestEnd(a, n) /\ _node'[n].fail_off = a
            /\ _node'[n].id = IF _node[n].id = None /\ a # Root THEN _node[a + 1].id ELSE _node[n].id
    BY LinkChildrenStep
<1>3. PICK nn : nn = _node'  OBVIOUS
<1>4. IsTrie(nn, path)
    <2>1. IsTrie(_node, path)  BY <1>1 DEF TrieInv
    <2>2. nn \in Seq(Node) /\ Len(nn) = Len(_node) /\ \A n \in 1 .. Len(_node) : nn[n].child = _node[n].child
        BY <1>2, <1>3 DEF Positions
    <2> QED  BY <2>1, <2>2, SameShape
<1>5. /\ Len(_node) \in Nat \ {0} /\ 1 \in Positions /\ (\A n \in Inner : n \in Positions)
      /\ \A n \in Positions : path[n] \in Seq(Char) /\ Len(path[n]) \in Nat
    BY <1>1, NodeFacts DEF TrieInv, Positions, Inner
<1>6. Inner' = Inner /\ Positions' = Positions /\ Inner = 2 .. Len(nn) /\ Positions = 1 .. Len(nn)
    BY <1>2, <1>3 DEF Inner, Positions
<1>7. HasLinks(nn, path)
    <2>1. nn[1].fail_off = None
        <3>1. 1 \notin Inner  BY DEF Inner
        <3>2. ~IsChild(f, 1)  BY <1>1, <1>2, <1>5, <3>1, Children
        <3> QED  BY <1>1, <1>2, <1>3, <1>5, <3>2 DEF TrieInv, HasLinks
    <2>2. ASSUME NEW n \in Inner
          PROVE  /\ nn[n].fail_off \in 0 .. Len(nn) - 1 /\ Ends(path[nn[n].fail_off + 1], path[n])
                 /\ Len(path[nn[n].fail_off + 1]) < Len(path[n])
        <3>1. n \in Positions  BY <1>5
        <3>2. CASE IsChild(f, n)  BY <1>2, <1>3, <3>1, <3>2 DEF LongestEnd
        <3>3. CASE ~IsChild(f, n)
            <4>1. nn[n] = _node[n]  BY <1>2, <1>3, <3>1, <3>3
            <4> QED  BY <1>1, <1>2, <1>3, <4>1 DEF TrieInv, HasLinks, Inner
        <3> QED  BY <3>2, <3>3
    <2> QED  BY <1>6, <2>1, <2>2 DEF HasLinks
<1>8. \A n \in Positions : _node[n].id # None => nn[n].id = _node[n].id  BY <1>2, <1>3
<1>9. /\ dict \cup stale \subseteq Seq(Char) \X Ids
      /\ \A d \in dict : d[2] # None
      /\ \A d \in dict : \E n \in Positions : path[n] = d[1] /\ _node[n].id = d[2]
      /\ \A n \in Inner : _node[n].id # None =>
            \E d \in dict \cup stale : d[2] = _node[n].id /\ d[1] # << >> /\ Ends(d[1], path[n])
    <2>1. \A i \in Ids : i # None  BY IdsAssumption DEF None
    <2>2. IdsInForce  BY <1>1 DEF TrieInv
    <2>3. dict \cup stale \subseteq Seq(Char) \X Ids  BY <2>2 DEF IdsInForce
    <2>4. \A d \in dict : d[2] # None  BY <2>1, <2>3
    <2> QED  BY <2>2, <2>3, <2>4 DEF IdsInForce
<1>10. ASSUME NEW n \in Inner, nn[n].id # None
       PROVE  \E d \in dict \cup stale : d[2] = nn[n].id /\ d[1] # << >> /\ Ends(d[1], path[n])
    <2>1. CASE nn[n].id = _node[n].id  BY <1>9, <1>10, <2>1
    <2>2. CASE nn[n].id # _node[n].id
        <3>1. n \in Positions /\ IsChild(f, n)  BY <1>2, <1>3, <1>5, <2>2
        <3>2. PICK a \in 0 .. Len(_node) - 1 : LongestEnd(a, n) /\ a # Root /\ nn[n].id = _node[a + 1].id
            BY <1>2, <1>3, <2>2, <3>1
        <3>3. a + 1 \in Inner  BY <1>5, <3>2 DEF Inner, Root
        <3>4. PICK d \in dict \cup stale : d[2] = nn[n].id /\ d[1] # << >> /\ Ends(d[1], path[a + 1])
            BY <1>9, <1>10, <3>2, <3>3
        <3>5. d[1] \in Seq(Char)  BY <1>9
        <3>6. Ends(d[1], path[n])  BY <1>5, <3>1, <3>2, <3>3, <3>4, <3>5, EndsOfOne DEF LongestEnd
        <3> QED  BY <3>4, <3>6
    <2> QED  BY <2>1, <2>2
<1>11. IdsInForce'
    <2>1. dict' \subseteq Seq(Char) \X Ids /\ stale' \subseteq Seq(Char) \X Ids  BY <1>1, <1>9
    <2>2. \A d \in dict' : \E n \in Positions' : path'[n] = d[1] /\ _node'[n].id = d[2]
        BY <1>1, <1>3, <1>6, <1>8, <1>9
    <2>3. \A n \in Inner' : _node'[n].id # None =>
              \E d \in dict' \cup stale' : d[2] = _node'[n].id /\ d[1] # << >> /\ Ends(d[1], path'[n])
        BY <1>1, <1>3, <1>6, <1>10
    <2> QED  BY <1>1, <2>1, <2>2, <2>3 DEF IdsInForce
<1>12. IsTrie(_node, path)' /\ HasLinks(_node, path)'  BY <1>1, <1>3, <1>4, <1>7 DEF IsTrie, HasLinks
<1> QED  BY <1>11, <1>12 DEF TrieInv

\* The queue after one turn: all in it is at the depth of f or one deeper, and
\* every child of f is in it.
LEMMA LinkChildrenQueue ==
    ASSUME IInv, LinkChildren, NEW f, f = Head(que), NEW D, D = Len(path[f + 1])
    PROVE  /\ que' \in Seq(0 .. Len(_node) - 1) /\ D \in Nat
           /\ \A i \in 1 .. Len(que') : D <= Depth(que'[i]) /\ Depth(que'[i]) <= D + 1
           /\ \A j, k \in 1 .. Len(que') : j <= k => Depth(que'[j]) <= Depth(que'[k])
           /\ \A k \in 1 .. Len(que) : k # 1 => \E i \in 1 .. Len(que') : que'[i] = que[k]
           /\ \A n \in Positions : IsChild(f, n) => \E i \in 1 .. Len(que') : que'[i] + 1 = n
<1>1. pc = "build" /\ que # << >>  BY DEF LinkChildren
<1>2. TrieInv /\ BuildInv  BY DEF IInv
<1>3. que \in Seq(0 .. Len(_node) - 1) /\ ByDepth(que)  BY <1>1, <1>2 DEF BuildInv
<1>4. /\ Len(_node) \in Nat \ {0} /\ \A n \in Positions : path[n] \in Seq(Char) /\ Len(path[n]) \in Nat
    BY <1>2, NodeFacts DEF TrieInv, Positions
<1> DEFINE S == 0 .. Len(_node) - 1
           chars == {c \in Char : At(f).child[c] # None}
           K == {At(f).child[c] : c \in chars}
           s == SetToSeq(K)
<1>5. f \in S /\ f = que[1] /\ Len(que) \in Nat \ {0}  BY <1>1, <1>3, EmptySeq
<1>6. /\ f + 1 \in Positions /\ D \in Nat
      /\ \A c \in Char : At(f).child[c] # None =>
            /\ At(f).child[c] \in 1 .. Len(_node) - 1 /\ At(f).child[c] + 1 \in Positions
            /\ path[At(f).child[c] + 1] = Append(path[f + 1], c)
      /\ \A n \in Positions, c \in Char :
            At(f).child[c] # None /\ At(f).child[c] + 1 = n <=> path[n] = Append(path[f + 1], c)
      /\ \A n \in Positions : IsChild(f, n) => Len(path[n]) = D + 1
    BY <1>2, <1>5, Children
<1>7. que' = Tail(que) \o s  BY DEF LinkChildren
<1>8. \A x \in K : x \in S /\ x + 1 \in Positions /\ IsChild(f, x + 1)
    <2> SUFFICES ASSUME NEW c \in chars
                 PROVE  LET x == At(f).child[c] IN x \in S /\ x + 1 \in Positions /\ IsChild(f, x + 1)
        OBVIOUS
    <2>1. c \in Char /\ At(f).child[c] # None  OBVIOUS
    <2>2. PICK x : x = At(f).child[c]  OBVIOUS
    <2>3. x \in 1 .. Len(_node) - 1 /\ x + 1 \in Positions /\ path[x + 1] = Append(path[f + 1], c)
        BY <1>6, <2>1, <2>2
    <2>4. x \in S  BY <2>3
    <2>5. IsChild(f, x + 1)  BY <2>1, <2>3 DEF IsChild
    <2> QED  BY <2>2, <2>3, <2>4, <2>5
<1>9. \A n \in Positions : IsChild(f, n) => \E x \in K : x + 1 = n
    <2> SUFFICES ASSUME NEW n \in Positions, IsChild(f, n) PROVE \E x \in K : x + 1 = n  OBVIOUS
    <2>1. PICK c \in Char : path[n] = Append(path[f + 1], c)  BY DEF IsChild
    <2>2. At(f).child[c] # None /\ At(f).child[c] + 1 = n  BY <1>6, <2>1
    <2>3. c \in chars  BY <2>2
    <2> QED  BY <2>2, <2>3
<1>10. IsFiniteSet(K)
    <2>1. K \subseteq S  BY <1>8
    <2>2. IsFiniteSet(S)  BY <1>4, FS_Interval
    <2> HIDE DEF K, S
    <2> QED  BY <2>1, <2>2, FS_Subset
<1> HIDE DEF K
<1>11. /\ s \in Seq(K) /\ \A i \in 1 .. Len(s) : s[i] \in K
       /\ \A x \in K : \E i \in 1 .. Len(s) : s[i] = x
    BY <1>10, Listed
<1> HIDE DEF s
<1>12. s \in Seq(S)
    <2>1. K \subseteq S  BY <1>8
    <2> HIDE DEF S
    <2> QED  BY <1>11, <2>1
<1>q. PICK p : p = que'  OBVIOUS
<1>13. PICK N \in Nat : N = Len(que) - 1 /\ p = que'
    <2>1. Len(que) - 1 \in Nat  BY <1>5
    <2> QED  BY <1>q, <2>1
<1>14. /\ p \in Seq(S) /\ Len(s) \in Nat /\ Len(p) = N + Len(s)
       /\ \A i \in 1 .. N : i \in 1 .. Len(p) /\ p[i] = que[i + 1]
       /\ \A i \in 1 .. Len(s) : N + i \in 1 .. Len(p) /\ p[N + i] = s[i]
       /\ \A i \in 1 .. Len(p) :
             \/ i \in 1 .. N /\ i + 1 \in 1 .. Len(que) /\ p[i] = que[i + 1]
             \/ i - N \in 1 .. Len(s) /\ p[i] = s[i - N]
    <2>1. que \in Seq(S)  BY <1>3
    <2>2. PICK q : q = que  OBVIOUS
    <2>3. q \in Seq(S) /\ q # << >> /\ p = Tail(q) \o s /\ N = Len(q) - 1  BY <1>1, <1>7, <1>13, <2>1, <2>2
    <2> HIDE DEF S
    <2>4. /\ p \in Seq(S) /\ Len(s) \in Nat /\ Len(p) = (Len(q) - 1) + Len(s)
          /\ \A i \in 1 .. Len(q) - 1 : i \in 1 .. Len(p) /\ p[i] = q[i + 1]
          /\ \A i \in 1 .. Len(s) : (Len(q) - 1) + i \in 1 .. Len(p) /\ p[(Len(q) - 1) + i] = s[i]
          /\ \A i \in 1 .. Len(p) :
                \/ i \in 1 .. Len(q) - 1 /\ i + 1 \in 1 .. Len(q) /\ p[i] = q[i + 1]
                \/ i - (Len(q) - 1) \in 1 .. Len(s) /\ p[i] = s[i - (Len(q) - 1)]
        BY <1>12, <2>3, QueueFacts
    <2> QED  BY <2>2, <2>3, <2>4
<1>15. \A k \in 1 .. Len(que) : Depth(que[k]) \in Nat /\ D <= Depth(que[k]) /\ Depth(que[k]) <= D + 1
    <2> SUFFICES ASSUME NEW k \in 1 .. Len(que)
                 PROVE  Depth(que[k]) \in Nat /\ D <= Depth(que[k]) /\ Depth(que[k]) <= D + 1
        OBVIOUS
    <2>1. 1 \in 1 .. Len(que) /\ 1 <= k  BY <1>5
    <2>2. Depth(que[1]) = D  BY <1>5 DEF Depth
    <2>3. que[k] + 1 \in Positions  BY <1>3, <1>4 DEF Positions
    <2>4. Depth(que[k]) \in Nat  BY <1>4, <2>3 DEF Depth
    <2>5. Depth(que[1]) <= Depth(que[k]) /\ Depth(que[k]) <= Depth(que[1]) + 1  BY <1>3, <2>1 DEF ByDepth
    <2> QED  BY <2>2, <2>4, <2>5
<1>16. \A i \in 1 .. Len(s) : Depth(s[i]) = D + 1
    BY <1>6, <1>8, <1>11 DEF Depth
<1>17. ASSUME NEW i \in 1 .. Len(p) PROVE Depth(p[i]) \in Nat /\ D <= Depth(p[i]) /\ Depth(p[i]) <= D + 1
    <2>1. CASE i \in 1 .. N /\ i + 1 \in 1 .. Len(que) /\ p[i] = que[i + 1]  BY <1>15, <2>1
    <2>2. CASE i - N \in 1 .. Len(s) /\ p[i] = s[i - N]
        <3>1. Depth(p[i]) = D + 1  BY <1>16, <2>2
        <3> QED  BY <1>6, <3>1
    <2> QED  BY <1>14, <2>1, <2>2
<1>18. ASSUME NEW j \in 1 .. Len(p), NEW k \in 1 .. Len(p), j <= k PROVE Depth(p[j]) <= Depth(p[k])
    <2>1. CASE k - N \in 1 .. Len(s) /\ p[k] = s[k - N]
        <3>1. Depth(p[k]) = D + 1  BY <1>16, <2>1
        <3> QED  BY <1>17, <3>1
    <2>2. CASE k \in 1 .. N /\ k + 1 \in 1 .. Len(que) /\ p[k] = que[k + 1]
        <3>1. j \in 1 .. N /\ j + 1 <= k + 1 /\ j + 1 \in 1 .. Len(que)  BY <1>13, <1>18, <2>2
        <3>2. p[j] = que[j + 1]  BY <1>14, <3>1
        <3>3. Depth(que[j + 1]) <= Depth(que[k + 1])  BY <1>3, <2>2, <3>1 DEF ByDepth
        <3> QED  BY <2>2, <3>2, <3>3
    <2> QED  BY <1>14, <2>1, <2>2
<1>19. ASSUME NEW k \in 1 .. Len(que), k # 1 PROVE \E i \in 1 .. Len(p) : p[i] = que[k]
    <2>1. k - 1 \in 1 .. N /\ (k - 1) + 1 = k  BY <1>5, <1>13, <1>19
    <2> QED  BY <1>14, <2>1, ZenonT(60)
<1>20. ASSUME NEW n \in Positions, IsChild(f, n) PROVE \E i \in 1 .. Len(p) : p[i] + 1 = n
    <2>1. PICK x \in K : x + 1 = n  BY <1>9, <1>20
    <2>2. PICK i \in 1 .. Len(s) : s[i] = x  BY <1>11
    <2>3. N + i \in 1 .. Len(p) /\ p[N + i] = x  BY <1>14, <2>2
    <2> QED  BY <2>1, <2>3
<1> QED  BY <1>6, <1>13, <1>14, <1>17, <1>18, <1>19, <1>20

\* One turn of build_automata: a child of father is reached, and what waited
\* for father alone waits for one of its children now.
LEMMA LinkChildrenKeeps ==
    ASSUME IInv, LinkChildren
    PROVE  IInv'
<1>0. PICK f, D : f = Head(que) /\ D = Len(path[f + 1])  OBVIOUS
<1>1. /\ pc = "build" /\ pc' = "build" /\ que # << >>
      /\ UNCHANGED <<path, dict, stale, inserts, builds, text, off, ret, retOff>>
      /\ TrieInv /\ BuildInv /\ TrieInv'
    BY <1>0, LinkChildrenTrie DEF LinkChildren, search, IInv
<1>2. /\ f \in 0 .. Len(_node) - 1 /\ Len(_node') = Len(_node)
      /\ \A n \in Positions : ~IsChild(f, n) => _node'[n] = _node[n]
      /\ \A n \in Positions : IsChild(f, n) => \E a \in 0 .. Len(_node) - 1 :
            /\ LongestEnd(a, n) /\ _node'[n].fail_off = a
            /\ _node'[n].id = IF _node[n].id = None /\ a # Root THEN _node[a + 1].id ELSE _node[n].id
    BY <1>0, LinkChildrenStep
<1>3. /\ que' \in Seq(0 .. Len(_node) - 1) /\ D \in Nat
      /\ \A i \in 1 .. Len(que') : D <= Depth(que'[i]) /\ Depth(que'[i]) <= D + 1
      /\ \A j, k \in 1 .. Len(que') : j <= k => Depth(que'[j]) <= Depth(que'[k])
      /\ \A k \in 1 .. Len(que) : k # 1 => \E i \in 1 .. Len(que') : que'[i] = que[k]
      /\ \A n \in Positions : IsChild(f, n) => \E i \in 1 .. Len(que') : que'[i] + 1 = n
    BY <1>0, LinkChildrenQueue
<1>4. /\ Len(_node) \in Nat \ {0} /\ IsTrie(_node, path) /\ (\A n \in Inner : n \in Positions)
      /\ \A n \in Positions : path[n] \in Seq(Char) /\ Len(path[n]) \in Nat
    BY <1>1, NodeFacts DEF TrieInv, Positions, Inner
<1>5. Inner' = Inner /\ Positions' = Positions  BY <1>2 DEF Inner, Positions
<1>6. /\ f + 1 \in Positions /\ path[f + 1] \in Seq(Char)
      /\ \A n \in Positions : IsChild(f, n) => Len(path[n]) = D + 1
    BY <1>0, <1>1, <1>2, Children
<1>7. PICK nn, q, N : nn = _node' /\ q = que' /\ N = Len(q)  OBVIOUS
<1>8. \A i \in 1 .. N : q[i] + 1 \in Positions /\ Depth(q[i]) \in Nat
    <2>1. \A i \in 1 .. N : q[i] + 1 \in Positions  BY <1>3, <1>4, <1>7 DEF Positions
    <2> QED  BY <1>4, <2>1 DEF Depth
<1>9. ByDepth(que)'
    <2>1. \A j, k \in 1 .. N : (j <= k => Depth(q[j]) <= Depth(q[k])) /\ Depth(q[k]) <= Depth(q[j]) + 1
        BY <1>3, <1>7, <1>8, SMTT(30)
    <2> QED  BY <1>1, <1>7, <2>1 DEF ByDepth, Depth
<1>10. ASSUME NEW n \in Inner, Linked(n)', Len(path[n]) <= D + 1 PROVE Reached(n)'
    <2>1. \A i \in 1 .. N : Len(path[n]) <= Depth(q[i]) + 1  BY <1>3, <1>4, <1>7, <1>8, <1>10, SMTT(30)
    <2> QED  BY <1>1, <1>7, <1>10, <2>1 DEF Reached, Depth
<1>11. ASSUME NEW n \in Inner, IsChild(f, n) PROVE Reached(n)'
    <2>1. PICK a \in 0 .. Len(_node) - 1 :
              /\ LongestEnd(a, n) /\ nn[n].fail_off = a
              /\ nn[n].id = IF _node[n].id = None /\ a # Root THEN _node[a + 1].id ELSE _node[n].id
        BY <1>2, <1>4, <1>7, <1>11
    <2>2. a + 1 \in Positions /\ Len(path[a + 1]) < D + 1 /\ Len(path[n]) = D + 1
        <3>1. a + 1 \in Positions  BY <1>4 DEF Positions
        <3>2. Len(path[n]) = D + 1  BY <1>4, <1>6, <1>11
        <3>3. Len(path[a + 1]) < Len(path[n])  BY <2>1 DEF LongestEnd
        <3> QED  BY <3>1, <3>2, <3>3
    <2>3. nn[a + 1] = _node[a + 1]
        <3>1. Len(path[a + 1]) # D + 1  BY <1>3, <1>4, <2>2
        <3> QED  BY <1>2, <1>6, <1>7, <2>2, <3>1
    <2>4. LongestLink(n)'
        <3>1. Link(n)' = a + 1  BY <1>7, <2>1 DEF Link
        <3>2. \A m \in Positions : Ends(path[m], path[n]) /\ path[m] # path[n] => Len(path[m]) <= Len(path[a + 1])
            BY <2>1 DEF LongestEnd
        <3> QED  BY <1>1, <1>5, <3>1, <3>2 DEF LongestLink
    <2>5. IdPassed(n)'
        <3>1. a + 1 # 1 => a # Root  BY DEF Root
        <3>2. nn[n].id = None /\ a # Root => nn[a + 1].id = None  BY <2>1, <2>3
        <3> QED  BY <1>7, <2>1, <3>1, <3>2 DEF IdPassed, Link
    <2>6. Linked(n)'  BY <2>4, <2>5 DEF Linked
    <2>7. Len(path[n]) <= D + 1  BY <1>3, <2>2
    <2> QED  BY <1>10, <2>6, <2>7
<1>12. ASSUME NEW n \in Inner, ~IsChild(f, n), Reached(n) PROVE Reached(n)'
    <2>1. Len(path[n]) <= D + 1
        <3>1. 1 \in 1 .. Len(que) /\ que[1] = f  BY <1>0, <1>1, EmptySeq DEF BuildInv
        <3>2. Len(path[n]) <= Depth(que[1]) + 1  BY <1>12, <3>1 DEF Reached
        <3> QED  BY <1>0, <3>1, <3>2 DEF Depth
    <2>2. nn[n] = _node[n] /\ Linked(n)  BY <1>2, <1>4, <1>7, <1>12 DEF Reached
    <2>3. Link(n) \in Positions /\ Len(path[Link(n)]) < Len(path[n])
        <3>1. _node[n].fail_off \in 0 .. Len(_node) - 1 /\ Len(path[_node[n].fail_off + 1]) < Len(path[n])
            BY <1>1 DEF TrieInv, HasLinks, Inner
        <3>2. _node[n].fail_off + 1 \in Positions  BY <1>4, <3>1 DEF Positions
        <3> QED  BY <3>1, <3>2 DEF Link
    <2>4. nn[Link(n)] = _node[Link(n)]
        <3>1. Len(path[Link(n)]) # D + 1  BY <1>3, <1>4, <2>1, <2>3
        <3> QED  BY <1>2, <1>6, <1>7, <2>3, <3>1
    <2>5. Link(n)' = Link(n)  BY <1>7, <2>2 DEF Link
    <2>6. LongestLink(n)'  BY <1>1, <1>5, <2>2, <2>5 DEF Linked, LongestLink
    <2>7. IdPassed(n)'
        <3>1. nn[n].id = None /\ Link(n) # 1 => nn[Link(n)].id = None  BY <2>2, <2>4 DEF Linked, IdPassed
        <3> QED  BY <1>7, <2>5, <3>1 DEF IdPassed
    <2>8. Linked(n)'  BY <2>6, <2>7 DEF Linked
    <2> QED  BY <1>10, <2>1, <2>8
<1>13. ASSUME NEW n \in Inner, NEW i \in 1 .. N, Begins(path[q[i] + 1], path[n]), Len(path[q[i] + 1]) < Len(path[n])
       PROVE  Waits(n)'
    BY <1>1, <1>7, <1>13 DEF Waits, Depth
<1>14. ASSUME NEW n \in Inner, ~IsChild(f, n), Waits(n) PROVE Waits(n)'
    <2>1. PICK k \in 1 .. Len(que) : Begins(path[que[k] + 1], path[n]) /\ Len(path[que[k] + 1]) < Len(path[n])
        BY <1>14 DEF Waits, Depth
    <2>2. CASE k # 1
        <3>1. PICK i \in 1 .. N : q[i] = que[k]  BY <1>3, <1>7, <2>2
        <3> QED  BY <1>13, <2>1, <3>1
    <2>3. CASE k = 1
        <3>1. que[k] = f  BY <1>0, <1>1, <2>3, EmptySeq DEF BuildInv
        <3>2. n \in Positions /\ path[n] \in Seq(Char) /\ Begins(path[f + 1], path[n]) /\ Len(path[f + 1]) < Len(path[n])
            BY <1>4, <2>1, <3>1
        <3>3. PICK c \in Char : Begins(Append(path[f + 1], c), path[n])  BY <1>6, <3>2, BeginsOneMore
        <3>4. PICK w \in Seq(Char) : w = Append(path[f + 1], c)
            <4>1. Append(path[f + 1], c) \in Seq(Char)  BY <1>6, OneMore
            <4> QED  BY <4>1
        <3>5. PICK m \in Positions : path[m] = w
            <4>1. n \in 1 .. Len(_node)  BY <3>2 DEF Positions
            <4>2. \A v \in Seq(Char) : Begins(v, path[n]) => \E m \in 1 .. Len(_node) : path[m] = v
                BY <1>4, <4>1, ChildFacts
            <4> QED  BY <3>3, <3>4, <4>2 DEF Positions
        <3>6. IsChild(f, m)  BY <3>4, <3>5 DEF IsChild
        <3>7. w # path[n]  BY <1>14, <3>4 DEF IsChild
        <3>8. Begins(path[m], path[n]) /\ Len(path[m]) < Len(path[n])
            <4>1. Begins(w, path[n])  BY <3>3, <3>4
            <4>2. Len(w) \in Nat /\ Len(path[n]) \in Nat /\ Len(w) <= Len(path[n]) /\ Len(w) # Len(path[n])
                BY <3>2, <3>7, <4>1, BeginsOfOne
            <4>3. Len(w) < Len(path[n])  BY <4>2
            <4> QED  BY <3>5, <4>1, <4>3
        <3>9. PICK i \in 1 .. N : q[i] + 1 = m  BY <1>3, <1>7, <3>6
        <3> QED  BY <1>13, <3>8, <3>9
    <2> QED  BY <2>2, <2>3
<1>15. \A n \in Inner' : Waits(n)' \/ Reached(n)'
    <2>1. \A n \in Inner : Waits(n) \/ Reached(n)  BY <1>1 DEF BuildInv
    <2> QED  BY <1>5, <1>11, <1>12, <1>14, <2>1
<1>16. BuildInv'
    <2>1. que' \in Seq(0 .. Len(_node') - 1) /\ builds'  BY <1>1, <1>2, <1>3 DEF BuildInv
    <2> QED  BY <1>1, <1>9, <1>15, <2>1 DEF BuildInv
<1>17. SearchInv'
    <2>1. IsTrie(_node, path)'  BY <1>1 DEF TrieInv
    <2>2. text = << >> /\ off = Root /\ ret = {} /\ retOff = {}  BY <1>1 DEF IInv, SearchInv
    <2> QED  BY <1>1, <2>1, <2>2, NoSearch
<1>18. Control'  BY <1>1 DEF IInv, Control
<1> QED  BY <1>1, <1>16, <1>17, <1>18 DEF IInv

-----------------------------------------------------------------------------
(* The theorems.                                                           *)

\* Every step keeps the invariant.
LEMMA NextKeeps ==
    ASSUME IInv, [Next]_vars
    PROVE  IInv'
<1>1. CASE clear  BY <1>1, ClearKeeps
<1>2. CASE \E word \in Words, id \in Ids : insert(word, id)  BY <1>2, InsertKeeps
<1>3. CASE build_automata  BY <1>3, BuildAutomataKeeps
<1>4. CASE LinkChildren  BY <1>4, LinkChildrenKeeps
<1>5. CASE BuildReturns  BY <1>5, BuildReturnsKeeps
<1>6. CASE get_match  BY <1>6, GetMatchKeeps
<1>7. CASE \E c \in Char : ReadChar(c)  BY <1>7, ReadCharKeeps
<1>8. CASE MatchReturns  BY <1>8, MatchReturnsKeeps
<1>9. CASE UNCHANGED vars
    <2>1. /\ UNCHANGED <<_node, path, dict, stale, inserts, que, builds>>
          /\ UNCHANGED <<pc, text, off, ret, retOff>>
        BY <1>9 DEF vars, trie, search
    <2>2. TrieInv' /\ (\A n \in Inner : Linked(n) => Linked(n)') /\ Inner' = Inner
        BY <2>1, TrieStays DEF IInv
    <2>3. ByDepth(que) => ByDepth(que)'  BY <2>1 DEF ByDepth, Depth
    <2>4. \A n \in Inner : (Waits(n) => Waits(n)') /\ (Reached(n) => Reached(n)')
        BY <2>1, <2>2 DEF Waits, Reached, Depth
    <2>5. BuildInv'  BY <2>1, <2>2, <2>3, <2>4 DEF IInv, BuildInv
    <2>6. MatchExact' /\ FirstOffset'
        <3>1. MatchExact /\ FirstOffset  BY DEF IInv, SearchInv
        <3> QED  BY <2>1, <3>1 DEF MatchExact, FirstOffset
    <2>7. SearchInv'  BY <2>1, <2>6 DEF IInv, SearchInv, Positions
    <2>8. Control'  BY <2>1 DEF IInv, Control
    <2> QED  BY <2>2, <2>5, <2>7, <2>8 DEF IInv
<1> QED  BY <1>1, <1>2, <1>3, <1>4, <1>5, <1>6, <1>7, <1>8, <1>9 DEF Next

\* The invariant holds in every reachable state of the automaton (ac.cpp).
THEOREM Invariance == Spec => []IInv
<1>1. Init => IInv  BY InitHolds
<1>2. IInv /\ [Next]_vars => IInv'  BY NextKeeps
<1> QED  BY <1>1, <1>2, PTL DEF Spec

\* Every variable has its type and no offset of a child or a failure link
\* leaves the vector _node, while it grows in insert and while build_automata
\* and get_match follow the links (ac.cpp:15-82).
THEOREM TypeCorrect == Spec => []TypeOK
<1>1. IInv => TypeOK
    <2> SUFFICES ASSUME IInv PROVE TypeOK  OBVIOUS
    <2>1. IsTrie(_node, path) /\ HasLinks(_node, path)  BY DEF IInv, TrieInv
    <2>2. _node \in Seq(Node) /\ Len(path) = Len(_node) /\ Len(_node) \in Nat \ {0}
        BY <2>1, NodeFacts DEF IsTrie
    <2>3. ASSUME NEW n \in 1 .. Len(_node) PROVE _node[n].fail_off < Len(_node)
        <3>1. CASE n = 1  BY <2>1, <2>2, <3>1 DEF HasLinks, None
        <3>2. CASE n # 1
            <4>1. n \in 2 .. Len(_node)  BY <2>2, <3>2
            <4>2. _node[n].fail_off \in 0 .. Len(_node) - 1  BY <2>1, <4>1 DEF HasLinks
            <4> QED  BY <2>2, <4>2
        <3> QED  BY <3>1, <3>2
    <2>4. ASSUME NEW n \in 1 .. Len(_node), NEW c \in Char PROVE _node[n].child[c] < Len(_node)
        <3>1. CASE _node[n].child[c] = None  BY <2>2, <3>1 DEF None
        <3>2. CASE _node[n].child[c] # None
            <4>1. \A m \in 1 .. Len(_node), d \in Char : _node[m].child[d] # None => _node[m].child[d] \in 1 .. Len(_node) - 1
                BY <2>1, ChildFacts
            <4>2. _node[n].child[c] \in 1 .. Len(_node) - 1  BY <3>2, <4>1, Zenon
            <4> QED  BY <2>2, <4>2
        <3> QED  BY <3>1, <3>2
    <2> QED  BY <2>2, <2>3, <2>4 DEF IInv, Control, SearchInv, TypeOK
<1> QED  BY <1>1, Invariance, PTL

\* An end of w that no other is longer than is the longest.
LEMMA LongestIs ==
    ASSUME NEW w \in Seq(Char), NEW T, \A v \in T : v \in Seq(Char) /\ Ends(v, w),
           NEW x \in T, \A v \in T : Len(v) <= Len(x)
    PROVE  Longest(T) = x
<1>1. PICK y \in T : y = Longest(T) /\ \A v \in T : Len(v) <= Len(y)  BY DEF Longest
<1>2. Len(x) \in Nat /\ Len(y) \in Nat /\ Len(x) <= Len(y) /\ Len(y) <= Len(x)  BY <1>1
<1>3. Len(x) = Len(y)  BY <1>2
<1>4. Ends(y, x)  BY <1>1, <1>2, EndsOfOne
<1>5. y = x  BY <1>1, <1>3, <1>4, EndsOfOne
<1> QED  BY <1>1, <1>5

\* build_automata gives every node the longest proper suffix of its word that
\* the trie has, however far away the link is found and whatever an earlier
\* build left, and get_match is at the longest suffix of what it has read
\* (ac.cpp:29-75).
THEOREM LinksAreLongest == Spec => []LongestSuffixes
<1>1. IInv => LongestSuffixes
    <2> SUFFICES ASSUME IInv PROVE LongestSuffixes  OBVIOUS
    <2>1. /\ Len(path) = Len(_node) /\ (\A n \in Inner : n \in Positions)
          /\ \A n \in Positions : path[n] \in Seq(Char)
        BY NodeFacts DEF IInv, TrieInv, Positions, Inner
    <2>2. ASSUME NEW w \in Seq(Char), NEW v \in SuffixesIn(w)
          PROVE  v \in Seq(Char) /\ Ends(v, w) /\ \E m \in Positions : v = path[m]
        <3>1. v \in Paths /\ IsSuffix(v, w)  BY DEF SuffixesIn
        <3>2. PICK m \in Positions : v = path[m]  BY <2>1, <3>1 DEF Paths, Positions
        <3> QED  BY <2>1, <3>1, <3>2, SuffixEnds
    <2>3. ASSUME NEW w \in Seq(Char), NEW m \in Positions, Ends(path[m], w) PROVE path[m] \in SuffixesIn(w)
        <3>1. IsSuffix(path[m], w)  BY <2>1, <2>3, SuffixEnds
        <3>2. path[m] \in Paths  BY <2>1 DEF Paths, Positions
        <3> QED  BY <3>1, <3>2 DEF SuffixesIn
    <2>4. ASSUME pc \in {"ready", "match"}, NEW n \in Inner
          PROVE  path[_node[n].fail_off + 1] = Longest(SuffixesIn(path[n]) \ {path[n]})
        <3>1. PICK l : l = Link(n)  OBVIOUS
        <3>2. l \in Positions /\ Ends(path[l], path[n]) /\ Len(path[l]) < Len(path[n])
            <4>1. /\ _node[n].fail_off \in 0 .. Len(_node) - 1 /\ Ends(path[_node[n].fail_off + 1], path[n])
                  /\ Len(path[_node[n].fail_off + 1]) < Len(path[n])
                BY DEF IInv, TrieInv, HasLinks, Inner
            <4>2. Len(_node) \in Nat  BY NodeFacts DEF IInv, TrieInv
            <4>3. _node[n].fail_off + 1 \in Positions  BY <4>1, <4>2 DEF Positions
            <4> QED  BY <3>1, <4>1, <4>3 DEF Link
        <3>3. LongestLink(n)  BY <2>4 DEF IInv, BuildInv, Linked
        <3>4. PICK T : T = SuffixesIn(path[n]) \ {path[n]}  OBVIOUS
        <3>5. path[n] \in Seq(Char) /\ Len(path[n]) \in Nat /\ Len(path[l]) \in Nat  BY <2>1, <3>2
        <3>6. \A v \in T : v \in Seq(Char) /\ Ends(v, path[n])  BY <2>2, <3>4, <3>5
        <3>7. path[l] \in T
            <4>1. path[l] # path[n]  BY <3>2, <3>5
            <4> QED  BY <2>3, <3>2, <3>4, <3>5, <4>1
        <3>8. \A v \in T : Len(v) <= Len(path[l])
            BY <2>2, <3>1, <3>3, <3>4, <3>5, <3>6 DEF LongestLink
        <3>9. Longest(T) = path[l]  BY <3>5, <3>6, <3>7, <3>8, LongestIs
        <3> QED  BY <3>1, <3>4, <3>9 DEF Link
    <2>5. ASSUME pc = "match" PROVE path[off + 1] = Longest(SuffixesIn(text))
        <3>1. /\ text \in Seq(Char) /\ off \in 0 .. Len(_node) - 1 /\ Ends(path[off + 1], text)
              /\ \A m \in Positions : Ends(path[m], text) => Len(path[m]) <= Len(path[off + 1])
            BY <2>5 DEF IInv, SearchInv
        <3>2. off + 1 \in Positions
            <4>1. Len(_node) \in Nat  BY NodeFacts DEF IInv, TrieInv
            <4> QED  BY <3>1, <4>1 DEF Positions
        <3>3. PICK T : T = SuffixesIn(text)  OBVIOUS
        <3>4. \A v \in T : v \in Seq(Char) /\ Ends(v, text)  BY <2>2, <3>1, <3>3
        <3>5. path[off + 1] \in T  BY <2>3, <3>1, <3>2, <3>3
        <3>6. \A v \in T : Len(v) <= Len(path[off + 1])  BY <2>2, <3>1, <3>3, <3>4
        <3> QED  BY <3>1, <3>3, <3>4, <3>5, <3>6, LongestIs
    <2> QED  BY <2>4, <2>5 DEF LongestSuffixes, Inner
<1> QED  BY <1>1, Invariance, PTL

\* get_match has found, after every character, the ids of exactly the words
\* that occur in what it has read, but for ids that were replaced after a build
\* (ac.cpp:65-82).
THEOREM MatchIsExact == Spec => []MatchExact
<1>1. IInv => MatchExact  BY DEF IInv, SearchInv
<1> QED  BY <1>1, Invariance, PTL

\* get_match_off has every id it found once, with the end of the first
\* occurrence of one of its words (rqlib/ac.h).
THEOREM OffsetsAreFirst == Spec => []FirstOffset
<1>1. IInv => FirstOffset  BY DEF IInv, SearchInv
<1> QED  BY <1>1, Invariance, PTL
=============================================================================
