-------------------------- MODULE CoocIndexProofs --------------------------
(***************************************************************************)
(* Proofs about CoocIndex, for every set of hashes, every input and every  *)
(* K: the types, and the invariants that AddCooc, FiltIndex, DumpIndex and *)
(* LoadIndex rely on; then what is counted: the totals and the counts of a *)
(* run are exact (TotalExact, CountsExact), the index implements the       *)
(* counter of module CoocCounter over all runs (CountsWhole), and          *)
(* FiltIndex keeps the most frequent relations of every term               *)
(* (FiltKeepsLeaders); last, that every index on disk is what the server   *)
(* (WordNetServer) and the files one by one (IndexFiles) take it for.      *)
(***************************************************************************)
EXTENDS CoocIndex, NatLemmas, FiniteSetTheorems, TLAPS

\* The weight of a relation is a number.
LEMMA WeightNat == \A rel \in RelateRec : Weight(rel) \in Nat
  BY DEF Weight, RelateRec

-----------------------------------------------------------------------------
(* The order in which the relations are walked.                            *)

\* There are finitely many relations (finitely many terms and hashes).
LEMMA RelationsFinite ==
    ASSUME NEW terms \in Seq(TermRec)
    PROVE  /\ Relations(terms) \subseteq Nat \X Hash
           /\ IsFiniteSet(Relations(terms))
           /\ Cardinality(Relations(terms)) \in Nat
<1>1. Len(terms) \in Nat
  OBVIOUS
<1>2. IsFiniteSet(0 .. Len(terms) - 1)
  BY <1>1, FS_Interval
<1>3. IsFiniteSet((0 .. Len(terms) - 1) \X Hash)
  BY <1>2, FS_Product, HashAssumption
<1>4. Relations(terms) \in SUBSET ((0 .. Len(terms) - 1) \X Hash)
  BY DEF Relations
<1>5. Relations(terms) \subseteq Nat \X Hash
  BY <1>1, <1>4
<1>6. IsFiniteSet(Relations(terms))
  BY <1>3, <1>4, FS_Subset
<1>7. QED
  BY <1>5, <1>6, FS_CardinalityType

\* The rank of a relation is a number below the number of relations.
LEMMA RankType ==
    ASSUME NEW R \in SUBSET (Nat \X Hash), IsFiniteSet(R), NEW r \in R
    PROVE  Rank(R, r) \in 0 .. Cardinality(R) - 1
<1>0. \A q \in R : q[1] \in Nat /\ q[2] \in Nat
  BY HashAssumption
<1> DEFINE B == {s \in R : Precedes(s, r)}
<1>1. ~Precedes(r, r)
  BY <1>0 DEF Precedes
<1>2. B \in SUBSET (R \ {r})
  BY <1>1
<1>3. /\ IsFiniteSet(R \ {r})
      /\ Cardinality(R \ {r}) = Cardinality(R) - 1
  BY FS_RemoveElement
<1>4. IsFiniteSet(B) /\ Cardinality(B) <= Cardinality(R) - 1
  BY <1>2, <1>3, FS_Subset
<1>5. Cardinality(B) \in Nat /\ Cardinality(R) \in Nat
  BY <1>4, FS_CardinalityType
<1>6. QED
  BY <1>4, <1>5 DEF Rank

\* An earlier relation has a smaller rank.
LEMMA RankMonotonic ==
    ASSUME NEW R \in SUBSET (Nat \X Hash), IsFiniteSet(R),
           NEW r \in R, NEW s \in R, Precedes(r, s)
    PROVE  Rank(R, r) < Rank(R, s)
<1>0. \A q \in R : q[1] \in Nat /\ q[2] \in Nat
  BY HashAssumption
<1> DEFINE B(x) == {q \in R : Precedes(q, x)}
<1>1. \A q \in R : Precedes(q, r) => Precedes(q, s)
  BY <1>0 DEF Precedes
<1>2. r \notin B(r) /\ r \in B(s)
  BY <1>0 DEF Precedes
<1>3. IsFiniteSet(B(s)) /\ IsFiniteSet(B(r))
  BY FS_Subset
<1>4. B(r) \in SUBSET B(s)
  BY <1>1
<1>5. Cardinality(B(r)) <= Cardinality(B(s)) /\ Cardinality(B(r)) # Cardinality(B(s))
  BY <1>2, <1>3, <1>4, FS_Subset
<1>6. Cardinality(B(r)) \in Nat /\ Cardinality(B(s)) \in Nat
  BY <1>3, FS_CardinalityType
<1>7. QED
  BY <1>5, <1>6 DEF Rank

\* Two relations have different ranks, and every number has a relation.
LEMMA RankBijective ==
    ASSUME NEW R \in SUBSET (Nat \X Hash), IsFiniteSet(R)
    PROVE  /\ \A r, s \in R : Rank(R, r) = Rank(R, s) => r = s
           /\ \A n \in 0 .. Cardinality(R) - 1 : \E r \in R : Rank(R, r) = n
<1>0. \A q \in R : q[1] \in Nat /\ q[2] \in Nat
  BY HashAssumption
<1>1. \A r, s \in R : r = s \/ Precedes(r, s) \/ Precedes(s, r)
  <2>1. \A r, s \in R : r[1] = s[1] /\ r[2] = s[2] => r = s
    OBVIOUS
  <2>2. QED
    BY <1>0, <2>1 DEF Precedes
<1>2. \A r \in R : Rank(R, r) \in 0 .. Cardinality(R) - 1
  BY RankType
<1>3. ASSUME NEW r \in R, NEW s \in R, Rank(R, r) = Rank(R, s)
      PROVE  r = s
  <2>1. CASE Precedes(r, s)
    BY <2>1, <1>2, <1>3, RankMonotonic
  <2>2. CASE Precedes(s, r)
    BY <2>2, <1>2, <1>3, RankMonotonic
  <2>3. QED
    BY <1>1, <2>1, <2>2
<1> DEFINE N == 0 .. Cardinality(R) - 1
           f == [r \in R |-> Rank(R, r)]
<1>4. Cardinality(R) \in Nat
  BY FS_CardinalityType
<1>5. IsFiniteSet(N) /\ Cardinality(N) = Cardinality(R)
  <2>1. 0 \in Int /\ Cardinality(R) - 1 \in Int
    BY <1>4
  <2>2. /\ IsFiniteSet(N)
        /\ Cardinality(N) = IF 0 > Cardinality(R) - 1 THEN 0
                            ELSE (Cardinality(R) - 1) - 0 + 1
    BY <2>1, FS_Interval
  <2>3. QED
    BY <1>4, <2>2
<1>6. f \in Injection(R, N)
  BY <1>2, <1>3 DEF Injection, IsInjective
<1>7. f \in Surjection(R, N)
  BY <1>5, <1>6, FS_Injection
<1>8. QED
  BY <1>3, <1>7 DEF Surjection
\* InOrder lists the relations, each at its rank.
LEMMA InOrderLists ==
    ASSUME NEW R \in SUBSET (Nat \X Hash), IsFiniteSet(R)
    PROVE  /\ \A n \in 1 .. Cardinality(R) : InOrder(R)[n] \in R /\ Rank(R, InOrder(R)[n]) = n - 1
           /\ \A r \in R : Rank(R, r) + 1 \in 1 .. Cardinality(R) /\ InOrder(R)[Rank(R, r) + 1] = r
<1>0. Cardinality(R) \in Nat
  BY FS_CardinalityType
<1>1. ASSUME NEW n \in 1 .. Cardinality(R)
      PROVE  InOrder(R)[n] \in R /\ Rank(R, InOrder(R)[n]) = n - 1
  <2>1. n - 1 \in 0 .. Cardinality(R) - 1
    BY <1>0
  <2>2. \E r \in R : Rank(R, r) = n - 1
    BY <2>1, RankBijective
  <2>3. InOrder(R)[n] = CHOOSE r \in R : Rank(R, r) = n - 1
    BY DEF InOrder
  <2>4. QED
    BY <2>2, <2>3
<1>2. ASSUME NEW r \in R
      PROVE  Rank(R, r) + 1 \in 1 .. Cardinality(R) /\ InOrder(R)[Rank(R, r) + 1] = r
  <2>1. Rank(R, r) + 1 \in 1 .. Cardinality(R) /\ (Rank(R, r) + 1) - 1 = Rank(R, r)
    BY <1>0, RankType
  <2>2. /\ InOrder(R)[Rank(R, r) + 1] \in R
        /\ Rank(R, InOrder(R)[Rank(R, r) + 1]) = Rank(R, r)
    BY <1>1, <2>1
  <2>3. QED
    BY <2>1, <2>2, RankBijective
<1>3. QED
  BY <1>1, <1>2

-----------------------------------------------------------------------------
(* What a well-typed vector of terms gives.                                *)

\* A relation names a term of the vector, a hash, and a slot number.
LEMMA RelationOf ==
    ASSUME NEW terms \in Seq(TermRec)
    PROVE  /\ \A r \in Relations(terms) :
                  /\ r[1] \in 0 .. Len(terms) - 1
                  /\ r[2] \in Hash
                  /\ r = <<r[1], r[2]>>
                  /\ r[1] + 1 \in 1 .. Len(terms)
                  /\ At(terms, r[1]) \in TermRec
                  /\ At(terms, r[1]).cooc_term[r[2]] # End
                  /\ Slot(terms, r) \in Nat
           /\ \A n \in 0 .. Len(terms) - 1, h \in Hash :
                  /\ <<n, h>> \in Relations(terms) <=> At(terms, n).cooc_term[h] # End
                  /\ Slot(terms, <<n, h>>) = At(terms, n).cooc_term[h]
<1>1. ASSUME NEW r \in Relations(terms)
      PROVE  /\ r[1] \in 0 .. Len(terms) - 1
             /\ r[2] \in Hash
             /\ r = <<r[1], r[2]>>
             /\ r[1] + 1 \in 1 .. Len(terms)
             /\ At(terms, r[1]) \in TermRec
             /\ At(terms, r[1]).cooc_term[r[2]] # End
             /\ Slot(terms, r) \in Nat
  <2>1. /\ r \in (0 .. Len(terms) - 1) \X Hash
        /\ At(terms, r[1]).cooc_term[r[2]] # End
    BY DEF Relations
  <2>2. r[1] \in 0 .. Len(terms) - 1 /\ r[2] \in Hash /\ r = <<r[1], r[2]>>
    BY <2>1
  <2>3. r[1] + 1 \in 1 .. Len(terms)
    BY <2>2
  <2>4. At(terms, r[1]) \in TermRec
    BY <2>3 DEF At
  <2>5. At(terms, r[1]).cooc_term[r[2]] \in Nat \cup {End}
    BY <2>2, <2>4 DEF TermRec, Map
  <2>6. QED
    BY <2>1, <2>2, <2>3, <2>4, <2>5 DEF Slot
<1>2. ASSUME NEW n \in 0 .. Len(terms) - 1, NEW h \in Hash
      PROVE  /\ <<n, h>> \in Relations(terms) <=> At(terms, n).cooc_term[h] # End
             /\ Slot(terms, <<n, h>>) = At(terms, n).cooc_term[h]
  BY DEF Relations, Slot
<1>3. QED
  BY <1>1, <1>2

\* The slots of a set of relations, as a vector.
LEMMA SlotsOfLists ==
    ASSUME NEW terms \in Seq(TermRec), NEW R \in SUBSET Relations(terms)
    PROVE  /\ SlotsOf(terms, R) \in Seq(Nat)
           /\ Len(SlotsOf(terms, R)) = Cardinality(R)
           /\ Cardinality(R) \in Nat
           /\ \A n \in 1 .. Cardinality(R) :
                  /\ InOrder(R)[n] \in R
                  /\ Rank(R, InOrder(R)[n]) = n - 1
                  /\ SlotsOf(terms, R)[n] = Slot(terms, InOrder(R)[n])
<1>1. R \in SUBSET (Nat \X Hash) /\ IsFiniteSet(R)
  BY RelationsFinite, FS_Subset
<1>2. Cardinality(R) \in Nat
  BY <1>1, FS_CardinalityType
<1>3. \A n \in 1 .. Cardinality(R) :
         InOrder(R)[n] \in R /\ Rank(R, InOrder(R)[n]) = n - 1
  BY <1>1, InOrderLists
<1>4. \A n \in 1 .. Cardinality(R) : Slot(terms, InOrder(R)[n]) \in Nat
  BY <1>3, RelationOf
<1>5. QED
  BY <1>2, <1>3, <1>4 DEF SlotsOf

-----------------------------------------------------------------------------
(* Sound indexes.                                                          *)

\* A sound index that loses relations (SortIndex, FiltIndex) stays sound.
LEMMA ShrinkSound ==
    ASSUME NEW index \in Map, NEW terms \in Seq(TermRec), NEW relate \in Seq(RelateRec),
           NEW total \in Totals, NEW less \in Seq(TermRec),
           Sound(index, terms, relate, total),
           Len(less) = Len(terms),
           Counted(less),
           \A n \in 1 .. Len(terms) :
               /\ less[n].df_now = terms[n].df_now
               /\ less[n].df_history = terms[n].df_history
               /\ \A h \in Hash : less[n].cooc_term[h] \in {End, terms[n].cooc_term[h]}
    PROVE  Sound(index, less, relate, total)
<1>1. ASSUME NEW r \in Relations(less)
      PROVE  r \in Relations(terms) /\ Slot(less, r) = Slot(terms, r)
  <2>1. /\ r[1] \in 0 .. Len(less) - 1 /\ r[2] \in Hash /\ r = <<r[1], r[2]>>
        /\ r[1] + 1 \in 1 .. Len(terms)
        /\ At(less, r[1]).cooc_term[r[2]] # End
    BY RelationOf
  <2>2. At(less, r[1]).cooc_term[r[2]] = At(terms, r[1]).cooc_term[r[2]]
    BY <2>1 DEF At
  <2>3. QED
    BY <2>1, <2>2 DEF Relations, Slot
<1>2. SlotsOK(less, relate)
  BY <1>1 DEF Sound, SlotsOK
<1>3. Closed(index, less, total)
  BY <1>1 DEF Sound, Closed
<1>4. Live(less, relate)
  BY <1>1 DEF Sound, Live
<1>5. WithinDf(index, less, relate)
  <2> SUFFICES ASSUME NEW r \in Relations(less)
               PROVE  \A term \in {At(less, r[1]), At(less, index[r[2]])} :
                         /\ At(relate, Slot(less, r)).num_now <= term.df_now
                         /\ At(relate, Slot(less, r)).num_history <= term.df_history
    BY DEF WithinDf
  <2>1. /\ r \in Relations(terms)
        /\ r[1] + 1 \in 1 .. Len(terms) /\ r[2] \in Hash
    BY <1>1, RelationOf
  <2>2. index[r[2]] < Len(terms) /\ index[r[2]] \in Nat
    BY <2>1 DEF Sound, Closed, Keys, Map
  <2>3. index[r[2]] + 1 \in 1 .. Len(terms)
    BY <2>2
  <2>4. \A term \in {At(terms, r[1]), At(terms, index[r[2]])} :
           /\ At(relate, Slot(terms, r)).num_now <= term.df_now
           /\ At(relate, Slot(terms, r)).num_history <= term.df_history
    BY <2>1 DEF Sound, WithinDf
  <2>5. /\ At(less, r[1]).df_now = At(terms, r[1]).df_now
        /\ At(less, r[1]).df_history = At(terms, r[1]).df_history
        /\ At(less, index[r[2]]).df_now = At(terms, index[r[2]]).df_now
        /\ At(less, index[r[2]]).df_history = At(terms, index[r[2]]).df_history
    BY <2>1, <2>3 DEF At
  <2>6. Slot(less, r) = Slot(terms, r)
    BY <1>1
  <2>7. QED
    BY <2>4, <2>5, <2>6
<1>6. QED
  BY <1>2, <1>3, <1>4, <1>5 DEF Sound

\* What Without does to one term.
LEMMA WithoutTerm ==
    ASSUME NEW term \in TermRec, NEW gone
    PROVE  /\ Without(term, gone) \in TermRec
           /\ Without(term, gone).df_now = term.df_now
           /\ Without(term, gone).df_history = term.df_history
           /\ \A h \in Hash : Without(term, gone).cooc_term[h]
                                  = IF h \in gone THEN End ELSE term.cooc_term[h]
           /\ Without(term, gone).relate_term_num
                  = Cardinality(Keys(Without(term, gone).cooc_term))
<1> DEFINE w == Without(term, gone)
           left == Keys(term.cooc_term) \ gone
<1>1. left \in SUBSET Hash
  BY DEF Keys
<1>2. Cardinality(left) \in Nat
  BY <1>1, HashAssumption, FS_Subset, FS_CardinalityType
<1>3. term.cooc_term \in [Hash -> Nat \cup {End}]
  BY DEF TermRec, Map
<1>4. /\ w.cooc_term = [h \in Hash |-> IF h \in gone THEN End ELSE term.cooc_term[h]]
      /\ w.relate_term_num = Cardinality(left)
      /\ w.df_now = term.df_now
      /\ w.df_history = term.df_history
  BY DEF Without, TermRec
<1>5. Keys(w.cooc_term) = left
  BY <1>4 DEF Keys
<1>6. w \in TermRec
  <2>1. [h \in Hash |-> IF h \in gone THEN End ELSE term.cooc_term[h]] \in Map
    BY <1>3 DEF Map
  <2>2. QED
    BY <1>2, <2>1 DEF Without, TermRec
<1>7. QED
  BY <1>4, <1>5, <1>6

\* DumpIndex: the new numbers keep the relations and are the positions of
\* their counts in the file.
LEMMA DumpedRelations ==
    ASSUME NEW terms \in Seq(TermRec), NEW relate \in Seq(RelateRec), SlotsOK(terms, relate)
    PROVE  /\ Renumbered(terms) \in Seq(TermRec)
           /\ Len(Renumbered(terms)) = Len(terms)
           /\ \A n \in 1 .. Len(terms) :
                 /\ Renumbered(terms)[n].df_now = terms[n].df_now
                 /\ Renumbered(terms)[n].df_history = terms[n].df_history
                 /\ Renumbered(terms)[n].relate_term_num = terms[n].relate_term_num
                 /\ Keys(Renumbered(terms)[n].cooc_term) = Keys(terms[n].cooc_term)
           /\ Relations(Renumbered(terms)) = Relations(terms)
           /\ Written(terms, relate) \in Seq(RelateRec)
           /\ Len(Written(terms, relate)) = Cardinality(Relations(terms))
           /\ \A r \in Relations(terms) :
                 /\ Slot(Renumbered(terms), r) = Rank(Relations(terms), r)
                 /\ Slot(Renumbered(terms), r) < Cardinality(Relations(terms))
                 /\ At(Written(terms, relate), Slot(Renumbered(terms), r))
                       = At(relate, Slot(terms, r))
<1> DEFINE R == Relations(terms)
           S == SlotsOf(terms, R)
           num(n) == [h \in Hash |-> IF terms[n].cooc_term[h] = End THEN End
                                     ELSE Rank(R, <<n - 1, h>>)]
           new(n) == [terms[n] EXCEPT !.cooc_term = num(n)]
<1>1. R \in SUBSET (Nat \X Hash) /\ IsFiniteSet(R) /\ Cardinality(R) \in Nat
  BY RelationsFinite
<1>2. \A r \in R : Rank(R, r) \in Nat /\ Rank(R, r) < Cardinality(R)
  BY <1>1, RankType
<1>3. ASSUME NEW n \in 1 .. Len(terms)
      PROVE  /\ new(n) \in TermRec
             /\ new(n).df_now = terms[n].df_now
             /\ new(n).df_history = terms[n].df_history
             /\ new(n).relate_term_num = terms[n].relate_term_num
             /\ new(n).cooc_term = num(n)
             /\ Keys(num(n)) = Keys(terms[n].cooc_term)
  <2>1. terms[n] \in TermRec
    OBVIOUS
  <2>2. \A h \in Hash : terms[n].cooc_term[h] # End => <<n - 1, h>> \in R
    <3>1. n - 1 \in 0 .. Len(terms) - 1 /\ (n - 1) + 1 = n
      OBVIOUS
    <3>2. QED
      BY <3>1, RelationOf DEF At
  <2>3. num(n) \in Map
    BY <1>2, <2>2 DEF Map
  <2>4. Keys(num(n)) = Keys(terms[n].cooc_term)
    BY <1>2, <2>2 DEF Keys, End
  <2>5. QED
    BY <2>1, <2>3, <2>4 DEF TermRec
<1>4. Renumbered(terms) = [n \in 1 .. Len(terms) |-> new(n)]
  BY DEF Renumbered
<1>5. Renumbered(terms) \in Seq(TermRec) /\ Len(Renumbered(terms)) = Len(terms)
  <2>1. \A n \in 1 .. Len(terms) : new(n) \in TermRec
    BY <1>3
  <2> HIDE DEF new
  <2>2. QED
    BY <1>4, <2>1
<1>6. ASSUME NEW n \in 0 .. Len(terms) - 1, NEW h \in Hash
      PROVE  /\ At(Renumbered(terms), n).cooc_term[h] # End <=> At(terms, n).cooc_term[h] # End
             /\ At(terms, n).cooc_term[h] # End =>
                   At(Renumbered(terms), n).cooc_term[h] = Rank(R, <<n, h>>)
  <2>1. n + 1 \in 1 .. Len(terms) /\ (n + 1) - 1 = n
    OBVIOUS
  <2>2. At(Renumbered(terms), n).cooc_term = num(n + 1)
    BY <1>3, <1>4, <2>1 DEF At
  <2>3. At(terms, n).cooc_term[h] # End => <<n, h>> \in R
    BY RelationOf
  <2>4. QED
    BY <1>2, <2>1, <2>2, <2>3 DEF At, End
<1>7. Relations(Renumbered(terms)) = R
  BY <1>5, <1>6 DEF Relations
<1>8. \A r \in R : Slot(Renumbered(terms), r) = Rank(R, r)
  BY <1>6, RelationOf DEF Slot
<1>9. /\ \A n \in 1 .. Cardinality(R) : InOrder(R)[n] \in R /\ S[n] = Slot(terms, InOrder(R)[n])
      /\ Len(S) = Cardinality(R)
  BY SlotsOfLists
<1>10. \A n \in 1 .. Cardinality(R) : At(relate, S[n]) \in RelateRec
  <2>1. \A r \in R : Slot(terms, r) \in Nat /\ Slot(terms, r) < Len(relate)
    BY RelationOf DEF SlotsOK
  <2>2. \A k \in Nat : k < Len(relate) => At(relate, k) \in RelateRec
    BY DEF At
  <2>3. QED
    BY <1>9, <2>1, <2>2
<1>11. Written(terms, relate) = [n \in 1 .. Cardinality(R) |-> At(relate, S[n])]
  BY DEF Written
<1>12. Written(terms, relate) \in Seq(RelateRec) /\ Len(Written(terms, relate)) = Cardinality(R)
  BY <1>1, <1>10, <1>11
<1>13. ASSUME NEW r \in R
       PROVE  At(Written(terms, relate), Rank(R, r)) = At(relate, Slot(terms, r))
  <2>1. Rank(R, r) + 1 \in 1 .. Cardinality(R) /\ InOrder(R)[Rank(R, r) + 1] = r
    BY <1>1, InOrderLists
  <2>2. S[Rank(R, r) + 1] = Slot(terms, r)
    BY <1>9, <2>1
  <2>3. QED
    BY <1>11, <2>1, <2>2 DEF At
<1>14. QED
  BY <1>2, <1>3, <1>4, <1>5, <1>7, <1>8, <1>12, <1>13

\* The files that DumpIndex writes from a sound index hold a sound index.
LEMMA DumpSound ==
    ASSUME NEW index \in Map, NEW terms \in Seq(TermRec), NEW relate \in Seq(RelateRec),
           NEW total \in Totals, Sound(index, terms, relate, total)
    PROVE  Sound(index, Renumbered(terms), Written(terms, relate),
                 [total EXCEPT !.sorted_relate_term_num = Cardinality(Relations(terms))])
<1> DEFINE new == Renumbered(terms)
           file == Written(terms, relate)
           R == Relations(terms)
           tot == [total EXCEPT !.sorted_relate_term_num = Cardinality(R)]
<1>1. SlotsOK(terms, relate) /\ Closed(index, terms, total) /\ Counted(terms)
      /\ WithinDf(index, terms, relate) /\ Live(terms, relate)
  BY DEF Sound
<1>2. /\ new \in Seq(TermRec)
      /\ Len(new) = Len(terms)
      /\ \A n \in 1 .. Len(terms) :
            /\ new[n].df_now = terms[n].df_now
            /\ new[n].df_history = terms[n].df_history
            /\ new[n].relate_term_num = terms[n].relate_term_num
            /\ Keys(new[n].cooc_term) = Keys(terms[n].cooc_term)
      /\ Relations(new) = R
      /\ Len(file) = Cardinality(R)
      /\ \A r \in R : /\ Slot(new, r) = Rank(R, r)
                      /\ Slot(new, r) < Cardinality(R)
                      /\ At(file, Slot(new, r)) = At(relate, Slot(terms, r))
  BY <1>1, DumpedRelations
<1> HIDE DEF new, file
<1>3. SlotsOK(new, file)
  <2>1. R \in SUBSET (Nat \X Hash) /\ IsFiniteSet(R)
    BY RelationsFinite
  <2>2. \A r, s \in R : Rank(R, r) = Rank(R, s) => r = s
    BY <2>1, RankBijective
  <2>3. QED
    BY <1>2, <2>2 DEF SlotsOK
<1>4. Closed(index, new, tot)
  <2>1. tot.term_num = total.term_num
    BY DEF Totals
  <2>2. QED
    BY <1>1, <1>2, <2>1 DEF Closed
<1>5. Counted(new)
  BY <1>1, <1>2 DEF Counted
<1>6. Live(new, file)
  BY <1>1, <1>2 DEF Live
<1>7. WithinDf(index, new, file)
  <2> SUFFICES ASSUME NEW r \in R
               PROVE  \A term \in {At(new, r[1]), At(new, index[r[2]])} :
                         /\ At(file, Slot(new, r)).num_now <= term.df_now
                         /\ At(file, Slot(new, r)).num_history <= term.df_history
    BY <1>2 DEF WithinDf
  <2>1. r[1] + 1 \in 1 .. Len(terms) /\ r[2] \in Hash
    BY RelationOf
  <2>2. index[r[2]] < Len(terms) /\ index[r[2]] \in Nat
    BY <1>1, <2>1 DEF Closed, Keys, Map
  <2>3. index[r[2]] + 1 \in 1 .. Len(terms)
    BY <2>2
  <2>4. \A term \in {At(terms, r[1]), At(terms, index[r[2]])} :
           /\ At(relate, Slot(terms, r)).num_now <= term.df_now
           /\ At(relate, Slot(terms, r)).num_history <= term.df_history
    BY <1>1 DEF WithinDf
  <2>5. /\ At(new, r[1]).df_now = At(terms, r[1]).df_now
        /\ At(new, r[1]).df_history = At(terms, r[1]).df_history
        /\ At(new, index[r[2]]).df_now = At(terms, index[r[2]]).df_now
        /\ At(new, index[r[2]]).df_history = At(terms, index[r[2]]).df_history
    BY <1>2, <2>1, <2>3 DEF At
  <2>6. QED
    BY <1>2, <2>4, <2>5
<1>8. QED
  BY <1>3, <1>4, <1>5, <1>6, <1>7 DEF Sound, new, file

\* LoadIndex: what it puts in memory.
MergedTerms(terms) == [n \in 1 .. Len(terms) |-> MergeTerm(terms[n])]
MergedRelate(relate) == [n \in 1 .. Len(relate) |-> MergeRelation(relate[n])]

\* What LoadIndex merges keeps its type.
LEMMA MergeTypes ==
    ASSUME NEW terms \in Seq(TermRec), NEW relate \in Seq(RelateRec)
    PROVE  /\ MergedTerms(terms) \in Seq(TermRec)
           /\ Len(MergedTerms(terms)) = Len(terms)
           /\ \A n \in 1 .. Len(terms) :
                 /\ MergedTerms(terms)[n].df_now = 0
                 /\ MergedTerms(terms)[n].df_history = terms[n].df_history + terms[n].df_now
                 /\ MergedTerms(terms)[n].relate_term_num = terms[n].relate_term_num
                 /\ MergedTerms(terms)[n].cooc_term = terms[n].cooc_term
           /\ MergedRelate(relate) \in Seq(RelateRec)
           /\ Len(MergedRelate(relate)) = Len(relate)
           /\ \A n \in 1 .. Len(relate) :
                 /\ MergedRelate(relate)[n].num_now = 0
                 /\ MergedRelate(relate)[n].num_history = Weight(relate[n])
<1>1. \A t \in TermRec : /\ MergeTerm(t) \in TermRec
                         /\ MergeTerm(t).df_now = 0
                         /\ MergeTerm(t).df_history = t.df_history + t.df_now
                         /\ MergeTerm(t).relate_term_num = t.relate_term_num
                         /\ MergeTerm(t).cooc_term = t.cooc_term
  <2> TAKE t \in TermRec
  <2>1. t.df_history + t.df_now \in Nat
    BY DEF TermRec
  <2>2. QED
    BY <2>1 DEF MergeTerm, TermRec
<1>2. \A c \in RelateRec : /\ MergeRelation(c) \in RelateRec
                           /\ MergeRelation(c).num_now = 0
                           /\ MergeRelation(c).num_history = Weight(c)
  BY DEF MergeRelation, RelateRec, Weight
<1>3. \A n \in 1 .. Len(terms) : terms[n] \in TermRec
  OBVIOUS
<1>4. \A n \in 1 .. Len(relate) : relate[n] \in RelateRec
  OBVIOUS
<1>5. MergedTerms(terms) \in Seq(TermRec) /\ Len(MergedTerms(terms)) = Len(terms)
  BY <1>1, <1>3 DEF MergedTerms
<1>6. MergedRelate(relate) \in Seq(RelateRec) /\ Len(MergedRelate(relate)) = Len(relate)
  BY <1>2, <1>4 DEF MergedRelate
<1>7. QED
  BY <1>1, <1>2, <1>3, <1>4, <1>5, <1>6 DEF MergedTerms, MergedRelate

\* A sound index read from the files is sound after the merge.
LEMMA MergeSound ==
    ASSUME NEW index \in Map, NEW terms \in Seq(TermRec), NEW relate \in Seq(RelateRec),
           NEW total \in Totals, Sound(index, terms, relate, total)
    PROVE  Sound(index, MergedTerms(terms), MergedRelate(relate), Patched(total))
<1> DEFINE new == MergedTerms(terms)
           rel == MergedRelate(relate)
<1>1. SlotsOK(terms, relate) /\ Closed(index, terms, total) /\ Counted(terms)
      /\ WithinDf(index, terms, relate) /\ Live(terms, relate)
  BY DEF Sound
<1>2. /\ new \in Seq(TermRec)
      /\ Len(new) = Len(terms)
      /\ \A n \in 1 .. Len(terms) :
            /\ new[n].df_now = 0
            /\ new[n].df_history = terms[n].df_history + terms[n].df_now
            /\ new[n].relate_term_num = terms[n].relate_term_num
            /\ new[n].cooc_term = terms[n].cooc_term
      /\ rel \in Seq(RelateRec)
      /\ Len(rel) = Len(relate)
      /\ \A n \in 1 .. Len(relate) : /\ rel[n].num_now = 0
                                     /\ rel[n].num_history = Weight(relate[n])
  BY MergeTypes
<1> HIDE DEF new, rel
<1>3. \A n \in 0 .. Len(terms) - 1 : At(new, n).cooc_term = At(terms, n).cooc_term
  BY <1>2 DEF At
<1>4. Relations(new) = Relations(terms)
  BY <1>2, <1>3 DEF Relations
<1>5. \A r \in Relations(terms) : Slot(new, r) = Slot(terms, r)
  BY <1>3, RelationOf DEF Slot
<1>6. \A r \in Relations(terms) :
         /\ Slot(terms, r) + 1 \in 1 .. Len(relate)
         /\ At(rel, Slot(terms, r)).num_now = 0
         /\ At(rel, Slot(terms, r)).num_history = Weight(At(relate, Slot(terms, r)))
         /\ At(relate, Slot(terms, r)) \in RelateRec
  <2>1. \A r \in Relations(terms) : Slot(terms, r) \in Nat /\ Slot(terms, r) < Len(relate)
    BY <1>1, RelationOf DEF SlotsOK
  <2>2. \A r \in Relations(terms) : Slot(terms, r) + 1 \in 1 .. Len(relate)
    BY <2>1
  <2>3. QED
    BY <1>2, <2>2 DEF At
<1>7. SlotsOK(new, rel)
  BY <1>1, <1>2, <1>4, <1>5 DEF SlotsOK
<1>8. Closed(index, new, Patched(total))
  <2>1. Patched(total).term_num = total.term_num
    BY DEF Patched, Totals
  <2>2. QED
    BY <1>1, <1>2, <1>4, <2>1 DEF Closed
<1>9. Counted(new)
  BY <1>1, <1>2 DEF Counted
<1>10. Live(new, rel)
  <2>1. \A r \in Relations(terms) :
           Weight(At(rel, Slot(terms, r))) = Weight(At(relate, Slot(terms, r)))
    BY <1>6 DEF Weight, RelateRec
  <2>2. QED
    BY <1>1, <1>4, <1>5, <2>1 DEF Live
<1>11. WithinDf(index, new, rel)
  <2> SUFFICES ASSUME NEW r \in Relations(terms)
               PROVE  \A term \in {At(new, r[1]), At(new, index[r[2]])} :
                         /\ At(rel, Slot(terms, r)).num_now <= term.df_now
                         /\ At(rel, Slot(terms, r)).num_history <= term.df_history
    BY <1>4, <1>5 DEF WithinDf
  <2>1. r[1] + 1 \in 1 .. Len(terms) /\ r[2] \in Hash
    BY RelationOf
  <2>2. index[r[2]] < Len(terms) /\ index[r[2]] \in Nat
    BY <1>1, <2>1 DEF Closed, Keys, Map
  <2>3. index[r[2]] + 1 \in 1 .. Len(terms)
    BY <2>2
  <2> DEFINE c == At(relate, Slot(terms, r))
  <2>4. \A n \in {r[1] + 1, index[r[2]] + 1} :
           /\ terms[n] \in TermRec
           /\ c.num_now <= terms[n].df_now
           /\ c.num_history <= terms[n].df_history
           /\ new[n].df_now = 0
           /\ new[n].df_history = terms[n].df_history + terms[n].df_now
    BY <1>1, <1>2, <2>1, <2>3 DEF WithinDf, At
  <2>5. c \in RelateRec
        /\ At(rel, Slot(terms, r)).num_now = 0
        /\ At(rel, Slot(terms, r)).num_history = c.num_history + c.num_now
    BY <1>6 DEF Weight
  <2> HIDE DEF c
  <2>6. \A n \in {r[1] + 1, index[r[2]] + 1} :
           /\ At(rel, Slot(terms, r)).num_now <= new[n].df_now
           /\ At(rel, Slot(terms, r)).num_history <= new[n].df_history
    <3> TAKE n \in {r[1] + 1, index[r[2]] + 1}
    <3>1. c.num_now \in Nat /\ c.num_history \in Nat
      BY <2>5 DEF RelateRec
    <3>2. terms[n].df_now \in Nat /\ terms[n].df_history \in Nat
      BY <2>4 DEF TermRec
    <3>3. c.num_now <= terms[n].df_now /\ c.num_history <= terms[n].df_history
          /\ new[n].df_now = 0 /\ new[n].df_history = terms[n].df_history + terms[n].df_now
      BY <2>4
    <3>4. QED
      BY <2>5, <3>1, <3>2, <3>3
  <2>7. QED
    BY <2>6 DEF At
<1>12. QED
  BY <1>7, <1>8, <1>9, <1>10, <1>11 DEF Sound, new, rel

-----------------------------------------------------------------------------
(* The invariant holds initially, and again after every exit.              *)

\* An empty index is sound.
LEMMA EmptySound ==
    /\ EmptyMap \in Map
    /\ Relations(<< >>) = {}
    /\ Sound(EmptyMap, << >>, << >>, NoTotals)
<1>1. EmptyMap \in Map /\ Keys(EmptyMap) = {}
  BY DEF EmptyMap, Map, Keys
<1>2. Relations(<< >>) = {}
  BY DEF Relations
<1>3. Sound(EmptyMap, << >>, << >>, NoTotals)
  BY <1>1, <1>2 DEF Sound, SlotsOK, Closed, Counted, WithinDf, Live, NoTotals
<1>4. QED
  BY <1>1, <1>2, <1>3

\* The empty processor with no index files is sound.
LEMMA InitInv == Init => IInv
<1> SUFFICES ASSUME Init PROVE IInv
  OBVIOUS
<1> USE DEF Init
<1>1. TypeOK
  <2>1. NoTotals \in Totals
    BY DEF NoTotals, Totals
  <2>2. EmptyMap \in Map
    BY EmptySound
  <2>3. /\ << >> \in Seq(Hash) /\ << >> \in Seq(TermRec) /\ << >> \in Seq(RelateRec)
        /\ << >> \in Seq(Nat) /\ << >> \in Seq(SUBSET Hash) /\ Len(<< >>) = 0
    OBVIOUS
  <2>4. mNoMemory \in BOOLEAN
    OBVIOUS
  <2>5. pc \in {"idle", "load", "lines", "terms", "cooc", "filt", "dump", "text"}
    OBVIOUS
  <2>6. /\ i \in 0 .. Len(hash_values) /\ j \in 0 .. Len(hash_values)
        /\ (j = Len(hash_values) => j = 0) /\ runs \in Nat
    BY <2>3
  <2>7. QED
    BY <2>1, <2>2, <2>3, <2>4, <2>5, <2>6 DEF TypeOK
<1>2. LocalsOK
  BY DEF LocalsOK, InLine
<1>3. Sound(mTermIndex, mTermInfo, mRelateInfo, m_total_info)
  BY EmptySound
<1>4. NoFreeSlots /\ FreeSlotsOK
  BY DEF NoFreeSlots, FreeSlotsOK
<1>5. RoomForLine
  BY DEF RoomForLine, InLine
<1>6. DfBound
  BY DEF DfBound, Keys, EmptyMap
<1>7. ~output.found /\ ~data.found
  BY DEF NoIndex
<1>8. QED
  BY <1>1, <1>2, <1>3, <1>4, <1>5, <1>6, <1>7 DEF IInv

\* The four ways out of main: only the files survive.
LEMMA ExitInv ==
    ASSUME IInv, Exit,
           output' \in {output, NoIndex}, data' = data
    PROVE  IInv'
<1> USE DEF Exit
<1>1. TypeOK'
  <2>1. NoTotals \in Totals
    BY DEF NoTotals, Totals
  <2>2. EmptyMap \in Map
    BY EmptySound
  <2>3. /\ << >> \in Seq(Hash) /\ << >> \in Seq(TermRec) /\ << >> \in Seq(RelateRec)
        /\ << >> \in Seq(Nat) /\ << >> \in Seq(SUBSET Hash) /\ Len(<< >>) = 0
    OBVIOUS
  <2>4. mNoMemory' \in BOOLEAN
    OBVIOUS
  <2>5. output' \in {NoIndex} \cup Image /\ data' \in {NoIndex} \cup Image
    BY DEF IInv, TypeOK
  <2>6. /\ i' \in 0 .. Len(hash_values') /\ j' \in 0 .. Len(hash_values')
        /\ (j' = Len(hash_values') => j' = 0) /\ runs' \in Nat
    BY <2>3 DEF IInv, TypeOK
  <2>7. QED
    BY <2>1, <2>2, <2>3, <2>4, <2>5, <2>6 DEF TypeOK
<1>2. LocalsOK'
  BY DEF LocalsOK, InLine
<1>3. Sound(mTermIndex', mTermInfo', mRelateInfo', m_total_info')
  BY EmptySound
<1>4. NoFreeSlots' /\ FreeSlotsOK'
  BY DEF NoFreeSlots, FreeSlotsOK
<1>5. RoomForLine'
  BY DEF RoomForLine, InLine
<1>6. DfBound'
  BY DEF DfBound, Keys, EmptyMap
<1>7. (output'.found => ImageOK(output')) /\ (data'.found => ImageOK(data'))
  BY DEF IInv, NoIndex
<1>8. QED
  BY <1>1, <1>2, <1>3, <1>4, <1>5, <1>6, <1>7 DEF IInv

-----------------------------------------------------------------------------
(* Steps that leave the index alone.                                       *)

\* Between lines and outside the line loop: start, no history, end of file.
LEMMA QuietInv ==
    ASSUME IInv, ~InLine, UNCHANGED <<memory, locals>>,
           pc' \in {"load", "lines", "filt"}, pc \notin {"dump", "text"},
           UNCHANGED files, weibos' = weibos, runs' \in Nat
    PROVE  IInv'
<1> USE DEF memory, locals, files
<1>1. TypeOK'
  BY DEF IInv, TypeOK
<1>2. LocalsOK'
  BY DEF IInv, LocalsOK, InLine
<1>3. Sound(mTermIndex', mTermInfo', mRelateInfo', m_total_info')
  BY DEF IInv
<1>4. NoFreeSlots' /\ FreeSlotsOK'
  BY DEF IInv, NoFreeSlots, FreeSlotsOK
<1>5. RoomForLine'
  BY DEF RoomForLine, InLine
<1>6. DfBound'
  BY DEF IInv, DfBound, DfNow, InLine
<1>7. (output'.found => ImageOK(output')) /\ (data'.found => ImageOK(data'))
  BY DEF IInv
<1>8. QED
  BY <1>1, <1>2, <1>3, <1>4, <1>5, <1>6, <1>7 DEF IInv

\* A new line brings nothing into the index.
LEMMA ReadLineInv ==
    ASSUME IInv, ReadLine
    PROVE  IInv'
<1> USE DEF ReadLine, memory, files
<1>1. TypeOK'
  BY LinesAssumption DEF IInv, TypeOK
<1>2. LocalsOK'
  BY DEF IInv, LocalsOK, InLine
<1>3. Sound(mTermIndex', mTermInfo', mRelateInfo', m_total_info')
  BY DEF IInv
<1>4. NoFreeSlots' /\ FreeSlotsOK'
  BY DEF IInv, NoFreeSlots, FreeSlotsOK
<1>5. RoomForLine'
  BY DEF RoomForLine, InLine
<1>6. DfBound'
  BY DEF IInv, DfBound, DfNow, InLine
<1>7. (output'.found => ImageOK(output')) /\ (data'.found => ImageOK(data'))
  BY DEF IInv
<1>8. QED
  BY <1>1, <1>2, <1>3, <1>4, <1>5, <1>6, <1>7 DEF IInv

\* A term met twice changes nothing but the rest of the line.
LEMMA TwiceInLineInv ==
    ASSUME IInv, TwiceInLine
    PROVE  IInv'
<1> USE DEF TwiceInLine, memory, files
<1>1. TypeOK'
  BY DEF IInv, TypeOK
<1>2. LocalsOK'
  BY DEF IInv, LocalsOK, InLine
<1>3. Sound(mTermIndex', mTermInfo', mRelateInfo', m_total_info')
  BY DEF IInv
<1>4. NoFreeSlots' /\ FreeSlotsOK'
  BY DEF IInv, NoFreeSlots, FreeSlotsOK
<1>5. RoomForLine'
  BY DEF IInv, RoomForLine, InLine, DfNow
<1>6. DfBound'
  BY DEF IInv, DfBound, DfNow, InLine
<1>7. (output'.found => ImageOK(output')) /\ (data'.found => ImageOK(data'))
  BY DEF IInv
<1>8. QED
  BY <1>1, <1>2, <1>3, <1>4, <1>5, <1>6, <1>7 DEF IInv

\* All terms of the line are recorded; every pair is still ahead.
LEMMA EndOfTermsInv ==
    ASSUME IInv, EndOfTerms
    PROVE  IInv'
<1> USE DEF EndOfTerms, memory, locals, files
<1>1. TypeOK'
  BY DEF IInv, TypeOK
<1>2. LocalsOK'
  BY DEF IInv, LocalsOK, InLine
<1>3. Sound(mTermIndex', mTermInfo', mRelateInfo', m_total_info')
  BY DEF IInv
<1>4. NoFreeSlots' /\ FreeSlotsOK'
  BY DEF IInv, NoFreeSlots, FreeSlotsOK
<1>5. RoomForLine'
  <2>1. InLine /\ InLine' /\ pc = "terms" /\ pc' = "cooc"
    BY DEF InLine
  <2>2. \A p \in 0 .. Len(hash_values) - 1 : At(hash_values, p) \in hmInWeibo
    BY <2>1 DEF IInv, LocalsOK, TypeOK, At
  <2>3. \A r \in Relations(mTermInfo), h \in hmInWeibo :
            (mTermIndex[h] = r[1] \/ h = r[2]) =>
                At(mRelateInfo, Slot(mTermInfo, r)).num_now < DfNow(h)
    BY <2>1 DEF IInv, RoomForLine
  <2>4. ASSUME NEW p \in 0 .. Len(hash_values) - 1, NEW q \in 0 .. Len(hash_values) - 1,
               <<mTermIndex[At(hash_values, p)], At(hash_values, q)>> \in Relations(mTermInfo)
        PROVE  LET r == <<mTermIndex[At(hash_values, p)], At(hash_values, q)>>
               IN  /\ At(mRelateInfo, Slot(mTermInfo, r)).num_now < DfNow(At(hash_values, p))
                   /\ At(mRelateInfo, Slot(mTermInfo, r)).num_now < DfNow(At(hash_values, q))
    BY <2>2, <2>3, <2>4
  <2>5. \A h \in hmInWeibo : DfNow(h) >= 1
    BY <2>1 DEF IInv, RoomForLine
  <2>6. QED
    BY <2>1, <2>4, <2>5 DEF RoomForLine, DfNow
<1>6. DfBound'
  BY DEF IInv, DfBound, DfNow, InLine
<1>7. (output'.found => ImageOK(output')) /\ (data'.found => ImageOK(data'))
  BY DEF IInv
<1>8. QED
  BY <1>1, <1>2, <1>3, <1>4, <1>5, <1>6, <1>7 DEF IInv

-----------------------------------------------------------------------------
(* The end of a line.                                                      *)

\* A slot that belongs to no relation, and other totals, do no harm.
LEMMA GrowSound ==
    ASSUME NEW index \in Map, NEW terms \in Seq(TermRec), NEW relate \in Seq(RelateRec),
           NEW total \in Totals, Sound(index, terms, relate, total),
           NEW more \in Seq(RelateRec), Len(relate) <= Len(more),
           \A n \in 1 .. Len(relate) : more[n] = relate[n],
           NEW tot \in Totals, tot.term_num = total.term_num
    PROVE  Sound(index, terms, more, tot)
<1>1. \A r \in Relations(terms) :
         /\ Slot(terms, r) \in Nat
         /\ Slot(terms, r) < Len(relate)
         /\ At(more, Slot(terms, r)) = At(relate, Slot(terms, r))
  <2>1. \A r \in Relations(terms) : Slot(terms, r) \in Nat /\ Slot(terms, r) < Len(relate)
    BY RelationOf DEF Sound, SlotsOK
  <2>2. \A k \in Nat : k < Len(relate) => At(more, k) = At(relate, k)
    BY DEF At
  <2>3. QED
    BY <2>1, <2>2
<1>2. SlotsOK(terms, more)
  BY <1>1 DEF Sound, SlotsOK
<1>3. WithinDf(index, terms, more)
  BY <1>1 DEF Sound, WithinDf
<1>4. Live(terms, more)
  BY <1>1 DEF Sound, Live
<1>5. QED
  BY <1>2, <1>3, <1>4 DEF Sound, Closed

\* AddCooc returns, with 0 or with -1: the weibo is counted.
LEMMA EndLineInv ==
    ASSUME IInv, pc = "cooc", EndLine(m_total_info),
           UNCHANGED <<mTermIndex, mTermInfo, mRelateIndexSlot>>,
           mRelateInfo' \in {mRelateInfo, Append(mRelateInfo, NewRelation)},
           mNoMemory' \in BOOLEAN
    PROVE  IInv'
<1> USE DEF EndLine, files
<1>1. NewRelation \in RelateRec
  BY DEF NewRelation, RelateRec
<1>2. /\ mRelateInfo' \in Seq(RelateRec)
      /\ Len(mRelateInfo) <= Len(mRelateInfo')
      /\ \A n \in 1 .. Len(mRelateInfo) : mRelateInfo'[n] = mRelateInfo[n]
  <2>1. mRelateInfo \in Seq(RelateRec)
    BY DEF IInv, TypeOK
  <2>2. CASE mRelateInfo' = mRelateInfo
    BY <2>1, <2>2
  <2>3. CASE mRelateInfo' = Append(mRelateInfo, NewRelation)
    BY <1>1, <2>1, <2>3
  <2>4. QED
    BY <2>2, <2>3
<1>3. m_total_info' \in Totals /\ m_total_info'.term_num = m_total_info.term_num
      /\ m_total_info'.weibo_num = m_total_info.weibo_num + 1
  <2>1. m_total_info \in Totals /\ m_total_info.weibo_num + 1 \in Nat
    BY SMTT(30) DEF IInv, TypeOK, Totals
  <2>2. m_total_info' = [m_total_info EXCEPT !.weibo_num = m_total_info.weibo_num + 1]
    OBVIOUS
  <2>3. QED
    BY <2>1, <2>2 DEF Totals
<1>4. TypeOK'
  BY <1>2, <1>3 DEF IInv, TypeOK
<1>5. LocalsOK'
  BY DEF IInv, LocalsOK, InLine
<1>6. Sound(mTermIndex', mTermInfo', mRelateInfo', m_total_info')
  BY <1>2, <1>3, GrowSound DEF IInv, TypeOK
<1>7. NoFreeSlots' /\ FreeSlotsOK'
  BY DEF IInv, NoFreeSlots, FreeSlotsOK
<1>8. RoomForLine'
  BY DEF RoomForLine, InLine
<1>9. DfBound'
  <2> SUFFICES ASSUME NEW h \in Keys(mTermIndex)
               PROVE  At(mTermInfo, mTermIndex[h]).df_history + DfNow(h)
                          <= m_total_info'.weibo_num
    <3>1. ~InLine' /\ m_total_info'.weibo_num \in Nat
      BY <1>3 DEF InLine, Totals
    <3>2. m_total_info'.weibo_num + 0 = m_total_info'.weibo_num
      BY <3>1
    <3>3. QED
      BY <3>1, <3>2 DEF DfBound, DfNow
  <2>1. m_total_info.weibo_num \in Nat
    BY DEF IInv, TypeOK, Totals
  <2>2. mTermIndex[h] \in Nat /\ mTermIndex[h] < Len(mTermInfo)
    BY DEF IInv, Sound, Closed, Keys, TypeOK, Map
  <2>3. At(mTermInfo, mTermIndex[h]) \in TermRec
    BY <2>2, SMTT(30) DEF IInv, TypeOK, At
  <2>4. At(mTermInfo, mTermIndex[h]).df_history \in Nat /\ DfNow(h) \in Nat
    BY <2>3 DEF DfNow, TermRec
  <2>5. \/ At(mTermInfo, mTermIndex[h]).df_history + DfNow(h) <= m_total_info.weibo_num + 1
        \/ At(mTermInfo, mTermIndex[h]).df_history + DfNow(h) <= m_total_info.weibo_num + 0
    BY DEF IInv, DfBound
  <2>6. QED
    BY <1>3, <2>1, <2>4, <2>5
<1>10. (output'.found => ImageOK(output')) /\ (data'.found => ImageOK(data'))
  BY DEF IInv
<1>11. QED
  BY <1>4, <1>5, <1>6, <1>7, <1>8, <1>9, <1>10 DEF IInv

\* In a sound index SortIndex finds no relation to delete: all have been seen.
LEMMA SortFindsNothing ==
    ASSUME NEW terms \in Seq(TermRec), NEW relate \in Seq(RelateRec),
           NEW more \in Seq(RelateRec), Len(relate) <= Len(more),
           \A n \in 1 .. Len(relate) : more[n] = relate[n],
           SlotsOK(terms, relate), Live(terms, relate), Counted(terms)
    PROVE  /\ Rare(terms, more) = {}
           /\ SortedTerms(terms, more) = terms
           /\ SlotsOf(terms, Rare(terms, more)) = << >>
<1>1. \A r \in Relations(terms) : At(more, Slot(terms, r)) = At(relate, Slot(terms, r))
                                  /\ At(relate, Slot(terms, r)) \in RelateRec
  <2>1. \A r \in Relations(terms) : Slot(terms, r) \in Nat /\ Slot(terms, r) < Len(relate)
    BY RelationOf DEF SlotsOK
  <2>2. \A k \in Nat : k < Len(relate) => At(more, k) = At(relate, k) /\ At(relate, k) \in RelateRec
    BY DEF At
  <2>3. QED
    BY <2>1, <2>2
<1>2. Rare(terms, more) = {}
  <2>1. \A r \in Relations(terms) : ~(Weight(At(more, Slot(terms, r))) < 1)
    BY <1>1 DEF Live, Weight, RelateRec
  <2>2. QED
    BY <2>1 DEF Rare, SortThreshold
<1>3. ASSUME NEW n \in 1 .. Len(terms)
      PROVE  Without(terms[n], {h \in Hash : <<n - 1, h>> \in Rare(terms, more)}) = terms[n]
  <2>1. {h \in Hash : <<n - 1, h>> \in Rare(terms, more)} = {}
    BY <1>2
  <2>2. terms[n] \in TermRec
    OBVIOUS
  <2>3. terms[n].cooc_term = [h \in Hash |-> IF h \in {} THEN End ELSE terms[n].cooc_term[h]]
    BY <2>2 DEF TermRec, Map
  <2>4. Keys(terms[n].cooc_term) \ {} = Keys(terms[n].cooc_term)
    OBVIOUS
  <2>5. terms[n].relate_term_num = Cardinality(Keys(terms[n].cooc_term) \ {})
    BY <2>4 DEF Counted
  <2>6. QED
    BY <2>1, <2>2, <2>3, <2>5 DEF Without, TermRec
<1>4. SortedTerms(terms, more) = terms
  <2>1. SortedTerms(terms, more) = [n \in 1 .. Len(terms) |-> terms[n]]
    BY <1>3 DEF SortedTerms
  <2>2. QED
    BY <2>1
<1>5. SlotsOf(terms, {}) = << >>
  <2>1. Cardinality({}) = 0
    BY FS_EmptySet
  <2>2. SlotsOf(terms, {}) \in Seq(Nat) /\ Len(SlotsOf(terms, {})) = 0
    BY <2>1, SlotsOfLists
  <2>3. QED
    BY <2>2
<1>6. QED
  BY <1>2, <1>4, <1>5

\* bad_alloc: SortIndex frees nothing, and AddCooc gives up the line.
LEMMA BadAllocGivesUp ==
    ASSUME IInv, NEW pushed \in BOOLEAN, BadAlloc(pushed)
    PROVE  /\ pc = "cooc"
           /\ EndLine(m_total_info)
           /\ UNCHANGED <<mTermIndex, mTermInfo, mRelateIndexSlot>>
           /\ mRelateInfo' \in {mRelateInfo, Append(mRelateInfo, NewRelation)}
           /\ mNoMemory' = TRUE
<1> DEFINE relate == IF pushed THEN Append(mRelateInfo, NewRelation) ELSE mRelateInfo
<1>1. NewRelation \in RelateRec
  BY DEF NewRelation, RelateRec
<1>2. mTermInfo \in Seq(TermRec) /\ mRelateInfo \in Seq(RelateRec)
  BY DEF IInv, TypeOK
<1>3. /\ relate \in Seq(RelateRec)
      /\ Len(mRelateInfo) <= Len(relate)
      /\ \A n \in 1 .. Len(mRelateInfo) : relate[n] = mRelateInfo[n]
  BY <1>1, <1>2
<1>4. pc = "cooc"
  BY DEF BadAlloc, FirstCooc, AtPair
<1>5. mRelateIndexSlot = << >>
  BY <1>4 DEF IInv, NoFreeSlots
<1>6. AddInOldSlot(SortedTerms(mTermInfo, relate),
                   mRelateIndexSlot \o SlotsOf(mTermInfo, Rare(mTermInfo, relate)))
      /\ mRelateInfo' = relate /\ mNoMemory' = TRUE /\ mTermIndex' = mTermIndex
  BY DEF BadAlloc
<1> HIDE DEF relate
<1>7. SortedTerms(mTermInfo, relate) = mTermInfo
      /\ SlotsOf(mTermInfo, Rare(mTermInfo, relate)) = << >>
  BY <1>2, <1>3, SortFindsNothing DEF IInv, Sound
<1>8. << >> \o << >> = << >>
  OBVIOUS
<1>9. AddInOldSlot(mTermInfo, << >>)
  BY <1>5, <1>6, <1>7, <1>8
<1>10. EndLine(m_total_info) /\ mTermInfo' = mTermInfo /\ mRelateIndexSlot' = << >>
  BY <1>9 DEF AddInOldSlot, GetIndexSlot
<1>11. QED
  BY <1>4, <1>5, <1>6, <1>10 DEF relate

\* Without memory AddCooc gives up at the first new pair.
LEMMA NoMemoryGivesUp ==
    ASSUME IInv, NoMemory
    PROVE  /\ pc = "cooc"
           /\ EndLine(m_total_info)
           /\ UNCHANGED <<mTermIndex, mTermInfo, mRelateIndexSlot, mRelateInfo, mNoMemory>>
<1>1. pc = "cooc"
  BY DEF NoMemory, FirstCooc, AtPair
<1>2. mRelateIndexSlot = << >>
  BY <1>1 DEF IInv, NoFreeSlots
<1>3. AddInOldSlot(mTermInfo, << >>)
  BY <1>2 DEF NoMemory
<1>4. QED
  BY <1>1, <1>2, <1>3 DEF NoMemory, AddInOldSlot, GetIndexSlot

-----------------------------------------------------------------------------
(* AddCooc's walk over the pairs of a line.                                *)

\* While AddCooc runs, every position of the line holds an indexed term, and
\* different positions hold different terms.
LEMMA Positions ==
    ASSUME IInv, pc = "cooc"
    PROVE  /\ \A p \in 0 .. Len(hash_values) - 1 :
                 /\ At(hash_values, p) \in hmInWeibo
                 /\ At(hash_values, p) \in Hash
                 /\ At(hash_values, p) \in Keys(mTermIndex)
                 /\ mTermIndex[At(hash_values, p)] \in 0 .. Len(mTermInfo) - 1
                 /\ mTermIndex[At(hash_values, p)] \in Nat
                 /\ mTermIndex[At(hash_values, p)] < Len(mTermInfo)
           /\ \A p, q \in 0 .. Len(hash_values) - 1 :
                 /\ At(hash_values, p) = At(hash_values, q) => p = q
                 /\ mTermIndex[At(hash_values, p)] = mTermIndex[At(hash_values, q)] => p = q
<1>1. InLine
  BY DEF InLine
<1>2. hash_values \in Seq(Hash) /\ mTermIndex \in Map /\ mTermInfo \in Seq(TermRec)
  BY DEF IInv, TypeOK
<1>3. \A p \in 0 .. Len(hash_values) - 1 : p + 1 \in 1 .. Len(hash_values)
  BY <1>2
<1>4. \A p \in 0 .. Len(hash_values) - 1 :
         /\ At(hash_values, p) \in hmInWeibo
         /\ At(hash_values, p) \in Keys(mTermIndex)
  BY <1>1, <1>3 DEF IInv, LocalsOK, At
<1>5. \A h \in Keys(mTermIndex) :
         /\ h \in Hash
         /\ mTermIndex[h] \in Nat
         /\ mTermIndex[h] < Len(mTermInfo)
         /\ mTermIndex[h] \in 0 .. Len(mTermInfo) - 1
  <2>1. \A h \in Keys(mTermIndex) :
           h \in Hash /\ mTermIndex[h] \in Nat /\ mTermIndex[h] < Len(mTermInfo)
    BY <1>2 DEF IInv, Sound, Closed, Keys, Map
  <2>2. QED
    BY <1>2, <2>1
<1>6. \A p, q \in 0 .. Len(hash_values) - 1 :
         At(hash_values, p) = At(hash_values, q) => p = q
  <2>1. \A p, q \in 0 .. Len(hash_values) - 1 :
           At(hash_values, p) = At(hash_values, q) => p + 1 = q + 1
    BY <1>3 DEF IInv, LocalsOK, At
  <2>2. QED
    BY <1>2, <2>1
<1>7. \A g, h \in Keys(mTermIndex) : mTermIndex[g] = mTermIndex[h] => g = h
  BY DEF IInv, Sound, Closed
<1>8. QED
  BY <1>4, <1>5, <1>6, <1>7

\* A step to the next pair leaves fewer pairs ahead, the present one not
\* among them, and the counters inside the line.
LEMMA NextPairAdvances ==
    ASSUME IInv, pc = "cooc", i < Len(hash_values), NextPair
    PROVE  /\ i \in 0 .. Len(hash_values) - 1
           /\ j \in 0 .. Len(hash_values) - 1
           /\ i' \in 0 .. Len(hash_values) /\ j' \in 0 .. Len(hash_values)
           /\ j' = Len(hash_values) => j' = 0
           /\ \A p, q \in 0 .. Len(hash_values) - 1 :
                 Ahead(p, q)' => Ahead(p, q) /\ <<p, q>> # <<i, j>>
<1>1. /\ Len(hash_values) \in Nat
      /\ i \in 0 .. Len(hash_values)
      /\ j \in 0 .. Len(hash_values)
      /\ j = Len(hash_values) => j = 0
  BY DEF IInv, TypeOK
<1>2. i \in 0 .. Len(hash_values) - 1 /\ j \in 0 .. Len(hash_values) - 1
  BY <1>1
<1>3. /\ i' \in 0 .. Len(hash_values) /\ j' \in 0 .. Len(hash_values)
      /\ j' = Len(hash_values) => j' = 0
  BY <1>1, <1>2 DEF NextPair
<1>4. ASSUME NEW p \in 0 .. Len(hash_values) - 1, NEW q \in 0 .. Len(hash_values) - 1,
             Ahead(p, q)'
      PROVE  Ahead(p, q) /\ (p # i \/ q # j)
  BY <1>1, <1>2, <1>4 DEF Ahead, NextPair
<1>5. QED
  BY <1>2, <1>3, <1>4

\* A pair of a term with itself is passed over.
LEMMA SkipSelfInv ==
    ASSUME IInv, SkipSelf
    PROVE  IInv'
<1> USE DEF SkipSelf, memory, files
<1>0. UNCHANGED <<pc, line, hmInWeibo, hash_values, output, data, runs, weibos>>
  BY DEF NextPair
<1>1. TypeOK'
  BY <1>0, NextPairAdvances DEF IInv, TypeOK
<1>2. LocalsOK'
  BY <1>0 DEF IInv, LocalsOK, InLine
<1>3. Sound(mTermIndex', mTermInfo', mRelateInfo', m_total_info')
  BY DEF IInv
<1>4. NoFreeSlots' /\ FreeSlotsOK'
  BY <1>0 DEF IInv, NoFreeSlots, FreeSlotsOK
<1>5. RoomForLine'
  <2>1. \A h \in hmInWeibo : DfNow(h)' = DfNow(h)
    BY DEF DfNow
  <2>2. pc' = "cooc" /\ InLine /\ InLine'
    BY <1>0 DEF InLine
  <2>3. \A h \in hmInWeibo' : DfNow(h)' >= 1
    BY <1>0, <2>1, <2>2 DEF IInv, RoomForLine
  <2>4. \A p, q \in 0 .. Len(hash_values) - 1 : Ahead(p, q)' => Ahead(p, q)
    BY NextPairAdvances
  <2>5. QED
    BY <1>0, <2>2, <2>3, <2>4 DEF IInv, RoomForLine, DfNow
<1>6. DfBound'
  BY <1>0 DEF IInv, DfBound, DfNow, InLine
<1>7. (output'.found => ImageOK(output')) /\ (data'.found => ImageOK(data'))
  BY <1>0 DEF IInv
<1>8. QED
  BY <1>1, <1>2, <1>3, <1>4, <1>5, <1>6, <1>7 DEF IInv

\* A pair that met before counts once more.  Its relation still has room,
\* and the relation of no other pair of the line is touched.
LEMMA CoocAgainInv ==
    ASSUME IInv, CoocAgain
    PROVE  IInv'
<1> USE DEF files
<1> DEFINE r0 == <<Here, Other>>
           s0 == At(mTermInfo, Here).cooc_term[Other]
           num(r) == At(mRelateInfo, Slot(mTermInfo, r))
<1>0. /\ UNCHANGED <<pc, line, hmInWeibo, hash_values, output, data, runs, weibos>>
      /\ UNCHANGED <<mTermIndex, mTermInfo, mRelateIndexSlot, mNoMemory, m_total_info>>
      /\ pc = "cooc" /\ i < Len(hash_values) /\ i # j /\ NextPair
      /\ s0 # End /\ s0 < Len(mRelateInfo)
      /\ mRelateInfo' = [mRelateInfo EXCEPT ![s0 + 1].num_now = @ + 1]
  BY DEF CoocAgain, AtPair, NextPair
<1>1. /\ mTermIndex \in Map /\ mTermInfo \in Seq(TermRec)
      /\ mRelateInfo \in Seq(RelateRec) /\ m_total_info \in Totals
  BY DEF IInv, TypeOK
<1>2. /\ i \in 0 .. Len(hash_values) - 1 /\ j \in 0 .. Len(hash_values) - 1
      /\ \A p, q \in 0 .. Len(hash_values) - 1 :
            Ahead(p, q)' => Ahead(p, q) /\ <<p, q>> # <<i, j>>
  BY <1>0, NextPairAdvances
<1>3. Here \in 0 .. Len(mTermInfo) - 1 /\ Other \in Hash
  BY <1>0, <1>2, Positions DEF Here, Other
<1>4. r0 \in Relations(mTermInfo) /\ Slot(mTermInfo, r0) = s0 /\ s0 \in Nat
  BY <1>0, <1>1, <1>3, RelationOf
<1>5. \A r \in Relations(mTermInfo) :
         /\ Slot(mTermInfo, r) \in Nat
         /\ Slot(mTermInfo, r) < Len(mRelateInfo)
         /\ Slot(mTermInfo, r) + 1 \in 1 .. Len(mRelateInfo)
         /\ Slot(mTermInfo, r) = s0 => r = r0
  <2>1. \A r \in Relations(mTermInfo) : Slot(mTermInfo, r) \in Nat
    BY <1>1, RelationOf
  <2>2. \A r \in Relations(mTermInfo) :
           /\ Slot(mTermInfo, r) < Len(mRelateInfo)
           /\ Slot(mTermInfo, r) = s0 => r = r0
    BY <1>4 DEF IInv, Sound, SlotsOK
  <2>3. QED
    BY <1>1, <2>1, <2>2
<1>6. mRelateInfo[s0 + 1] \in RelateRec /\ s0 + 1 \in 1 .. Len(mRelateInfo)
  BY <1>0, <1>1, <1>4
<1> DEFINE next == [mRelateInfo[s0 + 1] EXCEPT !.num_now = mRelateInfo[s0 + 1].num_now + 1]
<1>7. /\ next \in RelateRec
      /\ next.num_now = mRelateInfo[s0 + 1].num_now + 1
      /\ next.num_history = mRelateInfo[s0 + 1].num_history
  BY <1>6 DEF RelateRec
<1>8. /\ mRelateInfo' \in Seq(RelateRec) /\ Len(mRelateInfo') = Len(mRelateInfo)
      /\ mRelateInfo'[s0 + 1] = next
      /\ \A n \in 1 .. Len(mRelateInfo) : n # s0 + 1 => mRelateInfo'[n] = mRelateInfo[n]
  <2>1. mRelateInfo' = [mRelateInfo EXCEPT ![s0 + 1] = next]
    BY <1>0
  <2> HIDE DEF next
  <2>2. QED
    BY <1>1, <1>6, <1>7, <2>1
<1> HIDE DEF s0, r0, next
<1>9. \A r \in Relations(mTermInfo) :
         /\ num(r) \in RelateRec
         /\ r # r0 => At(mRelateInfo', Slot(mTermInfo, r)) = num(r)
         /\ At(mRelateInfo', Slot(mTermInfo, r)).num_history = num(r).num_history
         /\ At(mRelateInfo', Slot(mTermInfo, r)).num_now
               = IF r = r0 THEN num(r).num_now + 1 ELSE num(r).num_now
  <2>1. \A r \in Relations(mTermInfo) :
           /\ num(r) \in RelateRec
           /\ r # r0 => At(mRelateInfo', Slot(mTermInfo, r)) = num(r)
    <3>1. \A r \in Relations(mTermInfo) : num(r) \in RelateRec
      BY <1>1, <1>5 DEF At
    <3>2. \A r \in Relations(mTermInfo) : r # r0 => Slot(mTermInfo, r) + 1 # s0 + 1
      BY <1>4, <1>5
    <3>3. QED
      BY <1>5, <1>8, <3>1, <3>2 DEF At
  <2>2. At(mRelateInfo', Slot(mTermInfo, r0)) = next /\ num(r0) = mRelateInfo[s0 + 1]
    BY <1>4, <1>8 DEF At
  <2>3. QED
    BY <1>7, <2>1, <2>2
<1>10. num(r0).num_now < DfNow(At(hash_values, i)) /\ num(r0).num_now < DfNow(Other)
  <2>1. Ahead(i, j)
    BY <1>0, <1>2 DEF Ahead
  <2>2. r0 = <<mTermIndex[At(hash_values, i)], At(hash_values, j)>>
    BY DEF r0, Here, Other
  <2>3. QED
    BY <1>0, <1>2, <1>4, <2>1, <2>2 DEF IInv, RoomForLine, Other
<1>11. TypeOK'
  <2>1. /\ i' \in 0 .. Len(hash_values) /\ j' \in 0 .. Len(hash_values)
        /\ j' = Len(hash_values) => j' = 0
    BY <1>0, NextPairAdvances
  <2>2. QED
    BY <1>0, <1>8, <2>1 DEF IInv, TypeOK
<1>12. LocalsOK'
  BY <1>0 DEF IInv, LocalsOK, InLine
<1>13. Sound(mTermIndex, mTermInfo, mRelateInfo', m_total_info)
  <2>1. SlotsOK(mTermInfo, mRelateInfo')
    BY <1>8 DEF IInv, Sound, SlotsOK
  <2>2. Live(mTermInfo, mRelateInfo')
    <3>1. \A r \in Relations(mTermInfo) : Weight(num(r)) >= 1
      BY DEF IInv, Sound, Live
    <3>2. QED
      BY <1>9, <3>1 DEF Live, Weight, RelateRec
  <2>3. WithinDf(mTermIndex, mTermInfo, mRelateInfo')
    <3> SUFFICES ASSUME NEW r \in Relations(mTermInfo),
                        NEW term \in {At(mTermInfo, r[1]), At(mTermInfo, mTermIndex[r[2]])}
                 PROVE  /\ At(mRelateInfo', Slot(mTermInfo, r)).num_now <= term.df_now
                        /\ At(mRelateInfo', Slot(mTermInfo, r)).num_history <= term.df_history
      BY DEF WithinDf
    <3>1. num(r).num_now <= term.df_now /\ num(r).num_history <= term.df_history
      BY DEF IInv, Sound, WithinDf
    <3>2. CASE r = r0
      <4>1. r[1] = Here /\ r[2] = Other
        BY <3>2 DEF r0
      <4>2. num(r).num_now < term.df_now
        BY <1>10, <3>2, <4>1 DEF DfNow, Here
      <4>3. term.df_now \in Nat
        <5>1. mTermIndex[Other] \in 0 .. Len(mTermInfo) - 1
          BY <1>0, <1>2, Positions DEF Other
        <5>2. Here + 1 \in 1 .. Len(mTermInfo) /\ mTermIndex[Other] + 1 \in 1 .. Len(mTermInfo)
          BY <1>1, <1>3, <5>1
        <5>3. term \in TermRec
          BY <1>1, <4>1, <5>2 DEF At
        <5>4. QED
          BY <5>3 DEF TermRec
      <4>4. num(r).num_now \in Nat
        BY <1>9 DEF RelateRec
      <4>5. num(r).num_now + 1 <= term.df_now
        BY <4>2, <4>3, <4>4
      <4>6. QED
        BY <1>9, <3>1, <3>2, <4>5
    <3>3. CASE r # r0
      BY <1>9, <3>1, <3>3
    <3>4. QED
      BY <3>2, <3>3
  <2>4. QED
    BY <2>1, <2>2, <2>3 DEF IInv, Sound
<1>14. NoFreeSlots' /\ FreeSlotsOK'
  BY <1>0 DEF IInv, NoFreeSlots, FreeSlotsOK
<1>15. RoomForLine'
  <2>1. pc' = "cooc" /\ InLine /\ InLine'
    BY <1>0 DEF InLine
  <2>2. \A h \in hmInWeibo' : DfNow(h)' >= 1
    BY <1>0, <2>1 DEF IInv, RoomForLine, DfNow
  <2>3. ASSUME NEW p \in 0 .. Len(hash_values) - 1, NEW q \in 0 .. Len(hash_values) - 1,
               Ahead(p, q)',
               <<mTermIndex[At(hash_values, p)], At(hash_values, q)>> \in Relations(mTermInfo)
        PROVE  LET r == <<mTermIndex[At(hash_values, p)], At(hash_values, q)>>
               IN  /\ At(mRelateInfo', Slot(mTermInfo, r)).num_now < DfNow(At(hash_values, p))
                   /\ At(mRelateInfo', Slot(mTermInfo, r)).num_now < DfNow(At(hash_values, q))
    <3> DEFINE r == <<mTermIndex[At(hash_values, p)], At(hash_values, q)>>
    <3>1. Ahead(p, q) /\ (p # i \/ q # j)
      BY <1>2, <2>3
    <3>2. r # r0
      <4>1. p = i \/ mTermIndex[At(hash_values, p)] # mTermIndex[At(hash_values, i)]
        BY <1>0, <1>2, Positions
      <4>2. q = j \/ At(hash_values, q) # At(hash_values, j)
        BY <1>0, <1>2, Positions
      <4>3. QED
        BY <3>1, <4>1, <4>2 DEF r0, Here, Other
    <3>3. At(mRelateInfo', Slot(mTermInfo, r)) = num(r)
      BY <1>9, <2>3, <3>2
    <3>4. num(r).num_now < DfNow(At(hash_values, p)) /\ num(r).num_now < DfNow(At(hash_values, q))
      BY <1>0, <2>3, <3>1 DEF IInv, RoomForLine
    <3>5. QED
      BY <3>3, <3>4
  <2>4. QED
    BY <1>0, <2>1, <2>2, <2>3 DEF RoomForLine, DfNow
<1>16. DfBound'
  BY <1>0 DEF IInv, DfBound, DfNow, InLine
<1>17. (output'.found => ImageOK(output')) /\ (data'.found => ImageOK(data'))
  BY <1>0 DEF IInv
<1>18. QED
  BY <1>0, <1>11, <1>12, <1>13, <1>14, <1>15, <1>16, <1>17 DEF IInv

\* A new relation: one more key of one term's cooc_term, and nothing else.
LEMMA LinkedTerms ==
    ASSUME NEW terms \in Seq(TermRec), NEW slot \in Nat,
           Here \in 0 .. Len(terms) - 1, Other \in Hash,
           Counted(terms),
           At(terms, Here).cooc_term[Other] = End
    PROVE  /\ Linked(terms, slot) \in Seq(TermRec)
           /\ Len(Linked(terms, slot)) = Len(terms)
           /\ \A n \in 1 .. Len(terms) :
                 /\ Linked(terms, slot)[n].df_now = terms[n].df_now
                 /\ Linked(terms, slot)[n].df_history = terms[n].df_history
           /\ <<Here, Other>> \notin Relations(terms)
           /\ Relations(Linked(terms, slot)) = Relations(terms) \cup {<<Here, Other>>}
           /\ Slot(Linked(terms, slot), <<Here, Other>>) = slot
           /\ \A r \in Relations(terms) : Slot(Linked(terms, slot), r) = Slot(terms, r)
           /\ Counted(Linked(terms, slot))
<1> DEFINE old == terms[Here + 1]
           map == [old.cooc_term EXCEPT ![Other] = slot]
           new == [old EXCEPT !.cooc_term = map, !.relate_term_num = old.relate_term_num + 1]
           L == Linked(terms, slot)
<1>1. Here + 1 \in 1 .. Len(terms) /\ old \in TermRec /\ (Here + 1) - 1 = Here /\ Here \in Nat
  OBVIOUS
<1>2. old.cooc_term \in [Hash -> Nat \cup {End}] /\ old.relate_term_num \in Nat
  BY <1>1 DEF TermRec, Map
<1>3. /\ map \in Map
      /\ map[Other] = slot
      /\ \A h \in Hash : h # Other => map[h] = old.cooc_term[h]
  BY <1>2 DEF Map
<1>4. /\ new \in TermRec
      /\ new.cooc_term = map
      /\ new.relate_term_num = old.relate_term_num + 1
      /\ new.df_now = old.df_now
      /\ new.df_history = old.df_history
  <2> HIDE DEF map
  <2>1. old.relate_term_num + 1 \in Nat
    BY <1>2
  <2>2. QED
    BY <1>1, <1>3, <2>1 DEF TermRec
<1>5. L = [terms EXCEPT ![Here + 1] = new]
  BY <1>1, <1>2 DEF Linked, TermRec
<1> HIDE DEF new, L
<1>6. /\ L \in Seq(TermRec) /\ Len(L) = Len(terms)
      /\ L[Here + 1] = new
      /\ \A n \in 1 .. Len(terms) : n # Here + 1 => L[n] = terms[n]
  BY <1>1, <1>4, <1>5
<1>7. slot # End /\ old.cooc_term[Other] = End
  BY DEF End, At
<1> HIDE DEF map, old
<1>8. ASSUME NEW n \in 0 .. Len(terms) - 1, NEW h \in Hash
      PROVE  At(L, n).cooc_term[h]
                = IF n = Here /\ h = Other THEN slot ELSE At(terms, n).cooc_term[h]
  <2>1. n + 1 \in 1 .. Len(terms) /\ (n + 1 = Here + 1 => n = Here)
    BY <1>1
  <2>2. QED
    BY <1>3, <1>4, <1>6, <2>1 DEF At, old
<1>9. <<Here, Other>> \notin Relations(terms)
  BY <1>7, RelationOf
<1>10. Relations(L) = Relations(terms) \cup {<<Here, Other>>}
  <2>1. ASSUME NEW n \in 0 .. Len(terms) - 1, NEW h \in Hash
        PROVE  <<n, h>> \in Relations(L) <=> <<n, h>> \in Relations(terms) \cup {<<Here, Other>>}
    <3>1. <<n, h>> \in Relations(L) <=> At(L, n).cooc_term[h] # End
      BY <1>6, RelationOf
    <3>2. <<n, h>> \in Relations(terms) <=> At(terms, n).cooc_term[h] # End
      BY RelationOf
    <3>3. <<n, h>> = <<Here, Other>> <=> n = Here /\ h = Other
      OBVIOUS
    <3>4. QED
      BY <1>7, <1>8, <3>1, <3>2, <3>3
  <2>2. \A r \in Relations(L) : r = <<r[1], r[2]>> /\ r[1] \in 0 .. Len(terms) - 1 /\ r[2] \in Hash
    BY <1>6, RelationOf
  <2>3. \A r \in Relations(terms) : r = <<r[1], r[2]>> /\ r[1] \in 0 .. Len(terms) - 1 /\ r[2] \in Hash
    BY RelationOf
  <2>4. QED
    BY <2>1, <2>2, <2>3
<1>11. Slot(L, <<Here, Other>>) = slot
  <2>1. Slot(L, <<Here, Other>>) = At(L, Here).cooc_term[Other]
    BY <1>6, RelationOf
  <2>2. QED
    BY <1>8, <2>1
<1>12. ASSUME NEW r \in Relations(terms)
       PROVE  Slot(L, r) = Slot(terms, r)
  <2>1. r = <<r[1], r[2]>> /\ r[1] \in 0 .. Len(terms) - 1 /\ r[2] \in Hash
    BY RelationOf
  <2>2. ~(r[1] = Here /\ r[2] = Other)
    BY <1>9, <2>1
  <2>3. QED
    BY <1>8, <2>1, <2>2 DEF Slot
<1>13. Counted(L)
  <2>1. Keys(map) = Keys(old.cooc_term) \cup {Other} /\ Other \notin Keys(old.cooc_term)
    BY <1>3, <1>7 DEF Keys
  <2>2. IsFiniteSet(Keys(old.cooc_term)) /\ Cardinality(Keys(old.cooc_term)) \in Nat
    <3>1. Keys(old.cooc_term) \in SUBSET Hash
      BY DEF Keys
    <3>2. QED
      BY <3>1, HashAssumption, FS_Subset, FS_CardinalityType
  <2>3. Cardinality(Keys(map)) = Cardinality(Keys(old.cooc_term)) + 1
    BY <2>1, <2>2, FS_AddElement
  <2>4. old.relate_term_num = Cardinality(Keys(old.cooc_term))
    BY <1>1 DEF Counted, old
  <2>5. new.relate_term_num = Cardinality(Keys(new.cooc_term))
    BY <1>4, <2>3, <2>4
  <2>6. QED
    BY <1>6, <2>5 DEF Counted
<1>14. \A n \in 1 .. Len(terms) : L[n].df_now = terms[n].df_now /\ L[n].df_history = terms[n].df_history
  BY <1>4, <1>6 DEF old
<1>15. QED
  BY <1>6, <1>9, <1>10, <1>11, <1>12, <1>13, <1>14 DEF L

\* A pair that meets for the first time gets the slot that push_back added.
LEMMA NewCoocInv ==
    ASSUME IInv, NewCooc
    PROVE  IInv'
<1> USE DEF files
<1> DEFINE r0 == <<Here, Other>>
           num(r) == At(mRelateInfo, Slot(mTermInfo, r))
<1>0. /\ UNCHANGED <<pc, line, hmInWeibo, hash_values, output, data, runs, weibos>>
      /\ UNCHANGED <<mTermIndex, mRelateIndexSlot, mNoMemory>>
      /\ pc = "cooc" /\ i < Len(hash_values) /\ i # j /\ NextPair
      /\ At(mTermInfo, Here).cooc_term[Other] = End
      /\ mRelateInfo' = Append(mRelateInfo, NewRelation)
      /\ mTermInfo' = Linked(mTermInfo, Len(mRelateInfo))
      /\ m_total_info' = Related(m_total_info)
  BY DEF NewCooc, FirstCooc, AtPair, NextPair, NextSlot
<1>1. /\ mTermIndex \in Map /\ mTermInfo \in Seq(TermRec)
      /\ mRelateInfo \in Seq(RelateRec) /\ m_total_info \in Totals
      /\ Len(mRelateInfo) \in Nat
  BY DEF IInv, TypeOK
<1>2. /\ i \in 0 .. Len(hash_values) - 1 /\ j \in 0 .. Len(hash_values) - 1
      /\ \A p, q \in 0 .. Len(hash_values) - 1 :
            Ahead(p, q)' => Ahead(p, q) /\ <<p, q>> # <<i, j>>
  BY <1>0, NextPairAdvances
<1>3. /\ Here \in 0 .. Len(mTermInfo) - 1 /\ Other \in Hash /\ Other \in Keys(mTermIndex)
      /\ At(hash_values, i) \in hmInWeibo /\ Other \in hmInWeibo
      /\ mTermIndex[Other] \in 0 .. Len(mTermInfo) - 1 /\ mTermIndex[Other] # Here
  BY <1>0, <1>2, Positions DEF Here, Other
<1>4. Counted(mTermInfo)
  BY DEF IInv, Sound
<1>5. /\ mTermInfo' \in Seq(TermRec)
      /\ Len(mTermInfo') = Len(mTermInfo)
      /\ \A n \in 1 .. Len(mTermInfo) :
            /\ mTermInfo'[n].df_now = mTermInfo[n].df_now
            /\ mTermInfo'[n].df_history = mTermInfo[n].df_history
      /\ r0 \notin Relations(mTermInfo)
      /\ Relations(mTermInfo') = Relations(mTermInfo) \cup {r0}
      /\ Slot(mTermInfo', r0) = Len(mRelateInfo)
      /\ \A r \in Relations(mTermInfo) : Slot(mTermInfo', r) = Slot(mTermInfo, r)
      /\ Counted(mTermInfo')
  BY <1>0, <1>1, <1>3, <1>4, LinkedTerms
<1>6. /\ m_total_info' \in Totals
      /\ m_total_info'.term_num = m_total_info.term_num
      /\ m_total_info'.weibo_num = m_total_info.weibo_num
  <2>1. m_total_info.relate_term_num + 1 \in Nat
    BY <1>1 DEF Totals
  <2>2. QED
    BY <1>0, <1>1, <2>1 DEF Related, Totals
<1>7. /\ NewRelation \in RelateRec /\ NewRelation.num_now = 1 /\ NewRelation.num_history = 0
  BY DEF NewRelation, RelateRec
<1>8. /\ mRelateInfo' \in Seq(RelateRec)
      /\ Len(mRelateInfo') = Len(mRelateInfo) + 1
      /\ mRelateInfo'[Len(mRelateInfo) + 1] = NewRelation
      /\ \A n \in 1 .. Len(mRelateInfo) : mRelateInfo'[n] = mRelateInfo[n]
  BY <1>0, <1>1, <1>7
<1> HIDE DEF r0
<1>9. \A r \in Relations(mTermInfo) :
         /\ Slot(mTermInfo, r) \in Nat /\ Slot(mTermInfo, r) < Len(mRelateInfo)
         /\ At(mRelateInfo', Slot(mTermInfo', r)) = num(r)
  <2>1. \A r \in Relations(mTermInfo) :
           Slot(mTermInfo, r) \in Nat /\ Slot(mTermInfo, r) < Len(mRelateInfo)
    BY <1>1, RelationOf DEF IInv, Sound, SlotsOK
  <2>2. \A k \in Nat : k < Len(mRelateInfo) => At(mRelateInfo', k) = At(mRelateInfo, k)
    BY <1>1, <1>8 DEF At
  <2>3. QED
    BY <1>5, <2>1, <2>2
<1>10. At(mRelateInfo', Slot(mTermInfo', r0)) = NewRelation
  BY <1>5, <1>8 DEF At
<1>11. \A h \in Keys(mTermIndex) :
          /\ mTermIndex[h] \in Nat
          /\ mTermIndex[h] + 1 \in 1 .. Len(mTermInfo)
          /\ DfNow(h) \in Nat /\ At(mTermInfo, mTermIndex[h]).df_history \in Nat
          /\ DfNow(h)' = DfNow(h)
          /\ At(mTermInfo', mTermIndex[h]).df_history = At(mTermInfo, mTermIndex[h]).df_history
  <2>1. \A h \in Keys(mTermIndex) : mTermIndex[h] \in Nat /\ mTermIndex[h] + 1 \in 1 .. Len(mTermInfo)
    <3>1. \A h \in Keys(mTermIndex) : mTermIndex[h] \in Nat /\ mTermIndex[h] < Len(mTermInfo)
      BY <1>1 DEF IInv, Sound, Closed, Keys, Map
    <3>2. QED
      BY <1>1, <3>1
  <2>2. \A h \in Keys(mTermIndex) : At(mTermInfo, mTermIndex[h]) \in TermRec
    BY <1>1, <2>1 DEF At
  <2>3. QED
    BY <1>0, <1>5, <2>1, <2>2 DEF DfNow, At, TermRec
<1>12. TypeOK'
  <2>1. /\ i' \in 0 .. Len(hash_values) /\ j' \in 0 .. Len(hash_values)
        /\ j' = Len(hash_values) => j' = 0
    BY <1>0, NextPairAdvances
  <2>2. QED
    BY <1>0, <1>5, <1>6, <1>8, <2>1 DEF IInv, TypeOK
<1>13. LocalsOK'
  BY <1>0 DEF IInv, LocalsOK, InLine
<1>14. Sound(mTermIndex, mTermInfo', mRelateInfo', m_total_info')
  <2>1. SlotsOK(mTermInfo', mRelateInfo')
    <3>1. \A r, s \in Relations(mTermInfo) : Slot(mTermInfo, r) = Slot(mTermInfo, s) => r = s
      BY DEF IInv, Sound, SlotsOK
    <3>2. \A r \in Relations(mTermInfo') :
             \/ /\ r = r0
                /\ Slot(mTermInfo', r) = Len(mRelateInfo)
             \/ /\ r \in Relations(mTermInfo)
                /\ Slot(mTermInfo', r) = Slot(mTermInfo, r)
                /\ Slot(mTermInfo, r) \in Nat
                /\ Slot(mTermInfo, r) < Len(mRelateInfo)
      BY <1>5, <1>9
    <3>3. QED
      BY <1>1, <1>8, <3>1, <3>2 DEF SlotsOK
  <2>2. Closed(mTermIndex, mTermInfo', m_total_info')
    <3>1. r0[2] \in Keys(mTermIndex) /\ mTermIndex[r0[2]] # r0[1]
      BY <1>3 DEF r0
    <3>2. QED
      BY <1>5, <1>6, <3>1 DEF IInv, Sound, Closed
  <2>3. WithinDf(mTermIndex, mTermInfo', mRelateInfo')
    <3> SUFFICES ASSUME NEW r \in Relations(mTermInfo'),
                        NEW term \in {At(mTermInfo', r[1]), At(mTermInfo', mTermIndex[r[2]])}
                 PROVE  /\ At(mRelateInfo', Slot(mTermInfo', r)).num_now <= term.df_now
                        /\ At(mRelateInfo', Slot(mTermInfo', r)).num_history <= term.df_history
      BY DEF WithinDf
    <3>1. CASE r = r0
      <4>1. r[1] = Here /\ r[2] = Other
        BY <3>1 DEF r0
      <4>2. \A h \in hmInWeibo : DfNow(h) >= 1
        BY <1>0 DEF IInv, RoomForLine, InLine
      <4>3. Here + 1 \in 1 .. Len(mTermInfo) /\ mTermIndex[Other] + 1 \in 1 .. Len(mTermInfo)
        BY <1>1, <1>3
      <4>4. term.df_now >= 1
        BY <1>3, <1>5, <4>1, <4>2, <4>3 DEF DfNow, At, Here
      <4>5. term \in TermRec
        BY <1>5, <4>1, <4>3 DEF At
      <4>6. term.df_history \in Nat /\ term.df_now \in Nat
        BY <4>5 DEF TermRec
      <4>7. QED
        BY <1>7, <1>10, <3>1, <4>4, <4>6
    <3>2. CASE r # r0
      <4>1. r \in Relations(mTermInfo)
        BY <1>5, <3>2
      <4>2. \A t \in {At(mTermInfo, r[1]), At(mTermInfo, mTermIndex[r[2]])} :
               num(r).num_now <= t.df_now /\ num(r).num_history <= t.df_history
        BY <4>1 DEF IInv, Sound, WithinDf
      <4>3. r[2] \in Keys(mTermIndex)
        BY <4>1 DEF IInv, Sound, Closed
      <4>4. r[1] + 1 \in 1 .. Len(mTermInfo) /\ mTermIndex[r[2]] + 1 \in 1 .. Len(mTermInfo)
        BY <1>1, <1>11, <4>1, <4>3, RelationOf
      <4>5. /\ At(mTermInfo', r[1]).df_now = At(mTermInfo, r[1]).df_now
            /\ At(mTermInfo', r[1]).df_history = At(mTermInfo, r[1]).df_history
            /\ At(mTermInfo', mTermIndex[r[2]]).df_now = At(mTermInfo, mTermIndex[r[2]]).df_now
            /\ At(mTermInfo', mTermIndex[r[2]]).df_history
                  = At(mTermInfo, mTermIndex[r[2]]).df_history
        BY <1>5, <4>4 DEF At
      <4>6. QED
        BY <1>9, <4>1, <4>2, <4>5
    <3>3. QED
      BY <3>1, <3>2
  <2>4. Live(mTermInfo', mRelateInfo')
    <3>1. Weight(NewRelation) >= 1
      BY <1>7 DEF Weight
    <3>2. \A r \in Relations(mTermInfo) : Weight(num(r)) >= 1
      BY DEF IInv, Sound, Live
    <3>3. QED
      BY <1>5, <1>9, <1>10, <3>1, <3>2 DEF Live
  <2>5. QED
    BY <1>5, <2>1, <2>2, <2>3, <2>4 DEF Sound
<1>15. NoFreeSlots' /\ FreeSlotsOK'
  <2>1. mRelateIndexSlot = << >>
    BY <1>0 DEF IInv, NoFreeSlots
  <2>2. QED
    BY <1>0, <2>1 DEF NoFreeSlots, FreeSlotsOK
<1>16. RoomForLine'
  <2>1. pc' = "cooc" /\ InLine /\ InLine' /\ hmInWeibo \subseteq Keys(mTermIndex)
    BY <1>0 DEF IInv, LocalsOK, InLine
  <2>2. \A h \in hmInWeibo' : DfNow(h)' >= 1
    BY <1>0, <1>11, <2>1 DEF IInv, RoomForLine
  <2>3. ASSUME NEW p \in 0 .. Len(hash_values) - 1, NEW q \in 0 .. Len(hash_values) - 1,
               Ahead(p, q)',
               <<mTermIndex[At(hash_values, p)], At(hash_values, q)>> \in Relations(mTermInfo')
        PROVE  LET r == <<mTermIndex[At(hash_values, p)], At(hash_values, q)>>
               IN  /\ At(mRelateInfo', Slot(mTermInfo', r)).num_now < DfNow(At(hash_values, p))'
                   /\ At(mRelateInfo', Slot(mTermInfo', r)).num_now < DfNow(At(hash_values, q))'
    <3> DEFINE r == <<mTermIndex[At(hash_values, p)], At(hash_values, q)>>
    <3>1. Ahead(p, q) /\ (p # i \/ q # j)
      BY <1>2, <2>3
    <3>2. r # r0
      <4>1. p = i \/ mTermIndex[At(hash_values, p)] # mTermIndex[At(hash_values, i)]
        BY <1>0, <1>2, Positions
      <4>2. q = j \/ At(hash_values, q) # At(hash_values, j)
        BY <1>0, <1>2, Positions
      <4>3. QED
        BY <3>1, <4>1, <4>2 DEF r0, Here, Other
    <3>3. r \in Relations(mTermInfo) /\ At(mRelateInfo', Slot(mTermInfo', r)) = num(r)
      BY <1>5, <1>9, <2>3, <3>2
    <3>4. num(r).num_now < DfNow(At(hash_values, p)) /\ num(r).num_now < DfNow(At(hash_values, q))
      BY <1>0, <3>1, <3>3 DEF IInv, RoomForLine
    <3>5. At(hash_values, p) \in Keys(mTermIndex) /\ At(hash_values, q) \in Keys(mTermIndex)
      BY <1>0, Positions
    <3>6. /\ DfNow(At(hash_values, p))' = DfNow(At(hash_values, p))
          /\ DfNow(At(hash_values, q))' = DfNow(At(hash_values, q))
      BY <1>0, <1>11, <3>5 DEF DfNow
    <3>7. QED
      BY <3>3, <3>4, <3>6
  <2>4. QED
    BY <1>0, <2>1, <2>2, <2>3 DEF RoomForLine, DfNow
<1>17. DfBound'
  <2> SUFFICES ASSUME NEW h \in Keys(mTermIndex)
               PROVE  At(mTermInfo', mTermIndex[h]).df_history + DfNow(h)'
                         <= m_total_info'.weibo_num + (IF InLine /\ h \in hmInWeibo THEN 1 ELSE 0)
    BY <1>0 DEF DfBound, InLine, DfNow
  <2>1. QED
    BY <1>6, <1>11 DEF IInv, DfBound
<1>18. (output'.found => ImageOK(output')) /\ (data'.found => ImageOK(data'))
  BY <1>0 DEF IInv
<1>19. QED
  BY <1>0, <1>12, <1>13, <1>14, <1>15, <1>16, <1>17, <1>18 DEF IInv

-----------------------------------------------------------------------------
(* RecordTerm, at the first occurrence of a term in the line.              *)

\* The locals, whatever RecordTerm did, if the term is indexed now.
LEMMA FirstInLineLocals ==
    ASSUME IInv, FirstInLine, Head(line) \in Keys(mTermIndex'),
           Keys(mTermIndex) \subseteq Keys(mTermIndex')
    PROVE  /\ LocalsOK'
           /\ line' \in Seq(Hash) /\ Head(line) \in Hash
           /\ hmInWeibo' = hmInWeibo \cup {Head(line)} /\ hmInWeibo' \subseteq Hash
           /\ hash_values' \in Seq(Hash)
           /\ i' \in 0 .. Len(hash_values') /\ j' \in 0 .. Len(hash_values')
           /\ j' = Len(hash_values') => j' = 0
<1> DEFINE h0 == Head(line)
<1>1. /\ pc = "terms" /\ pc' = "terms" /\ line \in Seq(Hash) /\ line # << >>
      /\ hash_values \in Seq(Hash) /\ hmInWeibo \subseteq Hash
      /\ i' = i /\ j' = j /\ h0 \notin hmInWeibo
      /\ hash_values' = Append(hash_values, h0)
      /\ hmInWeibo' = hmInWeibo \cup {h0} /\ line' = Tail(line)
  BY DEF IInv, TypeOK, FirstInLine
<1>2. h0 \in Hash /\ line' \in Seq(Hash)
  BY <1>1
<1>3. /\ i = 0 /\ j = 0
      /\ hmInWeibo = {hash_values[n] : n \in 1 .. Len(hash_values)}
      /\ hmInWeibo \subseteq Keys(mTermIndex)
      /\ \A m, n \in 1 .. Len(hash_values) : hash_values[m] = hash_values[n] => m = n
  BY <1>1 DEF IInv, LocalsOK, InLine
<1> HIDE DEF h0
<1>4. /\ hash_values' \in Seq(Hash) /\ Len(hash_values') = Len(hash_values) + 1
      /\ Len(hash_values) \in Nat
      /\ hash_values'[Len(hash_values) + 1] = h0
      /\ \A n \in 1 .. Len(hash_values) : hash_values'[n] = hash_values[n]
      /\ \A n \in 1 .. Len(hash_values') : n = Len(hash_values) + 1 \/ n \in 1 .. Len(hash_values)
      /\ \A n \in 1 .. Len(hash_values) : n \in 1 .. Len(hash_values')
      /\ Len(hash_values) + 1 \in 1 .. Len(hash_values')
  BY <1>1, <1>2
<1>5. hmInWeibo' = {hash_values'[n] : n \in 1 .. Len(hash_values')}
  <2>1. \A h \in hmInWeibo' : \E n \in 1 .. Len(hash_values') : h = hash_values'[n]
    BY <1>1, <1>3, <1>4
  <2>2. \A n \in 1 .. Len(hash_values') : hash_values'[n] \in hmInWeibo'
    BY <1>1, <1>3, <1>4
  <2>3. QED
    BY <2>1, <2>2
<1>6. \A m, n \in 1 .. Len(hash_values') : hash_values'[m] = hash_values'[n] => m = n
  <2>1. \A n \in 1 .. Len(hash_values) : hash_values'[n] # h0
    BY <1>1, <1>3, <1>4
  <2>2. QED
    BY <1>3, <1>4, <2>1
<1>7. hmInWeibo' \subseteq Keys(mTermIndex')
  BY <1>1, <1>3 DEF h0
<1>8. LocalsOK'
  BY <1>1, <1>3, <1>5, <1>6, <1>7 DEF LocalsOK, InLine
<1>9. QED
  BY <1>1, <1>2, <1>3, <1>4, <1>8 DEF h0

\* A known term: only its df_now grows, which makes room for the line.
LEMMA KnownTermInv ==
    ASSUME IInv, FirstInLine, mTermIndex[Head(line)] # End
    PROVE  IInv'
<1> USE DEF files
<1> DEFINE h0 == Head(line)
           n0 == mTermIndex[h0] + 1
<1>0. /\ UNCHANGED <<pc, i, j, mTermIndex, m_total_info, mRelateInfo, mRelateIndexSlot,
                     mNoMemory, output, data, runs, weibos>>
      /\ pc = "terms" /\ h0 \notin hmInWeibo
      /\ mTermInfo' = [mTermInfo EXCEPT ![n0].df_now = @ + 1]
  BY DEF FirstInLine, RecordTerm
<1>1. /\ mTermIndex \in Map /\ mTermInfo \in Seq(TermRec)
      /\ mRelateInfo \in Seq(RelateRec) /\ m_total_info \in Totals
      /\ line \in Seq(Hash) /\ line # << >>
  BY DEF IInv, TypeOK, FirstInLine
<1>2. h0 \in Keys(mTermIndex)
  BY <1>1 DEF Keys
<1>3. /\ LocalsOK'
      /\ line' \in Seq(Hash) /\ h0 \in Hash
      /\ hmInWeibo' = hmInWeibo \cup {h0} /\ hmInWeibo' \subseteq Hash
      /\ hash_values' \in Seq(Hash)
      /\ i' \in 0 .. Len(hash_values') /\ j' \in 0 .. Len(hash_values')
      /\ j' = Len(hash_values') => j' = 0
  BY <1>0, <1>2, FirstInLineLocals
<1> HIDE DEF h0
<1>4. \A h \in Keys(mTermIndex) :
         /\ h \in Hash /\ mTermIndex[h] \in Nat
         /\ mTermIndex[h] + 1 \in 1 .. Len(mTermInfo)
         /\ mTermIndex[h] + 1 = n0 => h = h0
  <2>1. \A h \in Keys(mTermIndex) :
           h \in Hash /\ mTermIndex[h] \in Nat /\ mTermIndex[h] < Len(mTermInfo)
    BY <1>1 DEF IInv, Sound, Closed, Keys, Map
  <2>2. \A h \in Keys(mTermIndex) : mTermIndex[h] = mTermIndex[h0] => h = h0
    BY <1>2 DEF IInv, Sound, Closed
  <2>3. QED
    BY <1>1, <1>2, <2>1, <2>2
<1>5. n0 \in 1 .. Len(mTermInfo) /\ mTermInfo[n0] \in TermRec
  BY <1>1, <1>2, <1>4
<1> DEFINE new == [mTermInfo[n0] EXCEPT !.df_now = mTermInfo[n0].df_now + 1]
<1>6. /\ new \in TermRec
      /\ new.df_now = mTermInfo[n0].df_now + 1
      /\ new.df_history = mTermInfo[n0].df_history
      /\ new.relate_term_num = mTermInfo[n0].relate_term_num
      /\ new.cooc_term = mTermInfo[n0].cooc_term
  BY <1>5 DEF TermRec
<1>7. mTermInfo' = [mTermInfo EXCEPT ![n0] = new]
  BY <1>0
<1> HIDE DEF new, n0
<1>8. /\ mTermInfo' \in Seq(TermRec) /\ Len(mTermInfo') = Len(mTermInfo)
      /\ mTermInfo'[n0] = new
      /\ \A n \in 1 .. Len(mTermInfo) : n # n0 => mTermInfo'[n] = mTermInfo[n]
  BY <1>1, <1>5, <1>6, <1>7
<1>9. \A n \in 1 .. Len(mTermInfo) :
         /\ mTermInfo[n].df_now \in Nat /\ mTermInfo[n].df_history \in Nat
         /\ mTermInfo'[n].df_now = IF n = n0 THEN mTermInfo[n].df_now + 1 ELSE mTermInfo[n].df_now
         /\ mTermInfo'[n].df_history = mTermInfo[n].df_history
         /\ mTermInfo'[n].relate_term_num = mTermInfo[n].relate_term_num
         /\ mTermInfo'[n].cooc_term = mTermInfo[n].cooc_term
  <2>1. \A n \in 1 .. Len(mTermInfo) : mTermInfo[n] \in TermRec
    BY <1>1
  <2>2. QED
    BY <1>6, <1>8, <2>1 DEF TermRec
<1>10. /\ Relations(mTermInfo') = Relations(mTermInfo)
       /\ \A r \in Relations(mTermInfo) : Slot(mTermInfo', r) = Slot(mTermInfo, r)
  <2>1. \A n \in 0 .. Len(mTermInfo) - 1 : At(mTermInfo', n).cooc_term = At(mTermInfo, n).cooc_term
    <3>1. \A n \in 0 .. Len(mTermInfo) - 1 : n + 1 \in 1 .. Len(mTermInfo)
      BY <1>1
    <3>2. QED
      BY <1>9, <3>1 DEF At
  <2>2. Relations(mTermInfo') = Relations(mTermInfo)
    BY <1>8, <2>1 DEF Relations
  <2>3. \A r \in Relations(mTermInfo) : r[1] \in 0 .. Len(mTermInfo) - 1
    BY <1>1, RelationOf
  <2>4. QED
    BY <2>1, <2>2, <2>3 DEF Slot
<1>11. \A r \in Relations(mTermInfo) :
          /\ r[2] \in Keys(mTermIndex)
          /\ r[1] + 1 \in 1 .. Len(mTermInfo) /\ mTermIndex[r[2]] + 1 \in 1 .. Len(mTermInfo)
          /\ At(mRelateInfo, Slot(mTermInfo, r)).num_now \in Nat
          /\ \A n \in {r[1] + 1, mTermIndex[r[2]] + 1} :
                /\ At(mRelateInfo, Slot(mTermInfo, r)).num_now <= mTermInfo[n].df_now
                /\ At(mRelateInfo, Slot(mTermInfo, r)).num_history <= mTermInfo[n].df_history
  <2>1. \A r \in Relations(mTermInfo) : r[2] \in Keys(mTermIndex)
    BY DEF IInv, Sound, Closed
  <2>2. \A r \in Relations(mTermInfo) :
           /\ Slot(mTermInfo, r) \in Nat /\ Slot(mTermInfo, r) < Len(mRelateInfo)
           /\ r[1] + 1 \in 1 .. Len(mTermInfo)
    BY <1>1, RelationOf DEF IInv, Sound, SlotsOK
  <2>3. \A r \in Relations(mTermInfo) : At(mRelateInfo, Slot(mTermInfo, r)) \in RelateRec
    BY <1>1, <2>2 DEF At
  <2>4. \A r \in Relations(mTermInfo) : \A n \in {r[1] + 1, mTermIndex[r[2]] + 1} :
           /\ At(mRelateInfo, Slot(mTermInfo, r)).num_now <= mTermInfo[n].df_now
           /\ At(mRelateInfo, Slot(mTermInfo, r)).num_history <= mTermInfo[n].df_history
    BY DEF IInv, Sound, WithinDf, At
  <2>5. QED
    BY <1>4, <2>1, <2>2, <2>3, <2>4 DEF RelateRec
<1>12. TypeOK'
  BY <1>0, <1>3, <1>8 DEF IInv, TypeOK
<1>13. Sound(mTermIndex, mTermInfo', mRelateInfo, m_total_info)
  <2>1. SlotsOK(mTermInfo', mRelateInfo)
    BY <1>10 DEF IInv, Sound, SlotsOK
  <2>2. Closed(mTermIndex, mTermInfo', m_total_info)
    BY <1>8, <1>10 DEF IInv, Sound, Closed
  <2>3. Counted(mTermInfo')
    <3>1. DOMAIN mTermInfo' = 1 .. Len(mTermInfo) /\ DOMAIN mTermInfo = 1 .. Len(mTermInfo)
      BY <1>1, <1>8
    <3>2. QED
      BY <1>9, <3>1 DEF IInv, Sound, Counted
  <2>4. WithinDf(mTermIndex, mTermInfo', mRelateInfo)
    <3> SUFFICES ASSUME NEW r \in Relations(mTermInfo), NEW n \in {r[1] + 1, mTermIndex[r[2]] + 1}
                 PROVE  /\ At(mRelateInfo, Slot(mTermInfo, r)).num_now <= mTermInfo'[n].df_now
                        /\ At(mRelateInfo, Slot(mTermInfo, r)).num_history <= mTermInfo'[n].df_history
      BY <1>10 DEF WithinDf, At
    <3>1. QED
      BY <1>9, <1>11, SMTT(30)
  <2>5. Live(mTermInfo', mRelateInfo)
    BY <1>10 DEF IInv, Sound, Live
  <2>6. QED
    BY <2>1, <2>2, <2>3, <2>4, <2>5 DEF Sound
<1>14. NoFreeSlots' /\ FreeSlotsOK'
  <2>1. mRelateIndexSlot = << >>
    BY <1>0 DEF IInv, NoFreeSlots
  <2>2. QED
    BY <1>0, <2>1 DEF NoFreeSlots, FreeSlotsOK
<1>15. ASSUME NEW h \in Keys(mTermIndex)
       PROVE  /\ DfNow(h) \in Nat /\ At(mTermInfo, mTermIndex[h]).df_history \in Nat
              /\ DfNow(h)' = IF h = h0 THEN DfNow(h) + 1 ELSE DfNow(h)
              /\ At(mTermInfo', mTermIndex[h]).df_history
                    = At(mTermInfo, mTermIndex[h]).df_history
  <2>1. mTermIndex[h] + 1 = n0 <=> h = h0
    BY <1>4 DEF n0
  <2>2. QED
    BY <1>0, <1>4, <1>9, <2>1 DEF DfNow, At
<1>16. RoomForLine'
  <2>1. pc = "terms" /\ pc' = "terms" /\ InLine /\ InLine' /\ hmInWeibo \subseteq Keys(mTermIndex)
    BY <1>0 DEF IInv, LocalsOK, InLine
  <2>2. \A h \in hmInWeibo' : DfNow(h)' >= 1
    <3>1. \A h \in hmInWeibo : DfNow(h) >= 1
      BY <2>1 DEF IInv, RoomForLine
    <3>2. QED
      BY <1>2, <1>3, <1>15, <2>1, <3>1
  <2>3. ASSUME NEW r \in Relations(mTermInfo), NEW h \in hmInWeibo',
               mTermIndex[h] = r[1] \/ h = r[2]
        PROVE  At(mRelateInfo, Slot(mTermInfo, r)).num_now < DfNow(h)'
    <3>1. CASE h = h0
      <4>1. mTermIndex[h] + 1 \in {r[1] + 1, mTermIndex[r[2]] + 1}
        BY <2>3
      <4>2. At(mRelateInfo, Slot(mTermInfo, r)).num_now <= DfNow(h)
        BY <1>11, <4>1 DEF DfNow, At
      <4>3. DfNow(h)' = DfNow(h) + 1 /\ DfNow(h) \in Nat
        BY <1>2, <1>15, <3>1
      <4>4. QED
        BY <1>11, <4>2, <4>3
    <3>2. CASE h # h0
      <4>1. h \in hmInWeibo
        BY <1>3, <3>2
      <4>2. At(mRelateInfo, Slot(mTermInfo, r)).num_now < DfNow(h)
        BY <2>1, <2>3, <4>1 DEF IInv, RoomForLine
      <4>3. QED
        BY <1>15, <2>1, <3>2, <4>1, <4>2
    <3>3. QED
      BY <3>1, <3>2
  <2>4. QED
    BY <1>0, <1>10, <2>1, <2>2, <2>3 DEF RoomForLine, DfNow
<1>17. DfBound'
  <2> SUFFICES ASSUME NEW h \in Keys(mTermIndex)
               PROVE  At(mTermInfo', mTermIndex[h]).df_history + DfNow(h)'
                         <= m_total_info.weibo_num + (IF h \in hmInWeibo' THEN 1 ELSE 0)
    BY <1>0 DEF DfBound, InLine, DfNow
  <2>1. m_total_info.weibo_num \in Nat
    BY <1>1 DEF Totals
  <2>2. At(mTermInfo, mTermIndex[h]).df_history + DfNow(h)
           <= m_total_info.weibo_num + (IF h \in hmInWeibo THEN 1 ELSE 0)
    BY <1>0 DEF IInv, DfBound, InLine
  <2>3. CASE h = h0
    <3>1. /\ At(mTermInfo', mTermIndex[h]).df_history = At(mTermInfo, mTermIndex[h]).df_history
          /\ DfNow(h)' = DfNow(h) + 1 /\ DfNow(h) \in Nat
          /\ At(mTermInfo, mTermIndex[h]).df_history \in Nat
      BY <1>15, <2>3
    <3>2. h \notin hmInWeibo /\ h \in hmInWeibo'
      BY <1>0, <1>3, <2>3
    <3>3. QED
      BY <2>1, <2>2, <3>1, <3>2
  <2>4. CASE h # h0
    <3>1. /\ At(mTermInfo', mTermIndex[h]).df_history = At(mTermInfo, mTermIndex[h]).df_history
          /\ DfNow(h)' = DfNow(h)
      BY <1>15, <2>4
    <3>2. h \in hmInWeibo <=> h \in hmInWeibo'
      BY <1>3, <2>4
    <3>3. QED
      BY <2>2, <3>1, <3>2
  <2>5. QED
    BY <2>3, <2>4
<1>18. (output'.found => ImageOK(output')) /\ (data'.found => ImageOK(data'))
  BY <1>0 DEF IInv
<1>19. QED
  BY <1>0, <1>3, <1>12, <1>13, <1>14, <1>16, <1>17, <1>18 DEF IInv

\* A new term: it gets the next number, has no relations, and is no key of any.
LEMMA NewTermInv ==
    ASSUME IInv, FirstInLine, mTermIndex[Head(line)] = End
    PROVE  IInv'
<1> USE DEF files
<1> DEFINE h0 == Head(line)
           N == Len(mTermInfo)
<1>0. /\ UNCHANGED <<pc, i, j, mRelateInfo, mRelateIndexSlot, mNoMemory, output, data, runs,
                     weibos>>
      /\ pc = "terms" /\ h0 \notin hmInWeibo
      /\ mTermIndex' = [mTermIndex EXCEPT ![h0] = m_total_info.term_num]
      /\ mTermInfo' = Append(mTermInfo, NewTerm)
      /\ m_total_info' = [m_total_info EXCEPT !.term_num = m_total_info.term_num + 1]
  BY DEF FirstInLine, RecordTerm
<1>1. /\ mTermIndex \in Map /\ mTermInfo \in Seq(TermRec)
      /\ mRelateInfo \in Seq(RelateRec) /\ m_total_info \in Totals
      /\ line \in Seq(Hash) /\ line # << >> /\ N \in Nat
  BY DEF IInv, TypeOK, FirstInLine
<1>2. h0 \in Hash /\ m_total_info.term_num = N /\ mTermIndex[h0] = End
  BY <1>1 DEF IInv, Sound, Closed
<1>3. /\ NewTerm \in TermRec /\ NewTerm.df_now = 1 /\ NewTerm.df_history = 0
      /\ NewTerm.relate_term_num = 0 /\ NewTerm.cooc_term = EmptyMap
  BY EmptySound DEF NewTerm, TermRec
<1> HIDE DEF h0
<1>4. /\ mTermIndex' \in Map /\ mTermIndex'[h0] = N
      /\ \A h \in Hash : h # h0 => mTermIndex'[h] = mTermIndex[h]
  BY <1>0, <1>1, <1>2 DEF Map
<1>5. /\ mTermInfo' \in Seq(TermRec) /\ Len(mTermInfo') = N + 1
      /\ mTermInfo'[N + 1] = NewTerm
      /\ \A n \in 1 .. N : mTermInfo'[n] = mTermInfo[n]
  BY <1>0, <1>1, <1>3
<1>6. /\ m_total_info' \in Totals /\ m_total_info'.term_num = N + 1
      /\ m_total_info'.weibo_num = m_total_info.weibo_num
  <2>1. m_total_info.term_num + 1 \in Nat
    BY <1>1, <1>2
  <2>2. QED
    BY <1>0, <1>1, <1>2, <2>1 DEF Totals
<1> HIDE DEF N
<1>7. Keys(mTermIndex') = Keys(mTermIndex) \cup {h0} /\ h0 \notin Keys(mTermIndex)
  <2>1. N # End
    BY <1>1 DEF End
  <2>2. QED
    BY <1>2, <1>4, <2>1 DEF Keys
<1>8. /\ LocalsOK'
      /\ line' \in Seq(Hash)
      /\ hmInWeibo' = hmInWeibo \cup {h0} /\ hmInWeibo' \subseteq Hash
      /\ hash_values' \in Seq(Hash)
      /\ i' \in 0 .. Len(hash_values') /\ j' \in 0 .. Len(hash_values')
      /\ j' = Len(hash_values') => j' = 0
  BY <1>7, FirstInLineLocals DEF h0
<1>9. \A h \in Keys(mTermIndex) :
         /\ h \in Hash /\ h # h0 /\ mTermIndex[h] \in Nat /\ mTermIndex[h] < N
         /\ mTermIndex'[h] = mTermIndex[h]
         /\ At(mTermInfo', mTermIndex[h]) = At(mTermInfo, mTermIndex[h])
  <2>1. \A h \in Keys(mTermIndex) : h \in Hash /\ mTermIndex[h] \in Nat /\ mTermIndex[h] < N
    BY <1>1 DEF IInv, Sound, Closed, Keys, Map, N
  <2>2. \A n \in Nat : n < N => At(mTermInfo', n) = At(mTermInfo, n)
    BY <1>1, <1>5 DEF At
  <2>3. QED
    BY <1>4, <1>7, <2>1, <2>2
<1>10. Relations(mTermInfo') = Relations(mTermInfo)
  <2>1. \A n \in 0 .. N : \A h \in Hash :
           At(mTermInfo', n).cooc_term[h] = IF n = N THEN End ELSE At(mTermInfo, n).cooc_term[h]
    <3>1. \A n \in 0 .. N : n # N => n + 1 \in 1 .. N
      BY <1>1
    <3>2. \A h \in Hash : NewTerm.cooc_term[h] = End
      BY <1>3 DEF EmptyMap
    <3>3. QED
      BY <1>5, <3>1, <3>2 DEF At
  <2>2. \A n \in 0 .. N, h \in Hash :
           <<n, h>> \in Relations(mTermInfo') <=> <<n, h>> \in Relations(mTermInfo)
    <3> SUFFICES ASSUME NEW n \in 0 .. N, NEW h \in Hash
                 PROVE  <<n, h>> \in Relations(mTermInfo') <=> <<n, h>> \in Relations(mTermInfo)
      OBVIOUS
    <3>1. <<n, h>> \in Relations(mTermInfo') <=> At(mTermInfo', n).cooc_term[h] # End
      <4>1. n \in 0 .. Len(mTermInfo') - 1
        BY <1>1, <1>5
      <4>2. QED
        BY <1>5, <4>1, RelationOf
    <3>2. CASE n = N
      <4>1. <<n, h>> \notin Relations(mTermInfo)
        BY <1>1, <3>2 DEF Relations, N
      <4>2. QED
        BY <2>1, <3>1, <3>2, <4>1
    <3>3. CASE n # N
      <4>1. n \in 0 .. Len(mTermInfo) - 1
        BY <1>1, <3>3 DEF N
      <4>2. QED
        BY <1>1, <2>1, <3>1, <3>3, <4>1, RelationOf
    <3>4. QED
      BY <3>2, <3>3
  <2>3. \A r \in Relations(mTermInfo') : r = <<r[1], r[2]>> /\ r[1] \in 0 .. N /\ r[2] \in Hash
    <3>1. Len(mTermInfo') - 1 = N
      BY <1>1, <1>5
    <3>2. QED
      BY <1>5, <3>1, RelationOf
  <2>4. \A r \in Relations(mTermInfo) : r = <<r[1], r[2]>> /\ r[1] \in 0 .. N /\ r[2] \in Hash
    <3>1. \A r \in Relations(mTermInfo) :
             r = <<r[1], r[2]>> /\ r[1] \in 0 .. Len(mTermInfo) - 1 /\ r[2] \in Hash
      BY <1>1, RelationOf
    <3>2. QED
      BY <1>1, <3>1 DEF N
  <2>5. QED
    BY <2>2, <2>3, <2>4
<1>11. \A r \in Relations(mTermInfo) :
          /\ r[1] \in Nat /\ r[1] < N /\ r[2] \in Keys(mTermIndex)
          /\ At(mTermInfo', r[1]) = At(mTermInfo, r[1])
          /\ Slot(mTermInfo', r) = Slot(mTermInfo, r)
  <2>1. \A r \in Relations(mTermInfo) : r[1] \in Nat /\ r[1] < N
    BY <1>1, RelationOf DEF N
  <2>2. \A n \in Nat : n < N => At(mTermInfo', n) = At(mTermInfo, n)
    BY <1>1, <1>5 DEF At
  <2>3. \A r \in Relations(mTermInfo) : r[2] \in Keys(mTermIndex)
    BY DEF IInv, Sound, Closed
  <2>4. QED
    BY <2>1, <2>2, <2>3 DEF Slot
<1>12. TypeOK'
  BY <1>0, <1>4, <1>5, <1>6, <1>8 DEF IInv, TypeOK
<1>13. Sound(mTermIndex', mTermInfo', mRelateInfo, m_total_info')
  <2>1. SlotsOK(mTermInfo', mRelateInfo)
    BY <1>10, <1>11 DEF IInv, Sound, SlotsOK
  <2>2. Closed(mTermIndex', mTermInfo', m_total_info')
    <3>1. \A h \in Keys(mTermIndex') : mTermIndex'[h] < N + 1
      BY <1>1, <1>4, <1>7, <1>9
    <3>2. \A g, h \in Keys(mTermIndex') : mTermIndex'[g] = mTermIndex'[h] => g = h
      <4>1. \A g, h \in Keys(mTermIndex) : mTermIndex[g] = mTermIndex[h] => g = h
        BY DEF IInv, Sound, Closed
      <4>2. \A h \in Keys(mTermIndex) : mTermIndex'[h] # N
        BY <1>1, <1>9
      <4>3. QED
        BY <1>4, <1>7, <1>9, <4>1, <4>2
    <3>3. ASSUME NEW n \in 0 .. N
          PROVE  \E h \in Keys(mTermIndex') : mTermIndex'[h] = n
      <4>1. CASE n = N
        BY <1>4, <1>7, <4>1
      <4>2. CASE n # N
        <5>1. n \in 0 .. Len(mTermInfo) - 1
          BY <1>1, <4>2 DEF N
        <5>2. PICK h \in Keys(mTermIndex) : mTermIndex[h] = n
          BY <5>1 DEF IInv, Sound, Closed
        <5>3. QED
          BY <1>7, <1>9, <5>2
      <4>3. QED
        BY <4>1, <4>2
    <3>4. \A r \in Relations(mTermInfo) : r[2] \in Keys(mTermIndex') /\ mTermIndex'[r[2]] # r[1]
      BY <1>7, <1>9, <1>11 DEF IInv, Sound, Closed
    <3>5. Len(mTermInfo') - 1 = N
      BY <1>1, <1>5
    <3>6. QED
      BY <1>5, <1>6, <1>10, <3>1, <3>2, <3>3, <3>4, <3>5 DEF Closed
  <2>3. Counted(mTermInfo')
    <3>1. DOMAIN mTermInfo' = 1 .. N + 1 /\ DOMAIN mTermInfo = 1 .. N
      BY <1>1, <1>5 DEF N
    <3>2. Keys(NewTerm.cooc_term) = {}
      BY <1>3 DEF Keys, EmptyMap
    <3>3. NewTerm.relate_term_num = Cardinality(Keys(NewTerm.cooc_term))
      BY <1>3, <3>2, FS_EmptySet
    <3>4. \A n \in 1 .. N + 1 : n = N + 1 \/ n \in 1 .. N
      BY <1>1
    <3>5. QED
      BY <1>5, <3>1, <3>3, <3>4 DEF IInv, Sound, Counted
  <2>4. WithinDf(mTermIndex', mTermInfo', mRelateInfo)
    <3>1. \A r \in Relations(mTermInfo) :
             At(mTermInfo', mTermIndex'[r[2]]) = At(mTermInfo, mTermIndex[r[2]])
      BY <1>9, <1>11
    <3>2. QED
      BY <1>10, <1>11, <3>1 DEF IInv, Sound, WithinDf
  <2>5. Live(mTermInfo', mRelateInfo)
    BY <1>10, <1>11 DEF IInv, Sound, Live
  <2>6. QED
    BY <2>1, <2>2, <2>3, <2>4, <2>5 DEF Sound
<1>14. NoFreeSlots' /\ FreeSlotsOK'
  <2>1. mRelateIndexSlot = << >>
    BY <1>0 DEF IInv, NoFreeSlots
  <2>2. QED
    BY <1>0, <2>1 DEF NoFreeSlots, FreeSlotsOK
<1>15. /\ \A h \in Keys(mTermIndex) : DfNow(h)' = DfNow(h)
       /\ At(mTermInfo', mTermIndex'[h0]) = NewTerm
       /\ \A h \in {h0} : DfNow(h)' = 1
  <2>1. \A h \in Keys(mTermIndex) : DfNow(h)' = DfNow(h)
    BY <1>9 DEF DfNow
  <2>2. At(mTermInfo', mTermIndex'[h0]) = NewTerm
    BY <1>4, <1>5 DEF At
  <2>3. QED
    BY <1>0, <1>3, <2>1, <2>2 DEF DfNow
<1>16. RoomForLine'
  <2>1. pc = "terms" /\ pc' = "terms" /\ InLine /\ InLine' /\ hmInWeibo \subseteq Keys(mTermIndex)
    BY <1>0 DEF IInv, LocalsOK, InLine
  <2>2. \A h \in hmInWeibo' : DfNow(h)' >= 1
    <3>1. \A h \in hmInWeibo : DfNow(h) >= 1
      BY <2>1 DEF IInv, RoomForLine
    <3>2. QED
      BY <1>8, <1>15, <2>1, <3>1
  <2>3. ASSUME NEW r \in Relations(mTermInfo), NEW h \in hmInWeibo',
               mTermIndex'[h] = r[1] \/ h = r[2]
        PROVE  At(mRelateInfo, Slot(mTermInfo, r)).num_now < DfNow(h)'
    <3>1. h # h0
      BY <1>1, <1>4, <1>7, <1>11, <2>3
    <3>2. h \in hmInWeibo /\ h \in Keys(mTermIndex)
      BY <1>8, <2>1, <3>1
    <3>3. mTermIndex[h] = r[1] \/ h = r[2]
      BY <1>9, <2>3, <3>2
    <3>4. At(mRelateInfo, Slot(mTermInfo, r)).num_now < DfNow(h)
      BY <2>1, <3>2, <3>3 DEF IInv, RoomForLine
    <3>5. QED
      BY <1>15, <3>2, <3>4
  <2>4. QED
    BY <1>0, <1>10, <1>11, <2>1, <2>2, <2>3 DEF RoomForLine, DfNow
<1>17. DfBound'
  <2> SUFFICES ASSUME NEW h \in Keys(mTermIndex')
               PROVE  At(mTermInfo', mTermIndex'[h]).df_history + DfNow(h)'
                         <= m_total_info.weibo_num + (IF h \in hmInWeibo' THEN 1 ELSE 0)
    BY <1>0, <1>6 DEF DfBound, InLine, DfNow
  <2>1. m_total_info.weibo_num \in Nat
    BY <1>1 DEF Totals
  <2>2. CASE h = h0
    BY <1>3, <1>8, <1>15, <2>1, <2>2
  <2>3. CASE h # h0
    <3>1. h \in Keys(mTermIndex) /\ (h \in hmInWeibo <=> h \in hmInWeibo')
      BY <1>7, <1>8, <2>3
    <3>2. At(mTermInfo, mTermIndex[h]).df_history + DfNow(h)
             <= m_total_info.weibo_num + (IF h \in hmInWeibo THEN 1 ELSE 0)
      BY <1>0, <3>1 DEF IInv, DfBound, InLine
    <3>3. At(mTermInfo', mTermIndex'[h]) = At(mTermInfo, mTermIndex[h]) /\ DfNow(h)' = DfNow(h)
      BY <1>9, <1>15, <3>1
    <3>4. QED
      BY <3>1, <3>2, <3>3
  <2>4. QED
    BY <2>2, <2>3
<1>18. (output'.found => ImageOK(output')) /\ (data'.found => ImageOK(data'))
  BY <1>0 DEF IInv
<1>19. QED
  BY <1>0, <1>8, <1>12, <1>13, <1>14, <1>16, <1>17, <1>18 DEF IInv

\* RecordTerm counts an indexed term, or numbers a new one, and no relation of
\* the line is counted yet.
LEMMA FirstInLineInv ==
    ASSUME IInv, FirstInLine
    PROVE  IInv'
BY KnownTermInv, NewTermInv

-----------------------------------------------------------------------------
(* The index goes through the files.                                       *)

\* The merged history is a sound index whose counts all belong to the past.
LEMMA LoadIndexInv ==
    ASSUME IInv, LoadIndex
    PROVE  IInv'
<1> USE DEF files, locals
<1>0. /\ pc = "load" /\ pc' = "lines" /\ data.found
      /\ mTermIndex' = data.TermIndex
      /\ mTermInfo' = MergedTerms(data.TermInfo)
      /\ mRelateInfo' = MergedRelate(data.RelateInfo)
      /\ m_total_info' = Patched(data.total)
      /\ UNCHANGED <<mRelateIndexSlot, mNoMemory, line, hmInWeibo, hash_values, i, j, output, data,
                     runs, weibos>>
  BY DEF LoadIndex, MergedTerms, MergedRelate
<1>1. data \in Image /\ ImageOK(data)
  BY <1>0 DEF IInv, TypeOK, NoIndex
<1>2. /\ data.TermIndex \in Map /\ data.TermInfo \in Seq(TermRec)
      /\ data.RelateInfo \in Seq(RelateRec) /\ data.total \in Totals
  BY <1>1 DEF Image
<1>3. Patched(data.total) \in Totals /\ Patched(data.total).weibo_num = data.total.weibo_num
  BY <1>2 DEF Patched, Totals
<1>4. Sound(mTermIndex', mTermInfo', mRelateInfo', m_total_info')
  BY <1>0, <1>1, <1>2, MergeSound DEF ImageOK
<1>5. TypeOK'
  <2>1. mTermInfo' \in Seq(TermRec) /\ mRelateInfo' \in Seq(RelateRec)
    BY <1>0, <1>2, MergeTypes
  <2>2. mNoMemory' \in BOOLEAN
    BY <1>0 DEF IInv, TypeOK
  <2>3. QED
    BY <1>0, <1>2, <1>3, <2>1, <2>2 DEF IInv, TypeOK
<1>6. LocalsOK'
  BY <1>0 DEF IInv, LocalsOK, InLine
<1>7. NoFreeSlots' /\ FreeSlotsOK'
  <2>1. mRelateIndexSlot = << >>
    BY <1>0 DEF IInv, NoFreeSlots
  <2>2. QED
    BY <1>0, <2>1 DEF NoFreeSlots, FreeSlotsOK
<1>8. RoomForLine'
  BY <1>0 DEF RoomForLine, InLine
<1>9. DfBound'
  <2> SUFFICES ASSUME NEW h \in Keys(mTermIndex')
               PROVE  At(mTermInfo', mTermIndex'[h]).df_history
                          + At(mTermInfo', mTermIndex'[h]).df_now <= m_total_info'.weibo_num + 0
    BY <1>0 DEF DfBound, DfNow, InLine
  <2> DEFINE n == mTermIndex'[h] + 1
  <2>1. mTermIndex'[h] \in Nat /\ mTermIndex'[h] < Len(mTermInfo')
    BY <1>0, <1>2, <1>4 DEF Sound, Closed, Keys, Map
  <2>2. Len(mTermInfo') = Len(data.TermInfo)
    BY <1>0, <1>2, MergeTypes
  <2>3. n \in 1 .. Len(data.TermInfo)
    BY <1>2, <2>1, <2>2
  <2> HIDE DEF n
  <2>4. /\ mTermInfo'[n].df_now = 0
        /\ mTermInfo'[n].df_history = data.TermInfo[n].df_history + data.TermInfo[n].df_now
    BY <1>0, <1>2, <2>3, MergeTypes
  <2>5. data.TermInfo[n].df_history + data.TermInfo[n].df_now <= data.total.weibo_num
    BY <1>1, <2>3 DEF ImageOK
  <2>6. data.TermInfo[n].df_history \in Nat /\ data.TermInfo[n].df_now \in Nat
    <3>1. data.TermInfo[n] \in TermRec
      BY <1>2, <2>3
    <3>2. QED
      BY <3>1 DEF TermRec
  <2>7. data.total.weibo_num \in Nat
    BY <1>2 DEF Totals
  <2>8. mTermInfo'[n].df_history + mTermInfo'[n].df_now <= m_total_info'.weibo_num + 0
    BY <1>0, <1>3, <2>4, <2>5, <2>6, <2>7
  <2>9. QED
    BY <2>8 DEF n, At
<1>10. (output'.found => ImageOK(output')) /\ (data'.found => ImageOK(data'))
  BY <1>0 DEF IInv
<1>11. QED
  BY <1>4, <1>5, <1>6, <1>7, <1>8, <1>9, <1>10 DEF IInv

\* FiltIndex deletes relations and gives back exactly their slots.
LEMMA FiltIndexInv ==
    ASSUME IInv, FiltIndex
    PROVE  IInv'
<1> USE DEF files, locals
<1> DEFINE gone(n) == {h \in Hash : <<n - 1, h>> \in Filtered}
           left(n) == IF mTermInfo[n].relate_term_num < K THEN mTermInfo[n]
                      ELSE Without(mTermInfo[n], gone(n))
<1>0. /\ pc = "filt" /\ pc' = "dump"
      /\ mTermInfo' = [n \in 1 .. Len(mTermInfo) |-> left(n)]
      /\ mRelateIndexSlot' = mRelateIndexSlot \o SlotsOf(mTermInfo, Filtered)
      /\ UNCHANGED <<mTermIndex, mRelateInfo, mNoMemory, m_total_info, line, hmInWeibo,
                     hash_values, i, j, output, data, runs, weibos>>
  BY DEF FiltIndex
<1>1. /\ mTermIndex \in Map /\ mTermInfo \in Seq(TermRec)
      /\ mRelateInfo \in Seq(RelateRec) /\ m_total_info \in Totals
  BY DEF IInv, TypeOK
<1>2. Filtered \in SUBSET Relations(mTermInfo)
  BY DEF Filtered
<1>3. Sound(mTermIndex, mTermInfo, mRelateInfo, m_total_info)
  BY DEF IInv
<1>4. ASSUME NEW n \in 1 .. Len(mTermInfo)
      PROVE  /\ left(n) \in TermRec
             /\ left(n).df_now = mTermInfo[n].df_now
             /\ left(n).df_history = mTermInfo[n].df_history
             /\ left(n).relate_term_num = Cardinality(Keys(left(n).cooc_term))
             /\ \A h \in Hash : left(n).cooc_term[h] \in {End, mTermInfo[n].cooc_term[h]}
             /\ \A h \in Hash : <<n - 1, h>> \in Filtered => left(n).cooc_term[h] = End
  <2>1. mTermInfo[n] \in TermRec
    BY <1>1
  <2>2. CASE mTermInfo[n].relate_term_num < K
    <3>1. left(n) = mTermInfo[n]
      BY <2>2
    <3>2. mTermInfo[n].relate_term_num = Cardinality(Keys(mTermInfo[n].cooc_term))
      BY <1>1, <1>3 DEF Sound, Counted
    <3>3. \A h \in Hash : <<n - 1, h>> \notin Filtered
      <4>1. (n - 1) + 1 = n /\ mTermInfo[n].relate_term_num \in Nat
        BY <1>1, <2>1 DEF TermRec
      <4>2. ~(mTermInfo[n].relate_term_num >= K)
        BY <2>2, <4>1, KAssumption
      <4>3. QED
        BY <4>1, <4>2 DEF Filtered, At
    <3>4. QED
      BY <2>1, <3>1, <3>2, <3>3
  <2>3. CASE ~(mTermInfo[n].relate_term_num < K)
    <3>1. left(n) = Without(mTermInfo[n], gone(n))
      BY <2>3
    <3>2. \A h \in Hash : h \in gone(n) <=> <<n - 1, h>> \in Filtered
      OBVIOUS
    <3> HIDE DEF gone, left
    <3>3. QED
      BY <2>1, <3>1, <3>2, WithoutTerm
  <2>4. QED
    BY <2>2, <2>3
<1> HIDE DEF left, gone
<1>5. /\ mTermInfo' \in Seq(TermRec) /\ Len(mTermInfo') = Len(mTermInfo)
      /\ \A n \in 1 .. Len(mTermInfo) : mTermInfo'[n] = left(n)
  BY <1>0, <1>1, <1>4
<1>6. Counted(mTermInfo')
  BY <1>4, <1>5 DEF Counted
<1>7. Sound(mTermIndex, mTermInfo', mRelateInfo, m_total_info)
  <2>1. \A n \in 1 .. Len(mTermInfo) :
           /\ mTermInfo'[n].df_now = mTermInfo[n].df_now
           /\ mTermInfo'[n].df_history = mTermInfo[n].df_history
           /\ \A h \in Hash : mTermInfo'[n].cooc_term[h] \in {End, mTermInfo[n].cooc_term[h]}
    BY <1>4, <1>5
  <2>2. QED
    BY <1>1, <1>3, <1>5, <1>6, <2>1, ShrinkSound
<1>8. ASSUME NEW r \in Relations(mTermInfo')
      PROVE  /\ r \in Relations(mTermInfo) /\ r \notin Filtered
             /\ Slot(mTermInfo', r) = Slot(mTermInfo, r)
  <2>1. /\ r[1] \in 0 .. Len(mTermInfo) - 1 /\ r[2] \in Hash /\ r = <<r[1], r[2]>>
        /\ r[1] + 1 \in 1 .. Len(mTermInfo) /\ (r[1] + 1) - 1 = r[1]
        /\ At(mTermInfo', r[1]).cooc_term[r[2]] # End
    BY <1>5, RelationOf
  <2>2. /\ At(mTermInfo', r[1]).cooc_term[r[2]] = At(mTermInfo, r[1]).cooc_term[r[2]]
        /\ <<r[1], r[2]>> \notin Filtered
    BY <1>4, <1>5, <2>1 DEF At
  <2>3. QED
    BY <2>1, <2>2 DEF Relations, Slot
<1>9. /\ mRelateIndexSlot' = SlotsOf(mTermInfo, Filtered)
      /\ mRelateIndexSlot' \in Seq(Nat)
      /\ Len(mRelateIndexSlot') = Cardinality(Filtered)
      /\ \A n \in 1 .. Len(mRelateIndexSlot') :
            /\ InOrder(Filtered)[n] \in Filtered
            /\ Rank(Filtered, InOrder(Filtered)[n]) = n - 1
            /\ mRelateIndexSlot'[n] = Slot(mTermInfo, InOrder(Filtered)[n])
  <2>1. mRelateIndexSlot = << >>
    BY <1>0 DEF IInv, NoFreeSlots
  <2>2. /\ SlotsOf(mTermInfo, Filtered) \in Seq(Nat)
        /\ Len(SlotsOf(mTermInfo, Filtered)) = Cardinality(Filtered)
        /\ \A n \in 1 .. Cardinality(Filtered) :
              /\ InOrder(Filtered)[n] \in Filtered
              /\ Rank(Filtered, InOrder(Filtered)[n]) = n - 1
              /\ SlotsOf(mTermInfo, Filtered)[n] = Slot(mTermInfo, InOrder(Filtered)[n])
    BY <1>1, <1>2, SlotsOfLists
  <2>3. \A s \in Seq(Nat) : << >> \o s = s
    OBVIOUS
  <2>4. QED
    BY <1>0, <2>1, <2>2, <2>3
<1>10. TypeOK'
  <2>1. mNoMemory' \in BOOLEAN
    BY <1>0 DEF IInv, TypeOK
  <2>2. QED
    BY <1>0, <1>5, <1>9, <2>1 DEF IInv, TypeOK
<1>11. LocalsOK'
  BY <1>0 DEF IInv, LocalsOK, InLine
<1>12. NoFreeSlots'
  BY <1>0 DEF NoFreeSlots
<1>13. FreeSlotsOK'
  <2>1. \A r, s \in Relations(mTermInfo) : Slot(mTermInfo, r) = Slot(mTermInfo, s) => r = s
    BY <1>3 DEF Sound, SlotsOK
  <2>2. ASSUME NEW n \in 1 .. Len(mRelateIndexSlot'), NEW r \in Relations(mTermInfo')
        PROVE  Slot(mTermInfo', r) # mRelateIndexSlot'[n]
    BY <1>2, <1>8, <1>9, <2>1
  <2>3. ASSUME NEW n \in 1 .. Len(mRelateIndexSlot'), NEW m \in 1 .. Len(mRelateIndexSlot'),
               mRelateIndexSlot'[m] = mRelateIndexSlot'[n]
        PROVE  m = n
    <3>1. InOrder(Filtered)[m] = InOrder(Filtered)[n]
      BY <1>2, <1>9, <2>1, <2>3
    <3>2. m - 1 = n - 1
      BY <1>9, <3>1
    <3>3. QED
      BY <3>2
  <2>4. QED
    BY <2>2, <2>3 DEF FreeSlotsOK
<1>14. RoomForLine'
  BY <1>0 DEF RoomForLine, InLine
<1>15. DfBound'
  <2> SUFFICES ASSUME NEW h \in Keys(mTermIndex)
               PROVE  At(mTermInfo', mTermIndex[h]).df_history + At(mTermInfo', mTermIndex[h]).df_now
                         <= m_total_info.weibo_num + 0
    BY <1>0 DEF DfBound, DfNow, InLine
  <2>1. mTermIndex[h] \in Nat /\ mTermIndex[h] < Len(mTermInfo)
    BY <1>1, <1>3 DEF Sound, Closed, Keys, Map
  <2>2. mTermIndex[h] + 1 \in 1 .. Len(mTermInfo)
    BY <1>1, <2>1
  <2>3. At(mTermInfo, mTermIndex[h]).df_history + At(mTermInfo, mTermIndex[h]).df_now
           <= m_total_info.weibo_num + 0
    BY <1>0 DEF IInv, DfBound, DfNow, InLine
  <2>4. QED
    BY <1>4, <1>5, <2>2, <2>3 DEF At
<1>16. (output'.found => ImageOK(output')) /\ (data'.found => ImageOK(data'))
  BY <1>0 DEF IInv
<1>17. QED
  BY <1>0, <1>7, <1>10, <1>11, <1>12, <1>13, <1>14, <1>15, <1>16 DEF IInv

\* What DumpIndex writes is a sound index.
LEMMA DumpIndexInv ==
    ASSUME IInv, DumpIndex
    PROVE  IInv'
<1> USE DEF files, locals
<1> DEFINE total == [m_total_info EXCEPT
                        !.sorted_relate_term_num = Cardinality(Relations(mTermInfo))]
<1>0. /\ pc = "dump" /\ pc' = "text"
      /\ m_total_info' = total
      /\ output' = [found |-> TRUE, TermIndex |-> mTermIndex, TermInfo |-> Renumbered(mTermInfo),
                    RelateInfo |-> Written(mTermInfo, mRelateInfo), total |-> total]
      /\ UNCHANGED <<mTermIndex, mTermInfo, mRelateInfo, mRelateIndexSlot, mNoMemory, line,
                     hmInWeibo, hash_values, i, j, data, runs, weibos>>
  BY DEF DumpIndex
<1>1. /\ mTermIndex \in Map /\ mTermInfo \in Seq(TermRec)
      /\ mRelateInfo \in Seq(RelateRec) /\ m_total_info \in Totals
  BY DEF IInv, TypeOK
<1>2. Sound(mTermIndex, mTermInfo, mRelateInfo, m_total_info)
  BY DEF IInv
<1>3. /\ total \in Totals /\ total.term_num = m_total_info.term_num
      /\ total.weibo_num = m_total_info.weibo_num
      /\ total.sorted_relate_term_num = Cardinality(Relations(mTermInfo))
  <2>1. Cardinality(Relations(mTermInfo)) \in Nat
    BY <1>1, RelationsFinite
  <2>2. QED
    BY <1>1, <2>1 DEF Totals
<1>4. Sound(mTermIndex, Renumbered(mTermInfo), Written(mTermInfo, mRelateInfo), total)
  BY <1>1, <1>2, DumpSound
<1> HIDE DEF total
<1>5. /\ Renumbered(mTermInfo) \in Seq(TermRec)
      /\ Len(Renumbered(mTermInfo)) = Len(mTermInfo)
      /\ \A n \in 1 .. Len(mTermInfo) :
            /\ Renumbered(mTermInfo)[n].df_now = mTermInfo[n].df_now
            /\ Renumbered(mTermInfo)[n].df_history = mTermInfo[n].df_history
      /\ Written(mTermInfo, mRelateInfo) \in Seq(RelateRec)
      /\ Len(Written(mTermInfo, mRelateInfo)) = Cardinality(Relations(mTermInfo))
  BY <1>1, <1>2, DumpedRelations DEF Sound
<1>6. output' \in Image
  BY <1>0, <1>1, <1>3, <1>5 DEF Image
<1>7. TypeOK'
  <2>1. mNoMemory' \in BOOLEAN
    BY <1>0 DEF IInv, TypeOK
  <2>2. QED
    BY <1>0, <1>3, <1>6, <2>1 DEF IInv, TypeOK
<1>8. LocalsOK'
  BY <1>0 DEF IInv, LocalsOK, InLine
<1>9. Sound(mTermIndex, mTermInfo, mRelateInfo, total)
  BY <1>2, <1>3 DEF Sound, Closed
<1>10. NoFreeSlots' /\ FreeSlotsOK'
  BY <1>0 DEF IInv, NoFreeSlots, FreeSlotsOK
<1>11. RoomForLine'
  BY <1>0 DEF RoomForLine, InLine
<1>12. DfBound'
  BY <1>0, <1>3 DEF IInv, DfBound, DfNow, InLine
<1>13. ImageOK(output')
  <2>1. ASSUME NEW n \in 1 .. Len(mTermInfo)
        PROVE  mTermInfo[n].df_history + mTermInfo[n].df_now <= m_total_info.weibo_num
    <3>1. n - 1 \in 0 .. Len(mTermInfo) - 1 /\ (n - 1) + 1 = n
      BY <1>1
    <3>2. PICK h \in Keys(mTermIndex) : mTermIndex[h] = n - 1
      BY <1>2, <3>1 DEF Sound, Closed
    <3>3. At(mTermInfo, n - 1).df_history + At(mTermInfo, n - 1).df_now
             <= m_total_info.weibo_num + 0
      BY <1>0, <3>2 DEF IInv, DfBound, DfNow, InLine
    <3>4. m_total_info.weibo_num + 0 = m_total_info.weibo_num
      BY <1>1 DEF Totals
    <3>5. QED
      BY <3>1, <3>3, <3>4 DEF At
  <2>2. QED
    BY <1>0, <1>3, <1>4, <1>5, <2>1 DEF ImageOK
<1>14. data'.found => ImageOK(data')
  BY <1>0 DEF IInv
<1>15. QED
  BY <1>0, <1>7, <1>8, <1>9, <1>10, <1>11, <1>12, <1>13, <1>14 DEF IInv

\* The index put in place is the one that was written.
LEMMA InstallInv ==
    ASSUME IInv, Install
    PROVE  IInv'
<1> USE DEF Install, locals, memory
<1>1. TypeOK'
  BY DEF IInv, TypeOK
<1>2. LocalsOK'
  BY DEF IInv, LocalsOK, InLine
<1>3. NoFreeSlots' /\ FreeSlotsOK'
  BY DEF IInv, NoFreeSlots, FreeSlotsOK
<1>4. RoomForLine' /\ DfBound'
  BY DEF IInv, RoomForLine, DfBound, DfNow, InLine
<1>5. QED
  BY <1>1, <1>2, <1>3, <1>4 DEF IInv

-----------------------------------------------------------------------------
(* The theorems.                                                           *)

\* Every step of main keeps the inductive invariant.
LEMMA StepInv == IInv /\ [Next]_vars => IInv'
<1> SUFFICES ASSUME IInv, [Next]_vars PROVE IInv'
  OBVIOUS
<1>1. CASE WBProcessorInit
  <2>1. runs' \in Nat
    BY <1>1 DEF IInv, TypeOK, WBProcessorInit
  <2>2. QED
    BY <1>1, <2>1, QuietInv DEF WBProcessorInit, InLine
<1>2. CASE LoadIndex
  BY <1>2, LoadIndexInv
<1>3. CASE LoadIndexFails
  BY <1>3, ExitInv DEF LoadIndexFails, files
<1>4. CASE NoHistory
  <2>1. runs' \in Nat
    BY <1>4 DEF IInv, TypeOK, NoHistory
  <2>2. QED
    BY <1>4, <2>1, QuietInv DEF NoHistory, InLine
<1>5. CASE ReadLine
  BY <1>5, ReadLineInv
<1>6. CASE FirstInLine
  BY <1>6, FirstInLineInv
<1>7. CASE TwiceInLine
  BY <1>7, TwiceInLineInv
<1>8. CASE EndOfTerms
  BY <1>8, EndOfTermsInv
<1>9. CASE AddCooc
  <2>1. CASE SkipSelf
    BY <2>1, SkipSelfInv
  <2>2. CASE CoocAgain
    BY <2>2, CoocAgainInv
  <2>3. CASE NewCooc
    BY <2>3, NewCoocInv
  <2>4. CASE \E pushed \in BOOLEAN : BadAlloc(pushed)
    <3>1. PICK pushed \in BOOLEAN : BadAlloc(pushed)
      BY <2>4
    <3>2. QED
      BY <3>1, BadAllocGivesUp, EndLineInv
  <2>5. CASE NoMemory
    <3>1. mNoMemory \in BOOLEAN
      BY DEF IInv, TypeOK
    <3>2. QED
      BY <2>5, <3>1, NoMemoryGivesUp, EndLineInv
  <2>6. CASE AddCoocReturns
    <3>1. mNoMemory \in BOOLEAN
      BY DEF IInv, TypeOK
    <3>2. QED
      BY <2>6, <3>1, EndLineInv DEF AddCoocReturns
  <2>7. QED
    BY <1>9, <2>1, <2>2, <2>3, <2>4, <2>5, <2>6 DEF AddCooc
<1>10. CASE EndOfFile
  <2>1. runs' \in Nat
    BY <1>10 DEF IInv, TypeOK, EndOfFile
  <2>2. QED
    BY <1>10, <2>1, QuietInv DEF EndOfFile, InLine
<1>11. CASE FiltIndex
  BY <1>11, FiltIndexInv
<1>12. CASE DumpIndex
  BY <1>12, DumpIndexInv
<1>13. CASE DumpIndexFails
  BY <1>13, ExitInv DEF DumpIndexFails
<1>14. CASE DumpIndexAsText
  BY <1>14, ExitInv DEF DumpIndexAsText, Flushed
<1>15. CASE Install
  BY <1>15, InstallInv
<1>16. CASE Crash
  BY <1>16, ExitInv DEF Crash, Flushed, files
<1>17. CASE UNCHANGED vars
  <2> USE <1>17 DEF vars, locals, memory, files
  <2>1. TypeOK'
    BY DEF IInv, TypeOK
  <2>2. LocalsOK'
    BY DEF IInv, LocalsOK, InLine
  <2>3. NoFreeSlots' /\ FreeSlotsOK'
    BY DEF IInv, NoFreeSlots, FreeSlotsOK
  <2>4. RoomForLine'
    BY DEF IInv, RoomForLine, DfNow, Ahead, InLine
  <2>5. DfBound'
    BY DEF IInv, DfBound, DfNow, InLine
  <2>6. Sound(mTermIndex, mTermInfo, mRelateInfo, m_total_info)'
    BY DEF IInv
  <2>7. (output'.found => ImageOK(output')) /\ (data'.found => ImageOK(data'))
    BY DEF IInv
  <2>8. QED
    BY <2>1, <2>2, <2>3, <2>4, <2>5, <2>6, <2>7 DEF IInv
<1>18. QED
  BY <1>1, <1>2, <1>3, <1>4, <1>5, <1>6, <1>7, <1>8, <1>9, <1>10, <1>11, <1>12, <1>13, <1>14, <1>15,
     <1>16, <1>17 DEF Next

\* The inductive invariant: an index that the line loop, the filter, the files
\* and the merge keep sound, with room in every relation for the present line.
THEOREM Invariance == Spec => []IInv
<1>1. QED
  BY InitInv, StepInv, PTL DEF Spec

\* Every variable keeps its type, and AddCooc's counters stay in the line.
THEOREM TypeCorrect == Spec => []TypeOK
<1>1. IInv => TypeOK
  BY DEF IInv
<1>2. QED
  BY <1>1, Invariance, PTL

\* What the invariant says of the files, whichever of them is a whole index.
LEMMA ImagesSound ==
    ASSUME IInv, NEW f \in Images
    PROVE  f \in Image /\ ImageOK(f)
BY DEF IInv, TypeOK, Images, NoIndex

\* No slot is shared by two relations or by a relation and the free list.
THEOREM SlotsAreExclusive == Spec => []SlotsExclusive
<1>1. IInv => SlotsExclusive
  <2> SUFFICES ASSUME IInv PROVE SlotsExclusive
    OBVIOUS
  <2>1. DOMAIN mRelateIndexSlot = 1 .. Len(mRelateIndexSlot)
    BY DEF IInv, TypeOK
  <2>2. QED
    BY <2>1, ImagesSound DEF IInv, SlotsExclusive, Sound, FreeSlotsOK, ImageOK
<1>2. QED
  BY <1>1, Invariance, PTL

\* Every key that the index or its files mention is an indexed term.
THEOREM IndexIsClosed == Spec => []IndexClosed
<1>1. IInv => IndexClosed
  <2> SUFFICES ASSUME IInv PROVE IndexClosed
    OBVIOUS
  <2>1. QED
    BY ImagesSound DEF IInv, IndexClosed, Sound, ImageOK
<1>2. QED
  BY <1>1, Invariance, PTL

\* relate_term_num is always the number of pairs that follow.
THEOREM RelateNumIsExact == Spec => []RelateNumExact
<1>1. IInv => RelateNumExact
  <2> SUFFICES ASSUME IInv PROVE RelateNumExact
    OBVIOUS
  <2>1. QED
    BY ImagesSound DEF IInv, RelateNumExact, Sound, ImageOK
<1>2. QED
  BY <1>1, Invariance, PTL

\* Two terms never meet more often than either occurs.
THEOREM CoocStaysWithinDf == Spec => []CoocWithinDf
<1>1. IInv => CoocWithinDf
  <2> SUFFICES ASSUME IInv PROVE CoocWithinDf
    OBVIOUS
  <2>1. QED
    BY ImagesSound DEF IInv, CoocWithinDf, Sound, ImageOK
<1>2. QED
  BY <1>1, Invariance, PTL

\* Every relation, in memory and in the files, was seen at least once.
THEOREM RelationsAreSeen == Spec => []RelationsSeen
<1>1. IInv => RelationsSeen
  <2> SUFFICES ASSUME IInv PROVE RelationsSeen
    OBVIOUS
  <2>1. QED
    BY ImagesSound DEF IInv, RelationsSeen, Sound, ImageOK
<1>2. QED
  BY <1>1, Invariance, PTL

\* No term occurs in more weibos than were counted.
THEOREM DfStaysWithinWeibos == Spec => []DfWithinWeibos
<1>1. IInv => DfWithinWeibos
  <2> SUFFICES ASSUME IInv PROVE DfWithinWeibos
    OBVIOUS
  <2>1. mTermInfo \in Seq(TermRec) /\ m_total_info.weibo_num \in Nat
    BY DEF IInv, TypeOK, Totals
  <2>2. ASSUME NEW n \in DOMAIN mTermInfo
        PROVE  mTermInfo[n].df_history + mTermInfo[n].df_now
                  <= m_total_info.weibo_num + (IF InLine THEN 1 ELSE 0)
    <3>1. n \in 1 .. Len(mTermInfo) /\ n - 1 \in 0 .. Len(mTermInfo) - 1 /\ (n - 1) + 1 = n
      BY <2>1
    <3>2. PICK h \in Keys(mTermIndex) : mTermIndex[h] = n - 1
      BY <3>1 DEF IInv, Sound, Closed
    <3>3. mTermInfo[n].df_history + mTermInfo[n].df_now
             <= m_total_info.weibo_num + (IF InLine /\ h \in hmInWeibo THEN 1 ELSE 0)
      BY <3>1, <3>2 DEF IInv, DfBound, DfNow, At
    <3>4. mTermInfo[n] \in TermRec
      BY <2>1, <3>1
    <3>5. mTermInfo[n].df_history \in Nat /\ mTermInfo[n].df_now \in Nat
      BY <3>4 DEF TermRec
    <3>6. QED
      BY <2>1, <3>3, <3>5
  <2>3. ASSUME NEW f \in Images, NEW n \in DOMAIN f.TermInfo
        PROVE  f.TermInfo[n].df_history + f.TermInfo[n].df_now <= f.total.weibo_num
    <3>1. f \in Image /\ ImageOK(f)
      BY ImagesSound
    <3>2. DOMAIN f.TermInfo = 1 .. Len(f.TermInfo)
      BY <3>1 DEF Image
    <3>3. QED
      BY <3>1, <3>2 DEF ImageOK
  <2>4. QED
    BY <2>2, <2>3 DEF DfWithinWeibos
<1>2. QED
  BY <1>1, Invariance, PTL

\* Only DumpIndex brings main to the text dump.
LEMMA TextAfterDump ==
    ASSUME IInv, [Next]_vars, pc' = "text"
    PROVE  DumpIndex \/ UNCHANGED vars
<1>1. ASSUME AddCooc PROVE pc' # "text"
  <2>1. pc = "cooc" /\ (EndLine(m_total_info) \/ NextPair)
    <3>1. CASE \E pushed \in BOOLEAN : BadAlloc(pushed)
      BY <3>1, BadAllocGivesUp
    <3>2. CASE NoMemory
      BY <3>2, NoMemoryGivesUp
    <3>3. QED
      BY <1>1, <3>1, <3>2 DEF AddCooc, SkipSelf, CoocAgain, NewCooc, FirstCooc, AtPair, AddCoocReturns
  <2>2. QED
    BY <2>1 DEF EndLine, NextPair
<1>2. QED
  BY <1>1 DEF Next, WBProcessorInit, LoadIndex, LoadIndexFails, NoHistory, ReadLine, FirstInLine,
              TwiceInLine, EndOfTerms, EndOfFile, FiltIndex, DumpIndexFails, DumpIndexAsText, Install,
              Crash, Exit

\* The renumbering of DumpIndex loses and mixes up nothing, and LoadIndex
\* accepts whatever DumpIndex wrote.
THEOREM DumpIsFaithful == Spec => []DumpFaithful
<1> DEFINE Text == pc = "text" =>
              /\ Relations(output.TermInfo) = Relations(mTermInfo)
              /\ \A r \in Relations(mTermInfo) :
                     At(output.RelateInfo, Slot(output.TermInfo, r))
                         = At(mRelateInfo, Slot(mTermInfo, r))
<1>1. Init => Text
  BY DEF Init
<1>2. IInv /\ Text /\ [Next]_vars => Text'
  <2> SUFFICES ASSUME IInv, Text, [Next]_vars, pc' = "text"
               PROVE  /\ Relations(output'.TermInfo) = Relations(mTermInfo')
                      /\ \A r \in Relations(mTermInfo') :
                            At(output'.RelateInfo, Slot(output'.TermInfo, r))
                               = At(mRelateInfo', Slot(mTermInfo', r))
    OBVIOUS
  <2>1. CASE DumpIndex
    <3>1. /\ output'.TermInfo = Renumbered(mTermInfo)
          /\ output'.RelateInfo = Written(mTermInfo, mRelateInfo)
          /\ mTermInfo' = mTermInfo /\ mRelateInfo' = mRelateInfo
      BY <2>1 DEF DumpIndex
    <3>2. /\ mTermInfo \in Seq(TermRec) /\ mRelateInfo \in Seq(RelateRec)
          /\ SlotsOK(mTermInfo, mRelateInfo)
      BY DEF IInv, TypeOK, Sound
    <3>3. QED
      BY <3>1, <3>2, DumpedRelations
  <2>2. CASE UNCHANGED vars
    BY <2>2 DEF vars, memory, files
  <2>3. QED
    BY <2>1, <2>2, TextAfterDump
<1>3. IInv /\ Text => DumpFaithful
  <2> SUFFICES ASSUME IInv, Text, NEW f \in Images
               PROVE  Accepts(f)
    BY DEF DumpFaithful
  <2>1. ImageOK(f)
    BY ImagesSound
  <2>2. QED
    BY <2>1 DEF ImageOK, Sound, SlotsOK, Closed, Accepts
<1> HIDE DEF Text
<1>4. QED
  BY <1>1, <1>2, <1>3, Invariance, PTL DEF Spec

\* RecordTerm adds no relation and removes none.
LEMMA RecordKeepsRelations ==
    ASSUME IInv, FirstInLine
    PROVE  Relations(mTermInfo') = Relations(mTermInfo)
<1> DEFINE h0 == Head(line)
<1>1. /\ mTermIndex \in Map /\ mTermInfo \in Seq(TermRec) /\ Len(mTermInfo) \in Nat
      /\ line \in Seq(Hash) /\ line # << >>
  BY DEF IInv, TypeOK, FirstInLine
<1>2. h0 \in Hash
  BY <1>1
<1>3. RecordTerm(h0)
  BY DEF FirstInLine
<1> HIDE DEF h0
<1>4. CASE mTermIndex[h0] # End
  <2> DEFINE n0 == mTermIndex[h0] + 1
  <2>1. mTermInfo' = [mTermInfo EXCEPT ![n0].df_now = @ + 1]
    BY <1>3, <1>4 DEF RecordTerm
  <2>2. h0 \in Keys(mTermIndex) /\ mTermIndex[h0] \in Nat
    BY <1>1, <1>2, <1>4 DEF Keys, Map
  <2>3. mTermIndex[h0] < Len(mTermInfo)
    BY <2>2 DEF IInv, Sound, Closed
  <2>4. n0 \in 1 .. Len(mTermInfo)
    BY <1>1, <2>2, <2>3
  <2> HIDE DEF n0
  <2>5. Len(mTermInfo') = Len(mTermInfo)
    BY <1>1, <2>1, <2>4
  <2>6. \A n \in 1 .. Len(mTermInfo) : mTermInfo'[n].cooc_term = mTermInfo[n].cooc_term
    BY <1>1, <2>1, <2>4 DEF TermRec
  <2>7. \A n \in 0 .. Len(mTermInfo) - 1 : At(mTermInfo', n).cooc_term = At(mTermInfo, n).cooc_term
    <3>1. \A n \in 0 .. Len(mTermInfo) - 1 : n + 1 \in 1 .. Len(mTermInfo)
      BY <1>1
    <3>2. QED
      BY <2>6, <3>1 DEF At
  <2>8. QED
    BY <2>5, <2>7 DEF Relations
<1>5. CASE mTermIndex[h0] = End
  <2>1. mTermInfo' = Append(mTermInfo, NewTerm)
    BY <1>3, <1>5 DEF RecordTerm
  <2>2. /\ Len(mTermInfo') = Len(mTermInfo) + 1 /\ mTermInfo'[Len(mTermInfo) + 1] = NewTerm
        /\ \A n \in 1 .. Len(mTermInfo) : mTermInfo'[n] = mTermInfo[n]
    BY <1>1, <2>1
  <2>3. \A h \in Hash : NewTerm.cooc_term[h] = End
    BY DEF NewTerm, EmptyMap
  <2>4. \A r \in (0 .. Len(mTermInfo') - 1) \X Hash :
           r \in (0 .. Len(mTermInfo) - 1) \X Hash \/ r[1] = Len(mTermInfo)
    BY <1>1, <2>2
  <2>5. \A r \in (0 .. Len(mTermInfo) - 1) \X Hash :
           /\ r \in (0 .. Len(mTermInfo') - 1) \X Hash
           /\ At(mTermInfo', r[1]) = At(mTermInfo, r[1])
    <3>1. \A n \in 0 .. Len(mTermInfo) - 1 :
             n \in 0 .. Len(mTermInfo') - 1 /\ n + 1 \in 1 .. Len(mTermInfo)
      BY <1>1, <2>2
    <3>2. QED
      BY <2>2, <3>1 DEF At
  <2>6. QED
    BY <2>2, <2>3, <2>4, <2>5 DEF Relations, At
<1>6. QED
  BY <1>4, <1>5

\* After a failed allocation the relations of the run are frozen until FiltIndex.
THEOREM FrozenWithoutMemory == Spec => FrozenAfterNoMemory
<1> DEFINE Frozen == (mNoMemory' /\ pc \in {"lines", "terms", "cooc"}) =>
                         Relations(mTermInfo') = Relations(mTermInfo)
<1>1. IInv /\ [Next]_vars => [Frozen]_vars
  <2> SUFFICES ASSUME IInv, Next, mNoMemory', pc \in {"lines", "terms", "cooc"}
               PROVE  Relations(mTermInfo') = Relations(mTermInfo)
    OBVIOUS
  <2>1. CASE FirstInLine
    BY <2>1, RecordKeepsRelations
  <2>2. CASE \E pushed \in BOOLEAN : BadAlloc(pushed)
    BY <2>2, BadAllocGivesUp
  <2>3. CASE NoMemory
    BY <2>3, NoMemoryGivesUp
  <2>4. CASE SkipSelf \/ CoocAgain \/ AddCoocReturns
    BY <2>4 DEF SkipSelf, CoocAgain, AddCoocReturns, memory
  <2>5. ~NewCooc /\ ~Exit
    BY DEF NewCooc, Exit
  <2>6. CASE ReadLine \/ TwiceInLine \/ EndOfTerms \/ EndOfFile
    BY <2>6 DEF ReadLine, TwiceInLine, EndOfTerms, EndOfFile, memory
  <2>7. QED
    BY <2>1, <2>2, <2>3, <2>4, <2>5, <2>6 DEF Next, AddCooc, WBProcessorInit, LoadIndex, LoadIndexFails,
       NoHistory, FiltIndex, DumpIndex, DumpIndexFails, DumpIndexAsText, Install, Crash
<1>2. QED
  BY <1>1, Invariance, PTL DEF Spec, FrozenAfterNoMemory

-----------------------------------------------------------------------------
(* The counts of one term and of one pair of terms.                        *)

DfNowIn(index, terms, h) == IF index[h] = End THEN 0 ELSE At(terms, index[h]).df_now
DfHisIn(index, terms, h) == IF index[h] = End THEN 0 ELSE At(terms, index[h]).df_history

Unmet == [num_history |-> 0, num_now |-> 0]

Cell(index, terms, relate, g, h) ==
    IF index[g] = End THEN Unmet
    ELSE IF At(terms, index[g]).cooc_term[h] = End THEN Unmet
    ELSE At(relate, At(terms, index[g]).cooc_term[h])

\* The counts are numbers, and those of a pair lie in the slot of its relation.
LEMMA CellType ==
    ASSUME NEW index \in Map, NEW terms \in Seq(TermRec), NEW relate \in Seq(RelateRec),
           NEW total \in Totals, Sound(index, terms, relate, total),
           NEW g \in Hash, NEW h \in Hash
    PROVE  /\ DfNowIn(index, terms, g) \in Nat /\ DfHisIn(index, terms, g) \in Nat
           /\ Cell(index, terms, relate, g, h) \in RelateRec
           /\ index[g] # End => /\ index[g] \in Nat /\ index[g] < Len(terms)
                                /\ index[g] \in 0 .. Len(terms) - 1
                                /\ index[g] + 1 \in 1 .. Len(terms)
                                /\ At(terms, index[g]) \in TermRec
           /\ Cell(index, terms, relate, g, h)
                 = IF index[g] # End /\ <<index[g], h>> \in Relations(terms)
                   THEN At(relate, Slot(terms, <<index[g], h>>)) ELSE Unmet
<1>1. Unmet \in RelateRec /\ SlotsOK(terms, relate) /\ Closed(index, terms, total)
  BY DEF Unmet, RelateRec, Sound
<1>2. CASE index[g] = End
  BY <1>1, <1>2 DEF DfNowIn, DfHisIn, Cell
<1>3. CASE index[g] # End
  <2>1. index[g] \in Nat /\ index[g] < Len(terms)
    BY <1>1, <1>3 DEF Closed, Keys, Map
  <2>2. index[g] \in 0 .. Len(terms) - 1 /\ index[g] + 1 \in 1 .. Len(terms)
    BY <2>1
  <2>3. At(terms, index[g]) \in TermRec
    BY <2>2 DEF At
  <2>4. DfNowIn(index, terms, g) \in Nat /\ DfHisIn(index, terms, g) \in Nat
    BY <1>3, <2>3 DEF DfNowIn, DfHisIn, TermRec
  <2>5. /\ <<index[g], h>> \in Relations(terms) <=> At(terms, index[g]).cooc_term[h] # End
        /\ Slot(terms, <<index[g], h>>) = At(terms, index[g]).cooc_term[h]
    BY <2>2, RelationOf
  <2>6. Cell(index, terms, relate, g, h)
           = IF <<index[g], h>> \in Relations(terms)
             THEN At(relate, Slot(terms, <<index[g], h>>)) ELSE Unmet
    BY <1>3, <2>5 DEF Cell
  <2>7. \A r \in Relations(terms) : At(relate, Slot(terms, r)) \in RelateRec
    <3>1. \A r \in Relations(terms) : Slot(terms, r) \in Nat /\ Slot(terms, r) < Len(relate)
      BY <1>1, RelationOf DEF SlotsOK
    <3>2. \A k \in Nat : k < Len(relate) => At(relate, k) \in RelateRec
      BY DEF At
    <3>3. QED
      BY <3>1, <3>2
  <2>8. QED
    BY <1>1, <1>3, <2>1, <2>2, <2>3, <2>4, <2>6, <2>7
<1>4. QED
  BY <1>2, <1>3

\* The pairs keep their counts when the relations, the numbers of their terms
\* and the contents of their slots stay as they are.
LEMMA CellsKept ==
    ASSUME NEW index \in Map, NEW terms \in Seq(TermRec), NEW relate \in Seq(RelateRec),
           NEW total \in Totals, Sound(index, terms, relate, total),
           NEW index2 \in Map, NEW terms2 \in Seq(TermRec), NEW relate2 \in Seq(RelateRec),
           NEW total2 \in Totals, Sound(index2, terms2, relate2, total2),
           Relations(terms2) = Relations(terms),
           \A r \in Relations(terms) :
              At(relate2, Slot(terms2, r)) = At(relate, Slot(terms, r)),
           NEW g \in Hash, NEW h \in Hash,
           index[g] # End => index2[g] = index[g],
           index[g] = End => index2[g] \notin 0 .. Len(terms) - 1
    PROVE  Cell(index2, terms2, relate2, g, h) = Cell(index, terms, relate, g, h)
<1>1. \A r \in Relations(terms) : r[1] \in 0 .. Len(terms) - 1
  BY RelationOf
<1>2. index[g] = End => <<index2[g], h>> \notin Relations(terms)
  BY <1>1
<1>3. /\ Cell(index, terms, relate, g, h)
            = IF index[g] # End /\ <<index[g], h>> \in Relations(terms)
              THEN At(relate, Slot(terms, <<index[g], h>>)) ELSE Unmet
      /\ Cell(index2, terms2, relate2, g, h)
            = IF index2[g] # End /\ <<index2[g], h>> \in Relations(terms2)
              THEN At(relate2, Slot(terms2, <<index2[g], h>>)) ELSE Unmet
  BY CellType
<1> DEFINE c1 == Cell(index, terms, relate, g, h)
           c2 == Cell(index2, terms2, relate2, g, h)
           R == Relations(terms)
<1> HIDE DEF c1, c2, R
<1>4. CASE index[g] = End
  BY <1>2, <1>3, <1>4, Zenon DEF c1, c2, R
<1>5. CASE index[g] # End
  <2>1. CASE <<index[g], h>> \in R
    BY <1>3, <1>5, <2>1, Zenon DEF c1, c2, R
  <2>2. CASE <<index[g], h>> \notin R
    BY <1>3, <1>5, <2>2, Zenon DEF c1, c2, R
  <2>3. QED
    BY <2>1, <2>2
<1>6. QED
  BY <1>4, <1>5 DEF c1, c2


-----------------------------------------------------------------------------
(* What the steps of a line do to the counts.                              *)

Df(h) == DfNowIn(mTermIndex, mTermInfo, h)
DfOld(h) == DfHisIn(mTermIndex, mTermInfo, h)
Rel(g, h) == Cell(mTermIndex, mTermInfo, mRelateInfo, g, h)

\* The types that the invariant gives.
LEMMA MemoryTypes ==
    ASSUME IInv
    PROVE  /\ mTermIndex \in Map /\ mTermInfo \in Seq(TermRec) /\ Len(mTermInfo) \in Nat
           /\ mRelateInfo \in Seq(RelateRec) /\ Len(mRelateInfo) \in Nat
           /\ m_total_info \in Totals
           /\ Sound(mTermIndex, mTermInfo, mRelateInfo, m_total_info)
           /\ \A g \in Hash : Df(g) \in Nat /\ DfOld(g) \in Nat
           /\ \A g, h \in Hash : Rel(g, h) \in RelateRec
<1>1. /\ mTermIndex \in Map /\ mTermInfo \in Seq(TermRec) /\ mRelateInfo \in Seq(RelateRec)
      /\ m_total_info \in Totals /\ Sound(mTermIndex, mTermInfo, mRelateInfo, m_total_info)
  BY DEF IInv, TypeOK
<1>2. Len(mTermInfo) \in Nat /\ Len(mRelateInfo) \in Nat
  BY <1>1
<1>3. QED
  BY <1>1, <1>2, CellType DEF Df, DfOld, Rel

\* RecordTerm counts the term once more today and leaves everything else.
LEMMA FirstInLineCounts ==
    ASSUME IInv, FirstInLine
    PROVE  /\ Head(line) \in Hash
           /\ \A h \in Hash : Df(h)' = Df(h) + (IF h = Head(line) THEN 1 ELSE 0)
           /\ \A h \in Hash : DfOld(h)' = DfOld(h)
           /\ \A g, h \in Hash : Rel(g, h)' = Rel(g, h)
<1> DEFINE h0 == Head(line)
           N == Len(mTermInfo)
<1>1. /\ line \in Seq(Hash) /\ line # << >>
      /\ mRelateInfo' = mRelateInfo /\ RecordTerm(h0)
  BY DEF IInv, TypeOK, FirstInLine
<1>2. h0 \in Hash
  BY <1>1
<1>3. /\ mTermIndex \in Map /\ mTermInfo \in Seq(TermRec) /\ N \in Nat
      /\ mRelateInfo \in Seq(RelateRec) /\ m_total_info \in Totals
      /\ Sound(mTermIndex, mTermInfo, mRelateInfo, m_total_info)
  BY MemoryTypes
<1>4. IInv'
  BY FirstInLineInv
<1>5. /\ mTermIndex' \in Map /\ mTermInfo' \in Seq(TermRec)
      /\ mRelateInfo' \in Seq(RelateRec) /\ m_total_info' \in Totals
      /\ Sound(mTermIndex', mTermInfo', mRelateInfo', m_total_info')
  BY <1>4 DEF IInv, TypeOK
<1>6. Relations(mTermInfo') = Relations(mTermInfo)
  BY RecordKeepsRelations
<1>7. \A h \in Hash : mTermIndex[h] # End => mTermIndex[h] \in 0 .. N - 1 /\ mTermIndex[h] + 1 \in 1 .. N
                                             /\ mTermIndex[h] \in Nat
                                             /\ At(mTermInfo, mTermIndex[h]) \in TermRec
  BY <1>3, CellType
<1> HIDE DEF h0
<1>8. CASE mTermIndex[h0] # End
  <2> DEFINE n0 == mTermIndex[h0] + 1
             new == [mTermInfo[n0] EXCEPT !.df_now = mTermInfo[n0].df_now + 1]
  <2>1. mTermIndex' = mTermIndex /\ mTermInfo' = [mTermInfo EXCEPT ![n0] = new]
    BY <1>1, <1>8 DEF RecordTerm
  <2>2. n0 \in 1 .. N /\ mTermInfo[n0] \in TermRec
    BY <1>2, <1>3, <1>7, <1>8
  <2>3. /\ new.df_now = mTermInfo[n0].df_now + 1 /\ new.df_history = mTermInfo[n0].df_history
        /\ new.cooc_term = mTermInfo[n0].cooc_term
    BY <2>2 DEF TermRec
  <2> HIDE DEF n0, new
  <2>4. mTermInfo'[n0] = new /\ \A n \in 1 .. N : n # n0 => mTermInfo'[n] = mTermInfo[n]
    BY <1>3, <2>1, <2>2
  <2>5. \A h \in Hash : mTermIndex[h] # End /\ mTermIndex[h] + 1 = n0 => h = h0
    <3>1. \A g, h \in Keys(mTermIndex) : mTermIndex[g] = mTermIndex[h] => g = h
      BY <1>3 DEF Sound, Closed
    <3>2. \A h \in Hash : mTermIndex[h] # End /\ mTermIndex[h] + 1 = n0 => mTermIndex[h] = mTermIndex[h0]
      BY <1>2, <1>7, <1>8 DEF n0
    <3>3. QED
      BY <1>2, <1>8, <3>1, <3>2 DEF Keys
  <2>6. ASSUME NEW h \in Hash
        PROVE  /\ Df(h)' = Df(h) + (IF h = h0 THEN 1 ELSE 0)
               /\ DfOld(h)' = DfOld(h)
    <3>1. CASE mTermIndex[h] = End
      BY <1>8, <2>1, <3>1 DEF Df, DfOld, DfNowIn, DfHisIn
    <3>2. CASE h = h0
      BY <1>8, <2>1, <2>3, <2>4, <3>2 DEF Df, DfOld, DfNowIn, DfHisIn, n0, At
    <3>3. CASE mTermIndex[h] # End /\ h # h0
      <4>1. mTermInfo'[mTermIndex[h] + 1] = mTermInfo[mTermIndex[h] + 1]
        BY <1>7, <2>4, <2>5, <3>3
      <4>2. Df(h)' = Df(h) /\ DfOld(h)' = DfOld(h) /\ Df(h) \in Nat
        BY <2>1, <3>3, <4>1, MemoryTypes DEF Df, DfOld, DfNowIn, DfHisIn, At
      <4>3. QED
        BY <3>3, <4>2
    <3>4. QED
      BY <3>1, <3>2, <3>3
  <2>7. ASSUME NEW r \in Relations(mTermInfo)
        PROVE  Slot(mTermInfo', r) = Slot(mTermInfo, r)
    <3>1. r[1] + 1 \in 1 .. N
      BY <1>3, RelationOf
    <3>2. mTermInfo'[r[1] + 1].cooc_term = mTermInfo[r[1] + 1].cooc_term
      BY <2>3, <2>4, <3>1
    <3>3. QED
      BY <3>2 DEF Slot, At
  <2>8. \A r \in Relations(mTermInfo) :
           At(mRelateInfo', Slot(mTermInfo', r)) = At(mRelateInfo, Slot(mTermInfo, r))
    BY <1>1, <2>7
  <2>9. ASSUME NEW g \in Hash, NEW h \in Hash
        PROVE  Rel(g, h)' = Rel(g, h)
    <3>1. mTermIndex[g] = End => mTermIndex'[g] \notin 0 .. Len(mTermInfo) - 1
      BY <1>3, <2>1 DEF End
    <3>2. mTermIndex[g] # End => mTermIndex'[g] = mTermIndex[g]
      BY <2>1
    <3>3. QED
      BY <1>3, <1>5, <1>6, <2>8, <3>1, <3>2, CellsKept DEF Rel
  <2>10. QED
    BY <1>2, <2>6, <2>9 DEF h0
<1>9. CASE mTermIndex[h0] = End
  <2>1. /\ mTermIndex' = [mTermIndex EXCEPT ![h0] = N]
        /\ mTermInfo' = Append(mTermInfo, NewTerm)
    BY <1>1, <1>3, <1>9 DEF RecordTerm, Sound, Closed
  <2>2. /\ mTermIndex'[h0] = N /\ N # End
        /\ \A h \in Hash : h # h0 => mTermIndex'[h] = mTermIndex[h]
    BY <1>2, <1>3, <2>1 DEF Map, End
  <2>3. mTermInfo'[N + 1] = NewTerm /\ \A n \in 1 .. N : mTermInfo'[n] = mTermInfo[n]
    BY <1>3, <2>1
  <2>4. ASSUME NEW h \in Hash
        PROVE  /\ Df(h)' = Df(h) + (IF h = h0 THEN 1 ELSE 0)
               /\ DfOld(h)' = DfOld(h)
    <3>1. CASE h = h0
      BY <1>9, <2>2, <2>3, <3>1 DEF Df, DfOld, DfNowIn, DfHisIn, NewTerm, At
    <3>2. CASE mTermIndex[h] = End /\ h # h0
      BY <2>2, <3>2 DEF Df, DfOld, DfNowIn, DfHisIn
    <3>3. CASE mTermIndex[h] # End /\ h # h0
      <4>1. mTermInfo'[mTermIndex[h] + 1] = mTermInfo[mTermIndex[h] + 1]
        BY <1>7, <2>3, <3>3
      <4>2. Df(h)' = Df(h) /\ DfOld(h)' = DfOld(h) /\ Df(h) \in Nat
        BY <2>2, <3>3, <4>1, MemoryTypes DEF Df, DfOld, DfNowIn, DfHisIn, At
      <4>3. QED
        BY <3>3, <4>2
    <3>4. QED
      BY <3>1, <3>2, <3>3
  <2>5. ASSUME NEW r \in Relations(mTermInfo)
        PROVE  At(mRelateInfo', Slot(mTermInfo', r)) = At(mRelateInfo, Slot(mTermInfo, r))
    <3>1. r[1] + 1 \in 1 .. N
      BY <1>3, RelationOf
    <3>2. mTermInfo'[r[1] + 1] = mTermInfo[r[1] + 1]
      BY <2>3, <3>1
    <3>3. QED
      BY <1>1, <3>2 DEF Slot, At
  <2>6. ASSUME NEW g \in Hash, NEW h \in Hash
        PROVE  Rel(g, h)' = Rel(g, h)
    <3>1. mTermIndex[g] = End => mTermIndex'[g] \notin 0 .. N - 1
      <4>1. N \notin 0 .. N - 1 /\ End \notin 0 .. N - 1
        BY <1>3 DEF End
      <4>2. QED
        BY <2>2, <4>1
    <3>2. mTermIndex[g] # End => mTermIndex'[g] = mTermIndex[g]
      BY <1>9, <2>2
    <3>3. QED
      BY <1>3, <1>5, <1>6, <2>5, <3>1, <3>2, CellsKept DEF Rel
  <2>7. QED
    BY <1>2, <2>4, <2>6 DEF h0
<1>10. QED
  BY <1>8, <1>9

\* A pair that met before counts once more, and no other pair does.
LEMMA CoocAgainCounts ==
    ASSUME IInv, CoocAgain
    PROVE  /\ \A h \in Hash : Df(h)' = Df(h) /\ DfOld(h)' = DfOld(h)
           /\ \A g, h \in Hash :
                 Rel(g, h)' = IF g = At(hash_values, i) /\ h = At(hash_values, j)
                              THEN [Rel(g, h) EXCEPT !.num_now = @ + 1] ELSE Rel(g, h)
<1> DEFINE g0 == At(hash_values, i)
           h0 == At(hash_values, j)
           r0 == <<mTermIndex[g0], h0>>
           k0 == Slot(mTermInfo, r0)
           old == mRelateInfo[k0 + 1]
           new == [old EXCEPT !.num_now = @ + 1]
<1>1. /\ pc = "cooc" /\ i < Len(hash_values) /\ NextPair
      /\ At(mTermInfo, mTermIndex[g0]).cooc_term[h0] # End
      /\ mTermIndex' = mTermIndex /\ mTermInfo' = mTermInfo
  BY DEF CoocAgain, AtPair, Here, Other
<1>2. /\ mTermIndex \in Map /\ mTermInfo \in Seq(TermRec) /\ Len(mTermInfo) \in Nat
      /\ mRelateInfo \in Seq(RelateRec) /\ m_total_info \in Totals
      /\ Sound(mTermIndex, mTermInfo, mRelateInfo, m_total_info)
      /\ SlotsOK(mTermInfo, mRelateInfo)
  BY MemoryTypes DEF Sound
<1>3. /\ g0 \in Hash /\ h0 \in Hash /\ mTermIndex[g0] \in 0 .. Len(mTermInfo) - 1
      /\ g0 \in Keys(mTermIndex)
  BY <1>1, NextPairAdvances, Positions
<1>4. r0 \in Relations(mTermInfo) /\ k0 = At(mTermInfo, mTermIndex[g0]).cooc_term[h0]
  BY <1>1, <1>2, <1>3, RelationOf
<1>5. mRelateInfo' = [mRelateInfo EXCEPT ![k0 + 1].num_now = @ + 1]
  BY <1>4 DEF CoocAgain, Here, Other
<1>6. \A r \in Relations(mTermInfo) :
         /\ Slot(mTermInfo, r) \in Nat /\ Slot(mTermInfo, r) < Len(mRelateInfo)
         /\ Slot(mTermInfo, r) = k0 => r = r0
  BY <1>2, <1>4, RelationOf DEF SlotsOK
<1> HIDE DEF r0, k0
<1>7. k0 + 1 \in 1 .. Len(mRelateInfo) /\ old \in RelateRec /\ k0 \in Nat
  BY <1>2, <1>4, <1>6 DEF k0
<1>8. mRelateInfo'[k0 + 1] = new
      /\ \A n \in 1 .. Len(mRelateInfo) : n # k0 + 1 => mRelateInfo'[n] = mRelateInfo[n]
  BY <1>2, <1>5, <1>7, SMTT(30)
<1> HIDE DEF new
<1>9. ASSUME NEW r \in Relations(mTermInfo)
      PROVE  At(mRelateInfo', Slot(mTermInfo, r))
                = IF r = r0 THEN new ELSE At(mRelateInfo, Slot(mTermInfo, r))
  <2>1. Slot(mTermInfo, r) + 1 \in 1 .. Len(mRelateInfo)
        /\ (Slot(mTermInfo, r) + 1 = k0 + 1 => Slot(mTermInfo, r) = k0)
    BY <1>6, <1>7
  <2>2. QED
    BY <1>6, <1>8, <2>1 DEF At, k0
<1>10. IInv'
  BY CoocAgainInv
<1>11. /\ mRelateInfo' \in Seq(RelateRec) /\ m_total_info' \in Totals
       /\ Sound(mTermIndex, mTermInfo, mRelateInfo', m_total_info')
  BY <1>1, <1>10 DEF IInv, TypeOK
<1>12. ASSUME NEW g \in Hash, NEW h \in Hash
       PROVE  Rel(g, h)' = IF g = g0 /\ h = h0 THEN [Rel(g, h) EXCEPT !.num_now = @ + 1]
                           ELSE Rel(g, h)
  <2> DEFINE r == <<mTermIndex[g], h>>
  <2>1. /\ Rel(g, h) = IF mTermIndex[g] # End /\ r \in Relations(mTermInfo)
                       THEN At(mRelateInfo, Slot(mTermInfo, r)) ELSE Unmet
        /\ Rel(g, h)' = IF mTermIndex[g] # End /\ r \in Relations(mTermInfo)
                        THEN At(mRelateInfo', Slot(mTermInfo, r)) ELSE Unmet
    BY <1>1, <1>2, <1>11, CellType DEF Rel
  <2>2. CASE g = g0 /\ h = h0
    <3>1. mTermIndex[g] # End /\ r = r0
      BY <1>3, <2>2 DEF Keys, r0
    <3>2. Rel(g, h) = old /\ Rel(g, h)' = new
      <4>1. At(mRelateInfo, k0) = old
        BY DEF At
      <4>2. QED
        BY <1>4, <1>9, <2>1, <3>1, <4>1 DEF k0
    <3>3. QED
      BY <2>2, <3>2 DEF new
  <2>3. CASE ~(g = g0 /\ h = h0)
    <3>1. ASSUME mTermIndex[g] # End PROVE r # r0
      <4>1. mTermIndex[g] = mTermIndex[g0] => g = g0
        BY <1>2, <1>3, <3>1 DEF Sound, Closed, Keys
      <4>2. QED
        BY <2>3, <4>1 DEF r0
    <3>2. Rel(g, h)' = Rel(g, h)
      <4> HIDE DEF r
      <4>1. QED
        BY <1>9, <2>1, <3>1
    <3>3. QED
      BY <2>3, <3>2
  <2>4. QED
    BY <2>2, <2>3
<1>13. \A h \in Hash : Df(h)' = Df(h) /\ DfOld(h)' = DfOld(h)
  BY <1>1 DEF Df, DfOld, DfNowIn, DfHisIn
<1>14. QED
  BY <1>12, <1>13

\* A pair that meets for the first time counts 1 today; no other pair changes.
LEMMA NewCoocCounts ==
    ASSUME IInv, NewCooc
    PROVE  /\ \A h \in Hash : Df(h)' = Df(h) /\ DfOld(h)' = DfOld(h)
           /\ \A g, h \in Hash :
                 Rel(g, h)' = IF g = At(hash_values, i) /\ h = At(hash_values, j)
                              THEN [Rel(g, h) EXCEPT !.num_now = @ + 1] ELSE Rel(g, h)
           /\ Cardinality(Relations(mTermInfo')) = Cardinality(Relations(mTermInfo)) + 1
<1> DEFINE g0 == At(hash_values, i)
           h0 == At(hash_values, j)
           r0 == <<mTermIndex[g0], h0>>
           R == Relations(mTermInfo)
<1>1. /\ pc = "cooc" /\ i < Len(hash_values) /\ NextPair
      /\ At(mTermInfo, Here).cooc_term[Other] = End
      /\ mTermIndex' = mTermIndex /\ mTermInfo' = Linked(mTermInfo, Len(mRelateInfo))
      /\ mRelateInfo' = Append(mRelateInfo, NewRelation)
      /\ Here = mTermIndex[g0] /\ Other = h0
  BY DEF NewCooc, FirstCooc, AtPair, Here, Other, NextSlot
<1>2. /\ mTermIndex \in Map /\ mTermInfo \in Seq(TermRec) /\ Len(mTermInfo) \in Nat
      /\ mRelateInfo \in Seq(RelateRec) /\ m_total_info \in Totals /\ Len(mRelateInfo) \in Nat
      /\ Sound(mTermIndex, mTermInfo, mRelateInfo, m_total_info)
      /\ SlotsOK(mTermInfo, mRelateInfo) /\ Counted(mTermInfo)
  BY MemoryTypes DEF Sound
<1>3. /\ g0 \in Hash /\ h0 \in Hash /\ mTermIndex[g0] \in 0 .. Len(mTermInfo) - 1
      /\ g0 \in Keys(mTermIndex)
  BY <1>1, NextPairAdvances, Positions
<1>4. /\ Len(mTermInfo') = Len(mTermInfo)
      /\ \A n \in 1 .. Len(mTermInfo) : /\ mTermInfo'[n].df_now = mTermInfo[n].df_now
                                        /\ mTermInfo'[n].df_history = mTermInfo[n].df_history
      /\ <<Here, Other>> \notin R
      /\ Relations(mTermInfo') = R \cup {<<Here, Other>>}
      /\ Slot(mTermInfo', <<Here, Other>>) = Len(mRelateInfo)
      /\ \A r \in R : Slot(mTermInfo', r) = Slot(mTermInfo, r)
  <2>1. Here \in 0 .. Len(mTermInfo) - 1 /\ Other \in Hash
    BY <1>1, <1>3
  <2>2. /\ At(mTermInfo, Here).cooc_term[Other] = End
        /\ mTermInfo' = Linked(mTermInfo, Len(mRelateInfo))
    BY <1>1
  <2>3. QED
    BY <1>2, <2>1, <2>2, LinkedTerms
<1>5. /\ r0 \notin R /\ Relations(mTermInfo') = R \cup {r0}
      /\ Slot(mTermInfo', r0) = Len(mRelateInfo)
      /\ \A r \in R : Slot(mTermInfo', r) = Slot(mTermInfo, r)
  BY <1>1, <1>4
<1>6. IsFiniteSet(R) /\ Cardinality(R) \in Nat
  BY <1>2, RelationsFinite
<1>7. Cardinality(Relations(mTermInfo')) = Cardinality(R) + 1
  BY <1>5, <1>6, FS_AddElement
<1>8. \A r \in R : Slot(mTermInfo, r) \in Nat /\ Slot(mTermInfo, r) < Len(mRelateInfo)
  BY <1>2, RelationOf DEF SlotsOK
<1>9. /\ At(mRelateInfo', Len(mRelateInfo)) = NewRelation
      /\ \A k \in Nat : k < Len(mRelateInfo) => At(mRelateInfo', k) = At(mRelateInfo, k)
  BY <1>1, <1>2 DEF At
<1>10. IInv'
  BY NewCoocInv
<1>11. /\ mTermInfo' \in Seq(TermRec) /\ mRelateInfo' \in Seq(RelateRec)
       /\ m_total_info' \in Totals /\ mTermIndex' = mTermIndex
       /\ Sound(mTermIndex, mTermInfo', mRelateInfo', m_total_info')
  BY <1>1, <1>10 DEF IInv, TypeOK
<1> HIDE DEF r0, R
<1>12. ASSUME NEW g \in Hash, NEW h \in Hash
       PROVE  Rel(g, h)' = IF g = g0 /\ h = h0 THEN [Rel(g, h) EXCEPT !.num_now = @ + 1]
                           ELSE Rel(g, h)
  <2> DEFINE r == <<mTermIndex[g], h>>
  <2>1. /\ Rel(g, h) = IF mTermIndex[g] # End /\ r \in R
                       THEN At(mRelateInfo, Slot(mTermInfo, r)) ELSE Unmet
        /\ Rel(g, h)' = IF mTermIndex[g] # End /\ r \in Relations(mTermInfo')
                        THEN At(mRelateInfo', Slot(mTermInfo', r)) ELSE Unmet
    BY <1>2, <1>11, CellType DEF Rel, R
  <2>2. CASE g = g0 /\ h = h0
    <3>1. mTermIndex[g] # End /\ r = r0
      BY <1>3, <2>2 DEF Keys, r0
    <3> HIDE DEF r
    <3>2. Rel(g, h) = Unmet
      BY <1>5, <2>1, <3>1
    <3>3. Rel(g, h)' = NewRelation
      BY <1>5, <1>9, <2>1, <3>1
    <3>4. NewRelation = [Unmet EXCEPT !.num_now = @ + 1]
      BY DEF NewRelation, Unmet
    <3>5. QED
      BY <2>2, <3>2, <3>3, <3>4
  <2>3. CASE ~(g = g0 /\ h = h0)
    <3>1. ASSUME mTermIndex[g] # End PROVE r # r0
      <4>1. mTermIndex[g] = mTermIndex[g0] => g = g0
        BY <1>2, <1>3, <3>1 DEF Sound, Closed, Keys
      <4>2. QED
        BY <2>3, <4>1 DEF r0
    <3> HIDE DEF r
    <3>2. r \in R => At(mRelateInfo', Slot(mTermInfo', r)) = At(mRelateInfo, Slot(mTermInfo, r))
      BY <1>5, <1>8, <1>9
    <3>3. Rel(g, h)' = Rel(g, h)
      <4>1. CASE mTermIndex[g] = End
        BY <2>1, <4>1
      <4>2. CASE mTermIndex[g] # End
        <5>1. r \in Relations(mTermInfo') <=> r \in R
          BY <1>5, <3>1, <4>2
        <5>2. QED
          BY <2>1, <3>2, <4>2, <5>1
      <4>3. QED
        BY <4>1, <4>2
    <3>4. QED
      BY <2>3, <3>3
  <2>4. QED
    BY <2>2, <2>3
<1>13. ASSUME NEW h \in Hash
       PROVE  Df(h)' = Df(h) /\ DfOld(h)' = DfOld(h)
  <2>1. mTermIndex[h] # End => mTermIndex[h] + 1 \in 1 .. Len(mTermInfo)
    BY <1>2, CellType
  <2>2. QED
    BY <1>1, <1>4, <2>1 DEF Df, DfOld, DfNowIn, DfHisIn, At
<1>14. QED
  BY <1>7, <1>12, <1>13 DEF R

\* When AddCooc gives up or returns, the counts stay, also if mRelateInfo has
\* grown by a slot that no relation uses.
LEMMA EndLineCounts ==
    ASSUME IInv, IInv', UNCHANGED <<mTermIndex, mTermInfo>>,
           mRelateInfo' \in {mRelateInfo, Append(mRelateInfo, NewRelation)}
    PROVE  /\ \A h \in Hash : Df(h)' = Df(h) /\ DfOld(h)' = DfOld(h)
           /\ \A g, h \in Hash : Rel(g, h)' = Rel(g, h)
<1>1. /\ mTermIndex \in Map /\ mTermInfo \in Seq(TermRec) /\ Len(mTermInfo) \in Nat
      /\ mRelateInfo \in Seq(RelateRec) /\ m_total_info \in Totals /\ Len(mRelateInfo) \in Nat
      /\ Sound(mTermIndex, mTermInfo, mRelateInfo, m_total_info)
      /\ SlotsOK(mTermInfo, mRelateInfo)
  BY MemoryTypes DEF Sound
<1>2. /\ mRelateInfo' \in Seq(RelateRec) /\ m_total_info' \in Totals
      /\ Sound(mTermIndex, mTermInfo, mRelateInfo', m_total_info')
  BY DEF IInv, TypeOK
<1>3. \A r \in Relations(mTermInfo) :
         Slot(mTermInfo, r) \in Nat /\ Slot(mTermInfo, r) < Len(mRelateInfo)
  BY <1>1, RelationOf DEF SlotsOK
<1>4. \A k \in Nat : k < Len(mRelateInfo) => At(mRelateInfo', k) = At(mRelateInfo, k)
  BY <1>1 DEF At
<1>5. \A r \in Relations(mTermInfo) :
         At(mRelateInfo', Slot(mTermInfo, r)) = At(mRelateInfo, Slot(mTermInfo, r))
  BY <1>3, <1>4
<1>6. ASSUME NEW g \in Hash, NEW h \in Hash
      PROVE  Rel(g, h)' = Rel(g, h)
  <2>1. mTermIndex[g] = End => mTermIndex[g] \notin 0 .. Len(mTermInfo) - 1
    BY <1>1 DEF End
  <2>2. QED
    BY <1>1, <1>2, <1>5, <2>1, CellsKept DEF Rel
<1>7. QED
  BY <1>6 DEF Df, DfOld, DfNowIn, DfHisIn

-----------------------------------------------------------------------------
(* The pairs of the line that AddCooc has passed.                          *)

\* Only two different terms of the line are a pair that has been passed.
LEMMA PassedInLine ==
    ASSUME IInv, NEW g \in Hash, NEW h \in Hash, Passed(g, h)
    PROVE  pc = "cooc" /\ g # h /\ g \in hmInWeibo /\ h \in hmInWeibo
<1>1. pc = "cooc"
  BY DEF Passed
<1>2. PICK p \in 0 .. Len(hash_values) - 1, q \in 0 .. Len(hash_values) - 1 :
         p # q /\ At(hash_values, p) = g /\ At(hash_values, q) = h
  BY DEF Passed
<1>3. QED
  BY <1>1, <1>2, Positions

\* Before the first pair nothing has been passed.
LEMMA NothingPassed ==
    ASSUME pc # "cooc" \/ (i = 0 /\ j = 0), NEW g, NEW h
    PROVE  ~Passed(g, h)
<1>1. \A p, q \in Nat : p # q /\ i = 0 /\ j = 0 => Ahead(p, q)
  BY DEF Ahead
<1>2. \A n \in 0 .. Len(hash_values) - 1 : n \in Nat
  OBVIOUS
<1>3. QED
  BY <1>1, <1>2 DEF Passed

\* After the last one every pair of the line has.
LEMMA AllPassed ==
    ASSUME IInv, pc = "cooc", i >= Len(hash_values), NEW g \in Hash, NEW h \in Hash
    PROVE  Passed(g, h) <=> g # h /\ {g, h} \subseteq hmInWeibo
<1>1. ASSUME g # h, {g, h} \subseteq hmInWeibo
      PROVE  Passed(g, h)
  <2>1. /\ hash_values \in Seq(Hash) /\ Len(hash_values) \in Nat /\ i \in 0 .. Len(hash_values)
        /\ hmInWeibo = {hash_values[n] : n \in 1 .. Len(hash_values)}
    BY DEF IInv, TypeOK, LocalsOK, InLine
  <2>2. PICK m \in 1 .. Len(hash_values), n \in 1 .. Len(hash_values) :
           hash_values[m] = g /\ hash_values[n] = h
    BY <1>1, <2>1
  <2> DEFINE p == m - 1
             q == n - 1
  <2>3. /\ p \in 0 .. Len(hash_values) - 1 /\ q \in 0 .. Len(hash_values) - 1
        /\ p + 1 = m /\ q + 1 = n /\ p < i /\ p \in Nat
    BY <2>1
  <2> HIDE DEF p, q
  <2>4. At(hash_values, p) = g /\ At(hash_values, q) = h
    BY <2>2, <2>3 DEF At
  <2>5. p # q
    BY <1>1, <2>4
  <2>6. ~Ahead(p, q)
    BY <2>1, <2>3 DEF Ahead
  <2>7. QED
    BY <2>3, <2>4, <2>5, <2>6 DEF Passed
<1>2. QED
  BY <1>1, PassedInLine

\* A step of AddCooc passes the present pair, unless it is a term with itself.
LEMMA NextPairPasses ==
    ASSUME IInv, pc = "cooc", i < Len(hash_values), NextPair
    PROVE  /\ At(hash_values, i) \in Hash /\ At(hash_values, j) \in Hash
           /\ i # j => At(hash_values, i) # At(hash_values, j)
           /\ i # j => ~Passed(At(hash_values, i), At(hash_values, j))
           /\ \A g, h \in Hash :
                 Passed(g, h)' <=>
                    \/ Passed(g, h)
                    \/ i # j /\ g = At(hash_values, i) /\ h = At(hash_values, j)
<1> DEFINE P == 0 .. Len(hash_values) - 1
<1>1. /\ pc' = pc /\ hash_values' = hash_values
      /\ IF j + 1 < Len(hash_values) THEN j' = j + 1 /\ i' = i ELSE j' = 0 /\ i' = i + 1
  BY DEF NextPair
<1>2. /\ Len(hash_values) \in Nat
      /\ i \in P /\ j \in P
  BY NextPairAdvances DEF IInv, TypeOK
<1>3. ASSUME NEW p \in P, NEW q \in P, p # q
      PROVE  Ahead(p, q)' <=> Ahead(p, q) /\ ~(p = i /\ q = j)
  BY <1>1, <1>2, <1>3 DEF Ahead
<1>4. \A p, q \in P : At(hash_values, p) = At(hash_values, q) => p = q
  BY Positions
<1>5. /\ At(hash_values, i) \in Hash /\ At(hash_values, j) \in Hash
      /\ i # j => At(hash_values, i) # At(hash_values, j)
  BY <1>2, <1>4, Positions
<1>6. ASSUME i # j PROVE ~Passed(At(hash_values, i), At(hash_values, j))
  <2>1. Ahead(i, j)
    BY <1>2, <1>6 DEF Ahead
  <2>2. QED
    BY <1>2, <1>4, <2>1 DEF Passed
<1> HIDE DEF P
<1>7. ASSUME NEW g \in Hash, NEW h \in Hash
      PROVE  Passed(g, h)' <=>
                \/ Passed(g, h)
                \/ i # j /\ g = At(hash_values, i) /\ h = At(hash_values, j)
  <2>1. Passed(g, h)' <=> \E p, q \in P : /\ p # q /\ ~Ahead(p, q)'
                                          /\ At(hash_values, p) = g /\ At(hash_values, q) = h
    BY <1>1 DEF Passed, P
  <2>2. Passed(g, h) <=> \E p, q \in P : /\ p # q /\ ~Ahead(p, q)
                                         /\ At(hash_values, p) = g /\ At(hash_values, q) = h
    BY DEF Passed, P
  <2>3. QED
    BY <1>2, <1>3, <2>1, <2>2
<1>8. QED
  BY <1>5, <1>6, <1>7

-----------------------------------------------------------------------------
(* The lines of the run.                                                   *)

\* The next line is one more that holds S exactly if S is a part of it.
LEMMA HoldingGrows ==
    ASSUME weibos \in Seq(SUBSET Hash), hmInWeibo \subseteq Hash,
           weibos' = Append(weibos, hmInWeibo), NEW S
    PROVE  /\ Cardinality(Holding(S)) \in Nat
           /\ Cardinality(Holding(S)')
                 = Cardinality(Holding(S)) + (IF S \subseteq hmInWeibo THEN 1 ELSE 0)
<1> DEFINE N == Len(weibos)
           H == Holding(S)
<1>1. /\ N \in Nat /\ DOMAIN weibos = 1 .. N
      /\ DOMAIN weibos' = 1 .. N + 1
      /\ weibos'[N + 1] = hmInWeibo /\ \A n \in 1 .. N : weibos'[n] = weibos[n]
  OBVIOUS
<1> HIDE DEF N
<1>2. /\ \A n \in 1 .. N + 1 : n = N + 1 \/ n \in 1 .. N
      /\ \A n \in 1 .. N : n \in 1 .. N + 1 /\ n # N + 1
      /\ N + 1 \in 1 .. N + 1
  BY <1>1
<1>3. H \subseteq 1 .. N /\ N + 1 \notin H
  BY <1>1, <1>2 DEF Holding
<1>4. IsFiniteSet(H) /\ Cardinality(H) \in Nat
  <2>1. IsFiniteSet(1 .. N)
    BY <1>1, FS_Interval
  <2>2. QED
    BY <1>3, <2>1, FS_Subset, FS_CardinalityType
<1>5. Holding(S)' = {n \in 1 .. N + 1 : S \subseteq weibos'[n]}
  BY <1>1 DEF Holding
<1>6. H = {n \in 1 .. N : S \subseteq weibos[n]}
  BY <1>1 DEF Holding
<1>7. CASE S \subseteq hmInWeibo
  <2>1. Holding(S)' = H \cup {N + 1}
    BY <1>1, <1>2, <1>5, <1>6, <1>7
  <2> HIDE DEF H
  <2>2. Cardinality(H \cup {N + 1}) = Cardinality(H) + 1
    BY <1>3, <1>4, FS_AddElement
  <2>3. QED
    BY <1>4, <1>7, <2>1, <2>2 DEF H
<1>8. CASE ~(S \subseteq hmInWeibo)
  <2>1. Holding(S)' = H
    BY <1>1, <1>2, <1>5, <1>6, <1>8
  <2>2. QED
    BY <1>4, <1>8, <2>1
<1>9. QED
  BY <1>7, <1>8

\* How many lines hold S, when the lines stay.
LEMMA HoldingStays ==
    ASSUME IInv, weibos' = weibos, NEW S
    PROVE  Cardinality(Holding(S)) \in Nat /\ Holding(S)' = Holding(S)
<1>1. weibos \in Seq(SUBSET Hash)
  BY DEF IInv, TypeOK
<1>2. DOMAIN weibos = 1 .. Len(weibos) /\ Len(weibos) \in Nat
  BY <1>1
<1>3. Holding(S) \subseteq 1 .. Len(weibos)
  BY <1>2 DEF Holding
<1>4. IsFiniteSet(1 .. Len(weibos))
  BY <1>2, FS_Interval
<1>5. Cardinality(Holding(S)) \in Nat
  <2> DEFINE H == Holding(S)
  <2> HIDE DEF H
  <2>1. IsFiniteSet(H)
    BY <1>3, <1>4, FS_Subset DEF H
  <2>2. Cardinality(H) \in Nat
    BY <2>1, FS_CardinalityType
  <2>3. QED
    BY <2>2 DEF H
<1>6. QED
  BY <1>5 DEF Holding

-----------------------------------------------------------------------------
(* The inductive invariant of the counts.                                  *)

One(condition) == IF condition THEN 1 ELSE 0

\* Memory is empty outside a run and before LoadIndex.
Empty ==
    pc \in {"idle", "load"} =>
        /\ mTermIndex = EmptyMap /\ mTermInfo = << >> /\ mRelateInfo = << >>
        /\ mNoMemory = FALSE /\ m_total_info = NoTotals /\ weibos = << >>

\* DumpIndex writes the counts of the relations and nothing else.
Tight(f) == f.found => Len(f.RelateInfo) = Cardinality(Relations(f.TermInfo))

\* The counts of the run are those of the lines read, and of the part of the
\* present line that RecordTerm and AddCooc have been through.
LineCounts ==
    pc \in {"lines", "terms", "cooc"} =>
        /\ \A h \in Hash :
              Df(h) = Cardinality(Holding({h})) + One(InLine /\ h \in hmInWeibo)
        /\ \A g, h \in Hash : g # h =>
              LET met == Cardinality(Holding({g, h})) + One(Passed(g, h))
              IN  IF mNoMemory THEN Rel(g, h).num_now <= met ELSE Rel(g, h).num_now = met

CountInv == Empty /\ Tight(output) /\ Tight(data) /\ TotalExact /\ LineCounts


\* A step of AddCooc ends the line or goes to the next pair.
LEMMA AddCoocStep ==
    ASSUME IInv, AddCooc
    PROVE  /\ pc = "cooc" /\ (EndLine(m_total_info) \/ NextPair)
           /\ pc' \in {"lines", "cooc"} /\ UNCHANGED <<output, data>>
<1>1. pc = "cooc" /\ (EndLine(m_total_info) \/ NextPair)
  <2>1. CASE \E pushed \in BOOLEAN : BadAlloc(pushed)
    BY <2>1, BadAllocGivesUp
  <2>2. CASE NoMemory
    BY <2>2, NoMemoryGivesUp
  <2>3. QED
    BY <2>1, <2>2 DEF AddCooc, SkipSelf, CoocAgain, NewCooc, FirstCooc, AtPair, AddCoocReturns
<1>2. QED
  BY <1>1 DEF EndLine, NextPair, files

\* Only LoadIndex and NoHistory bring main out of the empty state.
LEMMA EmptyStep == IInv /\ Empty /\ [Next]_vars => Empty'
<1> SUFFICES ASSUME IInv, Empty, [Next]_vars PROVE Empty'
  OBVIOUS
<1>1. CASE Exit
  BY <1>1 DEF Exit, Empty
<1>2. CASE WBProcessorInit \/ Install \/ UNCHANGED vars
  BY <1>2 DEF WBProcessorInit, Install, Empty, vars, memory
<1>3. CASE AddCooc
  BY <1>3, AddCoocStep DEF Empty
<1>4. CASE \/ LoadIndex \/ NoHistory \/ ReadLine \/ FirstInLine \/ TwiceInLine \/ EndOfTerms
           \/ EndOfFile \/ FiltIndex \/ DumpIndex
  BY <1>4 DEF LoadIndex, NoHistory, ReadLine, FirstInLine, TwiceInLine, EndOfTerms, EndOfFile,
              FiltIndex, DumpIndex, Empty
<1>5. QED
  BY <1>1, <1>2, <1>3, <1>4 DEF Next, LoadIndexFails, DumpIndexFails, DumpIndexAsText, Crash

\* Where the files come from: DumpIndex writes output/, Install copies it.
LEMMA FilesStep ==
    ASSUME IInv, [Next]_vars
    PROVE  /\ output' \in {output, NoIndex} \/ DumpIndex
           /\ data' = data \/ Install
<1>1. CASE AddCooc
  BY <1>1, AddCoocStep
<1>2. CASE \/ LoadIndex \/ NoHistory \/ ReadLine \/ FirstInLine \/ TwiceInLine \/ EndOfTerms
           \/ EndOfFile \/ FiltIndex \/ DumpIndex \/ WBProcessorInit \/ Install \/ UNCHANGED vars
  BY <1>2 DEF LoadIndex, NoHistory, ReadLine, FirstInLine, TwiceInLine, EndOfTerms, EndOfFile,
              FiltIndex, DumpIndex, WBProcessorInit, Install, vars, files
<1>3. CASE LoadIndexFails \/ DumpIndexFails \/ DumpIndexAsText \/ Crash
  BY <1>3 DEF LoadIndexFails, DumpIndexFails, DumpIndexAsText, Crash, Flushed, files
<1>4. QED
  BY <1>1, <1>2, <1>3 DEF Next

\* The files stay tight.
LEMMA TightStep == IInv /\ Tight(output) /\ Tight(data) /\ [Next]_vars => Tight(output') /\ Tight(data')
<1> SUFFICES ASSUME IInv, Tight(output), Tight(data), [Next]_vars
             PROVE  Tight(output') /\ Tight(data')
  OBVIOUS
<1>1. Tight(NoIndex)
  BY DEF Tight, NoIndex
<1>2. CASE DumpIndex
  <2>1. /\ output'.TermInfo = Renumbered(mTermInfo)
        /\ output'.RelateInfo = Written(mTermInfo, mRelateInfo)
        /\ data' = data
    BY <1>2 DEF DumpIndex
  <2>2. /\ Relations(Renumbered(mTermInfo)) = Relations(mTermInfo)
        /\ Len(Written(mTermInfo, mRelateInfo)) = Cardinality(Relations(mTermInfo))
    BY MemoryTypes, DumpedRelations DEF Sound
  <2>3. QED
    BY <2>1, <2>2 DEF Tight
<1>3. CASE Install
  BY <1>3 DEF Install
<1>4. QED
  BY <1>1, <1>2, <1>3, FilesStep

\* An index without terms has no relations.
LEMMA NoTermsNoRelations == Relations(<< >>) = {} /\ Cardinality(Relations(<< >>)) = 0
<1>1. Relations(<< >>) = {}
  BY DEF Relations
<1>2. QED
  BY <1>1, FS_EmptySet

\* LoadIndex: as many relations as slots, and the total is patched to it.
LEMMA LoadedTotal ==
    ASSUME IInv, Tight(data), LoadIndex
    PROVE  TotalExact'
<1>1. /\ data.found /\ mTermInfo' = MergedTerms(data.TermInfo)
      /\ mRelateInfo' = MergedRelate(data.RelateInfo)
      /\ m_total_info' = Patched(data.total)
  BY DEF LoadIndex, MergedTerms, MergedRelate
<1>2. data \in Image /\ ImageOK(data)
  BY <1>1 DEF IInv, TypeOK, NoIndex
<1>3. /\ data.TermInfo \in Seq(TermRec) /\ data.RelateInfo \in Seq(RelateRec)
      /\ data.total \in Totals
  BY <1>2 DEF Image
<1>4. /\ Len(mTermInfo') = Len(data.TermInfo) /\ Len(mRelateInfo') = Len(data.RelateInfo)
      /\ \A n \in 1 .. Len(data.TermInfo) : mTermInfo'[n].cooc_term = data.TermInfo[n].cooc_term
  BY <1>1, <1>3, MergeTypes
<1>5. \A n \in 0 .. Len(data.TermInfo) - 1 : At(mTermInfo', n).cooc_term = At(data.TermInfo, n).cooc_term
  <2>1. \A n \in 0 .. Len(data.TermInfo) - 1 : n + 1 \in 1 .. Len(data.TermInfo)
    BY <1>3
  <2>2. QED
    BY <1>4, <2>1 DEF At
<1>6. Relations(mTermInfo') = Relations(data.TermInfo)
  BY <1>4, <1>5 DEF Relations
<1>7. m_total_info'.relate_term_num = Len(data.RelateInfo)
  BY <1>1, <1>2, <1>3 DEF ImageOK, Patched, Totals
<1>8. Len(data.RelateInfo) = Cardinality(Relations(data.TermInfo)) /\ Len(data.RelateInfo) \in Nat
  BY <1>1, <1>3 DEF Tight
<1>9. Len(mRelateInfo') - Cardinality(Relations(mTermInfo')) = 0
  BY <1>4, <1>6, <1>8
<1>10. QED
  BY <1>6, <1>7, <1>8, <1>9 DEF TotalExact

\* A step that leaves the relations and their total, and the number of slots.
LEMMA SameTotal ==
    ASSUME TotalExact, pc \in {"lines", "terms", "cooc", "filt"},
           Relations(mTermInfo') = Relations(mTermInfo), Len(mRelateInfo') = Len(mRelateInfo),
           m_total_info'.relate_term_num = m_total_info.relate_term_num, mNoMemory' = mNoMemory
    PROVE  TotalExact'
BY DEF TotalExact

\* The total counts the relations until FiltIndex.
LEMMA TotalStep == IInv /\ CountInv /\ [Next]_vars => TotalExact'
<1> SUFFICES ASSUME IInv, CountInv, [Next]_vars, pc' \in {"lines", "terms", "cooc", "filt"}
             PROVE  TotalExact'
  BY DEF TotalExact
<1> DEFINE live == Cardinality(Relations(mTermInfo))
<1>0. /\ Empty /\ Tight(data) /\ TotalExact
      /\ mTermInfo \in Seq(TermRec) /\ mRelateInfo \in Seq(RelateRec) /\ m_total_info \in Totals
      /\ Len(mRelateInfo) \in Nat /\ live \in Nat
  BY MemoryTypes, RelationsFinite DEF CountInv
<1>1. CASE LoadIndex
  BY <1>0, <1>1, LoadedTotal
<1>2. CASE NoHistory
  <2>1. mTermInfo' = << >> /\ mRelateInfo' = << >> /\ m_total_info' = NoTotals
    BY <1>0, <1>2 DEF NoHistory, Empty, memory
  <2>2. m_total_info'.relate_term_num = 0 /\ Len(mRelateInfo') = 0
    BY <2>1 DEF NoTotals
  <2>3. QED
    BY <2>1, <2>2, NoTermsNoRelations DEF TotalExact
<1>3. CASE ReadLine \/ TwiceInLine \/ EndOfTerms \/ EndOfFile \/ SkipSelf
  <2>1. pc \in {"lines", "terms", "cooc", "filt"} /\ UNCHANGED memory
    BY <1>3 DEF ReadLine, TwiceInLine, EndOfTerms, EndOfFile, SkipSelf
  <2>2. QED
    BY <1>0, <2>1, SameTotal DEF memory
<1>4. CASE FirstInLine
  <2>1. pc = "terms" /\ mRelateInfo' = mRelateInfo /\ mNoMemory' = mNoMemory
        /\ RecordTerm(Head(line))
    BY <1>4 DEF FirstInLine
  <2>2. m_total_info'.relate_term_num = m_total_info.relate_term_num
    BY <1>0, <2>1 DEF RecordTerm, Totals
  <2>3. QED
    BY <1>0, <1>4, <2>1, <2>2, RecordKeepsRelations, SameTotal
<1>5. CASE CoocAgain
  <2>1. /\ pc = "cooc" /\ UNCHANGED <<mTermInfo, mNoMemory, m_total_info>>
        /\ mRelateInfo' = [mRelateInfo EXCEPT
                              ![At(mTermInfo, Here).cooc_term[Other] + 1].num_now = @ + 1]
    BY <1>5 DEF CoocAgain, AtPair
  <2>2. Len(mRelateInfo') = Len(mRelateInfo)
    BY <1>0, <2>1
  <2>3. QED
    BY <1>0, <2>1, <2>2, SameTotal
<1>6. CASE NewCooc
  <2>1. /\ pc = "cooc" /\ ~mNoMemory /\ mRelateInfo' = Append(mRelateInfo, NewRelation)
        /\ m_total_info' = Related(m_total_info)
    BY <1>6 DEF NewCooc, FirstCooc, AtPair
  <2>2. m_total_info.relate_term_num = live /\ Len(mRelateInfo) - live = 0
    BY <1>0, <2>1 DEF TotalExact
  <2>3. Cardinality(Relations(mTermInfo')) = live + 1
    BY <1>6, NewCoocCounts
  <2>4. m_total_info'.relate_term_num = live + 1
    BY <1>0, <2>1, <2>2 DEF Related, Totals
  <2>5. Len(mRelateInfo') = Len(mRelateInfo) + 1
    BY <1>0, <2>1
  <2> HIDE DEF live
  <2>6. Len(mRelateInfo') - Cardinality(Relations(mTermInfo')) = 0
    BY <1>0, <2>2, <2>3, <2>5
  <2>7. QED
    BY <2>3, <2>4, <2>6 DEF TotalExact
<1>7. CASE \E pushed \in BOOLEAN : BadAlloc(pushed)
  <2>1. PICK pushed \in BOOLEAN : BadAlloc(pushed)
    BY <1>7
  <2>2. /\ pc = "cooc" /\ mTermInfo' = mTermInfo /\ mNoMemory' = TRUE /\ EndLine(m_total_info)
        /\ mRelateInfo' \in {mRelateInfo, Append(mRelateInfo, NewRelation)}
    BY <2>1, BadAllocGivesUp
  <2>3. ~mNoMemory
    BY <2>1 DEF BadAlloc
  <2>4. m_total_info.relate_term_num = live /\ Len(mRelateInfo) - live = 0
    BY <1>0, <2>2, <2>3 DEF TotalExact
  <2>5. m_total_info'.relate_term_num = m_total_info.relate_term_num
    BY <1>0, <2>2 DEF EndLine, Totals
  <2>6. Len(mRelateInfo') \in {Len(mRelateInfo), Len(mRelateInfo) + 1}
    BY <1>0, <2>2
  <2> HIDE DEF live
  <2>7. Len(mRelateInfo') - live \in {0, 1}
    BY <1>0, <2>4, <2>6
  <2>8. QED
    BY <2>2, <2>4, <2>5, <2>7 DEF TotalExact, live
<1>8. CASE NoMemory \/ AddCoocReturns
  <2>1. pc = "cooc" /\ EndLine(m_total_info) /\ UNCHANGED <<mTermInfo, mRelateInfo, mNoMemory>>
    BY <1>8, NoMemoryGivesUp DEF AddCoocReturns
  <2>2. m_total_info'.relate_term_num = m_total_info.relate_term_num
    BY <1>0, <2>1 DEF EndLine, Totals
  <2>3. QED
    BY <1>0, <2>1, <2>2, SameTotal
<1>9. CASE UNCHANGED vars
  BY <1>0, <1>9 DEF vars, memory, TotalExact
<1>10. QED
  BY <1>1, <1>2, <1>3, <1>4, <1>5, <1>6, <1>7, <1>8, <1>9
     DEF Next, AddCooc, WBProcessorInit, LoadIndexFails, FiltIndex, DumpIndex, DumpIndexFails,
         DumpIndexAsText, Install, Crash, Exit


\* The first line of a run is counted from nothing, history or not.
LEMMA NoLinesYet ==
    ASSUME weibos' = << >>, pc' = "lines",
           \A h \in Hash : Df(h)' = 0, \A g, h \in Hash : Rel(g, h)'.num_now = 0
    PROVE  LineCounts'
<1>1. ASSUME NEW S PROVE Cardinality(Holding(S)') = 0
  <2>1. Holding(S)' = {}
    BY DEF Holding
  <2>2. QED
    BY <2>1, FS_EmptySet
<1>2. ~InLine' /\ \A g, h \in Hash : ~Passed(g, h)'
  BY DEF InLine, Passed
<1>3. \A h \in Hash : Df(h)' = Cardinality(Holding({h}))' + One(InLine /\ h \in hmInWeibo)'
  BY <1>1, <1>2 DEF One
<1>4. \A g, h \in Hash : Rel(g, h)'.num_now = Cardinality(Holding({g, h}))' + One(Passed(g, h))'
                         /\ 0 <= Rel(g, h)'.num_now
  BY <1>1, <1>2 DEF One
<1>5. QED
  BY <1>3, <1>4 DEF LineCounts

\* After LoadIndex all counts belong to the history.
LEMMA LoadedCounts ==
    ASSUME IInv, LoadIndex
    PROVE  /\ \A h \in Hash : Df(h)' = 0
           /\ \A h \in Hash : DfOld(h)' = DfHisIn(data.TermIndex, data.TermInfo, h)
                                          + DfNowIn(data.TermIndex, data.TermInfo, h)
           /\ \A g, h \in Hash :
                 LET c == Cell(data.TermIndex, data.TermInfo, data.RelateInfo, g, h)
                 IN  Rel(g, h)' = [num_history |-> Weight(c), num_now |-> 0]
<1>1. /\ data.found /\ mTermIndex' = data.TermIndex /\ mTermInfo' = MergedTerms(data.TermInfo)
      /\ mRelateInfo' = MergedRelate(data.RelateInfo)
  BY DEF LoadIndex, MergedTerms, MergedRelate
<1>2. data \in Image /\ ImageOK(data)
  BY <1>1 DEF IInv, TypeOK, NoIndex
<1> DEFINE index == data.TermIndex
           terms == data.TermInfo
           relate == data.RelateInfo
<1>3. /\ index \in Map /\ terms \in Seq(TermRec) /\ relate \in Seq(RelateRec)
      /\ data.total \in Totals /\ Sound(index, terms, relate, data.total)
      /\ SlotsOK(terms, relate)
  BY <1>2 DEF Image, ImageOK, Sound
<1> HIDE DEF index, terms, relate
<1>4. /\ \A n \in 1 .. Len(terms) :
            /\ mTermInfo'[n].df_now = 0
            /\ mTermInfo'[n].df_history = terms[n].df_history + terms[n].df_now
            /\ mTermInfo'[n].cooc_term = terms[n].cooc_term
      /\ \A n \in 1 .. Len(relate) : mRelateInfo'[n] = MergeRelation(relate[n])
  <2>1. \A n \in 1 .. Len(terms) :
            /\ MergedTerms(terms)[n].df_now = 0
            /\ MergedTerms(terms)[n].df_history = terms[n].df_history + terms[n].df_now
            /\ MergedTerms(terms)[n].cooc_term = terms[n].cooc_term
    BY <1>3, MergeTypes
  <2>2. QED
    BY <1>1, <2>1 DEF MergedRelate, terms, relate
<1>5. ASSUME NEW h \in Hash
      PROVE  /\ Df(h)' = 0
             /\ DfOld(h)' = DfHisIn(index, terms, h) + DfNowIn(index, terms, h)
  <2>1. index[h] # End => index[h] + 1 \in 1 .. Len(terms)
    BY <1>3, CellType
  <2>2. mTermIndex' = index
    BY <1>1 DEF index
  <2>3. QED
    BY <1>4, <2>1, <2>2 DEF Df, DfOld, DfNowIn, DfHisIn, At
<1>6. ASSUME NEW g \in Hash, NEW h \in Hash
      PROVE  Rel(g, h)' = [num_history |-> Weight(Cell(index, terms, relate, g, h)), num_now |-> 0]
  <2>1. mTermIndex' = index
    BY <1>1 DEF index
  <2>2. CASE index[g] = End
    BY <2>1, <2>2 DEF Rel, Cell, Unmet, Weight
  <2>3. CASE index[g] # End
    <3>1. /\ index[g] + 1 \in 1 .. Len(terms) /\ index[g] \in 0 .. Len(terms) - 1
      BY <1>3, <2>3, CellType
    <3>2. At(mTermInfo', index[g]).cooc_term = At(terms, index[g]).cooc_term
      BY <1>4, <3>1 DEF At
    <3>3. CASE At(terms, index[g]).cooc_term[h] = End
      BY <2>1, <2>3, <3>2, <3>3 DEF Rel, Cell, Unmet, Weight
    <3>4. CASE At(terms, index[g]).cooc_term[h] # End
      <4> DEFINE k == At(terms, index[g]).cooc_term[h]
      <4>1. <<index[g], h>> \in Relations(terms) /\ Slot(terms, <<index[g], h>>) = k
        BY <1>3, <3>1, <3>4, RelationOf
      <4>2. k \in Nat /\ k < Len(relate)
        BY <1>3, <4>1, RelationOf DEF SlotsOK
      <4> HIDE DEF k
      <4>3. k + 1 \in 1 .. Len(relate)
        BY <1>3, <4>2
      <4>4. At(mRelateInfo', k) = MergeRelation(At(relate, k))
        BY <1>4, <4>3 DEF At
      <4>5. Rel(g, h)' = At(mRelateInfo', k) /\ Cell(index, terms, relate, g, h) = At(relate, k)
        BY <2>1, <2>3, <3>2, <3>4 DEF Rel, Cell, k
      <4>6. QED
        BY <4>4, <4>5 DEF MergeRelation
    <3>5. QED
      BY <3>3, <3>4
  <2>4. QED
    BY <2>2, <2>3
<1>7. QED
  BY <1>5, <1>6 DEF index, terms, relate

\* Empty memory counts nothing.
LEMMA EmptyCounts ==
    ASSUME mTermIndex = EmptyMap
    PROVE  /\ \A h \in Hash : Df(h) = 0 /\ DfOld(h) = 0
           /\ \A g, h \in Hash : Rel(g, h) = Unmet
BY DEF EmptyMap, Df, DfOld, DfNowIn, DfHisIn, Rel, Cell


\* A step inside a line, or to its beginning: what RecordTerm or AddCooc counts
\* is what it has been through since.
LEMMA CountedSoFar ==
    ASSUME IInv, LineCounts, pc \in {"lines", "terms", "cooc"}, weibos' = weibos,
           mNoMemory' = mNoMemory,
           \A h \in Hash : Df(h)' + One(InLine /\ h \in hmInWeibo)
                              = Df(h) + One(InLine /\ h \in hmInWeibo)',
           \A g, h \in Hash : Rel(g, h)'.num_now + One(Passed(g, h))
                                 = Rel(g, h).num_now + One(Passed(g, h))',
           \A h \in Hash : Df(h)' \in Nat,
           \A g, h \in Hash : Rel(g, h)'.num_now \in Nat
    PROVE  LineCounts'
<1>1. ASSUME NEW S PROVE Cardinality(Holding(S)) \in Nat /\ Holding(S)' = Holding(S)
  BY HoldingStays
<1>2. /\ \A h \in Hash : Df(h) \in Nat
      /\ \A g, h \in Hash : Rel(g, h).num_now \in Nat
  BY MemoryTypes DEF RelateRec
<1>3. ASSUME NEW h \in Hash
      PROVE  Df(h)' = Cardinality(Holding({h}))' + One(InLine /\ h \in hmInWeibo)'
  <2> DEFINE c == Cardinality(Holding({h}))
             a == One(InLine /\ h \in hmInWeibo)
             b == One(InLine /\ h \in hmInWeibo)'
  <2>1. c \in Nat /\ c' = c /\ a \in {0, 1} /\ b \in {0, 1}
    BY <1>1 DEF One
  <2>2. Df(h) = c + a /\ Df(h)' + a = Df(h) + b /\ Df(h) \in Nat /\ Df(h)' \in Nat
    BY <1>2 DEF LineCounts
  <2> HIDE DEF c, a, b
  <2>3. Df(h)' = c' + b
    BY <2>1, <2>2
  <2>4. QED
    BY <2>3 DEF c, b
<1>4. ASSUME NEW g \in Hash, NEW h \in Hash, g # h
      PROVE  LET met == Cardinality(Holding({g, h}))' + One(Passed(g, h))'
             IN  IF mNoMemory' THEN Rel(g, h)'.num_now <= met ELSE Rel(g, h)'.num_now = met
  <2> DEFINE c == Cardinality(Holding({g, h}))
             a == One(Passed(g, h))
             b == One(Passed(g, h))'
             m == Rel(g, h).num_now
             n == Rel(g, h)'.num_now
  <2>1. c \in Nat /\ c' = c /\ a \in {0, 1} /\ b \in {0, 1}
    BY <1>1 DEF One
  <2>2. /\ IF mNoMemory THEN m <= c + a ELSE m = c + a
        /\ n + a = m + b /\ m \in Nat /\ n \in Nat
    BY <1>2, <1>4 DEF LineCounts
  <2> HIDE DEF c, a, b, m, n
  <2>3. IF mNoMemory THEN n <= c' + b ELSE n = c' + b
    BY <2>1, <2>2
  <2>4. QED
    BY <2>3 DEF c, b, n
<1>5. QED
  BY <1>3, <1>4 DEF LineCounts

\* The end of a line: AddCooc has passed all pairs, or memory is short.
LEMMA CountedLine ==
    ASSUME IInv, IInv', LineCounts, pc = "cooc", EndLine(m_total_info),
           UNCHANGED <<mTermIndex, mTermInfo>>,
           mRelateInfo' \in {mRelateInfo, Append(mRelateInfo, NewRelation)},
           mNoMemory => mNoMemory', mNoMemory' \/ i >= Len(hash_values)
    PROVE  LineCounts'
<1>1. pc' = "lines" /\ weibos' = Append(weibos, hmInWeibo)
  BY DEF EndLine
<1>2. weibos \in Seq(SUBSET Hash) /\ hmInWeibo \subseteq Hash
  BY DEF IInv, TypeOK
<1>3. ASSUME NEW S
      PROVE  /\ Cardinality(Holding(S)) \in Nat
             /\ Cardinality(Holding(S))' = Cardinality(Holding(S)) + One(S \subseteq hmInWeibo)
  BY <1>1, <1>2, HoldingGrows DEF One
<1>4. /\ \A h \in Hash : Df(h)' = Df(h)
      /\ \A g, h \in Hash : Rel(g, h)' = Rel(g, h)
  BY EndLineCounts
<1>5. /\ \A h \in Hash : Df(h) \in Nat
      /\ \A g, h \in Hash : Rel(g, h).num_now \in Nat
  BY MemoryTypes DEF RelateRec
<1>6. InLine /\ ~InLine' /\ \A g, h \in Hash : ~Passed(g, h)'
  BY <1>1 DEF InLine, Passed
<1>7. ASSUME NEW h \in Hash
      PROVE  Df(h)' = Cardinality(Holding({h}))' + One(InLine /\ h \in hmInWeibo)'
  <2> DEFINE c == Cardinality(Holding({h}))
  <2>1. c \in Nat /\ c' = c + One({h} \subseteq hmInWeibo)
    BY <1>3
  <2>2. {h} \subseteq hmInWeibo <=> h \in hmInWeibo
    OBVIOUS
  <2>3. Df(h) = c + One(InLine /\ h \in hmInWeibo)
    BY DEF LineCounts
  <2> HIDE DEF c
  <2>4. Df(h)' = c' + 0
    BY <1>4, <1>6, <2>1, <2>2, <2>3 DEF One
  <2>5. QED
    BY <1>6, <2>4 DEF One, c
<1>8. ASSUME NEW g \in Hash, NEW h \in Hash, g # h
      PROVE  LET met == Cardinality(Holding({g, h}))' + One(Passed(g, h))'
             IN  IF mNoMemory' THEN Rel(g, h)'.num_now <= met ELSE Rel(g, h)'.num_now = met
  <2> DEFINE c == Cardinality(Holding({g, h}))
             m == Rel(g, h).num_now
             a == One(Passed(g, h))
             b == One({g, h} \subseteq hmInWeibo)
  <2>1. c \in Nat /\ c' = c + b /\ m \in Nat /\ Rel(g, h)'.num_now = m
    BY <1>3, <1>4, <1>5
  <2>2. IF mNoMemory THEN m <= c + a ELSE m = c + a
    BY <1>8 DEF LineCounts
  <2>3. a \in {0, 1} /\ b \in {0, 1} /\ a <= b
    BY PassedInLine DEF One
  <2>4. ~mNoMemory' => a = b
    BY <1>8, AllPassed DEF One
  <2> HIDE DEF c, m, a, b
  <2>5. IF mNoMemory' THEN m <= c' + 0 ELSE m = c' + 0
    BY <2>1, <2>2, <2>3, <2>4
  <2>6. QED
    BY <1>6, <2>1, <2>5 DEF One, c
<1>9. QED
  BY <1>7, <1>8 DEF LineCounts

\* What the counts have after a step.
LEMMA NextTypes ==
    ASSUME IInv'
    PROVE  /\ \A h \in Hash : Df(h)' \in Nat /\ DfOld(h)' \in Nat
           /\ \A g, h \in Hash : /\ Rel(g, h)' \in RelateRec
                                /\ Rel(g, h)'.num_now \in Nat /\ Rel(g, h)'.num_history \in Nat
<1>1. /\ mTermIndex' \in Map /\ mTermInfo' \in Seq(TermRec)
      /\ mRelateInfo' \in Seq(RelateRec) /\ m_total_info' \in Totals
      /\ Sound(mTermIndex', mTermInfo', mRelateInfo', m_total_info')
  BY DEF IInv, TypeOK
<1>2. /\ \A h \in Hash : Df(h)' \in Nat /\ DfOld(h)' \in Nat
      /\ \A g, h \in Hash : Rel(g, h)' \in RelateRec
  BY <1>1, CellType DEF Df, DfOld, Rel
<1>3. QED
  BY <1>2 DEF RelateRec

\* The steps that begin a line and those inside it: the history stays, and the
\* counts of the day grow with the part of the line that has been gone through.
LEMMA WithinLine ==
    ASSUME IInv, IInv',
           \/ ReadLine \/ TwiceInLine \/ EndOfTerms \/ FirstInLine
           \/ SkipSelf \/ CoocAgain \/ NewCooc
    PROVE  /\ pc \in {"lines", "terms", "cooc"} /\ pc' \in {"lines", "terms", "cooc"}
           /\ UNCHANGED <<weibos, mNoMemory, output, data>>
           /\ m_total_info'.weibo_num = m_total_info.weibo_num
           /\ \A h \in Hash : DfOld(h)' = DfOld(h)
           /\ \A h \in Hash : Df(h)' + One(InLine /\ h \in hmInWeibo)
                                 = Df(h) + One(InLine /\ h \in hmInWeibo)'
           /\ \A g, h \in Hash : Rel(g, h)'.num_history = Rel(g, h).num_history
           /\ \A g, h \in Hash : Rel(g, h)'.num_now + One(Passed(g, h))
                                    = Rel(g, h).num_now + One(Passed(g, h))'
<1> USE DEF files
<1>t. /\ \A h \in Hash : Df(h) \in Nat /\ Df(h)' \in Nat
      /\ \A g, h \in Hash : Rel(g, h) \in RelateRec /\ Rel(g, h)' \in RelateRec
      /\ m_total_info \in Totals
  BY MemoryTypes, NextTypes
<1>n. \A g, h \in Hash : Rel(g, h).num_now \in Nat /\ Rel(g, h)'.num_now \in Nat
  BY <1>t DEF RelateRec
<1>1. CASE ReadLine \/ TwiceInLine \/ EndOfTerms
  <2>1. /\ pc \in {"lines", "terms"} /\ pc' \in {"terms", "cooc"} /\ UNCHANGED <<weibos, output, data>>
        /\ UNCHANGED memory /\ i' = i /\ j' = j
        /\ InLine' /\ (InLine => hmInWeibo' = hmInWeibo) /\ (~InLine => hmInWeibo' = {})
    BY <1>1 DEF ReadLine, TwiceInLine, EndOfTerms, InLine, locals
  <2>2. /\ \A h \in Hash : Df(h)' = Df(h) /\ DfOld(h)' = DfOld(h)
        /\ \A g, h \in Hash : Rel(g, h)' = Rel(g, h)
        /\ mNoMemory' = mNoMemory /\ m_total_info' = m_total_info
    BY <2>1 DEF memory, Df, DfOld, DfNowIn, DfHisIn, Rel, Cell
  <2>3. \A h \in Hash : One(InLine /\ h \in hmInWeibo)' = One(InLine /\ h \in hmInWeibo)
    BY <2>1 DEF One
  <2>4. i = 0 /\ j = 0
    BY <2>1 DEF IInv, LocalsOK
  <2>5. \A g, h \in Hash : ~Passed(g, h) /\ ~Passed(g, h)'
    <3>1. ASSUME NEW g \in Hash, NEW h \in Hash PROVE ~Passed(g, h)
      BY <2>4, NothingPassed
    <3>2. ASSUME NEW g \in Hash, NEW h \in Hash PROVE ~Passed(g, h)'
      <4>1. i' = 0 /\ j' = 0
        BY <2>1, <2>4
      <4>2. \A p, q \in Nat : p # q => Ahead(p, q)'
        BY <4>1 DEF Ahead
      <4>3. \A n \in 0 .. Len(hash_values') - 1 : n \in Nat
        OBVIOUS
      <4>4. QED
        BY <4>2, <4>3 DEF Passed
    <3>3. QED
      BY <3>1, <3>2
  <2>6. \A g, h \in Hash : Rel(g, h)'.num_now + One(Passed(g, h)) = Rel(g, h).num_now + One(Passed(g, h))'
    BY <2>2, <2>5 DEF One
  <2>7. \A h \in Hash : Df(h)' + One(InLine /\ h \in hmInWeibo) = Df(h) + One(InLine /\ h \in hmInWeibo)'
    BY <2>2, <2>3
  <2>8. QED
    BY <2>1, <2>2, <2>6, <2>7
<1>2. CASE FirstInLine
  <2>1. /\ pc = "terms" /\ pc' = "terms" /\ UNCHANGED <<weibos, mNoMemory, output, data>>
        /\ Head(line) \notin hmInWeibo /\ hmInWeibo' = hmInWeibo \cup {Head(line)}
        /\ RecordTerm(Head(line))
    BY <1>2 DEF FirstInLine
  <2>2. /\ \A h \in Hash : Df(h)' = Df(h) + (IF h = Head(line) THEN 1 ELSE 0)
        /\ \A h \in Hash : DfOld(h)' = DfOld(h)
        /\ \A g, h \in Hash : Rel(g, h)' = Rel(g, h)
    BY <1>2, FirstInLineCounts
  <2>3. m_total_info'.weibo_num = m_total_info.weibo_num
    BY <1>t, <2>1 DEF RecordTerm, Totals
  <2>4. InLine /\ InLine' /\ \A g, h \in Hash : ~Passed(g, h) /\ ~Passed(g, h)'
    BY <2>1 DEF InLine, Passed
  <2>5. ASSUME NEW h \in Hash
        PROVE  Df(h)' + One(InLine /\ h \in hmInWeibo) = Df(h) + One(InLine /\ h \in hmInWeibo)'
    <3>1. CASE h = Head(line)
      <4>1. Df(h)' = Df(h) + 1
        BY <2>2, <3>1
      <4>2. One(InLine /\ h \in hmInWeibo) = 0 /\ One(InLine /\ h \in hmInWeibo)' = 1
        BY <2>1, <2>4, <3>1 DEF One
      <4>3. QED
        BY <1>t, <4>1, <4>2
    <3>2. CASE h # Head(line)
      <4>1. Df(h)' = Df(h) + 0
        BY <2>2, <3>2
      <4>2. One(InLine /\ h \in hmInWeibo) = One(InLine /\ h \in hmInWeibo)'
        BY <2>1, <2>4, <3>2 DEF One
      <4>3. QED
        BY <1>t, <4>1, <4>2
    <3>3. QED
      BY <3>1, <3>2
  <2>6. \A g, h \in Hash : Rel(g, h)'.num_now + One(Passed(g, h)) = Rel(g, h).num_now + One(Passed(g, h))'
    BY <2>2, <2>4 DEF One
  <2>7. QED
    BY <2>1, <2>2, <2>3, <2>5, <2>6
<1>3. CASE SkipSelf
  <2>1. /\ pc = "cooc" /\ i < Len(hash_values) /\ i = j /\ NextPair /\ UNCHANGED memory
        /\ UNCHANGED <<weibos, output, data>> /\ pc' = pc /\ hmInWeibo' = hmInWeibo
    BY <1>3 DEF SkipSelf, NextPair
  <2>2. /\ \A h \in Hash : Df(h)' = Df(h) /\ DfOld(h)' = DfOld(h)
        /\ \A g, h \in Hash : Rel(g, h)' = Rel(g, h)
        /\ mNoMemory' = mNoMemory /\ m_total_info' = m_total_info
    BY <2>1 DEF memory, Df, DfOld, DfNowIn, DfHisIn, Rel, Cell
  <2>3. \A g, h \in Hash : Passed(g, h)' <=> Passed(g, h)
    BY <2>1, NextPairPasses
  <2>4. \A h \in Hash : Df(h)' + One(InLine /\ h \in hmInWeibo) = Df(h) + One(InLine /\ h \in hmInWeibo)'
    BY <2>1, <2>2 DEF InLine, One
  <2>5. \A g, h \in Hash : Rel(g, h)'.num_now + One(Passed(g, h)) = Rel(g, h).num_now + One(Passed(g, h))'
    BY <2>2, <2>3 DEF One
  <2>6. QED
    BY <2>1, <2>2, <2>4, <2>5
<1>4. CASE CoocAgain \/ NewCooc
  <2>1. /\ pc = "cooc" /\ i < Len(hash_values) /\ i # j /\ NextPair
        /\ UNCHANGED <<weibos, mNoMemory, output, data>> /\ pc' = pc /\ hmInWeibo' = hmInWeibo
    BY <1>4 DEF CoocAgain, NewCooc, FirstCooc, AtPair, NextPair
  <2> DEFINE g0 == At(hash_values, i)
             h0 == At(hash_values, j)
  <2>2. /\ \A h \in Hash : Df(h)' = Df(h) /\ DfOld(h)' = DfOld(h)
        /\ \A g, h \in Hash :
              Rel(g, h)' = IF g = g0 /\ h = h0 THEN [Rel(g, h) EXCEPT !.num_now = @ + 1]
                           ELSE Rel(g, h)
    BY <1>4, CoocAgainCounts, NewCoocCounts
  <2>3. m_total_info'.weibo_num = m_total_info.weibo_num
    BY <1>t, <1>4 DEF CoocAgain, NewCooc, Related, Totals
  <2>4. ~Passed(g0, h0) /\ g0 \in Hash /\ h0 \in Hash
    BY <2>1, NextPairPasses
  <2>5. \A g, h \in Hash : Passed(g, h)' <=> Passed(g, h) \/ (g = g0 /\ h = h0)
    BY <2>1, NextPairPasses
  <2> HIDE DEF g0, h0
  <2>6. \A h \in Hash : Df(h)' + One(InLine /\ h \in hmInWeibo) = Df(h) + One(InLine /\ h \in hmInWeibo)'
    BY <2>1, <2>2 DEF InLine, One
  <2>7. ASSUME NEW g \in Hash, NEW h \in Hash
        PROVE  /\ Rel(g, h)'.num_now + One(Passed(g, h)) = Rel(g, h).num_now + One(Passed(g, h))'
               /\ Rel(g, h)'.num_history = Rel(g, h).num_history
    <3>1. CASE g = g0 /\ h = h0
      <4>1. /\ Rel(g, h)'.num_now = Rel(g, h).num_now + 1
            /\ Rel(g, h)'.num_history = Rel(g, h).num_history
        BY <1>t, <2>2, <3>1 DEF RelateRec
      <4>2. One(Passed(g, h)) = 0 /\ One(Passed(g, h))' = 1
        BY <2>4, <2>5, <3>1 DEF One
      <4>3. QED
        BY <1>n, <4>1, <4>2
    <3>2. CASE ~(g = g0 /\ h = h0)
      <4>1. Rel(g, h)' = Rel(g, h)
        BY <2>2, <3>2
      <4>2. One(Passed(g, h)) = One(Passed(g, h))'
        BY <2>5, <3>2 DEF One
      <4>3. QED
        BY <4>1, <4>2
    <3>3. QED
      BY <3>1, <3>2
  <2>8. QED
    BY <2>1, <2>2, <2>3, <2>6, <2>7
<1>5. QED
  BY <1>1, <1>2, <1>3, <1>4

\* Every step keeps the counts of the lines exact.
LEMMA LineStep == IInv /\ CountInv /\ [Next]_vars => LineCounts'
<1> SUFFICES ASSUME IInv, CountInv, [Next]_vars, pc' \in {"lines", "terms", "cooc"}
             PROVE  LineCounts'
  BY DEF LineCounts
<1>0. Empty /\ LineCounts
  BY DEF CountInv
<1>i. IInv'
  BY StepInv
<1>n. /\ \A h \in Hash : Df(h)' \in Nat
      /\ \A g, h \in Hash : Rel(g, h)'.num_now \in Nat
  BY <1>i, NextTypes
<1>1. CASE LoadIndex
  <2>1. weibos' = << >> /\ pc' = "lines"
    BY <1>0, <1>1 DEF LoadIndex, Empty
  <2>2. /\ \A h \in Hash : Df(h)' = 0
        /\ \A g, h \in Hash : Rel(g, h)'.num_now = 0
    BY <1>1, LoadedCounts
  <2>3. QED
    BY <2>1, <2>2, NoLinesYet
<1>2. CASE NoHistory
  <2>1. weibos' = << >> /\ pc' = "lines" /\ mTermIndex = EmptyMap /\ UNCHANGED memory
    BY <1>0, <1>2 DEF NoHistory, Empty
  <2>2. /\ \A h \in Hash : Df(h)' = Df(h)
        /\ \A g, h \in Hash : Rel(g, h)' = Rel(g, h)
    BY <2>1 DEF memory, Df, DfNowIn, Rel, Cell
  <2>3. /\ \A h \in Hash : Df(h)' = 0
        /\ \A g, h \in Hash : Rel(g, h)'.num_now = 0
    BY <2>1, <2>2, EmptyCounts DEF Unmet
  <2>4. QED
    BY <2>1, <2>3, NoLinesYet
<1>3. CASE \/ ReadLine \/ TwiceInLine \/ EndOfTerms \/ FirstInLine
           \/ SkipSelf \/ CoocAgain \/ NewCooc
  <2>1. /\ pc \in {"lines", "terms", "cooc"} /\ UNCHANGED <<weibos, mNoMemory>>
        /\ \A h \in Hash : Df(h)' + One(InLine /\ h \in hmInWeibo)
                              = Df(h) + One(InLine /\ h \in hmInWeibo)'
        /\ \A g, h \in Hash : Rel(g, h)'.num_now + One(Passed(g, h))
                                 = Rel(g, h).num_now + One(Passed(g, h))'
    BY <1>i, <1>3, WithinLine
  <2>2. QED
    BY <1>0, <1>n, <2>1, CountedSoFar
<1>4. CASE \E pushed \in BOOLEAN : BadAlloc(pushed)
  BY <1>0, <1>i, <1>4, BadAllocGivesUp, CountedLine
<1>5. CASE NoMemory
  <2>1. mNoMemory
    BY <1>5 DEF NoMemory
  <2>2. QED
    BY <1>0, <1>i, <1>5, <2>1, NoMemoryGivesUp, CountedLine
<1>6. CASE AddCoocReturns
  BY <1>0, <1>i, <1>6, CountedLine DEF AddCoocReturns
<1>7. CASE UNCHANGED vars
  <2> USE DEF vars, memory, locals
  <2>1. /\ pc' = pc /\ weibos' = weibos /\ mNoMemory' = mNoMemory
        /\ \A h \in Hash : Df(h)' = Df(h)
        /\ \A g, h \in Hash : Rel(g, h)' = Rel(g, h)
    BY <1>7 DEF Df, DfNowIn, Rel, Cell
  <2>2. \A h \in Hash : One(InLine /\ h \in hmInWeibo)' = One(InLine /\ h \in hmInWeibo)
    BY <1>7 DEF One, InLine
  <2>3. \A g, h \in Hash : One(Passed(g, h))' = One(Passed(g, h))
    BY <1>7 DEF One, Passed, Ahead
  <2>4. /\ \A h \in Hash :
              Df(h)' + One(InLine /\ h \in hmInWeibo) = Df(h) + One(InLine /\ h \in hmInWeibo)'
        /\ \A g, h \in Hash :
              Rel(g, h)'.num_now + One(Passed(g, h)) = Rel(g, h).num_now + One(Passed(g, h))'
    BY <2>1, <2>2, <2>3
  <2>5. QED
    BY <1>0, <1>n, <2>1, <2>4, CountedSoFar
<1>8. QED
  BY <1>1, <1>2, <1>3, <1>4, <1>5, <1>6, <1>7
     DEF Next, AddCooc, WBProcessorInit, LoadIndexFails, EndOfFile, FiltIndex, DumpIndex,
         DumpIndexFails, DumpIndexAsText, Install, Crash, Exit

\* The counts start from nothing.
LEMMA CountInit == Init => CountInv
<1>1. Init => TotalExact /\ LineCounts /\ Empty
  BY DEF Init, TotalExact, LineCounts, Empty
<1>2. Init => Tight(output) /\ Tight(data)
  BY DEF Init, Tight, NoIndex
<1>3. QED
  BY <1>1, <1>2 DEF CountInv

\* The inductive invariant of the counts.
THEOREM CountInvariance == Spec => [](IInv /\ CountInv)
<1>1. IInv /\ CountInv /\ [Next]_vars => CountInv'
  BY EmptyStep, TightStep, TotalStep, LineStep DEF CountInv
<1>2. QED
  BY <1>1, CountInit, InitInv, StepInv, PTL DEF Spec

\* Until FiltIndex the totals count the relations exactly, and at most one
\* slot of mRelateInfo, left by a failed insertion, belongs to none.
THEOREM TotalIsExact == Spec => []TotalExact
<1>1. IInv /\ CountInv => TotalExact
  BY DEF CountInv
<1>2. QED
  BY <1>1, CountInvariance, PTL

\* Between two lines df_now and num_now are the numbers of lines of the run
\* with the term and with both terms; without memory num_now may miss some.
THEOREM CountsAreExact == Spec => []CountsExact
<1>1. IInv /\ CountInv => CountsExact
  <2> SUFFICES ASSUME IInv, LineCounts, pc = "lines" PROVE CountsExact
    BY DEF CountInv, CountsExact
  <2>1. ~InLine /\ \A g, h \in Hash : ~Passed(g, h)
    BY DEF InLine, Passed
  <2>2. ASSUME NEW S PROVE Cardinality(Holding(S)) + 0 = Cardinality(Holding(S))
    <3>1. weibos \in Seq(SUBSET Hash)
      BY DEF IInv, TypeOK
    <3>2. DOMAIN weibos = 1 .. Len(weibos) /\ Len(weibos) \in Nat
      BY <3>1
    <3>3. IsFiniteSet(1 .. Len(weibos)) /\ Holding(S) \in SUBSET (1 .. Len(weibos))
      BY <3>2, FS_Interval DEF Holding
    <3>4. Cardinality(Holding(S)) \in Nat
      BY <3>3, FS_Subset, FS_CardinalityType
    <3>5. QED
      BY <3>4
  <2>3. ASSUME NEW h \in Keys(mTermIndex)
        PROVE  At(mTermInfo, mTermIndex[h]).df_now = Cardinality(Holding({h}))
    <3>1. h \in Hash /\ mTermIndex[h] # End
      BY DEF Keys
    <3>2. Df(h) = Cardinality(Holding({h})) + 0
      BY <2>1, <3>1 DEF LineCounts, One
    <3>3. QED
      BY <2>2, <3>1, <3>2 DEF Df, DfNowIn
  <2>4. ASSUME NEW g \in Hash, NEW h \in Hash
        PROVE  NowOf(g, h) = Rel(g, h).num_now
    BY DEF NowOf, Now, Rel, Cell, Unmet
  <2>5. ASSUME NEW g \in Hash, NEW h \in Hash, g # h
        PROVE  LET met == Cardinality(Holding({g, h}))
               IN  IF mNoMemory THEN NowOf(g, h) <= met ELSE NowOf(g, h) = met
    <3>1. LET met == Cardinality(Holding({g, h})) + 0
          IN  IF mNoMemory THEN Rel(g, h).num_now <= met ELSE Rel(g, h).num_now = met
      BY <2>1, <2>5 DEF LineCounts, One
    <3>2. QED
      BY <2>2, <2>4, <3>1
  <2>6. QED
    BY <2>3, <2>5 DEF CountsExact
<1>2. QED
  BY <1>1, CountInvariance, PTL


-----------------------------------------------------------------------------
(* The index implements the counter.                                       *)

\* The abstract counts of an index, term by term and pair by pair.
LEMMA CountsOfIs ==
    ASSUME NEW index, NEW terms, NEW relate, NEW total
    PROVE  CountsOf(index, terms, relate, total)
              = [seen |-> [h \in Hash |-> DfHisIn(index, terms, h) + DfNowIn(index, terms, h)],
                 met |-> [p \in Hash \X Hash |-> Weight(Cell(index, terms, relate, p[1], p[2]))],
                 weibos |-> total.weibo_num]
<1>1. ASSUME NEW h \in Hash
      PROVE  (IF index[h] = End THEN 0
              ELSE At(terms, index[h]).df_history + At(terms, index[h]).df_now)
                = DfHisIn(index, terms, h) + DfNowIn(index, terms, h)
  BY DEF DfHisIn, DfNowIn
<1>2. Weight(Unmet) = 0
  BY DEF Weight, Unmet
<1>3. ASSUME NEW p \in Hash \X Hash
      PROVE  (IF index[p[1]] = End THEN 0
              ELSE IF At(terms, index[p[1]]).cooc_term[p[2]] = End THEN 0
              ELSE Weight(At(relate, At(terms, index[p[1]]).cooc_term[p[2]])))
                = Weight(Cell(index, terms, relate, p[1], p[2]))
  BY <1>2 DEF Cell
<1>4. QED
  BY <1>1, <1>3, Zenon DEF CountsOf

\* What CountsNow leaves of them while a line is being read.
Seen(h) == (DfOld(h) + Df(h)) - One(InLine /\ h \in hmInWeibo)
Met(g, h) == Weight(Rel(g, h)) - One(Passed(g, h))

\* CountsNow is the cells without what the present line has added.
LEMMA CountsNowIs ==
    CountsNow = [seen |-> [h \in Hash |-> Seen(h)],
                 met |-> [p \in Hash \X Hash |-> Met(p[1], p[2])],
                 weibos |-> m_total_info.weibo_num]
<1> DEFINE s == [h \in Hash |-> DfOld(h) + Df(h)]
           m == [p \in Hash \X Hash |-> Weight(Rel(p[1], p[2]))]
           all == [seen |-> s, met |-> m, weibos |-> m_total_info.weibo_num]
<1>1. CountsOf(mTermIndex, mTermInfo, mRelateInfo, m_total_info) = all
  BY CountsOfIs DEF Df, DfOld, Rel
<1> DEFINE s2 == [h \in Hash |-> all.seen[h] - (IF InLine /\ h \in hmInWeibo THEN 1 ELSE 0)]
           m2 == [p \in Hash \X Hash |-> all.met[p] - (IF Passed(p[1], p[2]) THEN 1 ELSE 0)]
<1>2. CountsNow = [all EXCEPT !.seen = s2, !.met = m2]
  BY <1>1, Zenon DEF CountsNow
<1>3. s2 = [h \in Hash |-> Seen(h)]
  <2>1. \A h \in Hash : all.seen[h] = DfOld(h) + Df(h)
    OBVIOUS
  <2> HIDE DEF all
  <2>2. \A h \in Hash : all.seen[h] - (IF InLine /\ h \in hmInWeibo THEN 1 ELSE 0) = Seen(h)
    BY <2>1 DEF Seen, One
  <2>3. QED
    BY <2>2, Zenon
<1>4. m2 = [p \in Hash \X Hash |-> Met(p[1], p[2])]
  BY DEF Met, One
<1> DEFINE w == m_total_info.weibo_num
           R == [seen : {s, s2}, met : {m, m2}, weibos : {w}]
           cut == [all EXCEPT !.seen = s2, !.met = m2]
<1> HIDE DEF s2, m2, s, m, w
<1>5. all \in R
  BY DEF w
<1>6. ASSUME NEW r \in R
      PROVE  LET c == [r EXCEPT !.seen = s2, !.met = m2]
             IN  c \in R /\ c.seen = s2 /\ c.met = m2 /\ c.weibos = w
  OBVIOUS
<1>7. cut \in R /\ cut.seen = s2 /\ cut.met = m2 /\ cut.weibos = w
  BY <1>5, <1>6
<1> HIDE DEF cut
<1>8. cut = [seen |-> s2, met |-> m2, weibos |-> w]
  BY <1>7
<1>9. QED
  BY <1>2, <1>3, <1>4, <1>8 DEF cut, w

\* The same after a step.
LEMMA CountsNextIs ==
    CountsNow' = [seen |-> [h \in Hash |-> Seen(h)'],
                  met |-> [p \in Hash \X Hash |-> Met(p[1], p[2])'],
                  weibos |-> m_total_info'.weibo_num]
<1>1. (CountsNow = [seen |-> [h \in Hash |-> Seen(h)],
                    met |-> [p \in Hash \X Hash |-> Met(p[1], p[2])],
                    weibos |-> m_total_info.weibo_num])'
  BY CountsNowIs, PTL
<1>2. QED
  BY <1>1

\* A step that keeps every term's and every pair's counts keeps CountsNow.
LEMMA SameCounts ==
    ASSUME \A h \in Hash : Seen(h)' = Seen(h),
           \A g, h \in Hash : Met(g, h)' = Met(g, h),
           m_total_info'.weibo_num = m_total_info.weibo_num
    PROVE  CountsNow' = CountsNow
<1>1. [h \in Hash |-> Seen(h)'] = [h \in Hash |-> Seen(h)]
  OBVIOUS
<1>2. \A p \in Hash \X Hash : Met(p[1], p[2])' = Met(p[1], p[2])
  OBVIOUS
<1>3. [p \in Hash \X Hash |-> Met(p[1], p[2])'] = [p \in Hash \X Hash |-> Met(p[1], p[2])]
  BY <1>2
<1>4. QED
  BY <1>1, <1>3, CountsNowIs, CountsNextIs


\* Empty memory is the counter at zero.
LEMMA ZeroCounts ==
    (mTermIndex = EmptyMap /\ m_total_info = NoTotals /\ ~InLine) => CountsNow = Counter!Zero
<1> SUFFICES ASSUME mTermIndex = EmptyMap, m_total_info = NoTotals, ~InLine
             PROVE  CountsNow = Counter!Zero
  OBVIOUS
<1>1. \A g, h \in Hash : ~Passed(g, h)
  BY DEF Passed, InLine
<1>2. \A h \in Hash : Seen(h) = 0
  BY EmptyCounts DEF Seen, One
<1>3. Weight(Unmet) = 0
  BY DEF Weight, Unmet
<1>4. \A g, h \in Hash : Met(g, h) = 0
  BY <1>1, <1>3, EmptyCounts DEF Met, One
<1>5. [h \in Hash |-> Seen(h)] = [h \in Hash |-> 0]
  BY <1>2
<1>6. \A p \in Hash \X Hash : Met(p[1], p[2]) = 0
  BY <1>4
<1>7. [p \in Hash \X Hash |-> Met(p[1], p[2])] = [p \in Hash \X Hash |-> 0]
  BY <1>6
<1>8. QED
  BY <1>5, <1>7, CountsNowIs DEF Counter!Zero, Counter!Pair, NoTotals

\* The same after a step.
LEMMA ZeroCountsNext ==
    ASSUME mTermIndex' = EmptyMap, m_total_info' = NoTotals, ~InLine'
    PROVE  CountsNow' = Counter!Zero
<1>1. ((mTermIndex = EmptyMap /\ m_total_info = NoTotals /\ ~InLine) => CountsNow = Counter!Zero)'
  BY ZeroCounts, PTL
<1>2. Counter!Zero' = Counter!Zero
  BY DEF Counter!Zero, Counter!Pair
<1>3. QED
  BY <1>1, <1>2

\* The counts between two lines are counts.
LEMMA CountsAreCounts ==
    ASSUME IInv', ~InLine'
    PROVE  /\ CountsNow' \in Counter!Counts
           /\ \A h \in Hash : Seen(h)' = DfOld(h)' + Df(h)'
           /\ \A g, h \in Hash : Met(g, h)' = Weight(Rel(g, h))' /\ Met(g, h)' \in Nat
<1>1. \A g, h \in Hash : ~Passed(g, h)'
  BY DEF Passed, InLine
<1>2. /\ \A h \in Hash : Df(h)' \in Nat /\ DfOld(h)' \in Nat
      /\ \A g, h \in Hash : Rel(g, h)'.num_now \in Nat /\ Rel(g, h)'.num_history \in Nat
      /\ m_total_info' \in Totals
  BY NextTypes DEF IInv, TypeOK
<1>3. \A h \in Hash : Seen(h)' = DfOld(h)' + Df(h)' /\ Seen(h)' \in Nat
  BY <1>2 DEF Seen, One
<1>4. \A g, h \in Hash : Met(g, h)' = Weight(Rel(g, h))' /\ Met(g, h)' \in Nat
  BY <1>1, <1>2 DEF Met, One, Weight
<1>5. \A p \in Hash \X Hash : Met(p[1], p[2])' \in Nat
  BY <1>4
<1>6. m_total_info'.weibo_num \in Nat
  BY <1>2 DEF Totals
<1>7. /\ [h \in Hash |-> Seen(h)'] \in [Hash -> Nat]
      /\ [p \in Hash \X Hash |-> Met(p[1], p[2])'] \in [Hash \X Hash -> Nat]
  BY <1>3, <1>5
<1>8. CountsNow' \in Counter!Counts
  BY <1>6, <1>7, CountsNextIs DEF Counter!Counts, Counter!Pair
<1>9. QED
  BY <1>3, <1>4, <1>8

\* LoadIndex begins with the counts that are installed.
LEMMA LoadBegins ==
    ASSUME IInv, CountInv, IInv', LoadIndex
    PROVE  Counter!Begin
<1>1. /\ data.found /\ pc = "load" /\ pc' = "lines" /\ m_total_info' = Patched(data.total)
      /\ UNCHANGED <<mNoMemory, output, data>>
  BY DEF LoadIndex, files
<1>2. data \in Image /\ ImageOK(data)
  BY <1>1 DEF IInv, TypeOK, NoIndex
<1> DEFINE index == data.TermIndex
           terms == data.TermInfo
           relate == data.RelateInfo
           cell(g, h) == Cell(index, terms, relate, g, h)
<1>3. /\ index \in Map /\ terms \in Seq(TermRec) /\ relate \in Seq(RelateRec)
      /\ data.total \in Totals /\ Sound(index, terms, relate, data.total)
  BY <1>2 DEF Image, ImageOK
<1>4. /\ \A h \in Hash : Df(h)' = 0 /\ DfOld(h)' = DfHisIn(index, terms, h) + DfNowIn(index, terms, h)
      /\ \A g, h \in Hash : Rel(g, h)' = [num_history |-> Weight(cell(g, h)), num_now |-> 0]
  BY LoadedCounts
<1> HIDE DEF index, terms, relate
<1>5. /\ \A h \in Hash : DfHisIn(index, terms, h) \in Nat /\ DfNowIn(index, terms, h) \in Nat
      /\ \A g, h \in Hash : cell(g, h) \in RelateRec
  BY <1>3, CellType
<1>6. ~InLine'
  BY <1>1 DEF InLine
<1>7. \A h \in Hash : Seen(h)' = DfHisIn(index, terms, h) + DfNowIn(index, terms, h)
  <2>1. \A h \in Hash : Seen(h)' = DfOld(h)' + Df(h)'
    BY <1>6, CountsAreCounts
  <2>2. QED
    BY <1>4, <1>5, <2>1
<1> HIDE DEF cell
<1>8. \A g, h \in Hash : Met(g, h)' = Weight(cell(g, h))
  <2>1. \A g, h \in Hash : Met(g, h)' = Weight(Rel(g, h))'
    BY <1>6, CountsAreCounts
  <2>2. \A g, h \in Hash : Weight(cell(g, h)) \in Nat
    BY <1>5 DEF Weight, RelateRec
  <2>3. \A g, h \in Hash : Weight(Rel(g, h))' = Weight(cell(g, h)) + 0
    <3>1. \A g, h \in Hash : Weight(Rel(g, h))' = Rel(g, h)'.num_history + Rel(g, h)'.num_now
      BY DEF Weight
    <3>2. QED
      BY <1>4, <3>1
  <2>4. QED
    BY <2>1, <2>2, <2>3
<1>9. m_total_info'.weibo_num = data.total.weibo_num
  BY <1>1, <1>3 DEF Patched, Totals
<1>10. CountsNow' = CountsOf(index, terms, relate, data.total)
  <2>1. [h \in Hash |-> Seen(h)'] = [h \in Hash |-> DfHisIn(index, terms, h) + DfNowIn(index, terms, h)]
    BY <1>7
  <2>2. \A p \in Hash \X Hash : Met(p[1], p[2])' = Weight(cell(p[1], p[2]))
    BY <1>8
  <2>3. [p \in Hash \X Hash |-> Met(p[1], p[2])'] = [p \in Hash \X Hash |-> Weight(cell(p[1], p[2]))]
    BY <2>2
  <2>4. CountsOf(index, terms, relate, data.total)
           = [seen |-> [h \in Hash |-> DfHisIn(index, terms, h) + DfNowIn(index, terms, h)],
              met |-> [p \in Hash \X Hash |-> Weight(cell(p[1], p[2]))],
              weibos |-> data.total.weibo_num]
    BY CountsOfIs DEF cell
  <2>5. QED
    BY <1>9, <2>1, <2>3, <2>4, CountsNextIs
<1>11. CountsNow' \in CountsIn(data)
  BY <1>1, <1>10 DEF CountsIn, index, terms, relate
<1>12. Phase = "off" /\ Phase' = "counting"
  BY <1>1 DEF Phase
<1>13. CountsIn(output)' = CountsIn(output) /\ CountsIn(data)' = CountsIn(data)
  BY <1>1
<1>14. QED
  BY <1>1, <1>11, <1>12, <1>13 DEF Counter!Begin

\* A line that ends is counted as a whole; without memory it may miss pairs.
LEMMA LineCounted ==
    ASSUME IInv, IInv', pc = "cooc", EndLine(m_total_info),
           UNCHANGED <<mTermIndex, mTermInfo>>,
           mRelateInfo' \in {mRelateInfo, Append(mRelateInfo, NewRelation)},
           mNoMemory' \in {mNoMemory, TRUE}, mNoMemory' \/ i >= Len(hash_values)
    PROVE  Counter!Count(hmInWeibo)
<1>1. /\ pc' = "lines" /\ m_total_info' = [m_total_info EXCEPT !.weibo_num = @ + 1]
      /\ UNCHANGED <<output, data>>
  BY DEF EndLine, files
<1>2. InLine /\ ~InLine'
  BY <1>1 DEF InLine
<1>3. /\ \A h \in Hash : Df(h)' = Df(h) /\ DfOld(h)' = DfOld(h)
      /\ \A g, h \in Hash : Rel(g, h)' = Rel(g, h)
  BY EndLineCounts
<1>4. /\ \A h \in Hash : Df(h) \in Nat /\ DfOld(h) \in Nat
      /\ \A g, h \in Hash : Rel(g, h) \in RelateRec
      /\ m_total_info \in Totals
  BY MemoryTypes
<1>5. /\ CountsNow' \in Counter!Counts
      /\ \A h \in Hash : Seen(h)' = DfOld(h)' + Df(h)'
      /\ \A g, h \in Hash : Met(g, h)' = Weight(Rel(g, h))' /\ Met(g, h)' \in Nat
  BY <1>2, CountsAreCounts
<1>6. /\ CountsNow.seen = [h \in Hash |-> Seen(h)]
      /\ CountsNow.met = [p \in Hash \X Hash |-> Met(p[1], p[2])]
      /\ CountsNow.weibos = m_total_info.weibo_num
  BY CountsNowIs
<1>7. /\ CountsNow'.seen = [h \in Hash |-> Seen(h)']
      /\ CountsNow'.met = [p \in Hash \X Hash |-> Met(p[1], p[2])']
      /\ CountsNow'.weibos = m_total_info'.weibo_num
  BY CountsNextIs
<1>8. ASSUME NEW h \in Hash
      PROVE  CountsNow'.seen[h] = CountsNow.seen[h] + (IF h \in hmInWeibo THEN 1 ELSE 0)
  <2>1. Seen(h) = (DfOld(h) + Df(h)) - (IF h \in hmInWeibo THEN 1 ELSE 0)
    BY <1>2 DEF Seen, One
  <2>2. Seen(h)' = DfOld(h) + Df(h)
    BY <1>3, <1>5
  <2>3. CountsNow'.seen[h] = Seen(h)' /\ CountsNow.seen[h] = Seen(h)
    BY <1>6, <1>7
  <2>4. QED
    BY <1>4, <2>1, <2>2, <2>3
<1>9. ASSUME NEW g \in Hash, NEW h \in Hash
      PROVE  LET p == <<g, h>>
             IN  IF g # h /\ {g, h} \subseteq hmInWeibo
                 THEN \/ CountsNow'.met[p] = CountsNow.met[p] + 1
                      \/ mNoMemory' /\ CountsNow'.met[p] = CountsNow.met[p]
                 ELSE CountsNow'.met[p] = CountsNow.met[p]
  <2> DEFINE p == <<g, h>>
             w == Weight(Rel(g, h))
             both == g # h /\ {g, h} \subseteq hmInWeibo
  <2>1. p \in Hash \X Hash /\ p[1] = g /\ p[2] = h
    OBVIOUS
  <2>2. CountsNow'.met[p] = Met(g, h)' /\ CountsNow.met[p] = Met(g, h)
    BY <1>6, <1>7, <2>1
  <2>3. Met(g, h)' = w /\ w \in Nat
    <3>1. Rel(g, h) \in RelateRec /\ Rel(g, h)' = Rel(g, h)
      BY <1>3, <1>4
    <3>2. w \in Nat
      BY <3>1, WeightNat
    <3>3. Weight(Rel(g, h))' = w
      BY <3>1 DEF Weight
    <3>4. QED
      BY <1>5, <3>2, <3>3
  <2>4. Met(g, h) = w - (IF Passed(g, h) THEN 1 ELSE 0)
    BY DEF Met, One
  <2>5. Passed(g, h) => both
    BY PassedInLine
  <2>6. ~mNoMemory' => (Passed(g, h) <=> both)
    BY AllPassed
  <2> HIDE DEF p, w
  <2>7. QED
    BY <2>2, <2>3, <2>4, <2>5, <2>6 DEF p
<1>10. CountsNow'.weibos = CountsNow.weibos + 1
  BY <1>1, <1>4, <1>6, <1>7 DEF Totals
<1>11. Phase = "counting" /\ Phase' = Phase
  BY <1>1 DEF Phase
<1>12. CountsIn(output)' = CountsIn(output) /\ CountsIn(data)' = CountsIn(data)
  BY <1>1
<1>13. QED
  BY <1>5, <1>8, <1>9, <1>10, <1>11, <1>12 DEF Counter!Count

\* FiltIndex forgets a pair altogether or leaves it, and touches no term.
LEMMA FiltIndexFilters ==
    ASSUME IInv, IInv', FiltIndex
    PROVE  Counter!Filter
<1> DEFINE gone(n) == {h \in Hash : <<n - 1, h>> \in Filtered}
           left(n) == IF mTermInfo[n].relate_term_num < K THEN mTermInfo[n]
                      ELSE Without(mTermInfo[n], gone(n))
<1>1. /\ pc = "filt" /\ pc' = "dump"
      /\ mTermInfo' = [n \in 1 .. Len(mTermInfo) |-> left(n)]
      /\ UNCHANGED <<mTermIndex, mRelateInfo, mNoMemory, m_total_info, output, data>>
  BY DEF FiltIndex, files
<1>2. /\ mTermIndex \in Map /\ mTermInfo \in Seq(TermRec) /\ mRelateInfo \in Seq(RelateRec)
      /\ m_total_info \in Totals /\ Sound(mTermIndex, mTermInfo, mRelateInfo, m_total_info)
      /\ \A h \in Hash : Df(h) \in Nat /\ DfOld(h) \in Nat
      /\ \A g, h \in Hash : Rel(g, h) \in RelateRec
  BY MemoryTypes
<1>3. ASSUME NEW n \in 1 .. Len(mTermInfo)
      PROVE  /\ left(n).df_now = mTermInfo[n].df_now
             /\ left(n).df_history = mTermInfo[n].df_history
             /\ \A h \in Hash : left(n).cooc_term[h] \in {End, mTermInfo[n].cooc_term[h]}
  <2>1. mTermInfo[n] \in TermRec
    BY <1>2
  <2>2. CASE mTermInfo[n].relate_term_num < K
    BY <2>2
  <2>3. CASE ~(mTermInfo[n].relate_term_num < K)
    <3>1. left(n) = Without(mTermInfo[n], gone(n))
      BY <2>3
    <3> HIDE DEF gone, left
    <3>2. QED
      BY <2>1, <3>1, WithoutTerm
  <2>4. QED
    BY <2>2, <2>3
<1> HIDE DEF left, gone
<1>4. \A n \in 1 .. Len(mTermInfo) : mTermInfo'[n] = left(n)
  BY <1>1
<1>5. \A h \in Hash : mTermIndex[h] # End => mTermIndex[h] + 1 \in 1 .. Len(mTermInfo)
  BY <1>2, CellType
<1>6. ASSUME NEW h \in Hash
      PROVE  Df(h)' = Df(h) /\ DfOld(h)' = DfOld(h)
  BY <1>1, <1>3, <1>4, <1>5 DEF Df, DfOld, DfNowIn, DfHisIn, At
<1>7. ASSUME NEW g \in Hash, NEW h \in Hash
      PROVE  Rel(g, h)' \in {Rel(g, h), Unmet}
  <2>1. CASE mTermIndex[g] = End
    BY <1>1, <2>1 DEF Rel, Cell
  <2>2. CASE mTermIndex[g] # End
    <3>1. At(mTermInfo', mTermIndex[g]).cooc_term[h] \in {End, At(mTermInfo, mTermIndex[g]).cooc_term[h]}
      BY <1>3, <1>4, <1>5, <2>2 DEF At
    <3>2. QED
      BY <1>1, <2>2, <3>1 DEF Rel, Cell
  <2>3. QED
    BY <2>1, <2>2
<1>8. ~InLine /\ ~InLine' /\ \A g, h \in Hash : ~Passed(g, h)
  BY <1>1 DEF InLine, Passed
<1>9. /\ CountsNow' \in Counter!Counts
      /\ \A h \in Hash : Seen(h)' = DfOld(h)' + Df(h)'
      /\ \A g, h \in Hash : Met(g, h)' = Weight(Rel(g, h))'
  BY <1>8, CountsAreCounts
<1>10. /\ CountsNow.seen = [h \in Hash |-> Seen(h)]
       /\ CountsNow.met = [p \in Hash \X Hash |-> Met(p[1], p[2])]
       /\ CountsNow.weibos = m_total_info.weibo_num
       /\ CountsNow'.seen = [h \in Hash |-> Seen(h)']
       /\ CountsNow'.met = [p \in Hash \X Hash |-> Met(p[1], p[2])']
       /\ CountsNow'.weibos = m_total_info'.weibo_num
  BY CountsNowIs, CountsNextIs
<1>11. \A h \in Hash : Seen(h)' = Seen(h)
  <2>1. \A h \in Hash : Seen(h) = (DfOld(h) + Df(h)) - 0
    BY <1>8 DEF Seen, One
  <2>2. QED
    BY <1>2, <1>6, <1>9, <2>1
<1>12. \A g, h \in Hash : Met(g, h)' \in {Met(g, h), 0}
  <2>1. \A g, h \in Hash : Met(g, h) = Weight(Rel(g, h)) - 0
    BY <1>8 DEF Met, One
  <2>2. \A g, h \in Hash : Weight(Rel(g, h)) \in Nat
    BY <1>2, WeightNat
  <2>3. Weight(Unmet) = 0
    BY DEF Weight, Unmet
  <2>4. ASSUME NEW g \in Hash, NEW h \in Hash
        PROVE  Weight(Rel(g, h))' \in {Weight(Rel(g, h)), 0}
    <3>1. Weight(Rel(g, h))' = Rel(g, h)'.num_history + Rel(g, h)'.num_now
      BY DEF Weight
    <3>2. CASE Rel(g, h)' = Rel(g, h)
      BY <3>1, <3>2 DEF Weight
    <3>3. CASE Rel(g, h)' = Unmet
      BY <3>1, <3>3 DEF Unmet
    <3>4. QED
      BY <1>7, <3>2, <3>3
  <2>5. QED
    BY <1>9, <2>1, <2>2, <2>4
<1>13. \A p \in Hash \X Hash : CountsNow'.met[p] \in {CountsNow.met[p], 0}
  <2>1. \A p \in Hash \X Hash : Met(p[1], p[2])' \in {Met(p[1], p[2]), 0}
    BY <1>12
  <2>2. QED
    BY <1>10, <2>1
<1>14. CountsNow'.seen = CountsNow.seen /\ CountsNow'.weibos = CountsNow.weibos
  BY <1>1, <1>10, <1>11
<1>15. Phase = "counting" /\ Phase' = "filtered"
  BY <1>1 DEF Phase
<1>16. CountsIn(output)' = CountsIn(output) /\ CountsIn(data)' = CountsIn(data)
  BY <1>1
<1>17. QED
  BY <1>1, <1>9, <1>13, <1>14, <1>15, <1>16 DEF Counter!Filter, Counter!Pair


\* DumpIndex leaves behind what was counted.
LEMMA DumpIndexSaves ==
    ASSUME IInv, IInv', DumpIndex
    PROVE  Counter!Save
<1> DEFINE new == Renumbered(mTermInfo)
           file == Written(mTermInfo, mRelateInfo)
           total == m_total_info'
<1>1. /\ pc = "dump" /\ pc' = "text"
      /\ m_total_info' = [m_total_info EXCEPT
                             !.sorted_relate_term_num = Cardinality(Relations(mTermInfo))]
      /\ output' = [found |-> TRUE, TermIndex |-> mTermIndex, TermInfo |-> new,
                    RelateInfo |-> file, total |-> total]
      /\ UNCHANGED <<mTermIndex, mTermInfo, mRelateInfo, mNoMemory, data>>
  BY DEF DumpIndex
<1>2. /\ mTermIndex \in Map /\ mTermInfo \in Seq(TermRec) /\ mRelateInfo \in Seq(RelateRec)
      /\ m_total_info \in Totals /\ Sound(mTermIndex, mTermInfo, mRelateInfo, m_total_info)
      /\ \A h \in Hash : Df(h) \in Nat /\ DfOld(h) \in Nat
      /\ \A g, h \in Hash : Rel(g, h) \in RelateRec
  BY MemoryTypes
<1>3. ImageOK(output') /\ output' \in Image
  BY <1>1 DEF IInv, TypeOK, NoIndex
<1>4. /\ new \in Seq(TermRec) /\ file \in Seq(RelateRec) /\ total \in Totals
      /\ Sound(mTermIndex, new, file, total)
  BY <1>1, <1>3 DEF ImageOK, Image
<1>5. /\ \A n \in 1 .. Len(mTermInfo) : /\ new[n].df_now = mTermInfo[n].df_now
                                        /\ new[n].df_history = mTermInfo[n].df_history
      /\ Relations(new) = Relations(mTermInfo)
      /\ \A r \in Relations(mTermInfo) : At(file, Slot(new, r)) = At(mRelateInfo, Slot(mTermInfo, r))
  BY <1>2, DumpedRelations DEF Sound
<1>6. total.weibo_num = m_total_info.weibo_num
  BY <1>1, <1>2 DEF Totals
<1> HIDE DEF new, file, total
<1>7. ~InLine /\ ~InLine' /\ \A g, h \in Hash : ~Passed(g, h) /\ ~Passed(g, h)'
  BY <1>1 DEF InLine, Passed
<1>8. ASSUME NEW h \in Hash
      PROVE  DfHisIn(mTermIndex, new, h) + DfNowIn(mTermIndex, new, h) = Seen(h)
  <2>1. mTermIndex[h] # End => mTermIndex[h] + 1 \in 1 .. Len(mTermInfo)
    BY <1>2, CellType
  <2>2. DfHisIn(mTermIndex, new, h) = DfOld(h) /\ DfNowIn(mTermIndex, new, h) = Df(h)
    BY <1>5, <2>1 DEF DfHisIn, DfNowIn, DfOld, Df, At
  <2>3. Seen(h) = (DfOld(h) + Df(h)) - 0
    BY <1>7 DEF Seen, One
  <2>4. QED
    BY <1>2, <2>2, <2>3
<1>9. ASSUME NEW g \in Hash, NEW h \in Hash
      PROVE  Weight(Cell(mTermIndex, new, file, g, h)) = Met(g, h)
  <2>1. mTermIndex[g] = End => mTermIndex[g] \notin 0 .. Len(mTermInfo) - 1
    BY <1>2 DEF End
  <2>2. Cell(mTermIndex, new, file, g, h) = Rel(g, h)
    BY <1>2, <1>4, <1>5, <2>1, CellsKept DEF Rel
  <2>3. Weight(Rel(g, h)) \in Nat
    BY <1>2, WeightNat
  <2>4. Met(g, h) = Weight(Rel(g, h)) - 0
    BY <1>7 DEF Met, One
  <2>5. QED
    BY <2>2, <2>3, <2>4
<1>10. CountsOf(mTermIndex, new, file, total) = CountsNow
  <2>1. [h \in Hash |-> DfHisIn(mTermIndex, new, h) + DfNowIn(mTermIndex, new, h)] = [h \in Hash |-> Seen(h)]
    BY <1>8
  <2>2. \A p \in Hash \X Hash : Weight(Cell(mTermIndex, new, file, p[1], p[2])) = Met(p[1], p[2])
    BY <1>9
  <2>3. [p \in Hash \X Hash |-> Weight(Cell(mTermIndex, new, file, p[1], p[2]))]
           = [p \in Hash \X Hash |-> Met(p[1], p[2])]
    BY <2>2
  <2>4. CountsOf(mTermIndex, new, file, total)
           = [seen |-> [h \in Hash |-> DfHisIn(mTermIndex, new, h) + DfNowIn(mTermIndex, new, h)],
              met |-> [p \in Hash \X Hash |-> Weight(Cell(mTermIndex, new, file, p[1], p[2]))],
              weibos |-> total.weibo_num]
    BY CountsOfIs
  <2>5. QED
    BY <1>6, <2>1, <2>3, <2>4, CountsNowIs
<1>11. CountsIn(output)' = {CountsNow}
  BY <1>1, <1>10 DEF CountsIn
<1>12. CountsNow' = CountsNow
  <2>1. \A h \in Hash : Seen(h)' = Seen(h)
    BY <1>1, <1>7 DEF Seen, One, Df, DfOld, DfNowIn, DfHisIn
  <2>2. \A g, h \in Hash : Met(g, h)' = Met(g, h)
    BY <1>1, <1>7 DEF Met, One, Rel, Cell
  <2>3. QED
    BY <1>6, <2>1, <2>2, SameCounts DEF total
<1>13. Phase = "filtered" /\ Phase' = "saved"
  BY <1>1 DEF Phase
<1>14. CountsIn(data)' = CountsIn(data)
  BY <1>1
<1>15. QED
  BY <1>1, <1>11, <1>12, <1>13, <1>14 DEF Counter!Save

\* A run that ends, in whatever way, ends the counting.
LEMMA ExitStops ==
    ASSUME IInv, CountInv, Exit, pc # "idle", data' = data,
           \/ output' = output
           \/ pc \in {"dump", "text"} /\ output' = NoIndex
    PROVE  Counter!Stop \/ UNCHANGED Counter!counterVars
<1>1. /\ pc' = "idle" /\ mTermIndex' = EmptyMap /\ m_total_info' = NoTotals /\ mNoMemory' = FALSE
  BY DEF Exit
<1>2. Phase' = "off" /\ ~InLine'
  BY <1>1 DEF Phase, InLine
<1>3. CountsNow' = Counter!Zero
  BY <1>1, <1>2, ZeroCountsNext
<1>4. /\ CountsIn(data)' = CountsIn(data)
      /\ CountsIn(output)' = CountsIn(output) \/ (pc \in {"dump", "text"} /\ CountsIn(output)' = {})
  BY DEF CountsIn, NoIndex
<1>5. pc \in {"dump", "text"} => Phase \in {"filtered", "saved"}
  BY DEF Phase
<1>6. CASE pc = "load"
  <2>1. mTermIndex = EmptyMap /\ m_total_info = NoTotals /\ mNoMemory = FALSE
    BY <1>6 DEF CountInv, Empty
  <2>2. Phase = "off" /\ ~InLine
    BY <1>6 DEF Phase, InLine
  <2>3. CountsNow = Counter!Zero
    BY <2>1, <2>2, ZeroCounts
  <2>4. QED
    BY <1>1, <1>2, <1>3, <1>4, <1>6, <2>1, <2>2, <2>3 DEF Counter!counterVars
<1>7. CASE pc # "load"
  <2>1. Phase # "off"
    BY <1>7 DEF Phase, IInv, TypeOK
  <2>2. QED
    BY <1>1, <1>2, <1>3, <1>4, <1>5, <2>1 DEF Counter!Stop
<1>8. QED
  BY <1>6, <1>7

\* A step inside a line changes nothing that the counter sees.
LEMMA WithinLineStutters ==
    ASSUME IInv, IInv',
           \/ ReadLine \/ TwiceInLine \/ EndOfTerms \/ FirstInLine
           \/ SkipSelf \/ CoocAgain \/ NewCooc
    PROVE  UNCHANGED Counter!counterVars
<1>1. /\ pc \in {"lines", "terms", "cooc"} /\ pc' \in {"lines", "terms", "cooc"}
      /\ UNCHANGED <<weibos, mNoMemory, output, data>>
      /\ m_total_info'.weibo_num = m_total_info.weibo_num
      /\ \A h \in Hash : DfOld(h)' = DfOld(h)
      /\ \A h \in Hash : Df(h)' + One(InLine /\ h \in hmInWeibo)
                            = Df(h) + One(InLine /\ h \in hmInWeibo)'
      /\ \A g, h \in Hash : Rel(g, h)'.num_history = Rel(g, h).num_history
      /\ \A g, h \in Hash : Rel(g, h)'.num_now + One(Passed(g, h))
                               = Rel(g, h).num_now + One(Passed(g, h))'
  BY WithinLine
<1>2. /\ \A h \in Hash : Df(h) \in Nat /\ DfOld(h) \in Nat /\ Df(h)' \in Nat /\ DfOld(h)' \in Nat
      /\ \A g, h \in Hash : Rel(g, h) \in RelateRec /\ Rel(g, h)' \in RelateRec
  BY MemoryTypes, NextTypes
<1>3. ASSUME NEW h \in Hash
      PROVE  Seen(h)' = Seen(h)
  <2> DEFINE a == One(InLine /\ h \in hmInWeibo)
             b == One(InLine /\ h \in hmInWeibo)'
  <2>1. a \in {0, 1} /\ b \in {0, 1}
    BY DEF One
  <2>2. Df(h)' + a = Df(h) + b /\ DfOld(h)' = DfOld(h)
    BY <1>1
  <2>3. Seen(h) = (DfOld(h) + Df(h)) - a /\ Seen(h)' = (DfOld(h)' + Df(h)') - b
    BY DEF Seen
  <2> HIDE DEF a, b
  <2>4. QED
    BY <1>2, <2>1, <2>2, <2>3
<1>4. ASSUME NEW g \in Hash, NEW h \in Hash
      PROVE  Met(g, h)' = Met(g, h)
  <2> DEFINE a == One(Passed(g, h))
             b == One(Passed(g, h))'
             m == Rel(g, h).num_now
             n == Rel(g, h)'.num_now
             k == Rel(g, h).num_history
  <2>1. a \in {0, 1} /\ b \in {0, 1} /\ m \in Nat /\ n \in Nat /\ k \in Nat
    BY <1>2 DEF One, RelateRec
  <2>2. n + a = m + b /\ Rel(g, h)'.num_history = k
    BY <1>1
  <2>3. Met(g, h) = (k + m) - a /\ Met(g, h)' = (Rel(g, h)'.num_history + n) - b
    BY DEF Met, Weight
  <2> HIDE DEF a, b, m, n, k
  <2>4. QED
    BY <2>1, <2>2, <2>3
<1>5. CountsNow' = CountsNow
  BY <1>1, <1>3, <1>4, SameCounts
<1>6. Phase' = Phase
  BY <1>1 DEF Phase
<1>7. CountsIn(output)' = CountsIn(output) /\ CountsIn(data)' = CountsIn(data)
  BY <1>1
<1>8. QED
  BY <1>1, <1>5, <1>6, <1>7 DEF Counter!counterVars

\* A step that only moves main on, between two lines or outside a run.
LEMMA QuietStutters ==
    ASSUME UNCHANGED <<memory, output, data>>, ~InLine, ~InLine', Phase' = Phase
    PROVE  UNCHANGED Counter!counterVars
<1>1. \A g, h \in Hash : ~Passed(g, h) /\ ~Passed(g, h)'
  BY DEF Passed, InLine
<1>2. \A h \in Hash : Seen(h)' = Seen(h)
  BY DEF memory, Seen, One, Df, DfOld, DfNowIn, DfHisIn
<1>3. \A g, h \in Hash : Met(g, h)' = Met(g, h)
  BY <1>1 DEF memory, Met, One, Rel, Cell
<1>4. CountsNow' = CountsNow
  BY <1>2, <1>3, SameCounts DEF memory
<1>5. CountsIn(output)' = CountsIn(output) /\ CountsIn(data)' = CountsIn(data)
  OBVIOUS
<1>6. QED
  BY <1>4, <1>5 DEF Counter!counterVars, memory

\* Every step of main is a step of the counter or none.
LEMMA CounterStep ==
    IInv /\ CountInv /\ [Next]_vars => [Counter!CounterNext]_(Counter!counterVars)
<1> SUFFICES ASSUME IInv, CountInv, [Next]_vars
             PROVE  Counter!CounterNext \/ UNCHANGED Counter!counterVars
  OBVIOUS
<1>i. IInv'
  BY StepInv
<1>s. hmInWeibo \in SUBSET Hash /\ mNoMemory \in BOOLEAN
  BY DEF IInv, TypeOK
<1> USE DEF Counter!CounterNext
<1>1. CASE WBProcessorInit
  BY <1>1, QuietStutters DEF WBProcessorInit, files, InLine, Phase
<1>2. CASE LoadIndex
  BY <1>i, <1>2, LoadBegins
<1>3. CASE NoHistory
  <2>1. /\ pc = "load" /\ pc' = "lines" /\ UNCHANGED memory /\ UNCHANGED <<output, data>>
        /\ mTermIndex = EmptyMap /\ m_total_info = NoTotals
    BY <1>3 DEF NoHistory, CountInv, Empty, files
  <2>2. CountsNow' = Counter!Zero
    BY <2>1, ZeroCountsNext DEF memory, InLine
  <2>3. Phase = "off" /\ Phase' = "counting"
    BY <2>1 DEF Phase
  <2>4. CountsIn(output)' = CountsIn(output) /\ CountsIn(data)' = CountsIn(data)
    BY <2>1
  <2>5. QED
    BY <2>1, <2>2, <2>3, <2>4 DEF Counter!Begin, memory
<1>4. CASE \/ ReadLine \/ TwiceInLine \/ EndOfTerms \/ FirstInLine
           \/ SkipSelf \/ CoocAgain \/ NewCooc
  BY <1>i, <1>4, WithinLineStutters
<1>5. CASE \E pushed \in BOOLEAN : BadAlloc(pushed)
  <2>1. Counter!Count(hmInWeibo)
    BY <1>i, <1>5, BadAllocGivesUp, LineCounted
  <2>2. QED
    BY <1>s, <2>1
<1>6. CASE NoMemory
  <2>1. mNoMemory
    BY <1>6 DEF NoMemory
  <2>2. Counter!Count(hmInWeibo)
    BY <1>i, <1>s, <1>6, <2>1, NoMemoryGivesUp, LineCounted
  <2>3. QED
    BY <1>s, <2>2
<1>7. CASE AddCoocReturns
  <2>1. Counter!Count(hmInWeibo)
    BY <1>i, <1>7, LineCounted DEF AddCoocReturns
  <2>2. QED
    BY <1>s, <2>1
<1>8. CASE EndOfFile
  BY <1>8, QuietStutters DEF EndOfFile, files, InLine, Phase
<1>9. CASE FiltIndex
  BY <1>i, <1>9, FiltIndexFilters
<1>10. CASE DumpIndex
  BY <1>i, <1>10, DumpIndexSaves
<1>11. CASE LoadIndexFails \/ DumpIndexFails \/ DumpIndexAsText \/ Crash
  <2>1. /\ Exit /\ pc # "idle" /\ data' = data
        /\ output' = output \/ (pc \in {"dump", "text"} /\ output' = NoIndex)
    BY <1>11 DEF LoadIndexFails, DumpIndexFails, DumpIndexAsText, Crash, Flushed, files
  <2>2. QED
    BY <2>1, ExitStops
<1>12. CASE Install
  <2>1. pc = "idle" /\ pc' = "idle" /\ output.found /\ data' = output /\ output' = output
        /\ UNCHANGED memory
    BY <1>12 DEF Install
  <2>2. ~InLine /\ ~InLine' /\ Phase = "off" /\ Phase' = "off"
    BY <2>1 DEF InLine, Phase
  <2>3. CountsNow' = CountsNow /\ mNoMemory' = mNoMemory
    <3>1. \A g, h \in Hash : ~Passed(g, h) /\ ~Passed(g, h)'
      BY <2>2 DEF Passed, InLine
    <3>2. \A h \in Hash : Seen(h)' = Seen(h)
      BY <2>1, <2>2 DEF memory, Seen, One, Df, DfOld, DfNowIn, DfHisIn
    <3>3. \A g, h \in Hash : Met(g, h)' = Met(g, h)
      BY <2>1, <3>1 DEF memory, Met, One, Rel, Cell
    <3>4. QED
      BY <2>1, <3>2, <3>3, SameCounts DEF memory
  <2>4. CountsIn(output) # {} /\ CountsIn(data)' = CountsIn(output) /\ CountsIn(output)' = CountsIn(output)
    BY <2>1 DEF CountsIn
  <2>5. QED
    BY <2>2, <2>3, <2>4 DEF Counter!PutInPlace
<1>13. CASE UNCHANGED vars
  <2> USE DEF vars, locals, memory, files
  <2>1. \A h \in Hash : Seen(h)' = Seen(h)
    BY <1>13 DEF Seen, InLine, Df, DfOld, DfNowIn, DfHisIn
  <2>2. \A g, h \in Hash : Passed(g, h)' <=> Passed(g, h)
    BY <1>13 DEF Passed, Ahead
  <2>3. \A g, h \in Hash : Met(g, h)' = Met(g, h)
    BY <1>13, <2>2 DEF Met, One, Rel, Cell
  <2>4. CountsNow' = CountsNow
    BY <1>13, <2>1, <2>3, SameCounts
  <2>5. Phase' = Phase /\ CountsIn(output)' = CountsIn(output) /\ CountsIn(data)' = CountsIn(data)
    BY <1>13 DEF Phase
  <2>6. QED
    BY <1>13, <2>4, <2>5 DEF Counter!counterVars
<1>14. QED
  BY <1>1, <1>2, <1>3, <1>4, <1>5, <1>6, <1>7, <1>8, <1>9, <1>10, <1>11, <1>12, <1>13 DEF Next, AddCooc

\* The index implements the counter: a weibo counts as a whole, a run counts on
\* from the installed counts or from nothing, filtering forgets whole pairs, and
\* what is saved and installed is what was counted, crashes included.
THEOREM IndexCounts == Spec => CountsWhole
<1>1. Init => Counter!CounterInit
  <2> SUFFICES ASSUME Init PROVE Counter!CounterInit
    OBVIOUS
  <2>1. /\ pc = "idle" /\ mTermIndex = EmptyMap /\ m_total_info = NoTotals /\ mNoMemory = FALSE
        /\ output = NoIndex /\ data = NoIndex
    BY DEF Init
  <2>2. CountsNow = Counter!Zero
    BY <2>1, ZeroCounts DEF InLine
  <2>3. Phase = "off" /\ CountsIn(output) = {} /\ CountsIn(data) = {}
    BY <2>1 DEF Phase, CountsIn, NoIndex
  <2>4. QED
    BY <2>1, <2>2, <2>3 DEF Counter!CounterInit
<1>2. QED
  BY <1>1, CounterStep, CountInvariance, PTL DEF Spec, CountsWhole, Counter!CounterSpec


-----------------------------------------------------------------------------
(* FiltIndex: the K-th largest count of a term.                            *)

\* A subset of finitely many keys is finite and no larger.
LEMMA FewerKeys ==
    ASSUME NEW keys \in SUBSET Hash, NEW S \in SUBSET keys
    PROVE  /\ IsFiniteSet(S) /\ Cardinality(S) \in Nat
           /\ \A T \in SUBSET S : Cardinality(T) <= Cardinality(S) /\ Cardinality(T) \in Nat
           /\ \A T \in SUBSET S : T # S => Cardinality(T) < Cardinality(S)
<1>1. IsFiniteSet(S)
  BY HashAssumption, FS_Subset
<1>2. Cardinality(S) \in Nat
  BY <1>1, FS_CardinalityType
<1>3. ASSUME NEW T \in SUBSET S
      PROVE  /\ Cardinality(T) <= Cardinality(S) /\ Cardinality(T) \in Nat
             /\ T # S => Cardinality(T) < Cardinality(S)
  <2>1. IsFiniteSet(T) /\ Cardinality(T) <= Cardinality(S) /\ (Cardinality(S) = Cardinality(T) => S = T)
    BY <1>1, FS_Subset
  <2>2. Cardinality(T) \in Nat
    BY <2>1, FS_CardinalityType
  <2>3. QED
    BY <1>2, <2>1, <2>2
<1>4. QED
  BY <1>1, <1>2, <1>3

\* Of at least K counts one is the K-th largest: fewer than K are above it, and
\* at least K are not below.  It is the one with the fewest above among those
\* that at least K are not below: the least count above it would be better.
LEMMA KthExists ==
    ASSUME NEW keys \in SUBSET Hash, NEW count \in [keys -> Nat], Cardinality(keys) >= K
    PROVE  LET v == KthLargest(count)
           IN  /\ v \in Nat
               /\ Cardinality({h \in keys : count[h] > v}) < K
               /\ Cardinality({h \in keys : count[h] >= v}) >= K
<1> DEFINE Values == {count[h] : h \in keys}
           Above(v) == {h \in keys : count[h] > v}
           NotBelow(v) == {h \in keys : count[h] >= v}
           Good == {v \in Values : Cardinality(NotBelow(v)) >= K}
           Ranks == {Cardinality(Above(v)) : v \in Good}
<1>1. DOMAIN count = keys /\ Values \subseteq Nat /\ K \in Nat /\ K >= 1
  BY KAssumption
<1>2. /\ \A v \in Values : Cardinality(Above(v)) \in Nat /\ Cardinality(NotBelow(v)) \in Nat
      /\ IsFiniteSet(keys) /\ Cardinality(keys) \in Nat
  <2>1. \A v \in Values : Above(v) \in SUBSET keys /\ NotBelow(v) \in SUBSET keys
    OBVIOUS
  <2> HIDE DEF Above, NotBelow, Values
  <2>2. QED
    BY <2>1, FewerKeys
<1>3. keys # {}
  <2>1. Cardinality({}) = 0
    BY FS_EmptySet
  <2>2. QED
    BY <1>1, <1>2, <2>1
<1>4. PICK low \in Values : \A v \in Values : low <= v
  <2>1. Values # {}
    BY <1>3
  <2> HIDE DEF Values
  <2>2. QED
    BY <1>1, <2>1, SmallestNat
<1>5. low \in Good
  <2>1. NotBelow(low) = keys
    <3>1. ASSUME NEW h \in keys PROVE count[h] >= low
      <4>1. count[h] \in Values /\ low \in Nat /\ count[h] \in Nat
        BY <1>1
      <4>2. QED
        BY <1>4, <4>1
    <3>2. QED
      BY <3>1
  <2> HIDE DEF NotBelow, Values
  <2>2. QED
    BY <1>4, <2>1
<1>6. PICK k \in Ranks : \A m \in Ranks : k <= m
  <2>1. Ranks # {} /\ Ranks \subseteq Nat
    <3> HIDE DEF Above, NotBelow, Values
    <3>1. Ranks # {}
      BY <1>5
    <3>2. \A v \in Good : Cardinality(Above(v)) \in Nat
      BY <1>2
    <3> HIDE DEF Good
    <3>3. QED
      BY <3>1, <3>2
  <2> HIDE DEF Ranks
  <2>2. QED
    BY <2>1, SmallestNat
<1>7. PICK v \in Good : k = Cardinality(Above(v))
  BY <1>6
<1>8. v \in Values /\ v \in Nat /\ Cardinality(NotBelow(v)) >= K /\ k \in Nat
  <2>1. v \in Values /\ Cardinality(NotBelow(v)) >= K
    BY <1>7
  <2> HIDE DEF Values, Above, NotBelow
  <2>2. QED
    BY <1>1, <1>2, <1>7, <2>1
<1>9. Cardinality(Above(v)) < K
  <2> SUFFICES ASSUME ~(Cardinality(Above(v)) < K) PROVE FALSE
    OBVIOUS
  <2>1. Cardinality(Above(v)) >= K /\ Cardinality(Above(v)) # 0
    BY <1>1, <1>7, <1>8
  <2>2. Above(v) # {}
    BY <2>1, FS_EmptySet
  <2> DEFINE Higher == {count[h] : h \in Above(v)}
  <2>3. PICK w \in Higher : \A x \in Higher : w <= x
    <3>1. Higher # {} /\ Higher \subseteq Nat
      BY <1>1, <2>2
    <3> HIDE DEF Higher
    <3>2. QED
      BY <3>1, SmallestNat
  <2>4. PICK h0 \in Above(v) : w = count[h0]
    BY <2>3
  <2>5. w \in Values /\ w \in Nat /\ w > v /\ h0 \in keys
    BY <1>1, <2>4
  <2>6. NotBelow(w) = Above(v)
    <3>1. ASSUME NEW h \in keys PROVE count[h] >= w <=> count[h] > v
      <4>1. count[h] \in Nat
        OBVIOUS
      <4>2. count[h] > v => count[h] \in Higher
        OBVIOUS
      <4>3. count[h] > v => count[h] >= w
        BY <2>3, <2>5, <4>1, <4>2
      <4>4. QED
        BY <1>8, <2>5, <4>1, <4>3
    <3>2. QED
      BY <3>1
  <2>7. w \in Good
    BY <2>1, <2>5, <2>6
  <2>8. Above(w) \in SUBSET Above(v) /\ Above(w) # Above(v)
    <3>1. ASSUME NEW h \in keys, count[h] > w PROVE count[h] > v
      <4>1. count[h] \in Nat
        OBVIOUS
      <4>2. QED
        BY <1>8, <2>5, <3>1, <4>1
    <3>2. h0 \notin Above(w)
      BY <2>4, <2>5
    <3>3. QED
      BY <2>4, <3>1, <3>2
  <2>9. Above(v) \in SUBSET keys
    OBVIOUS
  <2>10. Cardinality(Above(w)) \in Ranks
    BY <2>7
  <2> HIDE DEF Above, NotBelow, Values, Good, Ranks
  <2>11. Cardinality(Above(w)) < Cardinality(Above(v))
    BY <2>8, <2>9, FewerKeys
  <2>12. k <= Cardinality(Above(w)) /\ Cardinality(Above(w)) \in Nat
    BY <1>2, <1>6, <2>5, <2>10
  <2>13. QED
    BY <1>7, <1>8, <2>11, <2>12
<1>10. \E u \in Values : Cardinality(Above(u)) < K /\ Cardinality(NotBelow(u)) >= K
  BY <1>8, <1>9
<1>11. KthLargest(count)
          = CHOOSE u \in Values : Cardinality(Above(u)) < K /\ Cardinality(NotBelow(u)) >= K
  BY <1>1 DEF KthLargest
<1> HIDE DEF Values
<1>12. /\ KthLargest(count) \in Values
       /\ Cardinality(Above(KthLargest(count))) < K
       /\ Cardinality(NotBelow(KthLargest(count))) >= K
  <2> HIDE DEF Above, NotBelow
  <2>1. QED
    BY <1>10, <1>11
<1>13. QED
  BY <1>1, <1>12


\* Whoever has fewer than K counts not below its own is above the K-th largest.
LEMMA LeadersAbove ==
    ASSUME NEW keys \in SUBSET Hash, NEW count \in [keys -> Nat], Cardinality(keys) >= K
    PROVE  LET v == KthLargest(count)
           IN  /\ IsFiniteSet({h \in keys : count[h] > v})
               /\ Cardinality({h \in keys : count[h] > v}) \in Nat
               /\ Cardinality({h \in keys : count[h] > v}) < K
               /\ \A h \in keys :
                      Cardinality({g \in keys : count[g] >= count[h]}) < K => count[h] > v
<1> DEFINE v == KthLargest(count)
           Above == {h \in keys : count[h] > v}
           NotBelow(x) == {h \in keys : count[h] >= x}
<1>1. v \in Nat /\ Cardinality(Above) < K /\ Cardinality(NotBelow(v)) >= K
  BY KthExists
<1> HIDE DEF v
<1>2. IsFiniteSet(Above) /\ Cardinality(Above) \in Nat
  <2>1. Above \in SUBSET keys
    OBVIOUS
  <2> HIDE DEF Above
  <2>2. QED
    BY <2>1, FewerKeys
<1>3. ASSUME NEW h \in keys, Cardinality(NotBelow(count[h])) < K, ~(count[h] > v) PROVE FALSE
  <2>1. count[h] \in Nat /\ count[h] <= v
    BY <1>1, <1>3
  <2>2. NotBelow(v) \in SUBSET NotBelow(count[h]) /\ NotBelow(count[h]) \in SUBSET keys
    <3>1. ASSUME NEW g \in keys, count[g] >= v PROVE count[g] >= count[h]
      <4>1. count[g] \in Nat
        OBVIOUS
      <4>2. QED
        BY <1>1, <2>1, <3>1, <4>1
    <3>2. QED
      BY <3>1
  <2> HIDE DEF NotBelow
  <2>3. Cardinality(NotBelow(v)) <= Cardinality(NotBelow(count[h]))
        /\ Cardinality(NotBelow(v)) \in Nat /\ Cardinality(NotBelow(count[h])) \in Nat
    BY <2>2, FewerKeys
  <2>4. QED
    BY <1>1, <1>3, <2>3, KAssumption
<1>4. QED
  BY <1>1, <1>2, <1>3 DEF v

\* The counts of a term's relations are numbers.
LEMMA CountsOfTerm ==
    ASSUME IInv, NEW n \in 1 .. Len(mTermInfo)
    PROVE  LET term == mTermInfo[n]
               keys == Keys(term.cooc_term)
           IN  /\ term \in TermRec /\ keys \in SUBSET Hash
               /\ [h \in keys |-> Now(term, h)] \in [keys -> Nat]
               /\ [h \in keys |-> His(term, h)] \in [keys -> Nat]
<1> DEFINE term == mTermInfo[n]
           keys == Keys(term.cooc_term)
<1>1. mTermInfo \in Seq(TermRec) /\ mRelateInfo \in Seq(RelateRec)
      /\ SlotsOK(mTermInfo, mRelateInfo)
  BY DEF IInv, TypeOK, Sound
<1>2. term \in TermRec /\ term = At(mTermInfo, n - 1) /\ n - 1 \in 0 .. Len(mTermInfo) - 1
  <2>1. \A len \in Nat : \A m \in 1 .. len : m - 1 \in 0 .. len - 1 /\ (m - 1) + 1 = m
    OBVIOUS
  <2>2. Len(mTermInfo) \in Nat
    BY <1>1
  <2>3. QED
    BY <1>1, <2>1, <2>2 DEF At
<1>3. ASSUME NEW h \in keys PROVE At(mRelateInfo, term.cooc_term[h]) \in RelateRec
  <2>1. h \in Hash /\ term.cooc_term[h] # End
    BY DEF Keys
  <2>2. <<n - 1, h>> \in Relations(mTermInfo) /\ Slot(mTermInfo, <<n - 1, h>>) = term.cooc_term[h]
    BY <1>1, <1>2, <2>1, RelationOf
  <2>3. term.cooc_term[h] \in Nat /\ term.cooc_term[h] < Len(mRelateInfo)
    <3>1. Slot(mTermInfo, <<n - 1, h>>) \in Nat
      BY <1>1, <2>2, RelationOf
    <3>2. Slot(mTermInfo, <<n - 1, h>>) < Len(mRelateInfo)
      BY <1>1, <2>2 DEF SlotsOK
    <3>3. QED
      BY <2>2, <3>1, <3>2
  <2>4. term.cooc_term[h] + 1 \in 1 .. Len(mRelateInfo)
    <3>1. Len(mRelateInfo) \in Nat
      BY <1>1
    <3>2. QED
      BY <2>3, <3>1
  <2> HIDE DEF term
  <2>5. QED
    BY <1>1, <2>4 DEF At
<1>4. \A rel \in RelateRec : rel.num_now \in Nat /\ rel.num_history \in Nat
  BY DEF RelateRec
<1>5. keys \in SUBSET Hash
  BY DEF Keys
<1>6. \A h \in keys : Now(term, h) \in Nat /\ His(term, h) \in Nat
  <2> HIDE DEF term, keys
  <2>1. QED
    BY <1>3, <1>4 DEF Now, His
<1> HIDE DEF term, keys
<1>7. QED
  BY <1>2, <1>5, <1>6 DEF term, keys

\* FiltIndex finds at most K - 1 relations above each of the two heaps' roots,
\* and all the leaders are among them.
LEMMA AboveKthLeaders ==
    ASSUME IInv, NEW n \in 1 .. Len(mTermInfo),
           Cardinality(Keys(mTermInfo[n].cooc_term)) >= K
    PROVE  LET term == mTermInfo[n]
               keys == Keys(term.cooc_term)
           IN  /\ AboveKth(term) \in SUBSET keys
               /\ Cardinality(AboveKth(term)) <= 2 * K - 2
               /\ Kept(term) = AboveKth(term)
               /\ \A h \in keys :
                     (\/ Cardinality({g \in keys : Now(term, g) >= Now(term, h)}) < K
                      \/ Cardinality({g \in keys : His(term, g) >= His(term, h)}) < K)
                     => h \in AboveKth(term)
<1> DEFINE term == mTermInfo[n]
           keys == Keys(term.cooc_term)
           now == [h \in keys |-> Now(term, h)]
           his == [h \in keys |-> His(term, h)]
           kthNow == KthLargest(now)
           kthHis == KthLargest(his)
           N == {h \in keys : now[h] > kthNow}
           H == {h \in keys : his[h] > kthHis}
<1>1. keys \in SUBSET Hash /\ now \in [keys -> Nat] /\ his \in [keys -> Nat]
  BY CountsOfTerm
<1>2. (\A h \in keys : now[h] = Now(term, h)) /\ (\A h \in keys : his[h] = His(term, h))
  OBVIOUS
<1>3. AboveKth(term) = {h \in keys : Now(term, h) > kthNow \/ His(term, h) > kthHis}
  BY DEF AboveKth
<1>4. Cardinality(keys) >= K
  OBVIOUS
<1> HIDE DEF term, keys, now, his
<1>5. AboveKth(term) = N \cup H
  BY <1>2, <1>3
<1>6. /\ IsFiniteSet(N) /\ Cardinality(N) \in Nat /\ Cardinality(N) < K
      /\ \A h \in keys : Cardinality({g \in keys : now[g] >= now[h]}) < K => now[h] > kthNow
  BY <1>1, <1>4, LeadersAbove
<1>7. /\ IsFiniteSet(H) /\ Cardinality(H) \in Nat /\ Cardinality(H) < K
      /\ \A h \in keys : Cardinality({g \in keys : his[g] >= his[h]}) < K => his[h] > kthHis
  BY <1>1, <1>4, LeadersAbove
<1>8. AboveKth(term) \in SUBSET keys
  BY <1>3
<1>9. Cardinality(AboveKth(term)) <= 2 * K - 2 /\ Cardinality(AboveKth(term)) \in Nat
  <2> HIDE DEF N, H
  <2>1. /\ Cardinality(N \cup H) = Cardinality(N) + Cardinality(H) - Cardinality(N \cap H)
        /\ Cardinality(N \cap H) \in Nat /\ Cardinality(N \cup H) \in Nat
    <3>1. IsFiniteSet(N \cup H) /\ IsFiniteSet(N \cap H)
      BY <1>6, <1>7, FS_Union, FS_Intersection
    <3>2. QED
      BY <1>6, <1>7, <3>1, FS_Union, FS_CardinalityType
  <2>2. K \in Nat
    BY KAssumption
  <2>3. \A a, b, c, k \in Nat : a < k /\ b < k => a + b - c <= 2 * k - 2
    OBVIOUS
  <2>4. QED
    BY <1>5, <1>6, <1>7, <2>1, <2>2, <2>3
<1>10. Kept(term) = AboveKth(term)
  <2>1. ASSUME NEW h \in AboveKth(term)
        PROVE  Cardinality({g \in AboveKth(term) : g < h}) < 2 * K
    <3>1. {g \in AboveKth(term) : g < h} \in SUBSET AboveKth(term)
      OBVIOUS
    <3>2. Cardinality({g \in AboveKth(term) : g < h}) <= Cardinality(AboveKth(term))
          /\ Cardinality({g \in AboveKth(term) : g < h}) \in Nat
      BY <1>1, <1>8, <3>1, FewerKeys
    <3>3. QED
      BY <1>9, <3>2, KAssumption
  <2>2. QED
    BY <2>1 DEF Kept
<1>11. ASSUME NEW h \in keys,
              \/ Cardinality({g \in keys : Now(term, g) >= Now(term, h)}) < K
              \/ Cardinality({g \in keys : His(term, g) >= His(term, h)}) < K
       PROVE  h \in AboveKth(term)
  <2>1. {g \in keys : Now(term, g) >= Now(term, h)} = {g \in keys : now[g] >= now[h]}
        /\ {g \in keys : His(term, g) >= His(term, h)} = {g \in keys : his[g] >= his[h]}
    BY <1>2
  <2>2. now[h] > kthNow \/ his[h] > kthHis
    BY <1>6, <1>7, <1>11, <2>1
  <2>3. QED
    BY <1>5, <2>2
<1>12. QED
  BY <1>8, <1>9, <1>10, <1>11 DEF term, keys


\* What FiltIndex leaves of one term: all of it below K relations, and else
\* exactly the relations above one of the two roots.
LEMMA FiltIndexTerm ==
    ASSUME IInv, FiltIndex, NEW n \in 1 .. Len(mTermInfo)
    PROVE  LET term == mTermInfo[n]
               keys == Keys(term.cooc_term)
           IN  IF Cardinality(keys) < K
               THEN mTermInfo'[n] = term
               ELSE \A h \in Hash :
                       mTermInfo'[n].cooc_term[h]
                           = IF h \in keys \ AboveKth(term) THEN End ELSE term.cooc_term[h]
<1> DEFINE term == mTermInfo[n]
           keys == Keys(term.cooc_term)
           gone == {h \in Hash : <<n - 1, h>> \in Filtered}
<1>1. mTermInfo \in Seq(TermRec) /\ Counted(mTermInfo)
  BY DEF IInv, TypeOK, Sound
<1>2. term \in TermRec /\ term = At(mTermInfo, n - 1) /\ n - 1 \in 0 .. Len(mTermInfo) - 1
  <2>1. \A len \in Nat : \A m \in 1 .. len : m - 1 \in 0 .. len - 1 /\ (m - 1) + 1 = m
    OBVIOUS
  <2>2. Len(mTermInfo) \in Nat
    BY <1>1
  <2>3. QED
    BY <1>1, <2>1, <2>2 DEF At
<1>3. term.relate_term_num = Cardinality(keys) /\ Cardinality(keys) \in Nat
  <2>1. term.relate_term_num = Cardinality(keys)
    BY <1>1 DEF Counted
  <2>2. term.relate_term_num \in Nat
    BY <1>2 DEF TermRec
  <2>3. QED
    BY <2>1, <2>2
<1>4. mTermInfo'[n] = IF term.relate_term_num < K THEN term ELSE Without(term, gone)
  BY DEF FiltIndex
<1>5. ASSUME ~(Cardinality(keys) < K), NEW h \in Hash
      PROVE  mTermInfo'[n].cooc_term[h]
                 = IF h \in keys \ AboveKth(term) THEN End ELSE term.cooc_term[h]
  <2>1. Cardinality(keys) >= K
    BY <1>3, <1>5, KAssumption
  <2>2. Kept(term) = AboveKth(term)
    BY <2>1, AboveKthLeaders
  <2>3. h \in gone <=> h \in keys \ AboveKth(term)
    <3>1. <<n - 1, h>> \in Relations(mTermInfo) <=> h \in keys
      BY <1>1, <1>2, RelationOf DEF Keys
    <3>2. <<n - 1, h>>[1] = n - 1 /\ <<n - 1, h>>[2] = h
      OBVIOUS
    <3>3. <<n - 1, h>> \in Filtered
             <=> /\ <<n - 1, h>> \in Relations(mTermInfo)
                 /\ term.relate_term_num >= K
                 /\ h \notin Kept(term)
      BY <1>2, <3>2 DEF Filtered
    <3> HIDE DEF term, keys
    <3>4. QED
      BY <1>3, <2>1, <2>2, <3>1, <3>3
  <2>4. mTermInfo'[n] = Without(term, gone)
    BY <1>3, <1>4, <1>5
  <2> HIDE DEF term, keys, gone
  <2>5. QED
    BY <1>2, <2>3, <2>4, WithoutTerm
<1>6. CASE Cardinality(keys) < K
  BY <1>3, <1>4, <1>6
<1> HIDE DEF term, keys
<1>7. QED
  BY <1>5, <1>6 DEF term, keys

\* FiltIndex never deletes one of the K - 1 most frequent relations of a term,
\* of today or of the history, and what it leaves of a term with at least K
\* relations is at most 2K - 2 (TermsProcessor.cpp, FiltIndex).
THEOREM LeadersSurvive == Spec => FiltKeepsLeaders
<1> DEFINE Leads(term, h) ==
               LET keys == Keys(term.cooc_term)
               IN  \/ Cardinality({g \in keys : Now(term, g) >= Now(term, h)}) < K
                   \/ Cardinality({g \in keys : His(term, g) >= His(term, h)}) < K
           Keeps == pc = "filt" /\ pc' = "dump" =>
               \A n \in DOMAIN mTermInfo :
                   /\ \A h \in Keys(mTermInfo[n].cooc_term) :
                         Leads(mTermInfo[n], h) => mTermInfo'[n].cooc_term[h] # End
                   /\ Cardinality(Keys(mTermInfo[n].cooc_term)) >= K =>
                         Cardinality(Keys(mTermInfo'[n].cooc_term)) <= 2 * K - 2
<1>1. IInv /\ [Next]_vars => [Keeps]_vars
  <2> SUFFICES ASSUME IInv, Next, pc = "filt", pc' = "dump", NEW n \in DOMAIN mTermInfo
               PROVE  /\ \A h \in Keys(mTermInfo[n].cooc_term) :
                            Leads(mTermInfo[n], h) => mTermInfo'[n].cooc_term[h] # End
                      /\ Cardinality(Keys(mTermInfo[n].cooc_term)) >= K =>
                            Cardinality(Keys(mTermInfo'[n].cooc_term)) <= 2 * K - 2
    OBVIOUS
  <2> DEFINE term == mTermInfo[n]
             keys == Keys(term.cooc_term)
  <2>1. FiltIndex
    <3>1. ~AddCooc
      BY AddCoocStep
    <3>2. QED
      BY <3>1 DEF Next, WBProcessorInit, LoadIndex, LoadIndexFails, NoHistory, ReadLine, FirstInLine,
         TwiceInLine, EndOfTerms, EndOfFile, DumpIndex, DumpIndexFails, DumpIndexAsText, Install,
         Crash, Exit
  <2>2. n \in 1 .. Len(mTermInfo)
    <3>1. mTermInfo \in Seq(TermRec)
      BY DEF IInv, TypeOK
    <3>2. QED
      BY <3>1
  <2>3. IF Cardinality(keys) < K
        THEN mTermInfo'[n] = term
        ELSE \A h \in Hash :
                mTermInfo'[n].cooc_term[h]
                    = IF h \in keys \ AboveKth(term) THEN End ELSE term.cooc_term[h]
    BY <2>1, <2>2, FiltIndexTerm
  <2>4. Cardinality(keys) \in Nat /\ keys \in SUBSET Hash /\ K \in Nat
    <3>1. keys \in SUBSET Hash
      BY DEF Keys
    <3>2. QED
      BY <3>1, FewerKeys, KAssumption
  <2>5. CASE Cardinality(keys) < K
    <3>1. \A h \in keys : term.cooc_term[h] # End
      BY DEF Keys
    <3>2. QED
      BY <2>3, <2>4, <2>5, <3>1
  <2>6. CASE Cardinality(keys) >= K
    <3> DEFINE above == AboveKth(term)
               left == Keys(mTermInfo'[n].cooc_term)
    <3>1. /\ above \in SUBSET keys /\ Cardinality(above) <= 2 * K - 2
          /\ \A h \in keys : Leads(term, h) => h \in above
      BY <2>2, <2>6, AboveKthLeaders
    <3>2. \A h \in Hash : term.cooc_term[h] # End <=> h \in keys
      BY DEF Keys
    <3>3. \A h \in Hash : mTermInfo'[n].cooc_term[h]
                              = IF h \in keys \ above THEN End ELSE term.cooc_term[h]
      BY <2>3, <2>4, <2>6
    <3>4. \A h \in Hash : mTermInfo'[n].cooc_term[h] # End <=> h \in left
      BY DEF Keys
    <3>5. left \in SUBSET Hash
      BY DEF Keys
    <3> HIDE DEF term, keys, above, left, Leads
    <3>6. left \in SUBSET above
      BY <3>2, <3>3, <3>4, <3>5
    <3>7. Cardinality(left) <= Cardinality(above) /\ Cardinality(left) \in Nat /\ Cardinality(above) \in Nat
      BY <2>4, <3>1, <3>6, FewerKeys
    <3>8. Cardinality(left) <= 2 * K - 2
      BY <2>4, <3>1, <3>7
    <3>9. \A h \in keys : Leads(term, h) => mTermInfo'[n].cooc_term[h] # End
      BY <2>4, <3>1, <3>2, <3>3
    <3>10. QED
      BY <3>8, <3>9 DEF term, keys, left
  <2>7. Cardinality(keys) < K \/ Cardinality(keys) >= K
    BY <2>4
  <2> HIDE DEF keys, term, Leads
  <2>8. QED
    BY <2>5, <2>6, <2>7
<1>2. QED
  BY <1>1, Invariance, PTL DEF Spec, FiltKeepsLeaders

-----------------------------------------------------------------------------
(* What the readers of the index get.                                       *)

\* The server (module WordNetServer), of which only what it says of index
\* images is used: its constants and variables have any values.
Server == INSTANCE WordNetServer WITH
    Worker <- {}, Images <- {}, Requests <- {}, SizeTBits <- 64, Garbage <- {},
    up <- FALSE, index <- 0, TermIndex <- 0, weibo_num <- 0, request <- 0, pairs <- 0,
    query_type <- 0, content <- 0, asked <- 0, todo <- 0, v_tmp <- 0, reply <- 0

\* The files of f as LoadIndexmmap reads them: it has no use for
\* relate_term_num once the relations of a term are read.
AsRead(f) ==
    [TermIndex  |-> f.TermIndex,
     TermInfo   |-> [n \in 1 .. Len(f.TermInfo) |->
                        [df_now |-> f.TermInfo[n].df_now, df_history |-> f.TermInfo[n].df_history,
                         cooc_term |-> f.TermInfo[n].cooc_term]],
     RelateInfo |-> f.RelateInfo,
     total      |-> [term_num |-> f.total.term_num,
                     sorted_relate_term_num |-> f.total.sorted_relate_term_num,
                     weibo_num |-> f.total.weibo_num]]

\* What the theorems about the server assume of its index, and which index
\* the server refuses: one without relations.
ServerCanUse(f) ==
    /\ Server!IsImage(AsRead(f))
    /\ Server!Accepts(AsRead(f)) <=> f.RelateInfo # << >>
    /\ f.RelateInfo # << >> => Server!AsDumped(AsRead(f))

\* A sound image can be used: a relation leads to an indexed term, and its
\* count, which is positive, bounds the frequency of that term from below;
\* if there are relation records there is a relation, a term that occurs, and
\* hence a weibo.
LEMMA ImageIsUsable ==
    ASSUME NEW f \in Image, ImageOK(f), Tight(f)
    PROVE  ServerCanUse(f)
<1> DEFINE image == AsRead(f)
           N == Len(f.TermInfo)
<1>0. /\ f.TermIndex \in Map /\ f.TermInfo \in Seq(TermRec) /\ f.RelateInfo \in Seq(RelateRec)
      /\ f.total \in Totals /\ f.found = TRUE
    BY DEF Image
<1>1. N \in Nat /\ \A n \in 1 .. N : f.TermInfo[n] \in TermRec
    BY <1>0
<1>2. /\ image.TermIndex = f.TermIndex /\ image.RelateInfo = f.RelateInfo
      /\ Len(image.TermInfo) = N
      /\ image.total.term_num = f.total.term_num
      /\ image.total.sorted_relate_term_num = f.total.sorted_relate_term_num
      /\ image.total.weibo_num = f.total.weibo_num
      /\ \A n \in 1 .. N : /\ image.TermInfo[n].df_now = f.TermInfo[n].df_now
                           /\ image.TermInfo[n].df_history = f.TermInfo[n].df_history
                           /\ image.TermInfo[n].cooc_term = f.TermInfo[n].cooc_term
    BY <1>1 DEF AsRead
<1>3. Closed(f.TermIndex, f.TermInfo, f.total) /\ SlotsOK(f.TermInfo, f.RelateInfo)
      /\ WithinDf(f.TermIndex, f.TermInfo, f.RelateInfo) /\ Live(f.TermInfo, f.RelateInfo)
    BY DEF ImageOK, Sound
<1>4. Server!IsImage(image)
    <2>1. f.total.term_num = N  BY <1>3 DEF Closed
    <2>2. image.total \in [term_num : {N}, sorted_relate_term_num : Nat, weibo_num : Nat]
        BY <1>0, <2>1 DEF AsRead, Totals
    <2>3. image.TermInfo \in Seq([df_now : Nat, df_history : Nat, cooc_term : Map])
        <3>1. \A n \in 1 .. N :
                  [df_now |-> f.TermInfo[n].df_now, df_history |-> f.TermInfo[n].df_history,
                   cooc_term |-> f.TermInfo[n].cooc_term]
                      \in [df_now : Nat, df_history : Nat, cooc_term : Map]
            BY <1>1 DEF TermRec
        <3>2. image.TermInfo = [n \in 1 .. N |->
                  [df_now |-> f.TermInfo[n].df_now, df_history |-> f.TermInfo[n].df_history,
                   cooc_term |-> f.TermInfo[n].cooc_term]]
            BY DEF AsRead
        <3> QED  BY <1>1, <3>1, <3>2
    <2>4. image.RelateInfo \in Seq([num_now : Nat, num_history : Nat])
        BY <1>0, <1>2 DEF RelateRec
    <2> QED  BY <1>0, <1>2, <2>2, <2>3, <2>4 DEF Server!IsImage, Server!Map, Server!End, Map, End
\* A key of a term's relations is a relation of the index.
<1>5. ASSUME NEW n \in 1 .. N, NEW h \in Hash, f.TermInfo[n].cooc_term[h] # End
      PROVE  /\ <<n - 1, h>> \in Relations(f.TermInfo)
             /\ Slot(f.TermInfo, <<n - 1, h>>) = f.TermInfo[n].cooc_term[h]
    <2>1. n - 1 \in 0 .. N - 1 /\ (n - 1) + 1 = n  BY <1>1
    <2> QED  BY <1>5, <2>1 DEF Relations, Slot, At
\* Both terms of a relation occur.
<1>6. ASSUME NEW r \in Relations(f.TermInfo)
      PROVE  /\ f.TermIndex[r[2]] \in 0 .. N - 1
             /\ Slot(f.TermInfo, r) < Len(f.RelateInfo)
             /\ At(f.TermInfo, f.TermIndex[r[2]]).df_now + At(f.TermInfo, f.TermIndex[r[2]]).df_history > 0
    <2>1. r[1] \in 0 .. N - 1 /\ r[2] \in Hash /\ Slot(f.TermInfo, r) # End
        BY DEF Relations, Slot
    <2>2. f.TermIndex[r[2]] \in 0 .. N - 1
        BY <1>0, <1>3, <2>1 DEF Closed, Keys, Map, End
    <2>3. Slot(f.TermInfo, r) \in 0 .. Len(f.RelateInfo) - 1
        <3>1. Slot(f.TermInfo, r) < Len(f.RelateInfo)  BY <1>3 DEF SlotsOK
        <3>2. r[1] + 1 \in 1 .. N  BY <1>1, <2>1
        <3>3. Slot(f.TermInfo, r) \in Nat \cup {End}
            BY <1>1, <2>1, <3>2 DEF Slot, At, TermRec, Map
        <3> QED  BY <1>0, <2>1, <3>1, <3>3 DEF End
    <2>4. PICK rel \in RelateRec : rel = At(f.RelateInfo, Slot(f.TermInfo, r))
        <3>1. Slot(f.TermInfo, r) + 1 \in 1 .. Len(f.RelateInfo)  BY <1>0, <2>3
        <3> QED  BY <1>0, <3>1 DEF At
    <2>5. PICK term \in TermRec : term = At(f.TermInfo, f.TermIndex[r[2]])
        <3>1. f.TermIndex[r[2]] + 1 \in 1 .. N  BY <1>1, <2>2
        <3> QED  BY <1>1, <3>1 DEF At
    <2>6. rel.num_now <= term.df_now /\ rel.num_history <= term.df_history
        BY <1>3, <2>4, <2>5 DEF WithinDf
    <2>7. rel.num_history + rel.num_now >= 1
        BY <1>3, <2>4 DEF Live, Weight
    <2>8. /\ rel.num_now \in Nat /\ rel.num_history \in Nat
          /\ term.df_now \in Nat /\ term.df_history \in Nat
        BY <2>4, <2>5 DEF RelateRec, TermRec
    <2>9. term.df_now + term.df_history > 0  BY <2>6, <2>7, <2>8
    <2> QED  BY <2>2, <2>3, <2>5, <2>9, <1>3 DEF SlotsOK
<1>7. ASSUME f.RelateInfo # << >> PROVE f.total.weibo_num > 0
    <2>1. PICK r \in Relations(f.TermInfo) : TRUE
        <3>1. Len(f.RelateInfo) # 0  BY <1>0, <1>7
        <3>2. Cardinality(Relations(f.TermInfo)) # 0  BY <1>0, <3>1 DEF Tight
        <3> QED  BY <3>2, FS_EmptySet
    <2>2. f.TermIndex[r[2]] + 1 \in 1 .. N  BY <1>1, <1>6
    <2>3. PICK term \in TermRec : term = f.TermInfo[f.TermIndex[r[2]] + 1]  BY <1>1, <2>2
    <2>4. term.df_history + term.df_now <= f.total.weibo_num  BY <2>2, <2>3 DEF ImageOK
    <2>5. term.df_now + term.df_history > 0  BY <1>6, <2>3 DEF At
    <2>6. term.df_history \in Nat /\ term.df_now \in Nat /\ f.total.weibo_num \in Nat
        BY <1>0, <2>3 DEF TermRec, Totals
    <2> QED  BY <2>4, <2>5, <2>6
<1>8. Server!Accepts(image) <=> f.RelateInfo # << >>
    <2>1. ASSUME NEW h \in Server!Keys(image.TermIndex) PROVE image.TermIndex[h] < image.total.term_num
        BY <1>2, <1>3 DEF Closed, Server!Keys, Server!End, Keys, End
    <2>2. ASSUME NEW n \in 1 .. N, NEW h \in Server!Keys(image.TermInfo[n].cooc_term)
          PROVE  image.TermInfo[n].cooc_term[h] < image.total.sorted_relate_term_num
        <3>1. h \in Hash /\ f.TermInfo[n].cooc_term[h] # End
            BY <1>2 DEF Server!Keys, Server!End, End
        <3>2. f.TermInfo[n].cooc_term[h] < Len(f.RelateInfo)
            BY <1>5, <1>6, <3>1
        <3> QED  BY <1>2, <3>2 DEF ImageOK
    <2> QED  BY <1>2, <2>1, <2>2 DEF Server!Accepts
<1>9. ASSUME f.RelateInfo # << >> PROVE Server!AsDumped(image)
    <2>1. ASSUME NEW n \in 1 .. N, NEW h \in Server!Keys(image.TermInfo[n].cooc_term)
          PROVE  /\ image.TermIndex[h] # Server!End
                 /\ Server!At(image.TermInfo, image.TermIndex[h]).df_now
                        + Server!At(image.TermInfo, image.TermIndex[h]).df_history > 0
                 /\ image.TermInfo[n].cooc_term[h] < Len(image.RelateInfo)
        <3>1. h \in Hash /\ f.TermInfo[n].cooc_term[h] # End
            BY <1>2 DEF Server!Keys, Server!End, End
        <3>2. PICK r \in Relations(f.TermInfo) : r[2] = h /\ Slot(f.TermInfo, r) = f.TermInfo[n].cooc_term[h]
            BY <1>5, <3>1
        <3>3. f.TermIndex[h] + 1 \in 1 .. N /\ f.TermIndex[h] # -1  BY <1>1, <1>6, <3>2
        <3>4. /\ Server!At(image.TermInfo, image.TermIndex[h]).df_now = At(f.TermInfo, f.TermIndex[h]).df_now
              /\ Server!At(image.TermInfo, image.TermIndex[h]).df_history = At(f.TermInfo, f.TermIndex[h]).df_history
            BY <1>2, <3>3 DEF Server!At, At
        <3> QED  BY <1>2, <1>6, <3>2, <3>3, <3>4 DEF Server!End
    <2> QED  BY <1>2, <1>7, <1>9, <2>1 DEF Server!AsDumped
<1> QED  BY <1>4, <1>8, <1>9 DEF ServerCanUse

\* The files one by one (module IndexFiles), of which only what it says of a
\* dump is used.
Files == INSTANCE IndexFiles WITH
    Dumps <- {}, pc <- 0, run <- 0, content <- 0, written <- 0, open <- 0, output <- 0, data <- 0,
    ret <- 0, loaded <- 0, full <- 0, served <- 0

\* keys is a walk of a map: every key once.
IsWalk(keys, map) ==
    /\ Keys(map) = {keys[k] : k \in 1 .. Len(keys)}
    /\ \A k, m \in 1 .. Len(keys) : keys[k] = keys[m] => k = m

\* The image f as IndexFiles sees it.
DumpOf(f, keys) ==
    [walk |-> [k \in 1 .. Len(keys) |-> f.TermIndex[keys[k]]],
     ends |-> [n \in 1 .. Len(f.TermInfo) |-> Cardinality({r \in Relations(f.TermInfo) : r[1] < n})]]

\* What IndexFiles assumes of a dump, and the numbers in its totals.
FilesCanHold(f) ==
    \A keys \in Seq(Hash) :
        IsWalk(keys, f.TermIndex) =>
            LET d == DumpOf(f, keys)
            IN  /\ Files!IsDump(d)
                /\ Files!Terms(d) = f.total.term_num
                /\ Files!AllRelations(d) = f.total.sorted_relate_term_num
                /\ Files!AllRelations(d) = Len(f.RelateInfo)

\* A sound image is a dump: a walk of the index numbers the terms one to one,
\* so that it is as long as TermInfo.
LEMMA ImageIsDump ==
    ASSUME NEW f \in Image, ImageOK(f), Tight(f)
    PROVE  FilesCanHold(f)
<1> SUFFICES ASSUME NEW keys \in Seq(Hash), IsWalk(keys, f.TermIndex)
             PROVE  /\ Files!IsDump(DumpOf(f, keys))
                    /\ Files!Terms(DumpOf(f, keys)) = f.total.term_num
                    /\ Files!AllRelations(DumpOf(f, keys)) = f.total.sorted_relate_term_num
                    /\ Files!AllRelations(DumpOf(f, keys)) = Len(f.RelateInfo)
    BY DEF FilesCanHold
<1> DEFINE d == DumpOf(f, keys)
           N == Len(f.TermInfo)
           M == Len(keys)
           Below(n) == {r \in Relations(f.TermInfo) : r[1] < n}
<1>0. /\ f.TermIndex \in Map /\ f.TermInfo \in Seq(TermRec) /\ f.RelateInfo \in Seq(RelateRec)
      /\ f.found = TRUE /\ N \in Nat /\ M \in Nat
    <2>1. /\ f.TermIndex \in Map /\ f.TermInfo \in Seq(TermRec) /\ f.RelateInfo \in Seq(RelateRec)
          /\ f.found = TRUE
        BY DEF Image
    <2> QED  BY <2>1
<1>1. Closed(f.TermIndex, f.TermInfo, f.total) /\ f.total.sorted_relate_term_num = Len(f.RelateInfo)
    BY DEF ImageOK, Sound
<1>2. IsFiniteSet(Relations(f.TermInfo))  BY <1>0, RelationsFinite
\* The walk numbers the terms one to one: it is as long as TermInfo.
<1>3. ASSUME NEW k \in 1 .. M
      PROVE  keys[k] \in Keys(f.TermIndex) /\ f.TermIndex[keys[k]] \in 0 .. N - 1
    <2>1. keys[k] \in Keys(f.TermIndex)  BY DEF IsWalk
    <2>2. f.TermIndex[keys[k]] \in Nat  BY <1>0, <2>1 DEF Keys, Map, End
    <2>3. f.TermIndex[keys[k]] < N  BY <1>1, <2>1 DEF Closed
    <2> QED  BY <1>0, <2>1, <2>2, <2>3
<1>4. d.walk \in Surjection(1 .. M, 0 .. N - 1) /\ d.walk \in Injection(1 .. M, 0 .. N - 1)
    <2>1. d.walk = [k \in 1 .. M |-> f.TermIndex[keys[k]]]  BY DEF DumpOf
    <2>2. d.walk \in [1 .. M -> 0 .. N - 1]  BY <1>3, <2>1
    <2>3. ASSUME NEW n \in 0 .. N - 1 PROVE \E k \in 1 .. M : d.walk[k] = n
        <3>1. PICK h \in Keys(f.TermIndex) : f.TermIndex[h] = n  BY <1>1 DEF Closed
        <3>2. PICK k \in 1 .. M : keys[k] = h  BY <3>1 DEF IsWalk
        <3> QED  BY <2>1, <3>1, <3>2
    <2>4. ASSUME NEW k \in 1 .. M, NEW m \in 1 .. M, d.walk[k] = d.walk[m] PROVE k = m
        <3>1. keys[k] = keys[m]  BY <1>1, <1>3, <2>1, <2>4 DEF Closed
        <3> QED  BY <3>1 DEF IsWalk
    <2> QED  BY <2>2, <2>3, <2>4 DEF Surjection, Injection, IsInjective
<1>5. M = N
    <2>1. Cardinality(0 .. N - 1) = Cardinality(1 .. M)
        BY <1>0, <1>4, FS_Interval, FS_Surjection
    <2>2. Cardinality(1 .. M) = M /\ Cardinality(0 .. N - 1) = N
        <3>1. 1 \in Int /\ M \in Int /\ 0 \in Int /\ N - 1 \in Int  BY <1>0
        <3>2. Cardinality(1 .. M) = IF 1 > M THEN 0 ELSE M - 1 + 1  BY <3>1, FS_Interval
        <3>3. Cardinality(0 .. N - 1) = IF 0 > N - 1 THEN 0 ELSE (N - 1) - 0 + 1  BY <3>1, FS_Interval
        <3> QED  BY <1>0, <3>2, <3>3
    <2> QED  BY <2>1, <2>2
<1>6. \A n \in 1 .. N : IsFiniteSet(Below(n)) /\ Cardinality(Below(n)) \in Nat
    BY <1>2, FS_Subset, FS_CardinalityType
<1>7. /\ d.ends = [n \in 1 .. N |-> Cardinality(Below(n))]
      /\ d.ends \in Seq(Nat) /\ Len(d.ends) = N
    <2>1. d.ends = [n \in 1 .. N |-> Cardinality(Below(n))]  BY DEF DumpOf
    <2>2. ASSUME NEW n \in 1 .. N PROVE Cardinality(Below(n)) \in Nat  BY <1>6
    <2> HIDE DEF Below
    <2> QED  BY <1>0, <2>1, <2>2
<1>8. d.walk \in Seq(Nat) /\ Len(d.walk) = N /\ \A k \in 1 .. N : d.walk[k] < N
    <2>1. d.walk = [k \in 1 .. M |-> f.TermIndex[keys[k]]]  BY DEF DumpOf
    <2>2. \A k \in 1 .. M : f.TermIndex[keys[k]] \in Nat /\ f.TermIndex[keys[k]] < N  BY <1>0, <1>3
    <2> QED  BY <1>0, <1>5, <2>1, <2>2
<1>9. ASSUME NEW k \in 1 .. N, NEW m \in 1 .. N, k <= m
      PROVE  d.ends[k] <= d.ends[m]
    <2>1. Below(k) \subseteq Below(m)
        <3>1. \A r \in Relations(f.TermInfo) : r[1] \in Int  BY <1>0 DEF Relations
        <3> QED  BY <1>0, <1>9, <3>1
    <2>2. Cardinality(Below(k)) <= Cardinality(Below(m))  BY <1>6, <2>1, FS_Subset
    <2> HIDE DEF Below
    <2> QED  BY <1>7, <2>2
<1>10. Files!IsDump(d)  BY <1>7, <1>8, <1>9 DEF Files!IsDump
<1>11. Files!Terms(d) = N /\ N = f.total.term_num  BY <1>1, <1>8 DEF Files!Terms, Closed
<1>12. Files!AllRelations(d) = Cardinality(Relations(f.TermInfo))
    <2>1. CASE N = 0
        <3>1. Relations(f.TermInfo) = {}  BY <2>1 DEF Relations
        <3> QED  BY <1>11, <2>1, <3>1, FS_EmptySet DEF Files!AllRelations, Files!RelationsOf
    <2>2. CASE N # 0
        <3>1. N \in 1 .. N  BY <1>0, <2>2
        <3>2. Below(N) = Relations(f.TermInfo)
            <4>1. \A r \in Relations(f.TermInfo) : r[1] \in 0 .. N - 1  BY DEF Relations
            <4> QED  BY <1>0, <4>1
        <3>3. d.ends[N] = Cardinality(Relations(f.TermInfo))  BY <1>7, <3>1, <3>2
        <3> QED  BY <1>11, <2>2, <3>3 DEF Files!AllRelations, Files!RelationsOf
    <2> QED  BY <2>1, <2>2
<1> QED  BY <1>0, <1>1, <1>10, <1>11, <1>12 DEF Tight

\* The files under output/ and data/index/ at any time.
LEMMA ImagesAreSound ==
    ASSUME IInv, CountInv, NEW f \in Images
    PROVE  f \in Image /\ ImageOK(f) /\ Tight(f)
<1>1. f.found /\ (f = output \/ f = data)  BY DEF Images
<1> QED  BY <1>1 DEF IInv, CountInv, TypeOK, NoIndex

\* Whatever MakeNetIndex has written or installed, after any number of runs
\* and crashes, is what the proofs about the server and about the files
\* assume.  The server accepts it unless it has no relations, every key of a
\* relation is then an indexed term that occurs and every number of a relation
\* is inside the mapped file (commonworker.cpp, GetCoocTerm); and DumpIndex
\* writes as many records of terms and relations as word_net.n says
\* (TermsProcessor.cpp, DumpIndex).
THEOREM ReadersGetDumps == Spec => [](\A f \in Images : ServerCanUse(f) /\ FilesCanHold(f))
<1>1. IInv /\ CountInv => \A f \in Images : ServerCanUse(f) /\ FilesCanHold(f)
    BY ImagesAreSound, ImageIsUsable, ImageIsDump
<1> QED  BY <1>1, CountInvariance, PTL
=============================================================================
