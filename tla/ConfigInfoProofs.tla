------------------------- MODULE ConfigInfoProofs -------------------------
(***************************************************************************)
(* Theorems about CConfigInfo, for all files, includes and limits:         *)
(*   - the count of nested calls of LoadConfig and its bound               *)
(*     (RecursionCounted, RecursionBounded), for which only how many calls *)
(*     are under way matters;                                              *)
(*   - types (TypeCorrect);                                                *)
(*   - what SaveConfig writes comes back (SavedComesBack);                 *)
(*   - the last assignment to a key counts (LastAssignmentCounts): each    *)
(*     call under way stands at a line of its file, and the map has the    *)
(*     last of the assignments at the places read before.                  *)
(***************************************************************************)
EXTENDS ConfigInfo, SequenceTheorems, FiniteSetTheorems, TLAPS

Elements(s) == {s[i] : i \in DOMAIN s}
IsSeq(s) == s \in Seq(Elements(s))

\* A sequence over any set is a sequence over its own elements.
LEMMA OwnElements ==
    ASSUME NEW S, NEW s \in Seq(S)
    PROVE  IsSeq(s)
BY DEF IsSeq, Elements

\* Append adds one call.
LEMMA AppendOne ==
    ASSUME NEW s, NEW e, IsSeq(s)
    PROVE  IsSeq(Append(s, e)) /\ Len(Append(s, e)) = Len(s) + 1 /\ Len(s) \in Nat
<1> DEFINE T == Elements(s) \cup {e}
<1>1. s \in Seq(T)  BY DEF IsSeq
<1>2. Append(s, e) \in Seq(T) /\ Len(Append(s, e)) = Len(s) + 1 /\ Len(s) \in Nat
    <2> HIDE DEF T
    <2>1. e \in T  BY DEF T
    <2> QED  BY <1>1, <2>1
<1> QED  BY <1>2, OwnElements

\* Leaving out the last call takes one away.
LEMMA AllButLast ==
    ASSUME NEW s, IsSeq(s), s # << >>
    PROVE  LET t == SubSeq(s, 1, Len(s) - 1)
           IN  IsSeq(t) /\ Len(t) = Len(s) - 1 /\ Len(s) \in Nat \ {0}
<1> DEFINE T == Elements(s)
           t == SubSeq(s, 1, Len(s) - 1)
<1>1. s \in Seq(T)  BY DEF IsSeq
<1> HIDE DEF T
<1>2. Len(s) \in Nat \ {0}  BY <1>1
<1>3. t \in Seq(T) /\ Len(t) = Len(s) - 1
    <2>1. \A i \in 1 .. Len(s) - 1 : s[i] \in T  BY <1>1
    <2>2. 1 \in Int /\ Len(s) - 1 \in Int  BY <1>2
    <2>3. t \in Seq(T)  BY <2>1, <2>2, SubSeqProperties
    <2>4. CASE 1 <= Len(s) - 1
        <3>1. Len(t) = Len(s) - 1 - 1 + 1  BY <2>1, <2>2, <2>4, SubSeqProperties
        <3> QED  BY <1>2, <2>3, <3>1
    <2>5. CASE ~(1 <= Len(s) - 1)
        <3>1. Len(t) = 0  BY <2>1, <2>2, <2>5, SubSeqProperties
        <3>2. \A n \in Nat \ {0} : ~(1 <= n - 1) => n - 1 = 0  OBVIOUS
        <3>3. Len(s) - 1 = 0  BY <1>2, <2>5, <3>2, Zenon
        <3> QED  BY <2>3, <3>1, <3>3
    <2> QED  BY <2>4, <2>5
<1> QED  BY <1>2, <1>3, OwnElements

\* Line 81 refuses an include once Limit + 1 calls are under way.
DepthBound == Len(frames) <= Limit + 1

DepthInv == IsSeq(frames) /\ CountIsDepth /\ DepthBound

\* No call is under way at first.
LEMMA InitDepth == Init => DepthInv
<1> SUFFICES ASSUME Init PROVE DepthInv  OBVIOUS
<1>1. frames = << >> /\ m_nRecurseCount = 0  BY DEF Init
<1>2. << >> \in Seq({}) /\ Len(<< >>) = 0  OBVIOUS
<1>3. IsSeq(frames)  BY <1>1, <1>2, OwnElements
<1> QED  BY <1>1, <1>2, <1>3, LimitAssumption DEF DepthInv, CountIsDepth, DepthBound

\* A call of LoadConfig, where the limit allows one more.
LEMMA EnterDepth ==
    ASSUME NEW f, NEW calls, NEW count, IsSeq(calls), count = Len(calls), count <= Limit,
           Enter(f, calls, count)
    PROVE  DepthInv'
<1>1. CASE Readable(f)
    <2>1. frames' = Append(calls, files[f]) /\ m_nRecurseCount' = count + 1
        BY <1>1 DEF Enter
    <2>2. IsSeq(Append(calls, files[f])) /\ Len(Append(calls, files[f])) = Len(calls) + 1 /\ Len(calls) \in Nat
        BY AppendOne
    <2>3. m_nRecurseCount' = Len(frames') /\ Len(frames') <= Limit + 1
        BY <2>1, <2>2, LimitAssumption
    <2> QED  BY <2>1, <2>2, <2>3 DEF DepthInv, CountIsDepth, DepthBound, IsSeq, Elements
<1>2. CASE ~Readable(f)
    <2>1. frames' = calls /\ m_nRecurseCount' = count
        BY <1>2 DEF Enter
    <2>2. Len(calls) \in Nat  BY AppendOne
    <2>3. IsSeq(frames')  BY <2>1
    <2> QED  BY <2>1, <2>2, <2>3, LimitAssumption DEF DepthInv, CountIsDepth, DepthBound, IsSeq, Elements
<1> QED  BY <1>1, <1>2

\* A line whose include is done, or that is done itself, leaves the calls.
LEMMA SameDepth ==
    ASSUME NEW top, IsSeq(frames), frames # << >>
    PROVE  IsSeq(Append(Below, top)) /\ Len(Append(Below, top)) = Len(frames)
<1>1. IsSeq(Below) /\ Len(Below) = Len(frames) - 1 /\ Len(frames) \in Nat \ {0}
    BY AllButLast DEF Below
<1> HIDE DEF Below
<1>2. IsSeq(Append(Below, top)) /\ Len(Append(Below, top)) = Len(Below) + 1
    BY <1>1, AppendOne
<1> QED  BY <1>1, <1>2

\* Every step keeps the count.
LEMMA NextDepth == DepthInv /\ [Next]_vars => DepthInv'
<1> SUFFICES ASSUME DepthInv, [Next]_vars PROVE DepthInv'  OBVIOUS
<1> USE DEF DepthInv
<1>0. IsSeq(frames) /\ m_nRecurseCount = Len(frames) /\ Len(frames) <= Limit + 1 /\ Len(frames) \in Nat
    BY AppendOne DEF CountIsDepth, DepthBound
<1>1. ASSUME NEW f \in File, NEW ch \in Split, CConfigInfo(f, ch) PROVE DepthInv'
    <2>1. << >> \in Seq({}) /\ Len(<< >>) = 0  OBVIOUS
    <2>2. IsSeq(<< >>)  BY <2>1, OwnElements
    <2>3. Enter(f, << >>, 0)  BY <1>1 DEF CConfigInfo
    <2> QED  BY <2>1, <2>2, <2>3, EnterDepth, LimitAssumption
<1>2. CASE Include
    <2>1. IsSeq(IncludeDone) /\ Len(IncludeDone) = Len(frames)
        BY <1>0, <1>2, SameDepth DEF Include, AtLine, IncludeDone
    <2>2. m_nRecurseCount <= Limit /\ Enter(Line.inc, IncludeDone, m_nRecurseCount)
        BY <1>2 DEF Include
    <2> QED  BY <1>0, <2>1, <2>2, EnterDepth
<1>3. CASE IncludeRefused
    <2>1. IsSeq(IncludeDone) /\ Len(IncludeDone) = Len(frames)
        BY <1>0, <1>3, SameDepth DEF IncludeRefused, AtLine, IncludeDone
    <2>2. frames' = IncludeDone /\ m_nRecurseCount' = m_nRecurseCount
        BY <1>3 DEF IncludeRefused
    <2> QED  BY <1>0, <2>1, <2>2 DEF CountIsDepth, DepthBound, IsSeq, Elements
<1>4. CASE LineDone
    <2>1. IsSeq(Append(Below, Tail(Top))) /\ Len(Append(Below, Tail(Top))) = Len(frames)
        BY <1>0, <1>4, SameDepth DEF LineDone, AtLine
    <2>2. frames' = Append(Below, Tail(Top)) /\ m_nRecurseCount' = m_nRecurseCount
        BY <1>4 DEF LineDone
    <2> QED  BY <1>0, <2>1, <2>2 DEF CountIsDepth, DepthBound, IsSeq, Elements
<1>5. CASE LoadConfigReturns
    <2>1. frames # << >> /\ frames' = Below /\ m_nRecurseCount' = m_nRecurseCount - 1
        BY <1>5 DEF LoadConfigReturns
    <2>2. IsSeq(Below) /\ Len(Below) = Len(frames) - 1
        BY <1>0, <2>1, AllButLast DEF Below
    <2>3. Limit \in Nat  BY LimitAssumption
    <2> QED  BY <1>0, <2>1, <2>2, <2>3 DEF CountIsDepth, DepthBound, IsSeq, Elements
<1>6. ASSUME UNCHANGED <<m_nRecurseCount, frames>> PROVE DepthInv'
    BY <1>6 DEF CountIsDepth, DepthBound, IsSeq, Elements
<1>7. CASE Constructed  BY <1>6, <1>7 DEF Constructed
<1>8. ASSUME NEW k \in Key, NEW v \in Value, SetValue(k, v) PROVE DepthInv'
    BY <1>6, <1>8 DEF SetValue
<1>9. CASE SaveConfig  BY <1>6, <1>9 DEF SaveConfig
<1>10. CASE UNCHANGED vars  BY <1>6, <1>10 DEF vars
<1>11. CASE ReadFails  BY <1>6, <1>11 DEF ReadFails
<1>12. CASE SaveCut  BY <1>6, <1>12 DEF SaveCut
<1> QED  BY <1>1, <1>2, <1>3, <1>4, <1>5, <1>7, <1>8, <1>9, <1>10, <1>11, <1>12 DEF Next, LoadStep

\* Whatever the files include, and whichever of them do not open or cannot be
\* read, m_nRecurseCount is the number of calls of LoadConfig under way.
THEOREM RecursionCounted == Spec => []CountIsDepth
<1>1. DepthInv => CountIsDepth  BY DEF DepthInv
<1> QED  BY <1>1, InitDepth, NextDepth, PTL DEF Spec

\* Whatever the files include, at most Limit + 1 calls are under way, the first
\* and Limit inside it: the recursion is bounded for every limit, but one level
\* deeper than the header says (RecursionExcludesLimit).
THEOREM RecursionBounded == Spec => [](Len(frames) <= Limit + 1)
<1>1. DepthInv => Len(frames) <= Limit + 1  BY DEF DepthInv, DepthBound
<1> QED  BY <1>1, InitDepth, NextDepth, PTL DEF Spec

-----------------------------------------------------------------------------
(* Types.                                                                  *)

\* A map of the object: finitely many keys.
IsConfig(m) ==
    /\ m \in [DOMAIN m -> Value]
    /\ DOMAIN m \subseteq Key \ {None}
    /\ IsFiniteSet(DOMAIN m)

TypeInv ==
    /\ TypeOK
    /\ files \in [File -> Seq(LineType)]
    /\ frames \in Seq(Seq(LineType))
    /\ IsConfig(m_mapConfig)
    /\ DOMAIN saved = File
    /\ \A f \in File : saved[f] = << >> \/ \E m : IsConfig(m) /\ saved[f] = <<m>>
    /\ pc # "none" => m_strConfigFile \in File

\* An object begins with an empty map.
LEMMA EmptyConfig == IsConfig(<< >>)
<1>1. DOMAIN << >> = {} /\ << >> \in [{} -> Value]
    OBVIOUS
<1> QED  BY <1>1, FS_EmptySet DEF IsConfig

\* An assignment gives the map one key, at most, and the value of the line.
LEMMA AssignConfig ==
    ASSUME NEW m, IsConfig(m), NEW line \in LineType, line.key # None
    PROVE  /\ IsConfig(Assign(m, line))
           /\ DOMAIN Assign(m, line) = DOMAIN m \cup {line.key}
           /\ \A k \in DOMAIN Assign(m, line) :
                 Assign(m, line)[k] = IF k = line.key THEN line.value ELSE m[k]
<1>1. Assign(m, line) = [k \in DOMAIN m \cup {line.key} |-> IF k = line.key THEN line.value ELSE m[k]]
    BY DEF Assign
<1>2. line.key \in Key \ {None} /\ line.value \in Value
    BY DEF LineType
<1>3. IsFiniteSet(DOMAIN m \cup {line.key})
    BY FS_AddElement DEF IsConfig
<1> QED  BY <1>1, <1>2, <1>3 DEF IsConfig

\* A line that SaveConfig writes for each key of a map, and no other: SetToSeq
\* lists the keys, since finitely many of them can be numbered.
LEMMA KeysListed ==
    ASSUME NEW S, IsFiniteSet(S)
    PROVE  /\ SetToSeq(S) \in Seq(S)
           /\ Len(SetToSeq(S)) = Cardinality(S)
           /\ {SetToSeq(S)[n] : n \in 1 .. Len(SetToSeq(S))} = S
<1> DEFINE N == Cardinality(S)
           s == SetToSeq(S)
<1>1. N \in Nat  BY FS_CardinalityType
<1>2. \E f \in [1 .. N -> S] : IsInjective(f)
    <2>1. PICK n \in Nat : ExistsBijection(1 .. n, S)  BY FS_NatBijection
    <2>2. N = n  BY <2>1, FS_CountingElements
    <2> QED  BY <2>1, <2>2 DEF ExistsBijection, Bijection, Injection
<1>3. s \in [1 .. N -> S] /\ IsInjective(s)  BY <1>2 DEF SetToSeq
<1> HIDE DEF s, N
<1>4. s \in Seq(S) /\ Len(s) = N  BY <1>1, <1>3
<1>5. {s[n] : n \in 1 .. N} = S
    <2> DEFINE R == {s[n] : n \in 1 .. N}
    <2>1. s \in [1 .. N -> R] /\ \A r \in R : \E n \in 1 .. N : s[n] = r  BY <1>3
    <2>2. s \in Surjection(1 .. N, R) /\ s \in Injection(1 .. N, R)
        BY <1>3, <2>1 DEF Surjection, Injection, IsInjective
    <2>3. s \in Bijection(1 .. N, R)  BY <2>2 DEF Bijection
    <2>4. ExistsBijection(1 .. N, R)  BY <2>3 DEF ExistsBijection
    <2>5. Cardinality(R) = N  BY <1>1, <2>4, FS_CountingElements
    <2>6. R \in SUBSET S  BY <1>3
    <2> HIDE DEF R
    <2>7. R = S  BY <2>5, <2>6, FS_Subset DEF N
    <2> QED  BY <2>7 DEF R
<1> QED  BY <1>4, <1>5 DEF s, N

\* What SaveConfig writes for a map.
LEMMA WrittenLines ==
    ASSUME NEW m, IsConfig(m)
    PROVE  LET W == Written(m)
           IN  /\ W \in Seq(LineType) /\ W # NoFile
               /\ \A n \in 1 .. Len(W) :
                     /\ W[n].inc = None /\ W[n].sep = "="
                     /\ W[n].key \in DOMAIN m /\ W[n].value = m[W[n].key]
               /\ {W[n].key : n \in 1 .. Len(W)} = DOMAIN m
<1> DEFINE keys == SetToSeq(DOMAIN m)
           W == Written(m)
           Saved(k) == [inc |-> None, key |-> k, value |-> m[k], sep |-> "="]
<1>1. keys \in Seq(DOMAIN m) /\ {keys[n] : n \in 1 .. Len(keys)} = DOMAIN m
    BY KeysListed DEF IsConfig
<1>2. W = [n \in 1 .. Len(keys) |-> Saved(keys[n])]
    BY DEF Written
<1> HIDE DEF keys, W
<1>3. Len(keys) \in Nat /\ \A n \in 1 .. Len(keys) : keys[n] \in DOMAIN m
    BY <1>1
<1>4. \A k \in DOMAIN m : Saved(k) \in LineType
    <2>1. \A k \in DOMAIN m : k \in Key /\ m[k] \in Value  BY DEF IsConfig
    <2> QED  BY <2>1 DEF LineType
<1>5. /\ \A k \in DOMAIN m : Saved(k).inc = None /\ Saved(k).sep = "=" /\ Saved(k).key = k
      /\ \A k \in DOMAIN m : Saved(k).value = m[k]
    OBVIOUS
<1> HIDE DEF Saved
<1>6. W \in Seq(LineType) /\ Len(W) = Len(keys) /\ \A n \in 1 .. Len(W) : W[n] = Saved(keys[n])
    BY <1>2, <1>3, <1>4
<1>7. \A n \in 1 .. Len(W) : W[n].key = keys[n]
    BY <1>3, <1>5, <1>6
<1>8. {W[n].key : n \in 1 .. Len(W)} = DOMAIN m
    BY <1>1, <1>6, <1>7
<1>9. W # NoFile
    <2>1. ASSUME W = NoFile PROVE FALSE
        <3>1. Len(W) = 1 /\ W[1].sep = "unreadable"  BY <2>1 DEF NoFile
        <3>2. W[1].sep = "="  BY <1>3, <1>5, <1>6, <3>1
        <3> QED  BY <3>1, <3>2
    <2> QED  BY <2>1
<1>10. \A n \in 1 .. Len(W) :
          /\ W[n].inc = None /\ W[n].sep = "="
          /\ W[n].key \in DOMAIN m /\ W[n].value = m[W[n].key]
    BY <1>3, <1>5, <1>6, <1>7
<1> QED  BY <1>6, <1>8, <1>9, <1>10 DEF W

\* What a save that was cut short leaves are lines, too.
LEMMA CutLines ==
    ASSUME NEW m, IsConfig(m), NEW lines \in CutShort(Written(m))
    PROVE  lines \in Seq(LineType)
<1> DEFINE W == Written(m)
<1>1. W \in Seq(LineType)  BY WrittenLines
<1>2. PICK n \in DOMAIN W : lines \in CutBefore(W, n)
    BY DEF CutShort
<1> HIDE DEF W
<1>3. Len(W) \in Nat /\ DOMAIN W = 1 .. Len(W)  BY <1>1
<1>4. SubSeq(W, 1, n - 1) \in Seq(LineType)
    <2>1. n \in 1 .. Len(W) /\ n - 1 \in Int /\ \A i \in 1 .. n - 1 : W[i] \in LineType  BY <1>1, <1>3
    <2> QED  BY <2>1, SubSeqProperties
<1>5. ASSUME NEW v \in Value PROVE Append(SubSeq(W, 1, n - 1), [W[n] EXCEPT !.value = v]) \in Seq(LineType)
    <2>1. W[n] \in LineType  BY <1>1, <1>3
    <2>2. [W[n] EXCEPT !.value = v] \in LineType  BY <2>1 DEF LineType
    <2>3. \A l \in LineType, t \in Seq(LineType) : Append(t, l) \in Seq(LineType)  OBVIOUS
    <2> QED  BY <1>4, <2>2, <2>3
<1> QED  BY <1>2, <1>4, <1>5 DEF CutBefore

\* The calls under way, apart from the innermost, and what is left of its file.
LEMMA FrameTypes ==
    ASSUME frames \in Seq(Seq(LineType)), frames # << >>
    PROVE  /\ Below \in Seq(Seq(LineType)) /\ Top \in Seq(LineType)
           /\ Len(frames) \in Nat /\ Len(Below) = Len(frames) - 1
           /\ \A t \in Seq(LineType) : Append(Below, t) \in Seq(Seq(LineType))
           /\ Top # << >> => /\ Line \in LineType /\ Tail(Top) \in Seq(LineType)
                             /\ IncludeDone \in Seq(Seq(LineType))
<1> DEFINE F == Seq(LineType)
<1>1. Len(frames) \in Nat \ {0} /\ Top \in F
    <2> HIDE DEF F
    <2>1. frames \in Seq(F)  BY DEF F
    <2> QED  BY <2>1 DEF Top
<1>2. Below \in Seq(F) /\ Len(Below) = Len(frames) - 1
    <2>1. IsSeq(frames)  BY OwnElements
    <2>2. Len(Below) = Len(frames) - 1  BY <2>1, AllButLast DEF Below
    <2>3. \A n \in 1 .. Len(frames) - 1 : frames[n] \in F  BY <1>1
    <2>4. 1 \in Int /\ Len(frames) - 1 \in Int  BY <1>1
    <2> HIDE DEF F
    <2>5. Below \in Seq(F)  BY <2>3, <2>4, SubSeqProperties DEF Below
    <2> QED  BY <2>2, <2>5
<1>3. \A t \in F : Append(Below, t) \in Seq(F)
    <2> HIDE DEF F
    <2> QED  BY <1>2
<1>4. ASSUME Top # << >>
      PROVE  Line \in LineType /\ Tail(Top) \in F /\ IncludeDone \in Seq(F)
    <2>1. Line \in LineType /\ Tail(Top) \in F
        BY <1>1, <1>4 DEF Line
    <2>2. [Line EXCEPT !.inc = None] \in LineType
        BY <2>1 DEF LineType
    <2>3. \A l \in LineType, t \in F : <<l>> \o t \in F
        OBVIOUS
    <2>4. <<[Line EXCEPT !.inc = None]>> \o Tail(Top) \in F
        BY <2>1, <2>2, <2>3
    <2> QED  BY <1>3, <2>1, <2>4 DEF IncludeDone
<1> QED  BY <1>1, <1>2, <1>3, <1>4

\* A call of LoadConfig: the lines of the file, if it opens.
LEMMA EnterTypes ==
    ASSUME NEW f \in File, NEW calls \in Seq(Seq(LineType)), NEW count, Enter(f, calls, count),
           files \in [File -> Seq(LineType)]
    PROVE  frames' \in Seq(Seq(LineType))
<1>1. files[f] \in Seq(LineType)  OBVIOUS
<1>2. frames' = calls \/ frames' = Append(calls, files[f])  BY DEF Enter
<1> DEFINE F == Seq(LineType)
<1> HIDE DEF F
<1>3. \A t \in F : \A s \in Seq(F) : Append(s, t) \in Seq(F)  OBVIOUS
<1> QED  BY <1>1, <1>2, <1>3 DEF F

\* The files at first.
LEMMA InitTypes == Init => TypeInv
<1> SUFFICES ASSUME Init PROVE TypeInv  OBVIOUS
<1>1. files \in [File -> Seq(LineType)]  BY DisksAssumption DEF Init
<1>2. frames \in Seq(Seq(LineType))  BY DEF Init
<1>3. IsConfig(m_mapConfig) /\ IsMap(m_mapConfig)  BY EmptyConfig DEF Init, IsConfig, IsMap
<1>4. DOMAIN saved = File /\ \A f \in File : saved[f] = << >>  BY DEF Init
<1>5. pc = "none" /\ m_strConfigFile = None /\ cSplitChar = "=" /\ m_nRecurseCount = 0 /\ loads = 0 /\ sets = 0
    BY DEF Init
<1>6. TypeOK  BY <1>3, <1>5, BoundAssumption DEF TypeOK
<1> QED  BY <1>1, <1>2, <1>3, <1>4, <1>5, <1>6 DEF TypeInv

\* Every step keeps the types.
LEMMA NextTypes == TypeInv /\ DepthInv' /\ [Next]_vars => TypeInv'
<1> SUFFICES ASSUME TypeInv, DepthInv', [Next]_vars PROVE TypeInv'  OBVIOUS
<1>1. m_nRecurseCount' \in Nat
    <2>1. IsSeq(frames') /\ m_nRecurseCount' = Len(frames')  BY DEF DepthInv, CountIsDepth, DepthBound, IsSeq, Elements
    <2>2. Len(frames') \in Nat  BY <2>1, AppendOne
    <2> QED  BY <2>1, <2>2
<1>2. \A m : IsConfig(m) => IsMap(m)  BY DEF IsConfig, IsMap
<1>3. /\ pc \in {"none", "load", "loaded", "changed", "endless"} /\ m_strConfigFile \in File \cup {None}
      /\ cSplitChar \in Split \cup {"="} /\ loads \in 0 .. MaxLoads /\ sets \in 0 .. MaxSets
      /\ MaxLoads \in Nat /\ MaxSets \in Nat
    BY BoundAssumption DEF TypeInv, TypeOK
<1>4. /\ files \in [File -> Seq(LineType)] /\ frames \in Seq(Seq(LineType)) /\ IsConfig(m_mapConfig)
      /\ DOMAIN saved = File /\ \A f \in File : saved[f] = << >> \/ \E m : IsConfig(m) /\ saved[f] = <<m>>
      /\ pc # "none" => m_strConfigFile \in File
    BY DEF TypeInv
<1>5. ASSUME NEW f \in File, NEW ch \in Split, CConfigInfo(f, ch) PROVE TypeInv'
    <2>1. /\ pc' = "load" /\ m_strConfigFile' = f /\ cSplitChar' = ch /\ m_mapConfig' = << >>
          /\ Enter(f, << >>, 0) /\ loads < MaxLoads /\ loads' = loads + 1
          /\ UNCHANGED <<files, saved, sets>>
        BY <1>5 DEF CConfigInfo
    <2>2. << >> \in Seq(Seq(LineType))  OBVIOUS
    <2>3. frames' \in Seq(Seq(LineType))  BY <1>4, <2>1, <2>2, EnterTypes
    <2>4. loads' \in 0 .. MaxLoads  BY <1>3, <2>1
    <2>5. TypeOK'  BY <1>1, <1>2, <1>3, <2>1, <2>4, EmptyConfig DEF TypeOK
    <2> QED  BY <1>4, <2>1, <2>3, <2>5, EmptyConfig DEF TypeInv
<1>6. ASSUME UNCHANGED <<files, object, history>>, pc' \in {pc, "loaded", "endless"}, pc = "load",
             frames' \in Seq(Seq(LineType)), IsConfig(m_mapConfig')
      PROVE  TypeInv'
    <2>1. TypeOK'  BY <1>1, <1>2, <1>3, <1>6 DEF TypeOK, object, history
    <2> QED  BY <1>4, <1>6, <2>1 DEF TypeInv, object, history
<1>7. CASE Include
    <2>1. /\ AtLine /\ Line.inc # None /\ Enter(Line.inc, IncludeDone, m_nRecurseCount)
          /\ UNCHANGED <<pc, files, m_mapConfig, object, history>>
        BY <1>7 DEF Include
    <2>2. IncludeDone \in Seq(Seq(LineType)) /\ Line \in LineType
        BY <1>4, <2>1, FrameTypes DEF AtLine
    <2>3. Line.inc \in File  BY <2>1, <2>2 DEF LineType
    <2>4. frames' \in Seq(Seq(LineType))  BY <1>4, <2>1, <2>2, <2>3, EnterTypes
    <2> QED  BY <1>4, <1>6, <2>1, <2>4 DEF AtLine
<1>8. CASE IncludeRefused
    <2>1. AtLine /\ frames' = IncludeDone /\ UNCHANGED <<pc, files, m_mapConfig, object, history>>
        BY <1>8 DEF IncludeRefused
    <2>2. IncludeDone \in Seq(Seq(LineType))  BY <1>4, <2>1, FrameTypes DEF AtLine
    <2> QED  BY <1>4, <1>6, <2>1, <2>2 DEF AtLine
<1>9. CASE LineDone
    <2>1. /\ AtLine /\ frames' = Append(Below, Tail(Top)) /\ UNCHANGED <<pc, files, object, history>>
          /\ m_mapConfig' = IF HasValue(Line, cSplitChar) THEN Assign(m_mapConfig, Line) ELSE m_mapConfig
        BY <1>9 DEF LineDone
    <2>2. Append(Below, Tail(Top)) \in Seq(Seq(LineType)) /\ Line \in LineType
        BY <1>4, <2>1, FrameTypes DEF AtLine
    <2>3. IsConfig(m_mapConfig')
        BY <1>4, <2>1, <2>2, AssignConfig DEF HasValue
    <2> QED  BY <1>6, <2>1, <2>2, <2>3 DEF AtLine
<1>10. CASE LoadConfigReturns
    <2>1. pc = "load" /\ frames # << >> /\ frames' = Below /\ UNCHANGED <<pc, files, m_mapConfig, object, history>>
        BY <1>10 DEF LoadConfigReturns
    <2>2. Below \in Seq(Seq(LineType))  BY <1>4, <2>1, FrameTypes
    <2> QED  BY <1>4, <1>6, <2>1, <2>2
<1>11. CASE Constructed
    <2>1. pc = "load" /\ pc' = "loaded" /\ UNCHANGED <<files, m_mapConfig, frames, object, history>>
        BY <1>11 DEF Constructed
    <2> QED  BY <1>4, <1>6, <2>1
<1>12. ASSUME NEW k \in Key, NEW v \in Value, SetValue(k, v) PROVE TypeInv'
    <2>1. /\ pc \in {"loaded", "changed"} /\ sets < MaxSets /\ pc' = "changed" /\ sets' = sets + 1
          /\ m_mapConfig' = IF v \in DOMAIN m_mapConfig THEN [m_mapConfig EXCEPT ![v] = v] ELSE m_mapConfig
          /\ UNCHANGED <<files, frames, object, saved, loads>>
        BY <1>12 DEF SetValue
    <2>2. IsConfig(m_mapConfig')  BY <1>4, <2>1 DEF IsConfig
    <2>3. sets' \in 0 .. MaxSets  BY <1>3, <2>1
    <2>4. TypeOK'  BY <1>1, <1>2, <1>3, <2>1, <2>2, <2>3 DEF TypeOK, object
    <2> QED  BY <1>4, <2>1, <2>2, <2>4 DEF TypeInv, object
<1>13. CASE SaveConfig
    <2>1. /\ pc \in {"loaded", "changed"} /\ files' = [files EXCEPT ![m_strConfigFile] = Written(m_mapConfig)]
          /\ saved' = [saved EXCEPT ![m_strConfigFile] = <<m_mapConfig>>]
          /\ UNCHANGED <<pc, m_mapConfig, frames, object, loads, sets>>
        BY <1>13 DEF SaveConfig
    <2>2. Written(m_mapConfig) \in Seq(LineType)  BY <1>4, WrittenLines
    <2>3. TypeOK'  BY <1>1, <1>2, <1>3, <1>4, <2>1 DEF TypeOK, object
    <2>4. files' \in [File -> Seq(LineType)]  BY <1>4, <2>1, <2>2
    <2>5. DOMAIN saved' = File /\ \A f \in File : saved'[f] = << >> \/ \E m : IsConfig(m) /\ saved'[f] = <<m>>
        BY <1>4, <2>1
    <2> QED  BY <1>4, <2>1, <2>3, <2>4, <2>5 DEF TypeInv, object
<1>14. CASE UNCHANGED vars
    <2>1. TypeOK'  BY <1>1, <1>2, <1>3, <1>4, <1>14 DEF TypeOK, vars, object, history
    <2> QED  BY <1>4, <1>14, <2>1 DEF TypeInv, vars, object, history
<1>15. CASE ReadFails
    <2>1. pc = "load" /\ pc' = "endless" /\ UNCHANGED <<files, m_mapConfig, frames, object, history>>
        BY <1>15 DEF ReadFails, AtLine
    <2> QED  BY <1>4, <1>6, <2>1
<1>16. CASE SaveCut
    <2>1. PICK lines \in CutShort(Written(m_mapConfig)) : files' = [files EXCEPT ![m_strConfigFile] = lines]
        BY <1>16 DEF SaveCut
    <2>2. /\ pc \in {"loaded", "changed"} /\ pc' \in {pc, "none"}
          /\ saved' = [saved EXCEPT ![m_strConfigFile] = << >>]
          /\ UNCHANGED <<m_mapConfig, frames, object, loads, sets>>
        BY <1>16 DEF SaveCut
    <2>3. lines \in Seq(LineType)  BY <1>4, <2>1, CutLines
    <2>4. TypeOK'  BY <1>1, <1>2, <1>3, <1>4, <2>2 DEF TypeOK, object
    <2>5. files' \in [File -> Seq(LineType)]  BY <1>4, <2>1, <2>3
    <2>6. DOMAIN saved' = File /\ \A f \in File : saved'[f] = << >> \/ \E m : IsConfig(m) /\ saved'[f] = <<m>>
        BY <1>4, <2>2
    <2> QED  BY <1>4, <2>2, <2>4, <2>5, <2>6 DEF TypeInv, object
<1> QED  BY <1>5, <1>7, <1>8, <1>9, <1>10, <1>11, <1>12, <1>13, <1>14, <1>15, <1>16 DEF Next, LoadStep

\* Every variable has its type, whatever the files hold and include.
THEOREM TypeCorrect == Spec => []TypeOK
<1>1. TypeInv => TypeOK  BY DEF TypeInv
<1> QED  BY <1>1, InitDepth, NextDepth, InitTypes, NextTypes, PTL DEF Spec

-----------------------------------------------------------------------------
(* What SaveConfig writes comes back.                                      *)

\* A file that was saved holds the map saved, one line for each key.
SavedFiles == \A f \in File : saved[f] # << >> => files[f] = Written(saved[f][1])

\* calls has left the end of the lines W, and map the keys of the lines before.
ReadUpTo(calls, map, m, W) ==
    LET left == IF calls = << >> THEN << >> ELSE calls[1]
        done == Len(W) - Len(left)
    IN  /\ Len(calls) <= 1
        /\ Len(left) <= Len(W)
        /\ \A n \in 1 .. Len(left) : left[n] = W[done + n]
        /\ DOMAIN map = {W[n].key : n \in 1 .. done}
        /\ \A k \in DOMAIN map : map[k] = m[k]

\* Reading a saved file with = as the separator: no call is nested, and the map
\* is the part of the saved one that has been read.
ReadingSaved ==
    pc = "load" /\ cSplitChar = "=" /\ saved[m_strConfigFile] # << >> =>
        ReadUpTo(frames, m_mapConfig, saved[m_strConfigFile][1], Written(saved[m_strConfigFile][1]))

SavedInv == SavedFiles /\ ReadingSaved /\ SavedReloads

\* One call is under way, and it is at a line of the saved file.
LEMMA AtSavedLine ==
    ASSUME NEW m, IsConfig(m), frames \in Seq(Seq(LineType)), frames # << >>, Top # << >>,
           ReadUpTo(frames, m_mapConfig, m, Written(m))
    PROVE  /\ frames = <<Top>> /\ Below = << >>
           /\ Line.inc = None /\ HasValue(Line, "=")
           /\ ReadUpTo(Append(Below, Tail(Top)), Assign(m_mapConfig, Line), m, Written(m))
<1> DEFINE W == Written(m)
           left == IF frames = << >> THEN << >> ELSE frames[1]
           done == Len(W) - Len(left)
<1>1. /\ W \in Seq(LineType)
      /\ \A n \in 1 .. Len(W) : /\ W[n].inc = None /\ W[n].sep = "="
                                /\ W[n].key \in DOMAIN m /\ W[n].value = m[W[n].key]
    BY WrittenLines
<1>2. /\ Len(frames) <= 1 /\ Len(left) <= Len(W)
      /\ \A n \in 1 .. Len(left) : left[n] = W[done + n]
      /\ DOMAIN m_mapConfig = {W[n].key : n \in 1 .. done}
      /\ \A k \in DOMAIN m_mapConfig : m_mapConfig[k] = m[k]
    BY DEF ReadUpTo
<1>3. Len(frames) = 1 /\ Below = << >> /\ Top = frames[1] /\ left = Top
    <2>1. Len(frames) \in Nat /\ Len(Below) = Len(frames) - 1 /\ Below \in Seq(Seq(LineType))
        BY FrameTypes
    <2>2. Len(frames) # 0
        <3> DEFINE F == Seq(LineType)
        <3> HIDE DEF F
        <3>1. frames \in Seq(F)  BY DEF F
        <3> QED  BY <3>1
    <2>3. Len(frames) = 1 /\ Len(Below) = 0  BY <1>2, <2>1, <2>2
    <2>4. Below = << >>
        <3> DEFINE F == Seq(LineType)
        <3> HIDE DEF F
        <3>1. Below \in Seq(F)  BY <2>1 DEF F
        <3> QED  BY <2>3, <3>1
    <2> QED  BY <2>3, <2>4 DEF Top
<1>4. frames = <<Top>>
    <2> DEFINE F == Seq(LineType)
    <2> HIDE DEF F
    <2>1. frames \in Seq(F)  BY DEF F
    <2> QED  BY <1>3, <2>1
<1>5. Top \in Seq(LineType) /\ Line \in LineType /\ Tail(Top) \in Seq(LineType)
    BY FrameTypes
<1> HIDE DEF W
<1>6. /\ Len(W) \in Nat /\ Len(Top) \in Nat \ {0} /\ Len(Tail(Top)) = Len(Top) - 1
      /\ \A n \in 1 .. Len(Tail(Top)) : Tail(Top)[n] = Top[n + 1]
      /\ Line = Top[1] /\ done = Len(W) - Len(Top) /\ done \in Nat
      /\ done + 1 \in 1 .. Len(W)
    <2>1. Len(W) \in Nat /\ Len(Top) \in Nat \ {0} /\ Line = Top[1]
        BY <1>1, <1>5 DEF Line
    <2>2. Len(Tail(Top)) = Len(Top) - 1 /\ \A n \in 1 .. Len(Tail(Top)) : Tail(Top)[n] = Top[n + 1]
        BY <1>5
    <2>3. Len(Top) <= Len(W) /\ done = Len(W) - Len(Top)  BY <1>2, <1>3
    <2> QED  BY <2>1, <2>2, <2>3
<1>7. Line = W[done + 1]
    <2>1. 1 \in 1 .. Len(left)  BY <1>3, <1>6
    <2> HIDE DEF left, done
    <2> QED  BY <1>2, <1>3, <1>6, <2>1
<1>8. Line.inc = None /\ HasValue(Line, "=")
    BY <1>1, <1>6, <1>7 DEF HasValue, IsConfig
<1>9. ReadUpTo(<<Tail(Top)>>, Assign(m_mapConfig, Line), m, W)
    <2> DEFINE t == Tail(Top)
               map == Assign(m_mapConfig, Line)
    <2>1. map = [k \in DOMAIN m_mapConfig \cup {Line.key} |-> IF k = Line.key THEN Line.value ELSE m_mapConfig[k]]
        BY DEF Assign
    <2>2. Len(W) - Len(t) = done + 1 /\ Len(t) <= Len(W) /\ Len(t) \in Nat
        <3>1. \A a, b \in Nat : a - (b - 1) = (a - b) + 1  OBVIOUS
        <3>2. \A a \in Nat, b \in Nat \ {0} : b <= a => b - 1 <= a /\ b - 1 \in Nat  OBVIOUS
        <3> QED  BY <1>2, <1>3, <1>6, <3>1, <3>2
    <2>3. ASSUME NEW n \in 1 .. Len(t) PROVE t[n] = W[(done + 1) + n]
        <3>1. n \in Nat /\ n + 1 \in 1 .. Len(Top) /\ t[n] = Top[n + 1] /\ done + (n + 1) = (done + 1) + n
            BY <1>6
        <3> HIDE DEF done, t, left
        <3>2. Top[n + 1] = W[done + (n + 1)]  BY <1>2, <1>3, <3>1
        <3> QED  BY <3>1, <3>2
    <2> HIDE DEF done, t, left
    <2>4. DOMAIN map = {W[n].key : n \in 1 .. done + 1}
        <3>1. 1 .. done + 1 = (1 .. done) \cup {done + 1}  BY <1>6
        <3>2. DOMAIN map = DOMAIN m_mapConfig \cup {W[done + 1].key}  BY <1>7, <2>1
        <3> HIDE DEF map
        <3> QED  BY <1>2, <3>1, <3>2
    <2>5. \A k \in DOMAIN map : map[k] = m[k]
        <3>1. Line.value = m[Line.key]  BY <1>1, <1>6, <1>7
        <3>2. \A k \in DOMAIN m_mapConfig : m_mapConfig[k] = m[k]  BY <1>2
        <3> QED  BY <2>1, <3>1, <3>2
    <2>6. Len(<<t>>) = 1 /\ <<t>>[1] = t /\ <<t>> # << >>  OBVIOUS
    <2> HIDE DEF map
    <2>7. ReadUpTo(<<t>>, map, m, W)
        BY <2>2, <2>3, <2>4, <2>5, <2>6 DEF ReadUpTo
    <2> QED  BY <2>7 DEF t, map
<1>10. Append(Below, Tail(Top)) = <<Tail(Top)>>  BY <1>3
<1> QED  BY <1>3, <1>4, <1>8, <1>9, <1>10 DEF W

\* A new object on a saved file begins with all the lines that were written.
LEMMA BeginSaved ==
    ASSUME NEW m, IsConfig(m), NEW f, files[f] = Written(m), Enter(f, << >>, 0)
    PROVE  ReadUpTo(frames', << >>, m, Written(m))
<1> DEFINE W == Written(m)
<1>1. W \in Seq(LineType) /\ W # NoFile  BY WrittenLines
<1>2. frames' = Append(<< >>, W)  BY <1>1 DEF Enter, Readable
<1> HIDE DEF W
<1>3. frames' = <<W>> /\ Len(<<W>>) = 1 /\ <<W>>[1] = W /\ <<W>> # << >>  BY <1>2
<1>4. Len(W) \in Nat /\ Len(W) - Len(W) = 0 /\ Len(W) <= Len(W)  BY <1>1
<1>5. \A n \in 1 .. Len(W) : W[n] = W[0 + n]  BY <1>4
<1>6. DOMAIN << >> = {W[n].key : n \in 1 .. 0}  OBVIOUS
<1>7. \A k \in DOMAIN << >> : << >>[k] = m[k]  OBVIOUS
<1> QED  BY <1>3, <1>4, <1>5, <1>6, <1>7 DEF ReadUpTo, W

\* At the end of the saved file LoadConfig returns; nothing is left to read.
LEMMA EndSaved ==
    ASSUME NEW m, IsConfig(m), frames \in Seq(Seq(LineType)), frames # << >>, Top = << >>,
           ReadUpTo(frames, m_mapConfig, m, Written(m))
    PROVE  ReadUpTo(Below, m_mapConfig, m, Written(m))
<1>1. Len(frames) \in Nat /\ Len(Below) = Len(frames) - 1 /\ Below \in Seq(Seq(LineType))
    BY FrameTypes
<1>2. Len(frames) # 0 /\ Len(frames) <= 1
    <2> DEFINE F == Seq(LineType)
    <2> HIDE DEF F
    <2>1. frames \in Seq(F)  BY DEF F
    <2> QED  BY <2>1 DEF ReadUpTo
<1>3. Len(frames) = 1 /\ Len(Below) = 0  BY <1>1, <1>2
<1>4. Below = << >>
    <2> DEFINE F == Seq(LineType)
    <2> HIDE DEF F
    <2>1. Below \in Seq(F)  BY <1>1 DEF F
    <2> QED  BY <1>3, <2>1
<1>5. frames[1] = << >>  BY <1>3 DEF Top
<1> QED  BY <1>3, <1>4, <1>5 DEF ReadUpTo

\* Once everything is read, the map is the one that was saved.
LEMMA AllSaved ==
    ASSUME NEW m, IsConfig(m), IsConfig(m_mapConfig), ReadUpTo(<< >>, m_mapConfig, m, Written(m))
    PROVE  m_mapConfig = m
<1> DEFINE W == Written(m)
<1>1. W \in Seq(LineType) /\ {W[n].key : n \in 1 .. Len(W)} = DOMAIN m  BY WrittenLines
<1> HIDE DEF W
<1>2. Len(W) \in Nat /\ Len(W) - 0 = Len(W) /\ Len(<< >>) = 0  BY <1>1
<1>3. DOMAIN m_mapConfig = {W[n].key : n \in 1 .. Len(W)} /\ \A k \in DOMAIN m_mapConfig : m_mapConfig[k] = m[k]
    BY <1>2 DEF ReadUpTo, W
<1> QED  BY <1>1, <1>3 DEF IsConfig

\* Nothing is saved at first.
LEMMA InitSaved == Init => SavedInv
<1> SUFFICES ASSUME Init PROVE SavedInv  OBVIOUS
<1>1. pc = "none" /\ \A f \in File : saved[f] = << >>  BY DEF Init
<1> QED  BY <1>1 DEF SavedInv, SavedFiles, ReadingSaved, SavedReloads

\* Every step keeps what was saved readable.
LEMMA NextSaved == TypeInv /\ TypeInv' /\ SavedInv /\ [Next]_vars => SavedInv'
<1> SUFFICES ASSUME TypeInv, TypeInv', SavedInv, [Next]_vars PROVE SavedInv'  OBVIOUS
<1> DEFINE name == m_strConfigFile
           m == saved[m_strConfigFile][1]
<1>1. /\ frames \in Seq(Seq(LineType)) /\ IsConfig(m_mapConfig) /\ DOMAIN saved = File
      /\ \A f \in File : saved[f] # << >> => IsConfig(saved[f][1]) /\ saved[f] = <<saved[f][1]>>
      /\ pc # "none" => name \in File
      /\ files \in [File -> Seq(LineType)]
    BY DEF TypeInv
<1>2. SavedFiles /\ ReadingSaved /\ SavedReloads  BY DEF SavedInv
<1>3. ASSUME UNCHANGED <<files, saved>> PROVE SavedFiles'  BY <1>2, <1>3 DEF SavedFiles
<1>4. ASSUME NEW f \in File, NEW ch \in Split, CConfigInfo(f, ch) PROVE SavedInv'
    <2>1. /\ pc' = "load" /\ m_strConfigFile' = f /\ m_mapConfig' = << >>
          /\ Enter(f, << >>, 0) /\ UNCHANGED <<files, saved>>
        BY <1>4 DEF CConfigInfo
    <2>2. ASSUME saved[f] # << >> PROVE ReadUpTo(frames', << >>, saved[f][1], Written(saved[f][1]))
        BY <1>1, <1>2, <2>1, <2>2, BeginSaved DEF SavedFiles
    <2>3. ReadingSaved'
        <3> SUFFICES ASSUME saved[f] # << >>
                     PROVE  ReadUpTo(frames', m_mapConfig', saved'[f][1], Written(saved'[f][1]))
            BY <2>1 DEF ReadingSaved
        <3> QED  BY <2>1, <2>2
    <2>4. SavedReloads'  BY <2>1 DEF SavedReloads
    <2> QED  BY <1>3, <2>1, <2>3, <2>4 DEF SavedInv
<1>5. ASSUME pc = "load", pc' = "load", UNCHANGED <<files, object, saved>>,
             cSplitChar = "=" /\ saved[name] # << >> => ReadUpTo(frames', m_mapConfig', m, Written(m))
      PROVE  SavedInv'
    <2>1. SavedReloads'  BY <1>5 DEF SavedReloads
    <2>2. m' = m /\ UNCHANGED <<m_strConfigFile, cSplitChar, saved>>  BY <1>5 DEF object
    <2>3. ReadingSaved'  BY <1>5, <2>2 DEF ReadingSaved
    <2> QED  BY <1>3, <1>5, <2>1, <2>3 DEF SavedInv
<1>6. ASSUME pc = "load", cSplitChar = "=", saved[name] # << >>
      PROVE  IsConfig(m) /\ ReadUpTo(frames, m_mapConfig, m, Written(m))
    BY <1>1, <1>2, <1>6 DEF ReadingSaved
<1>7. CASE Include \/ IncludeRefused
    <2>1. /\ AtLine /\ Line.inc # None /\ pc = "load" /\ pc' = pc
          /\ UNCHANGED <<files, object, saved>>
        BY <1>7 DEF Include, IncludeRefused, AtLine, history
    <2>2. ~(cSplitChar = "=" /\ saved[name] # << >>)
        BY <1>1, <1>6, <2>1, AtSavedLine DEF AtLine
    <2> QED  BY <1>5, <2>1, <2>2
<1>8. CASE LineDone
    <2>1. /\ AtLine /\ pc = "load" /\ pc' = pc /\ UNCHANGED <<files, object, saved>>
          /\ frames' = Append(Below, Tail(Top))
          /\ m_mapConfig' = IF HasValue(Line, cSplitChar) THEN Assign(m_mapConfig, Line) ELSE m_mapConfig
        BY <1>8 DEF LineDone, AtLine, history
    <2>2. ASSUME cSplitChar = "=", saved[name] # << >> PROVE ReadUpTo(frames', m_mapConfig', m, Written(m))
        <3>1. IsConfig(m) /\ ReadUpTo(frames, m_mapConfig, m, Written(m))  BY <1>6, <2>1, <2>2
        <3> HIDE DEF m
        <3>2. /\ HasValue(Line, "=")
              /\ ReadUpTo(Append(Below, Tail(Top)), Assign(m_mapConfig, Line), m, Written(m))
            BY <1>1, <2>1, <3>1, AtSavedLine DEF AtLine
        <3> QED  BY <2>1, <2>2, <3>2
    <2> QED  BY <1>5, <2>1, <2>2
<1>9. CASE LoadConfigReturns
    <2>1. /\ pc = "load" /\ pc' = pc /\ frames # << >> /\ Top = << >> /\ frames' = Below
          /\ m_mapConfig' = m_mapConfig /\ UNCHANGED <<files, object, saved>>
        BY <1>9 DEF LoadConfigReturns, history
    <2>2. ASSUME cSplitChar = "=", saved[name] # << >> PROVE ReadUpTo(frames', m_mapConfig', m, Written(m))
        <3>1. IsConfig(m) /\ ReadUpTo(frames, m_mapConfig, m, Written(m))  BY <1>6, <2>1, <2>2
        <3> HIDE DEF m
        <3>2. ReadUpTo(Below, m_mapConfig, m, Written(m))  BY <1>1, <2>1, <3>1, EndSaved
        <3> QED  BY <2>1, <3>2
    <2> QED  BY <1>5, <2>1, <2>2
<1>10. CASE Constructed
    <2>1. /\ pc = "load" /\ frames = << >> /\ pc' = "loaded" /\ m_mapConfig' = m_mapConfig
          /\ UNCHANGED <<files, object, saved>>
        BY <1>10 DEF Constructed, history
    <2>2. ASSUME cSplitChar = "=", saved[name] # << >> PROVE <<m_mapConfig>> = saved[name]
        <3>1. IsConfig(m) /\ ReadUpTo(<< >>, m_mapConfig, m, Written(m))  BY <1>6, <2>1, <2>2
        <3>2. saved[name] = <<m>>  BY <1>1, <2>1, <2>2
        <3> HIDE DEF m
        <3>3. m_mapConfig = m  BY <1>1, <3>1, AllSaved
        <3> QED  BY <3>2, <3>3
    <2>3. SavedReloads'  BY <2>1, <2>2 DEF SavedReloads, object
    <2>4. ReadingSaved'  BY <2>1 DEF ReadingSaved
    <2> QED  BY <1>3, <2>1, <2>3, <2>4 DEF SavedInv
<1>11. ASSUME NEW k \in Key, NEW v \in Value, SetValue(k, v) PROVE SavedInv'
    <2>1. pc' = "changed" /\ UNCHANGED <<files, saved>>  BY <1>11 DEF SetValue
    <2> QED  BY <1>3, <2>1 DEF SavedInv, ReadingSaved, SavedReloads
<1>12. CASE SaveConfig
    <2>1. /\ pc \in {"loaded", "changed"} /\ pc' = pc
          /\ files' = [files EXCEPT ![m_strConfigFile] = Written(m_mapConfig)]
          /\ saved' = [saved EXCEPT ![m_strConfigFile] = <<m_mapConfig>>]
          /\ UNCHANGED <<m_mapConfig, object>>
        BY <1>12 DEF SaveConfig
    <2>2. name \in File  BY <1>1, <2>1
    <2>3. /\ saved'[name] = <<m_mapConfig>> /\ files'[name] = Written(m_mapConfig)
          /\ \A f \in File : f # name => saved'[f] = saved[f] /\ files'[f] = files[f]
        BY <1>1, <2>1, <2>2
    <2>4. SavedFiles'
        <3> SUFFICES ASSUME NEW f \in File, saved'[f] # << >> PROVE files'[f] = Written(saved'[f][1])
            BY DEF SavedFiles
        <3>1. CASE f = name  BY <2>3, <3>1
        <3>2. CASE f # name  BY <1>2, <2>3, <3>2 DEF SavedFiles
        <3> QED  BY <3>1, <3>2
    <2>5. ReadingSaved'  BY <2>1 DEF ReadingSaved
    <2>6. SavedReloads'  BY <2>1, <2>3 DEF SavedReloads, object
    <2> QED  BY <2>4, <2>5, <2>6 DEF SavedInv
<1>13. CASE UNCHANGED vars
    <2>1. UNCHANGED <<pc, files, saved, object, frames, m_mapConfig>>  BY <1>13 DEF vars, history
    <2> QED  BY <1>2, <2>1 DEF SavedInv, SavedFiles, ReadingSaved, SavedReloads, object
<1>14. CASE ReadFails
    <2>1. pc' = "endless" /\ UNCHANGED <<files, saved>>  BY <1>14 DEF ReadFails, history
    <2> QED  BY <1>3, <2>1 DEF SavedInv, ReadingSaved, SavedReloads
<1>15. CASE SaveCut
    <2>1. PICK lines \in CutShort(Written(m_mapConfig)) : files' = [files EXCEPT ![m_strConfigFile] = lines]
        BY <1>15 DEF SaveCut
    <2>2. /\ pc \in {"loaded", "changed"} /\ pc' \in {pc, "none"}
          /\ saved' = [saved EXCEPT ![m_strConfigFile] = << >>] /\ UNCHANGED <<m_mapConfig, object>>
        BY <1>15 DEF SaveCut
    <2>3. name \in File  BY <1>1, <2>2
    <2>4. /\ saved'[name] = << >>
          /\ \A f \in File : f # name => saved'[f] = saved[f] /\ files'[f] = files[f]
        BY <1>1, <2>1, <2>2, <2>3
    <2>5. SavedFiles'  BY <1>2, <2>4 DEF SavedFiles
    <2>6. ReadingSaved'  BY <2>2 DEF ReadingSaved
    <2>7. SavedReloads'  BY <2>2, <2>4 DEF SavedReloads, object
    <2> QED  BY <2>5, <2>6, <2>7 DEF SavedInv
<1> QED  BY <1>4, <1>7, <1>8, <1>9, <1>10, <1>11, <1>12, <1>13, <1>14, <1>15 DEF Next, LoadStep

\* For all files, includes and separators: an object constructed on a file that
\* SaveConfig wrote, with = as the separator, has the map that was saved
\* (CConfigInfo.cpp, SaveConfig and LoadConfig).
THEOREM SavedComesBack == Spec => []SavedReloads
<1>1. SavedInv => SavedReloads  BY DEF SavedInv
<1> QED  BY <1>1, InitDepth, NextDepth, InitTypes, NextTypes, InitSaved, NextSaved, PTL DEF Spec

-----------------------------------------------------------------------------
(* The last assignment counts.                                             *)

\* A call has read the file l[1] up to the line l[2], of which it may have done
\* the include.
FrameAt(l, lines) ==
    LET s == source[l[1]]
    IN  /\ l[1] \in File /\ s # NoFile
        /\ l[2] \in 1 .. Len(s) + 1
        /\ Len(lines) = (Len(s) + 1) - l[2]
        /\ \A n \in 2 .. Len(lines) : lines[n] = s[l[2] + (n - 1)]
        /\ lines # << >> => lines[1] \in {s[l[2]], [s[l[2]] EXCEPT !.inc = None]}

\* at is where the calls under way stand.
StandsAt(at) ==
    /\ at \in Seq(File \X Nat) /\ Len(at) = Len(frames)
    /\ \A d \in 1 .. Len(at) : FrameAt(at[d], frames[d])
    /\ at # << >> => at[1][1] = m_strConfigFile
    /\ \A d \in 1 .. Len(at) - 1 :
          /\ frames[d] # << >> /\ frames[d][1].inc = None
          /\ LineAt(at[d]).inc = at[d + 1][1]

\* The innermost call has done the include of its line; with no call under way,
\* the file of the object is read.
IncludeIsDone == frames = << >> \/ (Top # << >> /\ Line.inc = None)

\* The line at p has been read when the calls stand at at.
ReadBefore(at, p) == FurtherDown(at, p) \/ (Includes(at, p) /\ IncludeIsDone)

LastSoFar == \E at : StandsAt(at) /\ \A k \in Key : FromLast(k, {p \in Assignments(k) : ReadBefore(at, p)})

LoadInv ==
    /\ source \in [File -> Seq(LineType)]
    /\ pc = "load" => source = files /\ LastSoFar
    /\ LastWins

\* A place is a line of a file that opens, and one of the file before it.
LEMMA PlaceFacts ==
    ASSUME source \in [File -> Seq(LineType)], NEW p \in Places
    PROVE  /\ p \in Seq(File \X Nat) /\ Len(p) \in Nat \ {0} /\ Len(p) <= Limit + 1
           /\ \A d \in 1 .. Len(p) :
                 /\ p[d] = <<p[d][1], p[d][2]>> /\ p[d][1] \in File /\ source[p[d][1]] # NoFile
                 /\ p[d][2] \in 1 .. Len(source[p[d][1]]) /\ p[d][2] \in Nat \ {0}
           /\ p[1][1] = m_strConfigFile
           /\ \A d \in 1 .. Len(p) - 1 : LineAt(p[d]).inc = p[d + 1][1]
<1>1. PICK n \in 1 .. Limit + 1 : p \in [1 .. n -> LineNos]
    BY DEF Places
<1>2. Limit \in Nat /\ n \in Nat \ {0} /\ n <= Limit + 1
    BY LimitAssumption
<1>3. Len(p) = n
    BY <1>1, <1>2
<1>4. \A l \in LineNos : /\ l = <<l[1], l[2]>> /\ l[1] \in File /\ source[l[1]] # NoFile
                         /\ l[2] \in 1 .. Len(source[l[1]]) /\ l[2] \in Nat \ {0}
    <2> SUFFICES ASSUME NEW f \in File, source[f] # NoFile, NEW k \in 1 .. Len(source[f])
                 PROVE  k \in Nat \ {0}
        BY DEF LineNos
    <2>1. Len(source[f]) \in Nat
        OBVIOUS
    <2> QED  BY <2>1
<1>5. \A d \in 1 .. n : p[d] \in LineNos
    BY <1>1
<1>6. \A d \in 1 .. n : p[d] \in File \X Nat
    BY <1>4, <1>5
<1>7. p \in Seq(File \X Nat)
    BY <1>1, <1>2, <1>6
<1>8. p[1][1] = m_strConfigFile /\ \A d \in 1 .. Len(p) - 1 : LineAt(p[d]).inc = p[d + 1][1]
    BY DEF Places
<1> QED  BY <1>2, <1>3, <1>4, <1>5, <1>7, <1>8

\* What StandsAt says of the calls.
LEMMA StandFacts ==
    ASSUME source \in [File -> Seq(LineType)], frames \in Seq(Seq(LineType)), NEW at, StandsAt(at)
    PROVE  /\ Len(at) \in Nat /\ Len(at) = Len(frames) /\ (frames = << >> <=> Len(at) = 0)
           /\ at \in Seq(File \X Nat)
           /\ \A d \in 1 .. Len(at) :
                 /\ at[d] = <<at[d][1], at[d][2]>> /\ at[d][1] \in File /\ source[at[d][1]] # NoFile
                 /\ at[d][2] \in Nat /\ Len(source[at[d][1]]) \in Nat
                 /\ at[d][2] \in 1 .. Len(source[at[d][1]]) + 1
                 /\ frames[d] \in Seq(LineType)
                 /\ (frames[d] # << >> <=> at[d][2] \in 1 .. Len(source[at[d][1]]))
           /\ frames # << >> => Len(at) \in 1 .. Len(at) /\ Top = frames[Len(at)]
<1>1. at \in Seq(File \X Nat) /\ Len(at) \in Nat /\ Len(at) = Len(frames)
    BY DEF StandsAt
<1>2. /\ frames = << >> <=> Len(at) = 0
      /\ frames # << >> => Len(at) \in 1 .. Len(at) /\ Top = frames[Len(at)]
      /\ \A d \in 1 .. Len(at) : frames[d] \in Seq(LineType)
    <2> DEFINE F == Seq(LineType)
    <2> HIDE DEF F
    <2>1. frames \in Seq(F)  BY DEF F
    <2>2. \A d \in 1 .. Len(at) : frames[d] \in F  BY <1>1, <2>1
    <2> QED  BY <1>1, <2>1, <2>2 DEF Top, F
<1>3. ASSUME NEW d \in 1 .. Len(at)
      PROVE  /\ at[d] = <<at[d][1], at[d][2]>> /\ at[d][1] \in File /\ source[at[d][1]] # NoFile
             /\ at[d][2] \in Nat /\ Len(source[at[d][1]]) \in Nat
             /\ at[d][2] \in 1 .. Len(source[at[d][1]]) + 1
             /\ (frames[d] # << >> <=> at[d][2] \in 1 .. Len(source[at[d][1]]))
    <2>1. at[d] \in File \X Nat  BY <1>1
    <2>2. /\ source[at[d][1]] # NoFile /\ at[d][2] \in 1 .. Len(source[at[d][1]]) + 1
          /\ Len(frames[d]) = (Len(source[at[d][1]]) + 1) - at[d][2]
        BY DEF StandsAt, FrameAt
    <2>3. Len(source[at[d][1]]) \in Nat  BY <2>1
    <2>4. frames[d] # << >> <=> Len(frames[d]) # 0  BY <1>2
    <2>5. \A a, b \in Nat : b \in 1 .. a + 1 => ((a + 1) - b # 0 <=> b \in 1 .. a)  OBVIOUS
    <2>6. frames[d] # << >> <=> at[d][2] \in 1 .. Len(source[at[d][1]])
        BY <2>1, <2>2, <2>3, <2>4, <2>5
    <2> QED  BY <2>1, <2>2, <2>3, <2>6, SMTT(30)
<1> QED  BY <1>1, <1>2, <1>3

\* Places that agree up to some depth are in one file there.
LEMMA SameFile ==
    ASSUME source \in [File -> Seq(LineType)], frames \in Seq(Seq(LineType)), NEW at, StandsAt(at),
           NEW p \in Places, NEW d \in 1 .. Len(at), d \in 1 .. Len(p), \A e \in 1 .. d - 1 : p[e] = at[e]
    PROVE  p[d][1] = at[d][1]
<1>1. d \in Nat /\ Len(at) \in Nat /\ Len(p) \in Nat
    BY PlaceFacts, StandFacts
<1>2. CASE d = 1
    <2>1. at # << >>  BY <1>2, StandFacts
    <2> QED  BY <1>2, <2>1, PlaceFacts DEF StandsAt
<1>3. CASE d # 1
    <2>1. d - 1 \in 1 .. Len(at) - 1 /\ d - 1 \in 1 .. Len(p) - 1 /\ d - 1 \in 1 .. d - 1 /\ (d - 1) + 1 = d
        BY <1>1, <1>3
    <2>2. LineAt(p[d - 1]).inc = p[d][1]  BY <2>1, PlaceFacts, SMTT(30)
    <2>3. LineAt(at[d - 1]).inc = at[d][1]  BY <2>1 DEF StandsAt
    <2>4. p[d - 1] = at[d - 1]  BY <2>1
    <2> QED  BY <2>2, <2>3, <2>4
<1> QED  BY <1>2, <1>3

\* A call at the first line of a file has read nothing of it yet.
LEMMA EnterReads ==
    ASSUME source \in [File -> Seq(LineType)], frames \in Seq(Seq(LineType)), NEW at, StandsAt(at),
           NEW at2, Len(at2) = Len(at) + 1, \A e \in 1 .. Len(at) : at2[e] = at[e],
           at2[Len(at) + 1][2] = 1, NEW p \in Places
    PROVE  FurtherDown(at2, p) <=> FurtherDown(at, p)
<1>1. Len(at) \in Nat /\ Len(p) \in Nat  BY PlaceFacts, StandFacts
<1>2. ASSUME FurtherDown(at2, p) PROVE FurtherDown(at, p)
    <2>1. PICK d \in (1 .. Len(at2)) \cap (1 .. Len(p)) :
             at2[d][2] > p[d][2] /\ \A e \in 1 .. d - 1 : at2[e] = p[e]
        BY <1>2 DEF FurtherDown
    <2>2. d # Len(at) + 1
        <3>1. p[d][2] \in Nat \ {0}  BY <2>1, PlaceFacts
        <3>2. \A n \in Nat \ {0} : ~(1 > n)  OBVIOUS
        <3> QED  BY <2>1, <3>1, <3>2
    <2>3. d \in 1 .. Len(at) /\ d - 1 \in Nat /\ \A e \in 1 .. d - 1 : e \in 1 .. Len(at)
        BY <1>1, <2>1, <2>2
    <2>4. at[d][2] > p[d][2] /\ \A e \in 1 .. d - 1 : at[e] = p[e]  BY <2>1, <2>3
    <2> QED  BY <2>1, <2>3, <2>4 DEF FurtherDown
<1>3. ASSUME FurtherDown(at, p) PROVE FurtherDown(at2, p)
    <2>1. PICK d \in (1 .. Len(at)) \cap (1 .. Len(p)) :
             at[d][2] > p[d][2] /\ \A e \in 1 .. d - 1 : at[e] = p[e]
        BY <1>3 DEF FurtherDown
    <2>2. d \in 1 .. Len(at2) /\ \A e \in 1 .. d - 1 : e \in 1 .. Len(at)
        BY <1>1, <2>1
    <2>3. at2[d][2] > p[d][2] /\ \A e \in 1 .. d - 1 : at2[e] = p[e]  BY <2>1, <2>2
    <2> QED  BY <2>1, <2>2, <2>3 DEF FurtherDown
<1> QED  BY <1>2, <1>3

\* A place inside the line where the innermost call stands.
LEMMA IncludedPlace ==
    ASSUME source \in [File -> Seq(LineType)], NEW at \in Seq(File \X Nat), Len(at) # 0,
           NEW p \in Places, Includes(at, p)
    PROVE  /\ Len(at) <= Limit /\ LineAt(at[Len(at)]).inc \in File
           /\ source[LineAt(at[Len(at)]).inc] # NoFile
           /\ at[Len(at)][2] \in 1 .. Len(source[at[Len(at)][1]])
<1>1. Len(at) \in Nat \ {0} /\ Len(p) \in Nat /\ Len(p) <= Limit + 1 /\ Limit \in Nat
    BY PlaceFacts, LimitAssumption
<1>2. Len(at) < Len(p) /\ \A e \in 1 .. Len(at) : at[e] = p[e]  BY DEF Includes
<1>3. /\ Len(at) \in 1 .. Len(at) /\ Len(at) \in 1 .. Len(p) - 1 /\ Len(at) + 1 \in 1 .. Len(p)
      /\ Len(at) <= Limit /\ Len(at) \in 1 .. Len(p)
    BY <1>1, <1>2
<1>4. p[Len(at)] = at[Len(at)]  BY <1>2, <1>3
<1>5. LineAt(p[Len(at)]).inc = p[Len(at) + 1][1]  BY <1>3, PlaceFacts
<1>6. p[Len(at) + 1][1] \in File /\ source[p[Len(at) + 1][1]] # NoFile  BY <1>3, PlaceFacts
<1>7. p[Len(at)][2] \in 1 .. Len(source[p[Len(at)][1]])  BY <1>3, PlaceFacts
<1> QED  BY <1>3, <1>4, <1>5, <1>6, <1>7

\* Going on to the next line reads the line, and leaves behind what it includes.
LEMMA LineReads ==
    ASSUME source \in [File -> Seq(LineType)], frames \in Seq(Seq(LineType)), NEW at, StandsAt(at), Len(at) # 0,
           NEW at2, Len(at2) = Len(at), \A e \in 1 .. Len(at) - 1 : at2[e] = at[e],
           at2[Len(at)][2] = at[Len(at)][2] + 1, NEW p \in Places
    PROVE  FurtherDown(at2, p) <=> (FurtherDown(at, p) \/ Includes(at, p) \/ p = at)
<1> DEFINE D == Len(at)
<1>1. D \in Nat \ {0} /\ Len(p) \in Nat \ {0} /\ D \in 1 .. D  BY PlaceFacts, StandFacts
<1>2. at[D][2] \in Nat /\ at[D] = <<at[D][1], at[D][2]>>  BY <1>1, StandFacts
<1> HIDE DEF D
<1>3. \A a, b \in Nat : a + 1 > b <=> (a > b \/ a = b)  OBVIOUS
<1>4. ASSUME FurtherDown(at2, p) PROVE FurtherDown(at, p) \/ Includes(at, p) \/ p = at
    <2>1. PICK d \in (1 .. D) \cap (1 .. Len(p)) :
             at2[d][2] > p[d][2] /\ \A e \in 1 .. d - 1 : at2[e] = p[e]
        BY <1>4 DEF FurtherDown, D
    <2>2. d \in Nat /\ \A e \in 1 .. d - 1 : e \in 1 .. D - 1  BY <1>1, <2>1
    <2>3. \A e \in 1 .. d - 1 : at[e] = p[e]  BY <2>1, <2>2 DEF D
    <2>4. CASE d # D
        <3>1. d \in 1 .. D - 1  BY <1>1, <2>1, <2>4
        <3>2. at[d][2] > p[d][2]  BY <2>1, <3>1 DEF D
        <3> QED  BY <2>1, <2>3, <3>2 DEF FurtherDown, D
    <2>5. CASE d = D
        <3>1. p[D][2] \in Nat /\ p[D] = <<p[D][1], p[D][2]>>  BY <2>1, <2>5, PlaceFacts
        <3>2. at[D][2] > p[D][2] \/ at[D][2] = p[D][2]  BY <1>2, <1>3, <2>1, <2>5, <3>1 DEF D
        <3>3. CASE at[D][2] > p[D][2]  BY <2>1, <2>3, <2>5, <3>3 DEF FurtherDown, D
        <3>4. CASE at[D][2] = p[D][2]
            <4>1. p[D][1] = at[D][1]
                <5>1. D \in 1 .. Len(at) /\ D \in 1 .. Len(p) /\ \A e \in 1 .. D - 1 : p[e] = at[e]
                    BY <1>1, <2>1, <2>3, <2>5 DEF D
                <5> QED  BY <5>1, SameFile
            <4>2. p[D] = at[D]  BY <1>2, <3>1, <3>4, <4>1
            <4>3. \A e \in 1 .. D : at[e] = p[e]
                <5>1. \A e \in 1 .. D : e = D \/ e \in 1 .. D - 1  BY <1>1
                <5> QED  BY <2>3, <2>5, <4>2, <5>1
            <4>4. D <= Len(p)  BY <1>1, <2>1, <2>5
            <4>5. CASE D < Len(p)  BY <4>3, <4>5 DEF Includes, D
            <4>6. CASE D = Len(p)
                <5>1. p \in Seq(File \X Nat) /\ at \in Seq(File \X Nat)  BY PlaceFacts, StandFacts
                <5>2. Len(at) = Len(p) /\ \A e \in 1 .. Len(at) : at[e] = p[e]  BY <4>3, <4>6 DEF D
                <5>3. p = at  BY <5>1, <5>2, SeqEqual
                <5> QED  BY <5>3
            <4> QED  BY <1>1, <4>4, <4>5, <4>6
        <3> QED  BY <3>2, <3>3, <3>4
    <2> QED  BY <2>4, <2>5
<1>5. ASSUME FurtherDown(at, p) PROVE FurtherDown(at2, p)
    <2>1. PICK d \in (1 .. D) \cap (1 .. Len(p)) :
             at[d][2] > p[d][2] /\ \A e \in 1 .. d - 1 : at[e] = p[e]
        BY <1>5 DEF FurtherDown, D
    <2>2. d \in Nat /\ \A e \in 1 .. d - 1 : e \in 1 .. D - 1  BY <1>1, <2>1
    <2>3. \A e \in 1 .. d - 1 : at2[e] = p[e]  BY <2>1, <2>2 DEF D
    <2>4. at2[d][2] > p[d][2]
        <3>1. CASE d # D
            <4>1. d \in 1 .. D - 1  BY <1>1, <2>1, <3>1
            <4> QED  BY <2>1, <4>1 DEF D
        <3>2. CASE d = D
            <4>1. p[D][2] \in Nat  BY <2>1, <3>2, PlaceFacts
            <4> QED  BY <1>2, <1>3, <2>1, <3>2, <4>1 DEF D
        <3> QED  BY <3>1, <3>2
    <2> QED  BY <2>1, <2>3, <2>4 DEF FurtherDown, D
<1>6. ASSUME Includes(at, p) \/ p = at PROVE FurtherDown(at2, p)
    <2>1. D <= Len(p) /\ \A e \in 1 .. D : at[e] = p[e]
        BY <1>1, <1>6 DEF Includes, D
    <2>2. D \in (1 .. D) \cap (1 .. Len(p)) /\ \A e \in 1 .. D - 1 : e \in 1 .. D  BY <1>1, <2>1
    <2>3. at2[D][2] > p[D][2]  BY <1>2, <1>3, <2>1, <2>2 DEF D
    <2>4. \A e \in 1 .. D - 1 : at2[e] = p[e]  BY <2>1, <2>2 DEF D
    <2> QED  BY <2>2, <2>3, <2>4 DEF FurtherDown, D
<1> QED  BY <1>4, <1>5, <1>6

\* At the end of a file, everything in it has been read.
LEMMA ReturnReads ==
    ASSUME source \in [File -> Seq(LineType)], frames \in Seq(Seq(LineType)), NEW at, StandsAt(at),
           frames # << >>, Top = << >>,
           NEW at2, Len(at2) = Len(at) - 1, \A e \in 1 .. Len(at) - 1 : at2[e] = at[e], NEW p \in Places
    PROVE  FurtherDown(at, p) <=> (FurtherDown(at2, p) \/ Includes(at2, p))
<1> DEFINE D == Len(at)
<1>1. D \in Nat \ {0} /\ Len(p) \in Nat \ {0} /\ D \in 1 .. D /\ Len(at2) \in Nat
    BY PlaceFacts, StandFacts
<1>2. at[D][2] = Len(source[at[D][1]]) + 1 /\ Len(source[at[D][1]]) \in Nat
    <2>1. /\ at[D][2] \in 1 .. Len(source[at[D][1]]) + 1 /\ Len(source[at[D][1]]) \in Nat
          /\ ~(at[D][2] \in 1 .. Len(source[at[D][1]]))
        BY <1>1, StandFacts
    <2>2. \A a \in Nat : \A b \in 1 .. a + 1 : b \notin 1 .. a => b = a + 1  OBVIOUS
    <2> QED  BY <2>1, <2>2
<1> HIDE DEF D
<1>3. ASSUME FurtherDown(at, p) PROVE FurtherDown(at2, p) \/ Includes(at2, p)
    <2>1. PICK d \in (1 .. D) \cap (1 .. Len(p)) :
             at[d][2] > p[d][2] /\ \A e \in 1 .. d - 1 : at[e] = p[e]
        BY <1>3 DEF FurtherDown, D
    <2>2. d \in Nat /\ \A e \in 1 .. d - 1 : e \in 1 .. D - 1  BY <1>1, <2>1
    <2>3. \A e \in 1 .. d - 1 : at2[e] = p[e]  BY <2>1, <2>2 DEF D
    <2>4. CASE d # D
        <3>1. d \in 1 .. D - 1  BY <1>1, <2>1, <2>4
        <3>2. at2[d][2] > p[d][2]  BY <2>1, <3>1 DEF D
        <3> QED  BY <2>1, <2>3, <3>1, <3>2 DEF FurtherDown, D
    <2>5. CASE d = D
        <3>1. Len(at2) < Len(p)  BY <1>1, <2>1, <2>5 DEF D
        <3> QED  BY <2>3, <2>5, <3>1 DEF Includes, D
    <2> QED  BY <2>4, <2>5
<1>4. ASSUME FurtherDown(at2, p) PROVE FurtherDown(at, p)
    <2>1. PICK d \in (1 .. D - 1) \cap (1 .. Len(p)) :
             at2[d][2] > p[d][2] /\ \A e \in 1 .. d - 1 : at2[e] = p[e]
        BY <1>4 DEF FurtherDown, D
    <2>2. d \in 1 .. D /\ \A e \in 1 .. d - 1 : e \in 1 .. D - 1  BY <1>1, <2>1
    <2>3. at[d][2] > p[d][2] /\ \A e \in 1 .. d - 1 : at[e] = p[e]  BY <2>1, <2>2 DEF D
    <2> QED  BY <2>1, <2>2, <2>3 DEF FurtherDown, D
<1>5. ASSUME Includes(at2, p) PROVE FurtherDown(at, p)
    <2>1. D - 1 < Len(p) /\ \A e \in 1 .. D - 1 : p[e] = at[e]
        BY <1>5 DEF Includes, D
    <2>2. D \in 1 .. Len(p)  BY <1>1, <2>1
    <2>3. p[D][1] = at[D][1]  BY <1>1, <2>1, <2>2, SameFile DEF D
    <2>4. p[D][2] \in 1 .. Len(source[p[D][1]])  BY <2>2, PlaceFacts
    <2>5. \A a \in Nat : \A b \in 1 .. a : a + 1 > b  OBVIOUS
    <2>6. at[D][2] > p[D][2]  BY <1>2, <2>3, <2>4, <2>5
    <2> QED  BY <1>1, <2>1, <2>2, <2>6 DEF FurtherDown, D
<1> QED  BY <1>3, <1>4, <1>5

\* The line of the innermost call changed or done; the calls below stay.
LEMMA ReplaceTop ==
    ASSUME frames \in Seq(Seq(LineType)), frames # << >>, NEW t \in Seq(LineType)
    PROVE  LET calls == Append(Below, t)
           IN  /\ Len(calls) = Len(frames) /\ calls[Len(frames)] = t /\ calls # << >>
               /\ \A d \in 1 .. Len(frames) - 1 : calls[d] = frames[d]
               /\ Len(Below) = Len(frames) - 1
               /\ \A d \in 1 .. Len(frames) - 1 : Below[d] = frames[d]
<1> DEFINE F == Seq(LineType)
<1>1. Below \in Seq(F) /\ Len(frames) \in Nat /\ Len(Below) = Len(frames) - 1
    BY FrameTypes
<1>2. \A d \in 1 .. Len(frames) - 1 : Below[d] = frames[d]
    BY <1>1 DEF Below
<1> HIDE DEF F
<1>3. t \in F /\ frames \in Seq(F)  BY DEF F
<1>4. Len(frames) # 0  BY <1>3
<1>5. /\ Len(Append(Below, t)) = Len(Below) + 1 /\ Append(Below, t)[Len(Below) + 1] = t
      /\ \A d \in 1 .. Len(Below) : Append(Below, t)[d] = Below[d]
      /\ Append(Below, t) # << >>
    <2>1. \A b \in Seq(F) : \A e \in F :
             /\ Len(Append(b, e)) = Len(b) + 1 /\ Append(b, e)[Len(b) + 1] = e
             /\ \A d \in 1 .. Len(b) : Append(b, e)[d] = b[d]
             /\ Append(b, e) # << >>
        BY AppendProperties
    <2> QED  BY <1>1, <1>3, <2>1, Zenon
<1>6. Len(Below) + 1 = Len(frames)  BY <1>1
<1> QED  BY <1>1, <1>2, <1>5, <1>6

\* The include of a line taken out of it.
LEMMA StrippedTop ==
    ASSUME source \in [File -> Seq(LineType)], frames \in Seq(Seq(LineType)), frames # << >>, Top # << >>,
           NEW l, FrameAt(l, Top), Line.inc # None
    PROVE  LET t == <<[Line EXCEPT !.inc = None]>> \o Tail(Top)
           IN  /\ t \in Seq(LineType) /\ t # << >> /\ t[1].inc = None
               /\ FrameAt(l, t) /\ Line = LineAt(l)
<1> DEFINE L == [Line EXCEPT !.inc = None]
           t == <<L>> \o Tail(Top)
           s == source[l[1]]
<1>1. Top \in Seq(LineType) /\ Line \in LineType /\ Tail(Top) \in Seq(LineType) /\ Line = Top[1]
    BY FrameTypes DEF Line
<1>2. L \in LineType /\ L.inc = None
    BY <1>1 DEF LineType
<1>3. /\ l[1] \in File /\ s # NoFile /\ l[2] \in 1 .. Len(s) + 1
      /\ Len(Top) = (Len(s) + 1) - l[2]
      /\ \A n \in 2 .. Len(Top) : Top[n] = s[l[2] + (n - 1)]
      /\ Line \in {s[l[2]], [s[l[2]] EXCEPT !.inc = None]}
    BY <1>1 DEF FrameAt
<1>4. l[2] \in 1 .. Len(s) /\ s[l[2]] \in LineType
    <2>1. Len(s) \in Nat /\ Len(Top) \in Nat \ {0}  BY <1>1, <1>3
    <2>2. \A a \in Nat : \A b \in 1 .. a + 1 : (a + 1) - b # 0 => b \in 1 .. a  OBVIOUS
    <2>3. l[2] \in 1 .. Len(s)  BY <1>3, <2>1, <2>2
    <2>4. s \in Seq(LineType)  BY <1>3
    <2> QED  BY <2>3, <2>4
<1>5. Line = s[l[2]]
    <2>1. \A x \in LineType : [x EXCEPT !.inc = None].inc = None  BY DEF LineType
    <2> QED  BY <1>3, <1>4, <2>1
<1> HIDE DEF L
<1>6. /\ t \in Seq(LineType) /\ t # << >> /\ t[1] = L /\ Len(t) = Len(Top)
      /\ \A n \in 2 .. Len(t) : t[n] = Top[n]
    <2>1. Len(Tail(Top)) = Len(Top) - 1 /\ Len(Top) \in Nat \ {0}
          /\ \A n \in 1 .. Len(Top) - 1 : Tail(Top)[n] = Top[n + 1]
        BY <1>1
    <2>2. /\ t \in Seq(LineType) /\ Len(t) = 1 + Len(Tail(Top)) /\ t[1] = L
          /\ \A n \in 2 .. 1 + Len(Tail(Top)) : t[n] = Tail(Top)[n - 1]
        <3>1. <<L>> \in Seq(LineType) /\ Len(<<L>>) = 1 /\ <<L>>[1] = L  BY <1>2
        <3> QED  BY <1>1, <3>1
    <2>3. Len(t) = Len(Top)  BY <2>1, <2>2
    <2>4. ASSUME NEW n \in 2 .. Len(t) PROVE t[n] = Top[n]
        <3>1. n - 1 \in 1 .. Len(Top) - 1 /\ n \in 2 .. 1 + Len(Tail(Top)) /\ (n - 1) + 1 = n
            BY <2>1, <2>3
        <3> QED  BY <2>1, <2>2, <3>1
    <2>5. t # << >>  BY <2>1, <2>2, <2>3
    <2> QED  BY <2>2, <2>3, <2>4, <2>5
<1> HIDE DEF t
<1>7. FrameAt(l, t)
    <2>1. t[1] = [s[l[2]] EXCEPT !.inc = None]  BY <1>5, <1>6 DEF L
    <2>2. \A n \in 2 .. Len(t) : t[n] = s[l[2] + (n - 1)]  BY <1>3, <1>6
    <2>3. Len(t) = (Len(s) + 1) - l[2]  BY <1>3, <1>6
    <2> HIDE DEF s
    <2> QED  BY <1>3, <2>1, <2>2, <2>3 DEF FrameAt, s
<1> QED  BY <1>2, <1>5, <1>6, <1>7 DEF t, L, LineAt

\* The next line of the file.
LEMMA NextLine ==
    ASSUME source \in [File -> Seq(LineType)], frames \in Seq(Seq(LineType)), frames # << >>, Top # << >>,
           NEW l \in File \X Nat, FrameAt(l, Top)
    PROVE  /\ FrameAt(<<l[1], l[2] + 1>>, Tail(Top))
           /\ l[2] \in 1 .. Len(source[l[1]])
           /\ Line.key = LineAt(l).key /\ Line.value = LineAt(l).value /\ Line.sep = LineAt(l).sep
           /\ Tail(Top) # << >> => Tail(Top)[1] = LineAt(<<l[1], l[2] + 1>>)
<1> DEFINE s == source[l[1]]
<1>1. Top \in Seq(LineType) /\ Tail(Top) \in Seq(LineType) /\ Line = Top[1]
    BY FrameTypes DEF Line
<1>2. /\ l[1] \in File /\ s # NoFile /\ l[2] \in 1 .. Len(s) + 1
      /\ Len(Top) = (Len(s) + 1) - l[2]
      /\ \A n \in 2 .. Len(Top) : Top[n] = s[l[2] + (n - 1)]
      /\ Line \in {s[l[2]], [s[l[2]] EXCEPT !.inc = None]}
    BY <1>1 DEF FrameAt
<1>3. Len(s) \in Nat /\ Len(Top) \in Nat \ {0} /\ l[2] \in Nat  BY <1>1, <1>2
<1>4. l[2] \in 1 .. Len(s) /\ l[2] + 1 \in 1 .. Len(s) + 1
    <2>1. \A a \in Nat : \A b \in 1 .. a + 1 : (a + 1) - b # 0 => b \in 1 .. a /\ b + 1 \in 1 .. a + 1  OBVIOUS
    <2> QED  BY <1>2, <1>3, <2>1
<1>5. s[l[2]] \in LineType
    <2>1. s \in Seq(LineType)  BY <1>2
    <2> QED  BY <1>4, <2>1
<1>6. Line.key = s[l[2]].key /\ Line.value = s[l[2]].value /\ Line.sep = s[l[2]].sep
    <2>1. \A x \in LineType : /\ [x EXCEPT !.inc = None].key = x.key /\ [x EXCEPT !.inc = None].value = x.value
                              /\ [x EXCEPT !.inc = None].sep = x.sep
        BY DEF LineType
    <2> QED  BY <1>2, <1>5, <2>1
<1> DEFINE t == Tail(Top)
<1>7. Len(t) = Len(Top) - 1 /\ \A n \in 1 .. Len(t) : t[n] = Top[n + 1]
    BY <1>1, <1>3
<1> HIDE DEF s, t
<1>8. Len(t) = (Len(s) + 1) - (l[2] + 1)
    BY <1>2, <1>3, <1>7
<1>9. \A n \in 1 .. Len(t) : t[n] = s[(l[2] + 1) + (n - 1)]
    <2> SUFFICES ASSUME NEW n \in 1 .. Len(t) PROVE t[n] = s[(l[2] + 1) + (n - 1)]
        OBVIOUS
    <2>1. n + 1 \in 2 .. Len(Top) /\ l[2] + ((n + 1) - 1) = (l[2] + 1) + (n - 1)
        BY <1>3, <1>7
    <2> QED  BY <1>2, <1>7, <2>1
<1>10. t # << >> => 1 \in 1 .. Len(t) /\ t[1] = s[l[2] + 1]
    <2>1. t # << >> => 1 \in 1 .. Len(t)  BY <1>1 DEF t
    <2>2. (l[2] + 1) + (1 - 1) = l[2] + 1  BY <1>3
    <2> QED  BY <1>9, <2>1, <2>2
<1>11. FrameAt(<<l[1], l[2] + 1>>, t)
    <2>1. \A n \in 2 .. Len(t) : n \in 1 .. Len(t)  BY <1>1 DEF t
    <2>2. <<l[1], l[2] + 1>>[1] = l[1] /\ <<l[1], l[2] + 1>>[2] = l[2] + 1  OBVIOUS
    <2> QED  BY <1>2, <1>4, <1>8, <1>9, <1>10, <2>1, <2>2 DEF FrameAt, s
<1> QED  BY <1>4, <1>6, <1>10, <1>11 DEF s, t, LineAt

\* A call at the beginning of a file.
LEMMA FirstLine ==
    ASSUME source \in [File -> Seq(LineType)], NEW g \in File, source[g] # NoFile
    PROVE  FrameAt(<<g, 1>>, source[g])
<1>1. Len(source[g]) \in Nat  OBVIOUS
<1>2. 1 \in 1 .. Len(source[g]) + 1 /\ Len(source[g]) = (Len(source[g]) + 1) - 1  BY <1>1
<1>3. \A n \in 2 .. Len(source[g]) : 1 + (n - 1) = n  BY <1>1
<1> QED  BY <1>2, <1>3 DEF FrameAt

\* While an object is constructed, its file and separator stay, and the files
\* as they were found.
LEMMA SamePlaces ==
    ASSUME UNCHANGED <<source, m_strConfigFile, cSplitChar>>
    PROVE  /\ Places' = Places
           /\ \A k : Assignments(k)' = Assignments(k)
           /\ \A p : Own(p)' = Own(p)
<1>1. LineNos' = LineNos  BY DEF LineNos
<1>2. \A l : LineAt(l)' = LineAt(l)  BY DEF LineAt
<1>3. Places' = Places  BY <1>1, <1>2 DEF Places
<1>4. \A p : Own(p)' = Own(p)  BY <1>2 DEF Own
<1>5. \A k : Assignments(k)' = Assignments(k)  BY <1>3, <1>4 DEF Assignments
<1> QED  BY <1>3, <1>4, <1>5

\* The calls stand at at2 after a step.
LEMMA StandsStep ==
    ASSUME UNCHANGED <<source, m_strConfigFile>>,
           NEW at2 \in Seq(File \X Nat), Len(at2) = Len(frames'),
           \A d \in 1 .. Len(at2) : FrameAt(at2[d], frames'[d]),
           at2 # << >> => at2[1][1] = m_strConfigFile,
           \A d \in 1 .. Len(at2) - 1 : /\ frames'[d] # << >> /\ frames'[d][1].inc = None
                                        /\ LineAt(at2[d]).inc = at2[d + 1][1]
    PROVE  StandsAt(at2)'
<1>1. \A l : LineAt(l)' = LineAt(l)  BY DEF LineAt
<1>2. \A d \in 1 .. Len(at2) : FrameAt(at2[d], frames[d])'
    <2> SUFFICES ASSUME NEW d \in 1 .. Len(at2) PROVE FrameAt(at2[d], frames[d])'
        OBVIOUS
    <2>1. FrameAt(at2[d], frames'[d])  OBVIOUS
    <2> QED  BY <2>1 DEF FrameAt
<1> QED  BY <1>1, <1>2 DEF StandsAt

\* A step that reads no line.
LEMMA NothingRead ==
    ASSUME UNCHANGED <<source, m_strConfigFile, cSplitChar, m_mapConfig>>, NEW at, NEW at2, StandsAt(at2)',
           \A k \in Key : FromLast(k, {p \in Assignments(k) : ReadBefore(at, p)}),
           \A p \in Places : ReadBefore(at2, p)' <=> ReadBefore(at, p)
    PROVE  LastSoFar'
<1>1. \A k \in Key : FromLast(k, {p \in Assignments(k) : ReadBefore(at2, p)})'
    <2> SUFFICES ASSUME NEW k \in Key PROVE FromLast(k, {p \in Assignments(k) : ReadBefore(at2, p)})'
        OBVIOUS
    <2> DEFINE A == {p \in Assignments(k) : ReadBefore(at, p)}
    <2>1. Assignments(k) \subseteq Places  BY DEF Assignments
    <2>2. {p \in Assignments(k)' : ReadBefore(at2, p)'} = A  BY <2>1, SamePlaces
    <2>3. FromLast(k, A)  OBVIOUS
    <2> HIDE DEF A
    <2>4. /\ k \in DOMAIN m_mapConfig' <=> A # {}
          /\ A # {} => \E p \in A : (\A q \in A \ {p} : Later(p, q)) /\ m_mapConfig'[k] = Own(p)'.value
        BY <2>3, SamePlaces DEF FromLast
    <2> QED  BY <2>2, <2>4 DEF FromLast
<1> QED  BY <1>1 DEF LastSoFar

\* A step that reads one line more.
LEMMA LineRead ==
    ASSUME UNCHANGED <<source, m_strConfigFile, cSplitChar>>, NEW at \in Places, NEW at2, StandsAt(at2)',
           NEW l \in LineType, l.key = Own(at).key, l.value = Own(at).value, l.sep = Own(at).sep,
           IsConfig(m_mapConfig),
           m_mapConfig' = IF HasValue(l, cSplitChar) THEN Assign(m_mapConfig, l) ELSE m_mapConfig,
           \A k \in Key : FromLast(k, {p \in Assignments(k) : ReadBefore(at, p)}),
           \A p \in Places : ReadBefore(at2, p)' <=> (ReadBefore(at, p) \/ p = at)
    PROVE  LastSoFar'
<1>1. HasValue(l, cSplitChar) <=> HasValue(Own(at), cSplitChar)  BY DEF HasValue
<1>2. \A k \in Key : FromLast(k, {p \in Assignments(k) : ReadBefore(at2, p)})'
    <2> SUFFICES ASSUME NEW k \in Key PROVE FromLast(k, {p \in Assignments(k) : ReadBefore(at2, p)})'
        OBVIOUS
    <2> DEFINE A == {p \in Assignments(k) : ReadBefore(at, p)}
               A2 == {p \in Assignments(k)' : ReadBefore(at2, p)'}
    <2>1. Assignments(k) \subseteq Places /\ (at \in Assignments(k) <=> HasValue(l, cSplitChar) /\ l.key = k)
        BY <1>1 DEF Assignments
    <2>2. A2 = A \cup (IF at \in Assignments(k) THEN {at} ELSE {})  BY <2>1, SamePlaces
    <2>3. FromLast(k, A)  OBVIOUS
    <2>4. \A p \in A : Later(at, p)  BY DEF ReadBefore, Later
    <2> SUFFICES /\ k \in DOMAIN m_mapConfig' <=> A2 # {}
                 /\ A2 # {} => \E p \in A2 : (\A q \in A2 \ {p} : Later(p, q)) /\ m_mapConfig'[k] = Own(p)'.value
        BY DEF FromLast
    <2> HIDE DEF A, A2
    <2>5. CASE at \in Assignments(k)
        <3>1. A2 = A \cup {at}  BY <2>2, <2>5
        <3>2. m_mapConfig' = Assign(m_mapConfig, l) /\ l.key = k /\ l.key # None  BY <2>1, <2>5 DEF HasValue
        <3>3. k \in DOMAIN m_mapConfig' /\ m_mapConfig'[k] = l.value  BY <3>2 DEF Assign
        <3>4. m_mapConfig'[k] = Own(at)'.value  BY <3>3, SamePlaces
        <3> QED  BY <2>4, <3>1, <3>3, <3>4
    <2>6. CASE at \notin Assignments(k)
        <3>1. A2 = A  BY <2>2, <2>6
        <3>2. (k \in DOMAIN m_mapConfig' <=> k \in DOMAIN m_mapConfig)
              /\ (k \in DOMAIN m_mapConfig => m_mapConfig'[k] = m_mapConfig[k])
            <4>1. CASE HasValue(l, cSplitChar)
                <5>1. l.key # k /\ l.key # None /\ m_mapConfig' = Assign(m_mapConfig, l)
                    BY <2>1, <2>6, <4>1 DEF HasValue
                <5> QED  BY <5>1 DEF Assign
            <4>2. CASE ~HasValue(l, cSplitChar)  BY <4>2
            <4> QED  BY <4>1, <4>2
        <3>3. /\ k \in DOMAIN m_mapConfig <=> A # {}
              /\ A # {} => \E p \in A : (\A q \in A \ {p} : Later(p, q)) /\ m_mapConfig[k] = Own(p).value
            BY <2>3 DEF FromLast
        <3> QED  BY <3>1, <3>2, <3>3, SamePlaces
    <2> QED  BY <2>5, <2>6
<1> QED  BY <1>2 DEF LastSoFar

\* The calls with the include of the innermost line done: nobody has moved.
LEMMA AfterInclude ==
    ASSUME source \in [File -> Seq(LineType)], frames \in Seq(Seq(LineType)), NEW at, StandsAt(at),
           frames # << >>, Top # << >>, Line.inc # None
    PROVE  /\ Len(at) \in Nat \ {0} /\ at \in Seq(File \X Nat)
           /\ IncludeDone \in Seq(Seq(LineType)) /\ Len(IncludeDone) = Len(at)
           /\ \A d \in 1 .. Len(at) : /\ FrameAt(at[d], IncludeDone[d])
                                      /\ IncludeDone[d] # << >> /\ IncludeDone[d][1].inc = None
           /\ \A d \in 1 .. Len(at) - 1 : LineAt(at[d]).inc = at[d + 1][1]
           /\ at[1][1] = m_strConfigFile
           /\ LineAt(at[Len(at)]).inc = Line.inc /\ Line.inc \in File
<1> DEFINE D == Len(at)
           t == <<[Line EXCEPT !.inc = None]>> \o Tail(Top)
<1>1. /\ D \in Nat \ {0} /\ D = Len(frames) /\ D \in 1 .. D /\ Top = frames[D]
      /\ at \in Seq(File \X Nat) /\ at # << >>
    <2>1. Len(at) \in Nat /\ Len(at) = Len(frames) /\ (frames = << >> <=> Len(at) = 0) /\ at \in Seq(File \X Nat)
          /\ (frames # << >> => Len(at) \in 1 .. Len(at) /\ Top = frames[Len(at)])
        BY StandFacts
    <2>2. Len(<< >>) = 0  OBVIOUS
    <2> QED  BY <2>1, <2>2
<1>2. FrameAt(at[D], Top)  BY <1>1 DEF StandsAt
<1>3. t \in Seq(LineType) /\ t # << >> /\ t[1].inc = None /\ FrameAt(at[D], t) /\ Line = LineAt(at[D])
    BY <1>2, StrippedTop
<1>4. /\ Len(IncludeDone) = D /\ IncludeDone[D] = t
      /\ \A d \in 1 .. D - 1 : IncludeDone[d] = frames[d]
      /\ IncludeDone \in Seq(Seq(LineType))
    <2>1. IncludeDone = Append(Below, t)  BY DEF IncludeDone
    <2>2. IncludeDone \in Seq(Seq(LineType))  BY FrameTypes
    <2> HIDE DEF t
    <2> QED  BY <1>1, <1>3, <2>1, <2>2, ReplaceTop
<1>5. Line.inc \in File
    <2>1. Line \in LineType  BY FrameTypes
    <2> QED  BY <2>1 DEF LineType
<1>6. /\ \A d \in 1 .. D - 1 : /\ frames[d] # << >> /\ frames[d][1].inc = None
                               /\ LineAt(at[d]).inc = at[d + 1][1] /\ FrameAt(at[d], frames[d])
      /\ at[1][1] = m_strConfigFile
    <2>1. \A d \in 1 .. D - 1 : d \in 1 .. D  BY <1>1
    <2> QED  BY <1>1, <2>1 DEF StandsAt
<1>7. \A d \in 1 .. D : d = D \/ d \in 1 .. D - 1  BY <1>1
<1> HIDE DEF t, D
<1>8. \A d \in 1 .. D : /\ FrameAt(at[d], IncludeDone[d])
                        /\ IncludeDone[d] # << >> /\ IncludeDone[d][1].inc = None
    BY <1>3, <1>4, <1>6, <1>7
<1> QED  BY <1>1, <1>3, <1>4, <1>5, <1>6, <1>8 DEF D

\* A file that does not open, or too many files inside one another: no place is
\* inside the line.
LEMMA IncludeSkipped ==
    ASSUME TypeInv, DepthInv, LoadInv, AtLine, Line.inc # None, frames' = IncludeDone,
           UNCHANGED <<source, m_strConfigFile, cSplitChar, m_mapConfig>>,
           ~Readable(Line.inc) \/ m_nRecurseCount > Limit
    PROVE  LastSoFar'
<1>1. pc = "load" /\ frames # << >> /\ Top # << >>  BY DEF AtLine
<1>2. source \in [File -> Seq(LineType)] /\ frames \in Seq(Seq(LineType)) /\ source = files
    BY <1>1 DEF TypeInv, LoadInv
<1>3. PICK at : StandsAt(at) /\ \A k \in Key : FromLast(k, {p \in Assignments(k) : ReadBefore(at, p)})
    BY <1>1 DEF LoadInv, LastSoFar
<1>4. /\ Len(at) \in Nat \ {0} /\ at \in Seq(File \X Nat) /\ Len(IncludeDone) = Len(at)
      /\ \A d \in 1 .. Len(at) : /\ FrameAt(at[d], IncludeDone[d])
                                 /\ IncludeDone[d] # << >> /\ IncludeDone[d][1].inc = None
      /\ \A d \in 1 .. Len(at) - 1 : LineAt(at[d]).inc = at[d + 1][1]
      /\ at[1][1] = m_strConfigFile /\ LineAt(at[Len(at)]).inc = Line.inc
    BY <1>1, <1>2, <1>3, AfterInclude
<1>5. StandsAt(at)'
    <2>1. \A d \in 1 .. Len(at) : FrameAt(at[d], frames'[d])  BY <1>4
    <2>2. \A d \in 1 .. Len(at) - 1 : /\ frames'[d] # << >> /\ frames'[d][1].inc = None
                                      /\ LineAt(at[d]).inc = at[d + 1][1]
        <3>1. \A d \in 1 .. Len(at) - 1 : d \in 1 .. Len(at)  BY <1>4
        <3> QED  BY <1>4, <3>1
    <2> QED  BY <1>4, <2>1, <2>2, StandsStep
<1>6. ASSUME NEW p \in Places, Includes(at, p) PROVE FALSE
    <2>1. Len(at) <= Limit /\ source[Line.inc] # NoFile
        BY <1>2, <1>4, <1>6, IncludedPlace
    <2>2. m_nRecurseCount = Len(at)  BY <1>3 DEF DepthInv, CountIsDepth, DepthBound, StandsAt
    <2>3. ~(m_nRecurseCount > Limit)  BY <1>4, <2>1, <2>2, LimitAssumption
    <2> QED  BY <1>2, <2>1, <2>3 DEF Readable
<1>7. \A p \in Places : ReadBefore(at, p)' <=> ReadBefore(at, p)  BY <1>6 DEF ReadBefore
<1> QED  BY <1>3, <1>5, <1>7, NothingRead

\* A call of LoadConfig for the file that a line includes.
LEMMA IncludeLast ==
    ASSUME TypeInv, DepthInv, LoadInv, Include
    PROVE  LastSoFar'
<1>1. /\ AtLine /\ pc = "load" /\ frames # << >> /\ Top # << >> /\ Line.inc # None
      /\ Enter(Line.inc, IncludeDone, m_nRecurseCount)
      /\ UNCHANGED <<source, m_strConfigFile, cSplitChar, m_mapConfig>>
    BY DEF Include, AtLine, object
<1>2. source \in [File -> Seq(LineType)] /\ frames \in Seq(Seq(LineType)) /\ source = files
    BY <1>1 DEF TypeInv, LoadInv
<1>3. PICK at : StandsAt(at) /\ \A k \in Key : FromLast(k, {p \in Assignments(k) : ReadBefore(at, p)})
    BY <1>1 DEF LoadInv, LastSoFar
<1> DEFINE D == Len(at)
<1>4. /\ D \in Nat \ {0} /\ at \in Seq(File \X Nat)
      /\ IncludeDone \in Seq(Seq(LineType)) /\ Len(IncludeDone) = D
      /\ \A d \in 1 .. D : /\ FrameAt(at[d], IncludeDone[d])
                           /\ IncludeDone[d] # << >> /\ IncludeDone[d][1].inc = None
      /\ \A d \in 1 .. D - 1 : LineAt(at[d]).inc = at[d + 1][1]
      /\ at[1][1] = m_strConfigFile
      /\ LineAt(at[D]).inc = Line.inc /\ Line.inc \in File
    BY <1>1, <1>2, <1>3, AfterInclude
<1>5. ~IncludeIsDone  BY <1>1 DEF IncludeIsDone
<1>6. PICK g \in File : g = Line.inc  BY <1>4
<1> HIDE DEF D
<1>7. CASE ~Readable(g)
    <2>1. frames' = IncludeDone  BY <1>1, <1>6, <1>7 DEF Enter
    <2> QED  BY <1>1, <1>6, <1>7, <2>1, IncludeSkipped
<1>8. CASE Readable(g)
    <2> DEFINE at2 == Append(at, <<g, 1>>)
    <2>1. frames' = Append(IncludeDone, source[g]) /\ source[g] # NoFile
        BY <1>1, <1>2, <1>6, <1>8 DEF Enter, Readable
    <2>2. source[g] \in Seq(LineType)  BY <1>2
    <2>3. /\ Len(frames') = D + 1 /\ frames'[D + 1] = source[g] /\ frames' # << >>
          /\ \A d \in 1 .. D : frames'[d] = IncludeDone[d]
        <3> DEFINE F == Seq(LineType)
        <3> HIDE DEF F
        <3>1. source[g] \in F /\ IncludeDone \in Seq(F)  BY <1>4, <2>2 DEF F
        <3>2. \A b \in Seq(F) : \A e \in F :
                 /\ Len(Append(b, e)) = Len(b) + 1 /\ Append(b, e)[Len(b) + 1] = e
                 /\ \A d \in 1 .. Len(b) : Append(b, e)[d] = b[d]
                 /\ Append(b, e) # << >>
            BY AppendProperties
        <3> QED  BY <1>4, <2>1, <3>1, <3>2, Zenon
    <2>4. /\ at2 \in Seq(File \X Nat) /\ Len(at2) = D + 1 /\ at2[D + 1] = <<g, 1>>
          /\ \A d \in 1 .. D : at2[d] = at[d]
        <3>1. <<g, 1>> \in File \X Nat  OBVIOUS
        <3> DEFINE S == File \X Nat
        <3>2. at \in Seq(S) /\ <<g, 1>> \in S  BY <1>4, <3>1
        <3> HIDE DEF S
        <3>3. /\ at2 \in Seq(S) /\ Len(at2) = Len(at) + 1 /\ at2[Len(at) + 1] = <<g, 1>>
              /\ \A d \in 1 .. Len(at) : at2[d] = at[d]
            BY <3>2, AppendProperties
        <3> QED  BY <3>3 DEF D, S
    <2> HIDE DEF at2
    <2>5. StandsAt(at2)'
        <3>1. \A d \in 1 .. Len(at2) : FrameAt(at2[d], frames'[d])
            <4>1. FrameAt(<<g, 1>>, source[g])  BY <1>2, <2>1, FirstLine
            <4>2. \A d \in 1 .. D : FrameAt(at2[d], frames'[d])  BY <1>4, <2>3, <2>4
            <4>3. \A d \in 1 .. D + 1 : d = D + 1 \/ d \in 1 .. D  BY <1>4
            <4> QED  BY <2>3, <2>4, <4>1, <4>2, <4>3
        <3>2. at2[1][1] = m_strConfigFile
            <4>1. 1 \in 1 .. D  BY <1>4
            <4> QED  BY <1>4, <2>4, <4>1
        <3>3. ASSUME NEW d \in 1 .. D
              PROVE  /\ frames'[d] # << >> /\ frames'[d][1].inc = None
                     /\ LineAt(at2[d]).inc = at2[d + 1][1]
            <4>1. frames'[d] # << >> /\ frames'[d][1].inc = None /\ at2[d] = at[d]  BY <1>4, <2>3, <2>4
            <4>2. CASE d = D  BY <1>4, <1>6, <2>4, <4>1, <4>2
            <4>3. CASE d # D
                <5>0. \A n \in Nat : \A e \in 1 .. n : e # n => e \in 1 .. n - 1 /\ e + 1 \in 1 .. n  OBVIOUS
                <5>1. d \in 1 .. D - 1 /\ d + 1 \in 1 .. D
                    <6>1. D \in Nat  BY <1>4
                    <6> QED  BY <4>3, <5>0, <6>1, Zenon
                <5>2. at2[d + 1] = at[d + 1]  BY <2>4, <5>1
                <5> QED  BY <1>4, <4>1, <5>1, <5>2
            <4> QED  BY <4>2, <4>3
        <3>4. Len(at2) - 1 = D  BY <1>4, <2>4
        <3>5. \A d \in 1 .. Len(at2) - 1 : /\ frames'[d] # << >> /\ frames'[d][1].inc = None
                                           /\ LineAt(at2[d]).inc = at2[d + 1][1]
            BY <3>3, <3>4
        <3>6. at2 \in Seq(File \X Nat) /\ Len(at2) = Len(frames')  BY <2>3, <2>4
        <3>7. UNCHANGED <<source, m_strConfigFile>>  BY <1>1
        <3> QED  BY <3>1, <3>2, <3>5, <3>6, <3>7, StandsStep
    <2>6. ASSUME NEW p \in Places PROVE ReadBefore(at2, p)' <=> ReadBefore(at, p)
        <3>1. at2[D + 1][2] = 1 /\ Len(at2) # 0  BY <1>4, <2>4
        <3>2. FurtherDown(at2, p) <=> FurtherDown(at, p)
            BY <1>2, <1>3, <2>4, <3>1, EnterReads DEF D
        <3>3. ASSUME Includes(at2, p) PROVE ~IncludeIsDone'
            <4>1. LineAt(at2[Len(at2)]).inc \in File  BY <1>2, <2>4, <3>1, <3>3, IncludedPlace
            <4>2. at2[Len(at2)] = <<g, 1>>  BY <2>4
            <4>3. LineAt(<<g, 1>>) = source[g][1]  BY DEF LineAt
            <4>4. source[g][1].inc # None  BY <4>1, <4>2, <4>3, NoneAssumption
            <4>5. Top' = source[g] /\ Line' = Head(source[g])  BY <2>3 DEF Top, Line
            <4>6. Top' # << >> => Line' = source[g][1]  BY <2>2, <4>5
            <4> QED  BY <2>3, <4>4, <4>6 DEF IncludeIsDone
        <3> QED  BY <1>5, <3>2, <3>3 DEF ReadBefore
    <2> QED  BY <1>1, <1>3, <2>5, <2>6, NothingRead
<1> QED  BY <1>7, <1>8

\* The limit refuses the include; what the line assigns is still to come.
LEMMA IncludeRefusedLast ==
    ASSUME TypeInv, DepthInv, LoadInv, IncludeRefused
    PROVE  LastSoFar'
<1>1. /\ AtLine /\ Line.inc # None /\ m_nRecurseCount > Limit /\ frames' = IncludeDone
      /\ UNCHANGED <<source, m_strConfigFile, cSplitChar, m_mapConfig>>
    BY DEF IncludeRefused, object
<1> QED  BY <1>1, IncludeSkipped

\* The calls stand at a place, when the innermost one is not at the end of its file.
LEMMA AtIsPlace ==
    ASSUME TypeInv, DepthInv, source \in [File -> Seq(LineType)], NEW at, StandsAt(at),
           frames # << >>, Top # << >>
    PROVE  at \in Places
<1> DEFINE D == Len(at)
<1>1. frames \in Seq(Seq(LineType)) /\ m_nRecurseCount = Len(frames) /\ Len(frames) <= Limit + 1
    BY DEF TypeInv, DepthInv, CountIsDepth, DepthBound
<1>2. /\ D \in Nat \ {0} /\ D = Len(frames) /\ at \in Seq(File \X Nat)
      /\ \A d \in 1 .. D : /\ at[d] = <<at[d][1], at[d][2]>> /\ at[d][1] \in File /\ source[at[d][1]] # NoFile
                           /\ frames[d] # << >> <=> at[d][2] \in 1 .. Len(source[at[d][1]])
      /\ D \in 1 .. D /\ Top = frames[D]
    BY <1>1, StandFacts
<1>3. /\ at[1][1] = m_strConfigFile
      /\ \A d \in 1 .. D - 1 : frames[d] # << >> /\ LineAt(at[d]).inc = at[d + 1][1]
    <2>1. at # << >>  BY <1>2
    <2> QED  BY <2>1 DEF StandsAt
<1> HIDE DEF D
<1>4. \A d \in 1 .. D : frames[d] # << >>
    <2>1. \A d \in 1 .. D : d = D \/ d \in 1 .. D - 1  BY <1>2
    <2> QED  BY <1>2, <1>3, <2>1
<1>5. \A d \in 1 .. D : at[d] \in LineNos
    <2>1. \A f \in File : source[f] # NoFile => \A k \in 1 .. Len(source[f]) : <<f, k>> \in LineNos
        BY DEF LineNos
    <2> SUFFICES ASSUME NEW d \in 1 .. D PROVE at[d] \in LineNos  OBVIOUS
    <2>2. /\ at[d] = <<at[d][1], at[d][2]>> /\ at[d][1] \in File /\ source[at[d][1]] # NoFile
          /\ at[d][2] \in 1 .. Len(source[at[d][1]])
        BY <1>2, <1>4
    <2>3. <<at[d][1], at[d][2]>> \in LineNos  BY <2>1, <2>2
    <2> QED  BY <2>2, <2>3, Zenon
<1>6. at \in [1 .. D -> LineNos]  BY <1>2, <1>5 DEF D
<1>7. D \in 1 .. Limit + 1  BY <1>1, <1>2, LimitAssumption
<1> QED  BY <1>3, <1>6, <1>7 DEF Places, D

\* The rest of a line: the assignment, if there is one, and on to the next line.
LEMMA LineDoneLast ==
    ASSUME TypeInv, DepthInv, LoadInv, LineDone
    PROVE  LastSoFar'
<1>1. /\ pc = "load" /\ frames # << >> /\ Top # << >> /\ Line.inc = None
      /\ m_mapConfig' = IF HasValue(Line, cSplitChar) THEN Assign(m_mapConfig, Line) ELSE m_mapConfig
      /\ frames' = Append(Below, Tail(Top))
      /\ UNCHANGED <<source, m_strConfigFile, cSplitChar>>
    BY DEF LineDone, AtLine, object
<1>2. source \in [File -> Seq(LineType)] /\ frames \in Seq(Seq(LineType)) /\ IsConfig(m_mapConfig)
    BY DEF TypeInv, LoadInv
<1>3. PICK at : StandsAt(at) /\ \A k \in Key : FromLast(k, {p \in Assignments(k) : ReadBefore(at, p)})
    BY <1>1 DEF LoadInv, LastSoFar
<1> DEFINE D == Len(at)
<1>4. /\ D \in Nat \ {0} /\ D = Len(frames) /\ at \in Seq(File \X Nat) /\ D \in 1 .. D /\ Top = frames[D]
      /\ at[D] = <<at[D][1], at[D][2]>> /\ at[D][1] \in File /\ at[D][2] \in Nat
    BY <1>1, <1>2, <1>3, StandFacts
<1>5. /\ \A d \in 1 .. D : FrameAt(at[d], frames[d])
      /\ at[1][1] = m_strConfigFile
      /\ \A d \in 1 .. D - 1 : /\ frames[d] # << >> /\ frames[d][1].inc = None
                               /\ LineAt(at[d]).inc = at[d + 1][1]
    BY <1>3, <1>4 DEF StandsAt
<1> HIDE DEF D
<1>6. at \in Places  BY <1>1, <1>2, <1>3, AtIsPlace
<1>7. IncludeIsDone  BY <1>1 DEF IncludeIsDone
<1>8. Top \in Seq(LineType) /\ Tail(Top) \in Seq(LineType) /\ Line \in LineType  BY <1>1, <1>2, FrameTypes DEF Line
<1>9. PICK l \in LineType : l = Line  BY <1>8
<1> DEFINE next == <<at[D][1], at[D][2] + 1>>
           at2 == [e \in 1 .. D |-> IF e = D THEN next ELSE at[e]]
<1>10. /\ FrameAt(next, Tail(Top)) /\ l.key = LineAt(at[D]).key /\ l.value = LineAt(at[D]).value
       /\ l.sep = LineAt(at[D]).sep /\ (Tail(Top) # << >> => Tail(Top)[1] = LineAt(next))
    <2>1. FrameAt(at[D], Top)  BY <1>4, <1>5
    <2>2. at[D] \in File \X Nat  BY <1>4
    <2> QED  BY <1>1, <1>2, <1>9, <2>1, <2>2, NextLine
<1>11. /\ Len(frames') = D /\ frames'[D] = Tail(Top) /\ frames' # << >>
       /\ \A d \in 1 .. D - 1 : frames'[d] = frames[d]
    BY <1>1, <1>2, <1>4, <1>8, ReplaceTop
<1>12. /\ at2 \in Seq(File \X Nat) /\ Len(at2) = D /\ at2[D] = next
       /\ \A d \in 1 .. D - 1 : at2[d] = at[d]
    <2>1. next \in File \X Nat /\ \A d \in 1 .. D : at[d] \in File \X Nat  BY <1>4 DEF D
    <2> DEFINE S == File \X Nat
    <2>2. \A d \in 1 .. D : at2[d] \in S  BY <2>1
    <2>3. \A d \in 1 .. D - 1 : d # D /\ d \in 1 .. D  BY <1>4
    <2> HIDE DEF S, next
    <2>4. at2 \in Seq(S) /\ Len(at2) = D  BY <1>4, <2>2
    <2> QED  BY <1>4, <2>3, <2>4 DEF S
<1> HIDE DEF at2, next
<1>13. StandsAt(at2)'
    <2>1. \A d \in 1 .. D : d = D \/ d \in 1 .. D - 1  BY <1>4
    <2>2. \A d \in 1 .. D - 1 : d \in 1 .. D  BY <1>4
    <2>3. \A d \in 1 .. D : FrameAt(at2[d], frames'[d])
        BY <1>5, <1>10, <1>11, <1>12, <2>1, <2>2
    <2>4. at2[1][1] = m_strConfigFile
        <3>1. CASE D = 1  BY <1>5, <1>12, <3>1 DEF next
        <3>2. CASE D # 1
            <4>1. 1 \in 1 .. D - 1  BY <1>4, <3>2
            <4> QED  BY <1>5, <1>12, <4>1
        <3> QED  BY <3>1, <3>2
    <2>5. ASSUME NEW d \in 1 .. D - 1
          PROVE  /\ frames'[d] # << >> /\ frames'[d][1].inc = None /\ LineAt(at2[d]).inc = at2[d + 1][1]
        <3>1. at2[d + 1][1] = at[d + 1][1]
            <4>1. d + 1 \in 1 .. D  BY <1>4
            <4> QED  BY <1>12, <2>1, <4>1, SMTT(30) DEF next
        <3> QED  BY <1>5, <1>11, <1>12, <3>1
    <2> QED  BY <1>1, <1>11, <1>12, <2>3, <2>4, <2>5, StandsStep
<1>14. ASSUME NEW p \in Places PROVE ReadBefore(at2, p)' <=> (ReadBefore(at, p) \/ p = at)
    <2>1. FurtherDown(at2, p) <=> (FurtherDown(at, p) \/ Includes(at, p) \/ p = at)
        <3>1. Len(at) # 0 /\ at2[Len(at)][2] = at[Len(at)][2] + 1  BY <1>4, <1>12 DEF D, next
        <3>2. Len(at2) = Len(at) /\ \A e \in 1 .. Len(at) - 1 : at2[e] = at[e]  BY <1>12 DEF D
        <3> QED  BY <1>2, <1>3, <3>1, <3>2, LineReads
    <2>2. ASSUME Includes(at2, p) PROVE ~IncludeIsDone'
        <3>1. LineAt(next).inc \in File
            <4>1. Len(at2) # 0 /\ at2[Len(at2)] = next  BY <1>4, <1>12
            <4> QED  BY <1>2, <1>12, <2>2, <4>1, IncludedPlace
        <3>2. Top' = Tail(Top) /\ Line' = Head(Tail(Top))  BY <1>11 DEF Top, Line
        <3>3. Tail(Top) # << >> => Line' = LineAt(next)
            <4>1. \A s \in Seq(LineType) : s # << >> => Head(s) = s[1]  OBVIOUS
            <4> QED  BY <1>8, <1>10, <3>2, <4>1
        <3> QED  BY <1>11, <3>1, <3>2, <3>3, NoneAssumption DEF IncludeIsDone
    <2> QED  BY <1>7, <2>1, <2>2 DEF ReadBefore
<1>15. l.key = Own(at).key /\ l.value = Own(at).value /\ l.sep = Own(at).sep
    BY <1>10 DEF Own, D
<1> QED  BY <1>1, <1>2, <1>3, <1>6, <1>9, <1>13, <1>14, <1>15, LineRead

\* The end of a file: the call that included it has done its include.
LEMMA ReturnLast ==
    ASSUME TypeInv, DepthInv, LoadInv, LoadConfigReturns
    PROVE  LastSoFar'
<1>1. /\ pc = "load" /\ frames # << >> /\ Top = << >> /\ frames' = Below
      /\ UNCHANGED <<source, m_strConfigFile, cSplitChar, m_mapConfig>>
    BY DEF LoadConfigReturns, object
<1>2. source \in [File -> Seq(LineType)] /\ frames \in Seq(Seq(LineType))
    BY DEF TypeInv, LoadInv
<1>3. PICK at : StandsAt(at) /\ \A k \in Key : FromLast(k, {p \in Assignments(k) : ReadBefore(at, p)})
    BY <1>1 DEF LoadInv, LastSoFar
<1> DEFINE D == Len(at)
           at2 == [e \in 1 .. D - 1 |-> at[e]]
<1>4. D \in Nat \ {0} /\ D = Len(frames) /\ at \in Seq(File \X Nat)
    BY <1>1, <1>2, <1>3, StandFacts
<1>5. /\ \A d \in 1 .. D : FrameAt(at[d], frames[d])
      /\ at[1][1] = m_strConfigFile
      /\ \A d \in 1 .. D - 1 : /\ frames[d] # << >> /\ frames[d][1].inc = None
                               /\ LineAt(at[d]).inc = at[d + 1][1]
    <2>1. at # << >>  BY <1>4
    <2> QED  BY <1>3, <2>1 DEF StandsAt
<1>6. Len(frames') = D - 1 /\ \A d \in 1 .. D - 1 : frames'[d] = frames[d]
    <2>1. << >> \in Seq(LineType)  OBVIOUS
    <2> QED  BY <1>1, <1>2, <1>4, <2>1, ReplaceTop
<1>7. at2 \in Seq(File \X Nat) /\ Len(at2) = D - 1 /\ \A e \in 1 .. D - 1 : at2[e] = at[e]
    <2> DEFINE S == File \X Nat
    <2>1. \A d \in 1 .. D - 1 : d \in 1 .. D  BY <1>4
    <2>2. at \in Seq(S)  BY <1>4
    <2> HIDE DEF S
    <2>3. \A d \in 1 .. D - 1 : at2[d] \in S  BY <2>1, <2>2
    <2>4. D - 1 \in Nat  BY <1>4
    <2>5. at2 \in Seq(S) /\ Len(at2) = D - 1  BY <2>3, <2>4
    <2> QED  BY <2>5 DEF S
<1> HIDE DEF D, at2
<1>8. StandsAt(at2)'
    <2>1. \A d \in 1 .. D - 1 : d \in 1 .. D  BY <1>4
    <2>2. \A d \in 1 .. D - 1 : FrameAt(at2[d], frames'[d])  BY <1>5, <1>6, <1>7, <2>1
    <2>3. at2 # << >> => at2[1][1] = m_strConfigFile
        <3>1. at2 # << >> => 1 \in 1 .. D - 1  BY <1>4, <1>7
        <3> QED  BY <1>5, <1>7, <3>1
    <2>4. \A d \in 1 .. (D - 1) - 1 : d \in 1 .. D - 1 /\ d + 1 \in 1 .. D - 1  BY <1>4
    <2>5. \A d \in 1 .. (D - 1) - 1 : /\ frames'[d] # << >> /\ frames'[d][1].inc = None
                                      /\ LineAt(at2[d]).inc = at2[d + 1][1]
        BY <1>5, <1>6, <1>7, <2>4
    <2> QED  BY <1>1, <1>6, <1>7, <2>2, <2>3, <2>5, StandsStep
<1>9. IncludeIsDone'
    <2>1. CASE D = 1
        <3>1. frames' \in Seq(Seq(LineType)) /\ Len(frames') = 0  BY <1>1, <1>2, <1>6, <2>1, FrameTypes
        <3> QED  BY <3>1 DEF IncludeIsDone
    <2>2. CASE D # 1
        <3>1. D - 1 \in 1 .. D - 1 /\ D - 1 \in 1 .. Len(frames)  BY <1>4, <2>2
        <3>2. Top' = frames[D - 1] /\ Line' = Head(frames[D - 1])  BY <1>6, <3>1 DEF Top, Line
        <3>3. frames[D - 1] # << >> /\ frames[D - 1][1].inc = None  BY <1>5, <3>1
        <3>4. frames[D - 1] \in Seq(LineType)
            <4> DEFINE F == Seq(LineType)
            <4>1. frames \in Seq(F)  BY <1>2
            <4> HIDE DEF F
            <4>2. frames[D - 1] \in F  BY <3>1, <4>1
            <4> QED  BY <4>2 DEF F
        <3>5. \A s \in Seq(LineType) : s # << >> => Head(s) = s[1]  OBVIOUS
        <3> QED  BY <3>2, <3>3, <3>4, <3>5 DEF IncludeIsDone
    <2> QED  BY <2>1, <2>2
<1>10. ASSUME NEW p \in Places PROVE ReadBefore(at2, p)' <=> ReadBefore(at, p)
    <2>1. FurtherDown(at, p) <=> (FurtherDown(at2, p) \/ Includes(at2, p))
        <3>1. Len(at2) = Len(at) - 1 /\ \A e \in 1 .. Len(at) - 1 : at2[e] = at[e]  BY <1>7 DEF D
        <3> QED  BY <1>1, <1>2, <1>3, <3>1, ReturnReads
    <2>2. ~IncludeIsDone  BY <1>1 DEF IncludeIsDone
    <2> QED  BY <1>9, <2>1, <2>2 DEF ReadBefore
<1> QED  BY <1>1, <1>3, <1>8, <1>10, NothingRead

\* A new object has read nothing: if its file opens, it is at the first line; if
\* it does not, there is no line to read.
LEMMA BeginLast ==
    ASSUME TypeInv, NEW f \in File, NEW ch \in Split, CConfigInfo(f, ch)
    PROVE  LastSoFar'
<1>1. /\ source' = files /\ m_strConfigFile' = f /\ m_mapConfig' = << >> /\ Enter(f, << >>, 0)
      /\ files \in [File -> Seq(LineType)]
    BY DEF CConfigInfo, TypeInv
<1>2. \A p \in Places' : /\ Len(p) \in Nat \ {0} /\ p[1][1] = f
                         /\ files[f] # NoFile /\ p[1][2] \in Nat \ {0}
                         /\ Len(p) > 1 => LineAt(p[1])'.inc \in File
    <2> SUFFICES ASSUME NEW p \in Places'
                 PROVE  /\ Len(p) \in Nat \ {0} /\ p[1][1] = f
                        /\ files[f] # NoFile /\ p[1][2] \in Nat \ {0}
                        /\ Len(p) > 1 => LineAt(p[1])'.inc \in File
        OBVIOUS
    <2>1. PICK n \in 1 .. Limit + 1 : p \in [1 .. n -> LineNos']  BY DEF Places
    <2>2. Limit \in Nat /\ n \in Nat \ {0}  BY LimitAssumption
    <2>3. Len(p) = n /\ \A d \in 1 .. n : p[d] \in LineNos'  BY <2>1, <2>2
    <2>4. \A l \in LineNos' : l[1] \in File /\ files[l[1]] # NoFile /\ l[2] \in Nat \ {0}
        <3> SUFFICES ASSUME NEW g \in File, files[g] # NoFile, NEW k \in 1 .. Len(files[g])
                     PROVE  k \in Nat \ {0}
            BY <1>1 DEF LineNos
        <3>1. Len(files[g]) \in Nat  BY <1>1
        <3> QED  BY <3>1
    <2>5. p[1][1] = f /\ \A d \in 1 .. Len(p) - 1 : LineAt(p[d])'.inc = p[d + 1][1]  BY <1>1 DEF Places
    <2>6. p[1] \in LineNos'  BY <2>2, <2>3
    <2>7. Len(p) > 1 => LineAt(p[1])'.inc \in File
        <3> SUFFICES ASSUME Len(p) > 1 PROVE LineAt(p[1])'.inc \in File  OBVIOUS
        <3>1. 1 \in 1 .. Len(p) - 1 /\ 2 \in 1 .. n /\ 1 + 1 = 2  BY <2>2, <2>3
        <3>2. p[2][1] \in File  BY <2>3, <2>4, <3>1
        <3>3. LineAt(p[1])'.inc = p[2][1]  BY <2>5, <3>1
        <3> QED  BY <3>2, <3>3
    <2> QED  BY <2>2, <2>3, <2>4, <2>5, <2>6, <2>7
<1>3. ASSUME NEW at, StandsAt(at)', \A p \in Places' : ~ReadBefore(at, p)'
      PROVE  LastSoFar'
    <2>1. \A k \in Key : {p \in Assignments(k)' : ReadBefore(at, p)'} = {}
        BY <1>3 DEF Assignments
    <2>2. \A k : k \notin DOMAIN m_mapConfig'  BY <1>1
    <2>3. \A k \in Key : FromLast(k, {p \in Assignments(k) : ReadBefore(at, p)})'
        BY <2>1, <2>2 DEF FromLast
    <2> QED  BY <1>3, <2>3 DEF LastSoFar
<1>4. CASE files[f] = NoFile
    <2>1. frames' = << >>  BY <1>1, <1>4 DEF Enter, Readable
    <2>2. StandsAt(<< >>)'  BY <2>1 DEF StandsAt
    <2>3. \A p \in Places' : ~ReadBefore(<< >>, p)'  BY <1>2, <1>4
    <2> QED  BY <1>3, <2>2, <2>3
<1>5. CASE files[f] # NoFile
    <2> DEFINE at == << <<f, 1>> >>
    <2>1. frames' = Append(<< >>, files[f])  BY <1>1, <1>5 DEF Enter, Readable
    <2>2. Len(frames') = 1 /\ frames'[1] = files[f] /\ frames' # << >>  BY <2>1
    <2>3. at \in Seq(File \X Nat) /\ Len(at) = 1 /\ at[1] = <<f, 1>>  OBVIOUS
    <2> HIDE DEF at
    <2>4. FrameAt(<<f, 1>>, frames[1])'
        <3>1. Len(files[f]) \in Nat  BY <1>1
        <3>2. 1 \in 1 .. Len(files[f]) + 1 /\ Len(files[f]) = (Len(files[f]) + 1) - 1  BY <3>1
        <3>3. \A n \in 2 .. Len(files[f]) : 1 + (n - 1) = n  BY <3>1
        <3> QED  BY <1>1, <1>5, <2>2, <3>2, <3>3 DEF FrameAt
    <2>5. StandsAt(at)'
        <3>1. \A d \in 1 .. 1 : d = 1  OBVIOUS
        <3>2. \A d \in 1 .. 1 - 1 : FALSE  OBVIOUS
        <3> QED  BY <1>1, <2>2, <2>3, <2>4, <3>1, <3>2 DEF StandsAt
    <2>6. ASSUME NEW p \in Places', ReadBefore(at, p)' PROVE FALSE
        <3>1. Len(p) \in Nat \ {0} /\ p[1][2] \in Nat \ {0} /\ (Len(p) > 1 => LineAt(p[1])'.inc \in File)
            BY <1>2
        <3>2. ~FurtherDown(at, p)
            <4> SUFFICES ASSUME NEW d \in 1 .. 1, at[d][2] > p[d][2] PROVE FALSE
                BY <2>3 DEF FurtherDown
            <4>1. 1 > p[1][2]  BY <2>3
            <4> QED  BY <3>1, <4>1
        <3>3. Len(p) > 1 /\ p[1] = <<f, 1>> /\ IncludeIsDone'
            BY <2>3, <2>6, <3>2 DEF ReadBefore, Includes
        <3>4. files[f][1].inc \in File  BY <1>1, <3>1, <3>3 DEF LineAt
        <3>5. Top' = files[f] /\ Line' = Head(files[f])  BY <2>2 DEF Top, Line
        <3>6. files[f] # << >> /\ Head(files[f]).inc = None  BY <2>2, <3>3, <3>5 DEF IncludeIsDone
        <3>7. \A s \in Seq(LineType) : s # << >> => Head(s) = s[1]  OBVIOUS
        <3> QED  BY <1>1, <3>4, <3>6, <3>7, NoneAssumption
    <2> QED  BY <1>3, <2>5, <2>6
<1> QED  BY <1>4, <1>5

\* With no call under way, every line has been read.
LEMMA AllRead ==
    ASSUME TypeInv, LoadInv, Constructed
    PROVE  LastWins'
<1>1. /\ pc = "load" /\ frames = << >>
      /\ UNCHANGED <<source, m_strConfigFile, cSplitChar, m_mapConfig>>
    BY DEF Constructed, object
<1>2. source \in [File -> Seq(LineType)] /\ frames \in Seq(Seq(LineType))
    BY DEF TypeInv, LoadInv
<1>3. PICK at : StandsAt(at) /\ \A k \in Key : FromLast(k, {p \in Assignments(k) : ReadBefore(at, p)})
    BY <1>1 DEF LoadInv, LastSoFar
<1>4. Len(at) = 0  BY <1>1, <1>2, <1>3, StandFacts
<1>5. ASSUME NEW p \in Places PROVE ReadBefore(at, p)
    <2>1. Len(p) \in Nat \ {0}  BY <1>2, PlaceFacts
    <2> QED  BY <1>1, <1>4, <2>1 DEF ReadBefore, Includes, IncludeIsDone
<1>6. ASSUME NEW k \in Key PROVE FromLast(k, Assignments(k))'
    <2>1. {p \in Assignments(k) : ReadBefore(at, p)} = Assignments(k)  BY <1>5 DEF Assignments
    <2>2. FromLast(k, Assignments(k))  BY <1>3, <2>1
    <2> QED  BY <1>1, <2>2, SamePlaces DEF FromLast
<1> QED  BY <1>6 DEF LastWins

\* At first there is no object.
LEMMA InitLast == Init => LoadInv
<1> SUFFICES ASSUME Init PROVE LoadInv  OBVIOUS
<1>1. pc = "none" /\ files \in Disks /\ source = files  BY DEF Init
<1> QED  BY <1>1, DisksAssumption DEF LoadInv, LastWins

\* Every step keeps the map at the last of the assignments read.
LEMMA NextLast == TypeInv /\ DepthInv /\ LoadInv /\ [Next]_vars => LoadInv'
<1> SUFFICES ASSUME TypeInv, DepthInv, LoadInv, [Next]_vars PROVE LoadInv'
    OBVIOUS
<1>0. source \in [File -> Seq(LineType)] /\ files \in [File -> Seq(LineType)] /\ (pc = "load" => source = files)
    BY DEF TypeInv, LoadInv
<1>1. ASSUME NEW f \in File, NEW ch \in Split, CConfigInfo(f, ch) PROVE LoadInv'
    <2>1. pc' = "load" /\ source' = files /\ files' = files  BY <1>1 DEF CConfigInfo
    <2>2. LastSoFar'  BY <1>1, BeginLast
    <2> QED  BY <1>0, <2>1, <2>2 DEF LoadInv, LastWins
<1>2. ASSUME LastSoFar', pc = "load", UNCHANGED <<pc, files, object>> PROVE LoadInv'
    <2>1. source' = source /\ files' = files /\ pc' = "load"  BY <1>2 DEF object
    <2> QED  BY <1>0, <1>2, <2>1 DEF LoadInv, LastWins
<1>3. CASE Include
    <2>1. pc = "load" /\ UNCHANGED <<pc, files, object>>  BY <1>3 DEF Include, AtLine
    <2> QED  BY <1>2, <1>3, <2>1, IncludeLast
<1>4. CASE IncludeRefused
    <2>1. pc = "load" /\ UNCHANGED <<pc, files, object>>  BY <1>4 DEF IncludeRefused, AtLine
    <2> QED  BY <1>2, <1>4, <2>1, IncludeRefusedLast
<1>5. CASE LineDone
    <2>1. pc = "load" /\ UNCHANGED <<pc, files, object>>  BY <1>5 DEF LineDone, AtLine
    <2> QED  BY <1>2, <1>5, <2>1, LineDoneLast
<1>6. CASE LoadConfigReturns
    <2>1. pc = "load" /\ UNCHANGED <<pc, files, object>>  BY <1>6 DEF LoadConfigReturns
    <2> QED  BY <1>2, <1>6, <2>1, ReturnLast
<1>7. CASE Constructed
    <2>1. pc' = "loaded" /\ source' = source  BY <1>7 DEF Constructed, object
    <2> QED  BY <1>0, <1>7, <2>1, AllRead DEF LoadInv
<1>8. ASSUME NEW k \in Key, NEW v \in Value, SetValue(k, v) PROVE LoadInv'
    <2>1. pc' = "changed" /\ source' = source  BY <1>8 DEF SetValue, object
    <2> QED  BY <1>0, <2>1 DEF LoadInv, LastWins
<1>9. ASSUME UNCHANGED <<pc, m_mapConfig, object>> PROVE LastWins'
    <2>1. UNCHANGED <<pc, source, m_strConfigFile, cSplitChar, m_mapConfig>>  BY <1>9 DEF object
    <2>2. ASSUME NEW k \in Key, FromLast(k, Assignments(k)) PROVE FromLast(k, Assignments(k))'
        BY <2>1, <2>2, SamePlaces DEF FromLast
    <2> QED  BY <2>1, <2>2 DEF LoadInv, LastWins
<1>10. CASE SaveConfig
    <2>1. pc # "load" /\ UNCHANGED <<pc, m_mapConfig, object>> /\ source' = source
        BY <1>10 DEF SaveConfig, object
    <2> QED  BY <1>0, <1>9, <2>1 DEF LoadInv
<1>11. CASE UNCHANGED vars
    <2>1. UNCHANGED <<pc, files, m_mapConfig, frames, object, source, m_strConfigFile, cSplitChar>>
        BY <1>11 DEF vars, object
    <2>2. ASSUME pc = "load" PROVE LastSoFar'
        <3>1. PICK at : StandsAt(at) /\ \A k \in Key : FromLast(k, {p \in Assignments(k) : ReadBefore(at, p)})
            BY <2>2 DEF LoadInv, LastSoFar
        <3>2. StandsAt(at)'  BY <2>1, <3>1, StandsStep DEF StandsAt
        <3>3. IncludeIsDone' <=> IncludeIsDone  BY <2>1 DEF IncludeIsDone, Top, Line
        <3>4. \A p \in Places : ReadBefore(at, p)' <=> ReadBefore(at, p)  BY <3>3 DEF ReadBefore
        <3> QED  BY <2>1, <3>1, <3>2, <3>4, NothingRead
    <2> QED  BY <1>0, <1>9, <2>1, <2>2 DEF LoadInv
<1>12. CASE ReadFails
    <2>1. pc' = "endless" /\ source' = source  BY <1>12 DEF ReadFails, object
    <2> QED  BY <1>0, <2>1 DEF LoadInv, LastWins
<1>13. CASE SaveCut
    <2>1. pc # "load" /\ pc' \in {pc, "none"} /\ UNCHANGED <<m_mapConfig, object>> /\ source' = source
        BY <1>13 DEF SaveCut, object
    <2>2. CASE pc' = pc  BY <1>0, <1>9, <2>1, <2>2 DEF LoadInv
    <2>3. CASE pc' = "none"  BY <1>0, <2>1, <2>3 DEF LoadInv, LastWins
    <2> QED  BY <2>1, <2>2, <2>3
<1> QED  BY <1>1, <1>3, <1>4, <1>5, <1>6, <1>7, <1>8, <1>10, <1>11, <1>12, <1>13 DEF Next, LoadStep

\* A key has the value of the last assignment to it, the included files being
\* read where they are included (CConfigInfo.cpp:57-110), whatever the files
\* hold, however they include each other, and for every limit.
THEOREM LastAssignmentCounts == Spec => []LastWins
<1>1. TypeInv /\ DepthInv /\ LoadInv /\ [Next]_vars => (TypeInv /\ DepthInv /\ LoadInv)'
    BY NextDepth, NextTypes, NextLast
<1>2. LoadInv => LastWins  BY DEF LoadInv
<1> QED  BY <1>1, <1>2, InitTypes, InitDepth, InitLast, PTL DEF Spec
=============================================================================
