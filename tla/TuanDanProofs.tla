--------------------------- MODULE TuanDanProofs ---------------------------
(***************************************************************************)
(* What TDProcess relies on, for all files, names, texts and bounds: the   *)
(* automata return only ids that the maps know (MatchesKnown).  And what   *)
(* it promises: the city of an answer is the one that the city file gives  *)
(* (CityIsFirst), and its landmarks are those that the files put below     *)
(* that city (ListedAreInCity, NoneIsLost).                                *)
(***************************************************************************)
EXTENDS TuanDan, NatLemmas, FiniteSetTheorems, TLAPS

-----------------------------------------------------------------------------
(* The inductive invariant.  While cities are read the two maps of places  *)
(* are one; afterwards the map of landmarks only grows.  Every entry of    *)
(* the maps of cities and of shops has its own id, also the entry 0 that a *)
(* lookup may add to the latter.                                           *)

CitiesOwn == \A i \in DOMAIN mCityInfo : mCityInfo[i].id = i
CitiesAreLandmarks ==
    \A i \in DOMAIN mCityInfo : i \in DOMAIN mLandmarkInfo /\ mLandmarkInfo[i] = mCityInfo[i]
OneMapAtFirst == pc \in {"start", "city"} => mLandmarkInfo = mCityInfo
ShopsOwn == \A i \in DOMAIN mShopInfo : mShopInfo[i].id = i

IInv == Known /\ CitiesOwn /\ CitiesAreLandmarks /\ OneMapAtFirst /\ ShopsOwn

\* The maps and the automata are empty at first.
LEMMA InitInv == Init => IInv
BY DEF Init, IInv, Known, CitiesOwn, CitiesAreLandmarks, OneMapAtFirst, ShopsOwn

\* The part of Known that is about one automaton and its map.
Answers(ac, m) == \A n \in DOMAIN ac : ac[n] \in DOMAIN m /\ m[ac[n]].id = ac[n]

\* Known is this for the three automata, and that a city has one entry.
LEMMA KnownParts ==
    Known <=> /\ Answers(acCity, mCityInfo) /\ Answers(acLM, mLandmarkInfo) /\ Answers(acShop, mShopInfo)
              /\ \A n \in DOMAIN acCity :
                    acCity[n] \in DOMAIN mLandmarkInfo /\ mLandmarkInfo[acCity[n]] = mCityInfo[acCity[n]]
BY DEF Known, Answers

\* A line enters a map and its automaton: the map keeps what it has.
LEMMA EnterBoth ==
    ASSUME NEW ac, NEW m, NEW name, NEW id, NEW rec, rec.id = id, Answers(ac, m),
           id \in DOMAIN m => m[id].id = id,
           NEW a, NEW k, a = Put(ac, name, id), k = Keep(m, id, rec)
    PROVE  Answers(a, k)
<1>1. /\ DOMAIN k = DOMAIN m \cup {id} /\ \A i \in DOMAIN m : k[i] = m[i]
      /\ id \notin DOMAIN m => k[id] = rec
    BY DEF Keep, Merged
<1>2. DOMAIN a = DOMAIN ac \cup {name} /\ a[name] = id /\ \A n \in DOMAIN ac : n # name => a[n] = ac[n]
    BY DEF Put, Merged
<1> SUFFICES ASSUME NEW n \in DOMAIN a PROVE a[n] \in DOMAIN k /\ k[a[n]].id = a[n]
    BY DEF Answers
<1>3. CASE n = name
    <2>1. a[n] = id /\ k[id].id = id  BY <1>1, <1>2, <1>3
    <2> QED  BY <1>1, <2>1
<1>4. CASE n # name
    <2>1. n \in DOMAIN ac /\ a[n] = ac[n]  BY <1>2, <1>4
    <2>2. ac[n] \in DOMAIN m /\ m[ac[n]].id = ac[n]  BY <2>1 DEF Answers
    <2> QED  BY <1>1, <2>1, <2>2
<1> QED  BY <1>3, <1>4

\* Entries added to a map leave what its automaton returns.
LEMMA TouchAnswers ==
    ASSUME NEW ac, NEW m, NEW ids, NEW zero, Answers(ac, m), NEW t, t = Touch(m, ids, zero)
    PROVE  Answers(ac, t)
<1>1. DOMAIN t = DOMAIN m \cup ids /\ \A i \in DOMAIN m : t[i] = m[i]
    BY DEF Touch, Merged
<1> QED  BY <1>1 DEF Answers

\* A line of the city file.
LEMMA CityInv ==
    ASSUME IInv, NEW l \in CityLines, TDProcessLineCity(l)
    PROVE  IInv'
<1> DEFINE item == [l EXCEPT !.name = CutTail(l.name)]
<1>1. CASE UNCHANGED <<places, shops, pc>>
    BY <1>1 DEF IInv, Known, CitiesOwn, CitiesAreLandmarks, OneMapAtFirst, ShopsOwn, places, shops
<1>2. CASE l.name \notin County /\ item.name \notin Short
    <2>1. item.id = l.id  BY LinesAssumption
    <2>2. /\ pc = "city" /\ pc' = pc /\ UNCHANGED shops
          /\ mCityInfo' = Keep(mCityInfo, l.id, item) /\ acCity' = Put(acCity, item.name, l.id)
          /\ mLandmarkInfo' = Keep(mLandmarkInfo, l.id, item) /\ acLM' = Put(acLM, item.name, l.id)
        BY <1>2 DEF TDProcessLineCity
    <2> HIDE DEF item
    <2>3. mLandmarkInfo = mCityInfo /\ CitiesOwn  BY <2>2 DEF IInv, OneMapAtFirst
    <2>4. mLandmarkInfo' = mCityInfo'  BY <2>2, <2>3
    <2>5. Answers(acCity, mCityInfo) /\ Answers(acLM, mLandmarkInfo) /\ Answers(acShop, mShopInfo)
        BY KnownParts DEF IInv
    <2>6. Answers(acCity', mCityInfo') /\ Answers(acLM', mLandmarkInfo')
        BY <2>1, <2>2, <2>3, <2>5, EnterBoth DEF CitiesOwn
    <2>7. Answers(acShop', mShopInfo') /\ ShopsOwn'  BY <2>2, <2>5 DEF shops, IInv, ShopsOwn
    <2>8. Known'
        <3>1. \A n \in DOMAIN acCity' :
                 acCity'[n] \in DOMAIN mLandmarkInfo' /\ mLandmarkInfo'[acCity'[n]] = mCityInfo'[acCity'[n]]
            BY <2>4, <2>6 DEF Answers
        <3> QED  BY <2>6, <2>7, <3>1 DEF Known, Answers
    <2>9. CitiesOwn'
        <3>1. /\ DOMAIN mCityInfo' = DOMAIN mCityInfo \cup {l.id}
              /\ \A i \in DOMAIN mCityInfo : mCityInfo'[i] = mCityInfo[i]
              /\ l.id \notin DOMAIN mCityInfo => mCityInfo'[l.id] = item
            BY <2>2 DEF Keep, Merged
        <3> QED  BY <2>1, <2>3, <3>1 DEF CitiesOwn
    <2>10. CitiesAreLandmarks' /\ OneMapAtFirst'
        BY <2>4 DEF CitiesAreLandmarks, OneMapAtFirst
    <2> QED  BY <2>7, <2>8, <2>9, <2>10 DEF IInv
<1> QED  BY <1>1, <1>2 DEF TDProcessLineCity

\* A line of the landmark file.
LEMMA LandmarkInv ==
    ASSUME IInv, NEW l \in LandmarkLines, TDProcessLineLM(l)
    PROVE  IInv'
<1>1. CASE l.id \in DOMAIN mLandmarkInfo
    <2>1. UNCHANGED <<places, shops, pc>>
        BY <1>1 DEF TDProcessLineLM, places, shops
    <2> QED  BY <2>1 DEF IInv, Known, CitiesOwn, CitiesAreLandmarks, OneMapAtFirst, ShopsOwn, places, shops
<1>2. CASE l.id \notin DOMAIN mLandmarkInfo
    <2>1. /\ pc = "landmark" /\ pc' = pc /\ UNCHANGED <<mCityInfo, acCity, mShopInfo, acShop>>
          /\ mLandmarkInfo' = Keep(mLandmarkInfo, l.id, l) /\ acLM' = Put(acLM, l.name, l.id)
        BY <1>2 DEF TDProcessLineLM, shops
    <2>2. Answers(acCity, mCityInfo) /\ Answers(acLM, mLandmarkInfo) /\ Answers(acShop, mShopInfo)
        BY KnownParts DEF IInv
    <2>3. Answers(acLM', mLandmarkInfo')  BY <1>2, <2>1, <2>2, EnterBoth
    <2>4. Answers(acCity', mCityInfo') /\ Answers(acShop', mShopInfo')  BY <2>1, <2>2
    <2>5. /\ DOMAIN mLandmarkInfo' = DOMAIN mLandmarkInfo \cup {l.id}
          /\ \A i \in DOMAIN mLandmarkInfo : mLandmarkInfo'[i] = mLandmarkInfo[i]
        BY <2>1 DEF Keep, Merged
    <2>6. CitiesAreLandmarks'  BY <2>1, <2>5 DEF IInv, CitiesAreLandmarks
    <2>7. Known'
        BY <2>3, <2>4, <2>6 DEF Known, Answers, CitiesAreLandmarks
    <2>8. CitiesOwn' /\ ShopsOwn' /\ OneMapAtFirst'
        BY <2>1 DEF IInv, CitiesOwn, ShopsOwn, OneMapAtFirst
    <2> QED  BY <2>6, <2>7, <2>8 DEF IInv
<1> QED  BY <1>1, <1>2

\* A line of the shop file.
LEMMA ShopInv ==
    ASSUME IInv, NEW l \in ShopLines, TDProcessLineShop(l)
    PROVE  IInv'
<1>1. CASE UNCHANGED shops
    <2>1. UNCHANGED <<places, shops, pc>>  BY <1>1 DEF TDProcessLineShop
    <2> QED  BY <2>1 DEF IInv, Known, CitiesOwn, CitiesAreLandmarks, OneMapAtFirst, ShopsOwn, places, shops
<1>2. CASE l.name \notin ShortShop
    <2>1. UNCHANGED <<places, pc>>  BY DEF TDProcessLineShop
    <2>2. PICK rec : rec.id = l.id /\ mShopInfo' = Keep(mShopInfo, l.id, rec) /\ acShop' = Put(acShop, l.name, l.id)
        <3>1. PICK junk \in Junk :
                 mShopInfo' = Keep(mShopInfo, l.id, [name |-> l.name, id |-> l.id, addr |-> l.tag, tag |-> junk])
            BY <1>2 DEF TDProcessLineShop
        <3>2. acShop' = Put(acShop, l.name, l.id)  BY <1>2 DEF TDProcessLineShop
        <3>3. [name |-> l.name, id |-> l.id, addr |-> l.tag, tag |-> junk].id = l.id  OBVIOUS
        <3> QED  BY <3>1, <3>2, <3>3
    <2>3. Answers(acCity, mCityInfo) /\ Answers(acLM, mLandmarkInfo) /\ Answers(acShop, mShopInfo)
        BY KnownParts DEF IInv
    <2>4. Answers(acShop', mShopInfo')  BY <2>2, <2>3, EnterBoth DEF IInv, ShopsOwn
    <2>5. ShopsOwn'
        <3>1. /\ DOMAIN mShopInfo' = DOMAIN mShopInfo \cup {l.id}
              /\ \A i \in DOMAIN mShopInfo : mShopInfo'[i] = mShopInfo[i]
              /\ l.id \notin DOMAIN mShopInfo => mShopInfo'[l.id] = rec
            BY <2>2 DEF Keep, Merged
        <3> QED  BY <2>2, <3>1 DEF IInv, ShopsOwn
    <2>6. Known'  BY <2>1, <2>4 DEF IInv, Known, Answers, places
    <2>7. CitiesOwn' /\ CitiesAreLandmarks' /\ OneMapAtFirst'
        BY <2>1 DEF IInv, CitiesOwn, CitiesAreLandmarks, OneMapAtFirst, places
    <2> QED  BY <2>5, <2>6, <2>7 DEF IInv
<1> QED  BY <1>1, <1>2 DEF TDProcessLineShop

-----------------------------------------------------------------------------
(* Offers.                                                                 *)

\* The city found is an entry of mCityInfo, or 0.
LEMMA CityKnown ==
    ASSUME CitiesOwn, NEW ids
    PROVE  FirstCity(ids) \in DOMAIN mCityInfo \cup {0}
<1> DEFINE i == Min(Cities(ids))
<1>1. CASE Cities(ids) = {}  BY <1>1 DEF FirstCity
<1>2. CASE Cities(ids) # {}
    <2>1. FirstCity(ids) = At(mCityInfo, i, Zero).id  BY <1>2 DEF FirstCity
    <2> HIDE DEF i
    <2>2. CASE i \in DOMAIN mCityInfo
        BY <2>1, <2>2 DEF At, CitiesOwn
    <2>3. CASE i \notin DOMAIN mCityInfo
        BY <2>1, <2>3 DEF At, Zero
    <2> QED  BY <2>2, <2>3
<1> QED  BY <1>1, <1>2

\* So is the shop, of mShopInfo.
LEMMA ShopKnown ==
    ASSUME ShopsOwn, NEW ids
    PROVE  FirstShop(ids) \in DOMAIN mShopInfo \cup {0}
<1> DEFINE i == Min(ids)
<1>1. CASE ids = {}  BY <1>1 DEF FirstShop
<1>2. CASE ids # {}
    <2>1. FirstShop(ids) = At(mShopInfo, i, ZeroShop).id  BY <1>2 DEF FirstShop
    <2> HIDE DEF i
    <2>2. CASE i \in DOMAIN mShopInfo
        BY <2>1, <2>2 DEF At, ShopsOwn
    <2>3. CASE i \notin DOMAIN mShopInfo
        BY <2>1, <2>3 DEF At, ZeroShop
    <2> QED  BY <2>2, <2>3
<1> QED  BY <1>1, <1>2

\* What an offer does to the maps: mCityInfo gets no new entry, mShopInfo at
\* most the entry 0, mLandmarkInfo entries that look as before.
LEMMA OfferTouches ==
    ASSUME IInv, NEW cata, NEW str, ProcessOffer(cata, str)
    PROVE  /\ \E ids \in SUBSET DOMAIN mCityInfo : mCityInfo' = Touch(mCityInfo, ids, Zero)
           /\ \E ids : mLandmarkInfo' = Touch(mLandmarkInfo, ids, Zero)
           /\ \E id \in DOMAIN mShopInfo \cup {0} : mShopInfo' = Touch(mShopInfo, {id}, ZeroShop)
           /\ pc = "work" /\ UNCHANGED <<pc, acCity, acLM, acShop>>
<1> DEFINE info == Info(mLandmarkInfo)
           confirm_city == Cities(Match(acCity, cata)) # {}
           seen == Visited(Match(acCity, cata))
                   \cup (IF confirm_city THEN {} ELSE Visited(Match(acCity, str)))
           city == FirstCity(Match(acCity, IF confirm_city THEN cata ELSE str))
           ids == IF city = 0 THEN {} ELSE Match(acLM, str)
           shop == FirstShop(Match(acShop, str))
<1>1. /\ mCityInfo' = Touch(mCityInfo, CitiesLookedUp(seen, city), Zero)
      /\ mShopInfo' = Touch(mShopInfo, {shop}, ZeroShop)
      /\ mLandmarkInfo' = Touch(mLandmarkInfo, ids \cup UNION {LookedUp(info, city, info[i].id) : i \in ids}, Zero)
      /\ pc = "work" /\ UNCHANGED <<pc, acCity, acLM, acShop>>
    BY DEF ProcessOffer
<1>2. \A text : Visited(Match(acCity, text)) \subseteq DOMAIN mCityInfo
    BY DEF IInv, Known, Visited, Match
<1>3. seen \subseteq DOMAIN mCityInfo  BY <1>2
<1>4. city \in DOMAIN mCityInfo \cup {0}  BY CityKnown DEF IInv
<1>5. shop \in DOMAIN mShopInfo \cup {0}  BY ShopKnown DEF IInv
<1> HIDE DEF info, seen, city, ids, shop
<1>6. CitiesLookedUp(seen, city) \subseteq DOMAIN mCityInfo  BY <1>3, <1>4 DEF CitiesLookedUp
<1> QED  BY <1>1, <1>5, <1>6

\* An offer.
LEMMA OfferInv ==
    ASSUME IInv, NEW cata, NEW str, ProcessOffer(cata, str)
    PROVE  IInv'
<1>1. PICK ids \in SUBSET DOMAIN mCityInfo : mCityInfo' = Touch(mCityInfo, ids, Zero)  BY OfferTouches
<1>2. PICK lms : mLandmarkInfo' = Touch(mLandmarkInfo, lms, Zero)  BY OfferTouches
<1>3. PICK shop \in DOMAIN mShopInfo \cup {0} : mShopInfo' = Touch(mShopInfo, {shop}, ZeroShop)
    BY OfferTouches
<1>4. pc = "work" /\ UNCHANGED <<pc, acCity, acLM, acShop>>  BY OfferTouches
<1>5. DOMAIN mCityInfo' = DOMAIN mCityInfo /\ \A i \in DOMAIN mCityInfo : mCityInfo'[i] = mCityInfo[i]
    BY <1>1 DEF Touch, Merged
<1>6. /\ DOMAIN mLandmarkInfo \subseteq DOMAIN mLandmarkInfo'
      /\ \A i \in DOMAIN mLandmarkInfo : mLandmarkInfo'[i] = mLandmarkInfo[i]
    BY <1>2 DEF Touch, Merged
<1>7. /\ DOMAIN mShopInfo' = DOMAIN mShopInfo \cup {shop}
      /\ \A i \in DOMAIN mShopInfo : mShopInfo'[i] = mShopInfo[i]
      /\ shop \notin DOMAIN mShopInfo => mShopInfo'[shop] = ZeroShop
    BY <1>3 DEF Touch, Merged
<1>8. ShopsOwn'
    <2>1. ZeroShop.id = 0  BY DEF ZeroShop
    <2> QED  BY <1>3, <1>7, <2>1 DEF IInv, ShopsOwn
<1>9. CitiesOwn' /\ CitiesAreLandmarks' /\ OneMapAtFirst'
    BY <1>4, <1>5, <1>6 DEF IInv, CitiesOwn, CitiesAreLandmarks, OneMapAtFirst
<1>10. Answers(acCity, mCityInfo) /\ Answers(acLM, mLandmarkInfo) /\ Answers(acShop, mShopInfo)
    BY KnownParts DEF IInv
<1>11. Answers(acCity', mCityInfo') /\ Answers(acLM', mLandmarkInfo') /\ Answers(acShop', mShopInfo')
    BY <1>4, <1>5, <1>6, <1>7, <1>10 DEF Answers
<1>12. Known'  BY <1>9, <1>11 DEF Known, Answers, CitiesAreLandmarks
<1> QED  BY <1>8, <1>9, <1>12 DEF IInv

\* Every step keeps the invariant.
LEMMA NextInv == IInv /\ [Next]_vars => IInv'
<1> SUFFICES ASSUME IInv, [Next]_vars PROVE IInv'  OBVIOUS
<1>1. ASSUME UNCHANGED <<places, shops>>, pc' \in {"start", "city"} => pc \in {"start", "city"}
      PROVE  IInv'
    BY <1>1 DEF IInv, Known, CitiesOwn, CitiesAreLandmarks, OneMapAtFirst, ShopsOwn, places, shops
<1>2. CASE LoadInfo  BY <1>1, <1>2 DEF LoadInfo
<1>3. CASE CitiesRead \/ LandmarksRead \/ ShopsRead
    BY <1>1, <1>3 DEF CitiesRead, LandmarksRead, ShopsRead
<1>4. CASE TDProcess \/ OffersDone  BY <1>1, <1>4 DEF TDProcess, OffersDone
<1>5. CASE UNCHANGED vars  BY <1>1, <1>5 DEF vars
<1>6. CASE \E l \in CityLines : TDProcessLineCity(l)  BY <1>6, CityInv
<1>7. CASE \E l \in LandmarkLines : TDProcessLineLM(l)  BY <1>7, LandmarkInv
<1>8. CASE \E l \in ShopLines : TDProcessLineShop(l)  BY <1>8, ShopInv
<1>9. CASE \E cata, str \in Texts : ProcessOffer(cata, str)  BY <1>9, OfferInv
<1> QED  BY <1>2, <1>3, <1>4, <1>5, <1>6, <1>7, <1>8, <1>9 DEF Next

\* For all city, landmark and shop files, also with ids or names that occur
\* twice, every id an automaton can return has an entry of its own: operator[]
\* on a match never makes one up, before and while offers are processed.
THEOREM MatchesKnown == Spec => []Known
<1>1. IInv => Known  BY DEF IInv
<1> QED  BY <1>1, InitInv, NextInv, PTL DEF Spec

-----------------------------------------------------------------------------
(* The operators of the model.  What is defined by recursion is shown by   *)
(* the first number for which it fails.                                    *)

\* A finite set of numbers has a largest and a smallest element.
LEMMA Extremes ==
    ASSUME NEW S, IsFiniteSet(S), S \subseteq Int, S # {}
    PROVE  /\ Max(S) \in S /\ \A y \in S : y <= Max(S)
           /\ Min(S) \in S /\ \A y \in S : Min(S) <= y
<1> DEFINE Good(T) == /\ \E x \in T : \A y \in T : x >= y
                      /\ \E x \in T : \A y \in T : x =< y
           Bad == {n \in Nat : \E T \in SUBSET S : T # {} /\ Cardinality(T) = n /\ ~Good(T)}
<1>1. ASSUME Bad # {} PROVE FALSE
    <2>1. Bad \subseteq Nat  OBVIOUS
    <2>2. PICK n \in Bad : \A m \in Bad : n <= m
        <3> HIDE DEF Bad
        <3> QED  BY <1>1, <2>1, SmallestNat
    <2>3. PICK T \in SUBSET S : T # {} /\ Cardinality(T) = n /\ ~Good(T)  OBVIOUS
    <2>4. PICK x : x \in T  BY <2>3
    <2> DEFINE U == T \ {x}
    <2>5. IsFiniteSet(T) /\ IsFiniteSet(U)  BY FS_Subset
    <2>6. Cardinality(U) = Cardinality(T) - 1  BY <2>4, <2>5, FS_RemoveElement
    <2>7. Cardinality(U) \in Nat  BY <2>5, FS_CardinalityType
    <2>8. n \in Nat /\ ~(n <= n - 1)  OBVIOUS
    <2>9. U = {} \/ Good(U)
        <3>1. Cardinality(U) \notin Bad  BY <2>2, <2>3, <2>6, <2>8
        <3> QED  BY <2>7, <3>1
    <2>10. Good(T)
        <3>1. CASE U = {}
            <4>1. T = {x}  BY <2>4, <3>1
            <4>2. x \in Int  BY <2>4
            <4>3. x >= x /\ x =< x  BY <4>2
            <4> QED  BY <4>1, <4>3
        <3>2. CASE Good(U)
            <4>1. PICK a \in U : \A y \in U : a >= y  BY <3>2
            <4>2. PICK b \in U : \A y \in U : b =< y  BY <3>2
            <4>3. x \in Int /\ a \in Int /\ b \in Int /\ T \subseteq Int  BY <2>4
            <4>4. \A y \in T : y = x \/ y \in U  OBVIOUS
            <4>5. \E c \in {a, x} : \A y \in T : c >= y
                <5>1. CASE x >= a  BY <4>1, <4>3, <4>4, <5>1
                <5>2. CASE ~(x >= a)  BY <4>1, <4>3, <4>4, <5>2
                <5> QED  BY <5>1, <5>2
            <4>6. \E c \in {b, x} : \A y \in T : c =< y
                <5>1. CASE x =< b  BY <4>2, <4>3, <4>4, <5>1
                <5>2. CASE ~(x =< b)  BY <4>2, <4>3, <4>4, <5>2
                <5> QED  BY <5>1, <5>2
            <4>7. {a, x} \subseteq T /\ {b, x} \subseteq T  BY <2>4
            <4> QED  BY <4>5, <4>6, <4>7
        <3> QED  BY <2>9, <3>1, <3>2
    <2> QED  BY <2>3, <2>10
<1>2. Good(S)
    <2>1. Cardinality(S) \in Nat  BY FS_CardinalityType
    <2> QED  BY <1>1, <2>1
<1>3. PICK a \in S : \A y \in S : a >= y  BY <1>2
<1>4. PICK b \in S : \A y \in S : b =< y  BY <1>2
<1>5. Max(S) \in S /\ \A y \in S : Max(S) >= y  BY <1>3, Zenon DEF Max
<1>6. Min(S) \in S /\ \A y \in S : Min(S) =< y  BY <1>4, Zenon DEF Min
<1> QED  BY <1>5, <1>6

\* The way up from son: each is the father of the one before.
IsChain(up, info, son) ==
    /\ up \in [0 .. Climbs -> AnyId] /\ up[0] = son
    /\ \A k \in 1 .. Climbs : up[k] = info[up[k - 1]].father_id

\* Chain, defined by recursion, is such a way: there is one of every length,
\* or a shortest length without one.
LEMMA ChainSteps ==
    ASSUME NEW info, \A i \in AnyId : info[i].father_id \in AnyId, NEW son \in AnyId
    PROVE  IsChain(Chain(info, son), info, son)
<1> DEFINE Way(g, n) == /\ g \in [0 .. n -> AnyId] /\ g[0] = son
                        /\ \A k \in 1 .. n : g[k] = info[g[k - 1]].father_id
           Bad == {n \in Nat : ~ \E g : Way(g, n)}
<1>1. ASSUME Bad # {} PROVE FALSE
    <2>1. Bad \subseteq Nat  OBVIOUS
    <2>2. PICK n \in Bad : \A m \in Bad : n <= m
        <3> HIDE DEF Bad
        <3> QED  BY <1>1, <2>1, SmallestNat
    <2>3. n \in Nat /\ ~ \E g : Way(g, n)  OBVIOUS
    <2>4. CASE n = 0
        <3>1. [k \in 0 .. 0 |-> son] \in [0 .. 0 -> AnyId]  OBVIOUS
        <3>2. Way([k \in 0 .. 0 |-> son], 0)  BY <3>1
        <3> QED  BY <2>3, <2>4, <3>2
    <2>5. CASE n # 0
        <3>1. n - 1 \in Nat /\ ~(n <= n - 1)  BY <2>3, <2>5
        <3>2. PICK g : Way(g, n - 1)  BY <2>2, <3>1
        <3> DEFINE h == [k \in 0 .. n |-> IF k = n THEN info[g[n - 1]].father_id ELSE g[k]]
        <3>3. n - 1 \in 0 .. n - 1 /\ \A k \in 0 .. n : k # n => k \in 0 .. n - 1  BY <2>3, <2>5
        <3>4. h \in [0 .. n -> AnyId]  BY <3>2, <3>3
        <3>5. h[0] = son  BY <2>3, <2>5, <3>2
        <3>6. ASSUME NEW k \in 1 .. n PROVE h[k] = info[h[k - 1]].father_id
            <4>1. k \in 0 .. n /\ k - 1 \in 0 .. n /\ k - 1 # n  BY <2>3
            <4>2. h[k - 1] = g[k - 1]  BY <4>1
            <4>3. CASE k = n  BY <4>1, <4>2, <4>3
            <4>4. CASE k # n
                <5>1. k \in 1 .. n - 1  BY <2>3, <4>4
                <5>2. h[k] = g[k]  BY <4>1, <4>4
                <5> QED  BY <3>2, <4>2, <5>1, <5>2
            <4> QED  BY <4>3, <4>4
        <3> HIDE DEF h
        <3> QED  BY <2>3, <3>4, <3>5, <3>6
    <2> QED  BY <2>4, <2>5
<1>2. PICK g : Way(g, Climbs)  BY <1>1, BoundAssumption
<1> DEFINE Rec(f) == f = [k \in 0 .. Climbs |-> IF k = 0 THEN son ELSE info[f[k - 1]].father_id]
           up == Chain(info, son)
<1>3. Rec(g)
    <2>1. \A k \in 0 .. Climbs : k = 0 \/ k \in 1 .. Climbs  BY BoundAssumption
    <2> QED  BY <1>2, <2>1
<1>4. Rec(up)
    <2>1. up = CHOOSE f : Rec(f)  BY DEF Chain
    <2> HIDE DEF Rec, up
    <2> QED  BY <1>3, <2>1, Zenon
<1>5. /\ up[0] = son
      /\ \A k \in 1 .. Climbs : up[k] = info[up[k - 1]].father_id
    <2> HIDE DEF up
    <2>1. 0 \in 0 .. Climbs /\ \A k \in 1 .. Climbs : k \in 0 .. Climbs /\ k # 0  BY BoundAssumption
    <2> QED  BY <1>4, <2>1
<1>6. DOMAIN up = 0 .. Climbs /\ up = [k \in 0 .. Climbs |-> up[k]]  BY <1>4
<1> HIDE DEF up
<1>7. \A k \in 0 .. Climbs : up[k] \in AnyId
    <2> DEFINE Worse == {k \in 0 .. Climbs : up[k] \notin AnyId}
    <2> SUFFICES ASSUME Worse # {} PROVE FALSE  OBVIOUS
    <2>1. Worse \subseteq Nat  BY BoundAssumption
    <2>2. PICK k \in Worse : \A m \in Worse : k <= m
        <3> HIDE DEF Worse
        <3> QED  BY <2>1, SmallestNat
    <2>3. k \in 0 .. Climbs /\ k # 0 /\ Climbs \in Nat  BY <1>5, BoundAssumption
    <2>4. k \in 1 .. Climbs /\ k - 1 \in 0 .. Climbs /\ ~(k <= k - 1)  BY <2>3
    <2>5. up[k - 1] \in AnyId  BY <2>2, <2>4
    <2> QED  BY <1>5, <2>4, <2>5
<1> QED  BY <1>5, <1>6, <1>7 DEF up, IsChain

\* A list with a name added: it has names of N only, what it had, and the name.
LEMMA NameAdded ==
    ASSUME NEW N, NEW list \in Seq(N), NEW name \in N, <<name, name>> \in Inside
    PROVE  LET more == AddName(list, name)
           IN  /\ more \in Seq(N) /\ Len(list) <= Len(more)
               /\ \A k \in 1 .. Len(list) : more[k] = list[k]
               /\ \E k \in 1 .. Len(more) : <<name, more[k]>> \in Inside
<1>1. CASE \E k \in 1 .. Len(list) : <<name, list[k]>> \in Inside
    <2>1. AddName(list, name) = list  BY <1>1 DEF AddName
    <2> QED  BY <1>1, <2>1, SMTT(30)
<1>2. CASE ~ \E k \in 1 .. Len(list) : <<name, list[k]>> \in Inside
    <2>1. AddName(list, name) = Append(list, name)  BY <1>2 DEF AddName
    <2>2. /\ Append(list, name) \in Seq(N) /\ Len(Append(list, name)) = Len(list) + 1 /\ Len(list) \in Nat
          /\ Append(list, name)[Len(list) + 1] = name
          /\ \A k \in 1 .. Len(list) : Append(list, name)[k] = list[k]
        OBVIOUS
    <2>3. Len(list) + 1 \in 1 .. Len(list) + 1 /\ Len(list) <= Len(list) + 1  BY <2>2
    <2> QED  BY <2>1, <2>2, <2>3
<1> QED  BY <1>1, <1>2

\* The list has the names of the landmarks only, and every one of them, itself
\* or as part of another.
LEMMA ListedNames ==
    ASSUME NEW info, NEW ids, IsFiniteSet(ids), ids \subseteq Int,
           \A i \in ids : <<info[i].name, info[i].name>> \in Inside
    PROVE  LET list == Listed(info, ids)
           IN  /\ list \in Seq({info[i].name : i \in ids})
               /\ \A i \in ids : \E k \in 1 .. Len(list) : <<info[i].name, list[k]>> \in Inside
<1> DEFINE Less(T) == T \ {Max(T)}
           Step(g, T) == IF T = {} THEN << >> ELSE AddName(g[Less(T)], info[Max(T)].name)
           Way(g, n) == \A T \in SUBSET ids : Cardinality(T) <= n => g[T] = Step(g, T)
           Bad == {n \in Nat : ~ \E g : Way(g, n)}
<1>1. ASSUME NEW T \in SUBSET ids
      PROVE  /\ Cardinality(T) \in Nat /\ (Cardinality(T) = 0 <=> T = {})
             /\ T # {} => Max(T) \in T /\ Less(T) \in SUBSET ids /\ Cardinality(Less(T)) = Cardinality(T) - 1
    <2>1. IsFiniteSet(T)  BY FS_Subset
    <2>2. Cardinality(T) \in Nat /\ (Cardinality(T) = 0 <=> T = {})  BY <2>1, FS_CardinalityType, FS_EmptySet
    <2>3. T # {} => Max(T) \in T  BY <2>1, Extremes
    <2>4. T # {} => Cardinality(Less(T)) = Cardinality(T) - 1  BY <2>1, <2>3, FS_RemoveElement
    <2> QED  BY <2>2, <2>3, <2>4
<1> HIDE DEF Less
<1>2. ASSUME Bad # {} PROVE FALSE
    <2>1. Bad \subseteq Nat  OBVIOUS
    <2>2. PICK n \in Bad : \A m \in Bad : n <= m
        <3> HIDE DEF Bad
        <3> QED  BY <1>2, <2>1, SmallestNat
    <2>3. n \in Nat /\ ~ \E g : Way(g, n)  OBVIOUS
    <2>4. CASE n = 0
        <3> DEFINE g == [T \in SUBSET ids |-> << >>]
        <3>1. ASSUME NEW T \in SUBSET ids, Cardinality(T) <= 0 PROVE g[T] = Step(g, T)
            <4>1. T = {}  BY <1>1, <3>1
            <4> QED  BY <4>1
        <3>2. Way(g, 0)  BY <3>1
        <3> QED  BY <2>3, <2>4, <3>2
    <2>5. CASE n # 0
        <3>1. n - 1 \in Nat /\ ~(n <= n - 1)  BY <2>3, <2>5
        <3>2. PICK g : Way(g, n - 1)  BY <2>2, <3>1
        <3> DEFINE h == [T \in SUBSET ids |-> IF Cardinality(T) = n THEN Step(g, T) ELSE g[T]]
        <3>3. ASSUME NEW T \in SUBSET ids, Cardinality(T) <= n PROVE h[T] = Step(h, T)
            <4>1. h[T] = Step(g, T)
                <5>1. CASE Cardinality(T) = n  BY <5>1
                <5>2. CASE Cardinality(T) # n
                    <6>1. Cardinality(T) <= n - 1  BY <1>1, <2>3, <3>3, <5>2
                    <6>2. h[T] = g[T]  BY <5>2
                    <6> QED  BY <3>2, <6>1, <6>2
                <5> QED  BY <5>1, <5>2
            <4>2. CASE T = {}  BY <4>1, <4>2
            <4>3. CASE T # {}
                <5>1. Less(T) \in SUBSET ids /\ Cardinality(Less(T)) = Cardinality(T) - 1 /\ Cardinality(T) \in Nat
                    BY <1>1, <4>3
                <5>2. Cardinality(Less(T)) # n  BY <2>3, <3>3, <5>1
                <5>3. h[Less(T)] = g[Less(T)]  BY <5>1, <5>2
                <5> QED  BY <4>1, <4>3, <5>3
            <4> QED  BY <4>2, <4>3
        <3> HIDE DEF h
        <3>4. Way(h, n)  BY <3>3
        <3> QED  BY <2>3, <3>4
    <2> QED  BY <2>4, <2>5
<1>3. PICK g : \A T \in SUBSET ids : g[T] = Step(g, T)
    <2>1. Cardinality(ids) \in Nat  BY <1>1
    <2>2. PICK g : Way(g, Cardinality(ids))  BY <1>2, <2>1
    <2>3. \A T \in SUBSET ids : Cardinality(T) <= Cardinality(ids)  BY FS_Subset
    <2> QED  BY <2>2, <2>3
<1> DEFINE Rec(f) == f = [T \in SUBSET ids |-> Step(f, T)]
           list == CHOOSE f : Rec(f)
<1>4. Rec([T \in SUBSET ids |-> g[T]])
    <2> DEFINE f == [T \in SUBSET ids |-> g[T]]
    <2>1. ASSUME NEW T \in SUBSET ids PROVE g[T] = Step(f, T)
        <3>1. CASE T = {}  BY <1>3, <3>1
        <3>2. CASE T # {}
            <4>1. f[Less(T)] = g[Less(T)]  BY <1>1, <3>2
            <4> QED  BY <1>3, <3>2, <4>1
        <3> QED  BY <3>1, <3>2
    <2> QED  BY <2>1
<1>5. Rec(list)
    <2> HIDE DEF Rec
    <2> QED  BY <1>4, Zenon
<1>6. Listed(info, ids) = list[ids]  BY DEF Listed, Less
<1> HIDE DEF list
<1>7. \A T \in SUBSET ids : list[T] = Step(list, T)  BY <1>5
<1> DEFINE N == {info[i].name : i \in ids}
           Holds(T) == /\ list[T] \in Seq(N)
                       /\ \A i \in T : \E k \in 1 .. Len(list[T]) : <<info[i].name, list[T][k]>> \in Inside
           Worse == {n \in Nat : \E T \in SUBSET ids : Cardinality(T) = n /\ ~Holds(T)}
<1>8. ASSUME Worse # {} PROVE FALSE
    <2>1. Worse \subseteq Nat  OBVIOUS
    <2>2. PICK n \in Worse : \A m \in Worse : n <= m
        <3> HIDE DEF Worse
        <3> QED  BY <1>8, <2>1, SmallestNat
    <2>3. PICK T \in SUBSET ids : Cardinality(T) = n /\ ~Holds(T)  OBVIOUS
    <2>4. CASE T = {}
        <3>1. list[T] = << >>  BY <1>7, <2>4
        <3>2. << >> \in Seq(N)  OBVIOUS
        <3> QED  BY <2>3, <2>4, <3>1, <3>2
    <2>5. CASE T # {}
        <3> DEFINE m == Max(T)
        <3>1. m \in T /\ Less(T) \in SUBSET ids /\ Cardinality(Less(T)) = n - 1 /\ n \in Nat
              /\ Cardinality(Less(T)) \in Nat
            BY <1>1, <2>3, <2>5
        <3>2. Holds(Less(T))
            <4>1. ~(n <= n - 1)  BY <3>1
            <4>2. Cardinality(Less(T)) \notin Worse  BY <2>2, <3>1, <4>1
            <4> QED  BY <3>1, <4>2
        <3>3. list[T] = AddName(list[Less(T)], info[m].name)  BY <1>7, <2>5
        <3>4. \A i \in T : i = m \/ i \in Less(T)  BY DEF Less
        <3>5. info[m].name \in N /\ <<info[m].name, info[m].name>> \in Inside  BY <3>1
        <3> HIDE DEF m, N
        <3>6. /\ list[T] \in Seq(N) /\ Len(list[Less(T)]) <= Len(list[T])
              /\ \A k \in 1 .. Len(list[Less(T)]) : list[T][k] = list[Less(T)][k]
              /\ \E k \in 1 .. Len(list[T]) : <<info[m].name, list[T][k]>> \in Inside
            <4>1. \A l \in Seq(N) : \A name \in N : <<name, name>> \in Inside =>
                     /\ AddName(l, name) \in Seq(N) /\ Len(l) <= Len(AddName(l, name))
                     /\ \A k \in 1 .. Len(l) : AddName(l, name)[k] = l[k]
                     /\ \E k \in 1 .. Len(AddName(l, name)) : <<name, AddName(l, name)[k]>> \in Inside
                BY NameAdded
            <4>2. list[Less(T)] \in Seq(N)  BY <3>2
            <4>3. PICK l \in Seq(N), name \in N : l = list[Less(T)] /\ name = info[m].name  BY <3>5, <4>2
            <4>4. <<name, name>> \in Inside /\ list[T] = AddName(l, name)  BY <3>3, <3>5, <4>3
            <4>5. /\ AddName(l, name) \in Seq(N) /\ Len(l) <= Len(AddName(l, name))
                  /\ \A k \in 1 .. Len(l) : AddName(l, name)[k] = l[k]
                  /\ \E k \in 1 .. Len(AddName(l, name)) : <<name, AddName(l, name)[k]>> \in Inside
                BY <4>1, <4>4
            <4> HIDE DEF Less
            <4> QED  BY <4>3, <4>4, <4>5
        <3>7. \A k \in 1 .. Len(list[Less(T)]) : k \in 1 .. Len(list[T])
            <4>1. Len(list[Less(T)]) \in Nat /\ Len(list[T]) \in Nat  BY <3>2, <3>6
            <4> QED  BY <3>6, <4>1
        <3>8. Holds(T)  BY <3>2, <3>4, <3>6, <3>7
        <3> QED  BY <2>3, <3>8
    <2> QED  BY <2>4, <2>5
<1>9. Holds(ids)
    <2>1. ids \in SUBSET ids /\ Cardinality(ids) \in Nat  BY <1>1
    <2> QED  BY <1>8, <2>1
<1> QED  BY <1>6, <1>9

-----------------------------------------------------------------------------
(* Types.                                                                  *)

TypeInv ==
    /\ TypeOK
    /\ IsFiniteSet(DOMAIN acCity) /\ IsFiniteSet(DOMAIN acLM)
    /\ read \in Seq(Entry) /\ \A k \in 1 .. Len(read) : read[k].name \in Names

\* A map with its keys in K and its values in V.
Maps(m, K, V) == DOMAIN m \subseteq K /\ \A i \in DOMAIN m : m[i] \in V

\* What is added to a map.
LEMMA MergedMaps ==
    ASSUME NEW K, NEW V, NEW m, Maps(m, K, V), NEW v \in V
    PROVE  /\ \A i \in K : Maps(Keep(m, i, v), K, V) /\ Maps(Put(m, i, v), K, V)
           /\ \A ids \in SUBSET K : Maps(Touch(m, ids, v), K, V)
BY DEF Maps, Keep, Put, Touch, Merged

\* An automaton stays finite.
LEMMA PutFinite ==
    ASSUME NEW ac, NEW name, NEW id, IsFiniteSet(DOMAIN ac)
    PROVE  IsFiniteSet(DOMAIN Put(ac, name, id))
<1>1. DOMAIN Put(ac, name, id) = DOMAIN ac \cup {name}  BY DEF Put, Merged
<1> QED  BY <1>1, FS_AddElement

\* The fields of a line, and of one with the tail of its name cut.
LEMMA LineFields ==
    ASSUME NEW l \in Lines
    PROVE  /\ l.id \in Id /\ l.name \in Names /\ l \in Entry /\ Id \subseteq AnyId /\ Id \subseteq Int
           /\ LET item == [l EXCEPT !.name = CutTail(l.name)]
              IN  item \in Entry /\ item.name \in Names /\ item.id = l.id
<1>1. l \in [name : STRING, id : Int, father_id : Int, type : Int]  BY LinesAssumption
<1>2. l.id \in Id /\ l.name \in Names /\ l.father_id \in AnyId /\ l.type \in Int
    BY <1>1 DEF Id, Names, AnyId
<1>3. Id \subseteq AnyId  BY DEF Id, AnyId
<1>4. Id \subseteq Int  BY LinesAssumption DEF Id
<1>5. CutTail(l.name) \in Names  BY <1>2 DEF CutTail, Names
<1>6. l \in Entry  BY <1>1, <1>2 DEF Entry
<1>7. [l EXCEPT !.name = CutTail(l.name)] \in Entry  BY <1>1, <1>2, <1>5 DEF Entry
<1> QED  BY <1>1, <1>2, <1>3, <1>4, <1>5, <1>6, <1>7

\* Without a line there is nothing to take from.
LEMMA ZeroFields == Zero \in Entry /\ 0 \in AnyId
BY DEF Zero, Entry, AnyId

\* TypeOK, with its maps named.
Places(city, lm, aCity, aLM) ==
    /\ Maps(city, Id, Entry) /\ Maps(lm, AnyId, Entry)
    /\ Maps(aCity, Names, Id) /\ Maps(aLM, Names, Id)
    /\ IsFiniteSet(DOMAIN aCity) /\ IsFiniteSet(DOMAIN aLM)
Taken(r) == r \in Seq(Entry) /\ \A k \in 1 .. Len(r) : r[k].name \in Names
Rest ==
    /\ pc \in {"start", "city", "landmark", "shop", "loaded", "work", "end"}
    /\ DOMAIN mShopInfo \subseteq {l.id : l \in ShopLines} \cup {0}
    /\ out # << >> => out.flag \in 0 .. 2 /\ (out.flag = 0 <=> out.city = 0)
    /\ lines \in 0 .. MaxLines /\ offers \in 0 .. MaxOffers

\* The types fall into three parts that steps change separately.
LEMMA TypeParts == TypeInv <=> Places(mCityInfo, mLandmarkInfo, acCity, acLM) /\ Taken(read) /\ Rest
BY DEF TypeInv, TypeOK, Places, Maps, Taken, Rest

\* One more line taken in.
LEMMA OneMoreTaken ==
    ASSUME NEW r, Taken(r), NEW l \in Entry, l.name \in Names
    PROVE  Taken(Append(r, l))
<1>1. r \in Seq(Entry) /\ \A k \in 1 .. Len(r) : r[k].name \in Names  BY DEF Taken
<1> DEFINE E == Entry
<1>2. r \in Seq(E) /\ l \in E  BY <1>1
<1> HIDE DEF E
<1>3. /\ Append(r, l) \in Seq(E) /\ Len(Append(r, l)) = Len(r) + 1 /\ Len(r) \in Nat
      /\ \A k \in 1 .. Len(r) : Append(r, l)[k] = r[k]
      /\ Append(r, l)[Len(r) + 1] = l
    BY <1>2
<1>4. \A k \in 1 .. Len(r) + 1 : k \in 1 .. Len(r) \/ k = Len(r) + 1  BY <1>3
<1>5. \A k \in 1 .. Len(Append(r, l)) : Append(r, l)[k].name \in Names  BY <1>1, <1>3, <1>4
<1> QED  BY <1>3, <1>5 DEF Taken, E

\* What lookups see: an entry, or zeros.
LEMMA InfoFields ==
    ASSUME TypeInv
    PROVE  \A i \in AnyId : Info(mLandmarkInfo)[i] \in Entry
BY TypeParts, ZeroFields DEF Places, Maps, Info, At

\* IsFatherSon looks up no id that is not in the files.
LEMMA LookedUpIds ==
    ASSUME TypeInv, NEW father \in AnyId, NEW son \in AnyId
    PROVE  LookedUp(Info(mLandmarkInfo), father, son) \subseteq AnyId
<1> DEFINE info == Info(mLandmarkInfo)
<1>1. \A i \in AnyId : info[i].father_id \in AnyId  BY InfoFields DEF Entry
<1> HIDE DEF info
<1>2. Chain(info, son) \in [0 .. Climbs -> AnyId]  BY <1>1, ChainSteps DEF IsChain
<1>3. Climbed(info, father, son) \subseteq 0 .. Climbs  BY DEF Climbed
<1>4. LookedUp(info, father, son) \subseteq AnyId  BY <1>2, <1>3 DEF LookedUp
<1> QED  BY <1>4 DEF info

\* The matches of a text are finitely many.
LEMMA MatchFinite ==
    ASSUME NEW ac, NEW text, IsFiniteSet(DOMAIN ac)
    PROVE  IsFiniteSet(Match(ac, text))
<1> DEFINE S == DOMAIN ac \cap text
           f == [n \in S |-> ac[n]]
<1>1. IsFiniteSet(S)  BY FS_Subset
<1>2. f \in Surjection(S, Match(ac, text))  BY DEF Surjection, Match
<1> QED  BY <1>1, <1>2, FS_Surjection

\* The first city of the matches has the type of a city or a district.
LEMMA CityType ==
    ASSUME IInv, TypeInv, NEW text, FirstCity(Match(acCity, text)) # 0
    PROVE  LET city == FirstCity(Match(acCity, text))
           IN  city \in DOMAIN mCityInfo /\ mCityInfo[city].type \in {2, 3}
<1> DEFINE ids == Match(acCity, text)
           c == Min(Cities(ids))
<1>1. Cities(ids) # {}  BY DEF FirstCity
<1>2. IsFiniteSet(ids)  BY MatchFinite DEF TypeInv
<1>3. ids \subseteq DOMAIN mCityInfo /\ ids \subseteq Int
    <2>1. ids \subseteq DOMAIN mCityInfo  BY DEF IInv, Known, Match
    <2>2. Maps(mCityInfo, Id, Entry)  BY TypeParts DEF Places
    <2>3. Id \subseteq Int  BY LinesAssumption DEF Id
    <2> QED  BY <2>1, <2>2, <2>3 DEF Maps
<1>4. Cities(ids) \subseteq ids /\ IsFiniteSet(Cities(ids))  BY <1>2, FS_Subset DEF Cities
<1>5. c \in Cities(ids)  BY <1>1, <1>3, <1>4, Extremes
<1>6. FirstCity(ids) = At(mCityInfo, c, Zero).id  BY <1>1 DEF FirstCity
<1> HIDE DEF ids, c
<1>7. c \in DOMAIN mCityInfo /\ At(mCityInfo, c, Zero).type \in {2, 3}  BY <1>3, <1>4, <1>5 DEF Cities
<1>8. At(mCityInfo, c, Zero) = mCityInfo[c]  BY <1>7 DEF At
<1>9. mCityInfo[c].id = c  BY <1>7 DEF IInv, CitiesOwn
<1> QED  BY <1>6, <1>7, <1>8, <1>9 DEF ids

\* What an offer writes, and what it adds to the map of landmarks.
LEMMA OfferOut ==
    ASSUME IInv, TypeInv, NEW cata, NEW str, ProcessOffer(cata, str)
    PROVE  \E city \in DOMAIN mCityInfo \cup {0} : \E ids, found, lms \in SUBSET AnyId :
              /\ city # 0 => city \in DOMAIN mCityInfo /\ mCityInfo[city].type \in {2, 3}
              /\ ids = IF city = 0 THEN {} ELSE Match(acLM, str)
              /\ found = InCity(Info(mLandmarkInfo), city, ids)
              /\ mLandmarkInfo' = Touch(mLandmarkInfo, lms, Zero)
              /\ out'.str = str /\ out'.city = city
              /\ out'.landmarks = Listed(Info(mLandmarkInfo), found)
              /\ out'.flag \in 0 .. 2 /\ (out'.flag = 0 <=> city = 0)
              /\ pc = "work" /\ offers < MaxOffers /\ offers' = offers + 1
              /\ UNCHANGED <<pc, acCity, acLM, read, lines>>
<1> DEFINE info == Info(mLandmarkInfo)
           confirm_city == Cities(Match(acCity, cata)) # {}
           text == IF confirm_city THEN cata ELSE str
           city == FirstCity(Match(acCity, text))
           ids == IF city = 0 THEN {} ELSE Match(acLM, str)
           found == InCity(info, city, ids)
           lms == ids \cup UNION {LookedUp(info, city, info[i].id) : i \in ids}
           flag == IF city = 0 THEN 0 ELSE IF confirm_city \/ (found # {} /\ Max(found) # 0) THEN 2 ELSE 1
<1>1. /\ mLandmarkInfo' = Touch(mLandmarkInfo, lms, Zero)
      /\ out'.str = str /\ out'.city = city /\ out'.landmarks = Listed(info, found) /\ out'.flag = flag
      /\ pc = "work" /\ offers < MaxOffers /\ offers' = offers + 1
      /\ UNCHANGED <<pc, acCity, acLM, read, lines>>
    BY DEF ProcessOffer, history
<1>2. city \in DOMAIN mCityInfo \cup {0}  BY CityKnown DEF IInv
<1>3. city # 0 => city \in DOMAIN mCityInfo /\ mCityInfo[city].type \in {2, 3}  BY CityType
<1>4. flag \in 0 .. 2 /\ (flag = 0 <=> city = 0)  OBVIOUS
<1>5. DOMAIN mCityInfo \subseteq Id /\ Maps(acLM, Names, Id)  BY TypeParts DEF Places, Maps
<1>6. Id \subseteq AnyId  BY DEF Id, AnyId
<1> HIDE DEF city, info, flag
<1>7. ids \subseteq AnyId  BY <1>5, <1>6 DEF Match, Maps
<1>8. city \in AnyId  BY <1>2, <1>5, <1>6, ZeroFields
<1>9. \A i \in ids : info[i].id \in AnyId
    <2>1. \A i \in AnyId : info[i].id \in Id \cup {0}  BY InfoFields DEF info, Entry
    <2> QED  BY <1>6, <1>7, <2>1, ZeroFields
<1> HIDE DEF ids
<1>10. lms \subseteq AnyId  BY <1>7, <1>8, <1>9, LookedUpIds DEF info
<1>11. found \subseteq AnyId  BY <1>7 DEF InCity
<1> HIDE DEF lms, found
<1>12. /\ ids = IF city = 0 THEN {} ELSE Match(acLM, str)
       /\ found = InCity(info, city, ids)
    BY DEF ids, found
<1> QED  BY <1>1, <1>2, <1>3, <1>4, <1>7, <1>10, <1>11, <1>12 DEF info

\* Before LoadInfo the maps are empty.
LEMMA InitTypes == Init => TypeInv
<1> SUFFICES ASSUME Init PROVE TypeInv  OBVIOUS
<1>1. Places(mCityInfo, mLandmarkInfo, acCity, acLM)  BY FS_EmptySet DEF Init, Places, Maps
<1>2. Taken(read)  BY DEF Init, Taken
<1>3. Rest  BY BoundAssumption DEF Init, Rest
<1> QED  BY <1>1, <1>2, <1>3, TypeParts

\* A line of the city file.
LEMMA CityTypes ==
    ASSUME TypeInv, NEW l \in CityLines, TDProcessLineCity(l)
    PROVE  TypeInv'
<1> DEFINE item == [l EXCEPT !.name = CutTail(l.name)]
<1>1. Places(mCityInfo, mLandmarkInfo, acCity, acLM) /\ Taken(read) /\ Rest  BY TypeParts
<1>2. l.id \in Id /\ Id \subseteq AnyId /\ item \in Entry /\ item.name \in Names
    BY LineFields DEF Lines
<1>3. Rest'
    BY <1>1, BoundAssumption DEF TDProcessLineCity, Rest, shops
<1>4. CASE UNCHANGED <<places, history>>
    <2>1. (Places(mCityInfo, mLandmarkInfo, acCity, acLM) /\ Taken(read))'  BY <1>1, <1>4 DEF places, history
    <2> QED  BY <1>3, <2>1, TypeParts DEF TypeInv, TypeOK, Places, Maps, Taken, Rest
<1>5. CASE l.name \notin County /\ item.name \notin Short
    <2>1. /\ mCityInfo' = Keep(mCityInfo, l.id, item) /\ acCity' = Put(acCity, item.name, l.id)
          /\ mLandmarkInfo' = Keep(mLandmarkInfo, l.id, item) /\ acLM' = Put(acLM, item.name, l.id)
          /\ read' = Append(read, item)
        BY <1>5 DEF TDProcessLineCity, Take
    <2> HIDE DEF item
    <2>2. Maps(mCityInfo', Id, Entry)  BY <1>1, <1>2, <2>1, MergedMaps DEF Places
    <2>3. Maps(mLandmarkInfo', AnyId, Entry)  BY <1>1, <1>2, <2>1, MergedMaps DEF Places
    <2>4. Maps(acCity', Names, Id) /\ IsFiniteSet(DOMAIN acCity')
        BY <1>1, <1>2, <2>1, MergedMaps, PutFinite DEF Places
    <2>5. Maps(acLM', Names, Id) /\ IsFiniteSet(DOMAIN acLM')
        BY <1>1, <1>2, <2>1, MergedMaps, PutFinite DEF Places
    <2>6. Taken(read')  BY <1>1, <1>2, <2>1, OneMoreTaken
    <2> QED  BY <1>3, <2>2, <2>3, <2>4, <2>5, <2>6 DEF TypeInv, TypeOK, Maps, Taken, Rest
<1> QED  BY <1>4, <1>5 DEF TDProcessLineCity

\* A line of the landmark file.
LEMMA LandmarkTypes ==
    ASSUME TypeInv, NEW l \in LandmarkLines, TDProcessLineLM(l)
    PROVE  TypeInv'
<1>1. Places(mCityInfo, mLandmarkInfo, acCity, acLM) /\ Taken(read) /\ Rest  BY TypeParts
<1>2. l.id \in Id /\ Id \subseteq AnyId /\ l \in Entry /\ l.name \in Names
    BY LineFields DEF Lines
<1>3. Rest'
    BY <1>1, BoundAssumption DEF TDProcessLineLM, Rest, shops
<1>4. mCityInfo' = mCityInfo /\ acCity' = acCity  BY DEF TDProcessLineLM
<1>5. CASE l.id \in DOMAIN mLandmarkInfo
    <2>1. mLandmarkInfo' = mLandmarkInfo /\ acLM' = acLM /\ read' = read  BY <1>5 DEF TDProcessLineLM
    <2> QED  BY <1>1, <1>3, <1>4, <2>1 DEF TypeInv, TypeOK, Places, Maps, Taken, Rest
<1>6. CASE l.id \notin DOMAIN mLandmarkInfo
    <2>1. /\ mLandmarkInfo' = Keep(mLandmarkInfo, l.id, l) /\ acLM' = Put(acLM, l.name, l.id)
          /\ read' = Append(read, l)
        BY <1>6 DEF TDProcessLineLM, Take
    <2>2. Maps(mLandmarkInfo', AnyId, Entry)  BY <1>1, <1>2, <2>1, MergedMaps DEF Places
    <2>3. Maps(acLM', Names, Id) /\ IsFiniteSet(DOMAIN acLM')
        BY <1>1, <1>2, <2>1, MergedMaps, PutFinite DEF Places
    <2>4. Taken(read')  BY <1>1, <1>2, <2>1, OneMoreTaken
    <2> QED  BY <1>1, <1>3, <1>4, <2>2, <2>3, <2>4 DEF TypeInv, TypeOK, Places, Maps, Taken, Rest
<1> QED  BY <1>5, <1>6

\* An offer.
LEMMA OfferTypes ==
    ASSUME IInv, TypeInv, NEW cata, NEW str, ProcessOffer(cata, str)
    PROVE  TypeInv'
<1>1. Places(mCityInfo, mLandmarkInfo, acCity, acLM) /\ Taken(read) /\ Rest  BY TypeParts
<1>2. PICK city \in DOMAIN mCityInfo \cup {0}, lms \in SUBSET AnyId :
         /\ mLandmarkInfo' = Touch(mLandmarkInfo, lms, Zero)
         /\ out'.city = city /\ out'.flag \in 0 .. 2 /\ (out'.flag = 0 <=> city = 0)
         /\ pc = "work" /\ offers < MaxOffers /\ offers' = offers + 1
         /\ UNCHANGED <<pc, acCity, acLM, read, lines>>
    BY OfferOut
<1>3. PICK ids \in SUBSET DOMAIN mCityInfo : mCityInfo' = Touch(mCityInfo, ids, Zero)  BY OfferTouches
<1>4. PICK shop \in DOMAIN mShopInfo \cup {0} : mShopInfo' = Touch(mShopInfo, {shop}, ZeroShop)  BY OfferTouches
<1>5. Maps(mLandmarkInfo', AnyId, Entry)  BY <1>1, <1>2, ZeroFields, MergedMaps DEF Places
<1>6. Maps(mCityInfo', Id, Entry)
    <2>1. ids \in SUBSET Id  BY <1>1 DEF Places, Maps
    <2> QED  BY <1>1, <1>3, <2>1, ZeroFields, MergedMaps DEF Places
<1>7. DOMAIN mShopInfo' \subseteq {l.id : l \in ShopLines} \cup {0}
    <2>1. DOMAIN mShopInfo' = DOMAIN mShopInfo \cup {shop}  BY <1>4 DEF Touch, Merged
    <2> QED  BY <1>1, <2>1 DEF Rest
<1>8. Rest'  BY <1>1, <1>2, <1>7, BoundAssumption DEF Rest
<1> QED  BY <1>1, <1>2, <1>5, <1>6, <1>8 DEF TypeInv, TypeOK, Places, Maps, Taken, Rest

\* Every step keeps the types.
LEMMA NextTypes == IInv /\ TypeInv /\ [Next]_vars => TypeInv'
<1> SUFFICES ASSUME IInv, TypeInv, [Next]_vars PROVE TypeInv'  OBVIOUS
<1>1. ASSUME UNCHANGED <<places, shops, out, read, lines, offers>>,
             pc' \in {"start", "city", "landmark", "shop", "loaded", "work", "end"}
      PROVE  TypeInv'
    BY <1>1 DEF TypeInv, TypeOK, places, shops
<1>2. CASE LoadInfo  BY <1>1, <1>2 DEF LoadInfo, history
<1>3. CASE CitiesRead \/ LandmarksRead \/ ShopsRead
    BY <1>1, <1>3 DEF CitiesRead, LandmarksRead, ShopsRead, history
<1>4. CASE TDProcess \/ OffersDone  BY <1>1, <1>4 DEF TDProcess, OffersDone, history
<1>5. CASE UNCHANGED vars  BY <1>1, <1>5 DEF vars, history, TypeInv, TypeOK
<1>6. CASE \E l \in CityLines : TDProcessLineCity(l)  BY <1>6, CityTypes
<1>7. CASE \E l \in LandmarkLines : TDProcessLineLM(l)  BY <1>7, LandmarkTypes
<1>8. ASSUME NEW l \in ShopLines, TDProcessLineShop(l) PROVE TypeInv'
    <2>1. DOMAIN mShopInfo' \subseteq DOMAIN mShopInfo \cup {l.id}
        BY <1>8 DEF TDProcessLineShop, shops, Keep, Merged
    <2>2. lines' \in 0 .. MaxLines  BY <1>8, BoundAssumption DEF TDProcessLineShop, TypeInv, TypeOK
    <2>3. UNCHANGED <<pc, places, out, read, offers>>  BY <1>8 DEF TDProcessLineShop, history
    <2> QED  BY <2>1, <2>2, <2>3 DEF TypeInv, TypeOK, places
<1>9. CASE \E cata, str \in Texts : ProcessOffer(cata, str)  BY <1>9, OfferTypes
<1> QED  BY <1>2, <1>3, <1>4, <1>5, <1>6, <1>7, <1>8, <1>9 DEF Next

\* Every variable has its type, for all files: lookups add entries for ids of
\* the files and for 0 to the map of landmarks, and none to the map of cities.
THEOREM TypeCorrect == Spec => []TypeOK
<1>1. TypeInv => TypeOK  BY DEF TypeInv
<1> QED  BY <1>1, InitInv, NextInv, InitTypes, NextTypes, PTL DEF Spec

-----------------------------------------------------------------------------
(* What the files say is what the answers say.                             *)

\* The first line read with its id.
First(k) == \A j \in 1 .. k - 1 : read[j].id # read[k].id

\* The map and the automaton of landmarks have what the lines read say: the
\* first with its id counts, and the last with its name.  What else is in the
\* map, offers have made up.
ReadKept ==
    \A k \in 1 .. Len(read) :
        read[k].id \in DOMAIN mLandmarkInfo /\ (First(k) => mLandmarkInfo[read[k].id] = read[k])
KeptRead ==
    \A i \in DOMAIN mLandmarkInfo :
        \/ \E k \in 1 .. Len(read) : First(k) /\ read[k].id = i /\ read[k] = mLandmarkInfo[i]
        \/ pc \in {"work", "end"} /\ mLandmarkInfo[i] = Zero
LastNamed ==
    \A k \in 1 .. Len(read) :
        (\A j \in k + 1 .. Len(read) : read[j].name # read[k].name)
            => read[k].name \in DOMAIN acLM /\ acLM[read[k].name] = read[k].id
OutIsLate == out # << >> => pc \in {"work", "end"}

FileInv == ReadKept /\ KeptRead /\ LastNamed /\ OutIsLate

\* A line is taken in.
LEMMA LineTaken ==
    ASSUME TypeInv, FileInv, NEW item \in Entry, pc \notin {"work", "end"}, pc' = pc, out' = out,
           read' = Append(read, item), mLandmarkInfo' = Keep(mLandmarkInfo, item.id, item),
           acLM' = Put(acLM, item.name, item.id)
    PROVE  FileInv'
<1>0. PICK n \in Nat : n = Len(read)  BY DEF TypeInv
<1>1. /\ n \in Nat /\ Len(read') = n + 1 /\ read'[n + 1] = item
      /\ \A k \in 1 .. n : read'[k] = read[k]
    <2> DEFINE E == Entry
    <2>1. read \in Seq(E) /\ item \in E  BY DEF TypeInv
    <2> HIDE DEF E
    <2> QED  BY <1>0, <2>1
<1>2. /\ \A k \in 1 .. n + 1 : k = n + 1 \/ k \in 1 .. n
      /\ \A k \in 1 .. n : k \in 1 .. n + 1 /\ k # n + 1
      /\ \A k \in 1 .. n : \A j \in 1 .. k - 1 : j \in 1 .. n
      /\ \A k \in 1 .. n : n + 1 \in k + 1 .. n + 1 /\ \A j \in k + 1 .. n : j \in 1 .. n /\ j \in k + 1 .. n + 1
      /\ (n + 1) - 1 = n /\ n + 1 \in 1 .. n + 1
    BY <1>1
<1>3. /\ DOMAIN mLandmarkInfo' = DOMAIN mLandmarkInfo \cup {item.id}
      /\ \A i \in DOMAIN mLandmarkInfo : mLandmarkInfo'[i] = mLandmarkInfo[i]
      /\ item.id \notin DOMAIN mLandmarkInfo => mLandmarkInfo'[item.id] = item
    BY DEF Keep, Merged
<1>4. /\ DOMAIN acLM' = DOMAIN acLM \cup {item.name} /\ acLM'[item.name] = item.id
      /\ \A m \in DOMAIN acLM : m # item.name => acLM'[m] = acLM[m]
    BY DEF Put, Merged
<1>5. \A k \in 1 .. n : First(k)' <=> First(k)
    BY <1>1, <1>2 DEF First
<1>6. First(n + 1)' <=> \A j \in 1 .. n : read[j].id # item.id
    BY <1>1, <1>2 DEF First
<1>7. \A k \in 1 .. n : read[k].id \in DOMAIN mLandmarkInfo /\ (First(k) => mLandmarkInfo[read[k].id] = read[k])
    BY <1>0 DEF FileInv, ReadKept
<1>8. \A i \in DOMAIN mLandmarkInfo : \E k \in 1 .. n : First(k) /\ read[k].id = i /\ read[k] = mLandmarkInfo[i]
    BY <1>0 DEF FileInv, KeptRead
<1>9. First(n + 1)' <=> item.id \notin DOMAIN mLandmarkInfo
    BY <1>6, <1>7, <1>8
<1>10. ReadKept'
    <2> SUFFICES ASSUME NEW k \in 1 .. n + 1
                 PROVE  read'[k].id \in DOMAIN mLandmarkInfo' /\ (First(k)' => mLandmarkInfo'[read'[k].id] = read'[k])
        BY <1>1 DEF ReadKept
    <2>1. CASE k = n + 1  BY <1>1, <1>3, <1>9, <2>1
    <2>2. CASE k \in 1 .. n  BY <1>1, <1>3, <1>5, <1>7, <2>2
    <2> QED  BY <1>2, <2>1, <2>2
<1>11. KeptRead'
    <2> SUFFICES ASSUME NEW i \in DOMAIN mLandmarkInfo'
                 PROVE  \E k \in 1 .. n + 1 : First(k)' /\ read'[k].id = i /\ read'[k] = mLandmarkInfo'[i]
        BY <1>1 DEF KeptRead
    <2>1. CASE i \in DOMAIN mLandmarkInfo
        <3>1. PICK k \in 1 .. n : First(k) /\ read[k].id = i /\ read[k] = mLandmarkInfo[i]  BY <1>8, <2>1
        <3> QED  BY <1>1, <1>2, <1>3, <1>5, <2>1, <3>1
    <2>2. CASE i \notin DOMAIN mLandmarkInfo
        <3>1. i = item.id  BY <1>3, <2>2
        <3> QED  BY <1>1, <1>2, <1>3, <1>9, <2>2, <3>1
    <2> QED  BY <2>1, <2>2
<1>12. LastNamed'
    <2> SUFFICES ASSUME NEW k \in 1 .. n + 1, \A j \in k + 1 .. n + 1 : read'[j].name # read'[k].name
                 PROVE  read'[k].name \in DOMAIN acLM' /\ acLM'[read'[k].name] = read'[k].id
        BY <1>1 DEF LastNamed
    <2>1. CASE k = n + 1  BY <1>1, <1>4, <2>1
    <2>2. CASE k \in 1 .. n
        <3>1. item.name # read[k].name  BY <1>1, <1>2, <2>2
        <3>2. \A j \in k + 1 .. n : read[j].name # read[k].name  BY <1>1, <1>2, <2>2
        <3>3. read[k].name \in DOMAIN acLM /\ acLM[read[k].name] = read[k].id
            BY <1>0, <2>2, <3>2 DEF FileInv, LastNamed
        <3> QED  BY <1>1, <1>4, <2>2, <3>1, <3>3
    <2> QED  BY <1>2, <2>1, <2>2
<1>13. OutIsLate'  BY DEF FileInv, OutIsLate
<1> QED  BY <1>10, <1>11, <1>12, <1>13 DEF FileInv

\* Nothing is read at first.
LEMMA InitFiles == Init => FileInv
<1> SUFFICES ASSUME Init PROVE FileInv  OBVIOUS
<1>1. read = << >> /\ mLandmarkInfo = << >> /\ out = << >>  BY DEF Init
<1>2. \A k \in 1 .. Len(read) : FALSE  BY <1>1
<1> QED  BY <1>1, <1>2 DEF FileInv, ReadKept, KeptRead, LastNamed, OutIsLate

\* Every step keeps what the files say.
LEMMA NextFiles == IInv /\ TypeInv /\ FileInv /\ [Next]_vars => FileInv'
<1> SUFFICES ASSUME IInv, TypeInv, FileInv, [Next]_vars PROVE FileInv'  OBVIOUS
<1>1. ASSUME UNCHANGED <<mLandmarkInfo, acLM, read, out>>, pc \in {"work", "end"} => pc' \in {"work", "end"}
      PROVE  FileInv'
    <2>1. \A k : First(k)' <=> First(k)  BY <1>1 DEF First
    <2> QED  BY <1>1, <2>1 DEF FileInv, ReadKept, KeptRead, LastNamed, OutIsLate
<1>2. CASE LoadInfo  BY <1>1, <1>2 DEF LoadInfo, history, places
<1>3. CASE CitiesRead \/ LandmarksRead \/ ShopsRead
    BY <1>1, <1>3 DEF CitiesRead, LandmarksRead, ShopsRead, history, places
<1>4. CASE TDProcess \/ OffersDone  BY <1>1, <1>4 DEF TDProcess, OffersDone, history, places
<1>5. CASE UNCHANGED vars  BY <1>1, <1>5 DEF vars, history, places
<1>6. ASSUME NEW l \in CityLines, TDProcessLineCity(l) PROVE FileInv'
    <2> DEFINE item == [l EXCEPT !.name = CutTail(l.name)]
    <2>1. CASE UNCHANGED <<places, history>>  BY <1>1, <1>6, <2>1 DEF TDProcessLineCity, places, history
    <2>2. CASE l.name \notin County /\ item.name \notin Short
        <3>1. /\ pc = "city" /\ pc' = pc /\ out' = out /\ read' = Append(read, item)
              /\ mLandmarkInfo' = Keep(mLandmarkInfo, l.id, item) /\ acLM' = Put(acLM, item.name, l.id)
            BY <1>6, <2>2 DEF TDProcessLineCity, Take
        <3>2. item \in Entry /\ item.id = l.id  BY LineFields DEF Lines
        <3> HIDE DEF item
        <3> QED  BY <3>1, <3>2, LineTaken
    <2> QED  BY <1>6, <2>1, <2>2 DEF TDProcessLineCity
<1>7. ASSUME NEW l \in LandmarkLines, TDProcessLineLM(l) PROVE FileInv'
    <2>1. CASE UNCHANGED <<mLandmarkInfo, acLM, read>>  BY <1>1, <1>7, <2>1 DEF TDProcessLineLM
    <2>2. CASE l.id \notin DOMAIN mLandmarkInfo
        <3>1. /\ pc = "landmark" /\ pc' = pc /\ out' = out /\ read' = Append(read, l)
              /\ mLandmarkInfo' = Keep(mLandmarkInfo, l.id, l) /\ acLM' = Put(acLM, l.name, l.id)
            BY <1>7, <2>2 DEF TDProcessLineLM, Take
        <3>2. l \in Entry  BY LineFields DEF Lines
        <3> QED  BY <3>1, <3>2, LineTaken
    <2> QED  BY <1>7, <2>1, <2>2 DEF TDProcessLineLM
<1>8. CASE \E l \in ShopLines : TDProcessLineShop(l)  BY <1>1, <1>8 DEF TDProcessLineShop, places, history
<1>9. ASSUME NEW cata, NEW str, ProcessOffer(cata, str) PROVE FileInv'
    <2>1. PICK lms : mLandmarkInfo' = Touch(mLandmarkInfo, lms, Zero)  BY <1>9, OfferTouches
    <2>2. pc = "work" /\ UNCHANGED <<pc, acLM, read>>  BY <1>9, OfferOut
    <2>3. /\ DOMAIN mLandmarkInfo' = DOMAIN mLandmarkInfo \cup lms
          /\ \A i \in DOMAIN mLandmarkInfo : mLandmarkInfo'[i] = mLandmarkInfo[i]
          /\ \A i \in lms : i \notin DOMAIN mLandmarkInfo => mLandmarkInfo'[i] = Zero
        BY <2>1 DEF Touch, Merged
    <2>4. \A k : First(k)' <=> First(k)  BY <2>2 DEF First
    <2> HIDE DEF Zero
    <2>5. ReadKept'  BY <2>2, <2>3, <2>4 DEF FileInv, ReadKept
    <2>6. KeptRead'
        <3> SUFFICES ASSUME NEW i \in DOMAIN mLandmarkInfo'
                     PROVE  \/ \E k \in 1 .. Len(read) : First(k) /\ read[k].id = i /\ read[k] = mLandmarkInfo'[i]
                            \/ mLandmarkInfo'[i] = Zero
            BY <2>2, <2>4 DEF KeptRead
        <3>1. CASE i \in DOMAIN mLandmarkInfo  BY <2>3, <3>1 DEF FileInv, KeptRead
        <3>2. CASE i \notin DOMAIN mLandmarkInfo  BY <2>3, <3>2
        <3> QED  BY <3>1, <3>2
    <2>7. LastNamed' /\ OutIsLate'  BY <2>2 DEF FileInv, LastNamed, OutIsLate
    <2> QED  BY <2>5, <2>6, <2>7 DEF FileInv
<1> QED  BY <1>2, <1>3, <1>4, <1>5, <1>6, <1>7, <1>8, <1>9 DEF Next

FirstLines == {read[k] : k \in {k \in 1 .. Len(read) : First(k)}}

\* A way up over n lines.
WayUp(p, n, l, city) ==
    /\ p \in [1 .. n -> FirstLines] /\ p[1] = l
    /\ p[n].father_id = city /\ p[n].type > 1
    /\ \A k \in 1 .. n - 1 : p[k].father_id = p[k + 1].id /\ p[k].type > 1

\* To be under a city is to have a way up to it.
LEMMA UnderWays ==
    ASSUME NEW l, NEW city
    PROVE  Under(l, city) <=> \E n \in 1 .. Climbs : \E p : WayUp(p, n, l, city)
<1> DEFINE links == {q \in FirstLines \X FirstLines : q[1].father_id = q[2].id /\ q[1].type > 1}
           paths == UNION {[1 .. n -> FirstLines] : n \in 1 .. Climbs}
<1>1. Under(l, city) <=> \E p \in paths : /\ p[1] = l /\ p[Len(p)].father_id = city /\ p[Len(p)].type > 1
                                          /\ \A k \in 1 .. Len(p) - 1 : <<p[k], p[k + 1]>> \in links
    BY DEF Under, FirstLines, First
<1>2. \A x, y \in FirstLines : <<x, y>> \in links <=> x.father_id = y.id /\ x.type > 1
    <2> HIDE DEF FirstLines
    <2> QED  OBVIOUS
<1>3. ASSUME NEW n \in 1 .. Climbs, NEW p \in [1 .. n -> FirstLines]
      PROVE  /\ Len(p) = n
             /\ \A k \in 1 .. n - 1 : <<p[k], p[k + 1]>> \in links <=> p[k].father_id = p[k + 1].id /\ p[k].type > 1
    <2> HIDE DEF links, FirstLines
    <2>1. n \in Nat  BY BoundAssumption
    <2>2. Len(p) = n  BY <2>1
    <2>3. \A k \in 1 .. n - 1 : k \in 1 .. n /\ k + 1 \in 1 .. n  BY <2>1
    <2>4. \A k \in 1 .. n - 1 : p[k] \in FirstLines /\ p[k + 1] \in FirstLines  BY <2>3
    <2> QED  BY <1>2, <2>2, <2>4
<1> HIDE DEF links, FirstLines
<1>4. ASSUME NEW n \in 1 .. Climbs, NEW p \in [1 .. n -> FirstLines]
      PROVE  WayUp(p, n, l, city)
             <=> /\ p[1] = l /\ p[Len(p)].father_id = city /\ p[Len(p)].type > 1
                 /\ \A k \in 1 .. Len(p) - 1 : <<p[k], p[k + 1]>> \in links
    BY <1>3 DEF WayUp
<1>5. ASSUME NEW n \in 1 .. Climbs, NEW p, WayUp(p, n, l, city) PROVE Under(l, city)
    <2>1. p \in [1 .. n -> FirstLines] /\ p \in paths  BY <1>5 DEF WayUp
    <2> QED  BY <1>1, <1>4, <1>5, <2>1
<1>6. ASSUME Under(l, city) PROVE \E n \in 1 .. Climbs : \E p : WayUp(p, n, l, city)
    <2>1. PICK p \in paths : /\ p[1] = l /\ p[Len(p)].father_id = city /\ p[Len(p)].type > 1
                             /\ \A k \in 1 .. Len(p) - 1 : <<p[k], p[k + 1]>> \in links
        BY <1>1, <1>6
    <2>2. PICK n \in 1 .. Climbs : p \in [1 .. n -> FirstLines]  OBVIOUS
    <2> QED  BY <1>4, <2>1, <2>2
<1> QED  BY <1>5, <1>6

\* What IsFatherSon looks up are the first lines with their ids, or zeros.
LEMMA InfoRead ==
    ASSUME TypeInv, FileInv
    PROVE  LET info == Info(mLandmarkInfo)
           IN  /\ \A i \in AnyId : /\ info[i].father_id \in AnyId /\ info[i].type \in Int
                                   /\ info[i].type > 1 => info[i] \in FirstLines /\ info[i].id = i
               /\ \A l \in FirstLines : l.id \in AnyId /\ info[l.id] = l /\ l \in Entry /\ l.name \in Names
<1> DEFINE info == Info(mLandmarkInfo)
<1>1. Maps(mLandmarkInfo, AnyId, Entry) /\ Taken(read)  BY TypeParts DEF Places
<1>2. \A i \in AnyId : info[i] = IF i \in DOMAIN mLandmarkInfo THEN mLandmarkInfo[i] ELSE Zero
    BY DEF Info, At
<1>3. \A i \in AnyId : info[i].father_id \in AnyId /\ info[i].type \in Int
    BY InfoFields DEF Entry
<1>4. Zero.type = 0  BY DEF Zero
<1> HIDE DEF info
<1>5. ASSUME NEW i \in AnyId, info[i].type > 1 PROVE info[i] \in FirstLines /\ info[i].id = i
    <2>1. info[i] # Zero  BY <1>4, <1>5
    <2>2. i \in DOMAIN mLandmarkInfo /\ info[i] = mLandmarkInfo[i]  BY <1>2, <2>1
    <2>3. PICK k \in 1 .. Len(read) : First(k) /\ read[k].id = i /\ read[k] = mLandmarkInfo[i]
        BY <2>1, <2>2 DEF FileInv, KeptRead
    <2> QED  BY <2>2, <2>3 DEF FirstLines
<1>6. ASSUME NEW l \in FirstLines PROVE l.id \in AnyId /\ info[l.id] = l /\ l \in Entry /\ l.name \in Names
    <2>1. PICK k \in 1 .. Len(read) : First(k) /\ l = read[k]  BY DEF FirstLines
    <2>2. l.id \in DOMAIN mLandmarkInfo /\ mLandmarkInfo[l.id] = l  BY <2>1 DEF FileInv, ReadKept
    <2>3. l.id \in AnyId  BY <1>1, <2>2 DEF Maps
    <2>4. l \in Entry /\ l.name \in Names
        <3> DEFINE E == Entry
        <3>1. read \in Seq(E) /\ \A j \in 1 .. Len(read) : read[j].name \in Names  BY <1>1 DEF Taken
        <3> HIDE DEF E
        <3>2. read[k] \in E  BY <3>1
        <3> QED  BY <2>1, <3>1, <3>2 DEF E
    <2> QED  BY <1>2, <2>2, <2>3, <2>4
<1> QED  BY <1>3, <1>5, <1>6 DEF info

\* Whom IsFatherSon finds to be below the city, the files put there.
LEMMA FatherIsAbove ==
    ASSUME TypeInv, FileInv, NEW city \in AnyId, NEW i \in AnyId,
           IsFatherSon(Info(mLandmarkInfo), city, i) = 1
    PROVE  Under(Info(mLandmarkInfo)[i], city) /\ Info(mLandmarkInfo)[i] \in FirstLines
<1> DEFINE info == Info(mLandmarkInfo)
           up == Chain(info, i)
<1>1. /\ \A a \in AnyId : /\ info[a].father_id \in AnyId /\ info[a].type \in Int
                          /\ info[a].type > 1 => info[a] \in FirstLines /\ info[a].id = a
    BY InfoRead
<1> HIDE DEF info
<1>2. PICK k \in Climbed(info, city, i) \ {Climbs} : info[up[k]].type > 1 /\ up[k + 1] = city
    BY DEF IsFatherSon, info
<1>3. /\ up \in [0 .. Climbs -> AnyId] /\ up[0] = i
      /\ \A j \in 1 .. Climbs : up[j] = info[up[j - 1]].father_id
    <2>1. \A a \in AnyId : info[a].father_id \in AnyId  BY <1>1
    <2>2. IsChain(up, info, i)  BY <2>1, ChainSteps
    <2> HIDE DEF up
    <2> QED  BY <2>2 DEF IsChain
<1>4. k \in 0 .. Climbs /\ k # Climbs /\ \A j \in 0 .. k - 1 : info[up[j]].type > 1
    BY <1>2 DEF Climbed
<1> HIDE DEF up
<1> DEFINE n == k + 1
           p == [d \in 1 .. n |-> info[up[d - 1]]]
<1>5. /\ Climbs \in Nat /\ k \in Nat /\ n \in 1 .. Climbs /\ n - 1 = k /\ 1 \in 1 .. n /\ n \in 1 .. n
      /\ \A d \in 1 .. n : d - 1 \in 0 .. Climbs /\ (d - 1 = k \/ d - 1 \in 0 .. k - 1)
      /\ \A d \in 1 .. n - 1 : d \in 1 .. n /\ d + 1 \in 1 .. n /\ (d + 1) - 1 = d /\ d \in 1 .. Climbs
    BY <1>4, BoundAssumption
<1>6. \A d \in 1 .. n : up[d - 1] \in AnyId /\ info[up[d - 1]].type > 1  BY <1>2, <1>3, <1>4, <1>5
<1>7. p \in [1 .. n -> FirstLines]  BY <1>1, <1>6
<1>8. p[1] = info[i]  BY <1>3, <1>5
<1>9. p[n].father_id = city /\ p[n].type > 1
    <2>1. k + 1 \in 1 .. Climbs /\ (k + 1) - 1 = k  BY <1>5
    <2>2. up[k + 1] = info[up[k]].father_id  BY <1>3, <2>1
    <2> QED  BY <1>2, <1>5, <2>2
<1>10. ASSUME NEW d \in 1 .. n - 1 PROVE p[d].father_id = p[d + 1].id /\ p[d].type > 1
    <2>1. p[d] = info[up[d - 1]] /\ p[d + 1] = info[up[d]]  BY <1>5
    <2>2. up[d] = info[up[d - 1]].father_id  BY <1>3, <1>5
    <2>3. info[up[d]].id = up[d]
        <3>1. up[(d + 1) - 1] \in AnyId /\ info[up[(d + 1) - 1]].type > 1  BY <1>5, <1>6
        <3> QED  BY <1>1, <1>5, <3>1
    <2> QED  BY <1>5, <1>6, <2>1, <2>2, <2>3
<1>11. n \in 1 .. Climbs  BY <1>5
<1>12. info[i] \in FirstLines  BY <1>5, <1>7, <1>8
<1> HIDE DEF p, n
<1>13. WayUp(p, n, info[i], city)  BY <1>7, <1>8, <1>9, <1>10 DEF WayUp
<1> QED  BY <1>11, <1>12, <1>13, UnderWays DEF info

\* Whom the files put below a city or district, IsFatherSon finds there.
LEMMA AboveIsFather ==
    ASSUME TypeInv, FileInv, NEW city \in AnyId, Info(mLandmarkInfo)[city].type > 1,
           NEW l \in FirstLines, Under(l, city)
    PROVE  IsFatherSon(Info(mLandmarkInfo), city, l.id) = 1
<1> DEFINE info == Info(mLandmarkInfo)
           up == Chain(info, l.id)
<1>1. \A a \in AnyId : info[a].father_id \in AnyId /\ info[a].type \in Int  BY InfoRead
<1>2. \A x \in FirstLines : x.id \in AnyId /\ info[x.id] = x  BY InfoRead
<1> HIDE DEF info
<1>3. PICK n \in 1 .. Climbs : \E p : WayUp(p, n, l, city)  BY UnderWays
<1>4. PICK p : WayUp(p, n, l, city)  BY <1>3
<1>5. /\ p \in [1 .. n -> FirstLines] /\ p[1] = l /\ p[n].father_id = city /\ p[n].type > 1
      /\ \A d \in 1 .. n - 1 : p[d].father_id = p[d + 1].id /\ p[d].type > 1
    BY <1>4 DEF WayUp
<1>6. /\ up[0] = l.id /\ \A j \in 1 .. Climbs : up[j] = info[up[j - 1]].father_id
    <2>1. \A a \in AnyId : info[a].father_id \in AnyId  BY <1>1
    <2>2. l.id \in AnyId  BY <1>2
    <2>3. IsChain(up, info, l.id)  BY <2>1, <2>2, ChainSteps
    <2> HIDE DEF up
    <2> QED  BY <2>3 DEF IsChain
<1>7. Climbs \in Nat /\ n \in Nat /\ 1 \in 1 .. n /\ n \in 1 .. n /\ n <= Climbs  BY <1>3, BoundAssumption
<1> HIDE DEF up
<1>8. \A d \in 1 .. n : p[d].type > 1 /\ p[d] \in FirstLines
    <2>1. \A d \in 1 .. n : d = n \/ d \in 1 .. n - 1  BY <1>7
    <2> QED  BY <1>5, <2>1
<1>9. \A d \in 1 .. n : up[d - 1] = p[d].id
    <2> DEFINE Bad == {d \in 1 .. n : up[d - 1] # p[d].id}
    <2> SUFFICES ASSUME Bad # {} PROVE FALSE  OBVIOUS
    <2>1. Bad \subseteq Nat  BY <1>7
    <2>2. PICK d \in Bad : \A e \in Bad : d <= e
        <3> HIDE DEF Bad
        <3> QED  BY <2>1, SmallestNat
    <2>3. d \in 1 .. n /\ up[d - 1] # p[d].id  OBVIOUS
    <2>4. d # 1  BY <1>5, <1>6, <2>3
    <2>5. d - 1 \in 1 .. n /\ d - 1 \in 1 .. n - 1 /\ d - 1 \in 1 .. Climbs /\ (d - 1) + 1 = d /\ ~(d <= d - 1)
        BY <1>7, <2>3, <2>4
    <2>6. up[(d - 1) - 1] = p[d - 1].id
        <3>1. d - 1 \notin Bad  BY <2>2, <2>5
        <3> QED  BY <2>5, <3>1
    <2>7. up[d - 1] = info[up[(d - 1) - 1]].father_id  BY <1>6, <2>5
    <2>8. info[p[d - 1].id] = p[d - 1]  BY <1>2, <1>8, <2>5
    <2>9. p[d - 1].father_id = p[d].id  BY <1>5, <2>5
    <2> QED  BY <2>3, <2>6, <2>7, <2>8, <2>9
<1>10. \A d \in 1 .. n : info[up[d - 1]] = p[d]  BY <1>2, <1>8, <1>9
<1>11. up[n] = city
    <2>1. n \in 1 .. Climbs  OBVIOUS
    <2>2. up[n] = info[up[n - 1]].father_id  BY <1>6, <2>1
    <2> QED  BY <1>5, <1>7, <1>10, <2>2
<1> DEFINE Hits == {d \in 1 .. n : up[d] = city}
<1>12. PICK h \in Hits : \A e \in Hits : h <= e
    <2>1. Hits \subseteq Nat /\ Hits # {}  BY <1>7, <1>11
    <2> HIDE DEF Hits
    <2> QED  BY <2>1, SmallestNat
<1>13. h \in 1 .. n /\ up[h] = city  OBVIOUS
<1> DEFINE k == h - 1
<1>14. /\ k \in 0 .. Climbs /\ k # Climbs /\ k + 1 = h
       /\ \A j \in 0 .. k - 1 : j + 1 \in 1 .. n /\ (j + 1) - 1 = j /\ ~(h <= j + 1)
    BY <1>7, <1>13
<1>15. ASSUME NEW j \in 0 .. k - 1 PROVE info[up[j]].type > 1 /\ up[j + 1] # city
    <2>1. j + 1 \in 1 .. n /\ (j + 1) - 1 = j /\ ~(h <= j + 1)  BY <1>14
    <2>2. info[up[j]] = p[j + 1] /\ p[j + 1].type > 1  BY <1>8, <1>10, <2>1
    <2>3. j + 1 \notin Hits  BY <1>12, <2>1
    <2> QED  BY <2>1, <2>2, <2>3
<1>16. info[up[k]].type > 1 /\ up[k + 1] = city
    <2>1. info[up[h - 1]] = p[h] /\ p[h].type > 1  BY <1>8, <1>10, <1>13
    <2> QED  BY <1>13, <1>14, <2>1
<1> HIDE DEF k
<1>17. k \in Climbed(info, city, l.id) \ {Climbs}  BY <1>14, <1>15 DEF Climbed, up
<1>18. ~(info[city].type <= 1) /\ ~(info[l.id].type <= 1)
    <2>1. l.id \in AnyId /\ info[l.id] = l  BY <1>2
    <2>2. info[l.id].type > 1  BY <1>5, <1>7, <1>8, <2>1
    <2>3. \A t \in Int : t > 1 => ~(t <= 1)  OBVIOUS
    <2> QED  BY <1>1, <2>1, <2>2, <2>3 DEF info
<1>19. IsFatherSon(info, city, l.id) = 1  BY <1>16, <1>17, <1>18 DEF IsFatherSon, up
<1> QED  BY <1>19 DEF info

\* What the answer to an offer lists.
LEMMA OfferLists ==
    ASSUME IInv, TypeInv, FileInv, NEW cata, NEW str, ProcessOffer(cata, str)
    PROVE  /\ \A k \in 1 .. Len(out'.landmarks) :
                 \E l \in FirstLines : l.name = out'.landmarks[k] /\ Under(l, out'.city)
           /\ \A l \in FirstLines :
                 \/ l.name \notin str \/ l.name \notin DOMAIN acLM \/ acLM[l.name] # l.id
                 \/ out'.city = 0 \/ ~Under(l, out'.city)
                 \/ \E j \in 1 .. Len(out'.landmarks) : <<l.name, out'.landmarks[j]>> \in Inside
           /\ out'.str = str
<1> DEFINE info == Info(mLandmarkInfo)
<1>1. PICK city \in DOMAIN mCityInfo \cup {0}, ids \in SUBSET AnyId, found \in SUBSET AnyId :
         /\ city # 0 => city \in DOMAIN mCityInfo /\ mCityInfo[city].type \in {2, 3}
         /\ ids = IF city = 0 THEN {} ELSE Match(acLM, str)
         /\ found = InCity(info, city, ids)
         /\ out'.str = str /\ out'.city = city
         /\ out'.landmarks = Listed(info, found)
    BY OfferOut
<1>2. Maps(mCityInfo, Id, Entry) /\ Maps(mLandmarkInfo, AnyId, Entry) /\ Maps(acLM, Names, Id)
    BY TypeParts DEF Places
<1>3. Id \subseteq AnyId /\ Id \subseteq Int  BY LinesAssumption DEF Id, AnyId
<1>4. city \in AnyId /\ city \in Int
    <2>1. city \in Id \cup {0}  BY <1>2 DEF Maps
    <2>2. 0 \in AnyId /\ 0 \in Int  BY ZeroFields
    <2>3. CASE city = 0  BY <2>2, <2>3
    <2>4. CASE city \in Id  BY <1>3, <2>4
    <2> QED  BY <2>1, <2>3, <2>4
<1>5. ids \subseteq Id /\ IsFiniteSet(ids)
    <2>1. Match(acLM, str) \subseteq Id  BY <1>2 DEF Maps, Match
    <2>2. IsFiniteSet(Match(acLM, str)) /\ IsFiniteSet({})  BY MatchFinite, FS_EmptySet DEF TypeInv
    <2> QED  BY <1>1, <2>1, <2>2
<1>6. \A i \in ids : info[i].id = i
    <2>1. \A i \in ids : i \in Match(acLM, str)  BY <1>1
    <2>2. \A i \in Match(acLM, str) : i \in DOMAIN mLandmarkInfo /\ mLandmarkInfo[i].id = i
        BY DEF IInv, Known, Match
    <2>3. \A i \in AnyId : i \in DOMAIN mLandmarkInfo => info[i] = mLandmarkInfo[i]  BY DEF Info, At
    <2> QED  BY <1>1, <2>1, <2>2, <2>3
<1>7. found = {i \in ids : IsFatherSon(info, city, i) = 1}  BY <1>1, <1>6 DEF InCity
<1>8. /\ \A l \in FirstLines : l.id \in AnyId /\ info[l.id] = l /\ l.name \in Names
      /\ \A i \in found : Under(info[i], city) /\ info[i] \in FirstLines
    BY <1>4, <1>7, InfoRead, FatherIsAbove
<1>9. \A i \in found : <<info[i].name, info[i].name>> \in Inside  BY <1>8, InsideAssumption
<1>10. found \subseteq ids /\ IsFiniteSet(found) /\ found \subseteq Int  BY <1>3, <1>5, <1>7, FS_Subset
<1> DEFINE list == Listed(info, found)
           N == {info[i].name : i \in found}
<1> HIDE DEF info
<1>11. /\ list \in Seq(N)
       /\ \A i \in found : \E k \in 1 .. Len(list) : <<info[i].name, list[k]>> \in Inside
    BY <1>9, <1>10, ListedNames
<1> HIDE DEF list
<1>12. ASSUME NEW k \in 1 .. Len(list) PROVE \E l \in FirstLines : l.name = list[k] /\ Under(l, city)
    <2>1. list[k] \in N
        <3> HIDE DEF N
        <3> QED  BY <1>11
    <2>2. PICK i \in found : list[k] = info[i].name  BY <2>1
    <2> QED  BY <1>8, <2>2
<1>13. ASSUME NEW l \in FirstLines, l.name \in str, l.name \in DOMAIN acLM, acLM[l.name] = l.id,
              city # 0, Under(l, city)
       PROVE  \E j \in 1 .. Len(list) : <<l.name, list[j]>> \in Inside
    <2>1. city # 0  BY <1>13
    <2>2. l.id \in ids  BY <1>1, <1>13 DEF Match
    <2>3. info[city].type > 1
        <3>1. city \in DOMAIN mCityInfo /\ mCityInfo[city].type \in {2, 3}  BY <1>1, <2>1
        <3>2. city \in DOMAIN mLandmarkInfo /\ mLandmarkInfo[city] = mCityInfo[city]
            BY <3>1 DEF IInv, CitiesAreLandmarks
        <3>3. info[city] = mLandmarkInfo[city]  BY <1>4, <3>2 DEF info, Info, At
        <3>4. \A t \in {2, 3} : t > 1  OBVIOUS
        <3> QED  BY <3>1, <3>2, <3>3, <3>4
    <2>4. IsFatherSon(info, city, l.id) = 1  BY <1>4, <1>13, <2>3, AboveIsFather DEF info
    <2>5. l.id \in found  BY <1>7, <2>2, <2>4
    <2> QED  BY <1>8, <1>11, <2>5
<1>14. out'.landmarks = list /\ out'.city = city /\ out'.str = str  BY <1>1 DEF list, info
<1> QED  BY <1>12, <1>13, <1>14

\* The lines of the city file: the first with its id, the last with its name.
FirstOfId(k) == \A j \in 1 .. k - 1 : cities[j].id # cities[k].id
LastOfName(k) == \A j \in k + 1 .. Len(cities) : cities[j].name # cities[k].name

\* The map and the automaton of cities have what the city lines say and nothing
\* else: the map the first line with an id, the automaton the last with a name.
CitiesKept ==
    \A k \in 1 .. Len(cities) :
        cities[k].id \in DOMAIN mCityInfo /\ (FirstOfId(k) => mCityInfo[cities[k].id] = cities[k])
KeptCities ==
    \A i \in DOMAIN mCityInfo :
        \E k \in 1 .. Len(cities) : FirstOfId(k) /\ cities[k].id = i /\ mCityInfo[i] = cities[k]
CitiesNamedLast ==
    \A k \in 1 .. Len(cities) :
        LastOfName(k) => cities[k].name \in DOMAIN acCity /\ acCity[cities[k].name] = cities[k].id
NamedCities ==
    \A m \in DOMAIN acCity :
        \E k \in 1 .. Len(cities) : LastOfName(k) /\ cities[k].name = m /\ acCity[m] = cities[k].id

CityFileInv == cities \in Seq(Entry) /\ CitiesKept /\ KeptCities /\ CitiesNamedLast /\ NamedCities

\* A city line is taken in.
LEMMA CityTaken ==
    ASSUME CityFileInv, NEW item \in Entry, cities' = Append(cities, item),
           mCityInfo' = Keep(mCityInfo, item.id, item), acCity' = Put(acCity, item.name, item.id)
    PROVE  CityFileInv'
<1>0. PICK n \in Nat : n = Len(cities)  BY DEF CityFileInv
<1>1. /\ cities' \in Seq(Entry) /\ Len(cities') = n + 1 /\ cities'[n + 1] = item
      /\ \A k \in 1 .. n : cities'[k] = cities[k]
    <2> DEFINE E == Entry
    <2>1. cities \in Seq(E) /\ item \in E  BY DEF CityFileInv
    <2> HIDE DEF E
    <2>2. /\ cities' \in Seq(E) /\ Len(cities') = n + 1 /\ cities'[n + 1] = item
          /\ \A k \in 1 .. n : cities'[k] = cities[k]
        BY <1>0, <2>1
    <2> QED  BY <2>2 DEF E
<1>2. /\ \A k \in 1 .. n + 1 : k = n + 1 \/ k \in 1 .. n
      /\ \A k \in 1 .. n : k \in 1 .. n + 1 /\ k # n + 1
      /\ \A k \in 1 .. n : \A j \in 1 .. k - 1 : j \in 1 .. n
      /\ \A k \in 1 .. n : n + 1 \in k + 1 .. n + 1 /\ \A j \in k + 1 .. n : j \in 1 .. n /\ j \in k + 1 .. n + 1
      /\ \A k \in 1 .. n : \A j \in k + 1 .. n + 1 : j = n + 1 \/ j \in k + 1 .. n
      /\ \A j \in (n + 1) + 1 .. n + 1 : FALSE
      /\ (n + 1) - 1 = n /\ n + 1 \in 1 .. n + 1
    OBVIOUS
<1>3. /\ DOMAIN mCityInfo' = DOMAIN mCityInfo \cup {item.id}
      /\ \A i \in DOMAIN mCityInfo : mCityInfo'[i] = mCityInfo[i]
      /\ item.id \notin DOMAIN mCityInfo => mCityInfo'[item.id] = item
    BY DEF Keep, Merged
<1>4. /\ DOMAIN acCity' = DOMAIN acCity \cup {item.name} /\ acCity'[item.name] = item.id
      /\ \A m \in DOMAIN acCity : m # item.name => acCity'[m] = acCity[m]
    BY DEF Put, Merged
<1>5. \A k \in 1 .. n : FirstOfId(k)' <=> FirstOfId(k)  BY <1>1, <1>2 DEF FirstOfId
<1>6. FirstOfId(n + 1)' <=> \A j \in 1 .. n : cities[j].id # item.id  BY <1>1, <1>2 DEF FirstOfId
<1>7. /\ \A k \in 1 .. n : LastOfName(k)' <=> LastOfName(k) /\ cities[k].name # item.name
      /\ LastOfName(n + 1)'
    <2>1. ASSUME NEW k \in 1 .. n PROVE LastOfName(k)' <=> LastOfName(k) /\ cities[k].name # item.name
        <3>1. LastOfName(k)' <=> \A j \in k + 1 .. n + 1 : cities'[j].name # cities'[k].name
            BY <1>1 DEF LastOfName
        <3>2. LastOfName(k) <=> \A j \in k + 1 .. n : cities[j].name # cities[k].name
            BY <1>0 DEF LastOfName
        <3> QED  BY <1>1, <1>2, <3>1, <3>2
    <2>2. LastOfName(n + 1)'  BY <1>1, <1>2 DEF LastOfName
    <2> QED  BY <2>1, <2>2
<1>8. \A k \in 1 .. n : cities[k].id \in DOMAIN mCityInfo /\ (FirstOfId(k) => mCityInfo[cities[k].id] = cities[k])
    BY <1>0 DEF CityFileInv, CitiesKept
<1>9. \A i \in DOMAIN mCityInfo : \E k \in 1 .. n : FirstOfId(k) /\ cities[k].id = i /\ mCityInfo[i] = cities[k]
    BY <1>0 DEF CityFileInv, KeptCities
<1>10. FirstOfId(n + 1)' <=> item.id \notin DOMAIN mCityInfo  BY <1>6, <1>8, <1>9
<1>11. CitiesKept'
    <2> SUFFICES ASSUME NEW k \in 1 .. n + 1
                 PROVE  cities'[k].id \in DOMAIN mCityInfo' /\ (FirstOfId(k)' => mCityInfo'[cities'[k].id] = cities'[k])
        BY <1>1 DEF CitiesKept
    <2>1. CASE k = n + 1  BY <1>1, <1>3, <1>10, <2>1
    <2>2. CASE k \in 1 .. n  BY <1>1, <1>3, <1>5, <1>8, <2>2
    <2> QED  BY <1>2, <2>1, <2>2
<1>12. KeptCities'
    <2> SUFFICES ASSUME NEW i \in DOMAIN mCityInfo'
                 PROVE  \E k \in 1 .. n + 1 : FirstOfId(k)' /\ cities'[k].id = i /\ mCityInfo'[i] = cities'[k]
        BY <1>1 DEF KeptCities
    <2>1. CASE i \in DOMAIN mCityInfo
        <3>1. PICK k \in 1 .. n : FirstOfId(k) /\ cities[k].id = i /\ mCityInfo[i] = cities[k]  BY <1>9, <2>1
        <3> QED  BY <1>1, <1>2, <1>3, <1>5, <2>1, <3>1
    <2>2. CASE i \notin DOMAIN mCityInfo
        <3>1. i = item.id  BY <1>3, <2>2
        <3> QED  BY <1>1, <1>2, <1>3, <1>10, <2>2, <3>1
    <2> QED  BY <2>1, <2>2
<1>13. CitiesNamedLast'
    <2> SUFFICES ASSUME NEW k \in 1 .. n + 1, LastOfName(k)'
                 PROVE  cities'[k].name \in DOMAIN acCity' /\ acCity'[cities'[k].name] = cities'[k].id
        BY <1>1 DEF CitiesNamedLast
    <2>1. CASE k = n + 1  BY <1>1, <1>4, <2>1
    <2>2. CASE k \in 1 .. n
        <3>1. LastOfName(k) /\ cities[k].name # item.name  BY <1>7, <2>2
        <3>2. cities[k].name \in DOMAIN acCity /\ acCity[cities[k].name] = cities[k].id
            BY <1>0, <2>2, <3>1 DEF CityFileInv, CitiesNamedLast
        <3> QED  BY <1>1, <1>4, <2>2, <3>1, <3>2
    <2> QED  BY <1>2, <2>1, <2>2
<1>14. NamedCities'
    <2> SUFFICES ASSUME NEW m \in DOMAIN acCity'
                 PROVE  \E k \in 1 .. n + 1 : LastOfName(k)' /\ cities'[k].name = m /\ acCity'[m] = cities'[k].id
        BY <1>1 DEF NamedCities
    <2>1. CASE m = item.name  BY <1>1, <1>2, <1>4, <1>7, <2>1
    <2>2. CASE m # item.name
        <3>1. m \in DOMAIN acCity /\ acCity'[m] = acCity[m]  BY <1>4, <2>2
        <3>2. PICK k \in 1 .. n : LastOfName(k) /\ cities[k].name = m /\ acCity[m] = cities[k].id
            BY <1>0, <3>1 DEF CityFileInv, NamedCities
        <3>3. LastOfName(k)'  BY <1>7, <2>2, <3>2
        <3> QED  BY <1>1, <1>2, <3>1, <3>2, <3>3
    <2> QED  BY <2>1, <2>2
<1> QED  BY <1>1, <1>11, <1>12, <1>13, <1>14 DEF CityFileInv

\* No city line is read at first.
LEMMA InitCities == Init => CityFileInv
<1> SUFFICES ASSUME Init PROVE CityFileInv  OBVIOUS
<1>1. cities = << >> /\ mCityInfo = << >> /\ acCity = << >>  BY DEF Init
<1>2. (\A k \in 1 .. Len(cities) : FALSE) /\ cities \in Seq(Entry)  BY <1>1
<1> QED  BY <1>1, <1>2 DEF CityFileInv, CitiesKept, KeptCities, CitiesNamedLast, NamedCities

\* Every step keeps what the city file says.
LEMMA NextCities == IInv /\ CityFileInv /\ [Next]_vars => CityFileInv'
<1> SUFFICES ASSUME IInv, CityFileInv, [Next]_vars PROVE CityFileInv'  OBVIOUS
<1>1. ASSUME DOMAIN mCityInfo' = DOMAIN mCityInfo, \A i \in DOMAIN mCityInfo : mCityInfo'[i] = mCityInfo[i],
             UNCHANGED <<acCity, cities>>
      PROVE  CityFileInv'
    <2>1. \A k : (FirstOfId(k)' <=> FirstOfId(k)) /\ (LastOfName(k)' <=> LastOfName(k))
        BY <1>1 DEF FirstOfId, LastOfName
    <2>2. cities' \in Seq(Entry)  BY <1>1 DEF CityFileInv
    <2>3. CitiesKept' /\ KeptCities'
        <3>1. CitiesKept'  BY <1>1, <2>1 DEF CityFileInv, CitiesKept
        <3>2. KeptCities'  BY <1>1, <2>1 DEF CityFileInv, KeptCities
        <3> QED  BY <3>1, <3>2
    <2>4. CitiesNamedLast' /\ NamedCities'
        <3>1. CitiesNamedLast'  BY <1>1, <2>1 DEF CityFileInv, CitiesNamedLast
        <3>2. NamedCities'  BY <1>1, <2>1 DEF CityFileInv, NamedCities
        <3> QED  BY <3>1, <3>2
    <2> QED  BY <2>2, <2>3, <2>4 DEF CityFileInv
<1>2. CASE LoadInfo \/ CitiesRead \/ LandmarksRead \/ ShopsRead \/ TDProcess \/ OffersDone \/ UNCHANGED vars
    BY <1>1, <1>2 DEF LoadInfo, CitiesRead, LandmarksRead, ShopsRead, TDProcess, OffersDone, vars, places, history
<1>3. ASSUME NEW l \in CityLines, TDProcessLineCity(l) PROVE CityFileInv'
    <2> DEFINE item == [l EXCEPT !.name = CutTail(l.name)]
    <2>1. CASE UNCHANGED <<places, history>>  BY <1>1, <2>1 DEF places, history
    <2>2. CASE l.name \notin County /\ item.name \notin Short
        <3>1. /\ cities' = Append(cities, item)
              /\ mCityInfo' = Keep(mCityInfo, l.id, item) /\ acCity' = Put(acCity, item.name, l.id)
            BY <1>3, <2>2 DEF TDProcessLineCity
        <3>2. item \in Entry /\ item.id = l.id  BY LineFields DEF Lines
        <3> HIDE DEF item
        <3> QED  BY <3>1, <3>2, CityTaken
    <2> QED  BY <1>3, <2>1, <2>2 DEF TDProcessLineCity
<1>4. CASE \E l \in LandmarkLines : TDProcessLineLM(l)  BY <1>1, <1>4 DEF TDProcessLineLM
<1>5. CASE \E l \in ShopLines : TDProcessLineShop(l)  BY <1>1, <1>5 DEF TDProcessLineShop, places, history
<1>6. ASSUME NEW cata, NEW str, ProcessOffer(cata, str) PROVE CityFileInv'
    <2>1. PICK ids \in SUBSET DOMAIN mCityInfo : mCityInfo' = Touch(mCityInfo, ids, Zero)  BY <1>6, OfferTouches
    <2>2. UNCHANGED <<acCity, cities>>  BY <1>6 DEF ProcessOffer, history
    <2>3. DOMAIN mCityInfo' = DOMAIN mCityInfo /\ \A i \in DOMAIN mCityInfo : mCityInfo'[i] = mCityInfo[i]
        BY <2>1 DEF Touch, Merged
    <2> QED  BY <1>1, <2>2, <2>3
<1> QED  BY <1>2, <1>3, <1>4, <1>5, <1>6 DEF Next

\* What the automaton and the map of cities make of a text is what the lines say.
LEMMA CitiesAreNamed ==
    ASSUME CityFileInv, NEW text
    PROVE  Cities(Match(acCity, text)) = CitiesNamed(text)
<1> DEFINE last == {k \in 1 .. Len(cities) : LastOfName(k)}
           first == {k \in 1 .. Len(cities) : FirstOfId(k)}
           city == {cities[k].id : k \in {k \in first : cities[k].type \in {2, 3}}}
           named == {cities[k].id : k \in {k \in last : cities[k].name \in text}}
<1>1. CitiesNamed(text) = named \cap city  BY DEF CitiesNamed, LastOfName, FirstOfId
<1>2. Match(acCity, text) = named
    <2>1. ASSUME NEW m \in DOMAIN acCity, m \in text PROVE acCity[m] \in named
        <3>1. PICK k \in 1 .. Len(cities) : LastOfName(k) /\ cities[k].name = m /\ acCity[m] = cities[k].id
            BY DEF CityFileInv, NamedCities
        <3> QED  BY <2>1, <3>1
    <2>2. ASSUME NEW k \in last, cities[k].name \in text PROVE cities[k].id \in Match(acCity, text)
        <3>1. cities[k].name \in DOMAIN acCity /\ acCity[cities[k].name] = cities[k].id
            BY DEF CityFileInv, CitiesNamedLast
        <3> QED  BY <2>2, <3>1 DEF Match
    <2> HIDE DEF last
    <2> QED  BY <2>1, <2>2 DEF Match
<1>3. ASSUME NEW i \in named PROVE At(mCityInfo, i, Zero).type \in {2, 3} <=> i \in city
    <2>1. PICK k \in 1 .. Len(cities) : i = cities[k].id  OBVIOUS
    <2>2. i \in DOMAIN mCityInfo  BY <2>1 DEF CityFileInv, CitiesKept
    <2>3. At(mCityInfo, i, Zero) = mCityInfo[i]  BY <2>2 DEF At
    <2>4. \A j \in first : cities[j].id = i => mCityInfo[i] = cities[j]  BY DEF CityFileInv, CitiesKept
    <2>5. PICK j \in first : cities[j].id = i /\ mCityInfo[i] = cities[j]  BY <2>2 DEF CityFileInv, KeptCities
    <2> HIDE DEF first
    <2>6. i \in city <=> \E h \in first : cities[h].id = i /\ cities[h].type \in {2, 3}  OBVIOUS
    <2> QED  BY <2>3, <2>4, <2>5, <2>6
<1> HIDE DEF named, city
<1> QED  BY <1>1, <1>2, <1>3 DEF Cities

\* Of a text with cities, FirstCity is the one with the least id.
LEMMA FirstIsLeast ==
    ASSUME IInv, TypeInv, NEW text, Cities(Match(acCity, text)) # {}
    PROVE  LET S == Cities(Match(acCity, text))
           IN  FirstCity(Match(acCity, text)) \in S /\ \A i \in S : FirstCity(Match(acCity, text)) <= i
<1> DEFINE ids == Match(acCity, text)
           c == Min(Cities(ids))
<1>1. IsFiniteSet(ids)  BY MatchFinite DEF TypeInv
<1>2. ids \subseteq DOMAIN mCityInfo /\ ids \subseteq Int
    <2>1. ids \subseteq DOMAIN mCityInfo  BY DEF IInv, Known, Match
    <2>2. Maps(mCityInfo, Id, Entry)  BY TypeParts DEF Places
    <2>3. Id \subseteq Int  BY LinesAssumption DEF Id
    <2> QED  BY <2>1, <2>2, <2>3 DEF Maps
<1>3. Cities(ids) \subseteq ids /\ IsFiniteSet(Cities(ids))  BY <1>1, FS_Subset DEF Cities
<1>4. c \in Cities(ids) /\ \A i \in Cities(ids) : c <= i  BY <1>2, <1>3, Extremes
<1>5. FirstCity(ids) = At(mCityInfo, c, Zero).id  BY DEF FirstCity
<1> HIDE DEF ids, c
<1>6. At(mCityInfo, c, Zero) = mCityInfo[c] /\ c \in DOMAIN mCityInfo  BY <1>2, <1>3, <1>4 DEF At
<1>7. mCityInfo[c].id = c  BY <1>6 DEF IInv, CitiesOwn
<1> QED  BY <1>4, <1>5, <1>6, <1>7 DEF ids

\* CitiesNamed and CityFromFiles, for any city lines and any answer.
NamedIn(cs, text) ==
    LET last == {k \in 1 .. Len(cs) : \A j \in k + 1 .. Len(cs) : cs[j].name # cs[k].name}
        first == {k \in 1 .. Len(cs) : \A j \in 1 .. k - 1 : cs[j].id # cs[k].id}
        city == {cs[k].id : k \in {k \in first : cs[k].type \in {2, 3}}}
    IN  {cs[k].id : k \in {k \in last : cs[k].name \in text}} \cap city
TrueOf(cs, answer) ==
    answer # << >> =>
        LET named == NamedIn(cs, IF NamedIn(cs, answer.cata) # {} THEN answer.cata ELSE answer.str)
        IN  /\ named = {} => answer.city = 0
            /\ named # {} => answer.city \in named /\ \A i \in named : answer.city <= i

\* They are these of the lines read and the answer written.
LEMMA CityParts ==
    /\ \A text : CitiesNamed(text) = NamedIn(cities, text)
    /\ CityFromFiles <=> TrueOf(cities, out)
    /\ CityFromFiles' <=> TrueOf(cities', out')
<1>1. \A text : CitiesNamed(text) = NamedIn(cities, text)  BY DEF CitiesNamed, NamedIn
<1>2. CityFromFiles <=> TrueOf(cities, out)  BY DEF CityFromFiles, CitiesNamed, TrueOf, NamedIn
<1>3. CityFromFiles' <=> TrueOf(cities', out')  BY DEF CityFromFiles, CitiesNamed, TrueOf, NamedIn
<1> QED  BY <1>1, <1>2, <1>3

\* Every step keeps the city of the answer true to the city file.
LEMMA NextCity ==
    IInv /\ TypeInv /\ FileInv /\ CityFileInv /\ CityFromFiles /\ [Next]_vars => CityFromFiles'
<1> SUFFICES ASSUME IInv, TypeInv, FileInv, CityFileInv, CityFromFiles, [Next]_vars PROVE CityFromFiles'
    OBVIOUS
<1>1. ASSUME UNCHANGED <<cities, out>> PROVE CityFromFiles'  BY <1>1, CityParts
<1>2. CASE LoadInfo \/ CitiesRead \/ LandmarksRead \/ ShopsRead \/ TDProcess \/ OffersDone \/ UNCHANGED vars
    BY <1>1, <1>2 DEF LoadInfo, CitiesRead, LandmarksRead, ShopsRead, TDProcess, OffersDone, vars, history
<1>3. CASE \E l \in CityLines : TDProcessLineCity(l)
    <2>1. pc = "city" /\ out' = out  BY <1>3 DEF TDProcessLineCity
    <2>2. out' = << >>  BY <2>1 DEF FileInv, OutIsLate
    <2> QED  BY <2>2 DEF CityFromFiles
<1>4. CASE \E l \in LandmarkLines : TDProcessLineLM(l)  BY <1>1, <1>4 DEF TDProcessLineLM
<1>5. CASE \E l \in ShopLines : TDProcessLineShop(l)  BY <1>1, <1>5 DEF TDProcessLineShop, history
<1>6. ASSUME NEW cata, NEW str, ProcessOffer(cata, str) PROVE CityFromFiles'
    <2> DEFINE text == IF Cities(Match(acCity, cata)) # {} THEN cata ELSE str
    <2>1. /\ out'.cata = cata /\ out'.str = str /\ out'.city = FirstCity(Match(acCity, text))
          /\ cities' = cities
        BY <1>6 DEF ProcessOffer, history
    <2>2. Cities(Match(acCity, text)) = CitiesNamed(text) /\ text = IF CitiesNamed(cata) # {} THEN cata ELSE str
        BY CitiesAreNamed
    <2> HIDE DEF text
    <2>3. CitiesNamed(text) = {} => out'.city = 0  BY <2>1, <2>2 DEF FirstCity
    <2>4. CitiesNamed(text) # {} => out'.city \in CitiesNamed(text) /\ \A i \in CitiesNamed(text) : out'.city <= i
        BY <2>1, <2>2, FirstIsLeast
    <2>5. PICK o, cs : o = out' /\ cs = cities  OBVIOUS
    <2>6. \A t : CitiesNamed(t) = NamedIn(cs, t)  BY <2>5, CityParts
    <2>7. TrueOf(cs, o)  BY <2>1, <2>2, <2>3, <2>4, <2>5, <2>6 DEF TrueOf
    <2> QED  BY <2>1, <2>5, <2>7, CityParts
<1> QED  BY <1>2, <1>3, <1>4, <1>5, <1>6 DEF Next

\* For all files and offers, the city of an answer is the one with the least id
\* among those that the city file names in the category or else in the text,
\* however ids and names repeat, whatever the landmark file has of the same ids
\* and names, and whatever earlier offers looked up (TuanDanProcessor.cpp:482-530).
THEOREM CityIsFirst == Spec => []CityFromFiles
<1>1. Init => CityFromFiles  BY DEF Init, CityFromFiles
<1> QED  BY <1>1, InitInv, NextInv, InitTypes, NextTypes, InitFiles, NextFiles, InitCities, NextCities,
            NextCity, PTL DEF Spec

\* Every step keeps the answer true to the files.
LEMMA NextAnswers ==
    IInv /\ TypeInv /\ FileInv /\ LandmarksInCity /\ NoLandmarkLost /\ [Next]_vars
        => LandmarksInCity' /\ NoLandmarkLost'
<1> SUFFICES ASSUME IInv, TypeInv, FileInv, LandmarksInCity, NoLandmarkLost, [Next]_vars
             PROVE  LandmarksInCity' /\ NoLandmarkLost'
    OBVIOUS
<1>1. ASSUME UNCHANGED <<read, out>> PROVE LandmarksInCity' /\ NoLandmarkLost'
    <2>1. \A j : Under(read[j], out.city)' <=> Under(read[j], out.city)  BY <1>1 DEF Under
    <2> QED  BY <1>1, <2>1 DEF LandmarksInCity, NoLandmarkLost
<1>2. ASSUME pc \notin {"work", "end"}, out' = out PROVE LandmarksInCity' /\ NoLandmarkLost'
    <2>1. out' = << >>  BY <1>2 DEF FileInv, OutIsLate
    <2> QED  BY <2>1 DEF LandmarksInCity, NoLandmarkLost
<1>3. CASE LoadInfo \/ CitiesRead \/ LandmarksRead \/ ShopsRead \/ TDProcess \/ OffersDone \/ UNCHANGED vars
    BY <1>1, <1>3 DEF LoadInfo, CitiesRead, LandmarksRead, ShopsRead, TDProcess, OffersDone, vars, history
<1>4. CASE \E l \in CityLines : TDProcessLineCity(l)  BY <1>2, <1>4 DEF TDProcessLineCity
<1>5. CASE \E l \in LandmarkLines : TDProcessLineLM(l)  BY <1>2, <1>5 DEF TDProcessLineLM
<1>6. CASE \E l \in ShopLines : TDProcessLineShop(l)  BY <1>1, <1>6 DEF TDProcessLineShop, history
<1>7. ASSUME NEW cata, NEW str, ProcessOffer(cata, str) PROVE LandmarksInCity' /\ NoLandmarkLost'
    <2>1. read' = read  BY <1>7, OfferOut
    <2>2. PICK city, list : city = out'.city /\ list = out'.landmarks  OBVIOUS
    <2>3. /\ \A k \in 1 .. Len(list) : \E l \in FirstLines : l.name = list[k] /\ Under(l, city)
          /\ \A l \in FirstLines :
                \/ l.name \notin str \/ l.name \notin DOMAIN acLM \/ acLM[l.name] # l.id
                \/ city = 0 \/ ~Under(l, city)
                \/ \E j \in 1 .. Len(list) : <<l.name, list[j]>> \in Inside
          /\ out'.str = str
        BY <1>7, <2>2, OfferLists
    <2>4. \A j : Under(read[j], out.city)' <=> Under(read[j], city)  BY <2>1, <2>2 DEF Under
    <2>5. ASSUME NEW k \in 1 .. Len(list)
          PROVE  \E j \in 1 .. Len(read) : read[j].name = list[k] /\ Under(read[j], city)
        BY <2>3 DEF FirstLines
    <2>6. LandmarksInCity'  BY <2>1, <2>2, <2>4, <2>5 DEF LandmarksInCity
    <2>7. ASSUME NEW k \in 1 .. Len(read), read[k].name \in str,
                 \A j \in 1 .. k - 1 : read[j].id # read[k].id,
                 \A j \in k + 1 .. Len(read) : read[j].name # read[k].name,
                 city # 0, Under(read[k], city)
          PROVE  \E j \in 1 .. Len(list) : <<read[k].name, list[j]>> \in Inside
        <3>1. read[k].name \in DOMAIN acLM /\ acLM[read[k].name] = read[k].id
            BY <2>7 DEF FileInv, LastNamed
        <3>2. read[k] \in FirstLines  BY <2>7 DEF FirstLines, First
        <3> QED  BY <2>3, <2>7, <3>1, <3>2
    <2>8. NoLandmarkLost'  BY <2>1, <2>2, <2>3, <2>4, <2>7 DEF NoLandmarkLost
    <2> QED  BY <2>6, <2>8
<1> QED  BY <1>3, <1>4, <1>5, <1>6, <1>7 DEF Next

\* Together.
LEMMA AnswersTrue == Spec => [](LandmarksInCity /\ NoLandmarkLost)
<1>1. Init => LandmarksInCity /\ NoLandmarkLost  BY DEF Init, LandmarksInCity, NoLandmarkLost
<1> QED  BY <1>1, InitInv, NextInv, InitTypes, NextTypes, InitFiles, NextFiles, NextAnswers, PTL DEF Spec

\* For all files and offers, every landmark that an answer lists stands in the
\* files below the city of the answer, at most Climbs links away, however the
\* ids repeat and the fathers run in circles (TuanDanProcessor.cpp:548-568,
\* 622-652).
THEOREM ListedAreInCity == Spec => []LandmarksInCity
BY AnswersTrue, PTL

\* For all files and offers, a landmark that the offer names and the files put
\* below the city is in the answer, itself or as part of another name, unless
\* an earlier line has its id or a later one its name.
THEOREM NoneIsLost == Spec => []NoLandmarkLost
BY AnswersTrue, PTL
=============================================================================
