------------------------------ MODULE TuanDan ------------------------------
(***************************************************************************)
(* TuanDanProcessor: finds the city, the landmarks and the shop that an    *)
(* offer is about.  LoadInfo reads the city, landmark and shop files into  *)
(* three maps and three automata; TDProcess then answers line by line.     *)
(*                                                                         *)
(* A text is the set of the names that occur in it, and an automaton is    *)
(* the function from the names inserted to the id each got last: what      *)
(* get_match returns for it is shown in AhoCorasick (MatchExact).          *)
(***************************************************************************)
EXTENDS Integers, Sequences, FiniteSets, FiniteSetsExt

CONSTANTS
    Inside,         \* pairs <<m, n>>: name m occurs in name n
    Stem,           \* name -> name, for the names that CutTail shortens
    County,         \* names that end in the character for county
    Short,          \* names of less than 4 bytes
    CityLines, LandmarkLines,  \* lines [name, id, father_id, type]
    ShopLines,      \* lines [name, id, tag]
    ShortShop,      \* shop names of less than 7 bytes
    Junk,           \* what an uninitialised char array may hold
    Texts,          \* sets of names, closed under Inside
    Climbs,         \* links IsFatherSon follows: 10 in the code
    MaxLines,       \* bound: lines read by LoadInfo
    MaxOffers       \* bound: lines read by TDProcess

Lines == CityLines \cup LandmarkLines
Names == {l.name : l \in Lines} \cup {Stem[n] : n \in DOMAIN Stem}
Id == {l.id : l \in Lines}

\* Four fields; StrTo gives int.
ASSUME LinesAssumption ==
    Lines \subseteq [name : STRING, id : Int, father_id : Int, type : Int]

\* A name occurs in itself.
ASSUME InsideAssumption == \A n \in Names : <<n, n>> \in Inside

ASSUME BoundAssumption == Climbs \in Nat /\ MaxLines \in Nat /\ MaxOffers \in Nat

VARIABLES
    pc,             \* "start", "city", "landmark", "shop", "loaded", "work", "end"
    mCityInfo, mLandmarkInfo, mShopInfo,
    acCity, acLM, acShop,
    out,            \* the last line written to output_data
    read,           \* history variable: the city and landmark lines taken in
    cities,         \* history variable: the city lines among them
    lines, offers   \* lines read (bounded)

places == <<mCityInfo, mLandmarkInfo, acCity, acLM>>
shops == <<mShopInfo, acShop>>
history == <<read, cities>>
vars == <<pc, places, shops, out, history, lines, offers>>

Zero == [name |-> "", id |-> 0, father_id |-> 0, type |-> 0]
ZeroShop == [name |-> "", id |-> 0, addr |-> "", tag |-> ""]

\* std::map: what operator[] gives, insert (an entry stays), and the entries
\* that operator[] makes for the keys it does not find.
Merged(m, n) == [i \in DOMAIN m \cup DOMAIN n |-> IF i \in DOMAIN m THEN m[i] ELSE n[i]]
At(m, id, zero) == IF id \in DOMAIN m THEN m[id] ELSE zero
Keep(m, id, rec) == Merged(m, [i \in {id} |-> rec])
Touch(m, ids, zero) == Merged(m, [i \in ids |-> zero])

\* Aho_Corasick::insert and get_match.
Put(ac, name, id) == Merged([n \in {name} |-> id], ac)
Match(ac, text) == {ac[n] : n \in DOMAIN ac \cap text}

-----------------------------------------------------------------------------
Init ==
    /\ pc = "start"
    /\ mCityInfo = << >> /\ mLandmarkInfo = << >> /\ mShopInfo = << >>
    /\ acCity = << >> /\ acLM = << >> /\ acShop = << >>
    /\ out = << >> /\ read = << >> /\ cities = << >>
    /\ lines = 0 /\ offers = 0

\* The three files open, or the program ends.
LoadInfo ==
    /\ pc = "start"
    /\ pc' \in {"city", "end"}
    /\ UNCHANGED <<places, shops, out, history, lines, offers>>

CutTail(name) == IF name \in DOMAIN Stem THEN Stem[name] ELSE name

\* The line is taken in.
Take(l) == read' = Append(read, l)

TDProcessLineCity_CountAll(l) ==
    LET item == [l EXCEPT !.name = CutTail(l.name)]
    IN  /\ pc = "city" /\ lines < MaxLines
        /\ lines' = lines + 1
        /\ acCity' = Put(acCity, item.name, l.id)
        /\ acLM' = Put(acLM, item.name, l.id)
        /\ \/ /\ l.name \in County \/ item.name \in Short
              /\ UNCHANGED <<mCityInfo, mLandmarkInfo, history>>
           \/ /\ l.name \notin County /\ item.name \notin Short
              /\ mCityInfo' = Keep(mCityInfo, l.id, item)
              /\ mLandmarkInfo' = Keep(mLandmarkInfo, l.id, item)
              /\ Take(item) /\ cities' = Append(cities, item)
        /\ UNCHANGED <<pc, shops, out, offers>>
TDProcessLineCity(l) ==
    LET item == [l EXCEPT !.name = CutTail(l.name)]
    IN  /\ pc = "city" /\ lines < MaxLines
        /\ lines' = lines + 1
        /\ \/ /\ l.name \in County \/ item.name \in Short
              /\ UNCHANGED <<places, history>>
           \/ /\ l.name \notin County /\ item.name \notin Short
              /\ mCityInfo' = Keep(mCityInfo, l.id, item)
              /\ acCity' = Put(acCity, item.name, l.id)
              /\ mLandmarkInfo' = Keep(mLandmarkInfo, l.id, item)
              /\ acLM' = Put(acLM, item.name, l.id)
              /\ Take(item) /\ cities' = Append(cities, item)
        /\ UNCHANGED <<pc, shops, out, offers>>

CitiesRead ==
    /\ pc = "city"
    /\ pc' = "landmark"
    /\ UNCHANGED <<places, shops, out, history, lines, offers>>

\* What mLandmarkInfo[i] is for any i, found or made up.
AnyId == {0} \cup UNION {{l.id, l.father_id} : l \in Lines}
Info(lm) == [i \in AnyId |-> At(lm, i, Zero)]

\* son, its father, the father's father, ...
Chain(info, son) ==
    LET up[k \in 0 .. Climbs] == IF k = 0 THEN son ELSE info[up[k - 1]].father_id
    IN  up

\* The links followed from son before the loop ends, for whatever reason.
Climbed(info, father, son) ==
    LET up == Chain(info, son)
    IN  {k \in 0 .. Climbs : \A j \in 0 .. k - 1 : info[up[j]].type > 1 /\ up[j + 1] # father}

IsFatherSon_GivesUp(info, father, son) ==
    IF info[father].type <= 1 \/ info[son].type <= 1 THEN 0
    ELSE LET up == Chain(info, son)
         IN  IF \/ Climbs \in Climbed(info, father, son)
                \/ \E k \in Climbed(info, father, son) \ {Climbs} :
                     info[up[k]].type > 1 /\ up[k + 1] = father
             THEN 1 ELSE 0
IsFatherSon(info, father, son) ==
    IF info[father].type <= 1 \/ info[son].type <= 1 THEN 0
    ELSE LET up == Chain(info, son)
         IN  IF \E k \in Climbed(info, father, son) \ {Climbs} :
                    info[up[k]].type > 1 /\ up[k + 1] = father
             THEN 1 ELSE 0

\* The entries of mLandmarkInfo that IsFatherSon looks up.
LookedUp(info, father, son) ==
    {father} \cup {Chain(info, son)[k] : k \in Climbed(info, father, son)}

\* With the filter that is commented out in the code.
TDProcessLineLM_Filtered(l) ==
    /\ pc = "landmark" /\ lines < MaxLines
    /\ lines' = lines + 1
    /\ mLandmarkInfo' = Touch(mLandmarkInfo,
                              UNION {LookedUp(Info(mLandmarkInfo), c, l.id) : c \in DOMAIN mCityInfo}, Zero)
    /\ Take(l)
    /\ UNCHANGED <<pc, mCityInfo, acCity, acLM, shops, out, cities, offers>>
TDProcessLineLM(l) ==
    /\ pc = "landmark" /\ lines < MaxLines
    /\ lines' = lines + 1
    /\ \/ /\ l.id \in DOMAIN mLandmarkInfo
          /\ UNCHANGED <<mLandmarkInfo, acLM, read>>
       \/ /\ l.id \notin DOMAIN mLandmarkInfo
          /\ mLandmarkInfo' = Keep(mLandmarkInfo, l.id, l)
          /\ acLM' = Put(acLM, l.name, l.id)
          /\ Take(l)
    /\ UNCHANGED <<pc, mCityInfo, acCity, shops, out, cities, offers>>

LandmarksRead ==
    /\ pc = "landmark"
    /\ pc' = "shop"
    /\ UNCHANGED <<places, shops, out, history, lines, offers>>

\* The tag is printed over the address, and the tag left as it was.
TDProcessLineShop(l) ==
    /\ pc = "shop" /\ lines < MaxLines
    /\ lines' = lines + 1
    /\ \/ /\ l.name \in ShortShop
          /\ UNCHANGED shops
       \/ /\ l.name \notin ShortShop
          /\ \E junk \in Junk :
                mShopInfo' = Keep(mShopInfo, l.id, [name |-> l.name, id |-> l.id, addr |-> l.tag, tag |-> junk])
          /\ acShop' = Put(acShop, l.name, l.id)
    /\ UNCHANGED <<pc, places, out, history, offers>>

\* The files are closed and the automata built.
ShopsRead ==
    /\ pc = "shop"
    /\ pc' = "loaded"
    /\ UNCHANGED <<places, shops, out, history, lines, offers>>

-----------------------------------------------------------------------------
\* tuangou_data and output_data open, or the program ends.
TDProcess ==
    /\ pc = "loaded"
    /\ pc' \in {"work", "end"}
    /\ UNCHANGED <<places, shops, out, history, lines, offers>>

\* The matches that are cities or districts; the first of them ends the loop,
\* so that the test for conflicts with an earlier one is never made.
Cities_Province(ids) == {i \in ids : At(mCityInfo, i, Zero).type \in 1 .. 3}
Cities(ids) == {i \in ids : At(mCityInfo, i, Zero).type \in {2, 3}}
FirstCity(ids) ==
    IF Cities(ids) = {} THEN 0 ELSE At(mCityInfo, Min(Cities(ids)), Zero).id
Visited(ids) == {i \in ids : \A c \in Cities(ids) : i <= c}

\* The entries of mCityInfo looked up: the matches, and the city for its name.
CitiesLookedUp_Always(ids, city) == ids \cup {city}
CitiesLookedUp(ids, city) == ids \cup {c \in {city} : c # 0}

\* A landmark's name goes on the list unless it is in it, as part of another.
\* The list is one string with spaces between the names; no name has a space.
AddName(list, name) ==
    IF \E k \in 1 .. Len(list) : <<name, list[k]>> \in Inside THEN list ELSE Append(list, name)

\* The names of landmarks, in the order of their ids.
Listed(info, ids) ==
    LET list[T \in SUBSET ids] ==
            IF T = {} THEN << >> ELSE AddName(list[T \ {Max(T)}], info[Max(T)].name)
    IN  list[ids]

InCity(info, city, ids) == {i \in ids : IsFatherSon(info, city, info[i].id) = 1}

FirstShop(ids) == IF ids = {} THEN 0 ELSE At(mShopInfo, Min(ids), ZeroShop).id

\* city_id and lm_id are u_int: that they are not above 0 means that they are 0.
ProcessOffer(cata, str) ==
    LET info == Info(mLandmarkInfo)
        confirm_city == Cities(Match(acCity, cata)) # {}
        seen == Visited(Match(acCity, cata))
                \cup (IF confirm_city THEN {} ELSE Visited(Match(acCity, str)))
        city == FirstCity(Match(acCity, IF confirm_city THEN cata ELSE str))
        ids == IF city = 0 THEN {} ELSE Match(acLM, str)
        found == InCity(info, city, ids)
        shop == FirstShop(Match(acShop, str))
    IN  /\ pc = "work" /\ offers < MaxOffers
        /\ offers' = offers + 1
        /\ mCityInfo' = Touch(mCityInfo, CitiesLookedUp(seen, city), Zero)
        /\ mLandmarkInfo' = Touch(mLandmarkInfo,
               ids \cup UNION {LookedUp(info, city, info[i].id) : i \in ids},
               Zero)
        /\ mShopInfo' = Touch(mShopInfo, {shop}, ZeroShop)
        /\ out' = [cata |-> cata, str |-> str, city |-> city,
                   landmarks |-> Listed(info, found),
                   flag |-> IF city = 0 THEN 0
                            ELSE IF confirm_city \/ (found # {} /\ Max(found) # 0) THEN 2 ELSE 1,
                   shop |-> At(mShopInfo, shop, ZeroShop)]
        /\ UNCHANGED <<pc, acCity, acLM, acShop, history, lines>>

OffersDone ==
    /\ pc = "work"
    /\ pc' = "end"
    /\ UNCHANGED <<places, shops, out, history, lines, offers>>

Next ==
    \/ LoadInfo \/ CitiesRead \/ LandmarksRead \/ ShopsRead
    \/ \E l \in CityLines : TDProcessLineCity(l)
    \/ \E l \in LandmarkLines : TDProcessLineLM(l)
    \/ \E l \in ShopLines : TDProcessLineShop(l)
    \/ TDProcess \/ OffersDone
    \/ \E cata, str \in Texts : ProcessOffer(cata, str)

Spec == Init /\ [][Next]_vars

-----------------------------------------------------------------------------
Entry == [name : Names \cup {""}, id : Id \cup {0}, father_id : AnyId, type : Int]

\* Every variable has its type; operator[] can add entries to the map of
\* landmarks, for fathers that no line has as its id and for 0, and the entry 0
\* to the map of shops, but none to the map of cities.
TypeOK ==
    /\ pc \in {"start", "city", "landmark", "shop", "loaded", "work", "end"}
    /\ DOMAIN mCityInfo \subseteq Id /\ \A i \in DOMAIN mCityInfo : mCityInfo[i] \in Entry
    /\ DOMAIN mLandmarkInfo \subseteq AnyId
    /\ \A i \in DOMAIN mLandmarkInfo : mLandmarkInfo[i] \in Entry
    /\ DOMAIN acCity \subseteq Names /\ DOMAIN acLM \subseteq Names
    /\ \A n \in DOMAIN acCity : acCity[n] \in Id
    /\ \A n \in DOMAIN acLM : acLM[n] \in Id
    /\ DOMAIN mShopInfo \subseteq {l.id : l \in ShopLines} \cup {0}
    /\ out # << >> => out.flag \in 0 .. 2 /\ (out.flag = 0 <=> out.city = 0)
    /\ lines \in 0 .. MaxLines /\ offers \in 0 .. MaxOffers

\* Every id that an automaton can return has an entry of its own, never one
\* that a lookup made up, and a city has the same entry in both maps: this is
\* what lets TDProcess use operator[] on the matches, and IsFatherSon look for
\* a city among the landmarks (TuanDanProcessor.cpp:333-339, 387-391).
Known ==
    /\ \A n \in DOMAIN acCity :
        /\ acCity[n] \in DOMAIN mCityInfo \cap DOMAIN mLandmarkInfo
        /\ mCityInfo[acCity[n]].id = acCity[n]
        /\ mLandmarkInfo[acCity[n]] = mCityInfo[acCity[n]]
    /\ \A n \in DOMAIN acLM :
        acLM[n] \in DOMAIN mLandmarkInfo /\ mLandmarkInfo[acLM[n]].id = acLM[n]
    /\ \A n \in DOMAIN acShop :
        acShop[n] \in DOMAIN mShopInfo /\ mShopInfo[acShop[n]].id = acShop[n]

\* A way up: lines read, each the first with its id and no province, from l
\* to the one whose father is city.
Under(l, city) ==
    LET first == {read[k] : k \in {k \in 1 .. Len(read) : \A j \in 1 .. k - 1 : read[j].id # read[k].id}}
        links == {p \in first \X first : p[1].father_id = p[2].id /\ p[1].type > 1}
        paths == UNION {[1 .. n -> first] : n \in 1 .. Climbs}
    IN  \E p \in paths :
            /\ p[1] = l /\ p[Len(p)].father_id = city /\ p[Len(p)].type > 1
            /\ \A k \in 1 .. Len(p) - 1 : <<p[k], p[k + 1]>> \in links

\* TDProcess lists a landmark only with a city above it in the files, within
\* Climbs links, and only if the files name it so; a cycle of fathers or an
\* unknown father makes no landmark belong to the city.
LandmarksInCity ==
    out # << >> =>
        \A k \in 1 .. Len(out.landmarks) :
            \E j \in 1 .. Len(read) : read[j].name = out.landmarks[k] /\ Under(read[j], out.city)

\* No landmark is lost between the files and the answer: if its name is in the
\* offer and the city above it within Climbs links, then the answer has its
\* name, or a longer name that its name is part of.  The exceptions are those
\* of the maps: an earlier line has the id, or a later line took the name.
NoLandmarkLost ==
    out # << >> =>
        \A k \in 1 .. Len(read) :
            \/ read[k].name \notin out.str
            \/ \E j \in 1 .. k - 1 : read[j].id = read[k].id
            \/ \E j \in k + 1 .. Len(read) : read[j].name = read[k].name
            \/ out.city = 0
            \/ ~ Under(read[k], out.city)
            \/ \E j \in 1 .. Len(out.landmarks) : <<read[k].name, out.landmarks[j]>> \in Inside

\* The cities and districts named in a text: a name stands for the last city
\* line with it, an id for the first.
CitiesNamed(text) ==
    LET last == {k \in 1 .. Len(cities) : \A j \in k + 1 .. Len(cities) : cities[j].name # cities[k].name}
        first == {k \in 1 .. Len(cities) : \A j \in 1 .. k - 1 : cities[j].id # cities[k].id}
        city == {cities[k].id : k \in {k \in first : cities[k].type \in {2, 3}}}
    IN  {cities[k].id : k \in {k \in last : cities[k].name \in text}} \cap city

\* The city of an answer is the one the city file gives: the least id named in
\* the category or, when the category names no city, in the name and the
\* description; 0 when neither does.  Lines of the landmark file with the ids or
\* the names of cities, and what earlier offers looked up, have no part in it
\* (TuanDanProcessor.cpp:482-530).
CityFromFiles ==
    out # << >> =>
        LET named == CitiesNamed(IF CitiesNamed(out.cata) # {} THEN out.cata ELSE out.str)
        IN  /\ named = {} => out.city = 0
            /\ named # {} => out.city \in named /\ \A i \in named : out.city <= i
=============================================================================
