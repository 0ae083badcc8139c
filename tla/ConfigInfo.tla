----------------------------- MODULE ConfigInfo -----------------------------
(***************************************************************************)
(* CConfigInfo of libwb, with which every program of the repository reads  *)
(* its configuration: lines key=value, comments from # on, and #include of *)
(* other files, which LoadConfig reads by calling itself.                  *)
(*                                                                         *)
(* A line is what LoadConfig finds in it: the file it includes, if any,    *)
(* and the key and the value before the #, if any.  A file that opens and  *)
(* cannot be read, all of it (a directory) or from some point on (an error *)
(* of the disk), has the line Broken there.  The build has a size_t of 64  *)
(* bits, where SpliteByChar takes the last field whole and the test of pos *)
(* against npos, which never fails there, has no effect.                   *)
(***************************************************************************)
EXTENDS Integers, Sequences, SequencesExt, FiniteSets

CONSTANTS
    File,         \* names of files
    Key, Value,   \* keys and values; a value may also be a key
    Split,        \* the characters that may separate them
    Disks,        \* what the files may hold at first: File -> sequence of lines
    Limit,        \* m_nRecurseCount up to which LoadConfig includes: 10 in the code
    MaxLoads,     \* bound: objects constructed
    MaxSets       \* bound: calls of SetValue

None == "none"
Broken == [inc |-> None, key |-> None, value |-> None, sep |-> "broken"]
NoFile == << [inc |-> None, key |-> None, value |-> None, sep |-> "unreadable"] >>

\* Where there is a key, there is a value.
LineType ==
    {l \in [inc : File \cup {None}, key : Key \cup {None}, value : Value \cup {None},
            sep : Split \cup {"=", "unreadable", "broken"}] : l.key # None => l.value \in Value}

ASSUME NoneAssumption == None \notin File \cup Key
ASSUME LimitAssumption == Limit \in Nat
ASSUME DisksAssumption == Disks \subseteq [File -> Seq(LineType)]
ASSUME BoundAssumption == MaxLoads \in Nat /\ MaxSets \in Nat

VARIABLES
    pc,               \* "none", "load", "loaded", "changed", "endless"
    files,            \* the files, NoFile where one cannot be opened
    m_strConfigFile, m_nRecurseCount, m_mapConfig,
    cSplitChar,
    frames,           \* the calls of LoadConfig under way: lines not yet done
    source,           \* history variable: files when the object was constructed
    saved,            \* history variable: per file, the map SaveConfig wrote to it
    last,             \* history variable: the arguments of the last SetValue
    loads, sets       \* bounded counters

object == <<m_strConfigFile, cSplitChar, source>>
history == <<saved, last, loads, sets>>
vars == <<pc, files, m_nRecurseCount, m_mapConfig, frames, object, history>>

Init ==
    /\ pc = "none"
    /\ files \in Disks /\ source = files
    /\ m_strConfigFile = None /\ cSplitChar = "=" /\ m_nRecurseCount = 0
    /\ m_mapConfig = << >> /\ frames = << >>
    /\ saved = [f \in File |-> << >>] /\ last = <<None, None>>
    /\ loads = 0 /\ sets = 0

-----------------------------------------------------------------------------
Readable(f) == files[f] # NoFile

\* The beginning of LoadConfig, called with calls under way: a file that does
\* not open changes nothing.
Enter_CountFirst(f, calls, count) ==
    /\ frames' = IF Readable(f) THEN Append(calls, files[f]) ELSE calls
    /\ m_nRecurseCount' = count + 1
Enter(f, calls, count) ==
    \/ /\ Readable(f)
       /\ frames' = Append(calls, files[f])
       /\ m_nRecurseCount' = count + 1
    \/ /\ ~Readable(f)
       /\ frames' = calls
       /\ m_nRecurseCount' = count

CConfigInfo(f, ch) ==
    /\ pc \notin {"load", "endless"} /\ loads < MaxLoads
    /\ pc' = "load"
    /\ m_strConfigFile' = f /\ cSplitChar' = ch
    /\ m_mapConfig' = << >>
    /\ Enter(f, << >>, 0)
    /\ source' = files
    /\ loads' = loads + 1
    /\ UNCHANGED <<files, saved, last, sets>>

\* The line that the innermost call is at.
Top == frames[Len(frames)]
Below == SubSeq(frames, 1, Len(frames) - 1)
AtLine == pc = "load" /\ frames # << >> /\ Top # << >>
Line == Head(Top)

\* The calls, with the include of the line done.
IncludeDone == Append(Below, <<[Line EXCEPT !.inc = None]>> \o Tail(Top))

Include ==
    /\ AtLine /\ Line.inc # None
    /\ m_nRecurseCount <= Limit
    /\ Enter(Line.inc, IncludeDone, m_nRecurseCount)
    /\ UNCHANGED <<pc, files, m_mapConfig, object, history>>

\* Too many files include each other: a message, and the line goes on.
IncludeRefused_Again ==
    /\ AtLine /\ Line.inc # None
    /\ m_nRecurseCount > Limit
    /\ UNCHANGED vars
IncludeRefused ==
    /\ AtLine /\ Line.inc # None
    /\ m_nRecurseCount > Limit
    /\ frames' = IncludeDone
    /\ UNCHANGED <<pc, files, m_nRecurseCount, m_mapConfig, object, history>>

\* SpliteByChar finds two fields.
HasValue_Unchecked(line, ch) == line.sep = ch
HasValue(line, ch) == line.key # None /\ line.sep = ch

Assign_KeepFirst(map, line) ==
    [k \in DOMAIN map \cup {line.key} |-> IF k \in DOMAIN map THEN map[k] ELSE line.value]
Assign(map, line) ==
    [k \in DOMAIN map \cup {line.key} |-> IF k = line.key THEN line.value ELSE map[k]]

LineDone ==
    /\ AtLine /\ Line.inc = None /\ Line # Broken
    /\ m_mapConfig' = IF HasValue(Line, cSplitChar) THEN Assign(m_mapConfig, Line) ELSE m_mapConfig
    /\ frames' = Append(Below, Tail(Top))
    /\ UNCHANGED <<pc, files, m_nRecurseCount, object, history>>

\* getline sets badbit, here and from now on, and never eofbit, for which the
\* loop waits.
ReadFails ==
    /\ AtLine /\ Line = Broken
    /\ pc' = "endless"
    /\ UNCHANGED <<files, m_nRecurseCount, m_mapConfig, frames, object, history>>

\* End of file: close, and back to the call that included it.
LoadConfigReturns ==
    /\ pc = "load" /\ frames # << >> /\ Top = << >>
    /\ frames' = Below
    /\ m_nRecurseCount' = m_nRecurseCount - 1
    /\ UNCHANGED <<pc, files, m_mapConfig, object, history>>

Constructed ==
    /\ pc = "load" /\ frames = << >>
    /\ pc' = "loaded"
    /\ UNCHANGED <<files, m_nRecurseCount, m_mapConfig, frames, object, history>>

LoadStep == Include \/ IncludeRefused \/ LineDone \/ ReadFails \/ LoadConfigReturns \/ Constructed

-----------------------------------------------------------------------------
\* The map is searched for the value.
SetValue(k, v) ==
    /\ pc \in {"loaded", "changed"} /\ sets < MaxSets
    /\ pc' = "changed"
    /\ m_mapConfig' = IF v \in DOMAIN m_mapConfig THEN [m_mapConfig EXCEPT ![v] = v] ELSE m_mapConfig
    /\ last' = <<k, v>>
    /\ sets' = sets + 1
    /\ UNCHANGED <<files, m_nRecurseCount, frames, object, saved, loads>>

\* One line per key, whatever separated them in the files read.
Written_OwnSplit(map) ==
    LET keys == SetToSeq(DOMAIN map)
    IN  [k \in 1 .. Len(keys) |-> [inc |-> None, key |-> keys[k], value |-> map[keys[k]], sep |-> cSplitChar]]
Written(map) ==
    LET keys == SetToSeq(DOMAIN map)
    IN  [k \in 1 .. Len(keys) |-> [inc |-> None, key |-> keys[k], value |-> map[keys[k]], sep |-> "="]]

\* The file is made if need be; one that cannot be opened stays as it is, and
\* so does everything else.
SaveConfig ==
    /\ pc \in {"loaded", "changed"}
    /\ files' = [files EXCEPT ![m_strConfigFile] = Written(m_mapConfig)]
    /\ saved' = [saved EXCEPT ![m_strConfigFile] = <<m_mapConfig>>]
    /\ UNCHANGED <<pc, m_nRecurseCount, m_mapConfig, frames, object, last, loads, sets>>

\* What a save that does not come to its end leaves of the lines: the first
\* ones, and perhaps the next with its value cut off somewhere.  (Cut before
\* the =, a line is none.)
CutBefore(lines, n) ==
    LET whole == SubSeq(lines, 1, n - 1)
    IN  {whole} \cup {Append(whole, [lines[n] EXCEPT !.value = v]) : v \in Value}
CutShort(lines) == UNION {CutBefore(lines, n) : n \in DOMAIN lines}

\* The file is truncated when it is opened, each line is written on its own
\* (endl), and nobody looks whether it was: the disk is full, and the program
\* goes on, or the program is killed.
SaveCut ==
    /\ pc \in {"loaded", "changed"}
    /\ \E lines \in CutShort(Written(m_mapConfig)) : files' = [files EXCEPT ![m_strConfigFile] = lines]
    /\ saved' = [saved EXCEPT ![m_strConfigFile] = << >>]
    /\ pc' \in {pc, "none"}
    /\ UNCHANGED <<m_nRecurseCount, m_mapConfig, frames, object, last, loads, sets>>

Next ==
    \/ \E f \in File, ch \in Split : CConfigInfo(f, ch)
    \/ LoadStep
    \/ \E k \in Key, v \in Value : SetValue(k, v)
    \/ SaveConfig
    \/ SaveCut

\* The program is one thread: what it has begun goes on.
Fairness == WF_vars(LoadStep)

Spec == Init /\ [][Next]_vars /\ Fairness

-----------------------------------------------------------------------------
IsMap(m) == DOMAIN m \subseteq Key /\ \A k \in DOMAIN m : m[k] \in Value

\* Every variable has its type.
TypeOK ==
    /\ pc \in {"none", "load", "loaded", "changed", "endless"}
    /\ m_strConfigFile \in File \cup {None} /\ cSplitChar \in Split \cup {"="}
    /\ m_nRecurseCount \in Nat
    /\ IsMap(m_mapConfig)
    /\ loads \in 0 .. MaxLoads /\ sets \in 0 .. MaxSets

\* m_nRecurseCount counts the calls of LoadConfig under way, also after a file
\* that does not open, an include that is refused and a return: what line 81
\* compares with 10 is the depth of the recursion (CConfigInfo.cpp:65, 81, 109).
CountIsDepth == m_nRecurseCount = Len(frames)

\* "最大的递归层数不包含10层" (CConfigInfo.h:42, the depth of the recursion does
\* not include ten levels): calls of LoadConfig that LoadConfig makes are never
\* Limit deep.
RecursionExcludesLimit == frames # << >> => Len(frames) - 1 < Limit

\* The lines of the files that open, each a file and the number of a line.
LineNos == UNION {{<<f, k>> : k \in 1 .. Len(source[f])} : f \in {f \in File : source[f] # NoFile}}
LineAt(l) == source[l[1]][l[2]]

\* Where a line stands: in the file of the object, or in a file that a line of
\* it includes, and so on, Limit files inside one another.
Places ==
    {p \in UNION {[1 .. n -> LineNos] : n \in 1 .. Limit + 1} :
        /\ p[1][1] = m_strConfigFile
        /\ \A d \in 1 .. Len(p) - 1 : LineAt(p[d]).inc = p[d + 1][1]}

\* p counts after q: it is further down, or its line includes the file of q.
FurtherDown(p, q) ==
    \E d \in (1 .. Len(p)) \cap (1 .. Len(q)) : p[d][2] > q[d][2] /\ \A e \in 1 .. d - 1 : p[e] = q[e]
Includes(p, q) == Len(p) < Len(q) /\ \A e \in 1 .. Len(p) : p[e] = q[e]
Later(p, q) == FurtherDown(p, q) \/ Includes(p, q)

Own(p) == LineAt(p[Len(p)])
Assignments(k) == {p \in Places : HasValue(Own(p), cSplitChar) /\ Own(p).key = k}

\* The map has the key k from the assignments at the places A: none, or the last.
FromLast(k, A) ==
    /\ k \in DOMAIN m_mapConfig <=> A # {}
    /\ A # {} => \E p \in A : /\ \A q \in A \ {p} : Later(p, q)
                              /\ m_mapConfig[k] = Own(p).value

\* A key has the value of the last assignment to it, the included files being
\* put in the place of the lines that include them, and before what else is on
\* those lines (CConfigInfo.cpp:57-110).
LastWins == pc = "loaded" => \A k \in Key : FromLast(k, Assignments(k))

\* What SaveConfig writes comes back: a later object on the file has the map
\* that was saved, unless it is told to split lines at another character.  (No
\* key or value has a = in it here; only lines split at another character
\* could give it one.)
SavedReloads ==
    pc = "loaded" /\ cSplitChar = "=" /\ saved[m_strConfigFile] # << >>
        => <<m_mapConfig>> = saved[m_strConfigFile]

\* LoadConfig returns whatever the files include, themselves and each other
\* too, unless one that it comes to opens and cannot be read to its end
\* (CConfigInfo.cpp:65-110).
LoadReturns == (pc = "load" /\ \A p \in Places : Own(p) # Broken) ~> pc = "loaded"

\* "修改value" (CConfigInfo.h:28): after SetValue(k, v) the value of the key k,
\* where there is one, is v.
SetValueModifies ==
    pc = "changed" /\ last[1] \in DOMAIN m_mapConfig => m_mapConfig[last[1]] = last[2]
=============================================================================
