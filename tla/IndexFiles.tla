----------------------------- MODULE IndexFiles -----------------------------
(***************************************************************************)
(* The five files of the word-net index: how DumpIndex of MakeNetIndex     *)
(* writes them through stdio, how they reach the disk, what a kill or a    *)
(* full disk leaves of them, and which of the results LoadIndex (the next  *)
(* run) and LoadIndexmmap (the server) take for an index.                  *)
(*                                                                         *)
(* The records themselves are abstracted: a file is a prefix of what one   *)
(* run wrote to it, counted in records.  What a run dumps is given by its  *)
(* walk (the numbers of the terms in the order mTermIndex is walked) and   *)
(* by its ends: the first n terms have ends[n] relations between them.     *)
(***************************************************************************)
EXTENDS Integers, Sequences

CONSTANTS
    Dumps,    \* the indexes a run may build: [walk, ends]
    MaxRuns   \* bound: runs of MakeNetIndex

File == {"ind1", "ind2", "term_info", "relate_info", "n"}
Ind == {"ind1", "ind2"}
Info == {"term_info", "relate_info"}

Terms(d) == Len(d.walk)
RelationsOf(d, terms) == IF terms = 0 THEN 0 ELSE d.ends[terms]
AllRelations(d) == RelationsOf(d, Terms(d))

\* What DumpIndex is given (ReadersGetDumps in CoocIndexProofs): term numbers
\* are below term_num, and every term has zero or more relations.
IsDump(d) ==
    /\ d.walk \in Seq(Nat) /\ d.ends \in Seq(Nat)
    /\ Len(d.ends) = Len(d.walk)
    /\ \A k \in 1 .. Len(d.walk) : d.walk[k] < Len(d.walk)
    /\ \A k, m \in 1 .. Len(d.ends) : k <= m => d.ends[k] <= d.ends[m]

ASSUME DumpsAssumption == \A d \in Dumps : IsDump(d)
ASSUME RunsAssumption == MaxRuns \in Nat

Empty == [walk |-> << >>, ends |-> << >>]

VARIABLES
    pc,        \* where main stands
    run,       \* the number of the current or last run
    content,   \* content[r]: the index run r built
    written,   \* per file: the records fwrite has accepted from this run
    open,      \* the files this run has open
    output,    \* per file under output/: whose records, and how many
    data,      \* the same under data/index/
    ret,       \* what the last run returned: 0, or -1 (also when killed)
    loaded,    \* history variable: the index run r took as history, 0 when
               \* it took none, -1 when LoadIndex refused the files
    full,      \* history variable: the runs whose last writes met a full disk
    served     \* the run whose term files the server has loaded, 0: not up

vars == <<pc, run, content, written, open, output, data, ret, loaded, full, served>>

-----------------------------------------------------------------------------
(* What a load accepts.                                                    *)

\* The records a run writes to each file; an entry of term_info is a term's
\* header or one of its (hash, number) pairs.
SizeOf(d) ==
    [ind1 |-> Terms(d), ind2 |-> Terms(d), term_info |-> Terms(d) + AllRelations(d),
     relate_info |-> AllRelations(d), n |-> 1]

NoFile == [run |-> 0, len |-> 0]

\* Both loaders read the totals, then as many terms as the totals say, and
\* refuse a short file, a term number or a relation number out of range.
TermsAccepted(dir) ==
    /\ dir["n"].len = 1
    /\ LET totals == content[dir["n"].run]
           T == Terms(totals)
           info == content[dir["term_info"].run]
       IN  /\ T <= dir["ind1"].len /\ T <= dir["ind2"].len
           /\ \A k \in 1 .. T : content[dir["ind2"].run].walk[k] < T
           /\ T > 0 => /\ T <= Terms(info)
                       /\ T + RelationsOf(info, T) <= dir["term_info"].len
                       /\ RelationsOf(info, T) <= AllRelations(totals)

\* LoadIndex reads every relation record the totals announce.
LoadAccepts_AnySize(dir) == TermsAccepted(dir) /\ dir["relate_info"].len > 0
LoadAccepts(dir) ==
    /\ TermsAccepted(dir)
    /\ AllRelations(content[dir["n"].run]) <= dir["relate_info"].len

\* LoadIndexmmap maps the relation file whatever its size, if not empty.
MmapAccepts(dir) == TermsAccepted(dir) /\ dir["relate_info"].len > 0

\* The five files hold one dump, from the first record to the last.
Whole(dir) ==
    /\ dir["n"].run # 0
    /\ \A f \in File :
        dir[f] = [run |-> dir["n"].run, len |-> SizeOf(content[dir["n"].run])[f]]

-----------------------------------------------------------------------------
Init ==
    /\ pc = "idle" /\ run = 0 /\ ret = -1
    /\ content = [r \in 1 .. MaxRuns |-> Empty]
    /\ written = [f \in File |-> 0] /\ open = {}
    /\ output = [f \in File |-> NoFile] /\ data = [f \in File |-> NoFile]
    /\ loaded = [r \in 1 .. MaxRuns |-> 0]
    /\ full = {}
    /\ served = 0

Start ==
    /\ pc = "idle" /\ run < MaxRuns
    /\ run' = run + 1
    /\ pc' = "load"
    /\ ret' = -1
    /\ UNCHANGED <<content, written, open, output, data, loaded, full, served>>

\* main returns, by way of exit.
Leave_Negated(status) == pc' = "exit" /\ ret' = -status
Leave(status) == pc' = "exit" /\ ret' = status

LoadTermsToIndex ==
    /\ pc = "load"
    /\ \/ \* load_history is 1
          /\ LoadAccepts(data)
          /\ loaded' = [loaded EXCEPT ![run] = data["n"].run]
          /\ pc' = "build" /\ ret' = ret
       \/ \* load old index error
          /\ ~LoadAccepts(data)
          /\ loaded' = [loaded EXCEPT ![run] = -1]
          /\ Leave(-1)
       \/ \* load_history is not 1
          pc' = "build" /\ ret' = ret /\ loaded' = loaded
    /\ UNCHANGED <<run, content, written, open, output, data, full, served>>

\* ProcessTerms and FiltIndex, by what they hand to DumpIndex.
BuildIndex ==
    /\ pc = "build"
    /\ \/ /\ \E d \in Dumps : content' = [content EXCEPT ![run] = d]
          /\ pc' = "open" /\ ret' = ret
       \/ Leave(-1) /\ content' = content
    /\ UNCHANGED <<run, written, open, output, data, loaded, full, served>>

-----------------------------------------------------------------------------
(* DumpIndex.  Nothing it opens is ever closed.                            *)

\* fopen(.., "w") of the files in fs: the old contents are gone.
Open(fs) ==
    /\ open' = open \cup fs
    /\ output' = [f \in File |-> IF f \in fs THEN [run |-> run, len |-> 0] ELSE output[f]]

\* fwrite of one record to each of the files in fs.
Write(fs) ==
    written' = [f \in File |-> IF f \in fs THEN written[f] + 1 ELSE written[f]]

\* fp_indexn is compared with NULL before it is assigned: with both files
\* open the dump may still end here.
OpenInd ==
    /\ pc = "open"
    /\ \E fs \in SUBSET Ind :
        /\ Open(fs)
        /\ \/ fs = Ind /\ pc' = "ind" /\ ret' = ret
           \/ Leave(-1)
    /\ UNCHANGED <<run, content, written, data, loaded, full, served>>

WriteInd ==
    /\ pc = "ind" /\ written["ind1"] < Terms(content[run])
    /\ \E fs \in SUBSET Ind :
        /\ Write(fs)
        /\ IF fs = Ind THEN pc' = "ind" /\ ret' = ret ELSE Leave(-1)
    /\ UNCHANGED <<run, content, open, output, data, loaded, full, served>>

OpenInfo_Unchecked ==
    /\ pc = "ind" /\ written["ind1"] = Terms(content[run])
    /\ \E fs \in SUBSET Info :
        /\ Open(fs)
        /\ IF "term_info" \in fs THEN pc' = "info" /\ ret' = ret ELSE Leave(-1)
    /\ UNCHANGED <<run, content, written, data, loaded, full, served>>
OpenInfo ==
    /\ pc = "ind" /\ written["ind1"] = Terms(content[run])
    /\ \E fs \in SUBSET Info :
        /\ Open(fs)
        /\ IF fs = Info THEN pc' = "info" /\ ret' = ret ELSE Leave(-1)
    /\ UNCHANGED <<run, content, written, data, loaded, full, served>>

Headers == written["term_info"] - written["relate_info"]

\* All relations of the terms begun so far are written.
TermDone == written["relate_info"] = RelationsOf(content[run], Headers)

WriteHeader ==
    /\ pc = "info" /\ TermDone /\ Headers < Terms(content[run])
    /\ \/ Write({"term_info"}) /\ pc' = pc /\ ret' = ret
       \/ Leave(-1) /\ written' = written
    /\ UNCHANGED <<run, content, open, output, data, loaded, full, served>>

\* The record goes to relate_info, its hash and its number to term_info.
WriteRelation ==
    /\ pc = "info" /\ ~TermDone
    /\ \/ Write(Info) /\ pc' = pc /\ ret' = ret
       \/ \E fs \in {{}, {"relate_info"}} : Write(fs) /\ Leave(-1)
    /\ UNCHANGED <<run, content, open, output, data, loaded, full, served>>

\* The totals; what fwrite returns is ignored.
WriteTotals ==
    /\ pc = "info" /\ TermDone /\ Headers = Terms(content[run])
    /\ Open({"n"})
    /\ Write({"n"})
    /\ pc' = "text"
    /\ UNCHANGED <<run, content, data, ret, loaded, full, served>>

\* The index again as text, under output/ too; then main returns.
DumpIndexAsText ==
    /\ pc = "text"
    /\ \E status \in {0, -1} : Leave(status)
    /\ UNCHANGED <<run, content, written, open, output, data, loaded, full, served>>

-----------------------------------------------------------------------------
(* stdio and the disk.                                                     *)

OnDisk(f, len) == output' = [output EXCEPT ![f] = [run |-> run, len |-> len]]

\* A full stdio buffer goes to the disk, and with it any number of records.
\* The totals are shorter than a buffer and stay in memory.
Flush ==
    /\ pc \in {"ind", "info", "text"}
    /\ \E f \in open \ {"n"} : \E len \in output[f].len + 1 .. written[f] : OnDisk(f, len)
    /\ UNCHANGED <<pc, run, content, written, open, data, ret, loaded, full, served>>

\* exit flushes and closes the streams, the last opened first, and tells
\* nobody when the disk is full.
OpenedAfter(f) ==
    CASE f = "ind1" -> {"ind2", "relate_info", "term_info", "n"}
      [] f = "ind2" -> {"relate_info", "term_info", "n"}
      [] f = "relate_info" -> {"term_info", "n"}
      [] f = "term_info" -> {"n"}
      [] f = "n" -> {}

CloseFile(f) ==
    /\ pc = "exit" /\ f \in open /\ open \cap OpenedAfter(f) = {}
    /\ \E len \in output[f].len .. written[f] :
        /\ OnDisk(f, len)
        /\ full' = IF len < written[f] THEN full \cup {run} ELSE full
    /\ open' = open \ {f}
    /\ UNCHANGED <<pc, run, content, written, data, ret, loaded, served>>

Exited ==
    /\ pc = "exit" /\ open = {}
    /\ pc' = "idle" /\ written' = [f \in File |-> 0]
    /\ UNCHANGED <<run, content, open, output, data, ret, loaded, full, served>>

\* The process dies (also of fwrite to the NULL that fopen of word_net.n may
\* return): what the streams still held is lost, what write(2) has accepted is
\* not.  The machine stays up.
Kill ==
    /\ pc # "idle"
    /\ pc' = "idle" /\ ret' = -1
    /\ written' = [f \in File |-> 0] /\ open' = {}
    /\ UNCHANGED <<run, content, output, data, loaded, full, served>>

-----------------------------------------------------------------------------
(* The other side.  No script of the repository copies output/ to          *)
(* data/index/; here it is done in place, and only after a run that        *)
(* returned 0.                                                             *)

Install_AnyStatus ==
    /\ pc = "idle"
    /\ data' = output
    /\ UNCHANGED <<pc, run, content, written, open, output, ret, loaded, full, served>>
Install ==
    /\ pc = "idle" /\ ret = 0
    /\ data' = output
    /\ UNCHANGED <<pc, run, content, written, open, output, ret, loaded, full, served>>

ServerStart ==
    /\ served = 0 /\ MmapAccepts(data)
    /\ served' = data["n"].run
    /\ UNCHANGED <<pc, run, content, written, open, output, data, ret, loaded, full>>

ServerStop ==
    /\ served # 0 /\ served' = 0
    /\ UNCHANGED <<pc, run, content, written, open, output, data, ret, loaded, full>>

Next ==
    \/ Start \/ LoadTermsToIndex \/ BuildIndex
    \/ OpenInd \/ WriteInd \/ OpenInfo \/ WriteHeader \/ WriteRelation
    \/ WriteTotals \/ DumpIndexAsText
    \/ Flush \/ (\E f \in File : CloseFile(f)) \/ Exited \/ Kill
    \/ Install \/ ServerStart \/ ServerStop

Spec == Init /\ [][Next]_vars

-----------------------------------------------------------------------------
Files == [File -> [run : 0 .. MaxRuns, len : Nat]]

\* Every variable holds a value of its type.
TypeOK ==
    /\ pc \in {"idle", "load", "build", "open", "ind", "info", "text", "exit"}
    /\ run \in 0 .. MaxRuns /\ ret \in {0, -1}
    /\ content \in [1 .. MaxRuns -> Dumps \cup {Empty}]
    /\ written \in [File -> Nat] /\ open \subseteq File
    /\ output \in Files /\ data \in Files
    /\ loaded \in [1 .. MaxRuns -> -1 .. MaxRuns]
    /\ full \subseteq 1 .. MaxRuns /\ served \in 0 .. MaxRuns

\* DumpIndex writes word_net.n last (TermsProcessor.cpp:788): whenever the
\* totals on the disk are those of the last run, in every moment of a dump
\* and after every crash, the files LoadIndex would accept under output/ are
\* one whole dump.  (With the totals of an older run a mixture may pass.)
NewTotalsOneDump ==
    LoadAccepts(output) /\ output["n"].run = run => Whole(output)

\* LoadIndexmmap does not compare the size of relate_info.index with the
\* totals (WordNetIndexor.cpp:431-438).  As long as data/index holds what the
\* server loaded, and the run that wrote it did not meet a full disk, every
\* relation number the server holds is in the mapping, and of the same dump.
MappedAsLoaded ==
    served # 0 /\ served \notin full /\ data["n"].run = served =>
        data["relate_info"] =
            [run |-> served, len |-> AllRelations(content[served])]

\* main logs "dump index sucessfully!" and returns 0 only when the index is
\* on the disk (MakeWordNetData.cpp:97-111).
DumpedMeansWritten == pc = "idle" /\ ret = 0 => Whole(output)

Store == INSTANCE IndexStore WITH
    last <- run,
    made <- IF Whole(output) THEN output["n"].run ELSE 0,
    installed <- IF Whole(data) THEN data["n"].run ELSE 0,
    base <- loaded

\* Through crashes, full disks and failing opens and writes, the five files
\* under data/index/ are to LoadIndex one whole dump or none (LoadIndex,
\* WordNetIndexor.cpp:117-282): a run that takes history takes exactly the
\* index last installed, and is refused only when there is none.
AllOrNothing == Store!StoreSpec
=============================================================================
