-------------------------- MODULE IndexFilesProofs --------------------------
(***************************************************************************)
(* Proofs about IndexFiles.  The inductive invariant follows one dump from *)
(* fwrite to the disk and to data/index/: what is accepted is within the   *)
(* size of the dump, what is on the disk is a prefix of what is accepted,  *)
(* and a run that returned 0 has replaced all five files.                  *)
(***************************************************************************)
EXTENDS IndexFiles, TLAPS

\* The dump of run r, and the size of its file f.
Size(r, f) == SizeOf(content[r])[f]

Before == {"idle", "load", "build"}

\* The files under output/ and what this run has put there.
OutputInv ==
    /\ \A f \in File : output[f].run <= run
    /\ \A f \in File : output[f].run # 0 => output[f].len <= Size(output[f].run, f)
    /\ output["n"].run = 0 => output["n"].len = 0
    /\ pc \in {"load", "build", "open"} =>
        run # 0 /\ open = {} /\ \A f \in File : output[f].run # run
    /\ \A f \in open : output[f].run = run /\ output[f].len <= written[f]
    /\ output["n"].run = run /\ run # 0 => \A f \in File : output[f].run = run

\* What fwrite has accepted, as the dump proceeds.
WrittenInv ==
    /\ pc \in {"idle", "load", "build", "open"} => \A f \in File : written[f] = 0
    /\ pc \notin Before => run # 0 /\ \A f \in File : written[f] <= Size(run, f)
    /\ pc = "idle" => open = {}
    /\ pc = "ind" =>
        /\ open = Ind
        /\ written["ind1"] = written["ind2"]
        /\ written["term_info"] = 0 /\ written["relate_info"] = 0 /\ written["n"] = 0
    /\ pc = "info" =>
        /\ open = Ind \cup Info
        /\ written["ind1"] = Terms(content[run]) /\ written["ind2"] = Terms(content[run])
        /\ Headers \in 0 .. Terms(content[run])
        /\ written["relate_info"] <= RelationsOf(content[run], Headers)
        /\ written["n"] = 0
    /\ pc = "text" => open = File /\ \A f \in File : written[f] = Size(run, f)

\* A run that returns 0 has replaced every file, by all of it unless the disk
\* was full.
ReturnInv ==
    /\ full \subseteq 1 .. run
    /\ run \in full => pc \in {"exit", "idle"}
    /\ ret = 0 =>
        /\ run # 0
        /\ pc \in {"exit", "idle"}
        /\ \A f \in File : output[f].run = run
        /\ pc = "exit" => \A f \in File : written[f] = Size(run, f)
        /\ run \notin full => \A f \in File \ open : output[f].len = Size(run, f)

\* What is installed is one run's, and all of it unless the disk was full.
DataInv ==
    /\ data["n"].run <= run /\ served <= run
    /\ data["n"].run = run /\ run # 0 => pc = "idle"
    /\ \A f \in File : data[f].run = data["n"].run
    /\ data["n"].run = 0 => data["n"].len = 0
    /\ data["n"].run # 0 =>
        /\ \A f \in File : data[f].len <= Size(data["n"].run, f)
        /\ data["n"].run \notin full =>
            \A f \in File : data[f].len = Size(data["n"].run, f)

IInv == TypeOK /\ OutputInv /\ WrittenInv /\ ReturnInv /\ DataInv

-----------------------------------------------------------------------------
(* Sizes.                                                                  *)

LEMMA EmptyIsDump == IsDump(Empty)
  BY DEF IsDump, Empty

\* The relations of the first terms are counted by naturals, which grow.
LEMMA RelationsType ==
    ASSUME NEW d, IsDump(d)
    PROVE  /\ Terms(d) \in Nat
           /\ \A t \in 0 .. Terms(d) : RelationsOf(d, t) \in Nat
           /\ \A t, u \in 0 .. Terms(d) : t <= u => RelationsOf(d, t) <= RelationsOf(d, u)
           /\ AllRelations(d) \in Nat
  <1>1. Terms(d) \in Nat
    BY DEF IsDump, Terms
  <1>2. \A t \in 1 .. Terms(d) : d.ends[t] \in Nat
    BY DEF IsDump, Terms
  <1>3. \A t \in 0 .. Terms(d) : RelationsOf(d, t) \in Nat
    BY <1>1, <1>2 DEF RelationsOf
  <1>4. \A t, u \in 0 .. Terms(d) : t <= u => RelationsOf(d, t) <= RelationsOf(d, u)
    BY <1>1, <1>2 DEF RelationsOf, IsDump, Terms
  <1> QED
    BY <1>1, <1>3, <1>4 DEF AllRelations

\* SizeOf, file by file.
LEMMA SizeFacts ==
    ASSUME NEW d, IsDump(d)
    PROVE  /\ SizeOf(d)["ind1"] = Terms(d) /\ SizeOf(d)["ind2"] = Terms(d)
           /\ SizeOf(d)["term_info"] = Terms(d) + AllRelations(d)
           /\ SizeOf(d)["relate_info"] = AllRelations(d)
           /\ SizeOf(d)["n"] = 1
           /\ \A f \in File : SizeOf(d)[f] \in Nat
  BY RelationsType DEF SizeOf, File

LEMMA ContentIsDump ==
    ASSUME TypeOK, NEW r \in 1 .. MaxRuns
    PROVE  IsDump(content[r])
  BY EmptyIsDump, DumpsAssumption DEF TypeOK

LEMMA SizeType ==
    ASSUME TypeOK, NEW r \in 1 .. MaxRuns, NEW f \in File
    PROVE  Size(r, f) \in Nat
  BY ContentIsDump, SizeFacts DEF Size

\* Of files that are all of one run, LoadIndex takes exactly whole dumps.
LEMMA AcceptedIsWhole ==
    ASSUME TypeOK, NEW dir \in Files,
           dir["n"].run = 0 => dir["n"].len = 0,
           dir["n"].run # 0 =>
               \A f \in File : /\ dir[f].run = dir["n"].run
                               /\ dir[f].len <= Size(dir["n"].run, f)
    PROVE  LoadAccepts(dir) <=> Whole(dir)
  <1> DEFINE r == dir["n"].run
             d == content[r]
  <1>1. CASE r = 0
    BY <1>1 DEF LoadAccepts, TermsAccepted, Whole
  <1>2. CASE r # 0
    <2>0. \A f \in File : dir[f] \in [run : 0 .. MaxRuns, len : Nat]
      BY DEF Files
    <2>1. r \in 1 .. MaxRuns
      <3>1. "n" \in File
        BY DEF File
      <3> QED
        BY <1>2, <2>0, <3>1, RunsAssumption
    <2>2. IsDump(d)
      BY <2>1, ContentIsDump
    <2> HIDE DEF d
    <2>3. \A f \in File : dir[f].run = r /\ dir[f].len \in Nat /\ dir[f].len <= SizeOf(d)[f]
      BY <1>2 DEF Size, Files, d
    <2>4. \A f \in File : dir[f] = [run |-> dir[f].run, len |-> dir[f].len]
      BY <2>0
    <2>5. Whole(dir) <=> \A f \in File : dir[f].len = SizeOf(d)[f]
      <3>1. ASSUME NEW f \in File
            PROVE  dir[f] = [run |-> r, len |-> SizeOf(d)[f]] <=> dir[f].len = SizeOf(d)[f]
        BY <2>3, <2>4
      <3>2. Whole(dir) <=> \A f \in File : dir[f] = [run |-> r, len |-> SizeOf(d)[f]]
        BY <1>2 DEF Whole, d
      <3> QED
        BY <3>1, <3>2
    <2>6. ASSUME Whole(dir) PROVE LoadAccepts(dir)
      <3>1. \A k \in 1 .. Terms(d) : d.walk[k] < Terms(d)
        BY <2>2 DEF IsDump, Terms
      <3> QED
        BY <2>2, <2>3, <2>5, <2>6, <3>1, SizeFacts, RelationsType
        DEF LoadAccepts, TermsAccepted, AllRelations, File, d
    <2>7. ASSUME LoadAccepts(dir) PROVE Whole(dir)
      <3>1. /\ dir["n"].len = 1 /\ AllRelations(d) <= dir["relate_info"].len
            /\ Terms(d) <= dir["ind1"].len /\ Terms(d) <= dir["ind2"].len
            /\ Terms(d) > 0 => Terms(d) + AllRelations(d) <= dir["term_info"].len
        BY <2>3, <2>7 DEF LoadAccepts, TermsAccepted, AllRelations, File, d
      <3>2. Terms(d) = 0 => AllRelations(d) = 0
        BY DEF AllRelations, RelationsOf
      <3>3. \A f \in File : dir[f].len = SizeOf(d)[f]
        BY <2>2, <2>3, <3>1, <3>2, SizeFacts, RelationsType DEF File
      <3> QED
        BY <2>5, <3>3
    <2> QED
      BY <2>6, <2>7
  <1> QED
    BY <1>1, <1>2

-----------------------------------------------------------------------------
(* The invariant is inductive.                                             *)

LEMMA InitIInv == Init => IInv
  <1> SUFFICES ASSUME Init PROVE IInv
    OBVIOUS
  <1>1. TypeOK
    BY RunsAssumption DEF Init, TypeOK, Files, NoFile, File
  <1>2. OutputInv /\ WrittenInv /\ ReturnInv
    BY DEF Init, OutputInv, WrittenInv, ReturnInv, NoFile, Before, File
  <1>3. DataInv
    BY DEF Init, DataInv, NoFile, File
  <1> QED
    BY <1>1, <1>2, <1>3 DEF IInv

\* Steps that touch neither the files nor the streams.
LEMMA StartStep ==
    ASSUME IInv, Start
    PROVE  IInv'
  <1> USE DEF IInv, Start
  <1>1. TypeOK'
    BY RunsAssumption DEF TypeOK
  <1>2. \A r, f : Size(r, f)' = Size(r, f)
    BY DEF Size
  <1>0. /\ run \in Nat /\ run' = run + 1
        /\ \A f \in File : output[f].run \in Nat /\ output[f].run <= run
        /\ data["n"].run \in Nat /\ data["n"].run <= run /\ served \in Nat /\ served <= run
    BY DEF TypeOK, Files, File, OutputInv, DataInv
  <1>3. OutputInv'
    <2>1. open = {} /\ open' = {}
      BY DEF WrittenInv
    <2>2. \A f \in File : output'[f].run <= run' /\ output'[f].run # run'
      BY <1>0
    <2>3. "n" \in File
      BY DEF File
    <2> QED
      BY <1>0, <1>2, <2>1, <2>2, <2>3 DEF OutputInv
  <1>4. WrittenInv'
    BY <1>2 DEF WrittenInv, Before
  <1>5. ReturnInv'
    BY DEF TypeOK, ReturnInv
  <1>6. DataInv'
    BY <1>0, <1>2 DEF DataInv
  <1> QED
    BY <1>1, <1>3, <1>4, <1>5, <1>6

LEMMA LoadStep ==
    ASSUME IInv, LoadTermsToIndex
    PROVE  IInv'
  <1> USE DEF IInv, LoadTermsToIndex, Leave
  <1>0. data["n"].run \in 0 .. MaxRuns
    BY DEF TypeOK, Files, File
  <1>1. TypeOK'
    BY <1>0, RunsAssumption DEF TypeOK
  <1>2. \A r, f : Size(r, f)' = Size(r, f)
    BY DEF Size
  <1>3. OutputInv' /\ WrittenInv' /\ ReturnInv'
    <2>1. OutputInv'
      BY <1>2 DEF OutputInv
    <2>2. WrittenInv'
      <3>1. \A f \in File : written[f] = 0 /\ Size(run, f) \in Nat
        BY SizeType DEF WrittenInv, OutputInv, TypeOK
      <3> QED
        BY <1>2, <3>1 DEF WrittenInv, OutputInv, Before
    <2>3. ReturnInv'
      BY DEF ReturnInv
    <2> QED
      BY <2>1, <2>2, <2>3
  <1>4. DataInv'
    BY <1>2 DEF DataInv
  <1> QED
    BY <1>1, <1>3, <1>4

\* content[run] is set before any file of this run exists.
LEMMA BuildStep ==
    ASSUME IInv, BuildIndex
    PROVE  IInv'
  <1> USE DEF IInv, BuildIndex, Leave
  <1>1. TypeOK'
    BY DEF TypeOK
  <1>2. \A r \in 1 .. MaxRuns : r # run => \A f : Size(r, f)' = Size(r, f)
    BY DEF Size, TypeOK
  <1>3. OutputInv'
    <2>1. \A f \in File : output[f].run \in 0 .. MaxRuns /\ output[f].run # run
      BY DEF TypeOK, Files, OutputInv
    <2> QED
      BY <1>2, <2>1 DEF OutputInv, TypeOK
  <1>4. WrittenInv'
    <2>0. IsDump(content'[run])
      BY <1>1, EmptyIsDump, DumpsAssumption DEF TypeOK, OutputInv
    <2>1. run # 0 /\ \A f \in File : written[f] = 0 /\ Size(run, f)' \in Nat
      BY <2>0, SizeFacts DEF WrittenInv, OutputInv, Size
    <2> QED
      BY <2>1 DEF WrittenInv, OutputInv, Before
  <1>5. ReturnInv'
    BY DEF ReturnInv
  <1>6. DataInv'
    <2>1. data["n"].run \in 0 .. MaxRuns /\ data["n"].run # run
      BY DEF TypeOK, Files, File, DataInv, OutputInv
    <2> QED
      BY <1>2, <2>1 DEF DataInv, TypeOK
  <1> QED
    BY <1>1, <1>3, <1>4, <1>5, <1>6

\* What Open and Write do to one file.
LEMMA OpenFile ==
    ASSUME TypeOK, NEW fs, Open(fs)
    PROVE  /\ output' \in [File -> [run : 0 .. MaxRuns, len : Nat]]
           /\ \A f \in File : f \in fs => output'[f].run = run /\ output'[f].len = 0
           /\ \A f \in File : f \notin fs => output'[f] = output[f]
           /\ open' = open \cup fs
  BY DEF Open, TypeOK, Files

LEMMA WriteFile ==
    ASSUME TypeOK, NEW fs, Write(fs)
    PROVE  /\ written' \in [File -> Nat]
           /\ \A f \in File : f \in fs => written'[f] = written[f] + 1
           /\ \A f \in File : f \notin fs => written'[f] = written[f]
  BY DEF Write, TypeOK

\* Opening files of this run for writing, before any of their records.
LEMMA OpenOutput ==
    ASSUME IInv, NEW fs \in SUBSET File, Open(fs), UNCHANGED <<run, content>>,
           run # 0,
           "n" \in fs => \A f \in File \ fs : output[f].run = run,
           pc' \notin {"load", "build", "open"},
           \A f \in File : written'[f] \in Nat /\ written'[f] >= written[f]
    PROVE  OutputInv'
  <1> USE DEF IInv
  <1>1. \A r, f : Size(r, f)' = Size(r, f)
    BY DEF Size
  <1>2. run \in 1 .. MaxRuns /\ \A f \in File : Size(run, f) \in Nat
    BY SizeType DEF TypeOK
  <1>3. \A f \in File : output'[f].run <= run
    BY <1>2, OpenFile DEF OutputInv
  <1>4. \A f \in File : output'[f].run # 0 => output'[f].len <= Size(output'[f].run, f)
    BY <1>2, OpenFile DEF OutputInv
  <1>5. \A f \in open' : output'[f].run = run /\ output'[f].len <= written'[f]
    <2>1. \A f \in open : f \in File /\ written[f] \in Nat /\ output[f].len \in Nat
      BY DEF TypeOK, Files
    <2> QED
      BY <2>1, OpenFile DEF OutputInv
  <1>6. output'["n"].run = run => \A f \in File : output'[f].run = run
    <2>1. "n" \in File
      BY DEF File
    <2> QED
      BY <2>1, OpenFile DEF OutputInv
  <1>7. output'["n"].run = 0 => output'["n"].len = 0
    BY <1>2, OpenFile DEF OutputInv, File
  <1> QED
    BY <1>1, <1>2, <1>3, <1>4, <1>5, <1>6, <1>7 DEF OutputInv

\* data/index/, content and run unchanged: so is what is known of them.
LEMMA DataKept ==
    ASSUME IInv, UNCHANGED <<run, content, data, served>>,
           full' = full \/ (full' = full \cup {run} /\ pc = "exit" /\ pc' = "exit"),
           pc # "idle" \/ pc' = "idle"
    PROVE  DataInv'
  <1> USE DEF IInv
  <1>1. \A r, f : Size(r, f)' = Size(r, f)
    BY DEF Size
  <1>2. data["n"].run # 0 /\ data["n"].run \notin full' => data["n"].run \notin full
    OBVIOUS
  <1> QED
    BY <1>1, <1>2 DEF DataInv

LEMMA OpenIndStep ==
    ASSUME IInv, OpenInd
    PROVE  IInv'
  <1> USE DEF IInv
  <1> PICK fs \in SUBSET Ind :
        /\ Open(fs)
        /\ \/ fs = Ind /\ pc' = "ind" /\ ret' = ret
           \/ Leave(-1)
    BY DEF OpenInd
  <1> USE DEF OpenInd, Leave
  <1>0. fs \in SUBSET File /\ "n" \notin fs /\ run # 0 /\ run \in 1 .. MaxRuns /\ open = {}
    BY DEF Ind, File, OutputInv, TypeOK
  <1>1. TypeOK'
    BY <1>0, OpenFile DEF TypeOK, Files
  <1>2. \A r, f : Size(r, f)' = Size(r, f)
    BY DEF Size
  <1>3. OutputInv'
    BY <1>0, OpenOutput DEF TypeOK
  <1>4. WrittenInv'
    <2>1. \A f \in File : written[f] = 0 /\ Size(run, f) \in Nat
      BY <1>0, SizeType DEF WrittenInv
    <2>2. open' = fs
      BY <1>0, OpenFile
    <2> QED
      BY <1>0, <1>2, <2>1, <2>2 DEF WrittenInv, Before, File
  <1>5. ReturnInv'
    BY <1>0 DEF ReturnInv
  <1>6. DataInv'
    BY DataKept
  <1> QED
    BY <1>1, <1>3, <1>4, <1>5, <1>6

\* fwrite moves what is accepted, not what is on the disk.
LEMMA WriteOutput ==
    ASSUME IInv, NEW fs \in SUBSET File, Write(fs), UNCHANGED <<run, content, open, output>>,
           pc \notin {"load", "build", "open"}, pc' \notin {"load", "build", "open"}
    PROVE  OutputInv'
  <1> USE DEF IInv
  <1>1. \A r, f : Size(r, f)' = Size(r, f)
    BY DEF Size
  <1>2. \A f \in open : f \in File /\ written[f] \in Nat /\ output[f].len \in Nat
    BY DEF TypeOK, Files
  <1>3. \A f \in open : output[f].len <= written'[f]
    BY <1>2, WriteFile DEF OutputInv
  <1> QED
    BY <1>1, <1>3 DEF OutputInv

LEMMA WriteIndStep ==
    ASSUME IInv, WriteInd
    PROVE  IInv'
  <1> USE DEF IInv
  <1> PICK fs \in SUBSET Ind :
        /\ Write(fs)
        /\ IF fs = Ind THEN pc' = "ind" /\ ret' = ret ELSE Leave(-1)
    BY DEF WriteInd
  <1> USE DEF WriteInd, Leave
  <1>0. fs \in SUBSET File /\ run \in 1 .. MaxRuns
    BY DEF Ind, File, WrittenInv, Before, TypeOK
  <1>1. TypeOK'
    BY <1>0, WriteFile DEF TypeOK
  <1>2. \A r, f : Size(r, f)' = Size(r, f)
    BY DEF Size
  <1>3. OutputInv'
    BY <1>0, WriteOutput
  <1>4. WrittenInv'
    <2>1. \A f \in File : Size(run, f) \in Nat /\ written[f] \in Nat /\ written[f] <= Size(run, f)
      BY <1>0, SizeType DEF WrittenInv, Before, TypeOK
    <2>2. Size(run, "ind1") = Terms(content[run]) /\ Size(run, "ind2") = Terms(content[run])
      BY <1>0, ContentIsDump, SizeFacts DEF Size
    <2>3. /\ written["ind1"] < Size(run, "ind1") /\ written["ind2"] = written["ind1"]
          /\ written["term_info"] = 0 /\ written["relate_info"] = 0 /\ written["n"] = 0
      BY <2>2 DEF WrittenInv
    <2>4. \A f \in File : written'[f] <= Size(run, f)
      BY <1>0, <2>1, <2>2, <2>3, WriteFile DEF Ind, File
    <2>5. fs = Ind => /\ written'["ind1"] = written'["ind2"]
                      /\ written'["term_info"] = 0 /\ written'["relate_info"] = 0
                      /\ written'["n"] = 0
      BY <1>0, <2>3, WriteFile DEF Ind, File
    <2> QED
      BY <1>0, <1>2, <2>4, <2>5 DEF WrittenInv, Before
  <1>5. ReturnInv'
    BY DEF ReturnInv
  <1>6. DataInv'
    BY DataKept
  <1> QED
    BY <1>1, <1>3, <1>4, <1>5, <1>6

LEMMA OpenInfoStep ==
    ASSUME IInv, OpenInfo
    PROVE  IInv'
  <1> USE DEF IInv
  <1> PICK fs \in SUBSET Info :
        /\ Open(fs)
        /\ IF fs = Info THEN pc' = "info" /\ ret' = ret ELSE Leave(-1)
    BY DEF OpenInfo
  <1> USE DEF OpenInfo, Leave
  <1>0. fs \in SUBSET File /\ "n" \notin fs /\ run # 0 /\ run \in 1 .. MaxRuns /\ open = Ind
    BY DEF Info, File, WrittenInv, Before, TypeOK
  <1>1. TypeOK'
    <2>1. pc' \in {"info", "exit"} /\ ret' \in {0, -1}
      BY DEF TypeOK
    <2>2. open' \subseteq File /\ output' \in Files
      BY <1>0, OpenFile DEF TypeOK, Files
    <2> QED
      BY <2>1, <2>2 DEF TypeOK
  <1>2. \A r, f : Size(r, f)' = Size(r, f)
    BY DEF Size
  <1>3. OutputInv'
    BY <1>0, OpenOutput DEF TypeOK
  <1>4. WrittenInv'
    <2>1. \A f \in File : written[f] <= Size(run, f)
      BY DEF WrittenInv, Before
    <2>2. open' = Ind \cup fs
      BY <1>0, OpenFile
    <2>3. /\ Terms(content[run]) \in Nat /\ RelationsOf(content[run], 0) = 0
      BY <1>0, ContentIsDump, RelationsType DEF RelationsOf
    <2>4. Headers' = 0 /\ Headers' \in 0 .. Terms(content[run])
      BY <2>3 DEF WrittenInv, Headers
    <2> QED
      BY <1>0, <1>2, <2>1, <2>2, <2>3, <2>4 DEF WrittenInv, Before
  <1>5. ReturnInv'
    BY <1>0 DEF ReturnInv
  <1>6. DataInv'
    BY DataKept
  <1> QED
    BY <1>1, <1>3, <1>4, <1>5, <1>6

\* What the header and relation counts say while the terms are written.
LEMMA InfoSizes ==
    ASSUME IInv, pc = "info"
    PROVE  /\ run \in 1 .. MaxRuns /\ Terms(content[run]) \in Nat
           /\ Headers \in 0 .. Terms(content[run])
           /\ written["relate_info"] \in Nat /\ written["term_info"] \in Nat
           /\ written["term_info"] = Headers + written["relate_info"]
           /\ \A t \in 0 .. Terms(content[run]) :
                /\ RelationsOf(content[run], t) \in Nat
                /\ RelationsOf(content[run], t) <= AllRelations(content[run])
           /\ AllRelations(content[run]) \in Nat
           /\ Size(run, "term_info") = Terms(content[run]) + AllRelations(content[run])
           /\ Size(run, "relate_info") = AllRelations(content[run])
           /\ Size(run, "n") = 1
           /\ \A t, u \in 0 .. Terms(content[run]) :
                t <= u => RelationsOf(content[run], t) <= RelationsOf(content[run], u)
  <1> USE DEF IInv
  <1>1. run \in 1 .. MaxRuns
    BY DEF WrittenInv, Before, TypeOK
  <1>2. IsDump(content[run])
    BY <1>1, ContentIsDump
  <1>3. written["relate_info"] \in Nat /\ written["term_info"] \in Nat
    BY DEF TypeOK, File
  <1>4. Headers \in 0 .. Terms(content[run])
    BY DEF WrittenInv
  <1>5. written["term_info"] = Headers + written["relate_info"]
    BY <1>3 DEF Headers
  <1>6. /\ Size(run, "term_info") = Terms(content[run]) + AllRelations(content[run])
        /\ Size(run, "relate_info") = AllRelations(content[run])
        /\ Size(run, "n") = 1
    BY <1>2, SizeFacts DEF Size
  <1> QED
    BY <1>1, <1>2, <1>3, <1>4, <1>5, <1>6, RelationsType DEF AllRelations

LEMMA WriteHeaderStep ==
    ASSUME IInv, WriteHeader
    PROVE  IInv'
  <1> USE DEF IInv
  <1>0. pc = "info" /\ run \in 1 .. MaxRuns /\ run # 0
    BY DEF WriteHeader, WrittenInv, Before, TypeOK
  <1>2. \A r, f : Size(r, f)' = Size(r, f)
    BY DEF Size, WriteHeader
  <1>3. CASE Leave(-1) /\ written' = written
    <2> USE <1>3 DEF WriteHeader, Leave
    <2>1. TypeOK'
      BY DEF TypeOK
    <2>2. OutputInv'
      BY <1>0, <1>2 DEF OutputInv
    <2>3. WrittenInv'
      BY <1>0, <1>2 DEF WrittenInv, Before
    <2>4. ReturnInv'
      BY <1>0 DEF ReturnInv
    <2>5. DataInv'
      BY <1>0, DataKept
    <2> QED
      BY <2>1, <2>2, <2>3, <2>4, <2>5
  <1>4. CASE Write({"term_info"}) /\ pc' = pc /\ ret' = ret
    <2> USE <1>4
    <2>0. {"term_info"} \in SUBSET File
      BY DEF File
    <2>1. TypeOK'
      BY <2>0, WriteFile DEF TypeOK, WriteHeader
    <2>2. OutputInv'
      BY <1>0, <2>0, WriteOutput DEF WriteHeader
    <2>3. WrittenInv'
      <3>1. /\ written'["term_info"] = written["term_info"] + 1
            /\ \A f \in File \ {"term_info"} : written'[f] = written[f]
        BY <2>0, WriteFile DEF File
      <3>2. Headers' = Headers + 1 /\ Headers + 1 \in 0 .. Terms(content[run])
        BY <1>0, <3>1, InfoSizes DEF Headers, File, WriteHeader
      <3>3. RelationsOf(content[run], Headers) <= RelationsOf(content[run], Headers + 1)
        BY <1>0, <3>2, InfoSizes
      <3>4. written["relate_info"] = RelationsOf(content[run], Headers)
        BY DEF WriteHeader, TermDone
      <3>5. written'["term_info"] <= Size(run, "term_info")
        <4>1. /\ written'["term_info"] = Headers + 1 + written["relate_info"]
              /\ Headers \in Nat /\ Headers + 1 <= Terms(content[run])
          BY <1>0, <3>1, <3>2, InfoSizes
        <4>2. written["relate_info"] <= AllRelations(content[run])
          BY <1>0, <3>4, InfoSizes
        <4> QED
          BY <1>0, <4>1, <4>2, InfoSizes
      <3>6. \A f \in File : written'[f] <= Size(run, f)
        BY <1>0, <3>1, <3>5 DEF WrittenInv, Before
      <3>7. /\ written'["relate_info"] <= RelationsOf(content[run], Headers + 1)
            /\ written'["n"] = 0
            /\ written'["ind1"] = Terms(content[run]) /\ written'["ind2"] = Terms(content[run])
        BY <1>0, <3>1, <3>3, <3>4 DEF WrittenInv, File
      <3> QED
        BY <1>0, <1>2, <3>2, <3>6, <3>7 DEF WrittenInv, Before, WriteHeader
    <2>4. ReturnInv'
      BY <1>0 DEF ReturnInv, WriteHeader
    <2>5. DataInv'
      BY <1>0, DataKept DEF WriteHeader
    <2> QED
      BY <2>1, <2>2, <2>3, <2>4, <2>5
  <1> QED
    BY <1>3, <1>4 DEF WriteHeader

LEMMA WriteRelationStep ==
    ASSUME IInv, WriteRelation
    PROVE  IInv'
  <1> USE DEF IInv
  <1>0. pc = "info" /\ run \in 1 .. MaxRuns /\ run # 0
    BY DEF WriteRelation, WrittenInv, Before, TypeOK
  <1>2. \A r, f : Size(r, f)' = Size(r, f)
    BY DEF Size, WriteRelation
  <1>3. PICK fs \in {Info, {}, {"relate_info"}} :
          Write(fs) /\ IF fs = Info THEN pc' = pc /\ ret' = ret ELSE Leave(-1)
    BY DEF WriteRelation, Info
  <1>4. fs \in SUBSET File
    BY DEF Info, File
  <1>5. /\ pc' \in {"info", "exit"} /\ ret' \in {0, -1}
        /\ pc' = "info" => fs = Info /\ ret' = ret
        /\ ret' = 0 => ret = 0
    BY <1>0, <1>3 DEF Leave, TypeOK
  <1>6. TypeOK'
    BY <1>3, <1>4, <1>5, WriteFile DEF TypeOK, WriteRelation
  <1>7. OutputInv'
    BY <1>0, <1>3, <1>4, <1>5, WriteOutput DEF WriteRelation
  <1>8. WrittenInv'
    <2>1. /\ \A f \in File \ Info : written'[f] = written[f]
          /\ written'["relate_info"] \in {written["relate_info"], written["relate_info"] + 1}
          /\ written'["term_info"] \in {written["term_info"], written["term_info"] + 1}
          /\ fs = Info => /\ written'["relate_info"] = written["relate_info"] + 1
                          /\ written'["term_info"] = written["term_info"] + 1
      BY <1>3, <1>4, WriteFile DEF File, Info
    <2>2. written["relate_info"] + 1 <= RelationsOf(content[run], Headers)
      <3>1. /\ written["relate_info"] # RelationsOf(content[run], Headers)
            /\ written["relate_info"] <= RelationsOf(content[run], Headers)
        BY <1>0 DEF WriteRelation, TermDone, WrittenInv
      <3> QED
        BY <1>0, <3>1, InfoSizes
    <2>3. RelationsOf(content[run], Headers) <= AllRelations(content[run])
      BY <1>0, InfoSizes
    <2>4. written'["relate_info"] <= Size(run, "relate_info")
      BY <1>0, <2>1, <2>2, <2>3, InfoSizes
    <2>5. written'["term_info"] <= Size(run, "term_info")
      BY <1>0, <2>1, <2>2, <2>3, InfoSizes
    <2>6. \A f \in File : written'[f] <= Size(run, f)
      BY <1>0, <2>1, <2>4, <2>5 DEF WrittenInv, Before, Info
    <2>7. fs = Info =>
            /\ Headers' = Headers
            /\ written'["relate_info"] <= RelationsOf(content[run], Headers)
            /\ written'["n"] = 0
            /\ written'["ind1"] = Terms(content[run]) /\ written'["ind2"] = Terms(content[run])
      BY <1>0, <2>1, <2>2, InfoSizes DEF WrittenInv, File, Info, Headers
    <2>8. content' = content /\ run' = run /\ open' = open
      BY DEF WriteRelation
    <2> QED
      BY <1>0, <1>2, <1>5, <2>6, <2>7, <2>8 DEF WrittenInv, Before
  <1>9. ReturnInv'
    BY <1>0, <1>5 DEF ReturnInv, WriteRelation
  <1>10. DataInv'
    BY <1>0, <1>5, DataKept DEF WriteRelation
  <1> QED
    BY <1>6, <1>7, <1>8, <1>9, <1>10

LEMMA WriteTotalsStep ==
    ASSUME IInv, WriteTotals
    PROVE  IInv'
  <1> USE DEF IInv
  <1>0. /\ pc = "info" /\ pc' = "text" /\ run \in 1 .. MaxRuns /\ run # 0
        /\ UNCHANGED <<run, content, data, ret, full, served, loaded>>
        /\ Open({"n"}) /\ Write({"n"}) /\ {"n"} \in SUBSET File
    BY DEF WriteTotals, WrittenInv, Before, TypeOK, File
  <1>1. open = File \ {"n"} /\ open' = File
    BY <1>0, OpenFile DEF WrittenInv, Ind, Info, File
  <1>2. TypeOK'
    BY <1>0, <1>1, OpenFile, WriteFile DEF TypeOK, Files
  <1>3. OutputInv'
    <2>1. \A f \in File \ {"n"} : output[f].run = run
      BY <1>1 DEF OutputInv
    <2>2. \A f \in File : written'[f] \in Nat /\ written'[f] >= written[f]
      BY <1>0, WriteFile DEF TypeOK
    <2> QED
      BY <1>0, <2>1, <2>2, OpenOutput
  <1>4. WrittenInv'
    <2>1. \A r, f : Size(r, f)' = Size(r, f)
      BY <1>0 DEF Size
    <2>2. /\ written'["n"] = written["n"] + 1
          /\ \A f \in File \ {"n"} : written'[f] = written[f]
      BY <1>0, WriteFile DEF File
    <2>3. /\ Size(run, "ind1") = Terms(content[run]) /\ Size(run, "ind2") = Terms(content[run])
          /\ Size(run, "n") = 1
      BY <1>0, ContentIsDump, SizeFacts DEF Size
    <2>4. Headers = Terms(content[run]) /\ written["relate_info"] = AllRelations(content[run])
      BY DEF WriteTotals, TermDone, AllRelations
    <2>5. /\ written["ind1"] = Size(run, "ind1") /\ written["ind2"] = Size(run, "ind2")
          /\ written["n"] = 0
      BY <1>0, <2>3 DEF WrittenInv
    <2>6. /\ written["relate_info"] = Size(run, "relate_info")
          /\ written["term_info"] = Size(run, "term_info")
      BY <1>0, <2>4, InfoSizes
    <2>7. \A f \in File : written'[f] = Size(run, f)
      BY <2>2, <2>3, <2>5, <2>6 DEF File
    <2>8. \A f \in File : Size(run, f) \in Nat
      BY <1>0, SizeType
    <2> QED
      BY <1>0, <1>1, <2>1, <2>7, <2>8 DEF WrittenInv, Before
  <1>5. ReturnInv'
    BY <1>0 DEF ReturnInv
  <1>6. DataInv'
    BY <1>0, DataKept
  <1> QED
    BY <1>2, <1>3, <1>4, <1>5, <1>6

LEMMA TextStep ==
    ASSUME IInv, DumpIndexAsText
    PROVE  IInv'
  <1> USE DEF IInv, DumpIndexAsText, Leave
  <1>0. pc = "text" /\ pc' = "exit" /\ run # 0 /\ open = File /\ run \notin full
    BY DEF WrittenInv, Before, ReturnInv
  <1>1. TypeOK'
    BY DEF TypeOK
  <1>2. \A r, f : Size(r, f)' = Size(r, f)
    BY DEF Size
  <1>3. OutputInv'
    BY <1>0, <1>2 DEF OutputInv
  <1>4. WrittenInv'
    BY <1>0, <1>2 DEF WrittenInv, Before
  <1>5. ReturnInv'
    BY <1>0, <1>2 DEF ReturnInv, OutputInv, WrittenInv
  <1>6. DataInv'
    BY <1>0, DataKept
  <1> QED
    BY <1>1, <1>3, <1>4, <1>5, <1>6

\* Records of this run reach the disk: at most what fwrite has accepted.
LEMMA OnDiskOutput ==
    ASSUME IInv, NEW f \in open, NEW len \in output[f].len .. written[f], OnDisk(f, len),
           pc \notin Before \cup {"open"}, pc' = pc, UNCHANGED <<run, content, written>>,
           open' \subseteq open
    PROVE  /\ OutputInv' /\ output' \in Files
           /\ output'[f] = [run |-> run, len |-> len]
           /\ \A g \in File \ {f} : output'[g] = output[g]
           /\ \A g \in File : output'[g].run = output[g].run
  <1> USE DEF IInv
  <1>0. /\ f \in File /\ run \in 1 .. MaxRuns /\ len \in Nat /\ written[f] \in Nat
        /\ output[f].run = run /\ Size(run, f) \in Nat /\ len <= written[f]
        /\ written[f] <= Size(run, f)
    <2>1. f \in File /\ output[f].len \in Nat /\ written[f] \in Nat
      BY DEF TypeOK, Files
    <2>2. run \in 1 .. MaxRuns
      BY DEF WrittenInv, TypeOK
    <2> QED
      BY <2>1, <2>2, SizeType DEF OutputInv, WrittenInv
  <1>1. /\ output'[f] = [run |-> run, len |-> len]
        /\ \A g \in File \ {f} : output'[g] = output[g]
        /\ output' \in Files
    BY <1>0 DEF OnDisk, TypeOK, Files
  <1>2. \A g \in File : output'[g].run = output[g].run
    BY <1>0, <1>1
  <1>3. \A r, g : Size(r, g)' = Size(r, g)
    BY DEF Size
  <1>4. \A g \in File : output'[g].run # 0 => output'[g].len <= Size(output'[g].run, g)
    BY <1>0, <1>1 DEF OutputInv
  <1>5. \A g \in open' : output'[g].run = run /\ output'[g].len <= written[g]
    BY <1>0, <1>1 DEF OutputInv, TypeOK
  <1>6. "n" \in File
    BY DEF File
  <1>7. OutputInv'
    <2>1. output'["n"].run = 0 => output'["n"].len = 0
      BY <1>0, <1>1, <1>6 DEF OutputInv
    <2> QED
      BY <1>0, <1>2, <1>3, <1>4, <1>5, <1>6, <2>1 DEF OutputInv, Before
  <1> QED
    BY <1>1, <1>2, <1>7

LEMMA FlushStep ==
    ASSUME IInv, Flush
    PROVE  IInv'
  <1> USE DEF IInv
  <1>1. PICK f \in open \ {"n"} : \E len \in output[f].len + 1 .. written[f] : OnDisk(f, len)
    BY DEF Flush
  <1>2. PICK len \in output[f].len + 1 .. written[f] : OnDisk(f, len)
    BY <1>1
  <1>3. len \in output[f].len .. written[f]
    BY DEF TypeOK, Files
  <1>4. /\ pc \notin Before \cup {"open"} /\ pc # "exit"
        /\ UNCHANGED <<pc, run, content, written, open, data, ret, loaded, full, served>>
    BY DEF Flush, Before
  <1>5. OutputInv' /\ output' \in Files
    BY <1>2, <1>3, <1>4, OnDiskOutput
  <1>6. TypeOK'
    BY <1>4, <1>5 DEF TypeOK
  <1>7. WrittenInv'
    BY <1>4 DEF WrittenInv, Size, Headers
  <1>8. ReturnInv'
    BY <1>4 DEF ReturnInv, Before
  <1>9. DataInv'
    BY <1>4, DataKept
  <1> QED
    BY <1>5, <1>6, <1>7, <1>8, <1>9

LEMMA CloseStep ==
    ASSUME IInv, NEW f \in File, CloseFile(f)
    PROVE  IInv'
  <1> USE DEF IInv
  <1>1. PICK len \in output[f].len .. written[f] :
          /\ OnDisk(f, len)
          /\ full' = IF len < written[f] THEN full \cup {run} ELSE full
    BY DEF CloseFile
  <1>2. /\ pc = "exit" /\ pc' = "exit" /\ f \in open /\ open' = open \ {f}
        /\ UNCHANGED <<run, content, written, data, ret, loaded, served>>
        /\ run # 0 /\ run \in 1 .. MaxRuns /\ written[f] \in Nat /\ len \in Nat
        /\ len <= written[f]
    BY DEF CloseFile, WrittenInv, Before, TypeOK, Files
  <1>3. /\ OutputInv' /\ output' \in Files
        /\ output'[f] = [run |-> run, len |-> len]
        /\ \A g \in File \ {f} : output'[g] = output[g]
        /\ \A g \in File : output'[g].run = output[g].run
    BY <1>1, <1>2, OnDiskOutput DEF Before
  <1>4. TypeOK'
    BY <1>1, <1>2, <1>3 DEF TypeOK
  <1>5. WrittenInv'
    BY <1>2 DEF WrittenInv, Size, Before
  <1>6. ReturnInv'
    <2>1. full' \subseteq 1 .. run
      BY <1>1, <1>2 DEF ReturnInv
    <2>2. ASSUME ret = 0
          PROVE  /\ \A g \in File : output'[g].run = run /\ written[g] = Size(run, g)
                 /\ run \notin full' => \A g \in File \ open' : output'[g].len = Size(run, g)
      BY <1>1, <1>2, <1>3, <2>2 DEF ReturnInv
    <2>3. \A g : Size(run, g)' = Size(run, g)
      BY <1>2 DEF Size
    <2> QED
      BY <1>2, <2>1, <2>2, <2>3 DEF ReturnInv
  <1>7. DataInv'
    BY <1>1, <1>2, DataKept
  <1> QED
    BY <1>3, <1>4, <1>5, <1>6, <1>7

\* The two ends of a run.
LEMMA EndStep ==
    ASSUME IInv, Exited \/ Kill
    PROVE  IInv'
  <1> USE DEF IInv
  <1>1. /\ pc' = "idle" /\ open' = {} /\ written' = [f \in File |-> 0]
        /\ ret' \in {ret, -1} /\ (ret' = 0 => pc = "exit" /\ open = {})
        /\ UNCHANGED <<run, content, output, data, loaded, full, served>>
    BY DEF Exited, Kill, ReturnInv
  <1>2. TypeOK'
    BY <1>1 DEF TypeOK
  <1>3. \A r, f : Size(r, f)' = Size(r, f)
    BY <1>1 DEF Size
  <1>4. OutputInv'
    BY <1>1, <1>3 DEF OutputInv
  <1>5. WrittenInv'
    BY <1>1 DEF WrittenInv, Before
  <1>6. ReturnInv'
    BY <1>1, <1>3 DEF ReturnInv
  <1>7. DataInv'
    BY <1>1, DataKept
  <1> QED
    BY <1>2, <1>4, <1>5, <1>6, <1>7

LEMMA InstallStep ==
    ASSUME IInv, Install
    PROVE  IInv'
  <1> USE DEF IInv, Install
  <1>1. TypeOK'
    BY DEF TypeOK
  <1>2. \A r, f : Size(r, f)' = Size(r, f)
    BY DEF Size
  <1>3. OutputInv' /\ WrittenInv' /\ ReturnInv'
    <2>1. OutputInv'
      BY <1>2 DEF OutputInv
    <2>2. WrittenInv'
      BY <1>2 DEF WrittenInv, Headers
    <2>3. ReturnInv'
      BY <1>2 DEF ReturnInv
    <2> QED
      BY <2>1, <2>2, <2>3
  <1>4. /\ run # 0 /\ \A f \in File : output[f].run = run /\ output[f].len <= Size(run, f)
        /\ run \notin full => \A f \in File : output[f].len = Size(run, f)
    BY DEF ReturnInv, OutputInv, WrittenInv
  <1>5. DataInv'
    BY <1>2, <1>4 DEF DataInv, File, TypeOK
  <1> QED
    BY <1>1, <1>3, <1>5

LEMMA ServerStep ==
    ASSUME IInv, ServerStart \/ ServerStop
    PROVE  IInv'
  <1> USE DEF IInv
  <1>1. /\ UNCHANGED <<pc, run, content, written, open, output, data, ret, loaded, full>>
        /\ served' \in {0, data["n"].run}
    BY DEF ServerStart, ServerStop
  <1>2. data["n"].run \in 0 .. MaxRuns
    BY DEF TypeOK, Files, File
  <1>3. TypeOK'
    BY <1>1, <1>2, RunsAssumption DEF TypeOK
  <1>4. \A r, f : Size(r, f)' = Size(r, f)
    BY <1>1 DEF Size
  <1>5. OutputInv'
    BY <1>1, <1>4 DEF OutputInv
  <1>6. WrittenInv'
    BY <1>1, <1>4 DEF WrittenInv, Headers
  <1>7. ReturnInv'
    BY <1>1, <1>4 DEF ReturnInv
  <1>8. DataInv'
    BY <1>1, <1>2, <1>4 DEF DataInv, TypeOK
  <1> QED
    BY <1>3, <1>5, <1>6, <1>7, <1>8

LEMMA NextIInv == IInv /\ [Next]_vars => IInv'
  <1> SUFFICES ASSUME IInv, [Next]_vars PROVE IInv'
    OBVIOUS
  <1>1. CASE UNCHANGED vars
    BY <1>1 DEF vars, IInv, TypeOK, Files, OutputInv, WrittenInv, ReturnInv, DataInv,
                Size, Headers
  <1>2. CASE \E f \in File : CloseFile(f)
    BY <1>2, CloseStep
  <1> QED
    BY <1>1, <1>2, StartStep, LoadStep, BuildStep, OpenIndStep, WriteIndStep, OpenInfoStep,
       WriteHeaderStep, WriteRelationStep, WriteTotalsStep, TextStep, FlushStep, EndStep,
       InstallStep, ServerStep DEF Next

LEMMA Invariance == Spec => []IInv
  BY InitIInv, NextIInv, PTL DEF Spec

-----------------------------------------------------------------------------
(* The theorems.                                                           *)

\* Every variable keeps its type, whatever indexes the runs build and
\* whenever they are killed.
THEOREM TypeCorrect == Spec => []TypeOK
  <1>1. IInv => TypeOK
    BY DEF IInv
  <1> QED
    BY <1>1, Invariance, PTL

\* Because DumpIndex writes word_net.n last, files with the totals of the last
\* run that LoadIndex would accept are one whole dump, at every moment.
THEOREM TotalsLast == Spec => []NewTotalsOneDump
  <1>1. IInv => NewTotalsOneDump
    <2> SUFFICES ASSUME IInv, LoadAccepts(output), output["n"].run = run
                 PROVE  Whole(output)
      BY DEF NewTotalsOneDump
    <2>1. run # 0
      BY DEF IInv, OutputInv, LoadAccepts, TermsAccepted
    <2>2. \A f \in File : output[f].run = run /\ output[f].len <= Size(run, f)
      BY <2>1 DEF IInv, OutputInv
    <2> QED
      BY <2>1, <2>2, AcceptedIsWhole DEF IInv, TypeOK
  <1> QED
    BY <1>1, Invariance, PTL

\* The server's mapping holds every relation it has a number for, while the
\* files it was started on stay in place and the disk was not full.
THEOREM MappingHolds == Spec => []MappedAsLoaded
  <1>1. IInv => MappedAsLoaded
    <2> SUFFICES ASSUME IInv, served # 0, served \notin full, data["n"].run = served
                 PROVE  data["relate_info"] =
                            [run |-> served, len |-> AllRelations(content[served])]
      BY DEF MappedAsLoaded
    <2>1. "relate_info" \in File
      BY DEF File
    <2>2. data["relate_info"].run = served /\ data["relate_info"].len = Size(served, "relate_info")
      BY <2>1 DEF IInv, DataInv
    <2>3. data["relate_info"] \in [run : 0 .. MaxRuns, len : Nat]
      BY <2>1 DEF IInv, TypeOK, Files
    <2>4. served \in 1 .. MaxRuns
      BY DEF IInv, TypeOK
    <2>5. Size(served, "relate_info") = AllRelations(content[served])
      BY <2>4, ContentIsDump, SizeFacts DEF Size, IInv
    <2> QED
      BY <2>2, <2>3, <2>5
  <1> QED
    BY <1>1, Invariance, PTL

-----------------------------------------------------------------------------
(* The five files implement a store of whole indexes.                      *)

\* Records of this run change a whole dump under output/ into none, or
\* complete the dump of this run.
LEMMA OutputStep ==
    ASSUME IInv, run' = run, run # 0,
           \A f \in File : output'[f] = output[f] \/ output'[f].run = run,
           output \in Files, output' \in Files,
           \A r \in 1 .. MaxRuns : r # run => content'[r] = content[r],
           \A f \in File : output'[f] = output[f] \/ content' = content,
           Whole(output)'
    PROVE  output'["n"].run = run \/ (Whole(output) /\ output'["n"].run = output["n"].run)
  <1> SUFFICES ASSUME output'["n"].run # run
               PROVE  Whole(output) /\ output'["n"].run = output["n"].run
    OBVIOUS
  <1>1. "n" \in File
    BY DEF File
  <1>2. output'["n"] = output["n"] /\ output["n"].run \in 1 .. MaxRuns
    BY <1>1, RunsAssumption DEF Files, Whole
  <1>3. \A f \in File : output'[f].run = output["n"].run
    <2>1. \A f \in File :
            output'[f] = [run |-> output'["n"].run,
                          len |-> SizeOf(content'[output'["n"].run])[f]]
      BY DEF Whole
    <2>2. \A f \in File : output'[f].run = output'["n"].run
      <3> TAKE f \in File
      <3>1. PICK q, size : output'[f] = [run |-> q, len |-> size] /\ q = output'["n"].run
        BY <2>1
      <3> QED
        BY <3>1
    <2> QED
      BY <1>2, <2>2
  <1>4. \A f \in File : output'[f] = output[f]
    BY <1>2, <1>3
  <1>5. content'[output["n"].run] = content[output["n"].run]
    BY <1>2
  <1> QED
    BY <1>2, <1>4, <1>5 DEF Whole

Made == IF Whole(output) THEN output["n"].run ELSE 0
Installed == IF Whole(data) THEN data["n"].run ELSE 0

LEMMA StoreStep == IInv /\ IInv' /\ [Next]_vars => [Store!StoreNext]_(Store!storeVars)
  <1> SUFFICES ASSUME IInv, IInv', [Next]_vars
               PROVE  \/ Store!StoreNext
                      \/ run' = run /\ Made' = Made /\ Installed' = Installed /\ loaded' = loaded
    BY DEF Store!storeVars, Made, Installed
  <1> USE DEF Store!StoreNext
  <1>0. /\ output \in Files /\ output' \in Files /\ run \in 0 .. MaxRuns
        /\ pc \notin {"idle"} => run # 0
    BY DEF IInv, TypeOK, OutputInv, WrittenInv, Before
  <1>1. ASSUME UNCHANGED <<content, output>> PROVE Made' = Made
    BY <1>1 DEF Made, Whole
  <1>2. ASSUME UNCHANGED <<content, data>> PROVE Installed' = Installed
    BY <1>2 DEF Installed, Whole
  <1>3. CASE Start
    BY <1>1, <1>2, <1>3 DEF Start, Store!Begin, Made, Installed
  <1>4. CASE LoadTermsToIndex
    <2>1. LoadAccepts(data) <=> Whole(data)
      BY AcceptedIsWhole DEF IInv, DataInv, TypeOK
    <2>2. run' = run /\ Made' = Made /\ Installed' = Installed
      BY <1>1, <1>2, <1>4 DEF LoadTermsToIndex
    <2>3. Whole(data) => Installed = data["n"].run /\ Installed # 0
      BY DEF Installed, Whole
    <2>4. ~Whole(data) => Installed = 0
      BY DEF Installed
    <2> QED
      BY <1>4, <2>1, <2>2, <2>3, <2>4
      DEF LoadTermsToIndex, Store!CountOnInstalled, Store!Refuse, Made, Installed
  <1>5. ASSUME UNCHANGED <<run, loaded, data>>, run # 0,
               data["n"].run # run,
               \A f \in File : output'[f] = output[f] \/ (output'[f].run = run /\ content' = content),
               \A r \in 1 .. MaxRuns : r # run => content'[r] = content[r]
        PROVE  \/ Store!StoreNext
               \/ run' = run /\ Made' = Made /\ Installed' = Installed /\ loaded' = loaded
    <2>1. Installed' = Installed
      <3>1. data["n"].run \in 0 .. MaxRuns
        BY DEF IInv, TypeOK, Files, File
      <3>2. data["n"].run # 0 => content'[data["n"].run] = content[data["n"].run]
        BY <1>5, <3>1
      <3> QED
        BY <1>5, <3>2 DEF Installed, Whole
    <2>2. Made' \in {0, run, Made}
      BY <1>0, <1>5, OutputStep DEF Made
    <2> QED
      BY <1>5, <2>1, <2>2 DEF Store!Publish, Store!Withdraw, Made, Installed
  <1>6. pc # "idle" => data["n"].run # run
    BY <1>0 DEF IInv, DataInv
  <1>7. CASE BuildIndex
    BY <1>0, <1>5, <1>6, <1>7 DEF BuildIndex, IInv, TypeOK
  <1>8. CASE OpenInd \/ OpenInfo \/ WriteTotals
    <2>1. PICK fs : Open(fs)
      BY <1>8 DEF OpenInd, OpenInfo, WriteTotals
    <2>2. \A f \in File : output'[f] = output[f] \/ output'[f].run = run
      BY <2>1, OpenFile DEF IInv
    <2>3. UNCHANGED <<run, loaded, data, content>> /\ pc # "idle"
      BY <1>8 DEF OpenInd, OpenInfo, WriteTotals
    <2> QED
      BY <1>0, <1>5, <1>6, <2>2, <2>3
  <1>9. CASE Flush \/ \E f \in File : CloseFile(f)
    <2>1. PICK g, len : OnDisk(g, len)
      BY <1>9 DEF Flush, CloseFile
    <2>2. \A f \in File : output'[f] = output[f] \/ output'[f].run = run
      BY <2>1 DEF OnDisk, IInv, TypeOK, Files
    <2>3. UNCHANGED <<run, loaded, data, content>> /\ pc # "idle"
      BY <1>9 DEF Flush, CloseFile
    <2> QED
      BY <1>0, <1>5, <1>6, <2>2, <2>3
  <1>10. CASE Install
    <2>1. Installed' = Made /\ Made' = Made
      BY <1>10 DEF Install, Installed, Made, Whole
    <2> QED
      BY <1>10, <2>1 DEF Install, Store!InstallMade, Made, Installed
  <1>11. CASE \/ WriteInd \/ WriteHeader \/ WriteRelation \/ DumpIndexAsText \/ Exited
              \/ Kill \/ ServerStart \/ ServerStop \/ UNCHANGED vars
    BY <1>1, <1>2, <1>11 DEF WriteInd, WriteHeader, WriteRelation, DumpIndexAsText, Exited,
        Kill, ServerStart, ServerStop, vars
  <1> QED
    BY <1>3, <1>4, <1>7, <1>8, <1>9, <1>10, <1>11 DEF Next

\* DumpIndex, stdio, the disk and LoadIndex together implement IndexStore: a
\* run takes as history exactly the index last installed, as a whole, and is
\* refused only when there is none.
THEOREM FilesImplementStore == Spec => AllOrNothing
  <1>1. Init => Store!StoreInit
    BY DEF Init, Store!StoreInit, Whole, NoFile, File
  <1>2. IInv /\ IInv' /\ [Next]_vars => [Store!StoreNext]_(Store!storeVars)
    BY StoreStep
  <1> QED
    BY <1>1, <1>2, Invariance, PTL DEF Spec, AllOrNothing, Store!StoreSpec
=============================================================================
