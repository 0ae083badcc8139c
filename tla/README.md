# The weibo word net: models, checks and proofs

The repository is a personal working tree. Its largest program of its own is the *weibo word
net* in `src/projects/TuangouLandMark/WeiboWordNet`: a nightly batch that counts which terms
occur together in the microblogs (weibos) of a day, and a server that answers questions about
the counts. Beside it lie the offer matcher `TuangouLandMark`, with its Aho-Corasick automaton,
and `libwb`, whose configuration reader all programs use. This project models these programs in
TLA+, checks small instances with TLC and proves the main results with TLAPS for all instances.

## 1. The system

```
 raw weibos ──PreWordSeg──▶ lines of terms ──MakeNetIndex──▶ output/  ──(copied)──▶ data/index/
                                                 ▲                                     │   │
                                                 └────────── history (LoadIndex) ──────┘   │
                                    requests ──▶ WordNetServer ◀── LoadIndexmmap ──────────┘
```

| Part | State | Operations | Hard behaviour |
| --- | --- | --- | --- |
| **MakeNetIndex** (`TermsProcessor.cpp`, `MakeWordNetData.cpp`) | `mTermIndex` (hash → number), `mTermInfo` (frequencies, `cooc_term`: hash → slot), `mRelateInfo` (slots), `mRelateIndexSlot` (free slots), four totals, `mNoMemory` | load the history, read a line, `RecordTerm`, `AddCooc`, `SortIndex` when memory runs out, `FiltIndex`, `DumpIndex` | `bad_alloc` in the middle of a line, slots given back and reused, counters kept by hand beside the maps they count, ties at the K-th count |
| **LoadIndex** (`MakeNetIndex/src/WordNetIndexor.cpp`) | five index files | read and range-check, merge today into the history | totals that disagree with the content, files of a run that failed |
| **WordNetServer** (`commonworker.cpp`) | the loaded index, read only; `hot_term_buf`, shared by the worker threads; one `WorkData_t` per thread | `GetHotTerm`, `GetCoocTerm`, `DoWork` | no lock anywhere; state kept from request to request |
| **LoadIndexmmap** (`WordNetServer/src/WordNetIndexor.cpp`) | as `LoadIndex`, and a shared mapping of `relate_info.index` | load, map | files replaced under the mapping |
| **The index files** (`DumpIndex`, `LoadIndex`, `LoadIndexmmap`) | five files under `output/`, five under `data/index/`, the stdio buffers of a run | open, write, flush at exit, copy, load, map | a kill, a failing open or write, a full disk between any two writes; files of different runs side by side |
| **TuanDanProcessor** (`TuangouLandMark/TuanDanProcessor.cpp`) | three maps by id, three automata by name | `LoadInfo` line by line, `TDProcess` offer by offer, `IsFatherSon` | ids and names that collide, cycles of fathers, `operator[]` that inserts while it looks up |
| **Aho_Corasick** (`TuangouLandMark/ac.cpp`, `libsrc/rqlib/ac.cpp`) | the trie with its links | `insert`, `clear`, `build_automata`, `get_match`, `get_match_off` | links that depend on links, inherited ids, rebuilding |
| **CConfigInfo** (`libsrc/libwb/CConfigInfo.cpp`) | the map, the depth of recursion | construct (`LoadConfig`), `SetValue`, `SaveConfig` | files that include themselves and each other, that cannot be read, or were cut while saved |
| **PreWordSeg** (`WeiboProcessor.cpp`) | a set of text keys | segment, drop duplicates | none: sequential |
| Other projects | – | text processing around third-party segmenters | see §8 |

The parts meet in the index files: `MakeNetIndex` writes them to `output/`, somebody copies
them to `data/index/`, the next `MakeNetIndex` loads them as history and the server loads them
to answer. Inside the server the threads meet in `hot_term_buf` and in `TermIndex`.
`TuanDanProcessor` reads its configuration with `CConfigInfo` and matches names with three
`Aho_Corasick` automata; it shares nothing else with the word net.

What makes the parts correct:

* the index counts what it says it counts: a relation has its own slot, leads to an indexed
  term, and is never more frequent than its terms; totals and per-term counters agree with the
  maps; a dump holds what memory held, and a load takes it back;
* an allocation failure, a crash or a failed dump never makes the index inconsistent, only
  incomplete;
* the filter keeps the most frequent relations;
* the five files are one whole index to whoever loads them, or none, whatever killed the writer;
* an offer is given landmarks of its city only, and all of them; the automaton finds exactly the
  words that occur;
* a configuration is read to the end whatever it includes, if its files can be read, and the last
  assignment counts;
* the server reads nothing that was never written, however its threads interleave, answers
  correctly when calls do not overlap, and answers always.

## 2. Modules

| Module | Models |
| --- | --- |
| `CoocIndex` | `MakeNetIndex`, all of `main`, with `LoadIndex` and the copy of `output/` to `data/index/` |
| `MCCoocIndex` | input lines for TLC |
| `CoocIndexProofs` | theorems about `CoocIndex`: the consistency of the index, what it counts, the refinement of `CoocCounter`, what the filter keeps, what the server and the files get |
| `HotTerm` | `GetHotTerm` of the server with `heapify_r` and `build_min_heap`, any number of threads |
| `MCHotTerm` | frequencies for TLC, the symmetry set of threads |
| `HotTermProofs` | theorems about `HotTerm` |
| `WordNetServer` | the server: `CreateGlobalData` with `LoadIndexmmap`, then `DoWork`, `ParseJsonInput`, `GenJsonResult` and `GetCoocTerm` in any number of threads |
| `MCWordNetServer` | index files and requests for TLC |
| `WordNetServerProofs` | theorems about `WordNetServer` |
| `CoocCounter` | abstract: a counter of terms and of pairs of terms; `CoocIndex` implements it |
| `IndexStore` | abstract: an index is there as a whole or not at all |
| `IndexFiles` | the five files one by one: `DumpIndex`, stdio, exit, kills, full disks, the copy, `LoadIndex`, `LoadIndexmmap`; implements `IndexStore` |
| `MCIndexFiles`, `IndexFilesProofs` | indexes for TLC; theorems, the refinement among them |
| `AhoCorasick`, `MCAhoCorasick`, `AhoCorasickProofs` | the automaton, words for TLC, theorems |
| `TuanDan`, `MCTuanDan`, `TuanDanProofs` | the offer matcher, files and offers for TLC, theorems |
| `ConfigInfo`, `MCConfigInfo`, `ConfigInfoProofs` | `CConfigInfo`, files for TLC, theorems |
| `NatLemmas` | first and last elements of sets of numbers, for the inductions in the proofs |

How they fit together: `CoocIndex` takes the five files as one value that a run replaces or loses;
`IndexFiles` shows that this is right, because to `LoadIndex` the files are one whole dump or none
(`AllOrNothing`). What `IndexFiles` assumes of an index (`IsDump`) and `WordNetServer` of a sound one
(`AsDumped`) is proved of every index that `CoocIndex` has on disk (`ReadersGetDumps`). `TuanDan` uses the
automaton by what it returns (`Match`), which `AhoCorasick` shows (`MatchExact`).

### `CoocIndex`

A term is its hash: every map of the program is keyed by it. `mTermInfo` and `mRelateInfo` are
sequences (index *n* of the vector is position *n + 1*), the hash maps are functions from `Hash`
with `End` for a missing key, and a *relation* is a pair ⟨term number, hash⟩. The order in which
a `hash_map` is walked is taken to be increasing; nothing but the numbering in the files depends
on it.

`AddCooc` takes one step for every ordered pair of terms of the line, so that `Crash` and a
failed allocation can strike between any two of them. `BadAlloc(pushed)` is the whole handler:
`mNoMemory` is set, `SortIndex(int(1))` runs (`Rare`, `SortedTerms`), a slot is taken with
`GetIndexSlot`, and without one the line is given up. `pushed` tells whether
`mRelateInfo.push_back` or the insertion into `cooc_term` threw; a `push_back` that succeeded is
not undone. An allocation that fails in `RecordTerm` is not caught by anybody and is a `Crash`.

`FiltIndex` is one step. The heap that `heapify_r` and `build_min_heap` keep there is modelled by
what its root is, the K-th largest count (`KthLargest`); `HotTerm` models the same two functions
operation by operation. `DumpIndex` is one step and writes one value, the five files together;
`DumpIndexFails` leaves `output/` unusable. `Install` is the copy to `data/index/`, which is not
part of the repository: it happens between runs, after a run that returned 0. A kill, or an exit
whose flush finds the disk full, may leave `output/` without an index also after `DumpIndex` is
through (`Flushed`).

`CountsWhole` relates the index to `CoocCounter`. While a line is in `AddCooc` the pairs that it has
passed are counted in memory and not yet in the abstract counter (`Passed`); the step that ends the
line counts it as a whole. Slots, numbers and the split into today and history disappear.

`runs` counts runs of the program and `weibos` is a history variable, the terms of every line
counted in the run.

### `HotTerm`

A step is one load or one store of the shared buffer. An entry (`sort_item_t`) is eight aligned
bytes: `tmp=input[min]` copies it with one access, while `GetHotTerm` stores its two members
separately, so an entry can hold the frequency of one term and the number of another. `root` is
the counter of `build_min_heap`, 0 also for a single call of `heapify_r`; the recursion of
`heapify_r` is in tail position and is a loop here. `alone[w]` is a history variable: no other
call overlapped this one. An entry that `malloc` returned and nobody wrote is `Unwritten`; using
its number as an index into `TermInfo` either reads some term or goes wrong (`"undefined"`).
The text of the answer is left out; since it may be full after any entry but the first, the
answer may end at any entry but the first. The index is chosen when the server starts (`TermNum`,
`Df`), with more terms than entries or with fewer.

### `WordNetServer`

`CreateGlobalData` picks what the index files hold from `Images`, which contains files as
`DumpIndex` writes them and files that are torn or do not belong together. `Accepts` is the set of
checks that `LoadIndexmmap` makes; without them the server does not start. `index` is what was
loaded and `TermIndex` the map as it is now, because `operator[]` may insert into it.
`WeiboNumRead` is what `SpliteByChar` of `libwb`, which the server links, makes of the last total:
it compares an `unsigned int` with `string::npos`, so it depends on the width of `size_t`
(`SizeTBits`).

A request is a list of pairs; `ParseJsonInput` takes one per step (`TakePair`, `NotAString`).
`query_type` and `content` are pointers into the thread's JSON tree and live as long as the thread.
`DoWork` parses a new tree over the old one, so pointers become stale (`Stale`), and a stale pointer
may yield any string (`Deref`). `NoQueryType` is `atoi(NULL)`.

`GetCoocTerm` visits one relation per step (`Visit`), so walks of several threads interleave.
`TermIndex[h]` on a missing key inserts 0 (`Touched`) and the walk goes on with term 0; where other
threads use the map meanwhile, or where the relation lies beyond the mapped file, the process may
also end (`VisitUndefined`). A logarithm of zero or a read beyond the file gives an arbitrary weight
(`Garbage`). `MmapError` is a failing `readahead`. The thread that ends up at `"undefined"` takes no
more steps; that the others go on is a superset of what happens. Type 0 is one step here, `HotTerm`
has its detail: the two share nothing but the loaded index, which `GetHotTerm` only reads. The text
of the answer is left out; since it may be full after any term but the first, any leading part of
the sorted terms may be listed (`Listed`).

### `IndexFiles` and `IndexStore`

A file is a prefix of what one run wrote to it, counted in records; the content of a record is left
out, its size is not: `SizeOf` says how many records each file of an index has, `walk` and `ends` of
an index give the term numbers and the relations that the range checks of the loaders see. `written`
is what `fwrite` has accepted, `output` what is on the disk. `OpenInd`, `OpenInfo` and `WriteTotals`
truncate; `WriteInd`, `WriteHeader` and `WriteRelation` write one record per step and may fail;
`Flush` brings any part of a file other than `word_net.n` (which is shorter than a buffer) to the disk
at any time. Nothing is closed by the code: `CloseFile` is exit, which flushes and closes the streams
in the order of the C library, last opened first, and may find the disk full (`full`). `Kill` may
strike at any point; it ends the process, not the machine, so what `write(2)` has accepted stays. `fp_indexn`, compared before it is assigned, makes `OpenInd` fail at will.
`Install` copies `output/` to `data/index/` after a run that returned 0 and between runs; the copy is
not in the repository, and this is the one assumption made of it. `ServerStart` and `LoadTermsToIndex`
take what `MmapAccepts` and `LoadAccepts` accept.

`IndexStore` has one value where `IndexFiles` has five files: the index last made, or none, the index
installed, or none, and which of them every run counted on.

### `AhoCorasick`

Node *n* of `_node` is position *n + 1*. `build_automata` takes one step per father (`LinkChildren`),
the search one step per character (`ReadChar`); `insert`'s loop over the characters of a word is
`Descended`, the two inner loops that climb links are `Climb` and `IdsFrom`. `get_match` and `get_match_off` read the text together. History variables hold the word of
every node and the words in force; a word that got a new id after a build is in `stale`. Every caller
builds after its last insertion and before it searches, and so does the model.

### `TuanDan`

One step per line and per offer. A text is the set of names that occur in it, so `CutTail`, the tests
of length and `string::find` on the list of landmarks are relations between names (`Stem`, `Short`,
`County`, `Inside`); lines with a wrong number of fields are left out, as the code skips them. Maps
are functions that grow: `Keep` is `insert` and `Touch` what `operator[]` leaves behind. `IsFatherSon`
is written as a predicate on the chain of fathers, and `LookedUp` is the set of ids it inserts. The
first match of type 2 or 3 ends the search for a city, so the conflict test before it is never
reached with a city. `city_id` is unsigned in the code, so its `<= 0` is a test for 0, and so it is
here. `tag` of a shop is uninitialised in the code and any value of `Junk` here. `read` and `cities`
are history variables, the lines of the landmark and of the city file that were taken.

### `ConfigInfo`

A line is what `LoadConfig` finds in it: an include, an assignment, both or none. `frames` is the stack
of calls, each with the lines it has still to read. `source` is a history variable, the files as the
object found them. The model is that of a 64-bit build, where
`SpliteByChar` keeps the last field whole (cf. the finding about `CStringTool.cpp:35`). Objects are
constructed one after the other over the same files, so what one saves another loads. A file that opens
and cannot be read, from the first line on (a directory) or from a later one, has the line `Broken`
there; `LoadConfig`, which waits for the end of the file and never looks at another error, stays at it
(`ReadFails`, `"endless"`). `SaveCut` is a save that the disk or a kill cuts short: the file is empty or
has some of the lines, the last perhaps with half its value.

## 3. Runs

| Run | Instance | Shows |
| --- | --- | --- |
| `cooc_index` | 3 hashes, lines of 0 to 3 terms with a repetition, K = 2, 2 lines per run, 2 runs | all invariants of `CoocIndex`, `FiltKeepsLeaders`, and `CountsWhole`: the refinement of `CoocCounter` |
| `no_memory` | as `cooc_index`, 1 run | **violated**: `MemoryAfterSort`, §7 |
| `hot_race` | 2 threads, 3 entries, 4 terms with four tables of frequencies, or 2 terms | `TypeOK`, `ReadsDefined`, `TopTerms`, `CallsProgress` |
| `server` | 2 threads, 4 hashes, 6 index images, 8 requests, 64-bit `size_t` | `TypeOK`, `OwnAnswer`, `WalkDefined`, `CoocRanked` |
| `server_content` | as `server`, a sound index | **violated**: `MissingContentRefused`, §7 |
| `index_files` | 2 runs, indexes of 0, 1 and 2 terms with and without relations, a server | `TypeOK`, `NewTotalsOneDump`, `MappedAsLoaded`, and `AllOrNothing`: the refinement of `IndexStore` |
| `dumped_written` | as `index_files` | **violated**: `DumpedMeansWritten`, §7 |
| `aho_corasick` | 7 words over 2 characters, 2 ids, 3 insertions, texts of up to 5 characters | `TypeOK`, `LongestSuffixes`, `MatchExact`, `FirstOffset` |
| `tuandan` | 6 city lines, 7 landmark lines, 2 shops, any 4 of them in any order, 2 offers out of 25, 2 links | `TypeOK`, `Known`, `LandmarksInCity`, `NoLandmarkLost`, `CityFromFiles` |
| `config` | 3 files in 16 constellations, limit 2, 3 objects, 1 call of `SetValue` | `TypeOK`, `CountIsDepth`, `LastWins`, `SavedReloads`, `LoadReturns` |
| `set_value` | as `config` | **violated**: `SetValueModifies`, §7 |
| `include_depth` | the files of `config`, the code's limit of 10, 1 object | **violated**: `RecursionExcludesLimit`, §7 |

*Bounds.* `MaxLines` and `MaxRuns` stop the counters from growing. Two runs are the least in
which a history is loaded, and in the second every combination of old and new terms and
relations occurs; with two lines a relation is created and counted again, and created by one
line and cut off by a failed allocation in the other. Three terms in a line are six ordered
pairs, enough for a failure before, between and after the two directions of a relation. K = 2
against two relations per term makes ties and a real cut, with leaders of today that differ from those
of the history. In `HotTerm` three entries
are the smallest heap with two children, four terms the smallest index that replaces the root of
such a heap, and two terms leave an entry unwritten. For what is proved (§5) the
bounds do not matter. `WordNetServer` needs no bound: a thread serves requests forever and the
reachable states are finite. Its images have a term with two relations of different weight (so a
ranking), one weibo (a negative logarithm), a relation to a term that is not indexed, one to a term
that never occurs, and a relation file that is too short or empty; its requests miss the type, the
content or both, repeat a key, carry a foreign key or a number instead of a string, or are no JSON.
In `IndexFiles` two runs are the least in which one overwrites what another wrote and loads what was
installed, and indexes of different sizes make mixtures that pass some of the checks; the theorems
cover every other instance. In `AhoCorasick` the words overlap in every way that makes links (suffix,
prefix, infix, border), and three of them give links that are found two links away; five characters
read past the longest word. In `TuanDan` a province, a city and a landmark need three lines and the
fourth collides with one of them, closes a cycle or lies beyond the limit of links, which is 2 instead
of 10. The limit of includes in `config` is 2 instead of 10 for the same reason.

Deadlock is not checked in the runs of `CoocIndex` (after `MaxRuns` runs nothing more happens)
nor in `hot_race` and the runs of `WordNetServer` (a thread stops where the code's behaviour is
undefined; in `hot_race` only with fewer terms than entries, `ReadsDefined`), nor in those of `IndexFiles`, `TuanDan` and `ConfigInfo` (after the bounded number of runs,
offers or objects nothing has to happen). It is checked everywhere else.

*Fairness.* `CoocIndex` states none: the batch may be killed at any time. `WordNetServer` states
none either; its properties are about answers that are given. `HotTerm`
needs none: that a call ends is stated as a descent (`CallsProgress`), which bounds the steps that the
call takes, whatever the scheduler does. `ConfigInfo` assumes weak fairness of `LoadStep`: the program has one thread, and a load that has begun
waits for nothing. `IndexFiles`, `AhoCorasick` and `TuanDan` state none.

Every property has a mutant: an operator `X_Variant` next to the definition `X`, the way a
plausible slip would change it, under which TLC finds the property violated. `PROJECT.json` lists
them.

## 4. Properties

`CoocIndex`, about the index in memory *and* about the files:

* `SlotsExclusive`: one slot per relation; the free list never names a slot in use.
* `IndexClosed`: `mTermIndex` is one to one onto the terms, and the key of a relation is an
  indexed term other than its own. The `operator[]` calls of `DumpIndex`, `DumpIndexAsText` and,
  in all threads of the server at once, `GetCoocTerm` never insert.
* `RelateNumExact`: `relate_term_num` is the size of `cooc_term`. `FiltIndex` fills its heaps and
  `LoadIndex` delimits records by it.
* `CoocWithinDf`, `DfWithinWeibos`, `RelationsSeen`: counts of relations, terms and weibos bound
  each other, separately for today and the history.
* `TotalExact`: the total of relations is right until the filter runs, also after loading a file
  whose totals are stale; at most one slot is lost to a failed insertion.
* `CountsExact`: against the history variable, `df_now` and `num_now` count exactly the lines that
  hold the term or the pair; once memory has run out, relations may only miss some.
* `DumpFaithful`: renumbering loses nothing, and `LoadIndex` accepts every file that was written.
* `MemoryAfterSort` (violated, §7): a failed allocation costs no relation as long as there are some that
  `SortIndex` could give up. What holds instead is `FrozenAfterNoMemory` (action, proved in §5): after a
  failed allocation no relation comes or goes before the filter, so the stale counts of a reused slot are
  never seen.
* `FiltKeepsLeaders` (action): the K − 1 most frequent relations, today or in the history, survive
  the filter, and the limit of 2K never decides.

`HotTerm`:

* `TypeOK`: in particular no index ever leaves the buffer.
* `ReadsDefined`: no unwritten entry is used unless there are fewer terms than entries, and then
  only beyond the last term.
* `TopTerms`: a call that nobody overlaps selects a correct top list, whatever disorder earlier
  overlapping calls left in the heap. (Overlapping calls may answer with terms that are not in
  the top list, or with one term twice; no property claims otherwise.)
* `CallsProgress` (action): every call ends, although `heapify_r` descends in a buffer that others
  change. Each step of a thread lowers, in lexical order, the terms or answers to come, the rounds of
  `build_min_heap`, the way down from the node and the steps at it (`Work`); steps of other threads leave
  the thread's locals alone. So the call takes a bounded number of steps of its own and waits for nobody.

`WordNetServer`:

* `OwnAnswer`: a complete, well-formed request is answered by its own type and content, whatever
  the thread's earlier requests, also failed ones, left in `WorkData_t`, and whatever the other
  threads do. Of a repeated key the last one counts.
* `WalkDefined`: with an index as `DumpIndex` writes it (`AsDumped`, which follows from
  `IndexClosed`, `DumpFaithful`, `CoocWithinDf` and `RelationsSeen` of `CoocIndex` for a day with
  weibos), no visit of any thread inserts into `TermIndex`, takes a logarithm of zero or reads
  beyond the mapping. What remains undefined is a thread that never got a `qt`.
* `CoocRanked`: with such an index, an answer lists relations of the term with their own weights,
  and nothing heavier is left out.

`CoocIndex` as a counter:

* `CountsWhole` (refinement): seen through `CoocCounter`, every run starts from nothing or from the
  installed counts, every weibo is counted with all its terms and pairs or, once memory has run short,
  with all its terms and some of its pairs; the filter forgets a pair or keeps its count; the files
  hold the counts of memory.

`IndexFiles`:

* `NewTotalsOneDump`: whenever `word_net.n` on the disk is of the last run, what `LoadIndex` would
  accept under `output/` is that run's whole dump. (With older totals a mixture of two runs can pass
  the checks: only the copy after a successful run keeps it from `data/index/`.)
* `MappedAsLoaded`: the relation file that the server has mapped holds all relations of the index it
  loaded, as long as nothing was installed over it and the disk was not full.
* `AllOrNothing` (refinement): a run that takes history takes exactly the index last installed, and
  is refused only where there is no whole one.

`AhoCorasick`:

* `LongestSuffixes`: links, and the node that a search has reached, are longest suffixes,
  also after a rebuild.
* `MatchExact`: the ids of exactly the words that occur. The exception is real: a word that gets a new
  id after a build may also be found under the old one, which `build_automata` had passed on.
* `FirstOffset`: `get_match_off` gives each id once, with the end of its first occurrence.

`TuanDan`:

* `Known`: an id that an automaton returns has its own entry, and a city the same in both maps.
* `LandmarksInCity`, `NoLandmarkLost`: the list of an answer is right in both directions, against the
  lines read; what collisions of ids and names lose is spelled out in the second.
* `CityFromFiles`: the city of an answer is the least id of a city of the city file that the category
  names, or else the name and the description; lines of the landmark file with ids or names of cities,
  and the entries of zeros that earlier offers inserted, have no part in it.

`ConfigInfo`:

* `CountIsDepth`: `m_nRecurseCount` is the depth of the recursion, also past files that do not open and
  includes that are refused. `RecursionExcludesLimit` (violated, §7) is what the header says of the depth.
* `LoadReturns` (liveness): loading ends, whatever is included, unless it comes to a file that opens and
  cannot be read to its end.
* `LastWins`: the last assignment to a key counts. A *place* is a way from the file of the object down
  to a line, through the lines that include (`Places`); the assignments at all places are ordered as
  they would stand in one file with the includes expanded (`Later`), and the map has the last.
* `SavedReloads`: what `SaveConfig` wrote as a whole is what a later object has, also after saves that
  were cut short.

## 5. Proofs

`CoocIndexProofs`, for every finite set of hashes, every set of lines, every K ≥ 1 and every
bound. `IInv` (end of `CoocIndex`) is the inductive invariant. `Sound` collects what a later step
relies on (slots, closure, counters, bounds of relations, positive counts) for one index, and is
required of memory and, in `ImageOK`, of each set of files. What it needs beyond the properties:

* `LocalsOK`: `hash_values` lists the terms of the line once each and all of them are indexed, so
  that `AddCooc` finds its terms;
* `RoomForLine`: `df_now` of the terms of the line was counted before the first relation is. A
  relation that `AddCooc` has not come to yet (`Ahead`) is therefore *strictly* below the
  frequencies of both its terms, which is why counting it keeps `CoocWithinDf`;
* `NoFreeSlots`: only the filter gives slots back. `Live` (every relation has a positive count)
  makes `SortIndex(1)` find nothing, hence no old slot is ever reused: this is what
  `FrozenWithoutMemory` and, with it, `CoocWithinDf` and `RelationsSeen` rest on;
* `DfBound`: per term, whether the line being read counts already.

There is a lemma per action; the steps of `FiltIndex`, `DumpIndex` and `LoadIndex` rest on lemmas
about `Relations`, `Rank` and `InOrder` (the order of the walk numbers the relations one to one),
`Without` and the merge. Theorems: `Invariance`, `TypeCorrect`, `SlotsAreExclusive`,
`IndexIsClosed`, `RelateNumIsExact`, `CoocStaysWithinDf`, `DfStaysWithinWeibos`,
`RelationsAreSeen`, `DumpIsFaithful`, `FrozenWithoutMemory`.

The second part of the module, under the same assumptions, is about numbers. `CountInv` adds to `IInv`:

* `LineCounts`: *inside* a line the counts are those of the lines read before, plus one for the terms
  that `RecordTerm` has been through and for the pairs that `AddCooc` has passed. `CountsExact` speaks of
  the moments between two lines only and is not inductive;
* `TotalExact` with `Tight`: a file has one slot per relation, so that a load starts without lost ones;
* `Empty`: a run begins with nothing in memory.

`EmptyStep`, `TightStep`, `TotalStep` and `LineStep` take one conjunct each through all actions; they
rest on what one more line or relation does to the sets whose cardinality is meant. With the counts
exact, every step is a step of `CoocCounter` or changes none of its variables (`IndexCounts`): the step
that ends a line is the one that counts it, and `CountsNow`, which takes the passed pairs off again, is
constant inside a line. `LeadersSurvive` needs the K-th largest count: at least K keys have that count
or more and fewer than K have more, so a leader lies above it; and the keys above the two bounds are
fewer than K each, so at most 2K − 2 remain and the limit of 2K never decides. Theorems:
`CountInvariance`, `TotalIsExact`, `CountsAreExact`, `IndexCounts`, `LeadersSurvive`.

The last part joins the models. `ReadersGetDumps` instantiates `WordNetServer` and `IndexFiles` for what
they say of an index and shows of every index under `output/` and `data/index/` that it is one: as the
server reads it (`AsRead`) it is an `IsImage`, accepted if and only if it has relations, and then
`AsDumped`; its records (`DumpOf`, for every order in which the map of terms may be walked) are an
`IsDump`, as many as the totals in `word_net.n` say. It takes both invariants: that a relation record
implies a relation, hence a term that occurs and a positive number of weibos, is `Tight` with `Live`,
`WithinDf` and the bound on frequencies in `ImageOK`.

`HotTermProofs`, for every set of threads, every number of terms and entries (at least one) and
every table of frequencies. `HeapInv` adds to the types what a thread may rely on where it stands
(`Phase`): entries below its counter are written, all are when `heapify_r` runs, and what it holds
in `tmp` and `reg` is a copy of a written entry. The argument has two halves: the moving thread
establishes its own `Phase`, and since no step makes a written entry unwritten (`Kept`), the
`Phase` of every other thread survives (`PhaseKept`). `SelectsTopTerms` is about a call that nobody
overlaps. `TopInv` says of such a call, wherever it stands, that the buffer holds different terms with
their own frequencies, that no term passed so far and left out is more frequent than one that is in,
and that the entries from `root` on form a heap, except between the entry that `heapify_r` is about to
sink and its children; between the two stores of a replacement the root does not count, and between
those of a swap the missing entry is in `tmp`. The root is the least of a heap by the smallest-counterexample argument along the chain of
parents. For `CallsAreBounded`, `DeepInv` adds to `HeapInv` that `min` is at or below the node in the tree, and
strictly below from the swap on, whatever was read: the recursion only goes to greater numbers.
Theorems: `HeapInvariance`, `TypeCorrect`, `ReadsAreDefined`, `SelectsTopTerms`, `CallsAreBounded`.

`WordNetServerProofs`, for every set of threads, any requests and any index images. `ServerInv`
says that what was loaded does not change, that `TermIndex` is still the loaded one if the index is
as dumped, and that a walking thread has found its term and has only keys of that term left to
visit; with `Accepts` and `AsDumped` this makes every visit defined (`VisitIsDefined`), which in turn
is why `Visit` and `MmapError` insert nothing and `VisitUndefined` does not happen. As in
`HotTermProofs` a step of one thread shows its own part (`Good`) and leaves the others `Untouched`.
`WalkIsDefined` is under the hypothesis `SizeTBits = 64`. The hypothesis is needed: in a
32-bit build a total below ten is read as whatever the stack holds, possibly 0. `ThreadInv` relates, for
each thread, the pairs of its request that are still to be taken to the whole request, and `query_type`
and `content` to the last of the pairs taken; the answers follow from it (`AnswersAreOwn`), without
an assumption on the index. `RankInv` says of a walk on a sound index that its relations so far have
their own weights and that each key of the term was visited or is still to be; the listed part of an
answer is a leading one, whence `AnswersAreRanked`. Theorems: `TypeCorrect`,
`WalkIsDefined`, `AnswersAreOwn`, and, as `WalkIsDefined` for 64 bits, `AnswersAreRanked`.

`IndexFilesProofs`, for every set of indexes that `CoocIndex` can hand over (`DumpsAssumption`) and any
number of runs. None of the properties is inductive: they say what is on the disk, and what gets there
is decided by what is still in the buffers. `IInv` adds `OutputInv` (an open file holds a prefix of what
was written to it, and `word_net.n` of the current run means that all files are of that run),
`WrittenInv` (how far the writes have got at each point of `DumpIndex`, and that none goes beyond the
size of its file), `ReturnInv` (0 is returned only after everything was written, and what is short on
the disk then is known to be, `full`) and `DataInv` (what is installed is of one run). The hinge is
`AcceptedIsWhole`: files of one run, none longer than its size, that pass the checks of `LoadIndex` are
whole. Theorems: `TypeCorrect`, `TotalsLast`, `MappingHolds` and `FilesImplementStore`, the refinement:
initial states map to initial states and every step to a step of `IndexStore` or a stutter
(`StoreStep`; `OutputStep` shows that a write can only complete the current run's dump or spoil the
one that was there).

`TuanDanProofs`, for any lines, texts and number of links. `IInv` adds to `Known` that entries carry
their own ids and that the entries of cities are among the landmarks. Then a lookup touches ids that
have entries or inserts zeros (`OfferTouches`). `FileInv` ties the map and the automaton to the
lines read: of the lines with an id the first is in the map, of those with a name the last is in the
automaton, and what else is in the map is zeros that offers inserted. The chain that `IsFatherSon`
climbs, defined by recursion over the map, is then a way over lines of the files and the other way round
(`ChainSteps`, `FatherIsAbove`, `AboveIsFather`), and the list of an answer, a recursion over the ids
found, has each name or one that contains it and no others (`ListedNames`). `CityFileInv` does for the
city file what `FileInv` does for the landmark file, in both directions: of the city lines with an id the
first is in `mCityInfo` and every entry is such a line, of those with a name the last is in
the automaton and nothing else is; the first city of the ids found is then the least. Theorems: `TypeCorrect`,
`MatchesKnown`, `ListedAreInCity`, `NoneIsLost`, `CityIsFirst`. Of the constants the proofs need that
a name is found in itself (`InsideAssumption`), as `string::find` does.

`ConfigInfoProofs`, for any files, also unreadable ones, any graph of includes and any limit. `DepthInv`
suffices for `RecursionCounted` and `RecursionBounded` (at most Limit + 1 calls), `TypeInv` for `TypeCorrect`. `SavedInv` says that a file that was saved to consists
of lines without includes, one per key, and that a load of it has assigned the keys of the lines above
the present one. `LoadInv` says that the calls under way stand at lines of the object's snapshot of the
files, the include of each but the innermost being the file of the next, and that the map has, for each
key, the last of the assignments at the places read before; a step reads one more place, which is later
than all of them. Theorems: `RecursionCounted`, `RecursionBounded`, `TypeCorrect`, `SavedComesBack`,
`LastAssignmentCounts`.

`AhoCorasickProofs`, for any characters, words, ids and bounds. `IInv` has one part per phase of the
automaton:

* `TrieInv`: the words of the nodes are different and every node has the one above it (`IsTrie`); a link
  leads to an end of the node's word and a shorter one (`HasLinks`), which holds of the links of an
  earlier build too, so that climbing always ends; and the id of a node is that of its word or of an end
  of it, in force or replaced (`IdsInForce`);
* `BuildInv`: the queue goes by depth, and a node either waits for one above it in the queue or has its
  final link and id (`Reached`) and lies at most one level below every entry of the queue. The climb from
  the link of a father therefore meets nodes with final links only, though `build_automata` is half done;
* `SearchInv`: the node reached is the longest end of the text read, and what was found so far is exactly
  what occurs.

The recursive functions `Climb`, `IdsFrom` and `Descended` first have to be shown to have a solution
(`FollowExists`, `CollectExists`, `DescentExists`). The hinges are `ClimbIsBest` (climbing stops at the
longest end that has a child by this character), `ChildOfBest` (its child is then the longest end of the
longer word, for a link of `build_automata` as for a step of the search, `AdvanceIsLongest`),
`IdsAreThoseOfEnds` (no word that ends here is missed where `IdsFrom` stops at the first node without an
id) and `LinkChildrenQueue` (the queue stays ordered). Theorems: `Invariance`, `TypeCorrect`,
`LinksAreLongest`, `MatchIsExact`, `OffsetsAreFirst`.

*Induction.* The library's induction theorems cannot be applied here. Where a proof needs an induction
over data (a chain, a heap, a recursive function) it takes the smallest number, or the smallest set by
cardinality, for which the claim fails, and refutes it; `NatLemmas` (`SmallestNat`, `LargestNat`)
derives what this needs from the library's facts about well-founded relations.

Assumptions: otherwise only the named `ASSUME`s on the constants of the modules.

*Model-checked only.* `LoadReturns`: liveness is out of the prover's reach. Every
safety property of a passing run is a theorem, and so are both refinements.

## 6. Plan

Done: the core (`CoocIndex`, `HotTerm`, `WordNetServer`), the files and their store, the counter, the
automaton, the offer matcher and the configuration reader, with their runs; a theorem for every
safety property of all of them and for both refinements. The models of the index,
its files and its server are joined by `ReadersGetDumps`. Nothing of the plan is left; section 8 says what
it leaves out.

## 7. Findings

Shown by a run that expects the violation:

* `TermsProcessor.cpp:441` says *"after sortindex ,we have momery"*. `SortIndex(int(1))` deletes
  relations counted fewer than once, and there are none (`RelationsSeen`, proved): no slot is
  given back, the line is given up, and no new relation is recorded for the rest of the run
  (`FrozenWithoutMemory`). Run `no_memory`.
* `CConfigInfo.h:42` says of the recursion of includes *最大的递归层数不包含10层*: ten levels are not
  included. `CConfigInfo.cpp:81` compares with `<=` and admits ten calls of `LoadConfig` inside the
  first. Run `include_depth`; the bound that holds is `RecursionBounded`.

* `commonworker.cpp:418-421` refuses a request without content with *"get input json error"*. It
  tests a pointer that nothing resets (`InitWorkData`, line 205, has no caller): once a thread has
  served a request with content, one without is answered from what is left in memory. Run
  `server_content`. The same holds of `qt`, and before the first one `atoi(NULL)` is called.
* `MakeWordNetData.cpp:102` logs *"dump index sucessfully!"* and `main` returns 0, though none of the
  five streams has been closed: exit writes the last buffers, and a full disk goes unnoticed. Run
  `dumped_written`. The next run refuses what is left (`AllOrNothing`), and the server does not notice
  a relation file that is too short (`MappedAsLoaded` has to exclude this case).
* `CConfigInfo.h:28` says that `SetValue` changes the value (*修改value*) of a key.
  `CConfigInfo.cpp:35` searches the map for the value instead of the key. Run `set_value`.

Visible in the definitions and the properties that hold:

* `TermsProcessor.cpp:650` says *"loop again, delete the term outside top K"*. Kept is only what
  is strictly above the K-th largest count (`AboveKth`), so the K-th and its ties are deleted as well:
  `FiltKeepsLeaders` can promise K − 1 relations only.
* `libsrc/libwb/CStringTool.cpp:17` says that `SpliteByChar` splits a string at a character. Where
  `size_t` has 32 bits it loses the last character of the last part (line 35, `WeiboNumRead`). The
  program that writes `word_net.n` ends it without a newline (`TermsProcessor.cpp:790`), so such a
  server reads the number of weibos without its last digit and all weights are off; this is why
  `WalkIsDefined` needs `SizeTBits = 64`. The objects and the `testServer` kept in the repository are
  32-bit. `MakeNetIndex` has its own copy of the function, without the slip.
* `TuanDanProcessor.cpp:620` says that `IsFatherSon` returns 2 where the father is a province. It
  returns 0 there, and the branch meant for provinces (line 635) cannot be reached and returns 1.
* `CConfigInfo.cpp:68` reads *while(!fin.eof())*: a configuration, or an included file, that opens and
  cannot be read (a directory, an error of the disk) is read forever (`ReadFails`), which `LoadReturns`
  has to exclude.

## 8. Not modelled

* *Process control of the server* (`commonserver.c`): starting and stopping the servers is up to
  `TransSrv`, which is not in the repository; `ReleaseGlobalData` frees nothing. `TransSrv`'s use (one `DoWork` per thread at a time, one working data per thread) is
  taken from `commonserver.c`.
* *PreWordSeg*: one sequential loop around third-party segmenters; its only state is the set of text
  keys seen. *The first version of the word net* (`projects/WeiboWordNet`): superseded.
* *Lengths of texts*: `commonworker.cpp:314` guards a buffer of 2048 bytes by comparing the length so
  far with 2000; the models have no lengths.
* *`fwrite` of a hash in `DumpIndex`* (`TermsProcessor.cpp:742`), whose result is not looked at: in
  `IndexFiles` a relation's hash and number are one record.
* *A torn `word_net.n`*: its few dozen bytes are written by one `write(2)` and are one record of
  `IndexFiles`. The loaders do not look at what `fgets` returns (`WordNetIndexor.cpp:184`), so of a file
  cut inside they would take what the buffer still held.
* *A crash of the machine*: what `write(2)` accepted and the kernel had not yet brought to the disk is not
  lost in `IndexFiles`.
* *`AddCooc`'s return for a slot beyond `mRelateInfo`* (`TermsProcessor.cpp:462-467`, `480-485`): there is no
  such slot (`SlotsExclusive`), so it is a guard and no action in `CoocIndex`.
* *Names with spaces*: `TDProcess` looks for a landmark in the list of those found, joined with spaces
  (`TuanDanProcessor.cpp:561`); a name with a space could be found across two of them. In `TuanDan` no name
  has one.
* *Overflow of weights*: `num_now * idf * idf` is 32 bits wide; `idf` is at most 19.
* *Overflow of the counters*: they are 32 bits wide and count lines of one day; no instance comes near.
* *Formatting of answers, the log (`nx_log`), the text files of `DumpIndexAsText`*: output for people.
* *Other parts of `libwb`* (`CResource`, the rest of `CStringTool`, `CTextKeyTool`): small, sequential.
* *`HotBlogFinanceSports`, `TagExtract`, `Classifier`, `LoveMarriageIntend`, `baifendian`*: sequential
  text processing and floating-point weights around third-party segmenters and classifiers.
* *`algorithms`, `my_test`*: exercises no program uses.
* *`thirdsrc`, `third`, `lib`, the vendored libraries under `libsrc`*: not this repository's code; they
  are most of its lines.
