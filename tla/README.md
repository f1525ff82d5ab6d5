# A formal model of ezi

ezi is a small package manager written in C. `ezi add` records a software in a
table, `ezi list` prints a table, `ezi install` downloads, extracts and builds
one. This directory holds TLA+ specifications of the program, the TLC
configurations that check them on small instances, and proofs of their most
important properties that TLAPS checks for every value of the constants.

`PROJECT.json` maps each definition to the lines of code it models, lists the
runs, the fault variants ("mutants") that show each property can fail, the
hazards of the code and the theorems.

## 1. The system

ezi is a sequential program that several users may run at once on the same
files. Its parts, from the bottom up:

| component | state | operations | used by |
|---|---|---|---|
| linked list (`ds_slist.c`) | `head`, `tail`, `count`, the nodes on the heap | push, pop, shift, unshift, remove, clear, free | hash table, arguments, dependencies |
| hash table (`ds_hash_table.c`) | an array of lists, `count`, copies of keys and values | get, has_key, set, remove, clear, free | tables of software, table of commands |
| byte I/O (`io_read_write.c`, `io_endian.c`) | a `FILE *` with its buffer and end-of-file flag | read and write of numbers and strings | records, sources |
| record (`data_software.c`) | name, description, URL, list of dependencies | read, write, encode, decode, free | sources |
| source (`data_software_source.c`) | the open data file and its header | open or create, load, save | database |
| database (`data_software_database.c`) | the tables `installed` and `available` | load, save, insert, get, remove | application, commands |
| application (`app.c`, `main.c`, `config.c`) | configuration, table of commands, database | init, dispatch, destroy | |
| commands (`*_command.c`) | none of their own | add, list, install, usage, echo | application |
| download (`io_http.c`) | one file, one curl handle | download | install |
| archive (`io_archive.c`) | two libarchive handles, the current directory | extract, list_contents | install |
| paths, logging, error texts, memory wrappers | none | pure helpers | all |

Interaction is by direct calls. A run opens both data files, loads both tables
into memory, executes one command and ends; `ezi add` writes both tables back
in full. Two runs share only files: the two data files in the current
directory, which nothing locks, and the directories under `/tmp` that
installations make.

What is hard in this program:

* runs of several users interleave between any two system calls (first run
  against first run, add against add, add against load, install against
  install);
* a save truncates the file before it writes it, buffers what it writes and
  never checks that it arrived; a kill or a full disk in between leaves a cut
  file, and the reader notices the end of a file one read too late;
* pop and remove of the list leave `count` or `tail` wrong in some calls, and
  everything above relies on them;
* ownership: an entry of the hash table owns copies of key and value, and
  through the value a list of dependencies that one of set, clear and free has
  to release exactly once;
* an installation that fails half way leaves a directory that stops the next,
  and the name of that directory comes out of a URL;
* a run may fail at any of its calls, and `ezi_app_destroy()` follows whatever
  was reached until then: half made tables, one of two open files, a record
  that has not found its place yet;
* errors are told through `errno`, which not every call that fails sets.

What makes each part correct:

* list: walks stay within allocated nodes and end; emptiness is unambiguous;
  with the calls that are safe it is a double ended queue;
* hash table: one entry per key, an exact count, the behaviour of a
  dictionary, and no memory left behind by the calls of the program but what a
  set loses when it runs out of memory half way;
* data files: what is reported as added is stored; a load takes a whole table
  or fails; nothing is invented; concurrent runs leave readable files; an add
  takes effect;
* install: runs never share a directory nor leave `/tmp` for another one; make
  runs on what was really extracted; what a failure means for later attempts;
* application: on every path each block and each file has one owner that
  releases it once; the errno that a log shows belongs to the failure it tells
  of; a command line that follows the usage text is carried out.

## 2. The modules

| module | models | extends / instantiates |
|---|---|---|
| `SList` | the linked list over an explicit heap | instantiates `Deque` |
| `Deque` | abstract: a double ended queue | |
| `SListProofs` | theorems about `SList` | |
| `HashTable` | the hash table, its memory | instantiates `Dictionary` |
| `HashTableProofs` | theorems about `HashTable` | |
| `Dictionary` | abstract: a map that can be closed and opened | |
| `RecordBytes` | the records of a data file byte by byte, on machines of both byte orders | instantiates `SourceFile` |
| `RecordBytesProofs` | theorems about `RecordBytes` | |
| `SequenceFacts` | lemmas about concatenation, flattening and reversal of sequences | |
| `SourceFile` | the format of a data file, its writer, its reader on whole and cut files (operators only) | |
| `SourceFileProofs` | theorems about what a load returns | |
| `Ezi` | runs of the program on the shared data files | extends `SourceFile`, instantiates `Catalog` |
| `EziProofs` | theorems about `Ezi` | |
| `Catalog` | abstract: a table that is taken as a whole and replaced as a whole | |
| `Path` | the file names made from a URL (operators only) | |
| `Install` | runs of `ezi install` on `/tmp` | extends `Path` |
| `InstallProofs` | theorems about `Install` | |
| `App` | one process from `main()` to its exit: memory, open files, errno | |
| `AppProofs` | theorems about `App` | |
| `MC*` | the instances TLC checks | |

### SList

`next` and `data` are the fields of the allocated nodes, so `DOMAIN next` is
the allocated heap; `calloc` may return any free node, one just freed
included, or fail. Each operation is one action and records its result in
`call`. Where the code loops over the list the action uses the walk that loop
makes. `pop` does not count in its branch for several items and `remove` takes
the node behind the match, as in the code. Calls that would follow a dangling
or null pointer are collected in `Undefined`, which ends the behaviour; TLC
and the proofs therefore speak of all sequences of calls up to the first one
that is undefined. The history `orderly` says that every call so far was a
safe one: a pop of at most one item, a removal of the first item or of one that
is not there, or any other operation. The properties of the safe calls
(`InShape`, `NoCallIsWild`, `RefinesDeque`) are stated under it, so that one
run and one specification serve both kinds.

`ezi_slist_push` and its variant without a copy are one action, and so are the
two of shift. Null arguments, which are rejected first, are left out. The
data comparison is equality.

### HashTable

A bucket is the sequence of entries that a walk sees, its `count` field, and
whether its tail dangles (`hangs`); `SList` justifies treating walks as
sequences. The heap is represented by what is allocated: `lists` is the set of
values whose dependencies are allocated and `bodies` the number of entries
with their copies of key and value. A set of a new key may fail in two places:
before its body is allocated, or after it, for want of the list node; then
nothing frees the body (`LosesBody`, `src/ds_hash_table.c:166-171`) and the
history `lost` counts it. `Take` is what `ezi_slist_remove()` does
to a bucket. The history `conduct` grades the calls that were made. "program":
only calls that occur in the program; its commands remove nothing, and its only
clear is that of a load into an empty table. "safe": also calls after which the
table is still a dictionary, which are removals from the head of a bucket and
clears of a table with entries (a removal leaves the dependencies of the entry
behind, such a clear the bodies). "any": all others. At this level a bucket
with a dangling tail is taken to be undefined where `remove` reads the tail,
even if the allocator has handed the node out again.

### RecordBytes

A record goes from the arguments of `ezi add` through `strncpy` into a struct
(`Struct`), from there through `strlen` and the big-endian numbers of
`io_endian.c` into the file (`Record`), and back (`ReadRecord`), on a writer
and a reader of either byte order. `Read` is one `fread` with `CHECK_EOF`
before it: it may come short and still succeeds. A string that fills its field
has no zero byte, so the writer takes it and what lies behind it for one
string: the next field of the struct, or for a dependency whatever follows its
block on the heap, which is undefined and is any string of `Behind`. The
reader takes only as many bytes as fit and goes on in the middle of the rest.
`Fits` is the condition on a struct under which none of that happens; it is
weaker than "shorter than the field", because the last byte may be used where
a zero follows. The number of dependencies is written modulo `DepsWidth`,
2^16 in the code.

`Rewind` flushes the buffer of the stream. A full disk may cut the file at any
byte, unreported, and `whole` says that it did not. Only files of up to
`MaxCut` records are cut: what a record behind a cut would have been does not
matter, since the reader goes from record to record and never gets there.

`ReadsAsFields` relates this module to the next one: the bytes, cut anywhere,
are turned into the fields and the torn string of `SourceFile`, and each record
that is read, or refused, is one that the reader of fields may read, or
refuses, there. This is why `Ezi` may work with fields.

### SourceFile and Ezi

A file is the sequence of fields that were written; a cut file is a prefix,
perhaps with its last string torn. `ReadRecord` follows the reads of
`ezi_software_read()` with the late end-of-file test of `CHECK_EOF`: the read
that meets the end succeeds with an uninitialised number (any value of
`Garbage`) or a shortened string (`Stump`), the next one fails. `Load` is the
loop over the records that the header promises.

An action of `Ezi` is one system call with the computation before it:

| action | code |
|---|---|
| `Start` | a user runs the program with some command |
| `Open`, `Create`, `Header` | `fopen("r+")`, `fopen("w+")`, the new header and its flush in `rewind()` |
| `LoadTable` | `ezi_software_source_load()` with its one `read(2)` |
| `ExecuteLook`, `ExecuteAdd` | the command, up to its first system call |
| `Truncate` | `ftruncate()` |
| `Write` | the header, the records and the `rewind()` that flushes them |
| `Report` | "Software was added successfully", and the end of the run |
| `Kill` | the process ends between two calls (with `Faults`) |

`clean`, `saved` and `acked` are histories: so far no two runs overlapped and no
fault happened; the table last saved; the software reported as added.

The order is the code's: open installed, open available, load available, load
installed, execute, save available, save installed.

Assumptions, named in the module: a table fits in the buffer of its stream, so
that it is read by one `read` and written by one `write`; the bytes of a
longer table behind a later, shorter one are beyond the records the header
counts and are never looked at; strings are shorter than the fields that hold
them (`RecordBytes` is about the others); with `Faults` users run the program one at a time; the "r+" open fails
only because the file is absent; a failed allocation ends a run like a kill.

### Install

Every call of the command (chdir, mkdir, download, open, each entry of the
archive, make, make install) may succeed or fail. A download may be any prefix
of the archive or a page of the server. `Extract` is one turn of the loop of
`ezi_archive_extract()` with each outcome of the four libarchive calls:
"ok", "warn" (`ARCHIVE_WARN`, `ARCHIVE_RETRY`), "failed" (`ARCHIVE_FAILED`,
`ARCHIVE_FATAL`). The directory of a software is computed from its URL as the
code does (`DirOf`, with the operators of `Path`), so that two software share
one exactly when their URLs make them. `Standing` are "." and "..", which
`/tmp` has from the beginning. `tree` and `installed` are histories for the
properties.

### Path

A string is the sequence of its characters, of which only separators and the
dot matter. `BaseFilename` is the leftmost match of the regular expression
`[^\\/]+$`, and `DotFrom` the backward loop that looks for the last dot, with
its two ways to end. Buffers are taken to be longer than the URL, as those of
the only caller are, so that nothing is clipped. `Component` and `IsStem` say
what is meant, without a loop.

### App

A block of memory is a number that is never handed out twice, so that a second
free is always seen. A *place* is where the program keeps a pointer: the list
of arguments, the list of the record on the stack, and for each table its
buckets and, for each key, the body, the node and the dependencies of its
entry. `owned` gives the blocks each place reaches. An action allocates some
of the blocks it asks for (`Memory(n, m, S)`: the first n of m succeed) and
frees the blocks S; freeing one that is not allocated makes `defined` FALSE.
What a caller loses, such as the copy of the data when the node cannot be
allocated, stays in `heap` without a place.

| action | code |
|---|---|
| `Parse` | `ezi_config_parse_argv()`, argument by argument |
| `InitCommands` | the table of commands |
| `Open`, `InitTable` | the two sources and the two tables, `installed` first |
| `ReadHeader`, `ReadRecord`, `ReadDependency`, `StoreRecord`, `EndRecords` | the loads, `available` first |
| `Drop` | a load that fails frees its table |
| `Export`, `Dispatch` | the five commands, whose storing nobody checks, and the lookup |
| `Echo`, `ListTable`, `Usage`, `InstallSoftware`, `Add` | the commands; an installation is `Install` |
| `Options`, `PushToken`, `InsertSoftware`, `Save` | the rest of `ezi add`, from `getopt()` on |
| `FreeConfig`, `Destroy` | `ezi_app_destroy()` |
| `Undefined` | what it does when buckets are counted that were never allocated |

`smooth` and `failures` are histories: whether every file was fine, and how
many allocations failed. `errno` is "clear", "set" by a failure that ends the
command or the run, or "stale": left by a failure that nobody looked at, which
is that of a command that could not be exported. `logged` is the errno that
`log_perror()` showed. `CharIsSigned` is a property of the machine: the result
of `getopt()` is kept in a `char`. The words behind `-n` in a command line of
`add` are names of software, and no software is called like a command, which
keeps the keys of the tables apart.

## 3. What TLC checks

| run | question | bounds |
|---|---|---|
| `list_calls` | any sequence of calls: `BoundedWalk`, `EmptinessAgrees`; safe ones: `InShape`, `NoCallIsWild`, refinement of `Deque` | 4 nodes, 2 data |
| `table_calls` | any sequence of calls: `OneEntryPerKey`, `CountsAgree`; safe ones: refinement of `Dictionary`; those of the program: `OnlySetLeaks` | 4 keys, 3 of them in one bucket, 4 values |
| `ezi_faults` | full disks, refusals, kills: `AckedIsStored`, `NoPhantom`, `NoRunRepairs` | 3 runs, 2 names |
| `ezi_shared` | two users, fair: `QuietFilesLoad`, `AddsTakeEffect`, refinement of `Catalog` | 3 runs |
| `records` | records as bytes: `FittingRecordsReturn`, `CutsInventNothing`, `ReadsAsFields` | 2 records, 1 when cut, fields of 2, 2 and 3 bytes, up to 3 dependencies |
| `install_shared` | two users: `WorkApart`, `WorksBelowTmp`, `MakesWholeTree`, `NoSecondAttempt`; URLs: `DirectoriesAreStems` | 3 runs, 5 software; all URLs of up to 5 characters |
| `app_life` | one process: `OneOwner`, `DestroyIsDefined`, `CleanEnd`, `GivesUp`, `LogsExplain`, `UsageIsAccepted` | 13 command lines, 2 software, 2 and 1 records, 1 dependency, 1 failing allocation |

Why these bounds are enough for the cases that matter. Four nodes give lists
with a first, an inner and a last node and one node to reuse after a free, and
a walk of three is where remove's "behind the match" can hit an inner and the
last node. Three keys in a bucket do the same for the hash table, and a fourth
in another bucket shows that buckets do not disturb each other. Two
dependencies are the shortest list that a load can reverse, a record without
dependencies is the one a cut of the last number cannot be told from, and two
names make a file with a record boundary to cut at. Two processes and three
runs allow two first runs to race and a third to see what they left.

In `records` every string is tried empty, shorter than its field, as long and
longer; the behaviour depends on nothing else about lengths, and the second
record shows what a first one does to its successor. `DepsWidth` is 3 there so
that a number of dependencies wraps around.

In `install_shared` two of the software have different URLs that give the same
name, one has another, one names the directory above `/tmp` and one none. Five
characters are enough for a separator with a name behind it that begins with a
dot, has two of them, or none.

In `app_life` each command occurs with a complete command line and with too
few, too many or wrong words, and `ezi add` with its options in an unusual
order, without one that is required, with one that lacks its argument and with
an unknown one. Two records make a load that stores one and fails with the
next, or stores one key twice; one dependency makes a list that is moved,
overwritten or lost. One failing allocation reaches every place where one is
made; what a second one does after it is left to the proofs, which bound
nothing.

The counters with an artificial bound are `count` of the list (`MaxCount`), the
allocated bodies (`MaxBodies`), the runs (`MaxRuns`), the records
(`MaxRecords`, `MaxCut`), the dependencies (`MaxDeps`) and the allocations that
fail (`MaxFailures`); the first two act like a failing allocation.

Fairness. Only `AddsTakeEffect` needs it: weak fairness of each process's next
step, because the operating system schedules every process it has started and
no call of `Ezi` blocks on another process. Nothing forces a user to start a
run. Deadlock is not checked where the system may stop: when the bounded runs
are used up, when the process has ended, and after undefined behaviour.

Each property has a fault variant of a modelled definition (named "Fault" in
the modules) under which TLC finds it violated.

### Where code and documentation disagree

Five runs expect a violation and show what the code does against what its
headers, tests or messages say (`findings` in `PROJECT.json`):

1. `list_remove_match`: remove takes out the item behind the match.
2. `ezi_lost_update`: of two adds, of which the second loads before the first
   saves, both are reported and the first is lost. The run starts from files
   that exist (`SpecWithFiles` of `MCEzi`), so that no run creates one.
3. `ezi_partial_load`: a load of a cut file succeeds with part of the table. The
   cut is inside the count of the header, or inside the last number of a
   record, where the read that meets the end of the file succeeds; a file that
   stops exactly behind a record fails to load.
4. `records_long`: a record with strings that fill their fields, which is what
   `strncpy` makes of long arguments, is not read back.
5. `add_options`: where `char` is unsigned the -1 with which `getopt()` ends is
   taken for an unknown option, and no `ezi add` is ever accepted, the usage
   line itself (`MCUsageLines` of `MCApp`) included. The option `-D`, which
   `getopt()` knows and the usage line leaves out, is in the lines of
   `app_life`.

The models show more that have no run of their own:

* A pop from a list of several items leaves `count` one too high
  (`src/ds_slist.c:88`), so that the pop of the last item returns NULL although
  the list is not empty, which `include/ds/slist.h:101` promises for an empty
  one only.
* A `get` of the hash table that finds nothing sets no errno, against
  `include/ds/hash_table.h:81`. `LogsExplain` therefore has to except the
  lookups of names: a name that is not found may be logged with no error, or
  with that of a command that could not be exported before ("stale").
* Two first runs that both find no data file: the one that is slower to open it
  with "w+" (`src/data_software_source.c:29`) empties it, whatever the other has
  saved and reported by then. `ReportedIsAdded` is violated in this way too when
  `ezi_lost_update` starts from `Init`. `Catalog`, and so `RefinesCatalog`,
  allows both losses: that a table is replaced by one that was loaded before it
  was saved, and that it is emptied by a run that found no file.
* A set of a new key that gets no memory for its list node loses the entry with
  its copies of key and value (`src/ds_hash_table.c:166-171`). This is the
  exception in `OnlySetLeaks`; a run in which it happens fails (`GivesUp`),
  unless it was the export of a command.
* A save to a full disk reports success, as the last flush is not checked.
* When the second data file cannot be opened the first stays open, against
  "Frees all used resources" (`include/app.h:15`). This is the exception in
  `CleanEnd`.
* When the buckets of the commands cannot be allocated `ezi_app_destroy()` walks
  as many from a null pointer. This is the exception in `DestroyIsDefined`, and
  the proof shows that it is the only one.

## 4. What is proved

Every safety invariant and every refinement that a passing run checks is also
a theorem, for every value of the constants. What TLC checks and no theorem
states is in section 5.

The proofs assume only what the `ASSUME`s of the modules name:

* list: the set of nodes is finite and does not contain NULL, NULL is no datum;
* hash table: the hash of a key is a bucket, and both are finitely many;
* `SourceFile`: names, texts and the torn string `Stump` are no numbers, `Stump`
  is no name or text, an uninitialised number has some value;
* `Ezi`: users add software that consists of names and texts; `Absent` is no
  file and no table; with `Faults` there is one process;
* `RecordBytes`: fields and `DepsWidth` are between 1 and 65536, as in the code
  (32, 64 and 96, and 2^16); strings of a command line have no zero byte and name
  fewer than 2^24 dependencies, because the model writes the three low bytes
  of the counter of the list;
* `Install`: the name `Unknown` is not a software, an archive is a sequence of
  different entries, none of which is `Junk`, and URLs are sequences;
* `App`: command lines are sequences, `-n` is followed by the name of a
  software, and no software is called like a command.

Everything else, the number of nodes, keys, software, processes, runs, records,
dependencies and failing allocations, is arbitrary. Three theorems hold under a
hypothesis on a constant that is their subject: `QuietFilesLoadAlways` and
`RunsRefineCatalog` speak of runs without faults (`~Faults`), `UsageIsFollowed`
of machines where `char` is signed; the runs `ezi_partial_load` and
`add_options` show what happens otherwise.

**`SListProofs`, any sequence of calls** (`TypeCorrect`, `WalksAreBounded`,
`EmptinessIsAgreed`). `BoundedWalk` is not inductive as it stands: a push
links behind `tail`, and nothing in it says what `tail` points to. The
invariant is the conjunction of the types, of the existence of a walk of at
most `count` nodes from head, and of the relations between `count`, `head` and
`tail`. The proof has a step for each operation. The point that carries it is
that each of the wrong branches still only shortens the walk: pop cuts it at
the node before the tail, remove takes one node out, and a push through a
wrong tail either links behind a node of the walk, so that the walk grows by
one and so does count, or behind a node outside of it.

**`SListProofs`, safe calls** (`SafeCallsKeepShape`, `SafeCallsAreDefined`,
`ListIsDeque`). `InShape` with the types is inductive: a call that is not safe
ends `orderly` for good, and a safe one keeps the shape. `NoCallIsWild` follows
from it. For the refinement of `Deque` each operation gets the walk it leaves
behind as a sequence of data, and `InShape` says that this sequence is all of
the list.

**`HashTableProofs`, any sequence of calls** (`TableTypes`, `KeysAreUnique`,
`CountIsExact`), for any hash function. `OneEntryPerKey` and `CountsAgree`
support each other and the types: a set finds the entry it has to overwrite
because keys are single, and a free leaves a natural number of bodies because
`count` is exact and no more than `bodies` (`TableInv`). The argument is in
terms of one bucket: an insertion puts a key in front that the bucket does not
have, and each of the three things a removal may do (at the head, at the tail,
behind a match) is a case of taking one entry out of a sequence (`Thinned`),
right or wrong, which cannot make two keys equal and removes one position.

**`HashTableProofs`, the program and safe calls** (`OnlyLostBodiesLeak`,
`TableIsDictionary`). `OnlySetLeaks` counts entries; what is inductive is that
`lists` is the set of the values in the table, that no two entries hold the
same value, and that `bodies` is `count + lost` (`MemoryInv`), from which, with the
exact count, the property follows. For the refinement each call is shown to
change `Dict`, the map that the buckets make, as `Dictionary` says; unique keys
are what makes it a map.

**`SourceFileProofs`** (`LoadOfWhole`, `LoadOfCut`) says what the reader
returns, for any table, any order of the buckets, and any cut. A file is laid
out as the concatenation of its records (`Layout`), and after each turn of the
loop the reader stands where a record ends. The loop is a recursive function
over the number of records; that each of its values is as claimed is shown by
taking the least number of turns for which it is not. `SequenceFacts` does the
same for the concatenation itself.

**`EziProofs`**, in three layers.

* `DataInv` (`TypeCorrect`, `NoRunInvents`): each file is a cut of what a save
  writes of some table that came from users, and so, by `LoadOfCut`, is all a
  load finds; the tables in memory come from users too; and a process that is
  past an open does not find the file absent later (`Existing`). `NoPhantom`
  alone is not inductive, since it speaks of files and not of what is in
  memory.
* `QuietInv` (`QuietFilesLoadAlways`, `RunsRefineCatalog`): without faults a
  file holds all of the table that was last saved, unless it is empty and a
  process is about to write it (`Pending`). Several processes may be; whichever
  writes first, the file is complete, and whoever empties it again is the next
  to write. The refinement of `Catalog` follows step by step: `LoadTable` takes
  the table last saved or fails, because a load of a complete file returns it
  and one of an empty file does not succeed.
* `CleanInv` (`AckedIsStoredAlways`): as long as runs follow each other, there
  is one process, what it has in memory covers what was reported, with its own
  addition once it has added it (`Progress`), and the file does when no process
  is at work on it (`Settled`).

`NothingRepairs` is of the form "once, then for ever": `Stuck` says that a file
is unreadable and that all processes are before the load that it will stop. It
holds whenever the file is unreadable and no run is under way, and every step
keeps it. `NoRunRetries` of `InstallProofs` is proved in the same way.

**`RecordBytesProofs`** (`TypeCorrect`, `RecordsThatFitReturn`,
`NothingIsInvented`), for fields of any length up to 65536, any bytes, any number
of records and dependencies, and any two byte orders. From the bottom up: a
number that fits its width comes back (`NumberReturns`, by arithmetic on two and
four bytes); a string in a field comes back if it stops within it or before
what follows (`CharsStop`); a record that fits is written as if each field stood
alone, whatever lies behind its blocks (`RecordIsCoded`, which is where `Fits`
is needed); and the reader at the beginning of such a record in the file, wherever
the file ends, returns it, or what it would have lost, or fails
(`RecordReturns`). The invariant of the specification is that the file is a
beginning of the concatenation of what was written (`Layout`), that the reader
is where a record ends as long as all before it fit (`Progress`), and that what
was read is the same as what was written or is the last record of a file that
ended in it (`Kept`). Neither property is inductive without it, for they do not
say where the reader is.

**`InstallProofs`** (`InstallsWorkApart`, `InstallsStayBelowTmp`,
`TreesAreWhole`, `InstallTypes`), in two layers. `WorkApart` becomes inductive
with `WorkersMade`: a process that has come past its mkdir works in a directory
that exists, so that the next mkdir of the same name fails; and since "." and
".." exist from the beginning, no run works there either (`IInv`). On top of
that `TreeInv` says what is in a directory at each stage of the run that works
in it: nothing before the extraction, the entries before `at` during it, all
of them when make runs, unless a warning was logged. That no one else works
there is what keeps it true while other runs go on. `NoRunRetries` needs `IInv`
only: nobody can make the directory again. `EveryDirectoryIsAStem` is about
`Path`: the backward search for the dot has one place where it stops, found
by an argument on the least counterexample, and the name in front of it is the
stem of the last component.

**`AppProofs`** (`ProcessIsSound` and, from it, `EveryBlockHasOneOwner`,
`DestroyFreesOnce`, `ProcessEndsClean`, `ProcessTypes`), in two layers as well.
`Control` says what the place a process has come to decides: which files are
open, whether the database is initialised, whether the record on the stack has a
name. `MemoryInv` says of the memory: places that differ share no block, and
what they own is allocated, and all that is allocated is owned as long as
nothing failed (`Sound`); an entry has a body if and only if it has a node, and
dependencies only then (`Paired`); which tables and lists are still, or again,
empty at each point (`Empties`); and which tables have buckets (`Bucketed`).
Each action is one of a few changes of the memory: blocks are added to a place,
those of some places are freed, a list moves into an entry. There is a lemma for
each of them, and one for each action that says which one it is. Then `OneOwner`
is a part of `Sound`; at the end `Empties` says that no place owns anything, so
that with `Sound` nothing is allocated; and `Destroy` is defined because of
`Bucketed`.

Three more theorems stand on these. `FailuresAreExplained` and `UsageIsFollowed`
need that a process that dispatches without a failed allocation has all five
commands (`Exports`), and the first also that errno is stale only after a failed
allocation (`StaleExplained`); the second follows the index of `getopt()`
through a command line and keeps that it stands on an option, and that all
options before it are in `opts` (`Carried`). `LossesAreFailures` counts: the
export loses at most one block for each command that is then missing, each later
action that loses one leads to "failed", and no load can lose one and go on
(`Costs`).

## 5. What is only model-checked, and why

* `AddsTakeEffect`: liveness under fairness is outside of what the prover does.
* `ReadsAsFields`, the action property that relates the reader of bytes to the
  reader of fields: the two sides of it are proved apart, in `RecordReturns` and
  in `SourceFileProofs`. What is missing is an invariant for `AsFile`, which
  finds the last whole field of a cut file by sums over the sizes of all fields;
  it is the first item of the plan.
* The properties of the five runs that expect a violation, which do not hold.

The recursive functions of the model (the loops of the readers, `FoldLeft` and
`FlattenSeq` of the library, the search for a dot) are proved about without an
induction theorem: that the function exists, and that its values are as
claimed, follows from the absence of a least argument for which they are not.

## 6. What is not modelled, and why

* The three hash functions: `Hash` is any function, which covers all of them.
* The texts and colours of the logger, the progress bar, what `list`, `usage`
  and `echo` print: output on which no decision of the program depends. (The
  progress bar takes the logarithm of the bytes it got, 0 at first, and converts
  the result to an integer, `src/io_http.c:137`, which is undefined.)
* `ezi_archive_list_contents()`, `ezi_software_table_load()` and `_save()`, which
  nothing calls.
* `ezi_software_encode()` and `ezi_software_decode()` and the in-memory source,
  which tests only call: they put the modelled reader and writer on top of
  `fmemopen()`, and what is particular about them is how the C library treats a
  full buffer.
* Names of archive entries that climb out of the working directory with "../":
  an entry is a member of a set. `WorkApart` and `WorksBelowTmp` are about the
  directory a run stands in, not about where the entries of an archive go.
* Null arguments: every function rejects them before it does anything.
* The terminating byte that `ezi_base_filename()` writes behind a full buffer
  (`src/util_path.c:36`): a URL has fewer bytes than the buffer of the only
  caller.
* Two users at a time together with faults (`Ezi`): a write that is cut short
  over the bytes of a longer table leaves a mixture of two tables, which the
  fields of `SourceFile` cannot express.

## 7. Plan

Done: all the parts of the program that keep state are modelled, and all
invariants and refinements that TLC checks are proved.

Next:

1. `ReadsAsFields` as a theorem: where the fields of a cut file end, as a lemma
   on the sums of their sizes, and then the cases of `RecordReturns` one by one;
2. that an entry of `HashTable`, taken out of a bucket by `Take`, is what
   `SList` does to a list in `Remove`, as a theorem that joins the two modules.
