------------------------------ MODULE Install ------------------------------
(***************************************************************************)
(* `ezi install' (src/install_software_command.c): look a software up,     *)
(* make a directory under /tmp named after its URL, download the archive   *)
(* into it (src/io_http.c), extract it (src/io_archive.c) and run make.    *)
(* Several users may install at once; nothing but the directories is       *)
(* shared, and no run ever removes one.                                    *)
(*                                                                         *)
(* The network, libarchive, make and the calls of the operating system are *)
(* external: each may fail whenever it is called.  The codes of libarchive *)
(* are "ok", "warn" (ARCHIVE_WARN and ARCHIVE_RETRY, which the code treats *)
(* alike) and "failed" (ARCHIVE_FAILED and ARCHIVE_FATAL).                 *)
(***************************************************************************)
EXTENDS Naturals, Sequences, SequencesExt, Path

CONSTANTS
    Proc,       \* the processes that run the command
    Software,   \* the software in the table of available software
    Unknown,    \* a name that is not in the table
    Url,        \* the URL of each software
    Names,      \* some more URLs
    Archive,    \* the entries of the archive at the URL of each software
    Folders,    \* the entries without data
    Junk,       \* what a downloaded file contains that is no archive
    MaxRuns     \* bound on the number of runs

ASSUME SoftwareAssumption ==
    /\ Unknown \notin Software
    /\ \A s \in Software :
          /\ Archive[s] \in Seq(Range(Archive[s])) /\ IsInjective(Archive[s])
          /\ Junk \notin Range(Archive[s])
ASSUME NamesAssumption == \A url \in Names : url \in Seq(Range(url))
ASSUME RunsAssumption == MaxRuns \in Nat

(* The directory of a software, and all of them.  Those that /tmp has from *)
(* the beginning are never made.                                           *)
DirOf     == [s \in Software |-> BaseFilenameNoExt(Url[s])]
Directory == {DirOf[s] : s \in Software}
Standing  == {<<".">>, <<".", ".">>}

VARIABLES
    pc,         \* the next call of each process
    sw,         \* the software it was asked for
    at,         \* the entry its extraction has come to
    warned,     \* whether its extraction logged a warning
    dirs,       \* the directories that exist
    file,       \* the downloaded file in each directory
    tree,       \* the entries extracted into each directory without a warning
    installed,  \* history: the directories where `make install' succeeded
    runs        \* the number of runs that were started

vars == <<pc, sw, at, warned, dirs, file, tree, installed, runs>>

Codes == {"ok", "warn", "failed"}

Init ==
    /\ pc = [p \in Proc |-> "idle"]
    /\ sw = [p \in Proc |-> Unknown]
    /\ at = [p \in Proc |-> 1]
    /\ warned = [p \in Proc |-> FALSE]
    /\ dirs = Standing
    /\ file = [d \in Directory |-> << >>]
    /\ tree = [d \in Directory |-> {}]
    /\ installed = {}
    /\ runs = 0

Goto(p, step) == pc' = [pc EXCEPT ![p] = step]

(* The command returns, with or without going back to the directory it     *)
(* came from, and the program ends.                                        *)
Return(p) ==
    /\ Goto(p, "idle")
    /\ sw' = [sw EXCEPT ![p] = Unknown]
    /\ at' = [at EXCEPT ![p] = 1]
    /\ warned' = [warned EXCEPT ![p] = FALSE]

Keep(p) == UNCHANGED <<sw, at, warned>>

-----------------------------------------------------------------------------
(* Fault: the command goes on with a name it did not find.                 *)
LookUpAnyway(p) ==
    /\ pc[p] = "idle" /\ runs < MaxRuns
    /\ runs' = runs + 1
    /\ \E s \in Software \cup {Unknown} : sw' = [sw EXCEPT ![p] = s]
    /\ Goto(p, "mkdir")
    /\ UNCHANGED <<at, warned, dirs, file, tree, installed>>

(* One argument, looked up in the table; then chdir("/tmp/").              *)
LookUp(p) ==
    /\ pc[p] = "idle" /\ runs < MaxRuns
    /\ runs' = runs + 1
    /\ \E s \in Software \cup {Unknown} :
          \/ s # Unknown /\ Goto(p, "mkdir") /\ sw' = [sw EXCEPT ![p] = s]
          \/ UNCHANGED <<pc, sw>>
    /\ UNCHANGED <<at, warned, dirs, file, tree, installed>>

(* Fault: a directory that is there is used again.                         *)
MakeDirectoryAnyway(p) ==
    /\ pc[p] = "mkdir"
    /\ dirs' = dirs \cup {DirOf[sw[p]]}
    /\ Goto(p, "download")
    /\ Keep(p)
    /\ UNCHANGED <<file, tree, installed, runs>>

(* ezi_base_filename_no_ext(), mkdir() and chdir(), in one condition.      *)
MakeDirectory(p) ==
    LET d == DirOf[sw[p]]
    IN  /\ pc[p] = "mkdir"
        /\ \/ /\ d # NoName /\ d \notin dirs
              /\ dirs' = dirs \cup {d}
              /\ \/ Goto(p, "download") /\ Keep(p)
                 \/ Return(p)
           \/ Return(p) /\ UNCHANGED dirs
        /\ UNCHANGED <<file, tree, installed, runs>>

(* ezi_http_download() into the directory.  What the server sends as an    *)
(* error is a download too (CURLOPT_FAILONERROR is not set), and so is one *)
(* whose end fclose() cannot write.                                        *)
Download(p) ==
    LET d == DirOf[sw[p]]
    IN  /\ pc[p] = "download"
        /\ \E f \in Prefixes(Archive[sw[p]]) \cup {<<Junk>>} :
              file' = [file EXCEPT ![d] = f]
        /\ \/ Goto(p, "open") /\ Keep(p)
           \/ Return(p)
        /\ UNCHANGED <<dirs, tree, installed, runs>>

-----------------------------------------------------------------------------
(* ezi_archive_extract(): open_read_archive(), open_write_disk_archive().  *)
OpenArchive(p) ==
    /\ pc[p] = "open"
    /\ \/ file[DirOf[sw[p]]] # <<Junk>> /\ Goto(p, "extract") /\ Keep(p)
       \/ Return(p)
    /\ UNCHANGED <<dirs, file, tree, installed, runs>>

(* archive_read_next_header() reports the end of the archive, or that it   *)
(* ends too early.                                                         *)
EndOfArchive(p) ==
    /\ pc[p] = "extract" /\ at[p] = Len(file[DirOf[sw[p]]]) + 1
    /\ \/ Goto(p, "make") /\ Keep(p)
       \/ Return(p)
    /\ UNCHANGED <<dirs, file, tree, installed, runs>>

(* Fault: the entries that were not written are not warned about.          *)
ExtractQuietly(p) ==
    LET d == DirOf[sw[p]]
        e == file[d][at[p]]
    IN  /\ pc[p] = "extract" /\ at[p] <= Len(file[d])
        /\ \E head \in Codes :
              tree' = IF head = "ok" THEN [tree EXCEPT ![d] = @ \cup {e}] ELSE tree
        /\ at' = [at EXCEPT ![p] = @ + 1]
        /\ UNCHANGED <<pc, sw, warned, dirs, file, installed, runs>>

(* One turn of the loop of ezi_archive_extract(), with copy_entry_data():  *)
(* the header of an entry is read, written to disk, its data copied, the   *)
(* entry finished.  A header that cannot be written is only warned about,  *)
(* and its data skipped; other failures end the extraction.                *)
Extract(p) ==
    LET d == DirOf[sw[p]]
        e == file[d][at[p]]
    IN  /\ pc[p] = "extract" /\ at[p] <= Len(file[d])
        /\ \E read, head, copy, finish \in Codes :
              LET copied == head = "ok" /\ e \notin Folders
                  used   == {read, finish} \cup (IF copied THEN {copy} ELSE {})
                  whole  == used \cup {head} = {"ok"}
              IN  /\ tree' = IF whole THEN [tree EXCEPT ![d] = @ \cup {e}] ELSE tree
                  /\ IF "failed" \in used
                     THEN Return(p)
                     ELSE /\ warned' = [warned EXCEPT ![p] = @ \/ ~whole]
                          /\ at' = [at EXCEPT ![p] = @ + 1]
                          /\ UNCHANGED <<pc, sw>>
        /\ UNCHANGED <<dirs, file, installed, runs>>

-----------------------------------------------------------------------------
(* system("make") || system("make install").                               *)
Make(p) ==
    /\ pc[p] = "make"
    /\ \/ Goto(p, "install") /\ Keep(p)
       \/ Return(p)
    /\ UNCHANGED <<dirs, file, tree, installed, runs>>

MakeInstall(p) ==
    /\ pc[p] = "install"
    /\ installed' \in {installed, installed \cup {DirOf[sw[p]]}}
    /\ Return(p)
    /\ UNCHANGED <<dirs, file, tree, runs>>

Step(p) ==
    \/ MakeDirectory(p) \/ Download(p) \/ OpenArchive(p)
    \/ Extract(p) \/ EndOfArchive(p) \/ Make(p) \/ MakeInstall(p)

Next == \E p \in Proc : LookUp(p) \/ Step(p)

Spec == Init /\ [][Next]_vars

-----------------------------------------------------------------------------
(* Types of the control state and of the directories.                      *)
TypeOK ==
    /\ pc \in [Proc -> {"idle", "mkdir", "download", "open", "extract",
                        "make", "install"}]
    /\ sw \in [Proc -> Software \cup {Unknown}]
    /\ \A p \in Proc : pc[p] # "idle" => sw[p] # Unknown
    /\ \A p \in Proc : pc[p] = "extract" => at[p] <= Len(file[DirOf[sw[p]]]) + 1
    /\ warned \in [Proc -> BOOLEAN]
    /\ dirs \subseteq Directory \cup Standing
    /\ installed \subseteq Directory \cap dirs
    /\ runs \in 0..MaxRuns

(* The process works in directory d.                                       *)
WorksIn(p, d) == pc[p] \notin {"idle", "mkdir"} /\ DirOf[sw[p]] = d

(* mkdir() keeps runs apart: no two ever download to, extract into or run  *)
(* make in the same directory, the same software or another one whose URL  *)
(* gives the same name included.  (This is about the working directory:    *)
(* entries of an archive whose names climb out of it are not modelled.)    *)
WorkApart ==
    \A p, q \in Proc, d \in Directory :
        WorksIn(p, d) /\ WorksIn(q, d) => p = q

(* Whatever its URL, a software is never downloaded, extracted and made in *)
(* /tmp itself, in the directory above it, or in none of its own: this too *)
(* is about the directory the run stands in, not about names of entries.   *)
WorksBelowTmp ==
    \A p \in Proc, d \in Standing \cup {NoName} : ~WorksIn(p, d)

(* The directory is named after the last component of the URL, without its *)
(* extension, for any URL (it is enough to look once).                     *)
DirectoriesAreStems ==
    runs = 0 => \A url \in Names : IsStem(BaseFilenameNoExt(url), Component(url))

(* make runs only where every entry of the downloaded archive was          *)
(* extracted whole, or after the extraction logged a warning.              *)
MakesWholeTree ==
    \A p \in Proc :
        pc[p] \in {"make", "install"} =>
            \/ warned[p]
            \/ /\ file[DirOf[sw[p]]] # <<Junk>>
               /\ tree[DirOf[sw[p]]] = ToSet(file[DirOf[sw[p]]])

(* The directory a run leaves behind stops every later one: what was not   *)
(* installed when the run ended is never installed, however often the      *)
(* command is repeated.                                                    *)
Abandoned(d) ==
    d \in dirs \ installed /\ \A p \in Proc : ~WorksIn(p, d)
NoSecondAttempt ==
    \A d \in Directory : [](Abandoned(d) => [](d \notin installed))
=============================================================================
