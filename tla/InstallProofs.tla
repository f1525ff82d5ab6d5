--------------------------- MODULE InstallProofs ---------------------------
(***************************************************************************)
(* Proofs that concurrent runs of `ezi install' work in directories of     *)
(* their own, below /tmp, and that make runs on whole trees, for any       *)
(* number of runs, software, URLs and archives.                            *)
(***************************************************************************)
EXTENDS Install, SequenceFacts

Steps == {"idle", "mkdir", "download", "open", "extract", "make", "install"}

(* WorkApart alone is not inductive: that mkdir() succeeds says only that  *)
(* the directory did not exist, which keeps runs apart because a directory *)
(* someone works in does exist.                                            *)
WorkersMade == \A p \in Proc, d \in Directory : WorksIn(p, d) => d \in dirs

(* The names that could be the directory of a software or, as far as the   *)
(* code knows, of all of /tmp.                                             *)
Known == Directory \cup Standing \cup {NoName}

(* What the table of software gives to a process that is not idle.         *)
Busy == \A p \in Proc : pc[p] # "idle" => sw[p] \in Software

IInv ==
    /\ pc \in [Proc -> Steps]
    /\ sw \in [Proc -> Software \cup {Unknown}]
    /\ Busy
    /\ Standing \subseteq dirs
    /\ WorkersMade
    /\ WorkApart
    /\ WorksBelowTmp

(* A step that makes no process work where it did not, and removes no      *)
(* directory, keeps the invariant.                                         *)
LEMMA NoNewWorker ==
    ASSUME IInv,
           pc' \in [Proc -> Steps],
           sw' \in [Proc -> Software \cup {Unknown}],
           Busy',
           dirs \subseteq dirs',
           \A q \in Proc, d \in Known : WorksIn(q, d)' => WorksIn(q, d)
    PROVE  IInv'
  BY DEF IInv, WorkersMade, WorkApart, WorksBelowTmp, Known

(* When the command returns, the process works nowhere.                    *)
LEMMA ReturnStep ==
    ASSUME IInv, NEW p \in Proc, Return(p), dirs \subseteq dirs'
    PROVE  IInv'
<1>1. pc' \in [Proc -> Steps] /\ sw' \in [Proc -> Software \cup {Unknown}] /\ Busy'
  BY DEF IInv, Busy, Return, Goto, Steps
<1>2. \A q \in Proc, d \in Known : WorksIn(q, d)' => WorksIn(q, d)
  BY DEF IInv, Return, Goto, WorksIn
<1> QED
  BY <1>1, <1>2, NoNewWorker

(* A process that works goes on in the directory it is in.                 *)
LEMMA GoOnStep ==
    ASSUME IInv, NEW p \in Proc, pc[p] \notin {"idle", "mkdir"},
           NEW s \in Steps, pc' = [pc EXCEPT ![p] = s], UNCHANGED <<sw, dirs>>
    PROVE  IInv'
<1>1. pc' \in [Proc -> Steps] /\ Busy'
  BY DEF IInv, Busy
<1>2. \A q \in Proc, d \in Known : WorksIn(q, d)' => WorksIn(q, d)
  BY DEF IInv, WorksIn
<1> QED
  BY <1>1, <1>2, NoNewWorker DEF IInv

(* The steps of a process that works.                                      *)
LEMMA WorkStep ==
    ASSUME IInv, NEW p \in Proc,
           Download(p) \/ OpenArchive(p) \/ Extract(p) \/ EndOfArchive(p)
             \/ Make(p) \/ MakeInstall(p)
    PROVE  IInv'
<1>1. UNCHANGED dirs
  BY DEF Download, OpenArchive, Extract, EndOfArchive, Make, MakeInstall
<1>2. pc[p] \notin {"idle", "mkdir"}
  BY DEF Download, OpenArchive, Extract, EndOfArchive, Make, MakeInstall
<1>3. \/ Return(p)
      \/ (\E s \in Steps : Goto(p, s)) /\ UNCHANGED sw
      \/ UNCHANGED <<pc, sw>>
  BY Zenon DEF Download, OpenArchive, Extract, EndOfArchive, Make, MakeInstall,
               Keep, Steps
<1>4. CASE Return(p)
  BY <1>1, <1>4, ReturnStep
<1>5. ASSUME NEW s \in Steps, Goto(p, s), UNCHANGED sw
      PROVE  IInv'
  BY <1>1, <1>2, <1>5, GoOnStep DEF Goto
<1>6. CASE UNCHANGED <<pc, sw>>
  BY <1>1, <1>6 DEF IInv, Busy, WorkersMade, WorkApart, WorksBelowTmp, WorksIn
<1> QED
  BY <1>3, <1>4, <1>5, <1>6

(* A process that makes its directory finds nobody in it.                  *)
LEMMA MakeDirectoryStep ==
    ASSUME IInv, NEW p \in Proc, MakeDirectory(p)
    PROVE  IInv'
<1> DEFINE here == DirOf[sw[p]]
<1>1. CASE Return(p)
  <2>1. dirs \subseteq dirs'
    BY DEF MakeDirectory
  <2> QED
    BY <1>1, <2>1, ReturnStep
<1>2. CASE here # NoName /\ here \notin dirs /\ dirs' = dirs \cup {here}
           /\ Goto(p, "download") /\ Keep(p)
  <2>1. pc' \in [Proc -> Steps] /\ UNCHANGED sw /\ Busy'
    <3>1. pc[p] = "mkdir"
      BY DEF MakeDirectory
    <3> QED
      BY <1>2, <3>1 DEF IInv, Busy, Goto, Keep, Steps
  <2>2. \A q \in Proc, d \in Known :
           WorksIn(q, d)' <=> WorksIn(q, d) \/ (q = p /\ d = here)
    <3>1. pc[p] = "mkdir"
      BY DEF MakeDirectory
    <3> QED
      BY <1>2, <2>1, <3>1 DEF IInv, Goto, WorksIn
  <2>3. \A q \in Proc : here \in Directory => ~WorksIn(q, here)
    BY <1>2 DEF IInv, WorkersMade
  <2>4. WorkersMade'
    BY <1>2, <2>2 DEF IInv, WorkersMade, Known
  <2>5. WorkApart'
    BY <2>2, <2>3 DEF IInv, WorkApart, Known
  <2>6. WorksBelowTmp'
    BY <1>2, <2>2 DEF IInv, WorksBelowTmp, Known
  <2> QED
    BY <1>2, <2>1, <2>4, <2>5, <2>6 DEF IInv
<1> QED
  BY <1>1, <1>2 DEF MakeDirectory

(* A run that has only looked its software up works nowhere yet.           *)
LEMMA LookUpStep ==
    ASSUME IInv, NEW p \in Proc, LookUp(p)
    PROVE  IInv'
<1>1. PICK s \in Software \cup {Unknown} :
        \/ s # Unknown /\ Goto(p, "mkdir") /\ sw' = [sw EXCEPT ![p] = s]
        \/ UNCHANGED <<pc, sw>>
  BY DEF LookUp
<1>2. pc[p] = "idle" /\ UNCHANGED dirs
  BY DEF LookUp
<1>3. pc' \in [Proc -> Steps] /\ sw' \in [Proc -> Software \cup {Unknown}] /\ Busy'
  BY <1>1 DEF IInv, Busy, Goto, Steps
<1>4. \A q \in Proc, d \in Known : WorksIn(q, d)' => WorksIn(q, d)
  BY <1>1, <1>2 DEF IInv, Goto, WorksIn
<1> QED
  BY <1>2, <1>3, <1>4, NoNewWorker

(* The invariant holds of every run.                                       *)
LEMMA Installs == Spec => []IInv
<1>1. Init => IInv
  BY DEF Init, IInv, Busy, WorkersMade, WorkApart, WorksBelowTmp, WorksIn, Steps
<1>2. IInv /\ [Next]_vars => IInv'
  <2> SUFFICES ASSUME IInv, [Next]_vars
               PROVE  IInv'
    OBVIOUS
  <2>1. ASSUME NEW p \in Proc, LookUp(p) PROVE IInv'
    BY <2>1, LookUpStep
  <2>2. ASSUME NEW p \in Proc, MakeDirectory(p) PROVE IInv'
    BY <2>2, MakeDirectoryStep
  <2>3. ASSUME NEW p \in Proc,
               Download(p) \/ OpenArchive(p) \/ Extract(p) \/ EndOfArchive(p)
                 \/ Make(p) \/ MakeInstall(p)
        PROVE  IInv'
    BY <2>3, WorkStep
  <2>4. CASE UNCHANGED vars
    BY <2>4 DEF vars, IInv, Busy, WorkersMade, WorkApart, WorksBelowTmp, WorksIn
  <2> QED
    BY <2>1, <2>2, <2>3, <2>4 DEF Next, Step
<1> QED
  BY <1>1, <1>2, PTL DEF Spec

(* However many runs install at the same time, no two ever work in the     *)
(* same directory: mkdir() is a lock that is never released.               *)
THEOREM InstallsWorkApart == Spec => []WorkApart
<1>1. IInv => WorkApart
  BY DEF IInv
<1> QED
  BY <1>1, Installs, PTL

(* Whatever the URLs are, none makes a run work in /tmp itself, above it   *)
(* or nowhere.                                                             *)
THEOREM InstallsStayBelowTmp == Spec => []WorksBelowTmp
<1>1. IInv => WorksBelowTmp
  BY DEF IInv
<1> QED
  BY <1>1, Installs, PTL

-----------------------------------------------------------------------------
(* What is in the directories.  That no one else works in the directory of *)
(* a process is what keeps the file and the tree of its extraction.        *)
Data == (UNION {Range(Archive[s]) : s \in Software}) \cup {Junk}

Firsts(f, n) == {f[i] : i \in 1..n}

Types ==
    /\ at \in [Proc -> Nat \ {0}] /\ warned \in [Proc -> BOOLEAN]
    /\ file \in [Directory -> Seq(Data)] /\ tree \in [Directory -> SUBSET Data]
    /\ dirs \subseteq Directory \cup Standing
    /\ installed \subseteq Directory \cap dirs
    /\ runs \in 0..MaxRuns

(* How far a process has come with the tree in directory d.                *)
Stage(p, d) ==
    /\ pc[p] \in {"idle", "mkdir", "download", "open"} => at[p] = 1
    /\ pc[p] \in {"download", "open"} => tree[d] = {}
    /\ pc[p] = "extract" =>
          /\ file[d] # <<Junk>> /\ at[p] <= Len(file[d]) + 1
          /\ warned[p] \/ tree[d] = Firsts(file[d], at[p] - 1)
    /\ pc[p] \in {"make", "install"} =>
          \/ warned[p]
          \/ file[d] # <<Junk>> /\ tree[d] = ToSet(file[d])

Stages == \A p \in Proc : Stage(p, DirOf[sw[p]])

(* A directory that does not exist is empty.                               *)
Fresh == \A d \in Directory \ dirs : tree[d] = {}

TreeInv == Types /\ Stages /\ Fresh

(* A step of p leaves the variables of the other processes alone.          *)
Others(p) ==
    \A q \in Proc \ {p} :
        pc'[q] = pc[q] /\ sw'[q] = sw[q] /\ at'[q] = at[q] /\ warned'[q] = warned[q]

(* A step of p in its own directory disturbs no other process.             *)
LEMMA OthersStay ==
    ASSUME IInv, TreeInv, NEW p \in Proc, Others(p),
           \A d \in Directory : WorksIn(p, d) \/ (file'[d] = file[d] /\ tree'[d] = tree[d])
    PROVE  \A q \in Proc \ {p} : Stage(q, DirOf[sw[q]])'
<1> SUFFICES ASSUME NEW q \in Proc \ {p}
             PROVE  Stage(q, DirOf[sw[q]])'
  OBVIOUS
<1> DEFINE d == DirOf[sw[q]]
<1>1. pc'[q] = pc[q] /\ d' = d /\ at'[q] = at[q] /\ warned'[q] = warned[q]
  BY DEF Others
<1>2. Stage(q, d)
  BY DEF TreeInv, Stages
<1>3. CASE pc[q] \in {"idle", "mkdir"}
  BY <1>1, <1>2, <1>3 DEF Stage
<1>4. CASE pc[q] \notin {"idle", "mkdir"}
  <2>1. d \in Directory /\ WorksIn(q, d)
    BY <1>4 DEF IInv, Busy, Directory, WorksIn
  <2>2. ~WorksIn(p, d)
    BY <2>1 DEF IInv, WorkApart
  <2>3. file'[d] = file[d] /\ tree'[d] = tree[d]
    BY <2>1, <2>2
  <2> QED
    BY <1>1, <1>2, <2>3 DEF Stage
<1> QED
  BY <1>3, <1>4

(* When the command returns, its process has no stage to be at.            *)
LEMMA ReturnKeepsTrees ==
    ASSUME IInv, TreeInv, NEW p \in Proc, Return(p), Types', Fresh',
           \A d \in Directory : WorksIn(p, d) \/ (file'[d] = file[d] /\ tree'[d] = tree[d])
    PROVE  TreeInv'
<1>1. Others(p)
  BY DEF Return, Goto, Others, IInv, TreeInv, Types
<1>2. \A q \in Proc \ {p} : Stage(q, DirOf[sw[q]])'
  BY <1>1, OthersStay
<1>3. Stage(p, DirOf[sw[p]])'
  BY DEF Return, Goto, Stage, IInv, TreeInv, Types
<1> QED
  BY <1>2, <1>3 DEF TreeInv, Stages

(* Types and Fresh of the steps that change no directory's contents.       *)
LEMMA TypesStay ==
    ASSUME TreeInv, UNCHANGED <<file, tree, runs>>,
           dirs \subseteq dirs', dirs' \subseteq Directory \cup Standing,
           at' \in [Proc -> Nat \ {0}], warned' \in [Proc -> BOOLEAN],
           installed' \subseteq Directory \cap dirs'
    PROVE  Types' /\ Fresh'
  BY DEF TreeInv, Types, Fresh

(* A process that returns forgets its place in the archive.                *)
LEMMA ReturnTypes ==
    ASSUME TreeInv, NEW p \in Proc, Return(p)
    PROVE  at' \in [Proc -> Nat \ {0}] /\ warned' \in [Proc -> BOOLEAN]
  BY DEF TreeInv, Types, Return

(* The directory of a software is one.                                     *)
LEMMA DirOfType == \A s \in Software : DirOf[s] \in Directory
  BY DEF DirOf, Directory

(* The steps that go on without touching a file or a tree.                 *)
LEMMA GoOnKeepsTrees ==
    ASSUME IInv, TreeInv, NEW p \in Proc, NEW s \in Steps, Goto(p, s),
           UNCHANGED <<at, warned, file, tree, installed, runs>>,
           Others(p), dirs \subseteq dirs', dirs' \subseteq Directory \cup Standing,
           Stage(p, DirOf[sw[p]])'
    PROVE  TreeInv'
<1>1. Types' /\ Fresh'
  BY TypesStay DEF TreeInv, Types
<1>2. \A q \in Proc \ {p} : Stage(q, DirOf[sw[q]])'
  BY OthersStay
<1> QED
  BY <1>1, <1>2 DEF TreeInv, Stages

(* Each action keeps what the invariant says of the trees.                 *)
LEMMA LookUpTrees ==
    ASSUME IInv, TreeInv, NEW p \in Proc, LookUp(p)
    PROVE  TreeInv'
<1>1. PICK s \in Software \cup {Unknown} :
        \/ s # Unknown /\ Goto(p, "mkdir") /\ sw' = [sw EXCEPT ![p] = s]
        \/ UNCHANGED <<pc, sw>>
  BY DEF LookUp
<1>2. pc[p] = "idle" /\ UNCHANGED <<at, warned, dirs, file, tree, installed>>
  BY DEF LookUp
<1>3. runs' \in 0..MaxRuns
  BY RunsAssumption DEF LookUp, TreeInv, Types
<1>4. Types' /\ Fresh'
  BY <1>2, <1>3 DEF TreeInv, Types, Fresh
<1>5. Others(p)
  BY <1>1, <1>2 DEF Others, Goto, IInv
<1>6. \A q \in Proc \ {p} : Stage(q, DirOf[sw[q]])'
  BY <1>2, <1>5, OthersStay
<1>7. pc'[p] \in {"idle", "mkdir"} /\ at'[p] = 1
  <2>1. at[p] = 1
    BY <1>2 DEF TreeInv, Stages, Stage
  <2> QED
    BY <1>1, <1>2, <2>1 DEF Goto, IInv
<1>8. Stage(p, DirOf[sw[p]])'
  BY <1>7 DEF Stage
<1> QED
  BY <1>4, <1>6, <1>8 DEF TreeInv, Stages

LEMMA MakeDirectoryTrees ==
    ASSUME IInv, TreeInv, NEW p \in Proc, MakeDirectory(p)
    PROVE  TreeInv'
<1> DEFINE here == DirOf[sw[p]]
<1>1. pc[p] = "mkdir" /\ here \in Directory
  BY DirOfType DEF MakeDirectory, IInv, Busy
<1>2. /\ UNCHANGED <<file, tree, installed, runs>>
      /\ dirs \subseteq dirs' /\ dirs' \subseteq Directory \cup Standing
  BY <1>1 DEF MakeDirectory, TreeInv, Types
<1>3. installed' \subseteq Directory \cap dirs'
  BY <1>2 DEF TreeInv, Types
<1>4. CASE Return(p)
  <2>1. Types' /\ Fresh'
    BY <1>2, <1>3, <1>4, ReturnTypes, TypesStay
  <2> QED
    BY <1>2, <1>4, <2>1, ReturnKeepsTrees
<1>5. CASE here \notin dirs /\ Goto(p, "download") /\ Keep(p)
  <2>1. at[p] = 1 /\ tree[here] = {}
    BY <1>1, <1>5 DEF TreeInv, Stages, Stage, Fresh
  <2>2. pc'[p] = "download" /\ UNCHANGED <<sw, at, warned>>
    BY <1>5 DEF Goto, Keep, IInv
  <2>3. Stage(p, here)'
    BY <1>2, <2>1, <2>2 DEF Stage
  <2>4. Others(p)
    BY <1>5 DEF Goto, Keep, Others, IInv
  <2> QED
    BY <1>2, <1>5, <2>2, <2>3, <2>4, GoOnKeepsTrees DEF Steps
<1> QED
  BY <1>4, <1>5 DEF MakeDirectory

(* What a download leaves is a file of entries.                            *)
LEMMA Downloads ==
    ASSUME NEW s \in Software, NEW f \in Prefixes(Archive[s]) \cup {<<Junk>>}
    PROVE  f \in Seq(Data)
<1>1. CASE f = <<Junk>>
  <2>1. Junk \in Data
    BY DEF Data
  <2>2. <<Junk>> \in Seq(Data)
    BY <2>1
  <2> QED
    BY <1>1, <2>2
<1>2. CASE f \in Prefixes(Archive[s])
  <2>1. PICK n \in 0..Len(Archive[s]) : f = SubSeq(Archive[s], 1, n)
    BY <1>2 DEF Prefixes
  <2>2. Range(Archive[s]) \subseteq Data
    BY DEF Data
  <2>3. Archive[s] \in Seq(Data)
    BY <2>2, SoftwareAssumption, SeqMonotonic
  <2>4. \A i \in 1..n : Archive[s][i] \in Data
    BY <2>3, ElementOfSeq
  <2>5. 1 \in Int /\ n \in Int
    BY <2>1, <2>3
  <2>6. SubSeq(Archive[s], 1, n) \in Seq(Data)
    BY <2>4, <2>5, SubSeqProperties
  <2> QED
    BY <2>1, <2>6
<1> QED
  BY <1>1, <1>2

LEMMA DownloadTrees ==
    ASSUME IInv, TreeInv, NEW p \in Proc, Download(p)
    PROVE  TreeInv'
<1> DEFINE here == DirOf[sw[p]]
<1>1. pc[p] = "download" /\ sw[p] \in Software /\ here \in Directory
  BY DirOfType DEF Download, IInv, Busy
<1>2. PICK f \in Prefixes(Archive[sw[p]]) \cup {<<Junk>>} :
         file' = [file EXCEPT ![here] = f]
  BY DEF Download
<1>3. f \in Seq(Data)
  BY <1>1, Downloads
<1>4. /\ file' \in [Directory -> Seq(Data)]
      /\ \A d \in Directory : d # here => file'[d] = file[d]
  BY <1>1, <1>2, <1>3 DEF TreeInv, Types
<1>5. UNCHANGED <<dirs, tree, installed, runs>>
  BY DEF Download
<1>6. \A d \in Directory : WorksIn(p, d) \/ (file'[d] = file[d] /\ tree'[d] = tree[d])
  BY <1>1, <1>4, <1>5 DEF WorksIn
<1>7. CASE Return(p)
  <2>1. Types' /\ Fresh'
    BY <1>4, <1>5, <1>7, ReturnTypes DEF TreeInv, Types, Fresh
  <2> QED
    BY <1>6, <1>7, <2>1, ReturnKeepsTrees
<1>8. CASE Goto(p, "open") /\ Keep(p)
  <2>1. pc'[p] = "open" /\ UNCHANGED <<sw, at, warned>>
    BY <1>8 DEF Goto, Keep, IInv
  <2>2. Types' /\ Fresh'
    BY <1>4, <1>5, <2>1 DEF TreeInv, Types, Fresh
  <2>3. at[p] = 1 /\ tree[here] = {}
    BY <1>1 DEF TreeInv, Stages, Stage
  <2>4. Stage(p, here)'
    BY <1>5, <2>1, <2>3 DEF Stage
  <2>5. Others(p)
    BY <1>8 DEF Goto, Keep, Others, IInv
  <2>6. \A q \in Proc \ {p} : Stage(q, DirOf[sw[q]])'
    BY <1>6, <2>5, OthersStay
  <2> QED
    BY <2>2, <2>4, <2>6 DEF TreeInv, Stages
<1> QED
  BY <1>7, <1>8 DEF Download

LEMMA OpenTrees ==
    ASSUME IInv, TreeInv, NEW p \in Proc, OpenArchive(p)
    PROVE  TreeInv'
<1> DEFINE here == DirOf[sw[p]]
<1>1. pc[p] = "open" /\ here \in Directory
  BY DirOfType DEF OpenArchive, IInv, Busy
<1>2. UNCHANGED <<dirs, file, tree, installed, runs>>
  BY DEF OpenArchive
<1>3. CASE Return(p)
  <2>1. Types' /\ Fresh'
    BY <1>2, <1>3, ReturnTypes DEF TreeInv, Types, Fresh
  <2> QED
    BY <1>2, <1>3, <2>1, ReturnKeepsTrees
<1>4. CASE file[here] # <<Junk>> /\ Goto(p, "extract") /\ Keep(p)
  <2>1. pc'[p] = "extract" /\ UNCHANGED <<sw, at, warned>>
    BY <1>4 DEF Goto, Keep, IInv
  <2>2. at[p] = 1 /\ tree[here] = {} /\ Len(file[here]) \in Nat
    BY <1>1, LenProperties DEF TreeInv, Stages, Stage, Types
  <2>3. Firsts(file[here], at[p] - 1) = {}
    BY <2>2 DEF Firsts
  <2>4. Stage(p, here)'
    BY <1>2, <1>4, <2>1, <2>2, <2>3 DEF Stage, Firsts
  <2>5. Others(p)
    BY <1>4 DEF Goto, Keep, Others, IInv
  <2>6. dirs' \subseteq Directory \cup Standing
    BY <1>2 DEF TreeInv, Types
  <2> QED
    BY <1>2, <1>4, <2>1, <2>4, <2>5, <2>6, GoOnKeepsTrees DEF Steps
<1> QED
  BY <1>3, <1>4 DEF OpenArchive

LEMMA EndOfArchiveTrees ==
    ASSUME IInv, TreeInv, NEW p \in Proc, EndOfArchive(p)
    PROVE  TreeInv'
<1> DEFINE here == DirOf[sw[p]]
<1>1. pc[p] = "extract" /\ here \in Directory /\ at[p] = Len(file[here]) + 1
  BY DirOfType DEF EndOfArchive, IInv, Busy
<1>2. UNCHANGED <<dirs, file, tree, installed, runs>>
  BY DEF EndOfArchive
<1>3. CASE Return(p)
  <2>1. Types' /\ Fresh'
    BY <1>2, <1>3, ReturnTypes DEF TreeInv, Types, Fresh
  <2> QED
    BY <1>2, <1>3, <2>1, ReturnKeepsTrees
<1>4. CASE Goto(p, "make") /\ Keep(p)
  <2>1. pc'[p] = "make" /\ UNCHANGED <<sw, at, warned>>
    BY <1>4 DEF Goto, Keep, IInv
  <2>2. /\ file[here] # <<Junk>>
        /\ warned[p] \/ tree[here] = Firsts(file[here], at[p] - 1)
    BY <1>1 DEF TreeInv, Stages, Stage
  <2>3. Firsts(file[here], at[p] - 1) = ToSet(file[here])
    <3>1. Len(file[here]) \in Nat /\ DOMAIN file[here] = 1..Len(file[here])
      BY <1>1, LenProperties DEF TreeInv, Types
    <3> QED
      BY <1>1, <3>1 DEF Firsts, ToSet
  <2>4. Stage(p, here)'
    BY <1>2, <2>1, <2>2, <2>3 DEF Stage
  <2>5. Others(p)
    BY <1>4 DEF Goto, Keep, Others, IInv
  <2>6. dirs' \subseteq Directory \cup Standing
    BY <1>2 DEF TreeInv, Types
  <2> QED
    BY <1>2, <1>4, <2>1, <2>4, <2>5, <2>6, GoOnKeepsTrees DEF Steps
<1> QED
  BY <1>3, <1>4 DEF EndOfArchive

(* An entry is added to the tree, or a warning is logged, or the command   *)
(* ends.                                                                   *)
LEMMA ExtractTrees ==
    ASSUME IInv, TreeInv, NEW p \in Proc, Extract(p)
    PROVE  TreeInv'
<1> DEFINE here == DirOf[sw[p]]
           e == file[here][at[p]]
<1>1. pc[p] = "extract" /\ here \in Directory /\ at[p] <= Len(file[here])
  BY DirOfType DEF Extract, IInv, Busy
<1>2. UNCHANGED <<dirs, file, installed, runs>>
  BY DEF Extract
<1>3. PICK whole \in BOOLEAN :
         /\ tree' = IF whole THEN [tree EXCEPT ![here] = @ \cup {e}] ELSE tree
         /\ \/ Return(p)
            \/ /\ warned' = [warned EXCEPT ![p] = @ \/ ~whole]
               /\ at' = [at EXCEPT ![p] = @ + 1]
               /\ UNCHANGED <<pc, sw>>
  BY Zenon DEF Extract
<1>4. at[p] \in Nat \ {0} /\ file[here] \in Seq(Data)
  BY <1>1 DEF TreeInv, Types
<1>5. Len(file[here]) \in Nat /\ e \in Data
  BY <1>1, <1>4, LenProperties, ElementOfSeq
<1>6. /\ tree' \in [Directory -> SUBSET Data]
      /\ \A d \in Directory \ {here} : tree'[d] = tree[d]
  BY <1>1, <1>3, <1>5 DEF TreeInv, Types
<1>7. \A d \in Directory : WorksIn(p, d) \/ (file'[d] = file[d] /\ tree'[d] = tree[d])
  BY <1>1, <1>2, <1>6 DEF WorksIn
<1>8. Fresh'
  <2>1. here \in dirs
    BY <1>1 DEF IInv, WorkersMade, WorksIn
  <2> QED
    BY <1>2, <1>6, <2>1 DEF TreeInv, Fresh
<1>9. CASE Return(p)
  <2>1. Types'
    BY <1>2, <1>6, <1>9, ReturnTypes DEF TreeInv, Types
  <2> QED
    BY <1>7, <1>8, <1>9, <2>1, ReturnKeepsTrees
<1>10. CASE /\ warned' = [warned EXCEPT ![p] = @ \/ ~whole]
            /\ at' = [at EXCEPT ![p] = @ + 1]
            /\ UNCHANGED <<pc, sw>>
  <2>1. at'[p] = at[p] + 1 /\ (warned'[p] <=> warned[p] \/ ~whole)
    BY <1>10 DEF TreeInv, Types
  <2>2. Types'
    BY <1>2, <1>4, <1>6, <1>10 DEF TreeInv, Types
  <2>3. Others(p)
    BY <1>10 DEF Others, TreeInv, Types
  <2>4. \A q \in Proc \ {p} : Stage(q, DirOf[sw[q]])'
    BY <1>7, <2>3, OthersStay
  <2>5. file[here] # <<Junk>> /\ (warned[p] \/ tree[here] = Firsts(file[here], at[p] - 1))
    BY <1>1 DEF TreeInv, Stages, Stage
  <2>6. warned'[p] \/ tree'[here] = Firsts(file[here], at[p])
    <3>1. CASE warned[p] \/ ~whole
      BY <2>1, <3>1
    <3>2. CASE ~warned[p] /\ whole
      <4>1. tree'[here] = Firsts(file[here], at[p] - 1) \cup {e}
        BY <1>1, <1>3, <2>5, <3>2 DEF TreeInv, Types
      <4>2. 1..at[p] = (1..at[p] - 1) \cup {at[p]}
        BY <1>4
      <4> QED
        BY <4>1, <4>2 DEF Firsts
    <3> QED
      BY <3>1, <3>2
  <2>7. Stage(p, here)'
    BY <1>1, <1>2, <1>4, <1>5, <1>10, <2>1, <2>5, <2>6 DEF Stage
  <2> QED
    BY <1>8, <1>10, <2>2, <2>4, <2>7 DEF TreeInv, Stages
<1> QED
  BY <1>3, <1>9, <1>10

LEMMA MakeTrees ==
    ASSUME IInv, TreeInv, NEW p \in Proc, Make(p)
    PROVE  TreeInv'
<1> DEFINE here == DirOf[sw[p]]
<1>1. pc[p] = "make" /\ UNCHANGED <<dirs, file, tree, installed, runs>>
  BY DEF Make
<1>2. CASE Return(p)
  <2>1. Types' /\ Fresh'
    BY <1>1, <1>2, ReturnTypes DEF TreeInv, Types, Fresh
  <2> QED
    BY <1>1, <1>2, <2>1, ReturnKeepsTrees
<1>3. CASE Goto(p, "install") /\ Keep(p)
  <2>1. pc'[p] = "install" /\ UNCHANGED <<sw, at, warned>>
    BY <1>3 DEF Goto, Keep, IInv
  <2>2. Stage(p, here)
    BY DEF TreeInv, Stages
  <2>3. Stage(p, here)'
    BY <1>1, <2>1, <2>2 DEF Stage
  <2>4. Others(p)
    BY <1>3 DEF Goto, Keep, Others, IInv
  <2>5. dirs' \subseteq Directory \cup Standing
    BY <1>1 DEF TreeInv, Types
  <2> QED
    BY <1>1, <1>3, <2>1, <2>3, <2>4, <2>5, GoOnKeepsTrees DEF Steps
<1> QED
  BY <1>2, <1>3 DEF Make

LEMMA MakeInstallTrees ==
    ASSUME IInv, TreeInv, NEW p \in Proc, MakeInstall(p)
    PROVE  TreeInv'
<1> DEFINE here == DirOf[sw[p]]
<1>1. pc[p] = "install" /\ here \in Directory
  BY DirOfType DEF MakeInstall, IInv, Busy
<1>2. here \in dirs
  BY <1>1 DEF IInv, WorkersMade, WorksIn
<1>3. /\ Return(p) /\ UNCHANGED <<dirs, file, tree, runs>>
      /\ installed' \subseteq installed \cup {here}
  BY DEF MakeInstall
<1>4. Types' /\ Fresh'
  BY <1>1, <1>2, <1>3, ReturnTypes DEF TreeInv, Types, Fresh
<1> QED
  BY <1>3, <1>4, ReturnKeepsTrees

(* What lies in each directory is what the stage of its run says.          *)
LEMMA Trees == Spec => []TreeInv
<1>1. Init => TreeInv
  <2>1. << >> \in Seq(Data)
    OBVIOUS
  <2> QED
    BY <2>1, RunsAssumption DEF Init, TreeInv, Types, Stages, Stage, Fresh
<1>2. IInv /\ TreeInv /\ [Next]_vars => TreeInv'
  <2> SUFFICES ASSUME IInv, TreeInv, [Next]_vars
               PROVE  TreeInv'
    OBVIOUS
  <2>1. CASE UNCHANGED vars
    BY <2>1 DEF vars, TreeInv, Types, Stages, Stage, Fresh
  <2>2. ASSUME NEW p \in Proc, LookUp(p) \/ Step(p)
        PROVE  TreeInv'
    BY <2>2, LookUpTrees, MakeDirectoryTrees, DownloadTrees, OpenTrees,
       EndOfArchiveTrees, ExtractTrees, MakeTrees, MakeInstallTrees DEF Step
  <2> QED
    BY <2>1, <2>2 DEF Next
<1> QED
  BY <1>1, <1>2, Installs, PTL DEF Spec

(* However many runs install at the same time, whatever their archives     *)
(* hold and wherever a call fails, make runs only on a tree that is whole  *)
(* or after a warning.                                                     *)
THEOREM TreesAreWhole == Spec => []MakesWholeTree
<1>1. TreeInv => MakesWholeTree
  BY DEF TreeInv, Stages, Stage, MakesWholeTree
<1> QED
  BY <1>1, Trees, PTL

(* Every step keeps the variables in their types.                          *)
THEOREM InstallTypes == Spec => []TypeOK
<1>1. IInv /\ TreeInv => TypeOK
  BY SoftwareAssumption DEF IInv, Busy, Steps, TreeInv, Types, Stages, Stage, TypeOK
<1> QED
  BY <1>1, Installs, Trees, PTL

-----------------------------------------------------------------------------
(* Nobody works in d, which exists and where nothing was installed.        *)
LEMMA AbandonedStays ==
    ASSUME IInv, [Next]_vars, NEW d \in Directory, Abandoned(d)
    PROVE  Abandoned(d)'
<1>1. CASE UNCHANGED vars
  BY <1>1 DEF vars, Abandoned, WorksIn
<1>2. ASSUME NEW p \in Proc, LookUp(p) \/ Step(p)
      PROVE  Abandoned(d)'
  <2>1. d \in dirs /\ d \notin installed /\ \A q \in Proc : ~WorksIn(q, d)
    BY DEF Abandoned
  <2>2. dirs \subseteq dirs'
    BY <1>2 DEF LookUp, Step, MakeDirectory, Download, OpenArchive, Extract,
               EndOfArchive, Make, MakeInstall
  <2>3. d \notin installed'
    <3>1. CASE MakeInstall(p)
      <4>1. WorksIn(p, DirOf[sw[p]])
        BY <3>1 DEF MakeInstall, WorksIn
      <4> QED
        BY <2>1, <3>1, <4>1 DEF MakeInstall
    <3>2. CASE ~MakeInstall(p)
      BY <1>2, <2>1, <3>2 DEF LookUp, Step, MakeDirectory, Download, OpenArchive,
         Extract, EndOfArchive, Make
    <3> QED
      BY <3>1, <3>2
  <2>4. \A q \in Proc : ~WorksIn(q, d)'
    <3>1. CASE LookUp(p)
      BY <2>1, <3>1 DEF LookUp, IInv, WorksIn, Goto
    <3>2. CASE MakeDirectory(p)
      BY <2>1, <3>2 DEF MakeDirectory, IInv, WorksIn, Goto, Return, Keep
    <3>3. CASE Download(p) \/ OpenArchive(p) \/ Extract(p) \/ EndOfArchive(p)
                 \/ Make(p) \/ MakeInstall(p)
      <4>1. pc[p] \notin {"idle", "mkdir"}
        BY <3>3 DEF Download, OpenArchive, Extract, EndOfArchive, Make, MakeInstall
      <4>2. \/ Return(p)
            \/ (\E s \in Steps : Goto(p, s)) /\ UNCHANGED sw
            \/ UNCHANGED <<pc, sw>>
        BY <3>3, Zenon DEF Download, OpenArchive, Extract, EndOfArchive, Make,
           MakeInstall, Keep, Steps
      <4> QED
        BY <2>1, <4>1, <4>2 DEF Return, Goto, IInv, WorksIn
    <3> QED
      BY <1>2, <3>1, <3>2, <3>3 DEF Step
  <2> QED
    BY <2>1, <2>2, <2>3, <2>4 DEF Abandoned
<1> QED
  BY <1>1, <1>2 DEF Next

(* A directory that a run left behind without installing is never          *)
(* installed from, however often the command is repeated and whatever the  *)
(* other runs do.                                                          *)
THEOREM NoRunRetries == Spec => NoSecondAttempt
<1> SUFFICES ASSUME NEW d \in Directory
             PROVE  Spec => [](Abandoned(d) => [](d \notin installed))
  BY DEF NoSecondAttempt
<1>1. IInv /\ Abandoned(d) /\ [Next]_vars => Abandoned(d)'
  BY AbandonedStays
<1>2. Abandoned(d) => d \notin installed
  BY DEF Abandoned
<1> QED
  BY <1>1, <1>2, Installs, PTL DEF Spec

-----------------------------------------------------------------------------
(* Where the loop that looks for the extension stops.                      *)
Stops(out, i) == i = 0 \/ (i < Len(out) /\ out[i + 1] = Dot)

(* It comes to a stop at k from i on.                                      *)
StopsAt(out, i, k) ==
    k \in 0..i /\ Stops(out, k) /\ \A j \in (k + 1)..i : ~Stops(out, j)

(* From everywhere, the loop comes to a stop, and only to one.             *)
LEMMA SomeStop ==
    ASSUME NEW S, NEW out \in Seq(S), NEW i \in 0..Len(out)
    PROVE  \E k : StopsAt(out, i, k)
<1> DEFINE T == {k \in 0..i : Stops(out, k)}
<1>1. T \in SUBSET (0..i) /\ T # {} /\ i \in Nat
  BY DEF Stops
<1>2. PICK k \in T : \A j \in T : j <= k
  <2> HIDE DEF T
  <2> QED
    BY <1>1, GreatestNatural
<1> QED
  BY <1>2 DEF StopsAt

(* There is one place where the search from i stops.                       *)
LEMMA OneStop ==
    ASSUME NEW S, NEW out \in Seq(S), NEW i \in 0..Len(out),
           NEW k, StopsAt(out, i, k), NEW l, StopsAt(out, i, l)
    PROVE  k = l
<1>1. k \in 0..i /\ l \in 0..i
  BY DEF StopsAt
<1>2. ~(k < l) /\ ~(l < k)
  BY <1>1 DEF StopsAt
<1> QED
  BY <1>1, <1>2

(* The search stops at i, or goes on at i - 1.                             *)
LEMMA StopStep ==
    ASSUME NEW S, NEW out \in Seq(S), NEW i \in 0..Len(out), NEW k
    PROVE  /\ Stops(out, i) => (StopsAt(out, i, k) <=> k = i)
           /\ ~Stops(out, i) => /\ i - 1 \in 0..Len(out)
                                /\ StopsAt(out, i, k) <=> StopsAt(out, i - 1, k)
<1> DEFINE n == Len(out)
<1>1. i \in Nat /\ n \in Nat /\ i <= n
  OBVIOUS
<1>2. ASSUME Stops(out, i) PROVE StopsAt(out, i, k) <=> k = i
  <2>1. StopsAt(out, i, i)
    BY <1>1, <1>2 DEF StopsAt
  <2> QED
    BY <2>1, OneStop
<1>3. ASSUME ~Stops(out, i)
      PROVE  /\ i - 1 \in 0..Len(out)
             /\ StopsAt(out, i, k) <=> StopsAt(out, i - 1, k)
  <2>1. i # 0
    BY <1>3 DEF Stops
  <2>2. i - 1 \in 0..Len(out)
    BY <1>1, <2>1
  <2>3. StopsAt(out, i, k) => StopsAt(out, i - 1, k)
    <3> SUFFICES ASSUME StopsAt(out, i, k) PROVE StopsAt(out, i - 1, k)
      OBVIOUS
    <3>1. k # i /\ k \in 0..i
      BY <1>3 DEF StopsAt
    <3>2. k \in 0..(i - 1)
      BY <3>1, <1>1
    <3> QED
      BY <3>2, <1>1 DEF StopsAt
  <2>4. StopsAt(out, i - 1, k) => StopsAt(out, i, k)
    <3> SUFFICES ASSUME StopsAt(out, i - 1, k) PROVE StopsAt(out, i, k)
      OBVIOUS
    <3>1. k \in 0..(i - 1) /\ k \in 0..i
      BY <1>1 DEF StopsAt
    <3>2. ASSUME NEW j \in (k + 1)..i PROVE ~Stops(out, j)
      <4>1. j = i \/ j \in (k + 1)..(i - 1)
        BY <1>1, <3>1
      <4> QED
        BY <4>1, <1>3 DEF StopsAt
    <3> QED
      BY <3>1, <3>2 DEF StopsAt
  <2> QED
    BY <2>2, <2>3, <2>4
<1> QED
  BY <1>2, <1>3

(* The loop of ezi_base_filename_no_ext() comes to the stop nearest to the *)
(* end.                                                                    *)
IsLoop(out, f) ==
    f = [i \in 0..Len(out) |->
            IF i > 0 /\ (i = Len(out) \/ out[i + 1] # Dot) THEN f[i - 1] ELSE i]

(* The loop has a value for each place it may start from: the one where    *)
(* the search stops.                                                       *)
LEMMA LoopExists ==
    ASSUME NEW S, NEW out \in Seq(S)
    PROVE  \E f : IsLoop(out, f)
<1> DEFINE n == Len(out)
           f == [i \in 0..n |-> CHOOSE k : StopsAt(out, i, k)]
<1>1. n \in Nat
  OBVIOUS
<1>2. ASSUME NEW i \in 0..n
      PROVE  f[i] = IF i > 0 /\ (i = n \/ out[i + 1] # Dot) THEN f[i - 1] ELSE i
  <2>1. StopsAt(out, i, f[i])
    BY SomeStop, Zenon
  <2>2. CASE Stops(out, i)
    <3>1. f[i] = i
      BY <2>1, <2>2, StopStep
    <3> QED
      BY <3>1, <2>2, <1>1 DEF Stops
  <2>3. CASE ~Stops(out, i)
    <3>1. i - 1 \in 0..n /\ StopsAt(out, i - 1, f[i])
      BY <2>1, <2>3, StopStep
    <3>2. StopsAt(out, i - 1, f[i - 1])
      BY <3>1, SomeStop, Zenon
    <3>3. f[i] = f[i - 1]
      <4> HIDE DEF f
      <4> QED
        BY <3>1, <3>2, OneStop
    <3> QED
      BY <3>3, <2>3, <1>1 DEF Stops
  <2> QED
    BY <2>2, <2>3
<1>3. IsLoop(out, f)
  BY <1>2 DEF IsLoop
<1> QED
  BY <1>3

(* DotFrom is where the search from the end stops.                         *)
LEMMA DotFromStops ==
    ASSUME NEW S, NEW out \in Seq(S)
    PROVE  StopsAt(out, Len(out), DotFrom(out))
<1> DEFINE n == Len(out)
           f == CHOOSE f : f = [i \in 0..n |->
                    IF i > 0 /\ (i = n \/ out[i + 1] # Dot) THEN f[i - 1] ELSE i]
<1>1. n \in Nat
  OBVIOUS
<1>2. DotFrom(out) = f[n]
  BY DEF DotFrom
<1>3. IsLoop(out, f)
  <2>1. \E g : g = [i \in 0..n |->
                    IF i > 0 /\ (i = n \/ out[i + 1] # Dot) THEN g[i - 1] ELSE i]
    BY LoopExists DEF IsLoop
  <2>2. f = [i \in 0..n |->
                    IF i > 0 /\ (i = n \/ out[i + 1] # Dot) THEN f[i - 1] ELSE i]
    BY <2>1, Zenon
  <2> HIDE DEF f
  <2> QED
    BY <2>2 DEF IsLoop
<1> HIDE DEF f
<1> DEFINE T == {i \in 0..n : ~StopsAt(out, i, f[i])}
<1>4. T = {}
  <2> SUFFICES ASSUME T # {} PROVE FALSE
    OBVIOUS
  <2>1. PICK i \in T : \A j \in T : i <= j
    <3>1. T \in SUBSET Nat
      OBVIOUS
    <3> HIDE DEF T
    <3> QED
      BY <3>1, LeastNatural
  <2>2. i \in 0..n /\ ~StopsAt(out, i, f[i])
    OBVIOUS
  <2>3. f[i] = IF i > 0 /\ (i = n \/ out[i + 1] # Dot) THEN f[i - 1] ELSE i
    BY <1>3, <2>2 DEF IsLoop
  <2>4. CASE Stops(out, i)
    <3>1. f[i] = i
      BY <2>2, <2>3, <2>4, <1>1 DEF Stops
    <3> QED
      BY <2>2, <2>4, <3>1, StopStep
  <2>5. CASE ~Stops(out, i)
    <3>1. f[i] = f[i - 1]
      BY <2>2, <2>3, <2>5, <1>1 DEF Stops
    <3>2. i - 1 \in 0..n
      BY <2>2, <2>5, StopStep
    <3>3. StopsAt(out, i - 1, f[i - 1])
      <4>1. i - 1 \notin T
        BY <2>1, <2>2, <1>1
      <4> QED
        BY <3>2, <4>1
    <3> QED
      BY <2>2, <2>5, <3>1, <3>3, StopStep
  <2> QED
    BY <2>4, <2>5
<1>5. n \in 0..n
  BY <1>1
<1>6. StopsAt(out, n, f[n])
  BY <1>4, <1>5
<1> QED
  BY <1>2, <1>6

-----------------------------------------------------------------------------
(* The leftmost match of the expression begins behind the last separator:  *)
(* ezi_base_filename() returns the last component of any path.             *)
LEMMA BaseIsComponent ==
    ASSUME NEW S, NEW str \in Seq(S)
    PROVE  BaseFilename(str) = Component(str) /\ BaseFilename(str) \in Seq(S)
<1> DEFINE n == Len(str)
           ends == {0} \cup {i \in 1..n : str[i] \in Separator}
           starts == {i \in 1..n : Matches(str, i)}
<1>1. n \in Nat
  OBVIOUS
<1>2. PICK e \in ends : \A j \in ends : j <= e
  <2>1. ends \in SUBSET (0..n) /\ ends # {}
    BY <1>1
  <2> HIDE DEF ends
  <2> QED
    BY <1>1, <2>1, GreatestNatural
<1>3. e \in 0..n
  BY <1>1
<1>4. Max(ends) = e
  <2>1. ends \subseteq Nat
    BY <1>1
  <2> HIDE DEF ends
  <2>2. \A x \in ends : (\A y \in ends : x >= y) => x = e
    BY <1>2, <2>1
  <2>3. \A y \in ends : e >= y
    BY <1>2, <2>1
  <2> QED
    BY <2>2, <2>3 DEF Max
<1>5. Component(str) = SubSeq(str, e + 1, n)
  BY <1>4 DEF Component
<1>6. \A j \in (e + 1)..n : str[j] \notin Separator
  <2> SUFFICES ASSUME NEW j \in (e + 1)..n, str[j] \in Separator PROVE FALSE
    OBVIOUS
  <2>1. j \in ends
    BY <1>1, <1>3
  <2>2. j <= e
    BY <1>2, <2>1
  <2> QED
    BY <1>3, <2>2
<1>7. CASE e = n
  <2>1. starts = {}
    <3> SUFFICES ASSUME NEW i \in 1..n, Matches(str, i) PROVE FALSE
      OBVIOUS
    <3>1. n \in i..n /\ str[n] \in Separator
      BY <1>1, <1>7
    <3> QED
      BY <3>1 DEF Matches
  <2>2. BaseFilename(str) = NoName
    BY <2>1 DEF BaseFilename
  <2>3. SubSeq(str, n + 1, n) = << >>
    BY <1>1
  <2> QED
    BY <1>5, <1>7, <2>2, <2>3 DEF NoName
<1>8. CASE e < n
  <2>1. e + 1 \in starts
    BY <1>1, <1>3, <1>6, <1>8 DEF Matches
  <2>2. ASSUME NEW i \in starts PROVE e + 1 <= i
    <3> SUFFICES ASSUME i <= e PROVE FALSE
      BY <1>3
    <3>1. i \in 1..n /\ Matches(str, i)
      OBVIOUS
    <3>2. e # 0 /\ e \in ends
      BY <1>3, <3>1
    <3>3. e \in i..n /\ str[e] \in Separator
      BY <1>1, <1>3, <3>1, <3>2
    <3> QED
      BY <3>1, <3>3 DEF Matches
  <2>3. starts \subseteq Nat
    OBVIOUS
  <2>4. Min(starts) = e + 1
    <3>1. PICK b : b = e + 1
      OBVIOUS
    <3>2. b \in Nat /\ b \in starts /\ \A i \in starts : b <= i
      BY <1>3, <2>1, <2>2, <3>1
    <3> HIDE DEF starts
    <3>3. \A x \in starts : (\A y \in starts : x =< y) => x = b
      BY <2>3, <3>2
    <3> QED
      BY <3>1, <3>2, <3>3 DEF Min
  <2>5. BaseFilename(str) = SubSeq(str, e + 1, n)
    BY <2>1, <2>4 DEF BaseFilename
  <2> QED
    BY <1>3, <1>5, <2>5
<1> QED
  BY <1>3, <1>7, <1>8

(* The name of the directory is the last component of the URL without its  *)
(* extension, for every URL.                                               *)
LEMMA StemOfComponent ==
    ASSUME NEW S, NEW url \in Seq(S)
    PROVE  IsStem(BaseFilenameNoExt(url), Component(url))
<1>1. PICK out : out = BaseFilename(url)
  OBVIOUS
<1>2. out = Component(url) /\ out \in Seq(S)
  BY <1>1, BaseIsComponent
<1>3. PICK n \in Nat : n = Len(out)
  BY <1>2
<1>4. PICK k : k = DotFrom(out)
  OBVIOUS
<1>5. k \in 0..n /\ Stops(out, k) /\ \A j \in (k + 1)..n : ~Stops(out, j)
  BY <1>2, <1>3, <1>4, DotFromStops DEF StopsAt
<1>6. ASSUME NEW i \in (k + 2)..n PROVE out[i] # Dot
  <2>1. i - 1 \in (k + 1)..n /\ i - 1 # 0 /\ i - 1 < n /\ (i - 1) + 1 = i
    BY <1>3, <1>5
  <2>2. ~Stops(out, i - 1)
    BY <1>5, <2>1
  <2> QED
    BY <1>3, <2>1, <2>2 DEF Stops
<1>7. CASE k = 0
  <2>1. BaseFilenameNoExt(url) = out
    BY <1>1, <1>4, <1>7 DEF BaseFilenameNoExt
  <2>2. \A i \in 2..n : out[i] # Dot
    BY <1>6, <1>7
  <2> QED
    BY <1>2, <1>3, <2>1, <2>2 DEF IsStem
<1>8. CASE k # 0
  <2>1. BaseFilenameNoExt(url) = SubSeq(out, 1, k)
    BY <1>1, <1>4, <1>5, <1>8 DEF BaseFilenameNoExt
  <2>2. k \in 1..(n - 1) /\ out[k + 1] = Dot
    BY <1>3, <1>5, <1>8 DEF Stops
  <2> QED
    BY <1>2, <1>3, <1>6, <2>1, <2>2 DEF IsStem
<1> QED
  BY <1>7, <1>8

(* Whatever the URL, the directory is named after its last component       *)
(* without the extension.                                                  *)
THEOREM EveryDirectoryIsAStem == Spec => []DirectoriesAreStems
<1>1. DirectoriesAreStems
  BY NamesAssumption, StemOfComponent DEF DirectoriesAreStems
<1> QED
  BY <1>1, PTL
=============================================================================
