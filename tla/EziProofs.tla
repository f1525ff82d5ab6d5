------------------------------ MODULE EziProofs ------------------------------
(***************************************************************************)
(* Proofs about Ezi.                                                       *)
(***************************************************************************)
EXTENDS Ezi, SourceFileProofs

-----------------------------------------------------------------------------
(* The inductive invariant that holds with faults and without, for any     *)
(* number of processes.                                                    *)

Points == ({"open", "create", "header", "load", "truncate", "write"} \X Table)
          \cup ({"off", "execute", "report"} \X {"none"})

(* A table all of whose software comes from users.                         *)
FromUsers(u) == u \in Tables /\ \A n \in DOMAIN u : ComesFromUser(n, u[n])

(* The file is what some save left of such a table.                        *)
WrittenFrom(f, u) ==
    FromUsers(u) /\ \E order \in SetToSeqs(DOMAIN u) : f \in Cuts(Contents(u, order))

IsWritten(f) == \E u \in Tables : WrittenFrom(f, u)

(* The calls a process makes when the file of t exists for certain.        *)
After(t) ==
    {"load", "truncate", "write"} \X Table
    \cup {<<"execute", "none">>, <<"report", "none">>, <<"header", t>>}
    \cup IF t = "installed" THEN {"open", "create", "header"} \X {"available"} ELSE {}

(* The calls of a process that adds its software.                          *)
Saving == {"truncate", "write"} \X Table \cup {<<"report", "none">>}

Types ==
    /\ pc \in [Proc -> Points]
    /\ cmd \in [Proc -> Additions \cup {Look}]
    /\ runs \in 0..MaxRuns
    /\ acked \in Tables
    /\ clean \in BOOLEAN
    /\ \A p \in Proc : pc[p] \in Saving => cmd[p] \in Additions

Data ==
    /\ mem \in [Proc -> [Table -> Tables]]
    /\ \A p \in Proc, t \in Table : FromUsers(mem[p][t])
    /\ saved \in [Table -> Tables \cup {Absent}]
    /\ DOMAIN file = Table
    /\ \A t \in Table : /\ file[t] # Absent => IsWritten(file[t])
                        /\ \A p \in Proc : pc[p] \in After(t) => file[t] # Absent

DataInv == Types /\ Data

-----------------------------------------------------------------------------
(* Without faults: a file holds the table last saved to it, completely,    *)
(* unless some process is about to write it.                               *)
HoldsSaved(t) ==
    /\ saved[t] # Absent
    /\ \E order \in SetToSeqs(DOMAIN saved[t]) :
          file[t] = Whole(Contents(saved[t], order))

Pending(t) ==
    file[t] = Truncated /\ \E p \in Proc : pc[p] \in {<<"header", t>>, <<"write", t>>}

QuietInv ==
    \A t \in Table : \/ file[t] = Absent /\ saved[t] = Absent
                     \/ HoldsSaved(t)
                     \/ Pending(t)

-----------------------------------------------------------------------------
(* Until runs overlap or meet a fault.                                     *)

(* Software s is sw up to the order of its dependencies.                   *)
SameSoftware(s, sw) ==
    s.text = sw.text /\ (s.deps = sw.deps \/ s.deps = Reverse(sw.deps))

Covers(u, added) ==
    /\ DOMAIN added \subseteq DOMAIN u
    /\ \A n \in DOMAIN added : SameSoftware(u[n], added[n])

WithCommand(p) == Put(acked, cmd[p].name, cmd[p].sw)

(* What the one process that is not off has done.                          *)
Progress(p) ==
    /\ pc[p] \in {<<"create", "available">>, <<"header", "available">>}
          => acked = Empty
    /\ pc[p] \in {<<"load", "installed">>, <<"execute", "none">>}
          => Covers(mem[p]["available"], acked)
    /\ pc[p] \in {<<"truncate", "available">>, <<"write", "available">>}
          => Covers(mem[p]["available"], WithCommand(p))
    /\ pc[p] \in {<<"truncate", "installed">>, <<"write", "installed">>,
                  <<"report", "none">>}
          => HoldsSaved("available") /\ Covers(saved["available"], WithCommand(p))

(* What the file of available software holds when no process is at work on *)
(* it.                                                                     *)
Settled ==
    \/ file["available"] = Absent /\ acked = Empty
    \/ HoldsSaved("available") /\ Covers(saved["available"], acked)

Unsettled == {<<"header", "available">>, <<"write", "available">>,
              <<"truncate", "installed">>, <<"write", "installed">>,
              <<"report", "none">>}

CleanInv ==
    clean => /\ \A p, q \in Proc : pc[p] # Off /\ pc[q] # Off => p = q
             /\ \A p \in Proc : Progress(p)
             /\ (\A p \in Proc : pc[p] \notin Unsettled) => Settled

-----------------------------------------------------------------------------
(* Where the control of a process can be and where a step takes it.        *)
LEMMA PointsFacts ==
    ASSUME NEW t \in Table
    PROVE  /\ Off \in Points /\ Off \notin Saving
           /\ <<"open", t>> \in Points /\ <<"open", t>> \notin Saving
           /\ <<"create", t>> \in Points /\ <<"create", t>> \notin Saving
           /\ <<"header", t>> \in Points /\ <<"header", t>> \notin Saving
           /\ <<"truncate", t>> \in Points /\ <<"truncate", t>> \in Saving
           /\ <<"write", t>> \in Points /\ <<"write", t>> \in Saving
           /\ <<"report", "none">> \in Saving
           /\ AfterOpen(t) \in Points /\ AfterOpen(t) \notin Saving
           /\ AfterLoad(t) \in Points /\ AfterLoad(t) \notin Saving
           /\ AfterSave(t) \in Points
BY DEF Points, Saving, Table, Off, AfterOpen, AfterLoad, AfterSave

(* An addition puts a name and a software.                                 *)
LEMMA AdditionFacts ==
    ASSUME NEW a \in Additions
    PROVE  a.name \in Name /\ a.sw \in Software /\ a # Look
BY AdditionsAssumption

(* The files, processes and runs have their types at first.                *)
LEMMA InitTypes == Init => Types
BY PointsFacts, EmptyIsTable, FaultsAssumption DEF Init, Types, Table

(* And each system call keeps them.                                        *)
LEMMA NextTypes ==
    ASSUME Types, [Next]_vars
    PROVE  Types'
<1> USE DEF Types
<1>1. ASSUME NEW p \in Proc, Start(p) PROVE Types'
  <2>1. runs' \in 0..MaxRuns
    BY <1>1, FaultsAssumption DEF Start
  <2>2. "installed" \in Table
    BY DEF Table
  <2>3. <<"open", "installed">> \in Points /\ <<"open", "installed">> \notin Saving
    BY <2>2, PointsFacts
  <2>4. cmd' \in [Proc -> Additions \cup {Look}] /\ \A q \in Proc \ {p} : cmd'[q] = cmd[q]
    BY <1>1 DEF Start
  <2>5. clean' \in BOOLEAN /\ acked' \in Tables
    BY <1>1 DEF Start, Idle
  <2>6. pc' = [pc EXCEPT ![p] = <<"open", "installed">>]
    BY <1>1 DEF Start, Goto
  <2> QED
    BY <2>1, <2>3, <2>4, <2>5, <2>6
<1>2. ASSUME NEW p \in Proc, NEW t \in Table, Open(p, t) PROVE Types'
  BY <1>2, PointsFacts DEF Open, Goto
<1>3. ASSUME NEW p \in Proc, NEW t \in Table, Create(p, t) PROVE Types'
  BY <1>3, PointsFacts DEF Create, Goto
<1>4. ASSUME NEW p \in Proc, NEW t \in Table, Header(p, t) PROVE Types'
  BY <1>4, PointsFacts DEF Header, Goto, WriteFile
<1>5. ASSUME NEW p \in Proc, NEW t \in Table, LoadTable(p, t) PROVE Types'
  <2>1. \/ Exit(p)
        \/ pc' = [pc EXCEPT ![p] = AfterLoad(t)] /\ UNCHANGED cmd
    BY <1>5 DEF LoadTable, Goto
  <2>2. UNCHANGED <<runs, acked, clean>>
    BY <1>5 DEF LoadTable
  <2> QED
    BY <2>1, <2>2, PointsFacts DEF Exit, Goto
<1>6. ASSUME NEW p \in Proc, ExecuteLook(p) PROVE Types'
  BY <1>6, PointsFacts DEF ExecuteLook, Exit, Goto, Table
<1>7. ASSUME NEW p \in Proc, ExecuteAdd(p) PROVE Types'
  BY <1>7, PointsFacts DEF ExecuteAdd, Goto, Table
<1>8. ASSUME NEW p \in Proc, NEW t \in Table, Truncate(p, t) PROVE Types'
  BY <1>8, PointsFacts DEF Truncate, Exit, Goto
<1>9. ASSUME NEW p \in Proc, NEW t \in Table, Write(p, t) PROVE Types'
  BY <1>9, PointsFacts DEF Write, Goto, WriteFile
<1>10. ASSUME NEW p \in Proc, Report(p) PROVE Types'
  <2>1. cmd[p] \in Additions
    BY <1>10 DEF Report, Saving
  <2>2. acked' \in Tables
    BY <1>10, <2>1, AdditionFacts, PutIsTable DEF Report
  <2> QED
    BY <1>10, <2>2, PointsFacts DEF Report, Exit, Goto, Table
<1>11. ASSUME NEW p \in Proc, Kill(p) PROVE Types'
  BY <1>11, PointsFacts DEF Kill, Exit, Goto, Table
<1>12. CASE UNCHANGED vars
  BY <1>12 DEF vars
<1> QED
  BY <1>1, <1>2, <1>3, <1>4, <1>5, <1>6, <1>7, <1>8, <1>9, <1>10, <1>11, <1>12
  DEF Next, Step

-----------------------------------------------------------------------------
(* Tables whose software comes from users.                                 *)

(* What is damaged once more, or only reversed once more, still comes from *)
(* the user.                                                               *)
LEMMA RemainsComeFromUser ==
    ASSUME NEW n, NEW s \in Software, ComesFromUser(n, s),
           NEW r \in Software, Remains(r, s)
    PROVE  ComesFromUser(n, r)
<1>1. PICK a \in Additions :
         /\ a.name = n /\ a.sw.text = s.text
         /\ \/ s.deps = << >>
            \/ \E d \in {a.sw.deps, Reverse(a.sw.deps)} :
                 /\ Len(s.deps) = Len(d)
                 /\ \A i \in 1..Len(d) : s.deps[i] \in {d[i], Stump}
  BY DEF ComesFromUser
<1>2. a.sw.deps \in Seq(Name \cup {Stump}) /\ r.deps \in Seq(Name \cup {Stump})
      /\ s.deps \in Seq(Name \cup {Stump})
  BY AdditionFacts DEF Software
<1>3. a.sw.text = r.text
  BY <1>1 DEF Remains
<1>4. CASE r.deps = << >>
  BY <1>1, <1>3, <1>4 DEF ComesFromUser
<1>5. CASE r.deps # << >>
  <2>1. /\ Len(r.deps) = Len(s.deps)
        /\ \A i \in 1..Len(s.deps) : r.deps[i] \in {Reverse(s.deps)[i], Stump}
    BY <1>5 DEF Remains
  <2>2. s.deps # << >>
    <3>1. Len(r.deps) # 0
      BY <1>2, <1>5
    <3> QED
      BY <2>1, <3>1
  <2>3. PICK d \in {a.sw.deps, Reverse(a.sw.deps)} :
           /\ Len(s.deps) = Len(d)
           /\ \A i \in 1..Len(d) : s.deps[i] \in {d[i], Stump}
    BY <1>1, <2>2
  <2>4. Reverse(a.sw.deps) \in Seq(Name \cup {Stump})
    BY <1>2, ReverseFacts
  <2>5. d \in Seq(Name \cup {Stump}) /\ Len(d) \in Nat
    BY <1>2, <2>3, <2>4
  <2>6. Reverse(d) \in {a.sw.deps, Reverse(a.sw.deps)}
    <3>1. Reverse(Reverse(a.sw.deps)) = a.sw.deps
      BY <1>2, ReverseTwice
    <3> QED
      BY <2>3, <3>1
  <2>7. /\ Len(Reverse(d)) = Len(d)
        /\ \A i \in 1..Len(d) : Reverse(d)[i] = d[(Len(d) - i) + 1]
    BY <2>5, ReverseFacts
  <2>8. \A i \in 1..Len(d) : Reverse(s.deps)[i] = s.deps[(Len(d) - i) + 1]
    BY <1>2, <2>3, ReverseFacts
  <2>9. \A i \in 1..Len(d) : r.deps[i] \in {Reverse(d)[i], Stump}
    <3>1. \A i \in 1..Len(d) : (Len(d) - i) + 1 \in 1..Len(d)
      BY <2>5
    <3> QED
      BY <2>1, <2>3, <2>7, <2>8, <3>1
  <2> QED
    BY <1>1, <1>3, <2>1, <2>3, <2>6, <2>7, <2>9 DEF ComesFromUser
<1> QED
  BY <1>4, <1>5

(* The table without software has nothing that no user added.              *)
LEMMA EmptyFromUsers == FromUsers(Empty)
BY EmptyIsTable DEF FromUsers

(* An addition leads from such a table to such a table.                    *)
LEMMA PutFromUsers ==
    ASSUME NEW u, FromUsers(u), NEW a \in Additions
    PROVE  FromUsers(Put(u, a.name, a.sw))
<1>1. u \in Tables /\ \A n \in DOMAIN u : ComesFromUser(n, u[n])
  BY DEF FromUsers
<1>2. Put(u, a.name, a.sw) \in Tables /\ IsPut(Put(u, a.name, a.sw), u, a.name, a.sw)
  BY <1>1, AdditionFacts, PutIsTable
<1>3. ComesFromUser(a.name, a.sw)
  <2>1. \E d \in {a.sw.deps, Reverse(a.sw.deps)} :
          /\ Len(a.sw.deps) = Len(d)
          /\ \A i \in 1..Len(d) : a.sw.deps[i] \in {d[i], Stump}
    OBVIOUS
  <2> QED
    BY <2>1 DEF ComesFromUser
<1> QED
  BY <1>1, <1>2, <1>3 DEF FromUsers, IsPut

(* So does a cut.                                                          *)
LEMMA PartFromUsers ==
    ASSUME NEW u, FromUsers(u), NEW r, PartOf(r, u)
    PROVE  FromUsers(r)
<1>1. u \in Tables /\ \A n \in DOMAIN u : ComesFromUser(n, u[n])
  BY DEF FromUsers
<1>2. /\ r \in Tables /\ DOMAIN r \subseteq DOMAIN u
      /\ \A n \in DOMAIN r : Remains(r[n], u[n])
  BY DEF PartOf
<1>3. u \in [DOMAIN u -> Software] /\ r \in [DOMAIN r -> Software]
  BY <1>1, <1>2, TablesFacts
<1>4. ASSUME NEW n \in DOMAIN r PROVE ComesFromUser(n, r[n])
  <2>1. u[n] \in Software /\ r[n] \in Software /\ Remains(r[n], u[n])
        /\ ComesFromUser(n, u[n])
    BY <1>1, <1>2, <1>3
  <2> QED
    BY <2>1, RemainsComeFromUser
<1> QED
  BY <1>2, <1>4 DEF FromUsers

-----------------------------------------------------------------------------
(* Files that a save of such a table leaves.                               *)

(* What a save writes is a sequence of fields.                             *)
LEMMA ContentsAreFields ==
    ASSUME NEW u \in Tables, NEW order \in SetToSeqs(DOMAIN u)
    PROVE  Contents(u, order) \in Seq(Field)
<1>1. order \in Seq(DOMAIN u)
  BY TablesFacts, ArrangementIsOnto
<1>2. PICK P : Layout(Contents(u, order), u, order, Len(order), P)
  BY <1>1, ContentsLayout
<1> QED
  BY <1>2 DEF Layout

(* A write of nothing and a write of everything are cuts.                  *)
LEMMA ExtremeCuts ==
    ASSUME NEW c \in Seq(Field)
    PROVE  Truncated \in Cuts(c) /\ Whole(c) \in Cuts(c)
<1>1. Len(c) \in Nat
  OBVIOUS
<1>2. SubSeq(c, 1, 0) = << >> /\ SubSeq(c, 1, Len(c)) = c
  OBVIOUS
<1>3. << >> \in Prefixes(c) /\ c \in Prefixes(c)
  <2>1. 0 \in 0..Len(c) /\ Len(c) \in 0..Len(c)
    BY <1>1
  <2> QED
    BY <1>2, <2>1 DEF Prefixes
<1> QED
  BY <1>3 DEF Cuts, Truncated

(* The table without software has one order.                               *)
LEMMA EmptyOrder == << >> \in SetToSeqs(DOMAIN Empty)
<1>1. DOMAIN Empty = {} /\ Cardinality({}) = 0
  BY EmptyIsTable, FS_EmptySet
<1>2. << >> \in [1..0 -> {}]
  OBVIOUS
<1> QED
  BY <1>1, <1>2 DEF SetToSeqs

(* Any cut of what a save writes is a file that a run may leave.           *)
LEMMA WrittenIntro ==
    ASSUME NEW u, FromUsers(u), NEW order \in SetToSeqs(DOMAIN u),
           NEW f \in Cuts(Contents(u, order))
    PROVE  IsWritten(f)
BY DEF IsWritten, WrittenFrom, FromUsers

(* So is an empty file.                                                    *)
LEMMA TruncatedIsWritten == IsWritten(Truncated)
<1>1. Contents(Empty, << >>) \in Seq(Field)
  BY EmptyIsTable, EmptyOrder, ContentsAreFields
<1>2. Truncated \in Cuts(Contents(Empty, << >>))
  BY <1>1, ExtremeCuts
<1> QED
  BY <1>2, EmptyFromUsers, EmptyOrder, WrittenIntro

(* What WriteFile leaves.                                                  *)
LEMMA WriteFileWrites ==
    ASSUME NEW t \in Table, DOMAIN file = Table,
           NEW u, FromUsers(u), NEW order \in SetToSeqs(DOMAIN u),
           WriteFile(t, Contents(u, order))
    PROVE  \E f : IsWritten(f) /\ file' = [file EXCEPT ![t] = f]
<1>1. Contents(u, order) \in Seq(Field)
  BY ContentsAreFields DEF FromUsers
<1>2. PICK f \in Cuts(Contents(u, order)) : file' = [file EXCEPT ![t] = f]
  BY <1>1, ExtremeCuts DEF WriteFile
<1> QED
  BY <1>2, WrittenIntro

(* Such a file exists, and consists of fields.                             *)
LEMMA WrittenFacts ==
    ASSUME NEW f, IsWritten(f)
    PROVE  f # Absent /\ f.fields \in Seq(Field) /\ f.torn \in BOOLEAN
<1>1. PICK u : WrittenFrom(f, u)
  BY DEF IsWritten
<1>2. PICK order \in SetToSeqs(DOMAIN u) : f \in Cuts(Contents(u, order))
  BY <1>1 DEF WrittenFrom
<1>3. Contents(u, order) \in Seq(Field)
  BY <1>1, ContentsAreFields DEF WrittenFrom, FromUsers
<1>4. f.fields \in Seq(Field) /\ f.torn \in BOOLEAN
  BY <1>2, <1>3, CutBegins DEF Begins
<1>5. f = [fields |-> f.fields, torn |-> f.torn]
  BY <1>2 DEF Cuts, Whole
<1>6. Absent \notin [fields : Seq(Field), torn : BOOLEAN]
  <2>1. Field = Nat \cup Name \cup Text \cup {Stump}
    BY DEF Field, Strings
  <2> QED
    BY <2>1, AbsentAssumption
<1> QED
  BY <1>4, <1>5, <1>6

(* Whatever a load finds in such a file comes from users.                  *)
LEMMA LoadFromUsers ==
    ASSUME NEW f, IsWritten(f), NEW g \in Garbage, Load(f, g).ok
    PROVE  FromUsers(Load(f, g).table)
<1>1. PICK u : WrittenFrom(f, u)
  BY DEF IsWritten
<1>2. PICK order \in SetToSeqs(DOMAIN u) : f \in Cuts(Contents(u, order))
  BY <1>1 DEF WrittenFrom
<1>3. FromUsers(u) /\ u \in Tables /\ g \in Nat
  BY <1>1, FieldsAssumption DEF WrittenFrom, FromUsers
<1>4. PartOf(Load(f, g).table, u)
  BY <1>2, <1>3, LoadOfCut
<1> QED
  BY <1>3, <1>4, PartFromUsers

-----------------------------------------------------------------------------
(* Data is an invariant.  Its parts: the tables in memory, the tables last *)
(* saved, and the files.                                                   *)

MemoryOK ==
    /\ mem \in [Proc -> [Table -> Tables]]
    /\ \A p \in Proc, t \in Table : FromUsers(mem[p][t])

FilesOK ==
    /\ DOMAIN file = Table
    /\ \A t \in Table : file[t] # Absent => IsWritten(file[t])

Existing ==
    \A t \in Table, p \in Proc : pc[p] \in After(t) => file[t] # Absent

(* The parts of Data, which are shown one by one.                          *)
LEMMA DataParts ==
    Data <=> /\ MemoryOK /\ FilesOK /\ Existing
             /\ saved \in [Table -> Tables \cup {Absent}]
BY DEF Data, MemoryOK, FilesOK, Existing

(* At first no file exists and all tables in memory are empty.             *)
LEMMA InitData == Init => Data
<1> SUFFICES ASSUME Init PROVE Data
  OBVIOUS
<1>1. MemoryOK
  BY EmptyFromUsers, EmptyIsTable DEF Init, MemoryOK, NoTables
<1>2. FilesOK
  BY DEF Init, FilesOK
<1>3. Existing
  BY DEF Init, Existing, After, Off, Table
<1>4. saved \in [Table -> Tables \cup {Absent}]
  BY DEF Init
<1> QED
  BY <1>1, <1>2, <1>3, <1>4, DataParts

(* A process that ends forgets its tables.                                 *)
LEMMA ExitMemory ==
    ASSUME MemoryOK, NEW p \in Proc, Exit(p)
    PROVE  MemoryOK'
<1>1. mem' = [mem EXCEPT ![p] = [t \in Table |-> Empty]]
  BY DEF Exit, NoTables
<1>2. Empty \in Tables /\ FromUsers(Empty)
  BY EmptyIsTable, EmptyFromUsers
<1> QED
  BY <1>1, <1>2 DEF MemoryOK

(* Tables in memory come from files and additions, so from users.          *)
LEMMA NextMemory ==
    ASSUME Types, Data, [Next]_vars
    PROVE  MemoryOK'
<1> USE DEF Types
<1>1. MemoryOK /\ FilesOK /\ Existing
  BY DataParts
<1>2. ASSUME NEW p \in Proc, NEW t \in Table, LoadTable(p, t) PROVE MemoryOK'
  <2>1. PICK g \in Garbage :
           LET r == Load(file[t], g)
           IN  IF r.ok THEN mem' = [mem EXCEPT ![p][t] = r.table] ELSE Exit(p)
    BY <1>2 DEF LoadTable
  <2>2. file[t] # Absent
    <3>1. pc[p] = <<"load", t>>
      BY <1>2 DEF LoadTable
    <3>2. pc[p] \in After(t)
      BY <3>1 DEF After
    <3> QED
      BY <1>1, <3>2 DEF Existing
  <2>3. CASE Load(file[t], g).ok
    <3>1. mem' = [mem EXCEPT ![p][t] = Load(file[t], g).table]
      BY <2>1, <2>3
    <3>2. FromUsers(Load(file[t], g).table)
      BY <1>1, <2>2, <2>3, LoadFromUsers DEF FilesOK
    <3>3. Load(file[t], g).table \in Tables
      BY <3>2 DEF FromUsers
    <3> QED
      BY <1>1, <3>1, <3>2, <3>3 DEF MemoryOK
  <2>4. CASE ~Load(file[t], g).ok
    <3>1. Exit(p)
      BY <2>1, <2>4
    <3> QED
      BY <1>1, <3>1, ExitMemory
  <2> QED
    BY <2>3, <2>4
<1>3. ASSUME NEW p \in Proc, ExecuteAdd(p) PROVE MemoryOK'
  <2> DEFINE u == Put(mem[p]["available"], cmd[p].name, cmd[p].sw)
  <2>1. cmd[p] \in Additions /\ mem' = [mem EXCEPT ![p]["available"] = u]
    BY <1>3 DEF ExecuteAdd
  <2>2. FromUsers(mem[p]["available"])
    BY <1>1 DEF MemoryOK, Table
  <2>3. FromUsers(u)
    BY <2>1, <2>2, PutFromUsers
  <2>4. u \in Tables
    BY <2>3 DEF FromUsers
  <2> HIDE DEF u
  <2> QED
    BY <1>1, <2>1, <2>3, <2>4 DEF MemoryOK
<1>4. ASSUME NEW p \in Proc, NEW t \in Table, Truncate(p, t) PROVE MemoryOK'
  <2>1. Exit(p) \/ UNCHANGED mem
    BY <1>4 DEF Truncate
  <2> QED
    BY <1>1, <2>1, ExitMemory DEF MemoryOK
<1>5. ASSUME NEW p \in Proc, ExecuteLook(p) \/ Report(p) \/ Kill(p) PROVE MemoryOK'
  <2>1. Exit(p)
    BY <1>5 DEF ExecuteLook, Report, Kill
  <2> QED
    BY <1>1, <2>1, ExitMemory
<1>6. ASSUME UNCHANGED mem PROVE MemoryOK'
  BY <1>1, <1>6 DEF MemoryOK
<1>7. ASSUME NEW p \in Proc, NEW t \in Table,
             Open(p, t) \/ Create(p, t) \/ Header(p, t) \/ Write(p, t)
      PROVE  UNCHANGED mem
  BY <1>7 DEF Open, Create, Header, Write
<1>8. ASSUME NEW p \in Proc, Start(p) PROVE UNCHANGED mem
  BY <1>8 DEF Start
<1>9. CASE UNCHANGED vars
  BY <1>6, <1>9 DEF vars
<1> QED
  BY <1>2, <1>3, <1>4, <1>5, <1>6, <1>7, <1>8, <1>9 DEF Next, Step

(* A file that exists goes on existing, and each is what a save left.      *)
LEMMA NextFiles ==
    ASSUME Types, Data, [Next]_vars
    PROVE  FilesOK' /\ \A t \in Table : file[t] # Absent => file'[t] # Absent
<1> USE DEF Types
<1>1. MemoryOK /\ FilesOK
  BY DataParts
<1>2. ASSUME UNCHANGED file
      PROVE  FilesOK' /\ \A t \in Table : file[t] # Absent => file'[t] # Absent
  BY <1>1, <1>2 DEF FilesOK
<1>3. ASSUME NEW t \in Table, NEW f, IsWritten(f), file' = [file EXCEPT ![t] = f]
      PROVE  FilesOK' /\ \A u \in Table : file[u] # Absent => file'[u] # Absent
  <2>1. f # Absent
    BY <1>3, WrittenFacts
  <2> QED
    BY <1>1, <1>3, <2>1 DEF FilesOK
<1>4. ASSUME NEW p \in Proc, NEW t \in Table, Create(p, t) \/ Truncate(p, t)
      PROVE  UNCHANGED file \/ file' = [file EXCEPT ![t] = Truncated]
  BY <1>4 DEF Create, Truncate
<1>5. ASSUME NEW p \in Proc, NEW t \in Table, Header(p, t)
      PROVE  \E f : IsWritten(f) /\ file' = [file EXCEPT ![t] = f]
  <2>1. WriteFile(t, Contents(Empty, << >>))
    BY <1>5 DEF Header
  <2> QED
    BY <1>1, <2>1, EmptyFromUsers, EmptyOrder, WriteFileWrites DEF FilesOK
<1>6. ASSUME NEW p \in Proc, NEW t \in Table, Write(p, t)
      PROVE  \E f : IsWritten(f) /\ file' = [file EXCEPT ![t] = f]
  <2>1. PICK order \in SetToSeqs(DOMAIN mem[p][t]) :
           WriteFile(t, Contents(mem[p][t], order))
    BY <1>6 DEF Write
  <2>2. FromUsers(mem[p][t])
    BY <1>1 DEF MemoryOK
  <2> QED
    BY <1>1, <2>1, <2>2, WriteFileWrites DEF FilesOK
<1>7. ASSUME NEW p \in Proc, NEW t \in Table, Open(p, t) \/ LoadTable(p, t)
      PROVE  UNCHANGED file
  BY <1>7 DEF Open, LoadTable
<1>8. ASSUME NEW p \in Proc,
             Start(p) \/ ExecuteLook(p) \/ ExecuteAdd(p) \/ Report(p) \/ Kill(p)
      PROVE  UNCHANGED file
  BY <1>8 DEF Start, ExecuteLook, ExecuteAdd, Report, Kill
<1>9. CASE UNCHANGED vars
  BY <1>2, <1>9 DEF vars
<1>10. CASE \E p \in Proc, t \in Table : Create(p, t) \/ Truncate(p, t)
  BY <1>2, <1>3, <1>4, <1>10, TruncatedIsWritten
<1>11. CASE \E p \in Proc, t \in Table : Header(p, t) \/ Write(p, t)
  BY <1>3, <1>5, <1>6, <1>11
<1>12. CASE \E p \in Proc, t \in Table : Open(p, t) \/ LoadTable(p, t)
  BY <1>2, <1>7, <1>12
<1>13. CASE \E p \in Proc : Start(p) \/ ExecuteLook(p) \/ ExecuteAdd(p)
                            \/ Report(p) \/ Kill(p)
  BY <1>2, <1>8, <1>13
<1> QED
  BY <1>9, <1>10, <1>11, <1>12, <1>13 DEF Next, Step

(* A process that has opened a file, or found the next one, does not meet  *)
(* its absence later.                                                      *)
LEMMA NextExisting ==
    ASSUME Types, Data, [Next]_vars
    PROVE  Existing'
<1> USE DEF Types
<1>1. Existing /\ FilesOK' /\ \A t \in Table : file[t] # Absent => file'[t] # Absent
  BY DataParts, NextFiles
<1>2. SUFFICES ASSUME NEW t \in Table, NEW p \in Proc,
                      pc'[p] \in After(t), pc'[p] # pc[p]
               PROVE  file'[t] # Absent
  BY <1>1 DEF Existing
<1>3. file[t] # Absent => file'[t] # Absent
  BY <1>1
<1>4. pc[p] \in After(t) => file[t] # Absent
  BY <1>1 DEF Existing
<1>5. ASSUME NEW q \in Proc, NEW step, Goto(q, step)
      PROVE  q = p /\ pc'[p] = step
  BY <1>2, <1>5 DEF Goto
<1>6. ASSUME NEW q \in Proc, Exit(q) PROVE FALSE
  BY <1>2, <1>5, <1>6 DEF Exit, Off, After, Table
<1>7. ASSUME NEW q \in Proc, Start(q) PROVE FALSE
  <2>1. pc'[p] = <<"open", "installed">>
    BY <1>5, <1>7 DEF Start
  <2> QED
    BY <1>2, <2>1 DEF After, Table
<1>8. ASSUME NEW q \in Proc, NEW u \in Table, Open(q, u) PROVE file'[t] # Absent
  <2>1. pc[p] = <<"open", u>>
        /\ pc'[p] = IF file[u] = Absent THEN <<"create", u>> ELSE AfterOpen(u)
    BY <1>5, <1>8 DEF Open
  <2>2. CASE file[u] = Absent
    <3>1. pc'[p] = <<"create", u>>
      BY <2>1, <2>2
    <3>2. t = "installed" /\ u = "available"
      BY <1>2, <3>1 DEF After, Table
    <3> QED
      BY <1>3, <1>4, <2>1, <3>2 DEF After
  <2>3. CASE file[u] # Absent
    <3>1. u = t \/ (u = "available" /\ t = "installed")
      BY <1>2, <2>1, <2>3 DEF After, AfterOpen, Table
    <3>2. u = "available" => pc[p] \in After("installed")
      BY <2>1 DEF After
    <3> QED
      BY <1>3, <1>4, <2>3, <3>1, <3>2
  <2> QED
    BY <2>2, <2>3
<1>9. ASSUME NEW q \in Proc, NEW u \in Table, Create(q, u) PROVE file'[t] # Absent
  <2>1. /\ pc[p] = <<"create", u>> /\ pc'[p] = <<"header", u>>
        /\ file' = [file EXCEPT ![u] = Truncated]
    BY <1>5, <1>9 DEF Create
  <2>2. CASE u = t
    <3>1. file'[t] = Truncated
      BY <2>1, <2>2, DataParts DEF FilesOK
    <3> QED
      BY <3>1, TruncatedIsWritten, WrittenFacts
  <2>3. CASE u # t
    <3>1. t = "installed" /\ u = "available"
      BY <1>2, <2>1, <2>3 DEF After, Table
    <3> QED
      BY <1>3, <1>4, <2>1, <3>1 DEF After
  <2> QED
    BY <2>2, <2>3
<1>10. ASSUME NEW q \in Proc, NEW u \in Table, Header(q, u) PROVE file'[t] # Absent
  <2>1. pc[p] = <<"header", u>> /\ pc'[p] = AfterOpen(u)
    BY <1>5, <1>10 DEF Header
  <2>2. u = t \/ (u = "available" /\ t = "installed")
    BY <1>2, <2>1 DEF After, AfterOpen, Table
  <2>3. pc[p] \in After(t)
    BY <2>1, <2>2 DEF After
  <2> QED
    BY <1>3, <1>4, <2>3
<1>11. ASSUME pc[p] \in {"load", "truncate", "write"} \X Table
                        \cup {<<"execute", "none">>, <<"report", "none">>}
       PROVE  file'[t] # Absent
  BY <1>3, <1>4, <1>11 DEF After
<1>12. ASSUME NEW q \in Proc, NEW u \in Table, LoadTable(q, u) PROVE file'[t] # Absent
  <2>1. pc[q] = <<"load", u>> /\ \E s : Goto(q, s)
    BY <1>12 DEF LoadTable, Exit
  <2> QED
    BY <1>5, <1>11, <2>1
<1>13. ASSUME NEW q \in Proc, ExecuteAdd(q) PROVE file'[t] # Absent
  <2>1. pc[q] = <<"execute", "none">> /\ \E s : Goto(q, s)
    BY <1>13 DEF ExecuteAdd
  <2> QED
    BY <1>5, <1>11, <2>1
<1>14. ASSUME NEW q \in Proc, NEW u \in Table, Truncate(q, u) \/ Write(q, u)
       PROVE  file'[t] # Absent
  <2>1. pc[q] \in {"truncate", "write"} \X Table /\ \E s : Goto(q, s)
    BY <1>14 DEF Truncate, Write, Exit
  <2> QED
    BY <1>5, <1>11, <2>1
<1>15. ASSUME NEW q \in Proc, ExecuteLook(q) \/ Report(q) \/ Kill(q) PROVE FALSE
  BY <1>6, <1>15 DEF ExecuteLook, Report, Kill
<1>16. CASE UNCHANGED vars
  BY <1>2, <1>16 DEF vars
<1> QED
  BY <1>7, <1>8, <1>9, <1>10, <1>12, <1>13, <1>14, <1>15, <1>16 DEF Next, Step

(* What was last saved is a table.                                         *)
LEMMA NextSaved ==
    ASSUME Types, Data, [Next]_vars
    PROVE  saved' \in [Table -> Tables \cup {Absent}]
<1>1. saved \in [Table -> Tables \cup {Absent}] /\ MemoryOK
  BY DataParts
<1>2. ASSUME NEW p \in Proc, NEW t \in Table, Header(p, t)
      PROVE  saved' \in [Table -> Tables \cup {Absent}]
  BY <1>1, <1>2, EmptyIsTable DEF Header
<1>3. ASSUME NEW p \in Proc, NEW t \in Table, Write(p, t)
      PROVE  saved' \in [Table -> Tables \cup {Absent}]
  <2>1. mem[p][t] \in Tables /\ saved' = [saved EXCEPT ![t] = mem[p][t]]
    BY <1>1, <1>3 DEF Write, MemoryOK
  <2> QED
    BY <1>1, <2>1
<1>4. ASSUME NEW p \in Proc, NEW t \in Table,
             Open(p, t) \/ Create(p, t) \/ LoadTable(p, t) \/ Truncate(p, t)
      PROVE  UNCHANGED saved
  BY <1>4 DEF Open, Create, LoadTable, Truncate
<1>5. ASSUME NEW p \in Proc,
             Start(p) \/ ExecuteLook(p) \/ ExecuteAdd(p) \/ Report(p) \/ Kill(p)
      PROVE  UNCHANGED saved
  BY <1>5 DEF Start, ExecuteLook, ExecuteAdd, Report, Kill
<1>6. CASE UNCHANGED vars
  BY <1>1, <1>6 DEF vars
<1> QED
  BY <1>1, <1>2, <1>3, <1>4, <1>5, <1>6 DEF Next, Step

(* Every file is a cut of a table that came from users, always.            *)
LEMMA DataInvariant == Spec => []DataInv
<1>1. Init => DataInv
  BY InitTypes, InitData DEF DataInv
<1>2. DataInv /\ [Next]_vars => DataInv'
  <2> SUFFICES ASSUME DataInv, [Next]_vars PROVE DataInv'
    OBVIOUS
  <2>1. Types /\ Data
    BY DEF DataInv
  <2>2. Types'
    BY <2>1, NextTypes
  <2>3. /\ MemoryOK' /\ FilesOK' /\ Existing'
        /\ saved' \in [Table -> Tables \cup {Absent}]
    BY <2>1, NextMemory, NextFiles, NextExisting, NextSaved
  <2>4. Data'
    BY <2>3 DEF Data, MemoryOK, FilesOK, Existing
  <2> QED
    BY <2>2, <2>4 DEF DataInv
<1> QED
  BY <1>1, <1>2, PTL DEF Spec

-----------------------------------------------------------------------------
(* The files, the tables in memory and the commands have their types: for  *)
(* every set of names, texts, users' additions and processes.              *)
THEOREM TypeCorrect == Spec => []TypeOK
<1>1. DataInv => TypeOK
  <2> SUFFICES ASSUME DataInv PROVE TypeOK
    OBVIOUS
  <2> USE DEF DataInv, Types, Data
  <2>1. ASSUME NEW t \in Table, file[t] # Absent
        PROVE  /\ file[t].fields \in Seq(Nat \cup Name \cup Text \cup {Stump})
               /\ file[t].torn \in BOOLEAN
    <3>1. file[t].fields \in Seq(Field) /\ file[t].torn \in BOOLEAN
      BY <2>1, WrittenFacts
    <3>2. Field = Nat \cup Name \cup Text \cup {Stump}
      BY DEF Field, Strings
    <3> QED
      BY <3>1, <3>2
  <2>2. \A p \in Proc, t \in Table : IsTable(mem[p][t])
    BY TablesFacts
  <2>3. \A t \in Table : saved[t] # Absent => IsTable(saved[t])
    BY TablesFacts
  <2>4. IsTable(acked)
    BY TablesFacts
  <2> QED
    BY <2>1, <2>2, <2>3, <2>4 DEF TypeOK, Points
<1> QED
  BY <1>1, DataInvariant, PTL

(* A full disk, a refused call or a kill loses software but invents none:  *)
(* in every file the runs may leave, a load that succeeds finds only what  *)
(* some user added, with its own text, wherever the file was cut.          *)
THEOREM NoRunInvents == Spec => []NoPhantom
<1>1. DataInv => NoPhantom
  <2> SUFFICES ASSUME DataInv, NEW t \in Table, NEW g \in Garbage,
                      file[t] # Absent, Load(file[t], g).ok,
                      NEW n \in DOMAIN Load(file[t], g).table
               PROVE  ComesFromUser(n, Load(file[t], g).table[n])
    BY DEF NoPhantom, Failed
  <2>1. IsWritten(file[t])
    BY DEF DataInv, Data
  <2>2. FromUsers(Load(file[t], g).table)
    BY <2>1, LoadFromUsers
  <2> QED
    BY <2>2 DEF FromUsers
<1> QED
  BY <1>1, DataInvariant, PTL

-----------------------------------------------------------------------------
(* Without faults.                                                         *)

(* A complete file loads, and a load returns what was saved.               *)
LEMMA LoadOfSaved ==
    ASSUME Data, NEW t \in Table, HoldsSaved(t), NEW g
    PROVE  Load(file[t], g) = [ok |-> TRUE, table |-> Reversed(saved[t])]
<1>1. PICK order \in SetToSeqs(DOMAIN saved[t]) :
         file[t] = Whole(Contents(saved[t], order))
  BY DEF HoldsSaved
<1>2. saved[t] \in Tables
  BY DEF Data, HoldsSaved
<1> QED
  BY <1>1, <1>2, LoadOfWhole

(* A complete write leaves a complete file.                                *)
LEMMA SavedIsHeld ==
    ASSUME Types, Data, Types', Data', NEW t \in Table, NEW u \in Tables,
           NEW order \in SetToSeqs(DOMAIN u),
           file' = [file EXCEPT ![t] = Whole(Contents(u, order))],
           saved' = [saved EXCEPT ![t] = u]
    PROVE  HoldsSaved(t)'
<1>1. file'[t] = Whole(Contents(u, order)) /\ saved'[t] = u
  BY DEF Data
<1>2. u # Absent
  <2>1. PICK N \in SUBSET Name : u \in [N -> Software]
    BY DEF Tables
  <2> QED
    BY <2>1, AbsentAssumption
<1> QED
  BY <1>1, <1>2 DEF HoldsSaved

(* What a process does to the file it is not about to write.               *)
LEMMA SameFile ==
    ASSUME NEW t \in Table, HoldsSaved(t), file'[t] = file[t], saved'[t] = saved[t]
    PROVE  HoldsSaved(t)'
BY DEF HoldsSaved

(* Without faults every file is complete unless a process is about to      *)
(* write it: other runs may empty it, but they will write it too.          *)
LEMMA NextQuiet ==
    ASSUME ~Faults, DataInv, DataInv', QuietInv, [Next]_vars
    PROVE  QuietInv'
<1> USE DEF DataInv, Types
<1>1. SUFFICES ASSUME NEW t \in Table
               PROVE  \/ (file[t] = Absent /\ saved[t] = Absent)'
                      \/ HoldsSaved(t)'
                      \/ Pending(t)'
  BY DEF QuietInv
<1> DEFINE Quiet == \/ file[t] = Absent /\ saved[t] = Absent
                    \/ HoldsSaved(t)
                    \/ Pending(t)
<1>2. Quiet
  BY DEF QuietInv
<1> HIDE DEF Quiet
<1> SUFFICES Quiet'
  BY DEF Quiet
(* A step that leaves the file alone, made by a process that is not about  *)
(* to write it.                                                            *)
<1>3. ASSUME NEW p \in Proc, file'[t] = file[t], saved'[t] = saved[t],
             pc[p] \notin {<<"header", t>>, <<"write", t>>},
             \A q \in Proc \ {p} : pc'[q] = pc[q]
      PROVE  Quiet'
  <2>1. CASE Pending(t)
    BY <1>3, <2>1 DEF Pending, Quiet
  <2>2. CASE HoldsSaved(t)
    BY <1>3, <2>2, SameFile DEF Quiet
  <2>3. CASE file[t] = Absent /\ saved[t] = Absent
    BY <1>3, <2>3 DEF Quiet
  <2> QED
    BY <1>2, <2>1, <2>2, <2>3 DEF Quiet
<1>4. ASSUME NEW p \in Proc, NEW step, Goto(p, step)
      PROVE  pc'[p] = step /\ \A q \in Proc \ {p} : pc'[q] = pc[q]
  BY <1>4 DEF Goto
<1>5. ASSUME NEW p \in Proc, NEW u \in Table, Open(p, u) \/ LoadTable(p, u)
      PROVE  Quiet'
  <2>1. /\ pc[p] \in {"open", "load"} \X Table /\ \E step : Goto(p, step)
        /\ file' = file /\ saved' = saved
    BY <1>5 DEF Open, LoadTable, Exit
  <2> QED
    BY <1>3, <1>4, <2>1
<1>6. ASSUME NEW p \in Proc,
             Start(p) \/ ExecuteLook(p) \/ ExecuteAdd(p) \/ Report(p)
      PROVE  Quiet'
  <2>1. /\ pc[p] \in {"off", "execute", "report"} \X {"none"} /\ \E step : Goto(p, step)
        /\ file' = file /\ saved' = saved
    BY <1>6 DEF Start, ExecuteLook, ExecuteAdd, Report, Exit, Off
  <2> QED
    BY <1>3, <1>4, <2>1
<1>7. ASSUME NEW p \in Proc, NEW u \in Table, Create(p, u) PROVE Quiet'
  <2>1. /\ pc[p] = <<"create", u>> /\ Goto(p, <<"header", u>>)
        /\ file' = [file EXCEPT ![u] = Truncated] /\ saved' = saved
    BY <1>7 DEF Create
  <2>2. CASE u = t
    BY <1>4, <2>1, <2>2 DEF Pending, Data, Quiet
  <2>3. CASE u # t
    BY <1>3, <1>4, <2>1, <2>3 DEF Data
  <2> QED
    BY <2>2, <2>3
<1>8. ASSUME NEW p \in Proc, NEW u \in Table, Truncate(p, u) PROVE Quiet'
  <2>1. /\ pc[p] = <<"truncate", u>> /\ Goto(p, <<"write", u>>)
        /\ file' = [file EXCEPT ![u] = Truncated] /\ saved' = saved
    BY <1>8 DEF Truncate
  <2>2. CASE u = t
    BY <1>4, <2>1, <2>2 DEF Pending, Data, Quiet
  <2>3. CASE u # t
    BY <1>3, <1>4, <2>1, <2>3 DEF Data
  <2> QED
    BY <2>2, <2>3
<1>9. ASSUME NEW p \in Proc, NEW u \in Table, NEW tbl \in Tables,
             NEW order \in SetToSeqs(DOMAIN tbl),
             pc[p] \in {<<"header", u>>, <<"write", u>>}, \E step : Goto(p, step),
             WriteFile(u, Contents(tbl, order)), saved' = [saved EXCEPT ![u] = tbl]
      PROVE  Quiet'
  <2>1. file' = [file EXCEPT ![u] = Whole(Contents(tbl, order))]
    BY <1>9 DEF WriteFile
  <2>2. CASE u = t
    <3>1. HoldsSaved(u)'
      BY <1>9, <2>1, SavedIsHeld
    <3> QED
      BY <3>1, <2>2 DEF Quiet
  <2>3. CASE u # t
    BY <1>3, <1>4, <1>9, <2>1, <2>3 DEF Data
  <2> QED
    BY <2>2, <2>3
<1>10. ASSUME NEW p \in Proc, NEW u \in Table, Header(p, u) PROVE Quiet'
  <2>1. /\ pc[p] = <<"header", u>> /\ Goto(p, AfterOpen(u))
        /\ WriteFile(u, Contents(Empty, << >>)) /\ saved' = [saved EXCEPT ![u] = Empty]
    BY <1>10 DEF Header
  <2>2. Empty \in Tables /\ << >> \in SetToSeqs(DOMAIN Empty)
    BY EmptyIsTable, EmptyOrder
  <2> QED
    BY <1>9, <2>1, <2>2
<1>11. ASSUME NEW p \in Proc, NEW u \in Table, Write(p, u) PROVE Quiet'
  <2>1. PICK order \in SetToSeqs(DOMAIN mem[p][u]) :
           WriteFile(u, Contents(mem[p][u], order))
    BY <1>11 DEF Write
  <2>2. /\ pc[p] = <<"write", u>> /\ Goto(p, AfterSave(u))
        /\ saved' = [saved EXCEPT ![u] = mem[p][u]] /\ mem[p][u] \in Tables
    BY <1>11 DEF Write, Data
  <2> QED
    BY <1>9, <2>1, <2>2
<1>12. CASE UNCHANGED vars
  <2>1. CASE HoldsSaved(t)
    BY <1>12, <2>1, SameFile DEF vars, Quiet
  <2>2. CASE ~HoldsSaved(t)
    BY <1>2, <1>12, <2>2 DEF vars, Pending, Quiet
  <2> QED
    BY <2>1, <2>2
<1>13. ASSUME NEW p \in Proc PROVE ~Kill(p)
  BY DEF Kill
<1>14. CASE \E p \in Proc : Start(p) \/ Step(p) \/ Kill(p)
  BY <1>5, <1>6, <1>7, <1>8, <1>10, <1>11, <1>13, <1>14 DEF Step
<1> QED
  BY <1>12, <1>14 DEF Next

(* So files are complete, or will be, always.                              *)
LEMMA QuietInvariant == ASSUME ~Faults PROVE Spec => []QuietInv
<1>1. Init => QuietInv
  BY DEF Init, QuietInv
<1>2. DataInv /\ DataInv' /\ QuietInv /\ [Next]_vars => QuietInv'
  BY NextQuiet
<1> QED
  BY <1>1, <1>2, DataInvariant, PTL DEF Spec

(* However many runs interleave, they leave files that load once all of    *)
(* them have ended, if no disk is full and nothing is killed.              *)
THEOREM QuietFilesLoadAlways == ASSUME ~Faults PROVE Spec => []QuietFilesLoad
<1>1. DataInv /\ QuietInv => QuietFilesLoad
  <2> SUFFICES ASSUME DataInv, QuietInv, Idle, NEW t \in Table, file[t] # Absent
               PROVE  ~Unreadable(file[t])
    BY DEF QuietFilesLoad
  <2>1. ~Pending(t)
    BY DEF Pending, Idle, Off
  <2>2. HoldsSaved(t)
    BY <2>1 DEF QuietInv
  <2>3. PICK g \in Garbage : TRUE
    BY FieldsAssumption
  <2>4. Load(file[t], g) = [ok |-> TRUE, table |-> Reversed(saved[t])]
    BY <2>2, LoadOfSaved DEF DataInv
  <2> QED
    BY <2>3, <2>4 DEF Unreadable
<1> QED
  BY <1>1, DataInvariant, QuietInvariant, PTL

-----------------------------------------------------------------------------
(* A file that cannot be loaded stops every run before it can be repaired. *)

(* The calls of a run that the file of t will stop.                        *)
Stopped(t) ==
    {Off, <<"load", "available">>}
    \cup {"open"} \X Table \cup {"create", "header"} \X (Table \ {t})
    \cup IF t = "installed" THEN {<<"load", "installed">>} ELSE {}

Stuck(t) ==
    /\ file[t] # Absent /\ Unreadable(file[t])
    /\ \A p \in Proc : pc[p] \in Stopped(t)

(* No step gets past the load of a file that cannot be read, so none       *)
(* changes it.                                                             *)
LEMMA NextStuck ==
    ASSUME DataInv, NEW t \in Table, Stuck(t), [Next]_vars
    PROVE  Stuck(t)'
<1> USE DEF DataInv, Types
<1>1. ASSUME NEW p \in Proc, NEW step \in Stopped(t), Goto(p, step), file'[t] = file[t]
      PROVE  Stuck(t)'
  <2>1. \A q \in Proc : pc'[q] \in Stopped(t)
    BY <1>1 DEF Goto, Stuck
  <2>2. file'[t] # Absent /\ Unreadable(file'[t])
    BY <1>1 DEF Stuck
  <2>3. Unreadable(file[t])'
    BY <2>2
  <2> QED
    BY <2>1, <2>2, <2>3 DEF Stuck
<1>2. Off \in Stopped(t)
  BY DEF Stopped
<1>3. ASSUME NEW p \in Proc PROVE pc[p] \in Stopped(t)
  BY DEF Stuck
<1>4. ASSUME NEW p \in Proc, Start(p) PROVE Stuck(t)'
  <2>1. <<"open", "installed">> \in Stopped(t)
    BY DEF Stopped, Table
  <2> QED
    BY <1>1, <1>4, <2>1 DEF Start
<1>5. ASSUME NEW p \in Proc, NEW u \in Table, Open(p, u) PROVE Stuck(t)'
  <2>1. CASE file[u] = Absent
    <3>1. u # t
      BY <2>1 DEF Stuck
    <3>2. <<"create", u>> \in Stopped(t)
      BY <3>1 DEF Stopped
    <3> QED
      BY <1>1, <1>5, <2>1, <3>2 DEF Open
  <2>2. CASE file[u] # Absent
    <3>1. AfterOpen(u) \in Stopped(t)
      BY DEF Stopped, AfterOpen, Table
    <3> QED
      BY <1>1, <1>5, <2>2, <3>1 DEF Open
  <2> QED
    BY <2>1, <2>2
<1>6. ASSUME NEW p \in Proc, NEW u \in Table, Create(p, u) PROVE Stuck(t)'
  <2>1. pc[p] = <<"create", u>>
    BY <1>6 DEF Create
  <2>2. u # t
    BY <1>3, <2>1 DEF Stopped, Off, Table
  <2>3. <<"header", u>> \in Stopped(t)
    BY <2>2 DEF Stopped
  <2>4. file'[t] = file[t]
    BY <1>6, <2>2 DEF Create, Data
  <2> QED
    BY <1>1, <1>6, <2>3, <2>4 DEF Create
<1>7. ASSUME NEW p \in Proc, NEW u \in Table, Header(p, u) PROVE Stuck(t)'
  <2>1. pc[p] = <<"header", u>>
    BY <1>7 DEF Header
  <2>2. u # t
    BY <1>3, <2>1 DEF Stopped, Off, Table
  <2>3. AfterOpen(u) \in Stopped(t)
    BY DEF Stopped, AfterOpen, Table
  <2>4. file'[t] = file[t]
    BY <1>7, <2>2 DEF Header, WriteFile, Data
  <2> QED
    BY <1>1, <1>7, <2>3, <2>4 DEF Header
<1>8. ASSUME NEW p \in Proc, NEW u \in Table, LoadTable(p, u) PROVE Stuck(t)'
  <2>1. pc[p] = <<"load", u>> /\ file' = file
    BY <1>8 DEF LoadTable
  <2>2. PICK g \in Garbage :
           LET r == Load(file[u], g)
           IN  IF r.ok THEN Goto(p, AfterLoad(u)) ELSE Exit(p)
    BY <1>8 DEF LoadTable
  <2>3. CASE u = t
    <3>1. ~Load(file[u], g).ok
      BY <2>3 DEF Stuck, Unreadable
    <3> QED
      BY <1>1, <1>2, <2>1, <2>2, <3>1 DEF Exit
  <2>4. CASE u # t
    <3>1. u = "available" /\ t = "installed"
      BY <1>3, <2>1, <2>4 DEF Stopped, Off, Table
    <3>2. AfterLoad(u) \in Stopped(t)
      BY <3>1 DEF AfterLoad, Stopped
    <3> QED
      BY <1>1, <1>2, <2>1, <2>2, <3>2 DEF Exit
  <2> QED
    BY <2>3, <2>4
<1>9. ASSUME NEW p \in Proc, Kill(p) PROVE Stuck(t)'
  BY <1>1, <1>2, <1>9 DEF Kill, Exit
<1>10. ASSUME NEW p \in Proc, NEW u \in Table
       PROVE  ~Truncate(p, u) /\ ~Write(p, u)
  BY <1>3 DEF Stopped, Truncate, Write, Off, Table
<1>11. ASSUME NEW p \in Proc
       PROVE  ~ExecuteLook(p) /\ ~ExecuteAdd(p) /\ ~Report(p)
  BY <1>3 DEF Stopped, ExecuteLook, ExecuteAdd, Report, Off, Table
<1>12. CASE UNCHANGED vars
  <2>1. file' = file /\ pc' = pc
    BY <1>12 DEF vars
  <2> QED
    BY <2>1 DEF Stuck
<1> QED
  BY <1>4, <1>5, <1>6, <1>7, <1>8, <1>9, <1>10, <1>11, <1>12 DEF Next, Step

(* A file that no load can read stays so for ever, whatever runs are       *)
(* started, together or one after the other.                               *)
THEOREM NothingRepairs == Spec => NoRunRepairs
<1> SUFFICES ASSUME NEW t \in Table
             PROVE  Spec => [](Ruined(t) => [](Idle => Ruined(t)))
  BY DEF NoRunRepairs
<1>1. Ruined(t) => Stuck(t)
  BY DEF Ruined, Stuck, Idle, Stopped
<1>2. Stuck(t) => (Idle => Ruined(t))
  BY DEF Ruined, Stuck
<1>3. DataInv /\ Stuck(t) /\ [Next]_vars => Stuck(t)'
  BY NextStuck
<1> QED
  BY <1>1, <1>2, <1>3, DataInvariant, PTL DEF Spec

-----------------------------------------------------------------------------
(* While runs follow each other and meet no fault.                         *)

(* An addition to the table and to what was reported.                      *)
LEMMA CoversPut ==
    ASSUME NEW u, NEW added, Covers(u, added), NEW name, NEW sw
    PROVE  Covers(Put(u, name, sw), Put(added, name, sw))
BY DEF Covers, Put, SameSoftware

(* A load covers what the table that was saved covers.                     *)
LEMMA CoversReversed ==
    ASSUME NEW u \in Tables, NEW added \in Tables, Covers(u, added)
    PROVE  Covers(Reversed(u), added)
<1>1. /\ DOMAIN Reversed(u) = DOMAIN u
      /\ \A n \in DOMAIN u : /\ Reversed(u)[n].text = u[n].text
                              /\ Reversed(u)[n].deps = Reverse(u[n].deps)
  BY DEF Reversed
<1>2. u \in [DOMAIN u -> Software] /\ added \in [DOMAIN added -> Software]
  BY TablesFacts
<1>3. ASSUME NEW n \in DOMAIN added PROVE SameSoftware(Reversed(u)[n], added[n])
  <2>1. n \in DOMAIN u /\ SameSoftware(u[n], added[n])
    BY DEF Covers
  <2>2. u[n].deps = added[n].deps \/ u[n].deps = Reverse(added[n].deps)
    BY <2>1 DEF SameSoftware
  <2>3. Reverse(Reverse(added[n].deps)) = added[n].deps
    <3>1. added[n].deps \in Seq(Name \cup {Stump})
      BY <1>2 DEF Software
    <3> QED
      BY <3>1, ReverseTwice
  <2>4. Reversed(u)[n].deps \in {added[n].deps, Reverse(added[n].deps)}
    BY <1>1, <2>1, <2>2, <2>3
  <2> QED
    BY <1>1, <2>1, <2>4 DEF SameSoftware
<1> QED
  BY <1>1, <1>3 DEF Covers

(* A complete file exists.                                                 *)
LEMMA HeldExists ==
    ASSUME Data, NEW t \in Table, HoldsSaved(t)
    PROVE  file[t] # Absent
<1>1. PICK order \in SetToSeqs(DOMAIN saved[t]) :
         file[t] = Whole(Contents(saved[t], order))
  BY DEF HoldsSaved
<1>2. saved[t] \in Tables
  BY DEF Data, HoldsSaved
<1>3. Contents(saved[t], order) \in Seq(Nat \cup Name \cup Text \cup {Stump})
  <2>1. Field = Nat \cup Name \cup Text \cup {Stump}
    BY DEF Field, Strings
  <2> QED
    BY <1>2, <2>1, ContentsAreFields
<1> DEFINE F == Seq(Nat \cup Name \cup Text \cup {Stump})
<1>4. Absent \notin [fields : F, torn : BOOLEAN]
  BY AbsentAssumption
<1>5. Contents(saved[t], order) \in F
  BY <1>3
<1> HIDE DEF F
<1>6. Whole(Contents(saved[t], order)) \in [fields : F, torn : BOOLEAN]
  BY <1>5, SMT DEF Whole
<1> QED
  BY <1>1, <1>4, <1>6

(* Nothing about the file of available software changes.                   *)
SameAvailable ==
    /\ file'["available"] = file["available"]
    /\ saved'["available"] = saved["available"]
    /\ acked' = acked

(* A call is made by a process that is not off, and moves only this one.   *)
Moves(p) == pc[p] # Off /\ pc' = [pc EXCEPT ![p] = pc'[p]]

(* A step of one process changes the control and the tables of no other.   *)
LEMMA StepMoves ==
    ASSUME Types, NEW p \in Proc, Step(p)
    PROVE  Moves(p)
<1> USE DEF Types, Moves
<1>1. ASSUME NEW u \in Table, Open(p, u) \/ Create(p, u) \/ Header(p, u) \/ Write(p, u)
      PROVE  Moves(p)
  <2>1. CASE Open(p, u)
    BY <2>1 DEF Open, Goto, Off
  <2>2. CASE Create(p, u)
    BY <2>2 DEF Create, Goto, Off
  <2>3. CASE Header(p, u)
    BY <2>3 DEF Header, Goto, Off
  <2>4. CASE Write(p, u)
    BY <2>4 DEF Write, Goto, Off
  <2> QED
    BY <1>1, <2>1, <2>2, <2>3, <2>4
<1>2. ASSUME NEW u \in Table, LoadTable(p, u)
      PROVE  Moves(p)
  <2>1. pc[p] # Off
    BY <1>2 DEF LoadTable, Off
  <2>2. Exit(p) => pc' = [pc EXCEPT ![p] = pc'[p]]
    BY DEF Exit, Goto
  <2>3. Goto(p, AfterLoad(u)) => pc' = [pc EXCEPT ![p] = pc'[p]]
    BY DEF Goto
  <2>4. Exit(p) \/ Goto(p, AfterLoad(u))
    BY <1>2 DEF LoadTable
  <2> QED
    BY <2>1, <2>2, <2>3, <2>4
<1>3. ASSUME NEW u \in Table, Truncate(p, u)
      PROVE  Moves(p)
  BY <1>3 DEF Truncate, Exit, Goto, Off
<1>4. CASE ExecuteLook(p)
  BY <1>4 DEF ExecuteLook, Exit, Goto, Off
<1>5. CASE ExecuteAdd(p)
  BY <1>5 DEF ExecuteAdd, Goto, Off
<1>6. CASE Report(p)
  BY <1>6 DEF Report, Exit, Goto, Off
<1> QED
  BY <1>1, <1>2, <1>3, <1>4, <1>5, <1>6 DEF Step

(* Runs that follow each other: each starts from files that hold what was  *)
(* reported, and its own addition is in what it saves.                     *)
LEMMA NextClean ==
    ASSUME DataInv, DataInv', CleanInv, [Next]_vars
    PROVE  CleanInv'
<1> USE DEF DataInv, Types
<1> DEFINE A == "available"
<1>1. A \in Table /\ "installed" \in Table
  BY DEF Table
<1>2. CASE UNCHANGED vars
  <2>1. (clean' = clean) /\ (pc' = pc) /\ (Settled => Settled') /\ (\A p \in Proc : Progress(p) => Progress(p)')
    BY <1>2 DEF vars, Settled, Progress, HoldsSaved, WithCommand
  <2> QED
    BY <2>1 DEF CleanInv
<1>3. SUFFICES ASSUME clean', NEW p \in Proc, Start(p) \/ Step(p)
               PROVE  CleanInv'
  <2>1. ASSUME NEW p \in Proc, Kill(p) PROVE CleanInv'
    BY <2>1 DEF Kill, CleanInv
  <2> QED
    BY <1>2, <2>1 DEF Next, CleanInv
<1>4. clean
  <2>1. ASSUME NEW u \in Table, NEW fields, WriteFile(u, fields) PROVE clean
    BY <1>3, <2>1 DEF WriteFile
  <2>2. CASE Start(p)
    BY <1>3, <2>2 DEF Start
  <2>3. ASSUME NEW u \in Table, Open(p, u) \/ Create(p, u) \/ LoadTable(p, u)
        PROVE  clean
    BY <1>3, <2>3 DEF Open, Create, LoadTable
  <2>4. ASSUME NEW u \in Table, Header(p, u) PROVE clean
    BY <2>1, <2>4 DEF Header
  <2>5. ASSUME NEW u \in Table, Truncate(p, u) PROVE clean
    BY <1>3, <2>5 DEF Truncate
  <2>6. ASSUME NEW u \in Table, Write(p, u) PROVE clean
    BY <2>1, <2>6 DEF Write
  <2>7. CASE ExecuteLook(p) \/ ExecuteAdd(p) \/ Report(p)
    BY <1>3, <2>7 DEF ExecuteLook, ExecuteAdd, Report
  <2> QED
    BY <1>3, <2>2, <2>3, <2>4, <2>5, <2>6, <2>7 DEF Step
<1>5. /\ \A q \in Proc \ {p} : pc[q] = Off /\ pc'[q] = Off
      /\ pc' = [pc EXCEPT ![p] = pc'[p]]
  <2>1. pc[p] # Off \/ Idle
    <3>1. CASE Start(p)
      BY <1>3, <3>1 DEF Start
    <3>2. CASE Step(p)
      BY <3>2, StepMoves DEF Moves
    <3> QED
      BY <1>3, <3>1, <3>2
  <2>2. \A q \in Proc \ {p} : pc[q] = Off
    BY <1>4, <2>1 DEF CleanInv, Idle
  <2>3. pc' = [pc EXCEPT ![p] = pc'[p]]
    <3>1. CASE Start(p)
      BY <3>1 DEF Start, Goto
    <3> QED
      BY <1>3, <3>1, StepMoves DEF Moves
  <2> QED
    BY <2>2, <2>3
<1>6. Off \notin Unsettled
  BY DEF Off, Unsettled
<1>7. Progress(p) /\ (pc[p] \notin Unsettled => Settled)
  BY <1>4, <1>5, <1>6 DEF CleanInv
<1>8. SUFFICES Progress(p)' /\ (pc'[p] \notin Unsettled => Settled')
  <2>1. \A q \in Proc \ {p} : Progress(q)'
    BY <1>5 DEF Progress, Off
  <2> QED
    BY <1>5, <2>1 DEF CleanInv
<1>9. ASSUME SameAvailable PROVE (Settled => Settled') /\ (HoldsSaved(A) => HoldsSaved(A)')
  BY <1>9 DEF Settled, HoldsSaved, SameAvailable
<1>10. CASE Start(p)
  <2>1. pc[p] = Off /\ pc'[p] = <<"open", "installed">> /\ SameAvailable
    BY <1>10 DEF Start, Goto, SameAvailable
  <2> QED
    BY <1>6, <1>7, <1>9, <2>1 DEF Progress
<1>11. ASSUME NEW u \in Table, Open(p, u)
       PROVE  Progress(p)' /\ (pc'[p] \notin Unsettled => Settled')
  <2>1. /\ pc[p] = <<"open", u>> /\ SameAvailable
        /\ pc'[p] = IF file[u] = Absent THEN <<"create", u>> ELSE AfterOpen(u)
    BY <1>11 DEF Open, Goto, SameAvailable
  <2>2. Settled /\ Settled'
    BY <1>7, <1>9, <2>1 DEF Unsettled
  <2>3. file[A] = Absent => acked = Empty
    BY <1>1, <2>2, HeldExists DEF Settled
  <2>4. \/ pc'[p] \in {<<"create", "installed">>, <<"open", A>>, <<"load", A>>}
        \/ pc'[p] = <<"create", A>> /\ file[A] = Absent
    BY <2>1 DEF AfterOpen, Table
  <2>5. Progress(p)'
    BY <2>1, <2>3, <2>4 DEF Progress, SameAvailable
  <2> QED
    BY <2>2, <2>5
<1>12. ASSUME NEW u \in Table, Create(p, u)
       PROVE  Progress(p)' /\ (pc'[p] \notin Unsettled => Settled')
  <2>1. /\ pc[p] = <<"create", u>> /\ pc'[p] = <<"header", u>> /\ acked' = acked
        /\ saved' = saved /\ file' = [file EXCEPT ![u] = Truncated]
    BY <1>12 DEF Create, Goto
  <2>2. CASE u = A
    BY <1>7, <2>1, <2>2 DEF Progress, Unsettled
  <2>3. CASE u # A
    <3>1. SameAvailable /\ u = "installed"
      BY <2>1, <2>3 DEF SameAvailable, Data, Table
    <3> QED
      BY <1>7, <1>9, <2>1, <3>1 DEF Progress, Unsettled
  <2> QED
    BY <2>2, <2>3
<1>13. ASSUME NEW u \in Table, Header(p, u)
       PROVE  Progress(p)' /\ (pc'[p] \notin Unsettled => Settled')
  <2>1. /\ pc[p] = <<"header", u>> /\ pc'[p] = AfterOpen(u) /\ acked' = acked
        /\ saved' = [saved EXCEPT ![u] = Empty]
        /\ file' = [file EXCEPT ![u] = Whole(Contents(Empty, << >>))]
    BY <1>3, <1>13 DEF Header, Goto, WriteFile
  <2>2. pc'[p] \in {<<"open", A>>, <<"load", A>>}
    BY <2>1 DEF AfterOpen
  <2>3. CASE u = A
    <3>1. HoldsSaved(A)'
      BY <1>1, <2>1, <2>3, EmptyIsTable, EmptyOrder, SavedIsHeld
    <3>2. acked' = Empty /\ saved'[A] = Empty
      BY <1>1, <1>7, <2>1, <2>3 DEF Progress, Data
    <3>3. Covers(Empty, Empty)
      BY EmptyIsTable DEF Covers
    <3> QED
      BY <2>2, <3>1, <3>2, <3>3 DEF Progress, Settled
  <2>4. CASE u # A
    <3>1. SameAvailable /\ u = "installed"
      BY <2>1, <2>4 DEF SameAvailable, Data, Table
    <3> QED
      BY <1>7, <1>9, <2>1, <2>2, <3>1 DEF Progress, Unsettled
  <2> QED
    BY <2>3, <2>4
<1>14. ASSUME NEW u \in Table, LoadTable(p, u)
       PROVE  Progress(p)' /\ (pc'[p] \notin Unsettled => Settled')
  <2>1. pc[p] = <<"load", u>> /\ SameAvailable
    BY <1>14 DEF LoadTable, SameAvailable
  <2>2. Settled /\ Settled'
    BY <1>7, <1>9, <2>1 DEF Unsettled
  <2>3. PICK g \in Garbage :
           LET r == Load(file[u], g)
           IN  IF r.ok THEN /\ mem' = [mem EXCEPT ![p][u] = r.table]
                            /\ Goto(p, AfterLoad(u))
                       ELSE Exit(p)
    BY <1>14 DEF LoadTable
  <2>4. CASE ~Load(file[u], g).ok
    <3>1. pc'[p] = Off
      BY <2>3, <2>4 DEF Exit, Goto
    <3> QED
      BY <2>2, <3>1 DEF Progress, Off
  <2>5. CASE Load(file[u], g).ok
    <3>1. /\ mem' = [mem EXCEPT ![p][u] = Load(file[u], g).table]
          /\ pc'[p] = AfterLoad(u)
      BY <2>3, <2>5 DEF Goto
    <3>2. CASE u = A
      <4>1. file[A] # Absent
        <5>1. pc[p] \in After(A)
          BY <2>1, <3>2 DEF After, Table
        <5> QED
          BY <1>1, <5>1 DEF Data
      <4>2. HoldsSaved(A) /\ Covers(saved[A], acked)
        BY <2>2, <4>1 DEF Settled
      <4>3. Load(file[A], g) = [ok |-> TRUE, table |-> Reversed(saved[A])]
        BY <1>1, <4>2, LoadOfSaved
      <4>4. mem'[p][A] = Reversed(saved[A])
        BY <1>1, <3>1, <3>2, <4>3 DEF Data
      <4>5. saved[A] \in Tables
        BY <1>1, <4>2 DEF HoldsSaved, Data
      <4>6. Covers(mem'[p][A], acked')
        BY <2>1, <4>2, <4>4, <4>5, CoversReversed DEF SameAvailable
      <4>7. pc'[p] = <<"load", "installed">>
        BY <3>1, <3>2 DEF AfterLoad
      <4> QED
        BY <2>2, <4>6, <4>7 DEF Progress
    <3>3. CASE u # A
      <4>1. u = "installed" /\ mem'[p][A] = mem[p][A]
        BY <1>1, <3>1, <3>3 DEF Table, Data
      <4>2. Covers(mem'[p][A], acked')
        BY <1>7, <2>1, <4>1 DEF Progress, SameAvailable
      <4>3. pc'[p] = <<"execute", "none">>
        BY <3>1, <4>1 DEF AfterLoad
      <4> QED
        BY <2>2, <4>2, <4>3 DEF Progress
    <3> QED
      BY <3>2, <3>3
  <2> QED
    BY <2>4, <2>5
<1>15. CASE ExecuteLook(p)
  <2>1. pc[p] = <<"execute", "none">> /\ pc'[p] = Off /\ SameAvailable
    BY <1>15 DEF ExecuteLook, Exit, Goto, SameAvailable
  <2> QED
    BY <1>7, <1>9, <2>1 DEF Progress, Off, Unsettled
<1>16. CASE ExecuteAdd(p)
  <2>1. /\ pc[p] = <<"execute", "none">> /\ pc'[p] = <<"truncate", A>>
        /\ SameAvailable /\ cmd' = cmd
        /\ mem'[p][A] = Put(mem[p][A], cmd[p].name, cmd[p].sw)
    BY <1>1, <1>16 DEF ExecuteAdd, Goto, SameAvailable, Data
  <2>2. Covers(mem[p][A], acked)
    BY <1>7, <2>1 DEF Progress
  <2>3. Covers(mem'[p][A], Put(acked, cmd[p].name, cmd[p].sw))
    BY <2>1, <2>2, CoversPut
  <2>4. WithCommand(p)' = Put(acked, cmd[p].name, cmd[p].sw)
    BY <2>1 DEF WithCommand, SameAvailable
  <2> QED
    BY <1>7, <1>9, <2>1, <2>3, <2>4 DEF Progress, Unsettled
<1>17. ASSUME NEW u \in Table, Truncate(p, u)
       PROVE  Progress(p)' /\ (pc'[p] \notin Unsettled => Settled')
  <2>1. /\ pc[p] = <<"truncate", u>> /\ pc'[p] = <<"write", u>>
        /\ file' = [file EXCEPT ![u] = Truncated]
        /\ UNCHANGED <<mem, cmd, acked, saved>>
    BY <1>3, <1>17 DEF Truncate, Goto
  <2>2. WithCommand(p)' = WithCommand(p)
    BY <2>1 DEF WithCommand
  <2>3. CASE u = A
    BY <1>7, <2>1, <2>2, <2>3 DEF Progress, Unsettled
  <2>4. CASE u # A
    <3>1. SameAvailable /\ u = "installed"
      BY <2>1, <2>4 DEF SameAvailable, Data, Table
    <3> QED
      BY <1>7, <1>9, <2>1, <2>2, <3>1 DEF Progress, Unsettled
  <2> QED
    BY <2>3, <2>4
<1>18. ASSUME NEW u \in Table, Write(p, u)
       PROVE  Progress(p)' /\ (pc'[p] \notin Unsettled => Settled')
  <2>1. /\ pc[p] = <<"write", u>> /\ pc'[p] = AfterSave(u)
        /\ saved' = [saved EXCEPT ![u] = mem[p][u]]
        /\ UNCHANGED <<mem, cmd, acked>>
    BY <1>18 DEF Write, Goto
  <2>2. PICK order \in SetToSeqs(DOMAIN mem[p][u]) :
           file' = [file EXCEPT ![u] = Whole(Contents(mem[p][u], order))]
    BY <1>3, <1>18 DEF Write, WriteFile
  <2>3. WithCommand(p)' = WithCommand(p)
    BY <2>1 DEF WithCommand
  <2>4. CASE u = A
    <3>1. mem[p][A] \in Tables
      BY <1>1 DEF Data
    <3>2. HoldsSaved(A)'
      BY <1>1, <2>1, <2>2, <2>4, <3>1, SavedIsHeld
    <3>3. saved'[A] = mem[p][A] /\ pc'[p] = <<"truncate", "installed">>
      BY <1>1, <2>1, <2>4 DEF Data, AfterSave
    <3>4. Covers(saved'[A], WithCommand(p)')
      BY <1>7, <2>1, <2>3, <2>4, <3>3 DEF Progress
    <3> QED
      BY <3>2, <3>3, <3>4 DEF Progress, Unsettled
  <2>5. CASE u # A
    <3>1. SameAvailable /\ u = "installed"
      BY <2>1, <2>2, <2>5 DEF SameAvailable, Data, Table
    <3>2. pc'[p] = <<"report", "none">> /\ saved'[A] = saved[A]
      BY <2>1, <3>1 DEF AfterSave, SameAvailable
    <3>3. HoldsSaved(A) /\ Covers(saved[A], WithCommand(p))
      BY <1>7, <2>1, <3>1 DEF Progress
    <3> QED
      BY <1>9, <2>3, <3>1, <3>2, <3>3 DEF Progress, Unsettled
  <2> QED
    BY <2>4, <2>5
<1>19. CASE Report(p)
  <2>1. /\ pc[p] = <<"report", "none">> /\ pc'[p] = Off
        /\ file' = file /\ saved' = saved /\ acked' = WithCommand(p)
    BY <1>19 DEF Report, Exit, Goto, WithCommand
  <2>2. HoldsSaved(A) /\ Covers(saved[A], WithCommand(p))
    BY <1>7, <2>1 DEF Progress
  <2>3. HoldsSaved(A)'
    BY <2>1, <2>2 DEF HoldsSaved
  <2> QED
    BY <2>1, <2>2, <2>3 DEF Progress, Off, Settled
<1> QED
  BY <1>3, <1>10, <1>11, <1>12, <1>13, <1>14, <1>15, <1>16, <1>17, <1>18, <1>19
  DEF Step

(* The files hold what was reported after any number of such runs.         *)
LEMMA CleanInvariant == Spec => []CleanInv
<1>1. Init => CleanInv
  <2>1. Init => Settled /\ (\A p \in Proc : pc[p] = Off /\ Progress(p))
    BY DEF Init, Settled, Progress, Off, Table
  <2> QED
    BY <2>1 DEF CleanInv
<1>2. DataInv /\ DataInv' /\ CleanInv /\ [Next]_vars => CleanInv'
  BY NextClean
<1> QED
  BY <1>1, <1>2, DataInvariant, PTL DEF Spec

(* As long as runs follow each other without a fault, every software that  *)
(* `ezi add' reported as added is found by any later load, with all its    *)
(* parts, however often it is loaded and saved again and in whatever order *)
(* the buckets are written.                                                *)
THEOREM AckedIsStoredAlways == Spec => []AckedIsStored
<1>1. DataInv /\ CleanInv => AckedIsStored
  <2> SUFFICES ASSUME DataInv, CleanInv, Idle, clean,
                      NEW n \in DOMAIN acked, NEW g \in Garbage
               PROVE  LET r == Load(file["available"], g)
                      IN  /\ r.ok /\ n \in DOMAIN r.table
                          /\ SameTable([m \in {n} |-> r.table[n]],
                                       [m \in {n} |-> acked[n]])
    BY DEF AckedIsStored, AckedIsLoaded
  <2> USE DEF DataInv, Types
  <2>1. Settled
    BY DEF CleanInv, Idle, Off, Unsettled
  <2>2. HoldsSaved("available") /\ Covers(saved["available"], acked)
    BY <2>1, EmptyIsTable DEF Settled
  <2>3. Load(file["available"], g)
           = [ok |-> TRUE, table |-> Reversed(saved["available"])]
    BY <2>2, LoadOfSaved DEF Table
  <2>4. saved["available"] \in Tables
    BY <2>2 DEF HoldsSaved, Data, Table
  <2>5. Covers(Reversed(saved["available"]), acked)
    BY <2>2, <2>4, CoversReversed
  <2> DEFINE u == Reversed(saved["available"])
  <2>6. n \in DOMAIN u /\ SameSoftware(u[n], acked[n])
    BY <2>5 DEF Covers
  <2> HIDE DEF u
  <2>7. SameTable([m \in {n} |-> u[n]], [m \in {n} |-> acked[n]])
    BY <2>6 DEF SameTable, SameSoftware
  <2> QED
    BY <2>3, <2>6, <2>7 DEF u
<1> QED
  BY <1>1, DataInvariant, CleanInvariant, PTL

-----------------------------------------------------------------------------
(* The refinement of the Catalog.                                          *)

(* What the Catalog sees of one process.                                   *)
SeenOf(p) == IF Holding(p) THEN Abstract(mem[p]["available"]) ELSE Absent

(* A reversed sequence has the same elements.                              *)
LEMMA RangeOfReverse ==
    ASSUME NEW S, NEW s \in Seq(S)
    PROVE  Range(Reverse(s)) = Range(s)
<1>1. /\ Reverse(s) \in Seq(S) /\ Len(Reverse(s)) = Len(s)
      /\ \A i \in 1..Len(s) : Reverse(s)[i] = s[(Len(s) - i) + 1]
  BY ReverseFacts
<1>2. /\ DOMAIN s = 1..Len(s) /\ Len(s) \in Nat
      /\ DOMAIN Reverse(s) = 1..Len(s)
  BY <1>1
<1>3. \A i \in 1..Len(s) : /\ (Len(s) - i) + 1 \in 1..Len(s)
                           /\ (Len(s) - ((Len(s) - i) + 1)) + 1 = i
  BY <1>2
<1>4. \A i \in 1..Len(s) : s[i] = Reverse(s)[(Len(s) - i) + 1]
  BY <1>1, <1>3
<1>5. \A x \in Range(s) : x \in Range(Reverse(s))
  BY <1>2, <1>3, <1>4 DEF Range
<1>6. \A x \in Range(Reverse(s)) : x \in Range(s)
  BY <1>1, <1>2, <1>3 DEF Range
<1> QED
  BY <1>5, <1>6

(* The Catalog sees no difference between a table and what a load of its   *)
(* file finds.                                                             *)
LEMMA AbstractOfReversed ==
    ASSUME NEW u \in Tables
    PROVE  /\ u # Absent /\ Reversed(u) # Absent
           /\ Abstract(u) # Absent
           /\ Abstract(Reversed(u)) = Abstract(u)
<1>1. u \in [DOMAIN u -> Software] /\ DOMAIN u \in SUBSET Name
  BY TablesFacts
<1>2. /\ Reversed(u) \in [DOMAIN u -> Software]
      /\ \A n \in DOMAIN u : Unordered(Reversed(u)[n]) = Unordered(u[n])
  <2>1. \A n \in DOMAIN u : u[n].text \in Text /\ u[n].deps \in Seq(Name \cup {Stump})
    BY <1>1 DEF Software
  <2>2. \A n \in DOMAIN u : /\ Reverse(u[n].deps) \in Seq(Name \cup {Stump})
                            /\ Range(Reverse(u[n].deps)) = Range(u[n].deps)
    BY <2>1, ReverseFacts, RangeOfReverse
  <2>3. \A n \in DOMAIN u :
          Reversed(u)[n] = [text |-> u[n].text, deps |-> Reverse(u[n].deps)]
    BY DEF Reversed
  <2>4. ASSUME NEW n \in DOMAIN u PROVE Reversed(u)[n] \in Software
    <3>1. u[n].text \in Text /\ Reverse(u[n].deps) \in Seq(Name \cup {Stump})
      BY <2>1, <2>2
    <3> DEFINE d == Reverse(u[n].deps)
    <3> HIDE DEF d
    <3>2. [text |-> u[n].text, deps |-> d] \in Software
      BY <3>1 DEF Software, d
    <3> QED
      BY <2>3, <3>2 DEF d
  <2>5. Reversed(u) \in [DOMAIN u -> Software]
    BY <2>4 DEF Reversed
  <2> QED
    BY <2>2, <2>3, <2>5 DEF Unordered
<1>3. u # Absent /\ Reversed(u) # Absent
  BY <1>1, <1>2, AbsentAssumption
<1>4. Abstract(u) = [n \in DOMAIN u |-> Unordered(u[n])]
  BY <1>3 DEF Abstract
<1>5. Abstract(Reversed(u)) = [n \in DOMAIN u |-> Unordered(u[n])]
  BY <1>2, <1>3 DEF Abstract
<1>6. \A n \in DOMAIN u : Unordered(u[n]) \in [text : Text, deps : SUBSET (Name \cup {Stump})]
  <2> SUFFICES ASSUME NEW n \in DOMAIN u
               PROVE  u[n].text \in Text /\ Range(u[n].deps) \in SUBSET (Name \cup {Stump})
    BY DEF Unordered
  <2>1. u[n].text \in Text /\ u[n].deps \in Seq(Name \cup {Stump})
    BY <1>1 DEF Software
  <2> QED
    BY <2>1 DEF Range
<1>7. Abstract(u) \in [DOMAIN u -> [text : Text, deps : SUBSET (Name \cup {Stump})]]
  BY <1>4, <1>6
<1> QED
  BY <1>1, <1>3, <1>4, <1>5, <1>7, AbsentAssumption

(* An addition as the Catalog describes it.                                *)
LEMMA AbstractOfPut ==
    ASSUME NEW u \in Tables, NEW a \in Additions
    PROVE  Abstract(Put(u, a.name, a.sw))
             = [n \in DOMAIN Abstract(u) \cup {a.name} |->
                   IF n = a.name THEN Unordered(a.sw) ELSE Abstract(u)[n]]
<1>1. Put(u, a.name, a.sw) \in Tables
  BY AdditionFacts, PutIsTable
<1>2. u # Absent /\ Put(u, a.name, a.sw) # Absent
  BY <1>1, AbstractOfReversed
<1> QED
  BY <1>2 DEF Abstract, Put

(* One process moves: the Catalog sees what happens to it.                 *)
LEMMA SeenMoves ==
    ASSUME Types, NEW p \in Proc, pc' = [pc EXCEPT ![p] = pc'[p]],
           \A q \in Proc \ {p} : mem'[q] = mem[q]
    PROVE  /\ Seen' = [Seen EXCEPT ![p] = SeenOf(p)']
           /\ Seen[p] = SeenOf(p)
           /\ (pc[p] \in {<<"create", "available">>, <<"header", "available">>}
                  <=> pc'[p] \in {<<"create", "available">>, <<"header", "available">>})
                => Fresh' = Fresh
<1>1. \A q \in Proc \ {p} : pc'[q] = pc[q]
  BY DEF Types
<1>2. \A q \in Proc \ {p} : SeenOf(q)' = SeenOf(q)
  BY <1>1 DEF SeenOf, Holding
<1>3. Seen = [q \in Proc |-> SeenOf(q)] /\ Seen' = [q \in Proc |-> SeenOf(q)']
  BY DEF Seen, SeenOf
<1> HIDE DEF Seen, SeenOf
<1>4. Seen' = [Seen EXCEPT ![p] = SeenOf(p)'] /\ Seen[p] = SeenOf(p)
  BY <1>2, <1>3
<1> QED
  BY <1>1, <1>4 DEF Fresh

(* How a step of the Catalog is recognised.                                *)
LEMMA CatalogSteps ==
    ASSUME NEW p \in Proc
    PROVE  /\ UNCHANGED <<Tab, Fresh, Seen>> => UNCHANGED C!vars
           /\ Tab = Absent /\ Fresh' = Fresh \cup {p} /\ UNCHANGED <<Tab, Seen>>
                => C!Next
           /\ p \in Fresh /\ Fresh' = Fresh \ {p} /\ Tab' = C!Nothing /\ UNCHANGED Seen
                => C!Next
           /\ (/\ Tab # Absent /\ Seen[p] = Absent
               /\ Seen' = [Seen EXCEPT ![p] = Tab] /\ UNCHANGED <<Tab, Fresh>>)
                => C!Next
           /\ (/\ Seen[p] # Absent /\ Tab' = Seen[p]
               /\ Seen' = [Seen EXCEPT ![p] = Absent] /\ UNCHANGED Fresh)
                => C!Next
           /\ Seen' = [Seen EXCEPT ![p] = Absent] /\ UNCHANGED <<Tab, Fresh>>
                => C!Next
<1>1. UNCHANGED <<Tab, Fresh, Seen>> => UNCHANGED C!vars
  BY DEF C!vars
<1>2. Tab = Absent /\ Fresh' = Fresh \cup {p} /\ UNCHANGED <<Tab, Seen>> => C!FindNone(p)
  BY DEF C!FindNone
<1>3. p \in Fresh /\ Fresh' = Fresh \ {p} /\ Tab' = C!Nothing /\ UNCHANGED Seen => C!Begin(p)
  BY DEF C!Begin
<1>4. (/\ Tab # Absent /\ Seen[p] = Absent
       /\ Seen' = [Seen EXCEPT ![p] = Tab] /\ UNCHANGED <<Tab, Fresh>>)
        => C!Take(p)
  BY DEF C!Take
<1>5. (/\ Seen[p] # Absent /\ Tab' = Seen[p]
       /\ Seen' = [Seen EXCEPT ![p] = Absent] /\ UNCHANGED Fresh)
        => C!Replace(p)
  BY DEF C!Replace
<1>6. Seen' = [Seen EXCEPT ![p] = Absent] /\ UNCHANGED <<Tab, Fresh>> => C!Leave(p)
  BY DEF C!Leave
<1> QED
  BY <1>1, <1>2, <1>3, <1>4, <1>5, <1>6 DEF C!Next

(* The same of the insertion of an addition.                               *)
LEMMA CatalogInsert ==
    ASSUME NEW p \in Proc, NEW a \in Additions, Seen[p] # Absent,
           Seen' = [Seen EXCEPT ![p] =
                       [n \in DOMAIN Seen[p] \cup {a.name} |->
                           IF n = a.name THEN Unordered(a.sw) ELSE Seen[p][n]]],
           UNCHANGED <<Tab, Fresh>>
    PROVE  C!Next
<1> DEFINE e == [name |-> a.name, value |-> Unordered(a.sw)]
<1>1. e \in {[name |-> b.name, value |-> Unordered(b.sw)] : b \in Additions}
  OBVIOUS
<1>2. e.name = a.name /\ e.value = Unordered(a.sw)
  OBVIOUS
<1>3. Seen' = [Seen EXCEPT ![p] =
                  [n \in DOMAIN Seen[p] \cup {e.name} |->
                      IF n = e.name THEN e.value ELSE Seen[p][n]]]
  BY <1>2
<1> HIDE DEF e
<1>4. C!Insert(p)
  BY <1>1, <1>3 DEF C!Insert
<1> QED
  BY <1>4 DEF C!Next

(* The calls of a process that do not concern the Catalog.                 *)
LEMMA CatalogStutter ==
    ASSUME Types, NEW p \in Proc, pc' = [pc EXCEPT ![p] = pc'[p]],
           \A q \in Proc \ {p} : mem'[q] = mem[q],
           saved'["available"] = saved["available"],
           pc[p] \in {<<"create", "available">>, <<"header", "available">>}
               <=> pc'[p] \in {<<"create", "available">>, <<"header", "available">>},
           Holding(p)' <=> Holding(p),
           Holding(p) => mem'[p]["available"] = mem[p]["available"]
    PROVE  UNCHANGED C!vars
<1>1. /\ Seen' = [Seen EXCEPT ![p] = SeenOf(p)'] /\ Seen[p] = SeenOf(p)
      /\ Fresh' = Fresh
  BY SeenMoves
<1>2. SeenOf(p)' = SeenOf(p)
  <2>1. Holding(p) => Abstract(mem'[p]["available"]) = Abstract(mem[p]["available"])
    OBVIOUS
  <2> QED
    BY <2>1 DEF SeenOf
<1>3. Seen' = Seen
  BY <1>1, <1>2 DEF Seen
<1>4. Tab' = Tab
  BY DEF Tab, Abstract
<1> QED
  BY <1>1, <1>3, <1>4, CatalogSteps

(* A process that ends leaves the Catalog.                                 *)
LEMMA CatalogExit ==
    ASSUME Types, MemoryOK, NEW p \in Proc, Exit(p),
           pc[p] \notin {<<"create", "available">>, <<"header", "available">>},
           saved'["available"] = saved["available"]
    PROVE  C!Next
<1>1. /\ pc' = [pc EXCEPT ![p] = Off] /\ pc'[p] = Off
      /\ \A q \in Proc \ {p} : mem'[q] = mem[q]
  BY DEF Exit, Goto, Types, MemoryOK
<1>2. pc' = [pc EXCEPT ![p] = pc'[p]]
  BY <1>1
<1>3. SeenOf(p)' = Absent
  BY <1>1 DEF SeenOf, Holding, Off
<1>4. pc'[p] \notin {<<"create", "available">>, <<"header", "available">>}
  BY <1>1 DEF Off
<1>5. Seen' = [Seen EXCEPT ![p] = Absent] /\ Fresh' = Fresh
  BY <1>1, <1>2, <1>3, <1>4, SeenMoves
<1>6. Tab' = Tab
  BY DEF Tab, Abstract
<1> QED
  BY <1>5, <1>6, CatalogSteps

(* Every step of the runs is one of the Catalog or leaves it as it is.     *)
LEMMA NextCatalog ==
    ASSUME ~Faults, DataInv, DataInv', QuietInv, [Next]_vars
    PROVE  [C!Next]_(C!vars)
<1> USE DEF DataInv, Types
<1> DEFINE A == "available"
<1>1. A \in Table /\ "installed" \in Table
  BY DEF Table
<1>2. MemoryOK /\ MemoryOK'
  BY DEF Data, MemoryOK
<1>3. CASE UNCHANGED vars
  <2>1. /\ pc' = pc /\ mem' = mem /\ saved' = saved
    BY <1>3 DEF vars
  <2>2. UNCHANGED <<Tab, Fresh, Seen>>
    BY <2>1 DEF Tab, Fresh, Seen, Abstract, Holding
  <2> QED
    BY <2>2 DEF C!vars
<1>4. SUFFICES ASSUME NEW p \in Proc, Start(p) \/ Step(p)
               PROVE  C!Next \/ UNCHANGED C!vars
  <2>1. \A p \in Proc : ~Kill(p)
    BY DEF Kill
  <2> QED
    BY <1>3, <2>1 DEF Next
<1>5. pc' = [pc EXCEPT ![p] = pc'[p]]
  <2>1. CASE Start(p)
    BY <2>1 DEF Start, Goto
  <2> QED
    BY <1>4, <2>1, StepMoves DEF Moves
<1>6. CASE Start(p)
  <2>1. /\ pc[p] = Off /\ pc'[p] = <<"open", "installed">>
        /\ mem' = mem /\ saved' = saved
    BY <1>6 DEF Start, Goto, Off
  <2> QED
    BY <1>5, <2>1, CatalogStutter DEF Holding, Off
<1>7. ASSUME NEW u \in Table, Open(p, u)
      PROVE  C!Next \/ UNCHANGED C!vars
  <2>1. /\ pc[p] = <<"open", u>> /\ mem' = mem /\ saved' = saved
        /\ pc'[p] = IF file[u] = Absent THEN <<"create", u>> ELSE AfterOpen(u)
    BY <1>7 DEF Open, Goto
  <2>2. CASE u = A /\ file[A] = Absent
    <3>1. saved[A] = Absent
      <4>1. ~HoldsSaved(A)
        BY <1>1, <2>2, HeldExists
      <4>2. ~Pending(A)
        <5>1. Truncated # Absent
          BY TruncatedIsWritten, WrittenFacts
        <5> QED
          BY <2>2, <5>1 DEF Pending
      <4> QED
        BY <1>1, <4>1, <4>2 DEF QuietInv
    <3>2. pc'[p] = <<"create", A>>
      BY <2>1, <2>2
    <3>3. Seen' = [Seen EXCEPT ![p] = SeenOf(p)'] /\ Seen[p] = SeenOf(p)
      BY <1>5, <2>1, SeenMoves
    <3>4. SeenOf(p)' = Absent /\ SeenOf(p) = Absent
      BY <2>1, <2>2, <3>2 DEF SeenOf, Holding
    <3>5. Seen' = Seen
      BY <3>3, <3>4 DEF Seen
    <3>6. Fresh' = Fresh \cup {p}
      BY <1>5, <3>2 DEF Fresh
    <3>7. Tab = Absent /\ Tab' = Tab
      BY <2>1, <3>1 DEF Tab, Abstract
    <3> QED
      BY <3>5, <3>6, <3>7, CatalogSteps
  <2>3. CASE ~(u = A /\ file[A] = Absent)
    <3>1. pc'[p] \in {<<"create", "installed">>, <<"open", A>>, <<"load", A>>}
      BY <2>1, <2>3 DEF AfterOpen, Table
    <3> QED
      BY <1>5, <2>1, <3>1, CatalogStutter DEF Holding
  <2> QED
    BY <2>2, <2>3
<1>8. ASSUME NEW u \in Table, Create(p, u)
      PROVE  C!Next \/ UNCHANGED C!vars
  <2>1. /\ pc[p] = <<"create", u>> /\ pc'[p] = <<"header", u>>
        /\ mem' = mem /\ saved' = saved
    BY <1>8 DEF Create, Goto
  <2> QED
    BY <1>5, <2>1, CatalogStutter DEF Holding
<1>9. ASSUME NEW u \in Table, Header(p, u)
      PROVE  C!Next \/ UNCHANGED C!vars
  <2>1. /\ pc[p] = <<"header", u>> /\ pc'[p] = AfterOpen(u)
        /\ mem' = mem /\ saved' = [saved EXCEPT ![u] = Empty]
    BY <1>9 DEF Header, Goto
  <2>2. CASE u = A
    <3>1. pc'[p] = <<"load", A>> /\ saved'[A] = Empty
      BY <1>1, <2>1, <2>2 DEF AfterOpen, Data
    <3>2. Seen' = [Seen EXCEPT ![p] = SeenOf(p)'] /\ Seen[p] = SeenOf(p)
      BY <1>5, <2>1, SeenMoves
    <3>3. SeenOf(p)' = Absent /\ SeenOf(p) = Absent
      BY <2>1, <2>2, <3>1 DEF SeenOf, Holding
    <3>4. Seen' = Seen
      BY <3>2, <3>3 DEF Seen
    <3>5. p \in Fresh /\ Fresh' = Fresh \ {p}
      BY <1>5, <2>1, <2>2, <3>1 DEF Fresh
    <3>6. Tab' = C!Nothing
      <4>1. Empty # Absent
        BY EmptyIsTable, AbstractOfReversed
      <4> QED
        BY <3>1, <4>1 DEF Tab, Abstract, Empty, C!Nothing
    <3> QED
      BY <3>4, <3>5, <3>6, CatalogSteps
  <2>3. CASE u # A
    <3>1. u = "installed" /\ pc'[p] = <<"open", A>> /\ saved'[A] = saved[A]
      BY <1>1, <2>1, <2>3 DEF AfterOpen, Table, Data
    <3> QED
      BY <1>5, <2>1, <3>1, CatalogStutter DEF Holding
  <2> QED
    BY <2>2, <2>3
<1>10. ASSUME NEW u \in Table, LoadTable(p, u)
       PROVE  C!Next \/ UNCHANGED C!vars
  <2>1. PICK g \in Garbage :
           IF Load(file[u], g).ok
           THEN /\ mem' = [mem EXCEPT ![p][u] = Load(file[u], g).table]
                /\ Goto(p, AfterLoad(u))
                /\ UNCHANGED cmd
           ELSE Exit(p)
    BY <1>10 DEF LoadTable
  <2>2. pc[p] = <<"load", u>> /\ saved' = saved
    BY <1>10 DEF LoadTable
  <2>3. CASE ~Load(file[u], g).ok
    <3>1. Exit(p)
      BY <2>1, <2>3
    <3> QED
      BY <1>2, <2>2, <3>1, CatalogExit
  <2>4. CASE Load(file[u], g).ok /\ u = A
    <3>1. /\ mem' = [mem EXCEPT ![p][A] = Load(file[A], g).table]
          /\ pc'[p] = <<"load", "installed">>
      BY <2>1, <2>4 DEF Goto, AfterLoad
    <3>2. HoldsSaved(A)
      <4>1. file[A] # Absent
        <5>1. pc[p] \in After(A)
          BY <2>2, <2>4 DEF After, Table
        <5> QED
          BY <1>1, <5>1 DEF Data
      <4>2. ~Pending(A)
        BY <2>4, LoadOfTruncated DEF Pending
      <4> QED
        BY <1>1, <4>1, <4>2 DEF QuietInv
    <3>3. saved[A] \in Tables
      BY <1>1, <3>2 DEF HoldsSaved, Data
    <3>4. mem'[p][A] = Reversed(saved[A])
      <4>1. Load(file[A], g) = [ok |-> TRUE, table |-> Reversed(saved[A])]
        BY <1>1, <3>2, LoadOfSaved
      <4>2. Load(file[A], g).table = Reversed(saved[A])
        BY <4>1
      <4> QED
        BY <1>1, <1>2, <3>1, <4>2 DEF MemoryOK
    <3>5. Abstract(mem'[p][A]) = Tab /\ Tab # Absent
      BY <3>3, <3>4, AbstractOfReversed DEF Tab
    <3>6. \A q \in Proc \ {p} : mem'[q] = mem[q]
      BY <1>2, <3>1 DEF MemoryOK
    <3>7. /\ Seen' = [Seen EXCEPT ![p] = SeenOf(p)'] /\ Seen[p] = SeenOf(p)
          /\ Fresh' = Fresh
      BY <1>5, <2>2, <2>4, <3>1, <3>6, SeenMoves
    <3>8. SeenOf(p)' = Tab /\ SeenOf(p) = Absent
      BY <2>2, <2>4, <3>1, <3>5 DEF SeenOf, Holding
    <3>9. Tab' = Tab
      BY <2>2 DEF Tab, Abstract
    <3> QED
      BY <3>5, <3>7, <3>8, <3>9, CatalogSteps
  <2>5. CASE Load(file[u], g).ok /\ u # A
    <3>1. u = "installed" /\ pc'[p] = <<"execute", "none">>
      BY <2>1, <2>5 DEF Goto, AfterLoad, Table
    <3>2. /\ \A q \in Proc \ {p} : mem'[q] = mem[q]
          /\ mem'[p][A] = mem[p][A]
      BY <1>1, <1>2, <2>1, <2>5 DEF MemoryOK
    <3> QED
      BY <1>5, <2>2, <3>1, <3>2, CatalogStutter DEF Holding
  <2> QED
    BY <2>3, <2>4, <2>5
<1>11. CASE ExecuteLook(p)
  <2>1. pc[p] = <<"execute", "none">> /\ Exit(p) /\ saved' = saved
    BY <1>11 DEF ExecuteLook
  <2> QED
    BY <1>2, <2>1, CatalogExit
<1>12. CASE ExecuteAdd(p)
  <2> DEFINE a == cmd[p]
  <2>1. /\ pc[p] = <<"execute", "none">> /\ pc'[p] = <<"truncate", A>>
        /\ a \in Additions /\ saved' = saved
        /\ mem' = [mem EXCEPT ![p][A] = Put(mem[p][A], a.name, a.sw)]
    BY <1>12 DEF ExecuteAdd, Goto
  <2>2. mem[p][A] \in Tables
    BY <1>1, <1>2 DEF MemoryOK
  <2>3. /\ \A q \in Proc \ {p} : mem'[q] = mem[q]
        /\ mem'[p][A] = Put(mem[p][A], a.name, a.sw)
    BY <1>1, <1>2, <2>1 DEF MemoryOK
  <2>4. /\ Seen' = [Seen EXCEPT ![p] = SeenOf(p)'] /\ Seen[p] = SeenOf(p)
        /\ Fresh' = Fresh
    BY <1>5, <2>1, <2>3, SeenMoves
  <2>5. SeenOf(p) = Abstract(mem[p][A]) /\ SeenOf(p)' = Abstract(mem'[p][A])
    BY <2>1 DEF SeenOf, Holding
  <2>6. Abstract(mem[p][A]) # Absent
    BY <2>2, AbstractOfReversed
  <2> HIDE DEF a
  <2>7. Abstract(Put(mem[p][A], a.name, a.sw))
          = [n \in DOMAIN Abstract(mem[p][A]) \cup {a.name} |->
                IF n = a.name THEN Unordered(a.sw) ELSE Abstract(mem[p][A])[n]]
    BY <2>1, <2>2, AbstractOfPut
  <2>8. Tab' = Tab
    BY <2>1 DEF Tab, Abstract
  <2>9. SeenOf(p)' = [n \in DOMAIN Seen[p] \cup {a.name} |->
                         IF n = a.name THEN Unordered(a.sw) ELSE Seen[p][n]]
    BY <2>3, <2>4, <2>5, <2>7
  <2>10. a \in Additions /\ Seen[p] # Absent
    BY <2>1, <2>4, <2>5, <2>6
  <2> QED
    BY <2>4, <2>8, <2>9, <2>10, CatalogInsert
<1>13. ASSUME NEW u \in Table, Truncate(p, u)
       PROVE  C!Next \/ UNCHANGED C!vars
  <2>1. /\ pc[p] = <<"truncate", u>> /\ pc'[p] = <<"write", u>>
        /\ mem' = mem /\ saved' = saved
    BY <1>13 DEF Truncate, Goto
  <2> QED
    BY <1>5, <2>1, CatalogStutter DEF Holding, Table
<1>14. ASSUME NEW u \in Table, Write(p, u)
       PROVE  C!Next \/ UNCHANGED C!vars
  <2>1. /\ pc[p] = <<"write", u>> /\ pc'[p] = AfterSave(u)
        /\ mem' = mem /\ saved' = [saved EXCEPT ![u] = mem[p][u]]
    BY <1>14 DEF Write, Goto
  <2>2. CASE u = A
    <3>1. pc'[p] = <<"truncate", "installed">> /\ saved'[A] = mem[p][A]
      BY <1>1, <2>1, <2>2 DEF AfterSave, Data
    <3>2. mem[p][A] \in Tables
      BY <1>1, <1>2 DEF MemoryOK
    <3>3. /\ Seen' = [Seen EXCEPT ![p] = SeenOf(p)'] /\ Seen[p] = SeenOf(p)
          /\ Fresh' = Fresh
      BY <1>5, <2>1, <2>2, <3>1, SeenMoves
    <3>4. SeenOf(p)' = Absent /\ SeenOf(p) = Abstract(mem[p][A])
      BY <2>1, <2>2, <3>1 DEF SeenOf, Holding
    <3>5. Abstract(mem[p][A]) # Absent
      BY <3>2, AbstractOfReversed
    <3>6. Tab' = Abstract(mem[p][A])
      BY <3>1 DEF Tab, Abstract
    <3> QED
      BY <3>3, <3>4, <3>5, <3>6, CatalogSteps
  <2>3. CASE u # A
    <3>1. u = "installed" /\ pc'[p] = <<"report", "none">> /\ saved'[A] = saved[A]
      BY <1>1, <2>1, <2>3 DEF AfterSave, Table, Data
    <3> QED
      BY <1>5, <2>1, <3>1, CatalogStutter DEF Holding
  <2> QED
    BY <2>2, <2>3
<1>15. CASE Report(p)
  <2>1. pc[p] = <<"report", "none">> /\ Exit(p) /\ saved' = saved
    BY <1>15 DEF Report
  <2> QED
    BY <1>2, <2>1, CatalogExit
<1> QED
  BY <1>4, <1>6, <1>7, <1>8, <1>9, <1>10, <1>11, <1>12, <1>13, <1>14, <1>15 DEF Step

(* Without faults the runs, however many and however they interleave,      *)
(* implement the Catalog: a run takes the whole table that was last        *)
(* written or none, and replaces the whole table.                          *)
THEOREM RunsRefineCatalog == ASSUME ~Faults PROVE Spec => RefinesCatalog
<1>1. Init => C!Init
  <2> SUFFICES ASSUME Init PROVE C!Init
    OBVIOUS
  <2>1. saved["available"] = Absent /\ \A p \in Proc : pc[p] = Off
    BY DEF Init, Table
  <2>2. Tab = Absent
    BY <2>1 DEF Tab, Abstract
  <2>3. Fresh = {}
    BY <2>1 DEF Fresh, Off
  <2>4. Seen = [p \in Proc |-> Absent]
    BY <2>1 DEF Seen, Holding, Off
  <2> QED
    BY <2>2, <2>3, <2>4 DEF C!Init
<1>2. DataInv /\ DataInv' /\ QuietInv /\ [Next]_vars => [C!Next]_(C!vars)
  BY NextCatalog
<1> QED
  BY <1>1, <1>2, DataInvariant, QuietInvariant, PTL DEF Spec, RefinesCatalog, C!Spec
=============================================================================
