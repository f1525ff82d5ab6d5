----------------------------- MODULE AppProofs -----------------------------
(***************************************************************************)
(* Proofs that a process frees and closes on every path what it should,    *)
(* for any command line, any number and order of records and dependencies, *)
(* and any number of allocations that fail.                                *)
(***************************************************************************)
EXTENDS App, SequenceTheorems, FiniteSetTheorems, TLAPS

-----------------------------------------------------------------------------
(* Where a process is decides which files are open, and whether the record *)
(* on the stack has a name.                                                *)
Early   == {"parse", "open", "init"}
Running == {"load", "records", "read", "drop", "export", "dispatch", "execute",
            "options", "tokens", "save"}
Late    == {"returned", "destroy", "end"}

(* What an initialisation that failed may leave open.                      *)
LeftOpen == failures > 0 \/ streams = {} \/ (streams = {"installed"} /\ ~smooth)

Where ==
    /\ at \in Early \cup Running \cup Late
    /\ tbl \in Table
    /\ inited \in BOOLEAN
    /\ at \in Early => ~inited
    /\ at \in Running => inited
    /\ at = "parse" => tbl = "commands"
    /\ at \in {"open", "init", "load", "records", "read", "drop"} => tbl \in Source
    /\ at = "destroy" /\ tbl \in Source => inited
    /\ at = "end" /\ inited => tbl = "installed"
    /\ at = "end" /\ ~inited => tbl = "commands"

Named ==
    /\ line \in Lines
    /\ at = "export" => left \in 1..5
    /\ at \in {"read", "tokens"} => key \in Software
    /\ at \in {"open", "init"} \cup Running => line # << >>
    /\ at = "options" =>
          /\ left \in Nat \ {0} /\ line[1] = "add"
          /\ "-n" \in opts => key \in Software

Opened ==
    /\ failures \in Nat
    /\ at = "parse" => streams = {}
    /\ at = "open" => streams = IF tbl = "installed" THEN {} ELSE {"installed"}
    /\ at = "init" \/ at \in Running => streams = Source
    /\ at = "returned" => IF inited THEN streams = Source ELSE LeftOpen
    /\ at = "destroy" =>
          IF tbl = "installed" THEN streams = {"installed"}
          ELSE IF inited THEN streams = Source ELSE LeftOpen
    /\ at = "end" => LeftOpen

Control == Where /\ Named /\ Opened

LEMMA MemoryCounts ==
    ASSUME failures \in Nat, NEW n, NEW m, NEW S, Memory(n, m, S)
    PROVE  /\ failures' \in Nat /\ (failures > 0 => failures' > 0)
           /\ n # m => failures' > 0
  BY DEF Memory

LEMMA ParseControl ==
    ASSUME Control, Parse
    PROVE  Control'
<1>1. Where'
  BY DEF Control, Where, Parse, Fail, outcome, tables, record, files, memory,
       Table, Source, Early, Running, Late
<1>2. Named'
  BY DEF Control, Where, Named, Parse, Fail, outcome, tables, record, files,
       memory, Early, Running, Late
<1>3. Opened'
  BY MemoryCounts DEF Control, Where, Opened, LeftOpen, Parse, Fail, outcome,
       tables, record, files, memory, Source, Early, Running, Late
<1> QED
  BY <1>1, <1>2, <1>3 DEF Control

LEMMA InitCommandsControl ==
    ASSUME Control, InitCommands
    PROVE  Control'
<1>1. Where'
  BY DEF Control, Where, InitCommands, Goto, Fail, outcome, record, files,
       Table, Source, Early, Running, Late
<1>2. Named'
  BY DEF Control, Where, Named, InitCommands, Goto, Fail, outcome, record,
       files, Early, Running, Late
<1>3. Opened'
  BY MemoryCounts DEF Control, Where, Opened, LeftOpen, InitCommands, Goto,
       Fail, outcome, record, files, Source, Early, Running, Late
<1> QED
  BY <1>1, <1>2, <1>3 DEF Control

LEMMA OpenControl ==
    ASSUME Control, Open
    PROVE  Control'
<1>1. Where'
  BY DEF Control, Where, Open, Fail, tables, record, memory, Table, Source,
       Early, Running, Late
<1>2. Named'
  BY DEF Control, Where, Named, Open, Fail, tables, record, memory, Early,
       Running, Late
<1>3. Opened'
  BY DEF Control, Where, Opened, LeftOpen, Open, Fail, tables, record, memory,
       Source, Early, Running, Late
<1> QED
  BY <1>1, <1>2, <1>3 DEF Control

LEMMA InitTableControl ==
    ASSUME Control, InitTable
    PROVE  Control'
<1>1. Where'
  BY DEF Control, Where, InitTable, Goto, Fail, outcome, record, files, Table,
       Source, Early, Running, Late
<1>2. Named'
  BY DEF Control, Where, Named, InitTable, Goto, Fail, outcome, record, files,
       Early, Running, Late
<1>3. Opened'
  BY MemoryCounts DEF Control, Where, Opened, LeftOpen, InitTable, Goto, Fail,
       outcome, record, files, Source, Early, Running, Late
<1> QED
  BY <1>1, <1>2, <1>3 DEF Control

LEMMA ReadHeaderControl ==
    ASSUME Control, ReadHeader
    PROVE  Control'
<1>1. Where'
  BY DEF Control, Where, ReadHeader, Goto, Fail, outcome, tables, record,
       memory, Table, Source, Early, Running, Late
<1>2. Named'
  BY DEF Control, Where, Named, ReadHeader, Goto, Fail, outcome, tables,
       record, memory, Early, Running, Late
<1>3. Opened'
  BY MemoryCounts DEF Control, Where, Opened, LeftOpen, ReadHeader, Goto,
       Fail, outcome, tables, record, memory, Source, Early, Running, Late
<1> QED
  BY <1>1, <1>2, <1>3 DEF Control

LEMMA EndRecordsControl ==
    ASSUME Control, EndRecords
    PROVE  Control'
<1>1. Where'
  BY DEF Control, Where, EndRecords, Goto, outcome, tables, record, memory,
       Table, Source, Early, Running, Late
<1>2. Named'
  BY DEF Control, Where, Named, EndRecords, Goto, outcome, tables, record,
       memory, Early, Running, Late
<1>3. Opened'
  BY DEF Control, Where, Opened, LeftOpen, EndRecords, Goto, outcome, tables,
       record, memory, Source, Early, Running, Late
<1> QED
  BY <1>1, <1>2, <1>3 DEF Control

LEMMA ReadRecordControl ==
    ASSUME Control, ReadRecord
    PROVE  Control'
<1>1. Where'
  BY DEF Control, Where, ReadRecord, Goto, outcome, tables, memory, Table,
       Source, Early, Running, Late
<1>2. Named'
  BY DEF Control, Where, Named, ReadRecord, Goto, outcome, tables, memory,
       Early, Running, Late
<1>3. Opened'
  BY DEF Control, Where, Opened, LeftOpen, ReadRecord, Goto, outcome, tables,
       memory, Source, Early, Running, Late
<1> QED
  BY <1>1, <1>2, <1>3 DEF Control

LEMMA ReadDependencyControl ==
    ASSUME Control, ReadDependency
    PROVE  Control'
<1>1. Where'
  BY DEF Control, Where, ReadDependency, tables, Table, Source, Early,
       Running, Late
<1>2. Named'
  BY DEF Control, Where, Named, ReadDependency, tables, Early, Running, Late
<1>3. Opened'
  BY MemoryCounts DEF Control, Where, Opened, LeftOpen, ReadDependency,
       tables, Source, Early, Running, Late
<1> QED
  BY <1>1, <1>2, <1>3 DEF Control

LEMMA StoreRecordControl ==
    ASSUME Control, StoreRecord
    PROVE  Control'
<1>1. Where'
  BY DEF Control, Where, StoreRecord, Goto, outcome, tables, record, files,
       Table, Source, Early, Running, Late
<1>2. Named'
  BY DEF Control, Where, Named, StoreRecord, Goto, outcome, tables, record,
       files, Early, Running, Late
<1>3. Opened'
  BY MemoryCounts DEF Control, Where, Opened, LeftOpen, StoreRecord, Goto,
       Stores, FailsToStore, outcome, tables, record, files, Source, Early,
       Running, Late
<1> QED
  BY <1>1, <1>2, <1>3 DEF Control

LEMMA DropControl ==
    ASSUME Control, Drop
    PROVE  Control'
<1>1. Where'
  BY DEF Control, Where, Drop, Fail, record, files, Table, Source, Early,
       Running, Late
<1>2. Named'
  BY DEF Control, Where, Named, Drop, Fail, record, files, Early, Running,
       Late
<1>3. Opened'
  BY MemoryCounts DEF Control, Where, Opened, LeftOpen, Drop, Fail, FreeTable,
       record, files, Source, Early, Running, Late
<1> QED
  BY <1>1, <1>2, <1>3 DEF Control

LEMMA ExportControl ==
    ASSUME Control, Export
    PROVE  Control'
<1>1. Where'
  BY DEF Control, Where, Export, tables, record, files, Table, Source, Early,
       Running, Late
<1>2. Named'
  BY DEF Control, Where, Named, Export, tables, record, files, Early, Running,
       Late
<1>3. Opened'
  BY MemoryCounts DEF Control, Where, Opened, LeftOpen, Export, Stores,
       FailsToStore, tables, record, files, Source, Early, Running, Late
<1> QED
  BY <1>1, <1>2, <1>3 DEF Control

LEMMA DispatchControl ==
    ASSUME Control, Dispatch
    PROVE  Control'
<1>1. Where'
  BY DEF Control, Where, Dispatch, Goto, FailsWith, outcome, tables, record,
       files, memory, Table, Source, Early, Running, Late
<1>2. Named'
  BY DEF Control, Where, Named, Dispatch, Goto, FailsWith, outcome, tables,
       record, files, memory, Early, Running, Late
<1>3. Opened'
  BY DEF Control, Where, Opened, LeftOpen, Dispatch, Goto, FailsWith, outcome,
       tables, record, files, memory, Source, Early, Running, Late
<1> QED
  BY <1>1, <1>2, <1>3 DEF Control

LEMMA EchoControl ==
    ASSUME Control, Echo
    PROVE  Control'
<1>1. Where'
  BY DEF Control, Where, Echo, Succeeds, Execute, tables, memory, Table,
       Source, Early, Running, Late
<1>2. Named'
  BY DEF Control, Where, Named, Echo, Succeeds, Execute, tables, memory,
       Early, Running, Late
<1>3. Opened'
  BY DEF Control, Where, Opened, LeftOpen, Echo, Succeeds, Execute, tables,
       memory, Source, Early, Running, Late
<1> QED
  BY <1>1, <1>2, <1>3 DEF Control

LEMMA ListTableControl ==
    ASSUME Control, ListTable
    PROVE  Control'
<1>1. Where'
  BY DEF Control, Where, ListTable, FailsWith, Succeeds, Execute, tables,
       memory, Table, Source, Early, Running, Late
<1>2. Named'
  BY DEF Control, Where, Named, ListTable, FailsWith, Succeeds, Execute,
       tables, memory, Early, Running, Late
<1>3. Opened'
  BY DEF Control, Where, Opened, LeftOpen, ListTable, FailsWith, Succeeds,
       Execute, tables, memory, Source, Early, Running, Late
<1> QED
  BY <1>1, <1>2, <1>3 DEF Control

LEMMA UsageControl ==
    ASSUME Control, Usage
    PROVE  Control'
<1>1. Where'
  BY DEF Control, Where, Usage, FailsWith, Succeeds, Execute, tables, memory,
       Table, Source, Early, Running, Late
<1>2. Named'
  BY DEF Control, Where, Named, Usage, FailsWith, Succeeds, Execute, tables,
       memory, Early, Running, Late
<1>3. Opened'
  BY DEF Control, Where, Opened, LeftOpen, Usage, FailsWith, Succeeds,
       Execute, tables, memory, Source, Early, Running, Late
<1> QED
  BY <1>1, <1>2, <1>3 DEF Control

LEMMA InstallSoftwareControl ==
    ASSUME Control, InstallSoftware
    PROVE  Control'
<1>1. Where'
  BY DEF Control, Where, InstallSoftware, FailsWith, Succeeds, Execute,
       tables, memory, Table, Source, Early, Running, Late
<1>2. Named'
  BY DEF Control, Where, Named, InstallSoftware, FailsWith, Succeeds, Execute,
       tables, memory, Early, Running, Late
<1>3. Opened'
  BY DEF Control, Where, Opened, LeftOpen, InstallSoftware, FailsWith,
       Succeeds, Execute, tables, memory, Source, Early, Running, Late
<1> QED
  BY <1>1, <1>2, <1>3 DEF Control

LEMMA AddControl ==
    ASSUME Control, Add
    PROVE  Control'
<1>1. Where'
  BY DEF Control, Where, Add, Execute, outcome, tables, memory, Table, Source,
       Early, Running, Late
<1>2. Named'
  BY DEF Control, Where, Named, Add, Execute, Name, outcome, tables, memory,
       Early, Running, Late
<1>3. Opened'
  BY DEF Control, Where, Opened, LeftOpen, Add, Execute, outcome, tables,
       memory, Source, Early, Running, Late
<1> QED
  BY <1>1, <1>2, <1>3 DEF Control

(* The name of what is added is the word behind "-n".                      *)
LEMMA OptionsControl ==
    ASSUME Control, Options
    PROVE  Control'
<1>1. at = "options" /\ UNCHANGED <<line, tbl, inited, streams, failures, smooth>>
  BY DEF Options, memory, tables, files
<1>2. line \in Seq({line[i] : i \in DOMAIN line}) /\ line # << >>
  BY <1>1, LinesAssumption DEF Control, Named, Running
<1>3. /\ Len(Args) = Len(line) - 1 /\ Len(line) \in Nat
      /\ \A i \in 1..Len(Args) : Args[i] = line[i + 1]
  BY <1>2, HeadTailProperties, LenProperties DEF Args
<1>4. at' \in {"options", "tokens", "returned"}
  BY <1>1 DEF Options, TakeOption, SkipWord, RejectOption, EndOptions, FailsWith, outcome
<1>5. Where'
  BY <1>1, <1>4 DEF Control, Where, Early, Running, Late
<1>6. Opened'
  BY <1>1, <1>4 DEF Control, Where, Opened, Early, Running
<1>7. /\ line \in Lines /\ line # << >> /\ line[1] = "add"
      /\ left \in Nat \ {0} /\ ("-n" \in opts => key \in Software)
  BY <1>1 DEF Control, Named, Running
<1>8. ASSUME TakeOption
      PROVE  Named'
  <2>1. left + 1 \in 1..Len(Args) /\ left + 2 \in 2..Len(line)
    BY <1>3, <1>7, <1>8 DEF TakeOption
  <2>2. Args[left] = line[left + 1] /\ Args[left + 1] = line[left + 2]
    BY <1>3, <1>7, <2>1
  <2>3. Args[left] = "-n" => Args[left + 1] \in Software
    <3>1. (left + 2) - 1 = left + 1
      BY <1>7
    <3>2. line[(left + 2) - 1] = "-n" => line[left + 2] \in Software
      BY <1>7, <2>1, LinesAssumption
    <3> QED
      BY <2>2, <3>1, <3>2
  <2> QED
    BY <1>1, <1>7, <1>8, <2>3 DEF TakeOption, Named
<1>9. ASSUME SkipWord
      PROVE  Named'
  BY <1>1, <1>7, <1>9 DEF SkipWord, Named, outcome
<1>10. ASSUME RejectOption
       PROVE  Named'
  BY <1>1, <1>4, <1>7, <1>10 DEF RejectOption, FailsWith, Named, Running
<1>11. ASSUME EndOptions
       PROVE  Named'
  BY <1>1, <1>4, <1>7, <1>11 DEF EndOptions, Required, FailsWith, Named, Running
<1>12. Named'
  BY <1>8, <1>9, <1>10, <1>11 DEF Options
<1> QED
  BY <1>5, <1>6, <1>12 DEF Control

LEMMA PushTokenControl ==
    ASSUME Control, PushToken
    PROVE  Control'
<1>1. Where'
  BY DEF Control, Where, PushToken, FailsWith, outcome, tables, files, Table,
       Source, Early, Running, Late
<1>2. Named'
  BY DEF Control, Where, Named, PushToken, FailsWith, outcome, tables, files,
       Early, Running, Late
<1>3. Opened'
  BY MemoryCounts DEF Control, Where, Opened, LeftOpen, PushToken, FailsWith,
       outcome, tables, files, Source, Early, Running, Late
<1> QED
  BY <1>1, <1>2, <1>3 DEF Control

LEMMA InsertSoftwareControl ==
    ASSUME Control, InsertSoftware
    PROVE  Control'
<1>1. Where'
  BY DEF Control, Where, InsertSoftware, FailsWith, outcome, tables, record,
       files, Table, Source, Early, Running, Late
<1>2. Named'
  BY DEF Control, Where, Named, InsertSoftware, FailsWith, outcome, tables,
       record, files, Early, Running, Late
<1>3. Opened'
  BY MemoryCounts DEF Control, Where, Opened, LeftOpen, InsertSoftware,
       FailsWith, Stores, FailsToStore, outcome, tables, record, files,
       Source, Early, Running, Late
<1> QED
  BY <1>1, <1>2, <1>3 DEF Control

LEMMA SaveControl ==
    ASSUME Control, Save
    PROVE  Control'
<1>1. Where'
  BY DEF Control, Where, Save, FailsWith, Succeeds, tables, record, memory,
       Table, Source, Early, Running, Late
<1>2. Named'
  BY DEF Control, Where, Named, Save, FailsWith, Succeeds, tables, record,
       memory, Early, Running, Late
<1>3. Opened'
  BY DEF Control, Where, Opened, LeftOpen, Save, FailsWith, Succeeds, tables,
       record, memory, Source, Early, Running, Late
<1> QED
  BY <1>1, <1>2, <1>3 DEF Control

LEMMA FreeConfigControl ==
    ASSUME Control, FreeConfig
    PROVE  Control'
<1>1. Where'
  BY DEF Control, Where, FreeConfig, Goto, outcome, tables, record, files,
       Table, Source, Early, Running, Late
<1>2. Named'
  BY DEF Control, Where, Named, FreeConfig, Goto, outcome, tables, record,
       files, Early, Running, Late
<1>3. Opened'
  BY MemoryCounts DEF Control, Where, Opened, LeftOpen, FreeConfig, Goto,
       outcome, tables, record, files, Source, Early, Running, Late
<1> QED
  BY <1>1, <1>2, <1>3 DEF Control

LEMMA DestroyControl ==
    ASSUME Control, Destroy
    PROVE  Control'
<1>1. Where'
  BY DEF Control, Where, Destroy, Goto, After, outcome, record, Table, Source,
       Early, Running, Late
<1>2. Named'
  BY DEF Control, Where, Named, Destroy, Goto, After, outcome, record,
       Table, Source, Early, Running, Late
<1>3. Opened'
  <2>1. /\ at = "destroy" /\ streams' = streams \ {tbl}
        /\ failures' \in Nat /\ (failures > 0 => failures' > 0)
        /\ UNCHANGED <<inited, smooth>>
    BY MemoryCounts DEF Control, Opened, Destroy, FreeTable
  <2>2. CASE tbl = "commands"
    BY <2>1, <2>2 DEF Control, Where, Opened, LeftOpen, Destroy, After, Goto, Source, Running
  <2>3. CASE tbl \in Source
    BY <2>1, <2>3 DEF Control, Where, Opened, LeftOpen, Destroy, After, Goto, Source, Running
  <2> QED
    BY <2>2, <2>3 DEF Control, Where, Table
<1> QED
  BY <1>1, <1>2, <1>3 DEF Control

LEMMA UndefinedControl ==
    ASSUME Control, Undefined
    PROVE  Control'
<1>1. Where'
  BY DEF Control, Where, Undefined, outcome, tables, record, files, Table,
       Source, Early, Running, Late
<1>2. Named'
  BY DEF Control, Where, Named, Undefined, outcome, tables, record, files,
       Early, Running, Late
<1>3. Opened'
  BY DEF Control, Where, Opened, LeftOpen, Undefined, outcome, tables, record,
       files, Source, Early, Running, Late
<1> QED
  BY <1>1, <1>2, <1>3 DEF Control

LEMMA ControlInit == Init => Control
<1> SUFFICES ASSUME Init
             PROVE  Control
  OBVIOUS
<1> QED
  BY DEF Init, Control, Where, Named, Opened, Table, Source, Early, Running, Late

LEMMA ControlStep ==
    ASSUME Control, [Next]_vars
    PROVE  Control'
<1>1. CASE UNCHANGED vars
  BY <1>1 DEF vars, Control, Where, Named, Opened, LeftOpen, record, memory, tables,
       files, outcome
<1>2. CASE Next
  BY <1>2, ParseControl, InitCommandsControl, OpenControl, InitTableControl,
     ReadHeaderControl, EndRecordsControl, ReadRecordControl, ReadDependencyControl,
     StoreRecordControl, DropControl, ExportControl, DispatchControl, EchoControl,
     ListTableControl, UsageControl, InstallSoftwareControl, AddControl,
     OptionsControl, PushTokenControl, InsertSoftwareControl, SaveControl,
     FreeConfigControl, DestroyControl, UndefinedControl DEF Next
<1> QED
  BY <1>1, <1>2

-----------------------------------------------------------------------------
(* The memory of a process.                                                *)
Apart == \A p, q \in Place : p # q => owned[p] \cap owned[q] = {}

Blocks ==
    /\ top \in Nat /\ failures \in Nat /\ defined \in BOOLEAN
    /\ heap \subseteq 1..top
    /\ owned \in [Place -> SUBSET heap]
    /\ Apart

(* No block is without an owner unless an allocation failed.               *)
Kept == failures = 0 => \A b \in heap : \E p \in Place : b \in owned[p]

Sound == Blocks /\ Kept

(* The kinds of places, which are different from each other.               *)
LEMMA PlacesDiffer ==
    ASSUME NEW t, NEW k, NEW u, NEW l
    PROVE  /\ Body(t, k) # Node(u, l) /\ Body(t, k) # Deps(u, l) /\ Node(t, k) # Deps(u, l)
           /\ Body(t, k) = Body(u, l) => t = u /\ k = l
           /\ Node(t, k) = Node(u, l) => t = u /\ k = l
           /\ Deps(t, k) = Deps(u, l) => t = u /\ k = l
           /\ Buckets(t) = Buckets(u) => t = u
           /\ Buckets(t) \notin {Body(u, l), Node(u, l), Deps(u, l)}
           /\ Arguments \notin {Body(t, k), Node(t, k), Deps(t, k), Buckets(t), List}
           /\ List \notin {Body(t, k), Node(t, k), Deps(t, k), Buckets(t)}
  BY DEF Body, Node, Deps, Buckets, Arguments, List

LEMMA PlacesExist ==
    /\ Arguments \in Place /\ List \in Place
    /\ \A t \in Table : Buckets(t) \in Place
    /\ \A t \in Table : \A k \in Key(t) :
          /\ Body(t, k) \in Place /\ Node(t, k) \in Place /\ Deps(t, k) \in Place
    /\ \A t \in Table : Places(t) \subseteq Place /\ Entries(t) \subseteq Place
    /\ \A t \in Table : Linked(t) \subseteq Entries(t)
<1>1. Arguments \in Place /\ List \in Place
  BY DEF Place
<1>2. ASSUME NEW t \in Table
      PROVE  /\ Places(t) \subseteq Place /\ Entries(t) \subseteq Places(t)
             /\ Linked(t) \subseteq Entries(t) /\ Buckets(t) \in Places(t)
  BY DEF Place, Places, Entries
<1>3. ASSUME NEW t \in Table, NEW k \in Key(t)
      PROVE  Body(t, k) \in Entries(t) /\ Node(t, k) \in Entries(t) /\ Deps(t, k) \in Entries(t)
  BY DEF Entries, Linked
<1> QED
  BY <1>1, <1>2, <1>3

(* New blocks are nobody's, and the heap grows by them.                    *)
LEMMA NewBlocks ==
    ASSUME Blocks, NEW n \in Nat
    PROVE  /\ New(n) \cap heap = {} /\ New(n) \subseteq 1..(top + n)
           /\ top + n \in Nat /\ heap \subseteq 1..(top + n)
  BY DEF Blocks, New

LEMMA OwnedIsAllocated ==
    ASSUME Blocks, NEW P \in SUBSET Place
    PROVE  Owned(P) \subseteq heap
  BY DEF Blocks, Owned

(* Blocks that were just allocated go to one place.                        *)
LEMMA Grow ==
    ASSUME Sound, NEW n \in Nat, NEW p \in Place, Memory(n, n, {}),
           owned' = [owned EXCEPT ![p] = @ \cup New(n)]
    PROVE  Sound' /\ defined' = defined
<1>1. heap' = heap \cup New(n) /\ top' = top + n /\ failures' = failures /\ defined' = defined
  BY DEF Memory, Sound, Blocks
<1>2. owned' \in [Place -> SUBSET heap']
  BY <1>1 DEF Sound, Blocks
<1>3. Apart'
  BY <1>1, NewBlocks DEF Sound, Blocks, Apart
<1>4. Blocks'
  BY <1>1, <1>2, <1>3, NewBlocks DEF Sound, Blocks
<1>5. Kept'
  <2> SUFFICES ASSUME failures = 0, NEW b \in heap'
               PROVE  \E q \in Place : b \in owned'[q]
    BY <1>1 DEF Kept
  <2>1. CASE b \in heap
    BY <2>1 DEF Sound, Blocks, Kept
  <2>2. CASE b \in New(n)
    BY <2>2 DEF Sound, Blocks
  <2> QED
    BY <1>1, <2>1, <2>2
<1> QED
  BY <1>1, <1>4, <1>5 DEF Sound

(* The places of Q are emptied after the blocks of those in P were freed;  *)
(* n of m allocations succeeded, and what they returned is lost.           *)
LEMMA Release ==
    ASSUME Sound, NEW n \in Nat, NEW m \in Nat, NEW P \in SUBSET Place, NEW Q \in SUBSET Place,
           P \subseteq Q, Memory(n, m, Owned(P)), owned' = Without(Q),
           n = m => n = 0 /\ \A q \in Q \ P : owned[q] = {}
    PROVE  Sound' /\ defined' = defined
<1>1. /\ heap' = (heap \cup New(n)) \ Owned(P) /\ top' = top + n /\ defined' = defined
      /\ failures' \in Nat /\ (failures' = 0 => failures = 0 /\ n = m)
  BY OwnedIsAllocated DEF Memory, Sound, Blocks
<1>2. \A p \in Place : owned'[p] = IF p \in Q THEN {} ELSE owned[p]
  BY DEF Without
<1>3. \A p \in Place \ Q : owned[p] \subseteq heap \ Owned(P)
  BY DEF Owned, Sound, Blocks, Apart
<1>4. owned' \in [Place -> SUBSET heap']
  <2>1. \A p \in Place : owned'[p] \subseteq heap'
    BY <1>1, <1>2, <1>3
  <2> QED
    BY <2>1 DEF Without
<1>5. Apart'
  BY <1>2 DEF Sound, Blocks, Apart
<1>6. Blocks'
  BY <1>1, <1>4, <1>5, NewBlocks DEF Sound, Blocks
<1>7. Kept'
  <2> SUFFICES ASSUME failures' = 0, NEW b \in heap'
               PROVE  \E p \in Place : b \in owned'[p]
    BY DEF Kept
  <2>1. New(n) = {} /\ failures = 0
    BY <1>1 DEF New, Sound, Blocks
  <2>2. b \in heap /\ b \notin Owned(P)
    BY <1>1, <2>1
  <2>3. PICK p \in Place : b \in owned[p]
    BY <2>1, <2>2 DEF Sound, Kept
  <2>4. p \notin Q
    BY <1>1, <2>2, <2>3 DEF Owned
  <2> QED
    BY <1>2, <2>3, <2>4
<1> QED
  BY <1>1, <1>6, <1>7 DEF Sound

(* An entry has a body and dependencies only as long as it has a node.     *)
Paired ==
    \A t \in Table : \A k \in Key(t) :
        ~Holds(t, k) => owned[Body(t, k)] = {} /\ owned[Deps(t, k)] = {}

(* The dependencies of the record on the stack become those of an entry.   *)
LEMMA StoreOver ==
    ASSUME Sound, NEW t \in Table, NEW k \in Key(t), Holds(t, k),
           Memory(0, 0, owned[Deps(t, k)]),
           owned' = [owned EXCEPT ![Deps(t, k)] = owned[List], ![List] = {}]
    PROVE  Sound' /\ defined' = defined
<1> DEFINE d == Deps(t, k)
<1>1. d \in Place /\ List \in Place /\ d # List /\ owned[d] \subseteq heap
  BY PlacesExist, PlacesDiffer DEF Sound, Blocks
<1> HIDE DEF d
<1>2. /\ heap' = heap \ owned[d] /\ top' = top /\ failures' = failures /\ defined' = defined
  BY <1>1 DEF Memory, New, Sound, Blocks, d
<1>3. \A p \in Place : owned'[p] = IF p = List THEN {} ELSE IF p = d THEN owned[List] ELSE owned[p]
  BY <1>1 DEF Sound, Blocks, d
<1>4. owned[List] \cap owned[d] = {}
  BY <1>1 DEF Sound, Blocks, Apart
<1>5. owned' \in [Place -> SUBSET heap']
  <2>1. \A p \in Place : owned'[p] \subseteq heap'
    BY <1>1, <1>2, <1>3, <1>4 DEF Sound, Blocks, Apart
  <2>2. owned' = [p \in Place |-> owned'[p]]
    BY DEF Sound, Blocks
  <2> QED
    BY <2>1, <2>2
<1>6. Apart'
  BY <1>1, <1>3 DEF Sound, Blocks, Apart
<1>7. Blocks'
  BY <1>2, <1>5, <1>6 DEF Sound, Blocks
<1>8. Kept'
  BY <1>1, <1>2, <1>3 DEF Sound, Kept
<1> QED
  BY <1>2, <1>7, <1>8 DEF Sound

LEMMA StoreNew ==
    ASSUME Sound, Paired, NEW t \in Table, NEW k \in Key(t), ~Holds(t, k),
           Memory(2, 2, {}),
           owned' = [owned EXCEPT ![Body(t, k)] = {top + 1}, ![Node(t, k)] = {top + 2},
                                  ![Deps(t, k)] = owned[List], ![List] = {}]
    PROVE  Sound' /\ defined' = defined
<1> DEFINE b == Body(t, k)
           n == Node(t, k)
           d == Deps(t, k)
           x == top + 1
           y == top + 2
<1>1. /\ b \in Place /\ n \in Place /\ d \in Place /\ List \in Place
      /\ b # n /\ b # d /\ n # d /\ List # b /\ List # n /\ List # d
      /\ owned[b] = {} /\ owned[n] = {} /\ owned[d] = {}
  BY PlacesExist, PlacesDiffer DEF Paired, Holds
<1>2. top \in Nat /\ x \notin heap /\ y \notin heap /\ x # y
  BY DEF Sound, Blocks
<1>3. /\ heap' = heap \cup {x, y} /\ top' = top + 2
      /\ failures' = failures /\ defined' = defined
  BY DEF Memory, New, Sound, Blocks
<1>4. /\ owned \in [Place -> SUBSET heap]
      /\ owned' = [owned EXCEPT ![b] = {x}, ![n] = {y}, ![d] = owned[List], ![List] = {}]
  BY DEF Sound, Blocks
<1> HIDE DEF b, n, d, x, y
<1>5. /\ owned'[b] = {x} /\ owned'[n] = {y} /\ owned'[d] = owned[List] /\ owned'[List] = {}
      /\ \A p \in Place \ {b, n, d, List} : owned'[p] = owned[p]
  BY <1>1, <1>4
<1>6. owned' \in [Place -> SUBSET heap']
  <2>1. \A p \in Place : owned'[p] \subseteq heap'
    BY <1>1, <1>3, <1>4, <1>5
  <2>2. owned' = [p \in Place |-> owned'[p]]
    BY <1>4
  <2> QED
    BY <2>1, <2>2
<1>7. Apart'
  <2>1. \A p, q \in Place : p # q => owned[p] \cap owned[q] = {}
    BY DEF Sound, Blocks, Apart
  <2>2. \A p \in Place : x \notin owned[p] /\ y \notin owned[p]
    BY <1>2, <1>4
  <2>3. \A p \in Place : \A z \in owned'[p] :
           \/ p = b /\ z = x
           \/ p = n /\ z = y
           \/ p = d /\ z \in owned[List]
           \/ p \notin {b, n, d, List} /\ z \in owned[p]
    BY <1>5
  <2> SUFFICES ASSUME NEW p \in Place, NEW q \in Place, p # q,
                      NEW z \in owned'[p], z \in owned'[q]
               PROVE  FALSE
    BY DEF Apart
  <2>4. CASE z \in {x, y}
    BY <1>1, <1>2, <2>2, <2>3, <2>4
  <2>5. CASE z \notin {x, y}
    <3>1. (p = d /\ z \in owned[List]) \/ (p \notin {d, List} /\ z \in owned[p])
      BY <2>3, <2>5
    <3>2. (q = d /\ z \in owned[List]) \/ (q \notin {d, List} /\ z \in owned[q])
      BY <2>3, <2>5
    <3> QED
      BY <1>1, <2>1, <3>1, <3>2
  <2> QED
    BY <2>4, <2>5
<1>8. Blocks'
  <2>1. heap' \subseteq 1..top'
    BY <1>2, <1>3 DEF Sound, Blocks, x, y
  <2> QED
    BY <1>2, <1>3, <1>6, <1>7, <2>1 DEF Sound, Blocks
<1>9. Kept'
  <2> SUFFICES ASSUME failures = 0, NEW z \in heap'
               PROVE  \E p \in Place : z \in owned'[p]
    BY <1>3 DEF Kept
  <2>1. CASE z \in {x, y}
    BY <1>1, <1>5, <2>1
  <2>2. CASE z \in heap
    <3>1. PICK p \in Place : z \in owned[p]
      BY <2>2 DEF Sound, Kept
    <3>2. CASE p = List
      BY <1>1, <1>5, <3>1, <3>2
    <3>3. CASE p # List
      BY <1>1, <1>5, <3>1, <3>3
    <3> QED
      BY <3>2, <3>3
  <2> QED
    BY <1>3, <2>1, <2>2
<1> QED
  BY <1>3, <1>8, <1>9 DEF Sound

(* What a store changes: one entry, and the list of the record.            *)
LEMMA StoresEffect ==
    ASSUME Sound, Paired, NEW t \in Table, NEW k \in Key(t), Stores(t, k)
    PROVE  /\ Sound' /\ defined' = defined /\ failures' = failures /\ Paired'
           /\ owned'[List] = {} /\ owned'[Arguments] = owned[Arguments]
           /\ \A u \in Table : owned'[Buckets(u)] = owned[Buckets(u)]
           /\ \A u \in Table : \A l \in Key(u) : u # t => Holds(u, l)' = Holds(u, l)
           /\ Holds(t, k)' /\ \A l \in Key(t) : l # k => Holds(t, l)' = Holds(t, l)
<1>1. Sound' /\ defined' = defined
  BY StoreOver, StoreNew DEF Stores
<1>2. failures' = failures
  BY DEF Stores, Memory
<1>3. owned \in [Place -> SUBSET heap] /\ top \in Nat
  BY DEF Sound, Blocks
<1>4. owned'[List] = {} /\ owned'[Arguments] = owned[Arguments]
  BY <1>3, PlacesExist, PlacesDiffer DEF Stores
<1>5. ASSUME NEW u \in Table
      PROVE  owned'[Buckets(u)] = owned[Buckets(u)]
  <2>1. Buckets(u) \in Place /\ Buckets(u) \notin {Body(t, k), Node(t, k), Deps(t, k), List}
    BY PlacesExist, PlacesDiffer
  <2> QED
    BY <1>3, <2>1 DEF Stores
<1>6. ASSUME NEW u \in Table, NEW l \in Key(u), ~(u = t /\ l = k)
      PROVE  /\ owned'[Body(u, l)] = owned[Body(u, l)]
             /\ owned'[Node(u, l)] = owned[Node(u, l)]
             /\ owned'[Deps(u, l)] = owned[Deps(u, l)]
  BY <1>3, <1>6, PlacesExist, PlacesDiffer DEF Stores
<1>7. Holds(t, k)'
  <2>1. CASE Holds(t, k)
    BY <1>3, <2>1, PlacesExist, PlacesDiffer DEF Stores, Holds
  <2>2. CASE ~Holds(t, k)
    <3>1. owned'[Node(t, k)] = {top + 2}
      BY <1>3, <2>2, PlacesExist, PlacesDiffer DEF Stores
    <3> QED
      BY <3>1 DEF Holds
  <2> QED
    BY <2>1, <2>2
<1>8. Paired'
  BY <1>6, <1>7 DEF Paired, Holds
<1>9. /\ \A u \in Table : \A l \in Key(u) : u # t => Holds(u, l)' = Holds(u, l)
      /\ \A l \in Key(t) : l # k => Holds(t, l)' = Holds(t, l)
  BY <1>6 DEF Holds
<1> QED
  BY <1>1, <1>2, <1>4, <1>5, <1>7, <1>8, <1>9

(* A record that could not be stored is left behind.                       *)
LEMMA FailsToStoreEffect ==
    ASSUME Sound, Paired, NEW t, NEW k, FailsToStore(t, k)
    PROVE  /\ Sound' /\ defined' = defined /\ failures' > 0 /\ Paired'
           /\ owned'[List] = {} /\ owned'[Arguments] = owned[Arguments]
           /\ \A u \in Table : owned'[Buckets(u)] = owned[Buckets(u)]
           /\ \A u \in Table : \A l \in Key(u) : Holds(u, l)' = Holds(u, l)
<1>1. PICK n \in 0..1 : Memory(n, 2, {})
  BY DEF FailsToStore
<1>2. owned' = Without({List})
  BY DEF FailsToStore
<1>3. {} \in SUBSET Place /\ {List} \in SUBSET Place /\ Owned({}) = {}
  BY PlacesExist DEF Owned
<1>4. Sound' /\ defined' = defined
  <2>1. n \in Nat /\ n # 2
    BY <1>1
  <2> QED
    BY <1>1, <1>2, <1>3, <2>1, Release
<1>5. failures' > 0
  BY <1>1, MemoryCounts DEF Sound, Blocks
<1>6. \A p \in Place : owned'[p] = IF p = List THEN {} ELSE owned[p]
  BY <1>2 DEF Without
<1> QED
  BY <1>4, <1>5, <1>6, PlacesExist, PlacesDiffer DEF Paired, Holds

(* A table that is freed is empty, and nothing else changes.               *)
LEMMA ReleaseTable ==
    ASSUME Sound, Paired, NEW t \in Table, NEW n \in Nat, NEW m \in Nat, n = m => n = 0,
           Memory(n, m, Owned(Places(t))), owned' = Without(Places(t))
    PROVE  /\ Sound' /\ defined' = defined /\ Paired'
           /\ owned'[List] = owned[List] /\ owned'[Arguments] = owned[Arguments]
           /\ owned'[Buckets(t)] = {} /\ \A k \in Key(t) : ~Holds(t, k)'
           /\ \A u \in Table \ {t} :
                 /\ owned'[Buckets(u)] = owned[Buckets(u)]
                 /\ \A l \in Key(u) : Holds(u, l)' = Holds(u, l)
<1>1. Sound' /\ defined' = defined
  <2>1. Places(t) \in SUBSET Place /\ Places(t) \ Places(t) = {}
    BY PlacesExist
  <2> QED
    BY <2>1, Release
<1>2. \A p \in Place : owned'[p] = IF p \in Places(t) THEN {} ELSE owned[p]
  BY DEF Without
<1>3. /\ List \notin Places(t) /\ Arguments \notin Places(t) /\ Buckets(t) \in Places(t)
      /\ \A k \in Key(t) : {Body(t, k), Node(t, k), Deps(t, k)} \subseteq Places(t)
  BY PlacesDiffer DEF Places, Entries, Linked
<1>4. ASSUME NEW u \in Table \ {t}
      PROVE  /\ Buckets(u) \notin Places(t)
             /\ \A l \in Key(u) : {Body(u, l), Node(u, l), Deps(u, l)} \cap Places(t) = {}
  <2>1. Buckets(u) \notin Places(t)
    BY PlacesDiffer DEF Places, Entries, Linked
  <2>2. ASSUME NEW l \in Key(u), NEW p \in Places(t)
        PROVE  p \notin {Body(u, l), Node(u, l), Deps(u, l)}
    <3>1. \/ p = Buckets(t)
          \/ \E k \in Key(t) : p \in {Body(t, k), Node(t, k), Deps(t, k)}
      BY DEF Places, Entries, Linked
    <3>2. CASE p = Buckets(t)
      BY <3>2, PlacesDiffer
    <3>3. ASSUME NEW k \in Key(t), p \in {Body(t, k), Node(t, k), Deps(t, k)}
          PROVE  p \notin {Body(u, l), Node(u, l), Deps(u, l)}
      BY <3>3, PlacesDiffer
    <3> QED
      BY <3>1, <3>2, <3>3
  <2> QED
    BY <2>1, <2>2
<1>5. \A k \in Key(t) : ~Holds(t, k)' /\ (owned'[Body(t, k)] = {} /\ owned'[Deps(t, k)] = {})
  BY <1>2, <1>3, PlacesExist DEF Holds
<1>6. \A u \in Table \ {t} : \A l \in Key(u) :
         /\ Holds(u, l)' = Holds(u, l)
         /\ owned'[Body(u, l)] = owned[Body(u, l)] /\ owned'[Deps(u, l)] = owned[Deps(u, l)]
  BY <1>2, <1>4, PlacesExist DEF Holds
<1>7. Paired'
  BY <1>5, <1>6 DEF Paired
<1> QED
  BY <1>1, <1>2, <1>3, <1>4, <1>5, <1>6, <1>7, PlacesExist

-----------------------------------------------------------------------------
(* How far a process has come decides which tables can have buckets, and   *)
(* which can have entries.                                                 *)
NoTable(t) ==
    \/ at = "end"
    \/ t = "commands" /\ (at = "parse" \/ (at = "destroy" /\ tbl \in Source))
    \/ t = "installed" /\ (at \in {"parse", "open"} \/ (at = "init" /\ tbl = "installed"))
    \/ t = "available" /\ (at \in Early \/ (at = "destroy" /\ tbl = "installed"))
    \/ t \in Source /\ at \in Late /\ ~inited

NoEntries(t) ==
    \/ NoTable(t) \/ at \in Early
    \/ t = "commands" /\ at \in {"load", "records", "read", "drop"}
    \/ t = "installed" /\ (at = "load" \/ (at \in {"records", "read", "drop"} /\ tbl = "available"))
    \/ t = "available" /\ at = "load" /\ tbl = "available"

Empty(t) == \A k \in Key(t) : ~Holds(t, k)

Empties ==
    /\ at \notin {"read", "tokens"} => owned[List] = {}
    /\ at \in {"destroy", "end"} => owned[Arguments] = {}
    /\ \A t \in Table :
          /\ NoTable(t) => owned[Buckets(t)] = {}
          /\ NoEntries(t) => Empty(t)

(* A table that is in use has buckets.  The one exception ends in the only *)
(* undefined step.                                                         *)
Bucketed ==
    /\ at \in {"open", "init"} \cup Running => ~WalksNothing("commands")
    /\ at = "parse" \/ NoTable("commands") => "commands" \notin sized
    /\ WalksNothing("commands") => failures > 0
    /\ inited => \A t \in Source : ~WalksNothing(t)
    /\ at = "init" /\ tbl = "available" => ~WalksNothing("installed")
    /\ ~defined => at = "destroy" /\ tbl = "commands" /\ WalksNothing("commands")

MemoryInv == Sound /\ Empties /\ Paired /\ Bucketed

(* The steps that leave memory alone.                                      *)
Still == UNCHANGED <<memory, tables>>

LEMMA StillStep ==
    ASSUME MemoryInv, Still,
           at \in {"read", "tokens"} => at' \in {"read", "tokens"},
           at' \in {"destroy", "end"} => at \in {"destroy", "end"},
           \A t \in Table : (NoTable(t)' => NoTable(t)) /\ (NoEntries(t)' => NoEntries(t)),
           Bucketed'
    PROVE  MemoryInv'
<1>1. UNCHANGED <<heap, top, owned, failures, defined, sized, inited>>
  BY DEF Still, memory, tables
<1>2. Sound' /\ Paired'
  BY <1>1 DEF MemoryInv, Sound, Blocks, Kept, Apart, Paired, Holds
<1>3. Empties'
  BY <1>1 DEF MemoryInv, Empties, Empty, Holds
<1> QED
  BY <1>2, <1>3 DEF MemoryInv

LEMMA OpenMemory ==
    ASSUME Control, MemoryInv, Open
    PROVE  MemoryInv'
<1>1. Still
  BY DEF Open, Still, tables, memory
<1>2. Bucketed'
  BY <1>1 DEF Control, Where, MemoryInv, Still, Bucketed, WalksNothing,
       NoTable, Open, Fail, record, tables, memory, Table, Source, Early,
       Running, Late
<1>3. \A t \in Table : (NoTable(t)' => NoTable(t)) /\ (NoEntries(t)' => NoEntries(t))
  BY <1>1 DEF Control, Where, Still, NoTable, NoEntries, Open, Fail, record,
       tables, Table, Source, Early, Running, Late
<1>4. /\ at \in {"read", "tokens"} => at' \in {"read", "tokens"}
      /\ at' \in {"destroy", "end"} => at \in {"destroy", "end"}
  BY DEF Open, Fail, record
<1> QED
  BY <1>1, <1>2, <1>3, <1>4, StillStep

LEMMA EndRecordsMemory ==
    ASSUME Control, MemoryInv, EndRecords
    PROVE  MemoryInv'
<1>1. Still
  BY DEF EndRecords, Still, tables, memory
<1>2. Bucketed'
  BY <1>1 DEF Control, Where, MemoryInv, Still, Bucketed, WalksNothing,
       NoTable, EndRecords, Goto, outcome, record, tables, memory, Table,
       Source, Early, Running, Late
<1>3. \A t \in Table : (NoTable(t)' => NoTable(t)) /\ (NoEntries(t)' => NoEntries(t))
  BY <1>1 DEF Control, Where, Still, NoTable, NoEntries, EndRecords, Goto,
       outcome, record, tables, Table, Source, Early, Running, Late
<1>4. /\ at \in {"read", "tokens"} => at' \in {"read", "tokens"}
      /\ at' \in {"destroy", "end"} => at \in {"destroy", "end"}
  BY DEF EndRecords, Goto, outcome, record
<1> QED
  BY <1>1, <1>2, <1>3, <1>4, StillStep

LEMMA ReadRecordMemory ==
    ASSUME Control, MemoryInv, ReadRecord
    PROVE  MemoryInv'
<1>1. Still
  BY DEF ReadRecord, Still, tables, memory
<1>2. Bucketed'
  BY <1>1 DEF Control, Where, MemoryInv, Still, Bucketed, WalksNothing,
       NoTable, ReadRecord, Goto, outcome, tables, memory, Table, Source,
       Early, Running, Late
<1>3. \A t \in Table : (NoTable(t)' => NoTable(t)) /\ (NoEntries(t)' => NoEntries(t))
  BY <1>1 DEF Control, Where, Still, NoTable, NoEntries, ReadRecord, Goto,
       outcome, tables, Table, Source, Early, Running, Late
<1>4. /\ at \in {"read", "tokens"} => at' \in {"read", "tokens"}
      /\ at' \in {"destroy", "end"} => at \in {"destroy", "end"}
  BY DEF ReadRecord, Goto, outcome
<1> QED
  BY <1>1, <1>2, <1>3, <1>4, StillStep

LEMMA DispatchMemory ==
    ASSUME Control, MemoryInv, Dispatch
    PROVE  MemoryInv'
<1>1. Still
  BY DEF Dispatch, Still, tables, files, memory
<1>2. Bucketed'
  BY <1>1 DEF Control, Where, MemoryInv, Still, Bucketed, WalksNothing,
       NoTable, Dispatch, Goto, FailsWith, outcome, record, files, tables,
       memory, Table, Source, Early, Running, Late
<1>3. \A t \in Table : (NoTable(t)' => NoTable(t)) /\ (NoEntries(t)' => NoEntries(t))
  BY <1>1 DEF Control, Where, Still, NoTable, NoEntries, Dispatch, Goto,
       FailsWith, outcome, record, files, tables, Table, Source, Early,
       Running, Late
<1>4. /\ at \in {"read", "tokens"} => at' \in {"read", "tokens"}
      /\ at' \in {"destroy", "end"} => at \in {"destroy", "end"}
  BY DEF Dispatch, Goto, FailsWith, outcome, record, files
<1> QED
  BY <1>1, <1>2, <1>3, <1>4, StillStep

LEMMA EchoMemory ==
    ASSUME Control, MemoryInv, Echo
    PROVE  MemoryInv'
<1>1. Still
  BY DEF Echo, Still, Execute, tables, memory
<1>2. Bucketed'
  BY <1>1 DEF Control, Where, MemoryInv, Still, Bucketed, WalksNothing,
       NoTable, Echo, Succeeds, Execute, tables, memory, Table, Source, Early,
       Running, Late
<1>3. \A t \in Table : (NoTable(t)' => NoTable(t)) /\ (NoEntries(t)' => NoEntries(t))
  BY <1>1 DEF Control, Where, Still, NoTable, NoEntries, Echo, Succeeds,
       Execute, tables, Table, Source, Early, Running, Late
<1>4. /\ at \in {"read", "tokens"} => at' \in {"read", "tokens"}
      /\ at' \in {"destroy", "end"} => at \in {"destroy", "end"}
  BY DEF Echo, Succeeds, Execute
<1> QED
  BY <1>1, <1>2, <1>3, <1>4, StillStep

LEMMA ListTableMemory ==
    ASSUME Control, MemoryInv, ListTable
    PROVE  MemoryInv'
<1>1. Still
  BY DEF ListTable, Still, Execute, tables, memory
<1>2. Bucketed'
  BY <1>1 DEF Control, Where, MemoryInv, Still, Bucketed, WalksNothing,
       NoTable, ListTable, FailsWith, Succeeds, Execute, tables, memory,
       Table, Source, Early, Running, Late
<1>3. \A t \in Table : (NoTable(t)' => NoTable(t)) /\ (NoEntries(t)' => NoEntries(t))
  BY <1>1 DEF Control, Where, Still, NoTable, NoEntries, ListTable, FailsWith,
       Succeeds, Execute, tables, Table, Source, Early, Running, Late
<1>4. /\ at \in {"read", "tokens"} => at' \in {"read", "tokens"}
      /\ at' \in {"destroy", "end"} => at \in {"destroy", "end"}
  BY DEF ListTable, FailsWith, Succeeds, Execute
<1> QED
  BY <1>1, <1>2, <1>3, <1>4, StillStep

LEMMA UsageMemory ==
    ASSUME Control, MemoryInv, Usage
    PROVE  MemoryInv'
<1>1. Still
  BY DEF Usage, Still, Execute, tables, memory
<1>2. Bucketed'
  BY <1>1 DEF Control, Where, MemoryInv, Still, Bucketed, WalksNothing,
       NoTable, Usage, FailsWith, Succeeds, Execute, tables, memory, Table,
       Source, Early, Running, Late
<1>3. \A t \in Table : (NoTable(t)' => NoTable(t)) /\ (NoEntries(t)' => NoEntries(t))
  BY <1>1 DEF Control, Where, Still, NoTable, NoEntries, Usage, FailsWith,
       Succeeds, Execute, tables, Table, Source, Early, Running, Late
<1>4. /\ at \in {"read", "tokens"} => at' \in {"read", "tokens"}
      /\ at' \in {"destroy", "end"} => at \in {"destroy", "end"}
  BY DEF Usage, FailsWith, Succeeds, Execute
<1> QED
  BY <1>1, <1>2, <1>3, <1>4, StillStep

LEMMA InstallSoftwareMemory ==
    ASSUME Control, MemoryInv, InstallSoftware
    PROVE  MemoryInv'
<1>1. Still
  BY DEF InstallSoftware, Still, Execute, tables, memory
<1>2. Bucketed'
  BY <1>1 DEF Control, Where, MemoryInv, Still, Bucketed, WalksNothing,
       NoTable, InstallSoftware, FailsWith, Succeeds, Execute, tables, memory,
       Table, Source, Early, Running, Late
<1>3. \A t \in Table : (NoTable(t)' => NoTable(t)) /\ (NoEntries(t)' => NoEntries(t))
  BY <1>1 DEF Control, Where, Still, NoTable, NoEntries, InstallSoftware,
       FailsWith, Succeeds, Execute, tables, Table, Source, Early, Running,
       Late
<1>4. /\ at \in {"read", "tokens"} => at' \in {"read", "tokens"}
      /\ at' \in {"destroy", "end"} => at \in {"destroy", "end"}
  BY DEF InstallSoftware, FailsWith, Succeeds, Execute
<1> QED
  BY <1>1, <1>2, <1>3, <1>4, StillStep

LEMMA AddMemory ==
    ASSUME Control, MemoryInv, Add
    PROVE  MemoryInv'
<1>1. Still
  BY DEF Add, Still, Execute, tables, memory
<1>2. Bucketed'
  BY <1>1 DEF Control, Where, MemoryInv, Still, Bucketed, WalksNothing,
       NoTable, Add, Execute, outcome, tables, memory, Table, Source, Early,
       Running, Late
<1>3. \A t \in Table : (NoTable(t)' => NoTable(t)) /\ (NoEntries(t)' => NoEntries(t))
  BY <1>1 DEF Control, Where, Still, NoTable, NoEntries, Add, Execute,
       outcome, tables, Table, Source, Early, Running, Late
<1>4. /\ at \in {"read", "tokens"} => at' \in {"read", "tokens"}
      /\ at' \in {"destroy", "end"} => at \in {"destroy", "end"}
  BY DEF Add, Execute, outcome
<1> QED
  BY <1>1, <1>2, <1>3, <1>4, StillStep

LEMMA OptionsMemory ==
    ASSUME Control, MemoryInv, Options
    PROVE  MemoryInv'
<1>1. Still
  BY DEF Options, Still, tables, files, memory
<1>2. Bucketed'
  BY <1>1 DEF Control, Where, MemoryInv, Still, Bucketed, WalksNothing,
       NoTable, Options, FailsWith, TakeOption, SkipWord, RejectOption,
       EndOptions, outcome, files, tables, memory, Table, Source, Early,
       Running, Late
<1>3. \A t \in Table : (NoTable(t)' => NoTable(t)) /\ (NoEntries(t)' => NoEntries(t))
  BY <1>1 DEF Control, Where, Still, NoTable, NoEntries, Options, FailsWith,
       TakeOption, SkipWord, RejectOption, EndOptions, outcome, files, tables,
       Table, Source, Early, Running, Late
<1>4. /\ at \in {"read", "tokens"} => at' \in {"read", "tokens"}
      /\ at' \in {"destroy", "end"} => at \in {"destroy", "end"}
  BY DEF Options, FailsWith, TakeOption, SkipWord, RejectOption, EndOptions,
       outcome, files
<1> QED
  BY <1>1, <1>2, <1>3, <1>4, StillStep

LEMMA SaveMemory ==
    ASSUME Control, MemoryInv, Save
    PROVE  MemoryInv'
<1>1. Still
  BY DEF Save, Still, tables, memory
<1>2. Bucketed'
  BY <1>1 DEF Control, Where, MemoryInv, Still, Bucketed, WalksNothing,
       NoTable, Save, FailsWith, Succeeds, record, tables, memory, Table,
       Source, Early, Running, Late
<1>3. \A t \in Table : (NoTable(t)' => NoTable(t)) /\ (NoEntries(t)' => NoEntries(t))
  BY <1>1 DEF Control, Where, Still, NoTable, NoEntries, Save, FailsWith,
       Succeeds, record, tables, Table, Source, Early, Running, Late
<1>4. /\ at \in {"read", "tokens"} => at' \in {"read", "tokens"}
      /\ at' \in {"destroy", "end"} => at \in {"destroy", "end"}
  BY DEF Save, FailsWith, Succeeds, record
<1> QED
  BY <1>1, <1>2, <1>3, <1>4, StillStep

-----------------------------------------------------------------------------
(* The steps that change one list: arguments, or dependencies on the stack.*)
Lists == {Arguments, List}

(* What the tables hold is as it was.                                      *)
TablesKept ==
    \A t \in Table :
        /\ owned'[Buckets(t)] = owned[Buckets(t)]
        /\ \A k \in Key(t) : Holds(t, k)' = Holds(t, k)

LEMMA ListsAreNoTables ==
    ASSUME NEW p \in Lists, Sound,
           \A q \in Place \ {p} : owned'[q] = owned[q], Paired
    PROVE  TablesKept /\ Paired'
<1>1. ASSUME NEW t \in Table
      PROVE  /\ Buckets(t) \in Place \ {p}
             /\ \A k \in Key(t) : {Body(t, k), Node(t, k), Deps(t, k)} \subseteq Place \ {p}
  BY PlacesExist, PlacesDiffer DEF Lists
<1> QED
  BY <1>1 DEF TablesKept, Paired, Holds

LEMMA GrowEffect ==
    ASSUME Sound, Paired, NEW n \in Nat, NEW p \in Lists, Memory(n, n, {}),
           owned' = [owned EXCEPT ![p] = @ \cup New(n)]
    PROVE  /\ Sound' /\ Paired' /\ TablesKept /\ defined' = defined /\ failures' = failures
           /\ \A q \in Place \ {p} : owned'[q] = owned[q]
<1>1. p \in Place
  BY PlacesExist DEF Lists
<1>2. \A q \in Place \ {p} : owned'[q] = owned[q]
  BY DEF Sound, Blocks
<1>3. Sound' /\ defined' = defined
  BY <1>1, Grow
<1>4. failures' = failures
  BY DEF Memory
<1> QED
  BY <1>2, <1>3, <1>4, ListsAreNoTables

(* The list is freed, or lost after an allocation that failed.             *)
LEMMA ReleaseEffect ==
    ASSUME Sound, Paired, NEW n \in Nat, NEW m \in Nat, n = m => n = 0, NEW p \in Lists,
           \/ Memory(n, m, owned[p])
           \/ Memory(n, m, {}) /\ n # m,
           owned' = Without({p})
    PROVE  /\ Sound' /\ Paired' /\ TablesKept /\ defined' = defined
           /\ failures' \in Nat /\ (failures > 0 => failures' > 0)
           /\ n # m => failures' > 0
           /\ owned'[p] = {} /\ \A q \in Place \ {p} : owned'[q] = owned[q]
<1>1. p \in Place
  BY PlacesExist DEF Lists
<1>2. owned'[p] = {} /\ \A q \in Place \ {p} : owned'[q] = owned[q]
  BY <1>1 DEF Without
<1>3. Sound' /\ defined' = defined
  <2>1. Owned({p}) = owned[p] /\ Owned({}) = {}
    BY DEF Owned
  <2>2. {p} \in SUBSET Place /\ {} \in SUBSET Place
    BY <1>1
  <2>3. CASE Memory(n, m, owned[p])
    BY <2>1, <2>2, <2>3, Release
  <2>4. CASE Memory(n, m, {}) /\ n # m
    BY <2>1, <2>2, <2>4, Release
  <2> QED
    BY <2>3, <2>4
<1>4. /\ failures' \in Nat /\ (failures > 0 => failures' > 0)
      /\ n # m => failures' > 0
  BY MemoryCounts DEF Sound, Blocks
<1> QED
  BY <1>2, <1>3, <1>4, ListsAreNoTables

(* A step that may only lose entries and buckets where none were.          *)
LEMMA KeptStep ==
    ASSUME MemoryInv, Sound', Paired', TablesKept,
           at' \notin {"read", "tokens"} => owned'[List] = {},
           at' \in {"destroy", "end"} => owned'[Arguments] = {},
           \A t \in Table : (NoTable(t)' => NoTable(t)) /\ (NoEntries(t)' => NoEntries(t)),
           Bucketed'
    PROVE  MemoryInv'
<1>1. Empties'
  BY DEF MemoryInv, Empties, Empty, TablesKept
<1> QED
  BY <1>1 DEF MemoryInv

LEMMA PushTokenMemory ==
    ASSUME Control, MemoryInv, PushToken
    PROVE  MemoryInv'
<1>1. /\ at = "tokens" /\ tbl' = tbl /\ sized' = sized /\ inited' = inited
      /\ at' = "tokens" \/ at' = "returned"
      /\ List \in Lists /\ Sound /\ Paired
  BY DEF PushToken, tables, outcome, FailsWith, Lists, MemoryInv
<1>2. /\ Sound' /\ Paired' /\ TablesKept /\ defined' = defined
      /\ failures > 0 => failures' > 0
      /\ at' # "tokens" => owned'[List] = {}
  <2>1. CASE Memory(2, 2, {}) /\ owned' = [owned EXCEPT ![List] = @ \cup New(2)]
             /\ at' = at
    BY <1>1, <2>1, GrowEffect
  <2>2. CASE (\E n \in 0..1 : Memory(n, 2, {})) /\ owned' = Without({List})
    <3>1. PICK n \in 0..1 : Memory(n, 2, {})
      BY <2>2
    <3>2. n \in Nat /\ n # 2
      BY <3>1
    <3> QED
      BY <1>1, <2>2, <3>1, <3>2, ReleaseEffect
  <2> QED
    BY <2>1, <2>2 DEF PushToken, outcome
<1>3. \A t \in Table : (NoTable(t)' => NoTable(t)) /\ (NoEntries(t)' => NoEntries(t))
  BY <1>1 DEF Control, Where, NoTable, NoEntries, Table, Source, Early, Running, Late
<1>4. Bucketed'
  BY <1>1, <1>2 DEF Control, Where, MemoryInv, TablesKept, Bucketed, WalksNothing,
       NoTable, Table, Source, Early, Running, Late
<1> QED
  BY <1>1, <1>2, <1>3, <1>4, KeptStep

LEMMA ReadDependencyMemory ==
    ASSUME Control, MemoryInv, ReadDependency
    PROVE  MemoryInv'
<1>1. /\ at = "read" /\ tbl' = tbl /\ sized' = sized /\ inited' = inited
      /\ at' = "read" \/ at' = "drop"
      /\ List \in Lists /\ Sound /\ Paired
  BY DEF ReadDependency, tables, Lists, MemoryInv
<1>2. /\ Sound' /\ Paired' /\ TablesKept /\ defined' = defined
      /\ failures > 0 => failures' > 0
      /\ at' # "read" => owned'[List] = {}
  <2>1. CASE Memory(2, 2, {}) /\ owned' = [owned EXCEPT ![List] = @ \cup New(2)]
             /\ at' = at
    BY <1>1, <2>1, GrowEffect
  <2>2. CASE (\E n \in 0..1 : Memory(n, 2, owned[List])) /\ owned' = Without({List})
    <3>1. PICK n \in 0..1 : Memory(n, 2, owned[List])
      BY <2>2
    <3>2. n \in Nat /\ n # 2
      BY <3>1
    <3> QED
      BY <1>1, <2>2, <3>1, <3>2, ReleaseEffect
  <2>3. CASE Memory(0, 0, owned[List]) /\ owned' = Without({List})
    BY <1>1, <2>3, ReleaseEffect
  <2> QED
    BY <2>1, <2>2, <2>3 DEF ReadDependency
<1>3. \A t \in Table : (NoTable(t)' => NoTable(t)) /\ (NoEntries(t)' => NoEntries(t))
  BY <1>1 DEF Control, Where, NoTable, NoEntries, Table, Source, Early, Running, Late
<1>4. Bucketed'
  BY <1>1, <1>2 DEF Control, Where, MemoryInv, TablesKept, Bucketed, WalksNothing,
       NoTable, Table, Source, Early, Running, Late
<1> QED
  BY <1>1, <1>2, <1>3, <1>4, KeptStep

LEMMA ParseMemory ==
    ASSUME Control, MemoryInv, Parse
    PROVE  MemoryInv'
<1>1. /\ at = "parse" /\ tbl' = tbl /\ sized' = sized /\ inited' = inited
      /\ at' = "parse" \/ at' = "returned"
      /\ Arguments \in Lists /\ List \in Place \ {Arguments} /\ Sound /\ Paired
  BY PlacesExist, PlacesDiffer DEF Parse, Fail, tables, outcome, Lists, MemoryInv
<1>2. /\ Sound' /\ Paired' /\ TablesKept /\ defined' = defined
      /\ failures > 0 => failures' > 0
      /\ owned'[List] = owned[List]
  <2>1. CASE UNCHANGED memory
    BY <1>1, <2>1 DEF memory, Sound, Blocks, Kept, Apart, Paired, Holds, TablesKept
  <2>2. CASE Memory(2, 2, {}) /\ owned' = [owned EXCEPT ![Arguments] = @ \cup New(2)]
    BY <1>1, <2>2, GrowEffect
  <2>3. CASE (\E n \in 0..1 : Memory(n, 2, owned[Arguments])) /\ owned' = Without({Arguments})
    <3>1. PICK n \in 0..1 : Memory(n, 2, owned[Arguments])
      BY <2>3
    <3>2. n \in Nat /\ n # 2 /\ owned' = Without({Arguments})
      BY <2>3, <3>1
    <3>3. /\ Sound' /\ Paired' /\ TablesKept /\ defined' = defined
          /\ failures > 0 => failures' > 0
      BY <1>1, <3>1, <3>2, ReleaseEffect
    <3>4. owned'[List] = owned[List]
      BY <1>1, <3>2 DEF Without
    <3> QED
      BY <3>3, <3>4
  <2> QED
    BY <2>1, <2>2, <2>3 DEF Parse
<1>3. \A t \in Table : (NoTable(t)' => NoTable(t)) /\ (NoEntries(t)' => NoEntries(t))
  BY <1>1 DEF Control, Where, NoTable, NoEntries, Table, Source, Early, Running, Late
<1>4. Bucketed'
  BY <1>1, <1>2 DEF Control, Where, MemoryInv, TablesKept, Bucketed, WalksNothing,
       NoTable, Table, Source, Early, Running, Late
<1>5. owned'[List] = {}
  BY <1>1, <1>2 DEF MemoryInv, Empties
<1> QED
  BY <1>1, <1>2, <1>3, <1>4, <1>5, KeptStep

LEMMA FreeConfigMemory ==
    ASSUME Control, MemoryInv, FreeConfig
    PROVE  MemoryInv'
<1>1. /\ at = "returned" /\ tbl' = "commands" /\ sized' = sized /\ inited' = inited
      /\ at' = "destroy"
      /\ Arguments \in Lists /\ List \in Place \ {Arguments} /\ Sound /\ Paired
      /\ Memory(0, 0, owned[Arguments]) /\ owned' = Without({Arguments})
  <2>1. Arguments \in Lists /\ List \in Place \ {Arguments}
    BY PlacesExist, PlacesDiffer DEF Lists
  <2> QED
    BY <2>1 DEF FreeConfig, Goto, tables, MemoryInv
<1>2. /\ Sound' /\ Paired' /\ TablesKept /\ defined' = defined
      /\ failures > 0 => failures' > 0
      /\ owned'[List] = owned[List] /\ owned'[Arguments] = {}
  BY <1>1, ReleaseEffect
<1>3. \A t \in Table : (NoTable(t)' => NoTable(t)) /\ (NoEntries(t)' => NoEntries(t))
  BY <1>1 DEF Control, Where, NoTable, NoEntries, Table, Source, Early, Running, Late
<1>4. Bucketed'
  BY <1>1, <1>2 DEF Control, Where, MemoryInv, TablesKept, Bucketed, WalksNothing,
       NoTable, Table, Source, Early, Running, Late
<1>5. owned'[List] = {}
  BY <1>1, <1>2 DEF MemoryInv, Empties
<1> QED
  BY <1>1, <1>2, <1>3, <1>4, <1>5, KeptStep

(* A step that stores a record, or fails to.                               *)
LEMMA StoredStep ==
    ASSUME MemoryInv, NEW t \in Table, NEW k \in Key(t), Stores(t, k),
           at' \notin {"destroy", "end"},
           \A u \in Table : NoTable(u)' => NoTable(u),
           \A u \in Table : NoEntries(u)' => NoEntries(u) /\ u # t,
           Bucketed'
    PROVE  MemoryInv'
<1>1. /\ Sound' /\ Paired' /\ owned'[List] = {}
      /\ \A u \in Table : owned'[Buckets(u)] = owned[Buckets(u)]
      /\ \A u \in Table : \A l \in Key(u) : u # t => Holds(u, l)' = Holds(u, l)
  BY StoresEffect DEF MemoryInv
<1>2. Empties'
  BY <1>1 DEF MemoryInv, Empties, Empty
<1> QED
  BY <1>1, <1>2 DEF MemoryInv

LEMMA UnstoredStep ==
    ASSUME MemoryInv, NEW t, NEW k, FailsToStore(t, k),
           at' \notin {"destroy", "end"},
           \A u \in Table : (NoTable(u)' => NoTable(u)) /\ (NoEntries(u)' => NoEntries(u)),
           Bucketed'
    PROVE  MemoryInv'
<1>1. Sound' /\ Paired' /\ owned'[List] = {} /\ TablesKept
  BY FailsToStoreEffect DEF MemoryInv, TablesKept
<1> QED
  BY <1>1, KeptStep

(* Buckets are not touched by either, nor is what the process may not do.  *)
LEMMA StoresKeepBuckets ==
    ASSUME MemoryInv, NEW t \in Table, NEW k \in Key(t), Stores(t, k) \/ FailsToStore(t, k)
    PROVE  /\ \A u \in Table : owned'[Buckets(u)] = owned[Buckets(u)]
           /\ defined' = defined /\ failures' \in Nat
           /\ failures > 0 => failures' > 0
<1>1. CASE Stores(t, k)
  BY <1>1, StoresEffect DEF MemoryInv, Sound, Blocks
<1>2. CASE FailsToStore(t, k)
  BY <1>2, FailsToStoreEffect DEF MemoryInv, Sound, Blocks
<1> QED
  BY <1>1, <1>2

LEMMA StoreRecordMemory ==
    ASSUME Control, MemoryInv, StoreRecord
    PROVE  MemoryInv'
<1>1. /\ at = "read" /\ tbl' = tbl /\ sized' = sized /\ inited' = inited
      /\ tbl \in Source /\ tbl \in Table /\ key \in Key(tbl)
  BY DEF StoreRecord, Goto, tables, Control, Where, Named, Table, Source, Key
<1>2. \/ at' = "records" /\ Stores(tbl, key)
      \/ at' = "drop" /\ FailsToStore(tbl, key)
  BY DEF StoreRecord, Goto
<1>3. Bucketed'
  BY <1>1, <1>2, StoresKeepBuckets DEF Control, Where, MemoryInv, Bucketed,
       WalksNothing, NoTable, Table, Source, Early, Running, Late
<1>4. \A u \in Table : (NoTable(u)' => NoTable(u)) /\ (NoEntries(u)' => NoEntries(u))
  BY <1>1, <1>2 DEF Control, Where, NoTable, NoEntries, Table, Source, Early, Running, Late
<1>5. ~NoEntries(tbl)' \/ at' # "records"
  BY <1>1 DEF Control, Where, NoTable, NoEntries, Table, Source, Early, Running, Late
<1> QED
  BY <1>1, <1>2, <1>3, <1>4, <1>5, StoredStep, UnstoredStep

LEMMA ExportMemory ==
    ASSUME Control, MemoryInv, Export
    PROVE  MemoryInv'
<1> DEFINE name == Exported[left]
<1>1. /\ at = "export" /\ tbl' = tbl /\ sized' = sized /\ inited' = inited
      /\ at' \in {"export", "dispatch"}
  BY DEF Export, tables
<1>2. "commands" \in Table /\ name \in Key("commands")
  BY DEF Export, Control, Named, Exported, Table, Key, Command
<1>3. Stores("commands", name) \/ FailsToStore("commands", name)
  BY DEF Export
<1> HIDE DEF name
<1>4. Bucketed'
  BY <1>1, <1>2, <1>3, StoresKeepBuckets DEF Control, Where, MemoryInv, Bucketed,
       WalksNothing, NoTable, Table, Source, Early, Running, Late
<1>5. /\ \A u \in Table : (NoTable(u)' => NoTable(u)) /\ (NoEntries(u)' => NoEntries(u))
      /\ ~NoEntries("commands")'
  BY <1>1 DEF Control, Where, NoTable, NoEntries, Table, Source, Early, Running, Late
<1> QED
  BY <1>1, <1>2, <1>3, <1>4, <1>5, StoredStep, UnstoredStep

LEMMA InsertSoftwareMemory ==
    ASSUME Control, MemoryInv, InsertSoftware
    PROVE  MemoryInv'
<1>1. /\ at = "tokens" /\ tbl' = tbl /\ sized' = sized /\ inited' = inited
      /\ at' \in {"save", "returned"}
      /\ "available" \in Table /\ key \in Key("available")
  BY DEF InsertSoftware, FailsWith, tables, Control, Named, Table, Source, Key
<1>2. Stores("available", key) \/ FailsToStore("available", key)
  BY DEF InsertSoftware
<1>3. Bucketed'
  BY <1>1, <1>2, StoresKeepBuckets DEF Control, Where, MemoryInv, Bucketed,
       WalksNothing, NoTable, Table, Source, Early, Running, Late
<1>4. /\ \A u \in Table : (NoTable(u)' => NoTable(u)) /\ (NoEntries(u)' => NoEntries(u))
      /\ ~NoEntries("available")'
  BY <1>1 DEF Control, Where, NoTable, NoEntries, Table, Source, Early, Running, Late
<1> QED
  BY <1>1, <1>2, <1>3, <1>4, StoredStep, UnstoredStep

-----------------------------------------------------------------------------
(* The steps that make or empty a table.                                   *)
LEMMA BucketsEffect ==
    ASSUME Sound, Paired, NEW t \in Table, owned[Buckets(t)] = {}, Memory(1, 1, {}),
           owned' = [owned EXCEPT ![Buckets(t)] = New(1)]
    PROVE  /\ Sound' /\ Paired' /\ defined' = defined /\ failures' = failures
           /\ owned'[List] = owned[List] /\ owned'[Arguments] = owned[Arguments]
           /\ owned'[Buckets(t)] # {}
           /\ \A u \in Table \ {t} : owned'[Buckets(u)] = owned[Buckets(u)]
           /\ \A u \in Table : \A l \in Key(u) : Holds(u, l)' = Holds(u, l)
<1> DEFINE p == Buckets(t)
<1>1. /\ p \in Place /\ List \in Place \ {p} /\ Arguments \in Place \ {p}
      /\ \A u \in Table \ {t} : Buckets(u) \in Place \ {p}
  BY PlacesExist, PlacesDiffer
<1>2. ASSUME NEW u \in Table, NEW l \in Key(u)
      PROVE  {Body(u, l), Node(u, l), Deps(u, l)} \subseteq Place \ {p}
  <2>1. {Body(u, l), Node(u, l), Deps(u, l)} \subseteq Place
    BY PlacesExist
  <2>2. p \notin {Body(u, l), Node(u, l), Deps(u, l)}
    BY PlacesDiffer
  <2> QED
    BY <2>1, <2>2
<1>3. New(1) # {}
  <2>1. top + 1 \in New(1)
    BY DEF New, Sound, Blocks
  <2> QED
    BY <2>1
<1>4. owned' = [owned EXCEPT ![p] = @ \cup New(1)]
  BY <1>1 DEF Sound, Blocks
<1>5. owned'[p] = New(1) /\ \A q \in Place \ {p} : owned'[q] = owned[q]
  BY <1>1 DEF Sound, Blocks
<1> HIDE DEF p
<1>6. Sound' /\ defined' = defined
  BY <1>1, <1>4, Grow
<1>7. failures' = failures
  BY DEF Memory
<1>8. /\ Paired'
      /\ \A u \in Table : \A l \in Key(u) : Holds(u, l)' = Holds(u, l)
  BY <1>2, <1>5 DEF Paired, Holds
<1> QED
  BY <1>1, <1>3, <1>5, <1>6, <1>7, <1>8 DEF p

(* The buckets could not be allocated, and nothing is lost.                *)
LEMMA NoBucketsEffect ==
    ASSUME Sound, Paired, Memory(0, 1, {}), owned' = owned
    PROVE  Sound' /\ Paired' /\ TablesKept /\ defined' = defined /\ failures' > 0
<1>1. owned' = Without({}) /\ Owned({}) = {} /\ {} \in SUBSET Place
  BY DEF Without, Owned, Sound, Blocks
<1>2. Sound' /\ defined' = defined
  BY <1>1, Release
<1>3. failures' > 0
  BY MemoryCounts DEF Sound, Blocks
<1> QED
  BY <1>2, <1>3 DEF Paired, Holds, TablesKept

LEMMA InitCommandsMemory ==
    ASSUME Control, MemoryInv, InitCommands
    PROVE  MemoryInv'
<1>1. /\ at = "parse" /\ tbl = "commands" /\ sized' = sized \cup {"commands"}
      /\ inited' = inited /\ ~inited
      /\ "commands" \in Table /\ owned[Buckets("commands")] = {} /\ owned[List] = {}
      /\ Sound /\ Paired
  BY DEF InitCommands, Control, Where, Early, MemoryInv, Empties, NoTable, Table
<1>2. CASE /\ Memory(1, 1, {}) /\ Goto("open", "installed")
           /\ owned' = [owned EXCEPT ![Buckets("commands")] = New(1)]
  <2>1. at' = "open" /\ tbl' = "installed"
    BY <1>2 DEF Goto
  <2>2. /\ Sound' /\ Paired' /\ defined' = defined /\ failures' = failures
        /\ owned'[List] = {} /\ owned'[Buckets("commands")] # {}
        /\ \A u \in Table \ {"commands"} : owned'[Buckets(u)] = owned[Buckets(u)]
        /\ \A u \in Table : \A l \in Key(u) : Holds(u, l)' = Holds(u, l)
    BY <1>1, <1>2, BucketsEffect
  <2>3. /\ \A u \in Table : (NoTable(u)' => NoTable(u)) /\ (NoEntries(u)' => NoEntries(u))
        /\ ~NoTable("commands")'
    BY <1>1, <2>1 DEF NoTable, NoEntries, Table, Source, Early, Late
  <2>4. Empties'
    BY <2>1, <2>2, <2>3 DEF MemoryInv, Empties, Empty
  <2>5. Bucketed'
    BY <1>1, <2>1, <2>2 DEF MemoryInv, Bucketed, WalksNothing, NoTable, Table, Source, Running
  <2> QED
    BY <2>2, <2>4, <2>5 DEF MemoryInv
<1>3. CASE Memory(0, 1, {}) /\ Fail /\ owned' = owned /\ tbl' = tbl
  <2>1. at' = "returned"
    BY <1>3 DEF Fail
  <2>2. Sound' /\ Paired' /\ TablesKept /\ defined' = defined /\ failures' > 0
    BY <1>1, <1>3, NoBucketsEffect
  <2>3. \A u \in Table : (NoTable(u)' => NoTable(u)) /\ (NoEntries(u)' => NoEntries(u))
    BY <1>1, <1>3, <2>1 DEF NoTable, NoEntries, Table, Source, Early, Late
  <2>4. Bucketed'
    BY <1>1, <1>3, <2>1, <2>2 DEF MemoryInv, Bucketed, WalksNothing, NoTable, TablesKept,
         Table, Source, Running
  <2> QED
    BY <1>1, <1>3, <2>1, <2>2, <2>3, <2>4, KeptStep
<1> QED
  BY <1>2, <1>3 DEF InitCommands

LEMMA InitTableMemory ==
    ASSUME Control, MemoryInv, InitTable
    PROVE  MemoryInv'
<1>1. /\ at = "init" /\ tbl \in Source /\ tbl \in Table /\ ~inited
      /\ owned[Buckets(tbl)] = {} /\ owned[List] = {}
      /\ Sound /\ Paired
  BY DEF InitTable, Control, Where, Early, MemoryInv, Empties, NoTable, Table, Source
<1>2. CASE /\ Memory(1, 1, {}) /\ owned' = [owned EXCEPT ![Buckets(tbl)] = New(1)]
           /\ sized' = sized \cup {tbl}
           /\ inited' = (tbl = "available")
           /\ Goto(IF tbl = "available" THEN "load" ELSE "init", "available")
  <2>1. /\ at' = IF tbl = "available" THEN "load" ELSE "init"
        /\ tbl' = "available"
    BY <1>2 DEF Goto
  <2>2. /\ Sound' /\ Paired' /\ defined' = defined /\ failures' = failures
        /\ owned'[List] = {} /\ owned'[Buckets(tbl)] # {}
        /\ \A u \in Table \ {tbl} : owned'[Buckets(u)] = owned[Buckets(u)]
        /\ \A u \in Table : \A l \in Key(u) : Holds(u, l)' = Holds(u, l)
    BY <1>1, <1>2, BucketsEffect
  <2>3. /\ \A u \in Table : NoTable(u)' => NoTable(u) /\ u # tbl
        /\ \A u \in Table : NoEntries(u)' => NoEntries(u)
    BY <1>1, <1>2, <2>1 DEF NoTable, NoEntries, Table, Source, Early, Late
  <2>4. Empties'
    BY <2>1, <2>2, <2>3 DEF MemoryInv, Empties, Empty
  <2>5. Bucketed'
    BY <1>1, <1>2, <2>1, <2>2 DEF MemoryInv, Bucketed, WalksNothing, NoTable, Table, Source,
         Running
  <2> QED
    BY <2>2, <2>4, <2>5 DEF MemoryInv
<1>3. CASE /\ tbl = "installed" /\ Memory(0, 1, {}) /\ sized' = sized \cup {tbl}
           /\ Fail /\ owned' = owned /\ tbl' = tbl /\ inited' = inited
  <2>1. at' = "returned"
    BY <1>3 DEF Fail
  <2>2. Sound' /\ Paired' /\ TablesKept /\ defined' = defined /\ failures' > 0
    BY <1>1, <1>3, NoBucketsEffect
  <2>3. \A u \in Table : (NoTable(u)' => NoTable(u) \/ u \in Source)
                      /\ (NoEntries(u)' => NoEntries(u))
    BY <1>1, <1>3, <2>1 DEF NoTable, NoEntries, Table, Source, Early, Late
  <2>4. owned[Buckets("available")] = {} /\ owned[Buckets("installed")] = {}
    BY <1>1, <1>3 DEF MemoryInv, Empties, NoTable, Table, Source, Early
  <2>5. Empties'
    BY <1>1, <1>3, <2>1, <2>2, <2>3, <2>4 DEF MemoryInv, Empties, Empty, TablesKept, Source
  <2>6. Bucketed'
    BY <1>1, <1>3, <2>1, <2>2 DEF MemoryInv, Bucketed, WalksNothing, NoTable, TablesKept,
         Table, Source, Running
  <2> QED
    BY <2>2, <2>5, <2>6 DEF MemoryInv
<1>4. CASE /\ tbl = "available" /\ Memory(0, 1, Owned(Places("installed")))
           /\ owned' = Without(Places("installed"))
           /\ sized' = (sized \cup {tbl}) \ {"installed"}
           /\ Fail /\ tbl' = tbl /\ inited' = inited
  <2>1. at' = "returned"
    BY <1>4 DEF Fail
  <2>2. "installed" \in Table
    BY DEF Table, Source
  <2>3. /\ Sound' /\ defined' = defined /\ Paired' /\ owned'[List] = owned[List]
        /\ owned'[Buckets("installed")] = {} /\ Empty("installed")'
        /\ \A u \in Table \ {"installed"} :
              /\ owned'[Buckets(u)] = owned[Buckets(u)]
              /\ \A l \in Key(u) : Holds(u, l)' = Holds(u, l)
    BY <1>1, <1>4, <2>2, ReleaseTable DEF Empty
  <2>4. failures' > 0
    BY <1>1, <1>4, MemoryCounts DEF Sound, Blocks
  <2>5. \A u \in Table \ {"installed"} :
           (NoTable(u)' => NoTable(u)) /\ (NoEntries(u)' => NoEntries(u))
    BY <1>1, <1>4, <2>1 DEF NoTable, NoEntries, Table, Source, Early, Late
  <2>6. Empties'
    BY <1>1, <2>1, <2>3, <2>5 DEF MemoryInv, Empties, Empty
  <2>7. Bucketed'
    BY <1>1, <1>4, <2>1, <2>3, <2>4 DEF MemoryInv, Bucketed, WalksNothing, NoTable,
         Table, Source, Running
  <2> QED
    BY <2>3, <2>6, <2>7 DEF MemoryInv
<1> QED
  BY <1>2, <1>3, <1>4 DEF InitTable

LEMMA ReadHeaderMemory ==
    ASSUME Control, MemoryInv, ReadHeader
    PROVE  MemoryInv'
<1>1. /\ at = "load" /\ tbl \in Source /\ tbl \in Table /\ tbl' = tbl
      /\ sized' = sized /\ inited' = inited
      /\ at' = "records" \/ at' = "returned"
      /\ owned[List] = {} /\ Sound /\ Paired
  BY DEF ReadHeader, Goto, Fail, tables, Control, Where, MemoryInv, Empties, Table, Source
<1>2. inited /\ Empty(tbl)
  BY <1>1 DEF Control, Where, Running, MemoryInv, Empties, NoEntries, Source
<1>3. \A u \in Table : (NoTable(u)' => NoTable(u)) /\ (NoEntries(u)' => NoEntries(u))
  BY <1>1, <1>2 DEF NoTable, NoEntries, Table, Source, Early, Late
<1>4. /\ Sound' /\ Paired' /\ TablesKept /\ defined' = defined /\ failures' = failures
      /\ owned'[List] = {}
  <2>1. CASE UNCHANGED memory
    BY <1>1, <2>1 DEF memory, Sound, Blocks, Kept, Apart, Paired, Holds, TablesKept
  <2>2. CASE Memory(0, 0, Owned(Linked(tbl))) /\ owned' = Without(Entries(tbl))
    <3>1. \A q \in Entries(tbl) : owned[q] = {}
      BY <1>1, <1>2 DEF Entries, Linked, Paired, Empty, Holds
    <3>2. \A p \in Place : owned'[p] = owned[p]
      BY <2>2, <3>1 DEF Without
    <3>3. Sound' /\ defined' = defined
      <4>1. /\ Linked(tbl) \in SUBSET Place /\ Entries(tbl) \in SUBSET Place
            /\ Linked(tbl) \subseteq Entries(tbl)
        BY <1>1, PlacesExist
      <4> QED
        BY <1>1, <2>2, <3>1, <4>1, Release
    <3>4. failures' = failures
      BY <2>2 DEF Memory
    <3> QED
      BY <1>1, <3>2, <3>3, <3>4, PlacesExist DEF TablesKept, Paired, Holds
  <2> QED
    BY <2>1, <2>2 DEF ReadHeader
<1>5. Bucketed'
  BY <1>1, <1>4 DEF Control, Where, MemoryInv, TablesKept, Bucketed, WalksNothing,
       NoTable, Table, Source, Early, Running, Late
<1> QED
  BY <1>1, <1>3, <1>4, <1>5, KeptStep

(* A table that is freed is not walked again.                              *)
LEMMA FreeTableEffect ==
    ASSUME Sound, Paired, NEW t \in Table, FreeTable(t)
    PROVE  /\ Sound' /\ Paired' /\ defined' = defined /\ failures' = failures
           /\ sized' = sized \ {t} /\ ~WalksNothing(t)
           /\ owned'[List] = owned[List] /\ owned'[Arguments] = owned[Arguments]
           /\ owned'[Buckets(t)] = {} /\ Empty(t)'
           /\ \A u \in Table \ {t} :
                 /\ owned'[Buckets(u)] = owned[Buckets(u)]
                 /\ \A k \in Key(u) : Holds(u, k)' = Holds(u, k)
<1>1. /\ Memory(0, 0, Owned(Places(t))) /\ owned' = Without(Places(t))
      /\ sized' = sized \ {t} /\ ~WalksNothing(t)
  BY DEF FreeTable
<1>2. failures' = failures
  BY <1>1 DEF Memory
<1> QED
  BY <1>1, <1>2, ReleaseTable DEF Empty

LEMMA DropMemory ==
    ASSUME Control, MemoryInv, Drop
    PROVE  MemoryInv'
<1>1. /\ at = "drop" /\ tbl \in Source /\ tbl \in Table /\ tbl' = tbl /\ inited /\ inited' = inited
      /\ at' = "returned" /\ FreeTable(tbl) /\ owned[List] = {} /\ Sound /\ Paired
  BY DEF Drop, Fail, Control, Where, Running, MemoryInv, Empties, Table, Source
<1>2. /\ Sound' /\ Paired' /\ defined' = defined /\ failures' = failures
      /\ sized' = sized \ {tbl}
      /\ owned'[List] = {} /\ owned'[Buckets(tbl)] = {} /\ Empty(tbl)'
      /\ \A u \in Table \ {tbl} :
            /\ owned'[Buckets(u)] = owned[Buckets(u)]
            /\ \A k \in Key(u) : Holds(u, k)' = Holds(u, k)
  BY <1>1, FreeTableEffect
<1>3. \A u \in Table : (NoTable(u)' => NoTable(u)) /\ (NoEntries(u)' => NoEntries(u))
  BY <1>1 DEF NoTable, NoEntries, Table, Source, Early, Late
<1>4. Empties'
  BY <1>1, <1>2, <1>3 DEF MemoryInv, Empties, Empty
<1>5. Bucketed'
  BY <1>1, <1>2 DEF MemoryInv, Bucketed, WalksNothing, NoTable, Table, Source, Running
<1> QED
  BY <1>2, <1>4, <1>5 DEF MemoryInv

LEMMA DestroyMemory ==
    ASSUME Control, MemoryInv, Destroy
    PROVE  MemoryInv'
<1>1. /\ at = "destroy" /\ tbl \in Table /\ inited' = inited /\ inited \in BOOLEAN
      /\ tbl \in Source => inited
      /\ FreeTable(tbl) /\ owned[List] = {} /\ owned[Arguments] = {} /\ Sound /\ Paired
  BY DEF Destroy, Control, Where, MemoryInv, Empties
<1>0. PICK t \in Table : t = tbl
  BY <1>1
<1>2. \/ tbl = "commands" /\ inited /\ at' = "destroy" /\ tbl' = "available"
      \/ tbl = "commands" /\ ~inited /\ at' = "end" /\ tbl' = tbl
      \/ tbl = "available" /\ at' = "destroy" /\ tbl' = "installed"
      \/ tbl = "installed" /\ at' = "end" /\ tbl' = tbl
  BY <1>1 DEF Destroy, After, Goto, Table, Source
<1>3. /\ Sound' /\ Paired' /\ defined' = defined /\ failures' = failures
      /\ sized' = sized \ {t} /\ ~WalksNothing(t)
      /\ owned'[List] = {} /\ owned'[Arguments] = {}
      /\ owned'[Buckets(t)] = {} /\ Empty(t)'
      /\ \A u \in Table \ {t} :
            /\ owned'[Buckets(u)] = owned[Buckets(u)]
            /\ \A k \in Key(u) : Holds(u, k)' = Holds(u, k)
  <2>1. /\ owned'[List] = owned[List] /\ owned'[Arguments] = owned[Arguments]
        /\ Sound' /\ Paired' /\ defined' = defined /\ failures' = failures
        /\ sized' = sized \ {t} /\ ~WalksNothing(t)
        /\ owned'[Buckets(t)] = {} /\ Empty(t)'
    BY <1>1, <1>0, FreeTableEffect
  <2>2. ASSUME NEW u \in Table \ {t}
        PROVE  /\ owned'[Buckets(u)] = owned[Buckets(u)]
               /\ \A k \in Key(u) : Holds(u, k)' = Holds(u, k)
    BY <1>1, <1>0, FreeTableEffect
  <2> QED
    BY <1>1, <1>0, <2>1, <2>2
<1>4. \A u \in Table \ {t} : (NoTable(u)' => NoTable(u)) /\ (NoEntries(u)' => NoEntries(u))
  BY <1>1, <1>0, <1>2 DEF NoTable, NoEntries, Table, Source, Early, Late
<1>5. Empties'
  <2>1. ASSUME NEW u \in Table
        PROVE  /\ NoTable(u)' => owned'[Buckets(u)] = {}
               /\ NoEntries(u)' => Empty(u)'
    <3>1. CASE u = t
      BY <1>3, <1>0, <3>1
    <3>2. CASE u # t
      <4>1. (NoTable(u)' => NoTable(u)) /\ (NoEntries(u)' => NoEntries(u))
        BY <1>4, <3>2
      <4>2. /\ owned'[Buckets(u)] = owned[Buckets(u)]
            /\ \A k \in Key(u) : Holds(u, k)' = Holds(u, k)
        BY <1>3, <1>0, <3>2
      <4>3. (NoTable(u) => owned[Buckets(u)] = {}) /\ (NoEntries(u) => Empty(u))
        BY DEF MemoryInv, Empties
      <4> QED
        BY <4>1, <4>2, <4>3 DEF Empty
    <3> QED
      BY <3>1, <3>2
  <2> QED
    BY <1>3, <1>0, <2>1 DEF Empties
<1>6. Bucketed'
  BY <1>1, <1>0, <1>2, <1>3 DEF MemoryInv, Bucketed, WalksNothing, NoTable, Table, Source, Running
<1> QED
  BY <1>3, <1>0, <1>5, <1>6 DEF MemoryInv

LEMMA UndefinedMemory ==
    ASSUME Control, MemoryInv, Undefined
    PROVE  MemoryInv'
<1>1. /\ at = "destroy" /\ defined' = FALSE
      /\ UNCHANGED <<at, tbl, heap, top, owned, failures, sized, inited>>
  BY DEF Undefined, tables
<1>2. tbl = "commands" /\ WalksNothing("commands")
  <2>1. tbl \in Source => inited /\ tbl \in streams
    BY <1>1 DEF Control, Where, Opened, Source
  <2>2. tbl \in Source => ~WalksNothing(tbl)
    BY <2>1 DEF MemoryInv, Bucketed
  <2> QED
    BY <2>1, <2>2 DEF Undefined, Control, Where, Table
<1>3. Sound' /\ Paired'
  BY <1>1 DEF MemoryInv, Sound, Blocks, Kept, Apart, Paired, Holds
<1>4. Empties'
  BY <1>1 DEF MemoryInv, Empties, Empty, Holds, NoTable, NoEntries
<1>5. Bucketed'
  BY <1>1, <1>2 DEF MemoryInv, Bucketed, WalksNothing, NoTable
<1> QED
  BY <1>3, <1>4, <1>5 DEF MemoryInv

-----------------------------------------------------------------------------
LEMMA MemoryInit == Init => MemoryInv
<1> SUFFICES ASSUME Init
             PROVE  MemoryInv
  OBVIOUS
<1>1. /\ at = "parse" /\ heap = {} /\ top = 0 /\ failures = 0 /\ defined = TRUE
      /\ sized = {} /\ inited = FALSE /\ owned = [p \in Place |-> {}]
  BY DEF Init
<1>2. \A p \in Place : owned[p] = {}
  BY <1>1
<1>3. Sound
  BY <1>1, <1>2 DEF Sound, Blocks, Kept, Apart
<1>4. Empties /\ Paired
  BY <1>1, <1>2, PlacesExist DEF Empties, Empty, Paired, Holds
<1>5. Bucketed
  BY <1>1 DEF Bucketed, WalksNothing, Running
<1> QED
  BY <1>3, <1>4, <1>5 DEF MemoryInv

LEMMA MemoryStep ==
    ASSUME Control, MemoryInv, [Next]_vars
    PROVE  MemoryInv'
<1>1. CASE UNCHANGED vars
  <2>1. UNCHANGED <<heap, top, owned, failures, defined, sized, inited, at, tbl>>
    BY <1>1 DEF vars, memory, tables
  <2>2. Sound' /\ Paired'
    BY <2>1 DEF MemoryInv, Sound, Blocks, Kept, Apart, Paired, Holds
  <2>3. Empties' /\ Bucketed'
    BY <2>1 DEF MemoryInv, Empties, Empty, Holds, NoTable, NoEntries, Bucketed, WalksNothing
  <2> QED
    BY <2>2, <2>3 DEF MemoryInv
<1>2. CASE Next
  BY <1>2, ParseMemory, InitCommandsMemory, OpenMemory, InitTableMemory,
     ReadHeaderMemory, EndRecordsMemory, ReadRecordMemory, ReadDependencyMemory,
     StoreRecordMemory, DropMemory, ExportMemory, DispatchMemory, EchoMemory,
     ListTableMemory, UsageMemory, InstallSoftwareMemory, AddMemory,
     OptionsMemory, PushTokenMemory, InsertSoftwareMemory, SaveMemory,
     FreeConfigMemory, DestroyMemory, UndefinedMemory DEF Next
<1> QED
  BY <1>1, <1>2

(* What the theorems below follow from.                                    *)
ProcessInv == Control /\ MemoryInv

(* After any command line, any records and any failures of files and       *)
(* allocations, the files, tables and blocks of the process are where its  *)
(* place in the code says.                                                 *)
THEOREM ProcessIsSound == Spec => []ProcessInv
<1>1. Init => ProcessInv
  BY ControlInit, MemoryInit DEF ProcessInv
<1>2. ProcessInv /\ [Next]_vars => ProcessInv'
  BY ControlStep, MemoryStep DEF ProcessInv
<1> QED
  BY <1>1, <1>2, PTL DEF Spec

-----------------------------------------------------------------------------
(* No block is freed while a place still points to it, and none has two    *)
(* places, whatever fails.                                                 *)
THEOREM EveryBlockHasOneOwner == Spec => []OneOwner
<1>1. ProcessInv => OneOwner
  <2> SUFFICES ASSUME ProcessInv
               PROVE  OneOwner
    OBVIOUS
  <2>1. Blocks
    BY DEF ProcessInv, MemoryInv, Sound
  <2>2. Owned(Place) \subseteq heap
    BY <2>1, OwnedIsAllocated
  <2> QED
    BY <2>1, <2>2 DEF OneOwner, Blocks, Apart
<1> QED
  BY <1>1, ProcessIsSound, PTL

(* ezi_app_destroy() is defined on every path, with one exception.         *)
THEOREM DestroyFreesOnce == Spec => []DestroyIsDefined
<1>1. ProcessInv => DestroyIsDefined
  BY DEF ProcessInv, MemoryInv, Bucketed, DestroyIsDefined
<1> QED
  BY <1>1, ProcessIsSound, PTL

(* A process that ends has no place left that points to anything.          *)
LEMMA NothingIsOwnedAtTheEnd ==
    ASSUME MemoryInv, at = "end"
    PROVE  \A p \in Place : owned[p] = {}
<1>1. \A t \in Table : NoTable(t) /\ NoEntries(t)
  BY DEF NoTable, NoEntries
<1>2. /\ owned[List] = {} /\ owned[Arguments] = {}
      /\ \A t \in Table : owned[Buckets(t)] = {} /\ Empty(t)
  BY <1>1 DEF MemoryInv, Empties
<1>3. \A t \in Table : \A k \in Key(t) :
         owned[Node(t, k)] = {} /\ owned[Body(t, k)] = {} /\ owned[Deps(t, k)] = {}
  BY <1>2 DEF Empty, Holds, MemoryInv, Paired
<1>4. ASSUME NEW p \in Place
      PROVE  \/ p \in {Arguments, List}
             \/ \E t \in Table : \/ p = Buckets(t)
                                 \/ \E k \in Key(t) : p \in {Body(t, k), Node(t, k), Deps(t, k)}
  BY DEF Place, Places, Entries, Linked
<1> QED
  BY <1>2, <1>3, <1>4

(* As long as no allocation fails a process gives back all it took.        *)
THEOREM ProcessEndsClean == Spec => []CleanEnd
<1>1. ProcessInv => CleanEnd
  <2> SUFFICES ASSUME ProcessInv, failures = 0
               PROVE  /\ heap = Owned(Place)
                      /\ at = "end" => /\ heap = {}
                                       /\ streams = {} \/ (streams = {"installed"} /\ ~smooth)
    BY DEF CleanEnd
  <2>1. heap = Owned(Place)
    <3>1. Owned(Place) \subseteq heap
      BY OwnedIsAllocated DEF ProcessInv, MemoryInv, Sound
    <3>2. heap \subseteq Owned(Place)
      BY DEF ProcessInv, MemoryInv, Sound, Kept, Owned
    <3> QED
      BY <3>1, <3>2
  <2>2. ASSUME at = "end"
        PROVE  heap = {}
    BY <2>1, <2>2, NothingIsOwnedAtTheEnd DEF ProcessInv, Owned
  <2>3. ASSUME at = "end"
        PROVE  streams = {} \/ (streams = {"installed"} /\ ~smooth)
    BY <2>3 DEF ProcessInv, Control, Opened, LeftOpen
  <2> QED
    BY <2>1, <2>2, <2>3
<1> QED
  BY <1>1, ProcessIsSound, PTL

-----------------------------------------------------------------------------
(* Types of what the invariant of the process leaves open.                 *)
Bounded ==
    /\ left \in Nat /\ deps \in 0..MaxDeps /\ opts \in SUBSET Option
    /\ failures \in 0..MaxFailures
    /\ smooth \in BOOLEAN /\ sized \in SUBSET Table /\ streams \in SUBSET Source
    /\ errno \in {"clear", "stale", "set"}
    /\ logged \in {"nothing", "clear", "stale", "set"}
    /\ status \in {"running", "ok", "failed"}

LEMMA MemoryBounded ==
    ASSUME failures \in 0..MaxFailures, NEW n, NEW m, NEW S, Memory(n, m, S)
    PROVE  failures' \in 0..MaxFailures
  BY BoundsAssumption DEF Memory

LEMMA BoundedStep ==
    ASSUME Bounded, Control, [Next]_vars
    PROVE  Bounded'
<1>1. CASE UNCHANGED vars
  BY <1>1 DEF Bounded, vars, outcome, record, memory, tables, files
<1>2. CASE Parse
  BY <1>2, MemoryBounded, BoundsAssumption DEF Bounded, Control, Where, Fail,
     Goto, Succeeds, FailsWith, Table, Source, record, memory, tables, files,
     outcome, Parse
<1>3. CASE InitCommands
  BY <1>3, MemoryBounded, BoundsAssumption DEF Bounded, Control, Where, Fail,
     Goto, Succeeds, FailsWith, Table, Source, record, memory, tables, files,
     outcome, InitCommands
<1>4. CASE Open
  BY <1>4, MemoryBounded, BoundsAssumption DEF Bounded, Control, Where, Fail,
     Goto, Succeeds, FailsWith, Table, Source, record, memory, tables, files,
     outcome, Open
<1>5. CASE InitTable
  BY <1>5, MemoryBounded, BoundsAssumption DEF Bounded, Control, Where, Fail,
     Goto, Succeeds, FailsWith, Table, Source, record, memory, tables, files,
     outcome, InitTable
<1>6. CASE ReadHeader
  <2>1. left' \in Nat
    <3>1. left' = left \/ left' \in 0..MaxRecords[tbl]
      BY <1>6 DEF ReadHeader
    <3>2. MaxRecords[tbl] \in Nat
      BY <1>6, BoundsAssumption DEF ReadHeader, Control, Where
    <3> QED
      BY <3>1, <3>2 DEF Bounded
  <2>2. failures' \in 0..MaxFailures
    BY <1>6, MemoryBounded DEF Bounded, ReadHeader, memory
  <2> QED
    BY <1>6, <2>1, <2>2 DEF Bounded, Fail, Goto, record, tables, outcome, ReadHeader
<1>7. CASE EndRecords
  BY <1>7, MemoryBounded, BoundsAssumption DEF Bounded, Control, Where, Fail,
     Goto, Succeeds, FailsWith, Table, Source, record, memory, tables, files,
     outcome, EndRecords
<1>8. CASE ReadRecord
  <2>1. left' \in Nat
    BY <1>8 DEF Bounded, ReadRecord
  <2>2. deps' \in 0..MaxDeps
    BY <1>8 DEF Bounded, ReadRecord
  <2> QED
    BY <1>8, <2>1, <2>2 DEF Bounded, Goto, memory, tables, outcome, ReadRecord
<1>9. CASE ReadDependency
  <2>1. deps' \in 0..MaxDeps
    BY <1>9, BoundsAssumption DEF Bounded, ReadDependency, MoreDependencies
  <2>2. failures' \in 0..MaxFailures
    BY <1>9, MemoryBounded DEF Bounded, ReadDependency
  <2> QED
    BY <1>9, <2>1, <2>2 DEF Bounded, tables, ReadDependency
<1>10. CASE StoreRecord
  BY <1>10, MemoryBounded, BoundsAssumption DEF Bounded, Control, Where, Fail,
     Goto, Succeeds, FailsWith, Table, Source, record, memory, tables, files,
     outcome, StoreRecord, Stores, FailsToStore
<1>11. CASE Drop
  BY <1>11, MemoryBounded, BoundsAssumption DEF Bounded, Control, Where, Fail,
     Goto, Succeeds, FailsWith, Table, Source, record, memory, tables, files,
     outcome, Drop, FreeTable
<1>12. CASE Export
  <2>1. left' \in Nat
    BY <1>12 DEF Export, Control, Named
  <2>2. failures' \in 0..MaxFailures
    BY <1>12, MemoryBounded DEF Bounded, Export, Stores, FailsToStore
  <2> QED
    BY <1>12, <2>1, <2>2 DEF Bounded, record, tables, files, Export
<1>13. CASE Dispatch
  BY <1>13, MemoryBounded, BoundsAssumption DEF Bounded, Control, Where, Fail,
     Goto, Succeeds, FailsWith, Table, Source, record, memory, tables, files,
     outcome, Dispatch
<1>14. CASE Echo
  BY <1>14, MemoryBounded, BoundsAssumption DEF Bounded, Control, Where, Fail,
     Goto, Succeeds, FailsWith, Table, Source, record, memory, tables, files,
     outcome, Echo, Execute
<1>15. CASE ListTable
  BY <1>15, MemoryBounded, BoundsAssumption DEF Bounded, Control, Where, Fail,
     Goto, Succeeds, FailsWith, Table, Source, record, memory, tables, files,
     outcome, ListTable, Execute
<1>16. CASE Usage
  BY <1>16, MemoryBounded, BoundsAssumption DEF Bounded, Control, Where, Fail,
     Goto, Succeeds, FailsWith, Table, Source, record, memory, tables, files,
     outcome, Usage, Execute
<1>17. CASE InstallSoftware
  BY <1>17, MemoryBounded, BoundsAssumption DEF Bounded, Control, Where, Fail,
     Goto, Succeeds, FailsWith, Table, Source, record, memory, tables, files,
     outcome, InstallSoftware, Execute
<1>18. CASE Add
  BY <1>18, MemoryBounded, BoundsAssumption DEF Bounded, Control, Where, Fail,
     Goto, Succeeds, FailsWith, Table, Source, record, memory, tables, files,
     outcome, Add, Execute
<1>19. CASE Options
  BY <1>19, MemoryBounded, BoundsAssumption DEF Bounded, Control, Where, Fail,
     Goto, Succeeds, FailsWith, Table, Source, record, memory, tables, files,
     outcome, Options, TakeOption, SkipWord, RejectOption, EndOptions
<1>20. CASE PushToken
  BY <1>20, MemoryBounded, BoundsAssumption DEF Bounded, Control, Where, Fail,
     Goto, Succeeds, FailsWith, Table, Source, record, memory, tables, files,
     outcome, PushToken, MoreDependencies
<1>21. CASE InsertSoftware
  BY <1>21, MemoryBounded, BoundsAssumption DEF Bounded, Control, Where, Fail,
     Goto, Succeeds, FailsWith, Table, Source, record, memory, tables, files,
     outcome, InsertSoftware, Stores, FailsToStore
<1>22. CASE Save
  BY <1>22, MemoryBounded, BoundsAssumption DEF Bounded, Control, Where, Fail,
     Goto, Succeeds, FailsWith, Table, Source, record, memory, tables, files,
     outcome, Save
<1>23. CASE FreeConfig
  BY <1>23, MemoryBounded, BoundsAssumption DEF Bounded, Control, Where, Fail,
     Goto, Succeeds, FailsWith, Table, Source, record, memory, tables, files,
     outcome, FreeConfig
<1>24. CASE Destroy
  BY <1>24, MemoryBounded, BoundsAssumption DEF Bounded, Control, Where, Fail,
     Goto, Succeeds, FailsWith, Table, Source, record, memory, tables, files,
     outcome, Destroy, After, FreeTable
<1>25. CASE Undefined
  BY <1>25, MemoryBounded, BoundsAssumption DEF Bounded, Control, Where, Fail,
     Goto, Succeeds, FailsWith, Table, Source, record, memory, tables, files,
     outcome, Undefined
<1> QED
  BY <1>1, <1>2, <1>3, <1>4, <1>5, <1>6, <1>7, <1>8, <1>9, <1>10, <1>11, <1>12,
     <1>13, <1>14, <1>15, <1>16, <1>17, <1>18, <1>19, <1>20, <1>21, <1>22,
     <1>23, <1>24, <1>25 DEF Next

LEMMA BoundedInit == Init => Bounded
<1> SUFFICES ASSUME Init
             PROVE  Bounded
  OBVIOUS
<1>1. left \in Nat
  <2>1. line \in Lines /\ left = IF line = << >> THEN 0 ELSE Len(line) - 1
    BY DEF Init
  <2>2. line \in Seq({line[i] : i \in DOMAIN line})
    BY <2>1, LinesAssumption
  <2>3. line = << >> \/ Len(line) \in Nat \ {0}
    BY <2>2, EmptySeq
  <2> QED
    BY <2>1, <2>3
<1>2. /\ deps = 0 /\ opts = {} /\ failures = 0 /\ smooth = TRUE /\ sized = {}
      /\ streams = {} /\ errno = "clear" /\ logged = "nothing" /\ status = "running"
  BY DEF Init
<1> QED
  BY <1>1, <1>2, BoundsAssumption DEF Bounded

(* Types of the process, for any command line and any bounds.              *)
THEOREM ProcessTypes == Spec => []TypeOK
<1>1. Init => Bounded
  BY BoundedInit
<1>2. Bounded /\ ProcessInv /\ [Next]_vars => Bounded'
  BY BoundedStep DEF ProcessInv
<1>3. Bounded /\ ProcessInv => TypeOK
  BY DEF Bounded, ProcessInv, Control, Where, Named, MemoryInv, Sound, Blocks, TypeOK
<1> QED
  BY <1>1, <1>2, <1>3, ProcessIsSound, PTL DEF Spec

-----------------------------------------------------------------------------
(* What every step keeps: the command line, and what went wrong.           *)
LEMMA WhatWentWrong ==
    ASSUME Control, [Next]_vars
    PROVE  /\ line' = line /\ (smooth' => smooth)
           /\ failures' \in Nat /\ (failures' = 0 => failures = 0)
<1>0. failures \in Nat
  BY DEF Control, Opened
<1>1. CASE UNCHANGED vars
  BY <1>0, <1>1 DEF vars, memory, files
<1>2. CASE Parse
  BY <1>2, <1>0, MemoryCounts DEF record, memory, tables, files, outcome,
     Goto, Parse
<1>3. CASE InitCommands
  BY <1>3, <1>0, MemoryCounts DEF record, memory, tables, files, outcome,
     Goto, InitCommands
<1>4. CASE Open
  BY <1>4, <1>0, MemoryCounts DEF record, memory, tables, files, outcome,
     Goto, Open
<1>5. CASE InitTable
  BY <1>5, <1>0, MemoryCounts DEF record, memory, tables, files, outcome,
     Goto, InitTable
<1>6. CASE ReadHeader
  BY <1>6, <1>0, MemoryCounts DEF record, memory, tables, files, outcome,
     Goto, ReadHeader
<1>7. CASE EndRecords
  BY <1>7, <1>0, MemoryCounts DEF record, memory, tables, files, outcome,
     Goto, EndRecords
<1>8. CASE ReadRecord
  BY <1>8, <1>0, MemoryCounts DEF record, memory, tables, files, outcome,
     Goto, ReadRecord
<1>9. CASE ReadDependency
  BY <1>9, <1>0, MemoryCounts DEF record, memory, tables, files, outcome,
     Goto, ReadDependency
<1>10. CASE StoreRecord
  BY <1>10, <1>0, MemoryCounts DEF record, memory, tables, files, outcome,
     Goto, StoreRecord, Stores, FailsToStore
<1>11. CASE Drop
  BY <1>11, <1>0, MemoryCounts DEF record, memory, tables, files, outcome,
     Goto, Drop, FreeTable
<1>12. CASE Export
  BY <1>12, <1>0, MemoryCounts DEF record, memory, tables, files, outcome,
     Goto, Export, Stores, FailsToStore
<1>13. CASE Dispatch
  BY <1>13, <1>0, MemoryCounts DEF record, memory, tables, files, outcome,
     Goto, Dispatch
<1>14. CASE Echo
  BY <1>14, <1>0, MemoryCounts DEF record, memory, tables, files, outcome,
     Goto, Echo, Execute
<1>15. CASE ListTable
  BY <1>15, <1>0, MemoryCounts DEF record, memory, tables, files, outcome,
     Goto, ListTable, Execute
<1>16. CASE Usage
  BY <1>16, <1>0, MemoryCounts DEF record, memory, tables, files, outcome,
     Goto, Usage, Execute
<1>17. CASE InstallSoftware
  BY <1>17, <1>0, MemoryCounts DEF record, memory, tables, files, outcome,
     Goto, InstallSoftware, Execute
<1>18. CASE Add
  BY <1>18, <1>0, MemoryCounts DEF record, memory, tables, files, outcome,
     Goto, Add, Execute
<1>19. CASE Options
  BY <1>19, <1>0, MemoryCounts DEF record, memory, tables, files, outcome,
     Goto, Options, TakeOption, SkipWord, RejectOption, EndOptions
<1>20. CASE PushToken
  BY <1>20, <1>0, MemoryCounts DEF record, memory, tables, files, outcome,
     Goto, PushToken
<1>21. CASE InsertSoftware
  BY <1>21, <1>0, MemoryCounts DEF record, memory, tables, files, outcome,
     Goto, InsertSoftware, Stores, FailsToStore
<1>22. CASE Save
  BY <1>22, <1>0, MemoryCounts DEF record, memory, tables, files, outcome,
     Goto, Save
<1>23. CASE FreeConfig
  BY <1>23, <1>0, MemoryCounts DEF record, memory, tables, files, outcome,
     Goto, FreeConfig
<1>24. CASE Destroy
  BY <1>24, <1>0, MemoryCounts DEF record, memory, tables, files, outcome,
     Goto, Destroy, FreeTable, After, Source
<1>25. CASE Undefined
  BY <1>25, <1>0, MemoryCounts DEF record, memory, tables, files, outcome,
     Goto, Undefined
<1> QED
  BY <1>1, <1>2, <1>3, <1>4, <1>5, <1>6, <1>7, <1>8, <1>9, <1>10, <1>11,
     <1>12, <1>13, <1>14, <1>15, <1>16, <1>17, <1>18, <1>19, <1>20, <1>21,
     <1>22, <1>23, <1>24, <1>25 DEF Next

(* The commands that have been exported can be looked up, unless an        *)
(* allocation failed, and then errno tells it.                             *)
Explained == errno = "stale" /\ failures > 0

Exports ==
    /\ at = "export" =>
          \A j \in (left + 1)..5 : Holds("commands", Exported[j]) \/ Explained
    /\ at \in {"dispatch", "execute"} =>
          \A k \in Command : Holds("commands", k) \/ Explained

(* The five names are different and are those of the commands.             *)
LEMMA FiveCommands ==
    /\ \A j \in 1..5 : Exported[j] \in Command
    /\ \A i, j \in 1..5 : i # j => Exported[i] # Exported[j]
    /\ \A k \in Command : \E j \in 1..5 : k = Exported[j]
    /\ "commands" \in Table /\ Key("commands") = Command
<1>1. /\ Exported[1] = "usage" /\ Exported[2] = "install" /\ Exported[3] = "list"
      /\ Exported[4] = "add" /\ Exported[5] = "echo"
  BY DEF Exported
<1>2. \A j \in 1..5 : j \in {1, 2, 3, 4, 5}
  OBVIOUS
<1> HIDE DEF Exported
<1> QED
  BY <1>1, <1>2 DEF Command, Table, Key

(* An exported command is there, or is explained.                          *)
LEMMA ExportExports ==
    ASSUME Exports, Control, MemoryInv, Export
    PROVE  Exports'
<1>0. left \in 1..5
  BY DEF Export, Control, Named
<1>name. PICK name \in Command : name = Exported[left]
  BY <1>0, FiveCommands
<1>1. /\ at = "export" /\ left \in 1..5 /\ left' = left - 1
      /\ name \in Key("commands") /\ "commands" \in Table
      /\ at' = IF left = 1 THEN "dispatch" ELSE "export"
  BY <1>0, FiveCommands DEF Export
<1>2. \A j \in left..5 : (Holds("commands", Exported[j]) \/ Explained)'
  <2>1. CASE Stores("commands", name) /\ UNCHANGED errno
    <3>1. /\ Holds("commands", name)' /\ failures' = failures
          /\ \A l \in Command : l # name =>
                Holds("commands", l)' = Holds("commands", l)
      BY <1>1, <2>1, StoresEffect, FiveCommands DEF MemoryInv
    <3> SUFFICES ASSUME NEW j \in left..5
                 PROVE  (Holds("commands", Exported[j]) \/ Explained)'
      OBVIOUS
    <3>2. /\ j \in 1..5 /\ Exported[j] \in Command
          /\ Exported[j] = name \/ j \in (left + 1)..5
      BY <1>1, <1>name, FiveCommands
    <3>3. CASE Exported[j] = name
      BY <3>1, <3>3
    <3>4. CASE Exported[j] # name
      <4>1. Holds("commands", Exported[j]) \/ Explained
        BY <1>1, <3>2, <3>4 DEF Exports
      <4>2. Explained' = Explained
        BY <2>1, <3>1 DEF Explained
      <4> QED
        BY <3>1, <3>2, <3>4, <4>1, <4>2
    <3> QED
      BY <3>3, <3>4
  <2>2. CASE FailsToStore("commands", name) /\ errno' = "stale"
    <3>1. failures' > 0
      BY <2>2, FailsToStoreEffect DEF MemoryInv
    <3> QED
      BY <2>2, <3>1 DEF Explained
  <2> QED
    BY <1>name, <2>1, <2>2 DEF Export
<1>3. at' = "export" =>
         \A j \in (left' + 1)..5 : (Holds("commands", Exported[j]) \/ Explained)'
  BY <1>1, <1>2
<1>4. at' \in {"dispatch", "execute"} =>
         \A k \in Command : (Holds("commands", k) \/ Explained)'
  <2> SUFFICES ASSUME at' \in {"dispatch", "execute"}, NEW k \in Command
               PROVE  (Holds("commands", k) \/ Explained)'
    OBVIOUS
  <2>1. left = 1
    BY <1>1
  <2>2. PICK j \in 1..5 : k = Exported[j]
    BY FiveCommands
  <2> QED
    BY <1>2, <2>1, <2>2
<1> QED
  BY <1>3, <1>4 DEF Exports

(* No step loses an exported command before it was looked up.              *)
LEMMA ExportsStep ==
    ASSUME Exports, Control, MemoryInv, [Next]_vars
    PROVE  Exports'
<1>1. CASE UNCHANGED vars
  BY <1>1 DEF Exports, Explained, Holds, vars, outcome, memory
<1>2. CASE Parse
  BY <1>2 DEF Exports, Control, Where, Table, Early, Running, Late, outcome,
     Fail, Goto, FailsWith, Succeeds, Parse
<1>3. CASE InitCommands
  BY <1>3 DEF Exports, Control, Where, Table, Early, Running, Late, outcome,
     Fail, Goto, FailsWith, Succeeds, InitCommands
<1>4. CASE Open
  BY <1>4 DEF Exports, Control, Where, Table, Early, Running, Late, outcome,
     Fail, Goto, FailsWith, Succeeds, Open
<1>5. CASE InitTable
  BY <1>5 DEF Exports, Control, Where, Table, Early, Running, Late, outcome,
     Fail, Goto, FailsWith, Succeeds, InitTable
<1>6. CASE ReadHeader
  BY <1>6 DEF Exports, Control, Where, Table, Early, Running, Late, outcome,
     Fail, Goto, FailsWith, Succeeds, ReadHeader
<1>7. CASE EndRecords
  <2>1. at' # "export" \/ left' = 5
    BY <1>7 DEF EndRecords, Goto
  <2>2. at' \notin {"dispatch", "execute"}
    BY <1>7 DEF EndRecords, Goto
  <2> QED
    BY <2>1, <2>2 DEF Exports
<1>8. CASE ReadRecord
  BY <1>8 DEF Exports, Control, Where, Table, Early, Running, Late, outcome,
     Fail, Goto, FailsWith, Succeeds, ReadRecord
<1>9. CASE ReadDependency
  BY <1>9 DEF Exports, Control, Where, Table, Early, Running, Late, outcome,
     Fail, Goto, FailsWith, Succeeds, ReadDependency
<1>10. CASE StoreRecord
  BY <1>10 DEF Exports, Control, Where, Table, Early, Running, Late, outcome,
     Fail, Goto, FailsWith, Succeeds, StoreRecord, Stores, FailsToStore
<1>11. CASE Drop
  BY <1>11 DEF Exports, Control, Where, Table, Early, Running, Late, outcome,
     Fail, Goto, FailsWith, Succeeds, Drop, FreeTable
<1>12. CASE Export
  BY <1>12, ExportExports
<1>13. CASE Dispatch
  <2>1. at' # "export" /\ (at' = "execute" => UNCHANGED <<owned, errno, failures>>)
    BY <1>13 DEF Dispatch, Goto, FailsWith, outcome, memory
  <2> QED
    BY <1>13, <2>1 DEF Exports, Explained, Holds, Dispatch, Goto, FailsWith
<1>14. CASE Echo
  BY <1>14 DEF Exports, Control, Where, Table, Early, Running, Late, outcome,
     Fail, Goto, FailsWith, Succeeds, Echo, Execute
<1>15. CASE ListTable
  BY <1>15 DEF Exports, Control, Where, Table, Early, Running, Late, outcome,
     Fail, Goto, FailsWith, Succeeds, ListTable, Execute
<1>16. CASE Usage
  BY <1>16 DEF Exports, Control, Where, Table, Early, Running, Late, outcome,
     Fail, Goto, FailsWith, Succeeds, Usage, Execute
<1>17. CASE InstallSoftware
  BY <1>17 DEF Exports, Control, Where, Table, Early, Running, Late, outcome,
     Fail, Goto, FailsWith, Succeeds, InstallSoftware, Execute
<1>18. CASE Add
  BY <1>18 DEF Exports, Control, Where, Table, Early, Running, Late, outcome,
     Fail, Goto, FailsWith, Succeeds, Add, Execute
<1>19. CASE Options
  BY <1>19 DEF Exports, Control, Where, Table, Early, Running, Late, outcome,
     Fail, Goto, FailsWith, Succeeds, Options, TakeOption, SkipWord,
     RejectOption, EndOptions
<1>20. CASE PushToken
  BY <1>20 DEF Exports, Control, Where, Table, Early, Running, Late, outcome,
     Fail, Goto, FailsWith, Succeeds, PushToken
<1>21. CASE InsertSoftware
  BY <1>21 DEF Exports, Control, Where, Table, Early, Running, Late, outcome,
     Fail, Goto, FailsWith, Succeeds, InsertSoftware, Stores, FailsToStore
<1>22. CASE Save
  BY <1>22 DEF Exports, Control, Where, Table, Early, Running, Late, outcome,
     Fail, Goto, FailsWith, Succeeds, Save
<1>23. CASE FreeConfig
  BY <1>23 DEF Exports, Control, Where, Table, Early, Running, Late, outcome,
     Fail, Goto, FailsWith, Succeeds, FreeConfig
<1>24. CASE Destroy
  BY <1>24 DEF Exports, Control, Where, Table, Early, Running, Late, outcome,
     Fail, Goto, FailsWith, Succeeds, Destroy, FreeTable, After, Source
<1>25. CASE Undefined
  BY <1>25 DEF Exports, Control, Where, Table, Early, Running, Late, outcome,
     Fail, Goto, FailsWith, Succeeds, Undefined
<1> QED
  BY <1>1, <1>2, <1>3, <1>4, <1>5, <1>6, <1>7, <1>8, <1>9, <1>10, <1>11,
     <1>12, <1>13, <1>14, <1>15, <1>16, <1>17, <1>18, <1>19, <1>20, <1>21,
     <1>22, <1>23, <1>24, <1>25 DEF Next

(* The second word of a line with one argument is that argument.           *)
LEMMA OneArgument ==
    ASSUME Control, at = "execute", Len(Args) = 1
    PROVE  Len(line) = 2 /\ Args[1] = line[2]
<1>1. line \in Seq({line[i] : i \in DOMAIN line}) /\ line # << >>
  BY LinesAssumption DEF Control, Named, Running
<1>2. /\ Len(Args) = Len(line) - 1 /\ Len(line) \in Nat
      /\ \A i \in 1..Len(Args) : Args[i] = line[i + 1]
  BY <1>1, HeadTailProperties, LenProperties DEF Args
<1>3. PICK n \in Nat : n = Len(line)
  BY <1>2
<1>4. 1 = n - 1
  BY <1>2, <1>3
<1>5. n = 2
  BY <1>4
<1>6. Args[1] = line[1 + 1]
  BY <1>2
<1> QED
  BY <1>3, <1>5, <1>6

(* What LogsExplain says of an errno that nobody set.                      *)
NamesExplain ==
    logged = "clear" /\ smooth =>
       \/ Len(line) = 2 /\ Name = "install"
       \/ Looked \notin Command

(* What a step shows in a log.                                             *)
LEMMA LogsKept ==
    ASSUME NamesExplain, line' = line, smooth' => smooth,
           logged' \in {logged, "set"} \/ (smooth' => NamesExplain')
    PROVE  NamesExplain'
  BY DEF NamesExplain, Looked, Name

(* A command that is not known, and was not lost by an export that failed, *)
(* is none of the five.                                                    *)
LEMMA DispatchLogs ==
    ASSUME NamesExplain, Exports, Control, Dispatch
    PROVE  NamesExplain'
<1>1. /\ at = "dispatch" /\ line' = line /\ smooth' = smooth
      /\ logged' = logged \/ (logged' = errno /\ ~IsCommand(Name))
  BY DEF Dispatch, Goto, FailsWith, outcome, files
<1>2. CASE logged' = logged
  BY <1>1, <1>2, LogsKept
<1>3. CASE logged' = "clear" /\ errno = "clear" /\ ~IsCommand(Name)
  <2>1. Name \notin Command
    BY <1>1, <1>3 DEF Exports, Explained, IsCommand
  <2>2. Looked \notin Command
    BY <2>1 DEF Looked, Command
  <2> QED
    BY <1>1, <2>2 DEF NamesExplain, Looked, Name
<1>4. CASE logged' # "clear"
  BY <1>4 DEF NamesExplain
<1> QED
  BY <1>1, <1>2, <1>3, <1>4

(* A usage that fails has looked up a name, or was given too many.         *)
LEMMA UsageLogs ==
    ASSUME NamesExplain, Exports, Control, Usage
    PROVE  NamesExplain'
<1>1. /\ at = "execute" /\ Name = "usage" /\ line' = line /\ smooth' = smooth
      /\ logged' = logged \/ logged' = "set"
         \/ (logged' = errno /\ Len(Args) = 1 /\ ~IsCommand(Args[1]))
  BY DEF Usage, Execute, Succeeds, FailsWith
<1>2. CASE logged' \in {logged, "set"}
  BY <1>1, <1>2, LogsKept
<1>3. CASE logged' = "clear" /\ errno = "clear" /\ Len(Args) = 1 /\ ~IsCommand(Args[1])
  <2>1. Args[1] \notin Command
    BY <1>1, <1>3 DEF Exports, Explained, IsCommand
  <2>2. Looked = Args[1]
    BY <1>1, <1>3, OneArgument DEF Looked
  <2> QED
    BY <1>1, <2>1, <2>2 DEF NamesExplain, Looked, Name
<1>4. CASE logged' # "clear"
  BY <1>4 DEF NamesExplain
<1> QED
  BY <1>1, <1>2, <1>3, <1>4

(* An installation that fails without an errno has looked up a name.       *)
LEMMA InstallLogs ==
    ASSUME NamesExplain, Control, InstallSoftware
    PROVE  NamesExplain'
<1>1. /\ at = "execute" /\ Name = "install" /\ line' = line
      /\ \/ logged' \in {logged, "set"} /\ smooth' = smooth
         \/ Len(Args) = 1
  BY DEF InstallSoftware, Execute, Succeeds, FailsWith
<1>2. CASE logged' \in {logged, "set"} /\ smooth' = smooth
  BY <1>1, <1>2, LogsKept
<1>3. CASE Len(Args) = 1
  <2>1. Len(line) = 2
    BY <1>1, <1>3, OneArgument
  <2> QED
    BY <1>1, <2>1 DEF NamesExplain, Name
<1> QED
  BY <1>1, <1>2, <1>3

(* Every step keeps what the log explains: those that fail set errno, or   *)
(* come behind a lookup that found nothing.                                *)
LEMMA LogsStep ==
    ASSUME NamesExplain, Exports, Control, [Next]_vars
    PROVE  NamesExplain'
<1>0. line' = line /\ (smooth' => smooth)
  BY WhatWentWrong
<1>1. CASE UNCHANGED vars
  BY <1>0, <1>1, LogsKept DEF vars, outcome
<1>2. CASE Parse
  BY <1>2, <1>0, LogsKept DEF outcome, Fail, Goto, FailsWith, Succeeds, Parse
<1>3. CASE InitCommands
  BY <1>3, <1>0, LogsKept DEF outcome, Fail, Goto, FailsWith, Succeeds,
     InitCommands
<1>4. CASE Open
  BY <1>4, <1>0, LogsKept DEF outcome, Fail, Goto, FailsWith, Succeeds, Open
<1>5. CASE InitTable
  BY <1>5, <1>0, LogsKept DEF outcome, Fail, Goto, FailsWith, Succeeds,
     InitTable
<1>6. CASE ReadHeader
  BY <1>6, <1>0, LogsKept DEF outcome, Fail, Goto, FailsWith, Succeeds,
     ReadHeader
<1>7. CASE EndRecords
  BY <1>7, <1>0, LogsKept DEF outcome, Fail, Goto, FailsWith, Succeeds,
     EndRecords
<1>8. CASE ReadRecord
  BY <1>8, <1>0, LogsKept DEF outcome, Fail, Goto, FailsWith, Succeeds,
     ReadRecord
<1>9. CASE ReadDependency
  BY <1>9, <1>0, LogsKept DEF outcome, Fail, Goto, FailsWith, Succeeds,
     ReadDependency
<1>10. CASE StoreRecord
  BY <1>10, <1>0, LogsKept DEF outcome, Fail, Goto, FailsWith, Succeeds,
     StoreRecord
<1>11. CASE Drop
  BY <1>11, <1>0, LogsKept DEF outcome, Fail, Goto, FailsWith, Succeeds, Drop
<1>12. CASE Export
  BY <1>12, <1>0, LogsKept DEF outcome, Fail, Goto, FailsWith, Succeeds,
     Export
<1>13. CASE Dispatch
  BY <1>13, DispatchLogs
<1>14. CASE Echo
  BY <1>14, <1>0, LogsKept DEF outcome, Fail, Goto, FailsWith, Succeeds, Echo,
     Execute
<1>15. CASE ListTable
  BY <1>15, <1>0, LogsKept DEF outcome, Fail, Goto, FailsWith, Succeeds,
     ListTable, Execute
<1>16. CASE Usage
  BY <1>16, UsageLogs
<1>17. CASE InstallSoftware
  BY <1>17, InstallLogs
<1>18. CASE Add
  BY <1>18, <1>0, LogsKept DEF outcome, Fail, Goto, FailsWith, Succeeds, Add,
     Execute
<1>19. CASE Options
  BY <1>19, <1>0, LogsKept DEF outcome, Fail, Goto, FailsWith, Succeeds,
     Options, TakeOption, SkipWord, RejectOption, EndOptions
<1>20. CASE PushToken
  BY <1>20, <1>0, LogsKept DEF outcome, Fail, Goto, FailsWith, Succeeds,
     PushToken
<1>21. CASE InsertSoftware
  BY <1>21, <1>0, LogsKept DEF outcome, Fail, Goto, FailsWith, Succeeds,
     InsertSoftware
<1>22. CASE Save
  BY <1>22, <1>0, LogsKept DEF outcome, Fail, Goto, FailsWith, Succeeds, Save
<1>23. CASE FreeConfig
  BY <1>23, <1>0, LogsKept DEF outcome, Fail, Goto, FailsWith, Succeeds,
     FreeConfig
<1>24. CASE Destroy
  BY <1>24, <1>0, LogsKept DEF outcome, Fail, Goto, FailsWith, Succeeds,
     Destroy, FreeTable, After, Source, Control, Where, Table
<1>25. CASE Undefined
  BY <1>25, <1>0, LogsKept DEF outcome, Fail, Goto, FailsWith, Succeeds,
     Undefined
<1> QED
  BY <1>1, <1>2, <1>3, <1>4, <1>5, <1>6, <1>7, <1>8, <1>9, <1>10, <1>11,
     <1>12, <1>13, <1>14, <1>15, <1>16, <1>17, <1>18, <1>19, <1>20, <1>21,
     <1>22, <1>23, <1>24, <1>25 DEF Next

(* What LogsExplain says of a stale errno, and that it is one of an        *)
(* allocation.                                                             *)
StaleExplained == errno = "stale" \/ logged = "stale" => failures > 0

(* A step that shows or keeps errno, clears it or sets it anew.            *)
LEMMA StaleKept ==
    ASSUME StaleExplained, Control, [Next]_vars,
           errno' \in {errno, "clear", "set"}, logged' \in {logged, errno, "set"}
    PROVE  StaleExplained'
<1>1. failures \in Nat /\ failures' \in Nat /\ (failures' = 0 => failures = 0)
  BY WhatWentWrong DEF Control, Opened
<1> QED
  BY <1>1 DEF StaleExplained

(* Only an export that fails leaves a stale errno.                         *)
LEMMA StaleStep ==
    ASSUME StaleExplained, Control, MemoryInv, [Next]_vars
    PROVE  StaleExplained'
<1>1. CASE UNCHANGED vars
  BY <1>1, StaleKept DEF vars, outcome
<1>2. CASE Parse
  BY <1>2, StaleKept DEF outcome, Fail, Goto, FailsWith, Succeeds, Parse
<1>3. CASE InitCommands
  BY <1>3, StaleKept DEF outcome, Fail, Goto, FailsWith, Succeeds, InitCommands
<1>4. CASE Open
  BY <1>4, StaleKept DEF outcome, Fail, Goto, FailsWith, Succeeds, Open
<1>5. CASE InitTable
  BY <1>5, StaleKept DEF outcome, Fail, Goto, FailsWith, Succeeds, InitTable
<1>6. CASE ReadHeader
  BY <1>6, StaleKept DEF outcome, Fail, Goto, FailsWith, Succeeds, ReadHeader
<1>7. CASE EndRecords
  BY <1>7, StaleKept DEF outcome, Fail, Goto, FailsWith, Succeeds, EndRecords
<1>8. CASE ReadRecord
  BY <1>8, StaleKept DEF outcome, Fail, Goto, FailsWith, Succeeds, ReadRecord
<1>9. CASE ReadDependency
  BY <1>9, StaleKept DEF outcome, Fail, Goto, FailsWith, Succeeds,
     ReadDependency
<1>10. CASE StoreRecord
  BY <1>10, StaleKept DEF outcome, Fail, Goto, FailsWith, Succeeds, StoreRecord
<1>11. CASE Drop
  BY <1>11, StaleKept DEF outcome, Fail, Goto, FailsWith, Succeeds, Drop
<1>12. CASE Export
  <2>1. logged' = logged /\ (errno' = errno \/ errno' = "stale")
    BY <1>12 DEF Export
  <2>2. CASE errno' = errno
    BY <2>1, <2>2, StaleKept
  <2>3. CASE FailsToStore("commands", Exported[left])
    <3>1. failures' > 0
      BY <2>3, FailsToStoreEffect DEF MemoryInv
    <3> QED
      BY <3>1 DEF StaleExplained
  <2> QED
    BY <1>12, <2>2, <2>3 DEF Export
<1>13. CASE Dispatch
  BY <1>13, StaleKept DEF outcome, Fail, Goto, FailsWith, Succeeds, Dispatch
<1>14. CASE Echo
  BY <1>14, StaleKept DEF outcome, Fail, Goto, FailsWith, Succeeds, Echo,
     Execute
<1>15. CASE ListTable
  BY <1>15, StaleKept DEF outcome, Fail, Goto, FailsWith, Succeeds,
     ListTable, Execute
<1>16. CASE Usage
  BY <1>16, StaleKept DEF outcome, Fail, Goto, FailsWith, Succeeds, Usage,
     Execute
<1>17. CASE InstallSoftware
  BY <1>17, StaleKept DEF outcome, Fail, Goto, FailsWith, Succeeds,
     InstallSoftware, Execute
<1>18. CASE Add
  BY <1>18, StaleKept DEF outcome, Fail, Goto, FailsWith, Succeeds, Add,
     Execute
<1>19. CASE Options
  BY <1>19, StaleKept DEF outcome, Fail, Goto, FailsWith, Succeeds, Options,
     TakeOption, SkipWord, RejectOption, EndOptions
<1>20. CASE PushToken
  BY <1>20, StaleKept DEF outcome, Fail, Goto, FailsWith, Succeeds, PushToken
<1>21. CASE InsertSoftware
  BY <1>21, StaleKept DEF outcome, Fail, Goto, FailsWith, Succeeds,
     InsertSoftware
<1>22. CASE Save
  BY <1>22, StaleKept DEF outcome, Fail, Goto, FailsWith, Succeeds, Save
<1>23. CASE FreeConfig
  BY <1>23, StaleKept DEF outcome, Fail, Goto, FailsWith, Succeeds, FreeConfig
<1>24. CASE Destroy
  BY <1>24, StaleKept DEF outcome, Fail, Goto, FailsWith, Succeeds, Destroy,
     After, Source, Control, Where, Table
<1>25. CASE Undefined
  BY <1>25, StaleKept DEF outcome, Fail, Goto, FailsWith, Succeeds, Undefined
<1> QED
  BY <1>1, <1>2, <1>3, <1>4, <1>5, <1>6, <1>7, <1>8, <1>9, <1>10, <1>11, <1>12,
     <1>13, <1>14, <1>15, <1>16, <1>17, <1>18, <1>19, <1>20, <1>21, <1>22, <1>23, <1>24, <1>25 DEF Next

(* The message of ezi_app_run() about a command that failed names its      *)
(* reason, unless a name was looked up and not found; and an errno that    *)
(* was left behind is only shown when a command could not be exported.     *)
THEOREM FailuresAreExplained == Spec => []LogsExplain
<1>1. Init => Exports /\ NamesExplain /\ StaleExplained
  BY DEF Init, Exports, NamesExplain, StaleExplained
<1>2. Exports /\ ProcessInv /\ [Next]_vars => Exports'
  BY ExportsStep DEF ProcessInv
<1>3. NamesExplain /\ Exports /\ ProcessInv /\ [Next]_vars => NamesExplain'
  BY LogsStep DEF ProcessInv
<1>4. StaleExplained /\ ProcessInv /\ [Next]_vars => StaleExplained'
  BY StaleStep DEF ProcessInv
<1>5. NamesExplain /\ StaleExplained => LogsExplain
  BY DEF NamesExplain, StaleExplained, LogsExplain
<1> QED
  BY <1>1, <1>2, <1>3, <1>4, <1>5, ProcessIsSound, PTL DEF Spec

-----------------------------------------------------------------------------
(* A run without a fault carries out what a usage text promises.  On the   *)
(* way getopt() has taken every option before left; the words in between   *)
(* are their arguments.                                                    *)
Parsed ==
    /\ left % 2 = 1 /\ left <= Len(Args) + 1
    /\ \A i \in 1..Len(Args) : i % 2 = 1 /\ i < left => Args[i] \in opts

Faultless == failures = 0 /\ smooth /\ line # << >>

Accepted == at = "returned" => (FollowsUsage => status = "ok")
OnTheWay == at # "drop" /\ (at = "options" /\ IsAdd(Args) => Parsed)

Carried == Faultless => Accepted /\ OnTheWay

(* A step that goes nowhere that matters.                                  *)
LEMMA GoesOn ==
    ASSUME at' \notin {"returned", "drop", "options"}
    PROVE  Carried'
  BY DEF Carried, Accepted, OnTheWay

(* A step that goes wrong.                                                 *)
LEMMA GoesWrong ==
    ASSUME ~smooth' \/ line' = << >> \/ failures' # 0
    PROVE  Carried'
  BY DEF Carried, Faultless

(* A command that succeeds.                                                *)
LEMMA GoesWell ==
    ASSUME Succeeds
    PROVE  Carried'
  BY DEF Carried, Accepted, OnTheWay, Succeeds

(* A step before the command either goes on or goes wrong.                 *)
LEMMA EarlySteps ==
    ASSUME Control, Carried, MemoryInv,
           \/ Parse \/ InitCommands \/ Open \/ InitTable
           \/ ReadHeader \/ EndRecords \/ ReadRecord \/ ReadDependency
           \/ StoreRecord \/ Drop \/ Export \/ FreeConfig \/ Destroy \/ Undefined
    PROVE  Carried'
<1>0. failures \in Nat /\ tbl \in Table /\ [Next]_vars
  BY DEF Control, Where, Opened, Next
<1> USE DEF Fail, Goto
<1>1. CASE Parse
  <2>1. \/ at' = at
        \/ line' = << >>
        \/ \E n \in 0..1 : Memory(n, 2, owned[Arguments])
    BY <1>1 DEF Parse, outcome
  <2>2. at = "parse"
    BY <1>1 DEF Parse
  <2> QED
    BY <1>0, <2>1, <2>2, MemoryCounts, GoesOn, GoesWrong
<1>2. CASE InitCommands
  <2>1. at' = "open" \/ Memory(0, 1, {})
    BY <1>2 DEF InitCommands
  <2> QED
    BY <1>0, <2>1, MemoryCounts, GoesOn, GoesWrong
<1>3. CASE Open
  BY <1>3, GoesOn, GoesWrong DEF Open
<1>4. CASE InitTable
  <2>1. at' \in {"load", "init"} \/ \E S : Memory(0, 1, S)
    BY <1>4 DEF InitTable
  <2> QED
    BY <1>0, <2>1, MemoryCounts, GoesOn, GoesWrong
<1>5. CASE ReadHeader
  BY <1>5, GoesOn, GoesWrong DEF ReadHeader
<1>6. CASE EndRecords
  BY <1>6, GoesOn DEF EndRecords
<1>7. CASE ReadRecord
  BY <1>7, GoesOn, GoesWrong DEF ReadRecord
<1>8. CASE ReadDependency
  <2>1. \/ at' = "read" \/ ~smooth'
        \/ \E n \in 0..1 : Memory(n, 2, owned[List])
    BY <1>8 DEF ReadDependency
  <2> QED
    BY <1>0, <2>1, MemoryCounts, GoesOn, GoesWrong
<1>9. CASE StoreRecord
  <2>1. at' = "records" \/ FailsToStore(tbl, key)
    BY <1>9 DEF StoreRecord
  <2> QED
    BY <2>1, FailsToStoreEffect, GoesOn, GoesWrong DEF MemoryInv
<1>10. CASE Drop
  <2>1. ~Faultless /\ at = "drop"
    BY <1>10 DEF Drop, Carried, OnTheWay
  <2>2. line' = line /\ (smooth' => smooth) /\ (failures' = 0 => failures = 0)
    BY <1>10, <1>0, WhatWentWrong DEF Next
  <2> QED
    BY <2>1, <2>2, GoesWrong DEF Faultless
<1>11. CASE Export
  BY <1>11, GoesOn DEF Export
<1>12. CASE FreeConfig
  BY <1>12, GoesOn DEF FreeConfig
<1>13. CASE Destroy
  BY <1>0, <1>13, GoesOn DEF Destroy, After, Table, Source
<1>14. CASE Undefined
  BY <1>14, GoesOn DEF Undefined
<1> QED
  BY <1>1, <1>2, <1>3, <1>4, <1>5, <1>6, <1>7, <1>8, <1>9, <1>10, <1>11, <1>12,
     <1>13, <1>14

(* Without a fault the five commands are there to be looked up.            *)
LEMMA CommandsAreFound ==
    ASSUME Exports, at \in {"dispatch", "execute"}, failures = 0, NEW k \in Command
    PROVE  IsCommand(k)
  BY DEF Exports, Explained, IsCommand

(* What a line that follows a usage text asks of each command.             *)
LEMMA DispatchCarried ==
    ASSUME Control, Exports, Dispatch
    PROVE  Carried'
<1>1. /\ at = "dispatch" /\ line' = line /\ failures' = failures
      /\ at' = "execute" \/ ~IsCommand(Name)
  BY DEF Dispatch, Goto, memory
<1>2. at' \in {"execute", "returned"}
  BY DEF Dispatch, Goto, FailsWith
<1>3. ASSUME failures = 0, ~IsCommand(Name), FollowsUsage' PROVE FALSE
  <2>1. Name \in Command
    BY <1>1, <1>3 DEF FollowsUsage, Name, Command
  <2> QED
    BY <1>1, <1>3, <2>1, CommandsAreFound
<1> QED
  BY <1>1, <1>2, <1>3, GoesOn DEF Carried, Faultless, Accepted, OnTheWay

(* Each action keeps Carried: a command line that follows its usage text   *)
(* has not failed as long as no file and no allocation has.                *)
LEMMA EchoCarried ==
    ASSUME Echo
    PROVE  Carried'
  BY GoesWell DEF Echo

LEMMA ListTableCarried ==
    ASSUME ListTable
    PROVE  Carried'
<1>1. Name = "list" /\ line' = line /\ (Succeeds \/ FailsWith("set"))
  BY DEF ListTable, Execute
<1>2. ASSUME FailsWith("set"), FollowsUsage' PROVE Succeeds
  BY <1>1, <1>2 DEF FollowsUsage, Name, Args, ListTable
<1> QED
  BY <1>1, <1>2, GoesWell DEF Carried, Accepted, OnTheWay, FailsWith

LEMMA UsageCarried ==
    ASSUME Exports, Usage
    PROVE  Carried'
<1>1. /\ Name = "usage" /\ line' = line /\ failures' = failures /\ at = "execute"
      /\ Succeeds \/ (at' = "returned" /\ (Len(Args) # 1 \/ ~IsCommand(Args[1])))
  BY DEF Usage, Execute, FailsWith, memory
<1>2. ASSUME FollowsUsage' PROVE Len(Args) = 1 /\ Args[1] \in Command
  BY <1>1, <1>2 DEF FollowsUsage, Name, Args
<1>3. ASSUME failures = 0, FollowsUsage' PROVE Succeeds
  BY <1>1, <1>2, <1>3, CommandsAreFound
<1> QED
  BY <1>1, <1>3, GoesWell DEF Carried, Faultless, Accepted, OnTheWay

LEMMA InstallSoftwareCarried ==
    ASSUME InstallSoftware
    PROVE  Carried'
<1>1. /\ Name = "install" /\ line' = line /\ owned' = owned
      /\ \/ Succeeds \/ ~smooth'
         \/ at' = "returned" /\ (Len(Args) # 1 \/ ~IsSoftware(Args[1]))
  BY DEF InstallSoftware, Execute, FailsWith, memory
<1>2. ASSUME FollowsUsage' PROVE Len(Args) = 1 /\ IsSoftware(Args[1])
  BY <1>1, <1>2 DEF FollowsUsage, Name, Args, IsSoftware, Holds
<1> QED
  BY <1>1, <1>2, GoesWell, GoesWrong DEF Carried, Accepted, OnTheWay

LEMMA SaveCarried ==
    ASSUME Save
    PROVE  Carried'
  BY GoesWell, GoesWrong DEF Save

LEMMA PushTokenCarried ==
    ASSUME Control, PushToken
    PROVE  Carried'
<1>1. failures \in Nat
  BY DEF Control, Opened
<1>2. at' = "tokens" \/ \E n \in 0..1 : Memory(n, 2, {})
  BY DEF PushToken, outcome
<1> QED
  BY <1>1, <1>2, MemoryCounts, GoesOn, GoesWrong

LEMMA InsertSoftwareCarried ==
    ASSUME MemoryInv, InsertSoftware
    PROVE  Carried'
<1>1. at' = "save" \/ FailsToStore("available", key)
  BY DEF InsertSoftware
<1> QED
  BY <1>1, FailsToStoreEffect, GoesOn, GoesWrong DEF MemoryInv

(* The words behind the name of the command can be counted.                *)
LEMMA ArgumentsCount ==
    ASSUME Control, at \in Running
    PROVE  Len(Args) \in Nat
<1>1. line \in Seq({line[i] : i \in DOMAIN line}) /\ line # << >>
  BY LinesAssumption DEF Control, Named
<1> QED
  BY <1>1, HeadTailProperties, LenProperties DEF Args

LEMMA AddCarried ==
    ASSUME Control, Add
    PROVE  Carried'
<1>1. at' = "options" /\ left' = 1 /\ opts' = {} /\ line' = line /\ at = "execute"
  BY DEF Add, Execute
<1>2. Len(Args) \in Nat
  BY <1>1, ArgumentsCount DEF Running
<1>3. PICK n \in Nat : n = Len(Args)
  BY <1>2
<1>4. Args' = Args
  BY <1>1 DEF Args
<1>5. Parsed'
  <2>1. 1 % 2 = 1 /\ 1 <= n + 1
    BY <1>3
  <2>2. \A i \in 1..n : ~(i < 1)
    OBVIOUS
  <2> QED
    BY <1>1, <1>3, <1>4, <2>1, <2>2 DEF Parsed
<1> QED
  BY <1>1, <1>5 DEF Carried, Accepted, OnTheWay

(* Of a line as the usage text has it, left is at an option, or behind the *)
(* last one and its argument.                                              *)
LEMMA AtAnOption ==
    ASSUME NEW n \in Nat, n = Len(Args), IsAdd(Args), Parsed, left \in Nat \ {0}
    PROVE  \/ left < n /\ Args[left] \in Option
           \/ left = n + 1 /\ Required \subseteq opts
<1>1. n % 2 = 0 /\ left % 2 = 1 /\ left <= n + 1
  BY DEF IsAdd, Parsed
<1>2. left < n \/ left = n + 1
  BY <1>1
<1>3. CASE left < n
  <2>1. left \in 1..Len(Args)
    BY <1>3
  <2> QED
    BY <1>1, <1>3, <2>1 DEF IsAdd
<1>4. CASE left = n + 1
  <2>1. {"-n", "-u"} \subseteq {Args[i] : i \in {j \in 1..Len(Args) : j % 2 = 1}}
    BY DEF IsAdd
  <2>2. \A i \in {j \in 1..Len(Args) : j % 2 = 1} : Args[i] \in opts
    BY <1>4 DEF Parsed
  <2> QED
    BY <1>4, <2>1, <2>2 DEF Required
<1> QED
  BY <1>2, <1>3, <1>4

LEMMA OptionsCarried ==
    ASSUME CharIsSigned, Control, Carried, Options
    PROVE  Carried'
<1>1. /\ at = "options" /\ line' = line /\ left \in Nat \ {0} /\ Name = "add"
      /\ smooth' = smooth /\ failures' = failures
  BY DEF Options, memory, files, Control, Named, Name
<1>2. PICK n \in Nat : n = Len(Args)
  BY <1>1, ArgumentsCount DEF Running
<1>3. Name' = Name /\ Args' = Args
  BY <1>1 DEF Name, Args
<1>4. FollowsUsage' => IsAdd(Args)
  BY <1>1, <1>3 DEF FollowsUsage
<1>5. Faultless' => Faultless
  BY <1>1 DEF Faultless
<1>6. ASSUME Faultless, IsAdd(Args)
      PROVE  Accepted' /\ (at' = "options" => Parsed')
  <2>0. Parsed
    BY <1>1, <1>6 DEF Carried, OnTheWay
  <2>1. CASE left < n /\ Args[left] \in Option
    <3>1. TakeOption
      BY <1>1, <1>2, <2>1 DEF Options, SkipWord, RejectOption, EndOptions, IsOption
    <3>2. /\ at' = "options" /\ left' = left + 2 /\ opts' = opts \cup {Args[left]}
      BY <1>1, <3>1 DEF TakeOption
    <3>3. /\ left % 2 = 1 /\ n % 2 = 0
          /\ \A i \in 1..n : i % 2 = 1 /\ i < left => Args[i] \in opts
      BY <1>2, <1>6, <2>0 DEF IsAdd, Parsed
    <3>4. (left + 2) % 2 = 1 /\ left + 2 <= n + 1
      BY <1>1, <2>1, <3>3
    <3>5. \A i \in 1..n : i % 2 = 1 /\ i < left + 2 => i < left \/ i = left
      BY <1>1, <3>3
    <3>6. \A i \in 1..n : i % 2 = 1 /\ i < left + 2 => Args[i] \in opts'
      BY <3>2, <3>3, <3>5
    <3>7. Parsed'
      BY <1>2, <1>3, <3>2, <3>4, <3>6 DEF Parsed
    <3> QED
      BY <3>2, <3>7 DEF Accepted
  <2>2. CASE left = n + 1 /\ Required \subseteq opts
    <3>1. EndOptions
      BY <1>1, <1>2, <2>2 DEF Options, TakeOption, SkipWord, RejectOption
    <3> QED
      BY <2>2, <3>1 DEF EndOptions, Accepted
  <2> QED
    BY <1>1, <1>2, <1>6, <2>0, <2>1, <2>2, AtAnOption
<1>7. at' # "drop"
  BY <1>1 DEF Options, TakeOption, SkipWord, RejectOption, EndOptions, outcome, FailsWith
<1> QED
  BY <1>3, <1>4, <1>5, <1>6, <1>7 DEF Carried, Accepted, OnTheWay

(* Every step does, where char is signed.                                  *)
LEMMA CarriedStep ==
    ASSUME CharIsSigned, Control, MemoryInv, Exports, Carried, [Next]_vars
    PROVE  Carried'
<1>1. CASE UNCHANGED vars
  BY <1>1 DEF Carried, Faultless, Accepted, OnTheWay, Parsed, FollowsUsage,
     IsSoftware, Holds, Name, Args, vars, memory, files, outcome, record
<1>2. CASE Next
  BY <1>2, EarlySteps, DispatchCarried, EchoCarried, ListTableCarried,
     UsageCarried, InstallSoftwareCarried, AddCarried, OptionsCarried,
     PushTokenCarried, InsertSoftwareCarried, SaveCarried DEF Next
<1> QED
  BY <1>1, <1>2

(* Where char is signed, a command line that follows a usage text is       *)
(* carried out by a run without a fault.                                   *)
THEOREM UsageIsFollowed ==
    ASSUME CharIsSigned
    PROVE  Spec => []UsageIsAccepted
<1>1. Init => Exports /\ Carried
  BY DEF Init, Exports, Carried, Accepted, OnTheWay
<1>2. Exports /\ ProcessInv /\ [Next]_vars => Exports'
  BY ExportsStep DEF ProcessInv
<1>3. Carried /\ Exports /\ ProcessInv /\ [Next]_vars => Carried'
  BY CarriedStep DEF ProcessInv
<1>4. Carried => UsageIsAccepted
  BY DEF Carried, Faultless, Accepted, UsageIsAccepted
<1> QED
  BY <1>1, <1>2, <1>3, <1>4, ProcessIsSound, PTL DEF Spec

-----------------------------------------------------------------------------
(* How many blocks a run that succeeds can have lost.  Nothing can have    *)
(* failed to be allocated before the commands are exported; then each      *)
(* command that is missing may have cost a block.                          *)
Lost == heap \ Owned(Place)

Few(n) == IsFiniteSet(Lost) /\ Cardinality(Lost) <= n

Missing(l) ==
    {Exported[j] : j \in {i \in (l + 1)..5 : ~Holds("commands", Exported[i])}}

Spared == at \in Early \cup {"load", "records", "read"} => failures = 0

Costs ==
    /\ at = "export" => Few(Cardinality(Missing(left)))
    /\ \/ at \in {"dispatch", "execute", "options", "tokens", "save"}
       \/ at = "returned" /\ status = "ok"
       => Few(Cardinality(Missing(0)))

Frugal == Spared /\ Costs

(* Fewer lost blocks are few.                                              *)
LEMMA Fewer ==
    ASSUME NEW n \in Nat, Few(n), Lost' \subseteq Lost
    PROVE  Few(n)'
<1>1. IsFiniteSet(Lost') /\ Cardinality(Lost') <= Cardinality(Lost)
  BY FS_Subset DEF Few
<1>2. Cardinality(Lost) \in Nat /\ Cardinality(Lost') \in Nat
  BY <1>1, FS_CardinalityType DEF Few
<1> QED
  BY <1>1, <1>2 DEF Few

(* One more lost block.                                                    *)
LEMMA OneMore ==
    ASSUME NEW n \in Nat, Few(n), NEW b, Lost' \subseteq Lost \cup {b}
    PROVE  Few(n + 1)'
<1>1. /\ IsFiniteSet(Lost \cup {b}) /\ Cardinality(Lost) \in Nat
      /\ Cardinality(Lost \cup {b}) <= Cardinality(Lost) + 1
      /\ Cardinality(Lost \cup {b}) \in Nat
  BY FS_AddElement, FS_CardinalityType DEF Few
<1>2. /\ IsFiniteSet(Lost') /\ Cardinality(Lost') <= Cardinality(Lost \cup {b})
      /\ Cardinality(Lost') \in Nat
  BY <1>1, FS_Subset, FS_CardinalityType
<1> QED
  BY <1>1, <1>2 DEF Few

(* Nothing is lost as long as no allocation failed.                        *)
LEMMA NothingLost ==
    ASSUME Sound, failures = 0
    PROVE  Lost = {} /\ Few(0)
<1>1. Lost = {}
  BY DEF Sound, Kept, Lost, Owned
<1> QED
  BY <1>1, FS_EmptySet DEF Few

(* The missing commands can be counted.                                    *)
LEMMA MissingCounts ==
    ASSUME NEW l \in 0..5
    PROVE  /\ IsFiniteSet(Missing(l)) /\ Cardinality(Missing(l)) \in Nat
           /\ Missing(l) \subseteq Command
<1>1. Missing(l) \subseteq Command
  BY FiveCommands DEF Missing
<1>2. IsFiniteSet(Command)
  <2>1. Command = {"echo"} \cup {"add"} \cup {"list"} \cup {"install"} \cup {"usage"}
    BY DEF Command
  <2> QED
    BY <2>1, FS_Singleton, FS_Union
<1>3. IsFiniteSet(Missing(l))
  BY <1>1, <1>2, FS_Subset
<1> QED
  BY <1>1, <1>3, FS_CardinalityType

(* A record that is stored loses nothing.                                  *)
LEMMA StoresLose ==
    ASSUME Sound, Paired, NEW t \in Table, NEW k \in Key(t), Stores(t, k)
    PROVE  Lost' \subseteq Lost
<1> SUFFICES ASSUME NEW z \in heap', \A p \in Place : z \notin owned'[p]
             PROVE  z \in heap /\ \A p \in Place : z \notin owned[p]
  BY DEF Lost, Owned
<1> DEFINE b == Body(t, k)
           n == Node(t, k)
           d == Deps(t, k)
<1>1. /\ b \in Place /\ n \in Place /\ d \in Place /\ List \in Place
      /\ b # n /\ b # d /\ n # d /\ List # b /\ List # n /\ List # d
  BY PlacesExist, PlacesDiffer
<1>2. owned \in [Place -> SUBSET heap] /\ top \in Nat
  BY DEF Sound, Blocks
<1>3. CASE Holds(t, k)
  <2>1. /\ heap' = heap \ owned[d]
        /\ owned' = [owned EXCEPT ![d] = owned[List], ![List] = {}]
    BY <1>2, <1>3 DEF Stores, Memory, New
  <2> HIDE DEF b, n, d
  <2>2. /\ owned'[d] = owned[List]
        /\ \A p \in Place \ {d, List} : owned'[p] = owned[p]
    BY <1>1, <1>2, <2>1
  <2> QED
    BY <1>1, <2>1, <2>2
<1>4. CASE ~Holds(t, k)
  <2>1. /\ heap' = heap \cup {top + 1, top + 2}
        /\ owned' = [owned EXCEPT ![b] = {top + 1}, ![n] = {top + 2},
                                   ![d] = owned[List], ![List] = {}]
    BY <1>2, <1>4 DEF Stores, Memory, New
  <2>2. owned[b] = {} /\ owned[n] = {} /\ owned[d] = {}
    BY <1>4 DEF Paired, Holds
  <2> HIDE DEF b, n, d
  <2>3. /\ owned'[b] = {top + 1} /\ owned'[n] = {top + 2} /\ owned'[d] = owned[List]
        /\ \A p \in Place \ {b, n, d, List} : owned'[p] = owned[p]
    BY <1>1, <1>2, <2>1
  <2> QED
    BY <1>1, <2>1, <2>2, <2>3
<1> QED
  BY <1>3, <1>4

(* An empty record that cannot be stored loses one block at most.          *)
LEMMA FailsToStoreLose ==
    ASSUME Sound, NEW t, NEW k, FailsToStore(t, k), owned[List] = {}
    PROVE  Lost' \subseteq Lost \cup {top + 1}
<1>1. PICK n \in 0..1 : Memory(n, 2, {})
  BY DEF FailsToStore
<1>2. heap' = heap \cup New(n) /\ New(n) \subseteq {top + 1}
  BY <1>1 DEF Memory, New, Sound, Blocks
<1>3. \A p \in Place : owned'[p] = owned[p]
  BY DEF FailsToStore, Without
<1> QED
  BY <1>2, <1>3 DEF Lost, Owned

(* A token that is pushed loses nothing.                                   *)
LEMMA PushLoses ==
    ASSUME Sound, Memory(2, 2, {}), owned' = [owned EXCEPT ![List] = @ \cup New(2)]
    PROVE  Lost' \subseteq Lost
<1>1. heap' = heap \cup New(2)
  BY DEF Memory
<1>2. /\ List \in Place /\ owned'[List] = owned[List] \cup New(2)
      /\ \A p \in Place \ {List} : owned'[p] = owned[p]
  BY PlacesExist DEF Sound, Blocks
<1> QED
  BY <1>1, <1>2 DEF Lost, Owned

(* What is missing after a command was exported, or could not be.          *)
LEMMA MissingStep ==
    ASSUME left \in 1..5, left' = left - 1, NEW k \in Command, k = Exported[left],
           \A l \in Command : l # k => Holds("commands", l)' = Holds("commands", l)
    PROVE  /\ Holds("commands", k)' => Missing(left)' = Missing(left)
           /\ ~Holds("commands", k)' => Missing(left)' = Missing(left) \cup {k}
           /\ k \notin Missing(left)
<1>1. PICK l \in 1..5 : l = left
  OBVIOUS
<1>2. \A j \in l..5 : j = l \/ j \in (l + 1)..5
  OBVIOUS
<1>3. \A j \in (l + 1)..5 : j \in 1..5 /\ j \in l..5 /\ j # l
  OBVIOUS
<1>4. \A j \in (l + 1)..5 :
         Exported[j] # k /\ Holds("commands", Exported[j])' = Holds("commands", Exported[j])
  BY <1>1, <1>3, FiveCommands
<1>5. Missing(left) =
         {Exported[j] : j \in {i \in (l + 1)..5 : ~Holds("commands", Exported[i])}}
  BY <1>1 DEF Missing
<1>6. Missing(left)' =
         {Exported[j] : j \in {i \in l..5 : ~Holds("commands", Exported[i])'}}
  <2>1. left' + 1 = l
    BY <1>1
  <2> QED
    BY <2>1 DEF Missing
<1>7. l \in l..5 /\ Exported[l] = k
  BY <1>1
<1> QED
  BY <1>2, <1>3, <1>4, <1>5, <1>6, <1>7

(* Before the commands are exported a failed allocation ends the run.      *)
LEMMA SparedStep ==
    ASSUME Spared, Control, [Next]_vars
    PROVE  Spared'
<1>1. CASE UNCHANGED vars
  BY <1>1 DEF Spared, vars, memory
<1>2. CASE Parse
  BY <1>2 DEF Spared, Memory, record, memory, tables, files, outcome, Fail,
     Goto, FailsWith, Succeeds, Early, Parse
<1>3. CASE InitCommands
  BY <1>3 DEF Spared, Memory, record, memory, tables, files, outcome, Fail,
     Goto, FailsWith, Succeeds, Early, InitCommands
<1>4. CASE Open
  BY <1>4 DEF Spared, Memory, record, memory, tables, files, outcome, Fail,
     Goto, FailsWith, Succeeds, Early, Open
<1>5. CASE InitTable
  BY <1>5 DEF Spared, Memory, record, memory, tables, files, outcome, Fail,
     Goto, FailsWith, Succeeds, Early, InitTable
<1>6. CASE ReadHeader
  BY <1>6 DEF Spared, Memory, record, memory, tables, files, outcome, Fail,
     Goto, FailsWith, Succeeds, Early, ReadHeader
<1>7. CASE EndRecords
  BY <1>7 DEF Spared, Memory, record, memory, tables, files, outcome, Fail,
     Goto, FailsWith, Succeeds, Early, EndRecords
<1>8. CASE ReadRecord
  BY <1>8 DEF Spared, Memory, record, memory, tables, files, outcome, Fail,
     Goto, FailsWith, Succeeds, Early, ReadRecord
<1>9. CASE ReadDependency
  BY <1>9 DEF Spared, Memory, record, memory, tables, files, outcome, Fail,
     Goto, FailsWith, Succeeds, Early, ReadDependency
<1>10. CASE StoreRecord
  BY <1>10 DEF Spared, Memory, record, memory, tables, files, outcome, Fail,
     Goto, FailsWith, Succeeds, Early, StoreRecord, Stores, FailsToStore
<1>11. CASE Drop
  BY <1>11 DEF Spared, Drop, Fail, Early
<1>12. CASE Export
  BY <1>12 DEF Spared, Export, Early
<1>13. CASE Dispatch
  BY <1>13 DEF Spared, Memory, record, memory, tables, files, outcome, Fail,
     Goto, FailsWith, Succeeds, Early, Dispatch
<1>14. CASE Echo
  BY <1>14 DEF Spared, Memory, record, memory, tables, files, outcome, Fail,
     Goto, FailsWith, Succeeds, Early, Echo, Execute
<1>15. CASE ListTable
  BY <1>15 DEF Spared, Memory, record, memory, tables, files, outcome, Fail,
     Goto, FailsWith, Succeeds, Early, ListTable, Execute
<1>16. CASE Usage
  BY <1>16 DEF Spared, Memory, record, memory, tables, files, outcome, Fail,
     Goto, FailsWith, Succeeds, Early, Usage, Execute
<1>17. CASE InstallSoftware
  BY <1>17 DEF Spared, Memory, record, memory, tables, files, outcome, Fail,
     Goto, FailsWith, Succeeds, Early, InstallSoftware, Execute
<1>18. CASE Add
  BY <1>18 DEF Spared, Memory, record, memory, tables, files, outcome, Fail,
     Goto, FailsWith, Succeeds, Early, Add, Execute
<1>19. CASE Options
  BY <1>19 DEF Spared, Memory, record, memory, tables, files, outcome, Fail,
     Goto, FailsWith, Succeeds, Early, Options, TakeOption, SkipWord,
     RejectOption, EndOptions
<1>20. CASE PushToken
  BY <1>20 DEF Spared, Memory, record, memory, tables, files, outcome, Fail,
     Goto, FailsWith, Succeeds, Early, PushToken
<1>21. CASE InsertSoftware
  BY <1>21 DEF Spared, InsertSoftware, FailsWith, Early
<1>22. CASE Save
  BY <1>22 DEF Spared, Memory, record, memory, tables, files, outcome, Fail,
     Goto, FailsWith, Succeeds, Early, Save
<1>23. CASE FreeConfig
  BY <1>23 DEF Spared, Memory, record, memory, tables, files, outcome, Fail,
     Goto, FailsWith, Succeeds, Early, FreeConfig
<1>24. CASE Destroy
  BY <1>24 DEF Spared, Destroy, After, Goto, Early, Control, Where, Table, Source
<1>25. CASE Undefined
  BY <1>25 DEF Spared, Memory, record, memory, tables, files, outcome, Fail,
     Goto, FailsWith, Succeeds, Early, Undefined
<1> QED
  BY <1>1, <1>2, <1>3, <1>4, <1>5, <1>6, <1>7, <1>8, <1>9, <1>10, <1>11,
     <1>12, <1>13, <1>14, <1>15, <1>16, <1>17, <1>18, <1>19, <1>20, <1>21,
     <1>22, <1>23, <1>24, <1>25 DEF Next

(* The commands that are missing stay missing, and nothing is lost.        *)
LEMMA SameCosts ==
    ASSUME Few(Cardinality(Missing(0))), Lost' \subseteq Lost,
           \A k \in Command : Holds("commands", k)' = Holds("commands", k)
    PROVE  Few(Cardinality(Missing(0)))'
<1>1. Cardinality(Missing(0)) \in Nat
  BY MissingCounts
<1>2. PICK n \in Nat : n = Cardinality(Missing(0))
  BY <1>1
<1>3. \A j \in 1..5 : Holds("commands", Exported[j])' = Holds("commands", Exported[j])
  BY FiveCommands
<1>4. Missing(0)' = Missing(0)
  BY <1>3 DEF Missing
<1>5. Few(n)'
  BY <1>2, Fewer
<1> QED
  BY <1>2, <1>4, <1>5 DEF Few

(* A step that leaves memory alone costs nothing.                          *)
LEMMA StillCosts ==
    ASSUME Costs, UNCHANGED <<heap, owned>>,
           at \in {"dispatch", "execute", "options", "tokens", "save"}
    PROVE  Few(Cardinality(Missing(0)))'
<1>1. Few(Cardinality(Missing(0)))
  BY DEF Costs
<1>2. Lost' \subseteq Lost
  BY DEF Lost, Owned
<1>3. \A k \in Command : Holds("commands", k)' = Holds("commands", k)
  BY DEF Holds
<1> QED
  BY <1>1, <1>2, <1>3, SameCosts

(* The actions that may lose a block keep the count of the blocks that     *)
(* were lost. The export pays for each with a command that is not there.   *)
LEMMA ExportCosts ==
    ASSUME Costs, Control, MemoryInv, Export
    PROVE  Costs'
<1>1. /\ at = "export" /\ left \in 1..5 /\ left' = left - 1
      /\ at' = IF left = 1 THEN "dispatch" ELSE "export"
      /\ "commands" \in Table /\ Sound /\ Paired /\ owned[List] = {}
  BY FiveCommands DEF Export, Control, Named, MemoryInv, Empties
<1>2. PICK k \in Command : k = Exported[left]
  BY <1>1, FiveCommands
<1>3. PICK n \in Nat : n = Cardinality(Missing(left))
  BY <1>1, MissingCounts
<1>4. IsFiniteSet(Missing(left)) /\ Few(n)
  BY <1>1, <1>3, MissingCounts DEF Costs
<1>5. Few(Cardinality(Missing(left)))'
  <2>1. CASE Stores("commands", k)
    <3>1. /\ Holds("commands", k)'
          /\ \A l \in Command : l # k => Holds("commands", l)' = Holds("commands", l)
      BY <1>1, <2>1, StoresEffect, FiveCommands
    <3>2. Missing(left)' = Missing(left)
      BY <1>1, <1>2, <3>1, MissingStep
    <3>3. Lost' \subseteq Lost
      BY <1>1, <2>1, StoresLose, FiveCommands
    <3>4. Few(n)'
      BY <1>4, <3>3, Fewer
    <3> QED
      BY <1>3, <3>2, <3>4 DEF Few
  <2>2. CASE FailsToStore("commands", k)
    <3>1. \A l \in Command : Holds("commands", l)' = Holds("commands", l)
      BY <1>1, <2>2, FailsToStoreEffect, FiveCommands
    <3>2. ~Holds("commands", k)'
      BY <2>2, <3>1 DEF FailsToStore
    <3>3. Missing(left)' = Missing(left) \cup {k} /\ k \notin Missing(left)
      BY <1>1, <1>2, <3>1, <3>2, MissingStep
    <3>4. Cardinality(Missing(left) \cup {k}) = n + 1
      BY <1>3, <1>4, <3>3, FS_AddElement
    <3>5. Lost' \subseteq Lost \cup {top + 1}
      BY <1>1, <2>2, FailsToStoreLose
    <3>6. Few(n + 1)'
      BY <1>4, <3>5, OneMore
    <3> QED
      BY <3>3, <3>4, <3>6 DEF Few
  <2> QED
    BY <1>2, <2>1, <2>2 DEF Export
<1>6. left' = 0 => Few(Cardinality(Missing(0)))'
  <2> SUFFICES ASSUME left' = 0 PROVE Few(Cardinality(Missing(0)))'
    OBVIOUS
  <2>1. Missing(0)' = Missing(left)'
    BY DEF Missing
  <2> QED
    BY <1>5, <2>1 DEF Few
<1>7. at' # "export" => left' = 0
  BY <1>1
<1> QED
  BY <1>1, <1>5, <1>6, <1>7 DEF Costs

(* A load that reached its end has lost nothing.                           *)
LEMMA EndRecordsCosts ==
    ASSUME Spared, MemoryInv, EndRecords
    PROVE  Costs'
<1>1. /\ failures = 0 /\ Sound /\ UNCHANGED <<heap, owned>>
      /\ at' = "load" \/ (at' = "export" /\ left' = 5)
  BY DEF EndRecords, Goto, Spared, MemoryInv, memory
<1>2. Few(0)'
  <2>1. Few(0) /\ Lost' \subseteq Lost
    BY <1>1, NothingLost DEF Lost, Owned
  <2> QED
    BY <2>1, Fewer
<1>3. left' = 5 => Cardinality(Missing(left)') = 0
  <2>1. left' = 5 => Missing(left)' = {}
    <3>1. (5 + 1)..5 = {}
      OBVIOUS
    <3> QED
      BY <3>1 DEF Missing
  <2> QED
    BY <2>1, FS_EmptySet
<1> QED
  BY <1>1, <1>2, <1>3 DEF Costs, Few

(* A dependency that was not pushed ends the command.                      *)
LEMMA PushTokenCosts ==
    ASSUME Costs, MemoryInv, PushToken
    PROVE  Costs'
<1>1. at = "tokens" /\ Sound /\ Paired /\ List \in Lists
  BY DEF PushToken, MemoryInv, Lists
<1>2. CASE Memory(2, 2, {}) /\ owned' = [owned EXCEPT ![List] = @ \cup New(2)] /\ at' = at
  <2>1. Lost' \subseteq Lost
    BY <1>1, <1>2, PushLoses
  <2>2. \A k \in Command : Holds("commands", k)' = Holds("commands", k)
    BY <1>1, <1>2, GrowEffect, FiveCommands DEF TablesKept
  <2>3. Few(Cardinality(Missing(0)))'
    BY <1>1, <2>1, <2>2, SameCosts DEF Costs
  <2> QED
    BY <1>1, <1>2, <2>3 DEF Costs
<1>3. CASE FailsWith("set")
  BY <1>3 DEF FailsWith, Costs
<1> QED
  BY <1>2, <1>3 DEF PushToken, outcome

(* A software that was not stored ends the command.                        *)
LEMMA InsertSoftwareCosts ==
    ASSUME Costs, Control, MemoryInv, InsertSoftware
    PROVE  Costs'
<1>1. /\ at = "tokens" /\ Sound /\ Paired /\ "available" \in Table
      /\ key \in Key("available")
  BY DEF InsertSoftware, MemoryInv, Control, Named, Table, Source, Key
<1>2. CASE Stores("available", key) /\ at' = "save"
  <2>1. Lost' \subseteq Lost
    BY <1>1, <1>2, StoresLose
  <2>2. \A k \in Command : Holds("commands", k)' = Holds("commands", k)
    BY <1>1, <1>2, StoresEffect, FiveCommands
  <2>3. Few(Cardinality(Missing(0)))'
    BY <1>1, <2>1, <2>2, SameCosts DEF Costs
  <2> QED
    BY <1>2, <2>3 DEF Costs
<1>3. CASE FailsWith("set")
  BY <1>3 DEF FailsWith, Costs
<1> QED
  BY <1>2, <1>3 DEF InsertSoftware

(* Every step keeps that count, and with it GivesUp.                       *)
LEMMA CostsStep ==
    ASSUME Frugal, Control, MemoryInv, [Next]_vars
    PROVE  Costs'
<1>0. Costs /\ Spared
  BY DEF Frugal
<1>1. CASE UNCHANGED vars
  <2>1. UNCHANGED <<at, status, left, heap, owned>>
    BY <1>1 DEF vars, memory, outcome
  <2>2. /\ \A l : Missing(l)' = {Exported[j] : j \in {i \in (l + 1)..5 : ~Holds("commands", Exported[i])}}
    BY <2>1 DEF Missing, Holds
  <2>3. \A l : Missing(l)' = Missing(l)
    BY <2>2 DEF Missing
  <2> QED
    BY <1>0, <2>1, <2>3 DEF Costs, Few, Lost, Owned
<1>2. CASE Parse
  BY <1>2 DEF Costs, Fail, Goto, Parse
<1>3. CASE InitCommands
  BY <1>3 DEF Costs, Fail, Goto, InitCommands
<1>4. CASE Open
  BY <1>4 DEF Costs, Fail, Goto, Open
<1>5. CASE InitTable
  BY <1>5 DEF Costs, Fail, Goto, InitTable
<1>6. CASE ReadHeader
  BY <1>6 DEF Costs, Fail, Goto, ReadHeader
<1>7. CASE EndRecords
  BY <1>0, <1>7, EndRecordsCosts
<1>8. CASE ReadRecord
  BY <1>8 DEF Costs, Fail, Goto, ReadRecord
<1>9. CASE ReadDependency
  BY <1>9 DEF Costs, Fail, Goto, ReadDependency
<1>10. CASE StoreRecord
  BY <1>10 DEF Costs, Fail, Goto, StoreRecord
<1>11. CASE Drop
  BY <1>11 DEF Costs, Fail, Goto, Drop
<1>12. CASE Export
  BY <1>0, <1>12, ExportCosts
<1>13. CASE Dispatch
  <2>1. UNCHANGED <<heap, owned>> /\ at \in {"dispatch", "execute", "options", "tokens", "save"}
        /\ at' # "export"
    BY <1>13 DEF Dispatch, memory, FailsWith, Succeeds, Goto, outcome
  <2> QED
    BY <1>0, <2>1, StillCosts DEF Costs
<1>14. CASE Echo
  <2>1. UNCHANGED <<heap, owned>> /\ at \in {"dispatch", "execute", "options", "tokens", "save"}
        /\ at' # "export"
    BY <1>14 DEF Echo, Execute, memory, FailsWith, Succeeds, Goto, outcome
  <2> QED
    BY <1>0, <2>1, StillCosts DEF Costs
<1>15. CASE ListTable
  <2>1. UNCHANGED <<heap, owned>> /\ at \in {"dispatch", "execute", "options", "tokens", "save"}
        /\ at' # "export"
    BY <1>15 DEF ListTable, Execute, memory, FailsWith, Succeeds, Goto, outcome
  <2> QED
    BY <1>0, <2>1, StillCosts DEF Costs
<1>16. CASE Usage
  <2>1. UNCHANGED <<heap, owned>> /\ at \in {"dispatch", "execute", "options", "tokens", "save"}
        /\ at' # "export"
    BY <1>16 DEF Usage, Execute, memory, FailsWith, Succeeds, Goto, outcome
  <2> QED
    BY <1>0, <2>1, StillCosts DEF Costs
<1>17. CASE InstallSoftware
  <2>1. UNCHANGED <<heap, owned>> /\ at \in {"dispatch", "execute", "options", "tokens", "save"}
        /\ at' # "export"
    BY <1>17 DEF InstallSoftware, Execute, memory, FailsWith, Succeeds, Goto, outcome
  <2> QED
    BY <1>0, <2>1, StillCosts DEF Costs
<1>18. CASE Add
  <2>1. UNCHANGED <<heap, owned>> /\ at \in {"dispatch", "execute", "options", "tokens", "save"}
        /\ at' # "export"
    BY <1>18 DEF Add, Execute, memory, FailsWith, Succeeds, Goto, outcome
  <2> QED
    BY <1>0, <2>1, StillCosts DEF Costs
<1>19. CASE Options
  <2>1. UNCHANGED <<heap, owned>> /\ at \in {"dispatch", "execute", "options", "tokens", "save"}
        /\ at' # "export"
    BY <1>19 DEF Options, TakeOption, SkipWord, RejectOption, EndOptions, memory, FailsWith, Succeeds, Goto, outcome
  <2> QED
    BY <1>0, <2>1, StillCosts DEF Costs
<1>20. CASE PushToken
  BY <1>0, <1>20, PushTokenCosts
<1>21. CASE InsertSoftware
  BY <1>0, <1>21, InsertSoftwareCosts
<1>22. CASE Save
  <2>1. UNCHANGED <<heap, owned>> /\ at \in {"dispatch", "execute", "options", "tokens", "save"}
        /\ at' # "export"
    BY <1>22 DEF Save, memory, FailsWith, Succeeds, Goto, outcome
  <2> QED
    BY <1>0, <2>1, StillCosts DEF Costs
<1>23. CASE FreeConfig
  BY <1>23 DEF Costs, Fail, Goto, FreeConfig
<1>24. CASE Destroy
  BY <1>24 DEF Costs, Destroy, After, Goto, Control, Where, Table, Source
<1>25. CASE Undefined
  BY <1>25 DEF Costs, Fail, Goto, Undefined
<1> QED
  BY <1>1, <1>2, <1>3, <1>4, <1>5, <1>6, <1>7, <1>8, <1>9, <1>10, <1>11,
     <1>12, <1>13, <1>14, <1>15, <1>16, <1>17, <1>18, <1>19, <1>20, <1>21,
     <1>22, <1>23, <1>24, <1>25 DEF Next

(* A run that lost more blocks than commands are missing has failed: after *)
(* an allocation failed inside of push, shift or set it gives up.          *)
THEOREM LossesAreFailures == Spec => []GivesUp
<1>1. Init => Frugal
  BY DEF Init, Frugal, Spared, Costs
<1>2. Frugal /\ ProcessInv /\ [Next]_vars => Frugal'
  BY SparedStep, CostsStep DEF ProcessInv, Frugal
<1>3. Frugal => GivesUp
  <2> SUFFICES ASSUME Frugal, at = "returned", status = "ok"
               PROVE  Cardinality(heap \ Owned(Place))
                         <= Cardinality({k \in Command : ~IsCommand(k)})
    BY DEF GivesUp
  <2>1. Missing(0) = {k \in Command : ~IsCommand(k)}
    <3>1. 0 + 1 = 1
      OBVIOUS
    <3> QED
      BY <3>1, FiveCommands DEF Missing, IsCommand
  <2> QED
    BY <2>1 DEF Frugal, Costs, Few, Lost
<1> QED
  BY <1>1, <1>2, <1>3, ProcessIsSound, PTL DEF Spec
=============================================================================
