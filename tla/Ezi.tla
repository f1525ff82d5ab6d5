-------------------------------- MODULE Ezi --------------------------------
(***************************************************************************)
(* The runs of the program and the two data files they share: init_app()   *)
(* opens both files and loads both tables, a command works on the tables   *)
(* in memory, and `ezi add' writes both files back.  Nothing locks them.   *)
(*                                                                         *)
(* An action is one system call, with the computation before it, so that   *)
(* runs interleave as processes do.  A table is taken to fit in the buffer *)
(* of a stream: it is then read by one read() and written by one write()   *)
(* when the stream is rewound.  That write begins at the start of the file *)
(* and may leave the bytes of a longer table behind its own, beyond the    *)
(* records its header counts, where no load looks.                         *)
(*                                                                         *)
(* With Faults the disk may be full, a truncation may be refused and a run *)
(* may be killed between any two calls; the program is then taken to be    *)
(* run by one user at a time.                                              *)
(***************************************************************************)
EXTENDS SourceFile

CONSTANTS
    Proc,        \* the processes that may run the program
    Additions,   \* what users add: records of a name and a software
    Look,        \* a command that changes no table (list, install, usage,
                 \* echo, an unknown one or one with invalid arguments)
    Absent,      \* a file that does not exist
    Faults,      \* writes may be cut short and runs may be killed
    MaxRuns      \* bound on the number of runs

ASSUME ProcAssumption      == Faults => \A p, q \in Proc : p = q
ASSUME AdditionsAssumption ==
    /\ \A a \in Additions : a.name \in Name /\ a.sw \in Software
    /\ Look \notin Additions
ASSUME FaultsAssumption    == Faults \in BOOLEAN /\ MaxRuns \in Nat
ASSUME AbsentAssumption    ==
    /\ Absent \notin [fields : Seq(Nat \cup Name \cup Text \cup {Stump}),
                      torn : BOOLEAN]
    /\ \A N \in SUBSET Name :
          /\ Absent \notin [N -> Software]
          /\ Absent \notin [N -> [text : Text, deps : SUBSET (Name \cup {Stump})]]

Table == {"available", "installed"}

VARIABLES
    file,    \* the content of the data file of each table, or Absent
    pc,      \* the next call of each process and the table it is about
    mem,     \* the tables in the memory of each process
    cmd,     \* the command each process was started with
    runs,    \* the number of runs that were started
    saved,   \* history: the table last written to each file, or Absent
    acked,   \* history: the software `ezi add' reported as added
    clean    \* history: runs never overlapped and met no fault

vars == <<file, pc, mem, cmd, runs, saved, acked, clean>>

Off      == <<"off", "none">>
Idle     == \A p \in Proc : pc[p] = Off
NoTables == [t \in Table |-> Empty]

Init ==
    /\ file  = [t \in Table |-> Absent]
    /\ pc    = [p \in Proc |-> Off]
    /\ mem   = [p \in Proc |-> NoTables]
    /\ cmd   = [p \in Proc |-> Look]
    /\ runs  = 0
    /\ saved = [t \in Table |-> Absent]
    /\ acked = Empty
    /\ clean = TRUE

Goto(p, step) == pc' = [pc EXCEPT ![p] = step]

(* The process exits: main() destroys what it has in memory.               *)
Exit(p) ==
    /\ Goto(p, Off)
    /\ mem' = [mem EXCEPT ![p] = NoTables]
    /\ cmd' = [cmd EXCEPT ![p] = Look]

(* The bytes of the fields go to the file of t, all of them unless the     *)
(* disk is full.  Neither fwrite() nor rewind() reports that to its caller.*)
WriteFile(t, fields) ==
    \E f \in IF Faults THEN Cuts(fields) ELSE {Whole(fields)} :
        /\ file' = [file EXCEPT ![t] = f]
        /\ clean' = (clean /\ f = Whole(fields))

-----------------------------------------------------------------------------
(* init_app(): the files are opened installed first and loaded available   *)
(* first.                                                                  *)
AfterOpen(t) == IF t = "installed" THEN <<"open", "available">>
                                   ELSE <<"load", "available">>
AfterLoad(t) == IF t = "available" THEN <<"load", "installed">>
                                   ELSE <<"execute", "none">>
AfterSave(t) == IF t = "available" THEN <<"truncate", "installed">>
                                   ELSE <<"report", "none">>

Start(p) ==
    /\ pc[p] = Off /\ runs < MaxRuns
    /\ runs' = runs + 1
    /\ clean' = (clean /\ Idle)
    /\ \E c \in Additions \cup {Look} : cmd' = [cmd EXCEPT ![p] = c]
    /\ Goto(p, <<"open", "installed">>)
    /\ UNCHANGED <<file, mem, saved, acked>>

(* fopen(filename, "r+").                                                  *)
Open(p, t) ==
    /\ pc[p] = <<"open", t>>
    /\ Goto(p, IF file[t] = Absent THEN <<"create", t>> ELSE AfterOpen(t))
    /\ UNCHANGED <<file, mem, cmd, runs, saved, acked, clean>>

(* Fault: a new file gets no header.                                       *)
CreateWithoutHeader(p, t) ==
    /\ pc[p] = <<"create", t>>
    /\ file' = [file EXCEPT ![t] = Truncated]
    /\ Goto(p, AfterOpen(t))
    /\ UNCHANGED <<mem, cmd, runs, saved, acked, clean>>

(* fopen(filename, "w+"): empties a file that came to exist meanwhile.     *)
Create(p, t) ==
    /\ pc[p] = <<"create", t>>
    /\ file' = [file EXCEPT ![t] = Truncated]
    /\ Goto(p, <<"header", t>>)
    /\ UNCHANGED <<mem, cmd, runs, saved, acked, clean>>

(* write_source_metadata() and the rewind() that flushes it.               *)
Header(p, t) ==
    /\ pc[p] = <<"header", t>>
    /\ WriteFile(t, Contents(Empty, << >>))
    /\ saved' = [saved EXCEPT ![t] = Empty]
    /\ Goto(p, AfterOpen(t))
    /\ UNCHANGED <<mem, cmd, runs, acked>>

(* Fault: a table that cannot be loaded counts as an empty one.            *)
LoadTableAnyway(p, t) ==
    /\ pc[p] = <<"load", t>>
    /\ \E g \in Garbage :
          LET r == Load(file[t], g)
          IN  IF r.ok THEN mem' = [mem EXCEPT ![p][t] = r.table]
                      ELSE UNCHANGED mem
    /\ Goto(p, AfterLoad(t))
    /\ UNCHANGED <<file, cmd, runs, saved, acked, clean>>

(* ezi_software_source_load(); the program gives up when it fails.         *)
LoadTable(p, t) ==
    /\ pc[p] = <<"load", t>>
    /\ \E g \in Garbage :
          LET r == Load(file[t], g)
          IN  IF r.ok
              THEN /\ mem' = [mem EXCEPT ![p][t] = r.table]
                   /\ Goto(p, AfterLoad(t))
                   /\ UNCHANGED cmd
              ELSE Exit(p)
    /\ UNCHANGED <<file, runs, saved, acked, clean>>

(* A command that leaves the tables alone runs, and the program ends.      *)
ExecuteLook(p) ==
    /\ pc[p] = <<"execute", "none">> /\ cmd[p] = Look
    /\ Exit(p)
    /\ UNCHANGED <<file, runs, saved, acked, clean>>

(* add_software_command_exec() up to ezi_software_table_insert().          *)
ExecuteAdd(p) ==
    /\ pc[p] = <<"execute", "none">> /\ cmd[p] \in Additions
    /\ mem' = [mem EXCEPT ![p]["available"] =
                  Put(mem[p]["available"], cmd[p].name, cmd[p].sw)]
    /\ Goto(p, <<"truncate", "available">>)
    /\ UNCHANGED <<file, cmd, runs, saved, acked, clean>>

(* ftruncate() in ezi_software_source_save(); the command gives up, and    *)
(* the second table is not saved, when it is refused.                      *)
Truncate(p, t) ==
    /\ pc[p] = <<"truncate", t>>
    /\ \/ /\ file' = [file EXCEPT ![t] = Truncated]
          /\ Goto(p, <<"write", t>>)
          /\ UNCHANGED <<mem, cmd, clean>>
       \/ /\ Faults
          /\ Exit(p)
          /\ clean' = FALSE
          /\ UNCHANGED file
    /\ UNCHANGED <<runs, saved, acked>>

(* The rest of ezi_software_source_save(): the header, the records in the  *)
(* order of the buckets, and the rewind() that flushes them.  The order in *)
(* a bucket depends on the insertions, so any order is possible.           *)
Write(p, t) ==
    /\ pc[p] = <<"write", t>>
    /\ \E order \in SetToSeqs(DOMAIN mem[p][t]) :
          WriteFile(t, Contents(mem[p][t], order))
    /\ saved' = [saved EXCEPT ![t] = mem[p][t]]
    /\ Goto(p, AfterSave(t))
    /\ UNCHANGED <<mem, cmd, runs, acked>>

(* "Software was added successfully".                                      *)
Report(p) ==
    /\ pc[p] = <<"report", "none">>
    /\ acked' = Put(acked, cmd[p].name, cmd[p].sw)
    /\ Exit(p)
    /\ UNCHANGED <<file, runs, saved, clean>>

Kill(p) ==
    /\ Faults /\ pc[p] # Off
    /\ Exit(p)
    /\ clean' = FALSE
    /\ UNCHANGED <<file, runs, saved, acked>>

-----------------------------------------------------------------------------
Step(p) ==
    \/ \E t \in Table : \/ Open(p, t) \/ Create(p, t) \/ Header(p, t)
                        \/ LoadTable(p, t) \/ Truncate(p, t) \/ Write(p, t)
    \/ ExecuteLook(p) \/ ExecuteAdd(p) \/ Report(p)

Next == \E p \in Proc : Start(p) \/ Step(p) \/ Kill(p)

Spec == Init /\ [][Next]_vars

(* The operating system runs every process it started.                     *)
FairSpec == Spec /\ \A p \in Proc : WF_vars(Step(p))

-----------------------------------------------------------------------------
(* The files, the tables in memory and the commands have their types.      *)
TypeOK ==
    /\ \A t \in Table :
          file[t] # Absent => /\ file[t].fields \in Seq(Nat \cup Name \cup Text \cup {Stump})
                              /\ file[t].torn \in BOOLEAN
    /\ pc \in [Proc -> ({"open", "create", "header", "load", "truncate", "write"} \X Table)
                       \cup ({"off", "execute", "report"} \X {"none"})]
    /\ \A p \in Proc, t \in Table : IsTable(mem[p][t])
    /\ cmd \in [Proc -> Additions \cup {Look}]
    /\ runs \in 0..MaxRuns
    /\ \A t \in Table : saved[t] # Absent => IsTable(saved[t])
    /\ IsTable(acked)
    /\ clean \in BOOLEAN

(* Whatever `ezi add' reported as added is what any load of the file finds *)
(* under its name, up to the order of its dependencies.                    *)
AckedIsLoaded ==
    \A n \in DOMAIN acked, g \in Garbage :
        LET r == Load(file["available"], g)
        IN  /\ r.ok /\ n \in DOMAIN r.table
            /\ SameTable([m \in {n} |-> r.table[n]], [m \in {n} |-> acked[n]])

(* As long as runs follow each other without a fault, the software that    *)
(* was reported as added is stored when they have ended, through all later *)
(* loads and saves (add_software_command.c:84).                            *)
AckedIsStored == Idle /\ clean => AckedIsLoaded

(* However runs interleave, they leave files that load once all have       *)
(* ended: a run may fail because it meets a file another one has just      *)
(* truncated, but no such moment lasts.                                    *)
QuietFilesLoad ==
    Idle => \A t \in Table : file[t] # Absent => ~Unreadable(file[t])

(* s is what users added under the name n, but for dependencies that a cut *)
(* emptied or made shorter.                                                *)
ComesFromUser(n, s) ==
    \E a \in Additions :
        /\ a.name = n /\ a.sw.text = s.text
        /\ \/ s.deps = << >>
           \/ \E d \in {a.sw.deps, Reverse(a.sw.deps)} :
                /\ Len(s.deps) = Len(d)
                /\ \A i \in 1..Len(d) : s.deps[i] \in {d[i], Stump}

(* A full disk, a refused call or a kill may lose software but invents     *)
(* none: a load that succeeds finds only what some user added, with its    *)
(* own text.  Only its dependencies may be damaged.                        *)
NoPhantom ==
    \A t \in Table, g \in Garbage :
        LET r == IF file[t] = Absent THEN Failed ELSE Load(file[t], g)
        IN  r.ok => \A n \in DOMAIN r.table : ComesFromUser(n, r.table[n])

(* A file that cannot be loaded stays so: every later run ends before it   *)
(* reaches a save (app.c:112), so nothing the program can do repairs it.   *)
Ruined(t) == Idle /\ file[t] # Absent /\ Unreadable(file[t])
NoRunRepairs ==
    \A t \in Table : [](Ruined(t) => [](Idle => Ruined(t)))

(* A run that gets as far as its save puts its software into the file,     *)
(* whatever other runs do at the same time.                                *)
AddsTakeEffect ==
    \A a \in Additions :
        (\E p \in Proc : pc[p] = <<"truncate", "available">> /\ cmd[p] = a) ~>
            /\ file["available"] # Absent
            /\ \E g \in Garbage :
                  LET r == Load(file["available"], g)
                  IN  r.ok /\ a.name \in DOMAIN r.table

-----------------------------------------------------------------------------
(* The table as the Catalog describes it, without the order of the         *)
(* dependencies, which every load reverses.                                *)
Unordered(sw) == [text |-> sw.text, deps |-> Range(sw.deps)]

Abstract(table) ==
    IF table = Absent THEN Absent
    ELSE [n \in DOMAIN table |-> Unordered(table[n])]

(* The calls at which a process holds the table of available software.     *)
Holding(p) ==
    pc[p] \in {<<"load", "installed">>, <<"execute", "none">>,
               <<"truncate", "available">>, <<"write", "available">>}

(* The table last written, the processes that are about to write the empty *)
(* one, and the tables the processes work on.                              *)
Tab   == Abstract(saved["available"])
Fresh == {p \in Proc : pc[p] \in {<<"create", "available">>,
                                  <<"header", "available">>}}
Seen  == [p \in Proc |-> IF Holding(p) THEN Abstract(mem[p]["available"])
                                       ELSE Absent]

C == INSTANCE Catalog WITH
       Entries <- {[name |-> a.name, value |-> Unordered(a.sw)] :
                      a \in Additions},
       None    <- Absent,
       table   <- Tab,
       fresh   <- Fresh,
       seen    <- Seen

(* Without faults, concurrent runs implement the Catalog: a load takes the *)
(* whole table that was last written or fails, it never sees a file half   *)
(* written, and a save replaces the whole table.                           *)
RefinesCatalog == C!Spec

-----------------------------------------------------------------------------
(* ezi_software_source_load() documents "0 for success, -1 for otherwise": *)
(* a table it loads with success has all the software last saved.          *)
LoadsAreComplete ==
    [][\A p \in Proc, t \in Table :
          (pc[p] = <<"load", t>> /\ pc'[p] = AfterLoad(t))
              => DOMAIN mem'[p][t] = DOMAIN saved[t]]_vars

(* "Software `%s' was added successfully" (add_software_command.c:84):     *)
(* once all runs have ended, whatever they did, it was.                    *)
ReportedIsAdded == Idle => AckedIsLoaded
=============================================================================
