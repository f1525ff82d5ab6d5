-------------------------------- MODULE App --------------------------------
(***************************************************************************)
(* One process of ezi, from main() to its exit: what it allocates and      *)
(* opens, in which order it gives that back on every path, and what it     *)
(* tells about a failure.                                                  *)
(*                                                                         *)
(* A block is a number; none is handed out twice, so that a second free is *)
(* always seen.  A place is where the program keeps a pointer, and         *)
(* owned[p] the blocks it reaches from there.  An item of a list is two    *)
(* blocks, the copy of the data and the node, and so is an entry of a hash *)
(* table: its body, with the copies of key and value, and its node.        *)
(*                                                                         *)
(* Only allocations that fail, up to MaxFailures, and files that fail      *)
(* disturb a run.  What the tables mean to other runs is in module Ezi.    *)
(***************************************************************************)
EXTENDS Naturals, Sequences, FiniteSets

CONSTANTS
    Software,      \* names of software
    Lines,         \* the command lines, without the name of the program
    MaxRecords,    \* bound on the records of each data file
    MaxDeps,       \* bound on the dependencies of a software
    MaxFailures,   \* bound on the allocations that fail
    CharIsSigned   \* whether char is a signed type

Source  == {"available", "installed"}
Command == {"echo", "add", "list", "install", "usage"}
Option  == {"-n", "-u", "-d", "-D"}

ASSUME SoftwareAssumption == Software \cap Command = {}
ASSUME LinesAssumption ==
    \A l \in Lines :
        /\ l \in Seq({l[i] : i \in DOMAIN l})
        /\ \A i \in 2..Len(l) : l[1] = "add" /\ l[i - 1] = "-n" => l[i] \in Software
ASSUME BoundsAssumption ==
    /\ MaxRecords \in [Source -> Nat]
    /\ MaxDeps \in Nat /\ MaxFailures \in Nat
ASSUME CharAssumption == CharIsSigned \in BOOLEAN

VARIABLES
    line,      \* argv, from the name of the command on
    at,        \* where the process is
    tbl,       \* the table or source it works on
    left,      \* arguments, records or commands that are left, or optind
    deps,      \* dependencies that are left
    key,       \* the name in the record on the stack
    opts,      \* the options seen so far
    heap,      \* the blocks that are allocated
    top,       \* the last block that was allocated
    owned,     \* the blocks each place points to
    failures,  \* history: how many allocations failed
    defined,   \* FALSE after undefined behaviour
    sized,     \* the tables with buckets_count > 0
    inited,    \* db.inited
    streams,   \* the open data files
    smooth,    \* history: nothing but allocations failed
    errno,     \* "clear", "stale" if a failure set it that nobody looked at,
               \* or "set" by a failure that ends the command or the run
    logged,    \* the errno that log_perror() showed, if it did
    status     \* what ezi_app_run() returned

memory  == <<heap, top, owned, failures, defined>>
record  == <<deps, key, opts>>
tables  == <<sized, inited>>
files   == <<streams, smooth>>
outcome == <<errno, logged, status>>
vars    == <<line, at, tbl, left, record, memory, tables, files, outcome>>

-----------------------------------------------------------------------------
(* Tables, their keys, and places.                                         *)
Table  == Source \cup {"commands"}
Key(t) == IF t = "commands" THEN Command ELSE Software

Arguments  == <<"config.command_args">>
List       == <<"sw.dependencies">>
Buckets(t) == <<"buckets", t>>
Body(t, k) == <<"body", t, k>>
Node(t, k) == <<"node", t, k>>
Deps(t, k) == <<"dependencies", t, k>>

(* What clear releases, and what it loses.                                 *)
Linked(t)  == {Node(t, k) : k \in Key(t)} \cup {Deps(t, k) : k \in Key(t)}
Entries(t) == Linked(t) \cup {Body(t, k) : k \in Key(t)}
Places(t)  == Entries(t) \cup {Buckets(t)}
Place      == {Arguments, List} \cup UNION {Places(t) : t \in Table}

Owned(P)   == UNION {owned[p] : p \in P}
Without(P) == [p \in Place |-> IF p \in P THEN {} ELSE owned[p]]
Holds(t, k) == owned[Node(t, k)] # {}

(* Of m allocations in a row the first n succeed; the blocks of S are      *)
(* freed.                                                                  *)
New(n) == (top + 1)..(top + n)

Memory(n, m, S) ==
    /\ IF n = m THEN UNCHANGED failures
                ELSE failures < MaxFailures /\ failures' = failures + 1
    /\ heap' = (heap \cup New(n)) \ S
    /\ top' = top + n
    /\ defined' = (defined /\ S \subseteq heap)

Init ==
    /\ line \in Lines
    /\ at = "parse" /\ tbl = "commands"
    /\ left = IF line = << >> THEN 0 ELSE Len(line) - 1
    /\ deps = 0 /\ key = "" /\ opts = {}
    /\ heap = {} /\ top = 0 /\ owned = [p \in Place |-> {}]
    /\ failures = 0 /\ defined = TRUE
    /\ sized = {} /\ inited = FALSE
    /\ streams = {} /\ smooth = TRUE
    /\ errno = "clear" /\ logged = "nothing" /\ status = "running"

(* ezi_app_run() returns, with errno set by the call that failed.          *)
Fail == at' = "returned" /\ status' = "failed" /\ errno' = "set" /\ UNCHANGED logged

Goto(a, t) == at' = a /\ tbl' = t /\ UNCHANGED outcome

-----------------------------------------------------------------------------
(* ezi_config_parse_argv(): at least a command; the arguments after it are *)
(* pushed to a list, which is freed when one cannot be.                    *)
Parse ==
    /\ at = "parse"
    /\ \/ line = << >> /\ Fail /\ UNCHANGED <<left, memory>>
       \/ /\ left > 0 /\ Memory(2, 2, {})
          /\ owned' = [owned EXCEPT ![Arguments] = @ \cup New(2)]
          /\ left' = left - 1
          /\ UNCHANGED <<at, outcome>>
       \/ /\ left > 0 /\ \E n \in 0..1 : Memory(n, 2, owned[Arguments])
          /\ owned' = Without({Arguments})
          /\ Fail /\ UNCHANGED left
    /\ UNCHANGED <<line, tbl, record, tables, files>>

(* init_ezi_hash_table() of the commands: buckets_count is set even when   *)
(* the buckets cannot be allocated.                                        *)
InitCommands ==
    /\ at = "parse" /\ line # << >> /\ left = 0
    /\ sized' = sized \cup {"commands"}
    /\ \/ /\ Memory(1, 1, {})
          /\ owned' = [owned EXCEPT ![Buckets("commands")] = New(1)]
          /\ Goto("open", "installed")
       \/ Memory(0, 1, {}) /\ Fail /\ UNCHANGED <<owned, tbl>>
    /\ UNCHANGED <<line, left, record, inited, files>>

(* Fault: a file that was not there is made, and errno still tells so.     *)
OpenKeepsErrno ==
    /\ at = "open"
    /\ streams' = streams \cup {tbl}
    /\ at' = IF tbl = "installed" THEN "open" ELSE "init"
    /\ tbl' = IF tbl = "installed" THEN "available" ELSE "installed"
    /\ errno' \in {"clear", "stale"} /\ UNCHANGED <<smooth, logged, status>>
    /\ UNCHANGED <<line, left, record, memory, tables>>

(* init_ezi_software_source_fs(), installed first.  Its success clears the *)
(* errno of a file that was not there and was made; a failure of the       *)
(* second leaves the first one open.                                       *)
Open ==
    /\ at = "open"
    /\ \/ /\ streams' = streams \cup {tbl}
          /\ at' = IF tbl = "installed" THEN "open" ELSE "init"
          /\ tbl' = IF tbl = "installed" THEN "available" ELSE "installed"
          /\ errno' = "clear" /\ UNCHANGED <<smooth, logged, status>>
       \/ smooth' = FALSE /\ Fail /\ UNCHANGED <<streams, tbl>>
    /\ UNCHANGED <<line, left, record, memory, tables>>

(* init_ezi_software_database(): the tables, installed first.  When the    *)
(* second cannot be made the first is freed, and the sources stay open.    *)
InitTable ==
    /\ at = "init"
    /\ \/ /\ Memory(1, 1, {})
          /\ owned' = [owned EXCEPT ![Buckets(tbl)] = New(1)]
          /\ sized' = sized \cup {tbl}
          /\ inited' = (tbl = "available")
          /\ Goto(IF tbl = "available" THEN "load" ELSE "init", "available")
       \/ /\ tbl = "installed" /\ Memory(0, 1, {})
          /\ sized' = sized \cup {tbl}
          /\ Fail /\ UNCHANGED <<owned, tbl, inited>>
       \/ /\ tbl = "available" /\ Memory(0, 1, Owned(Places("installed")))
          /\ owned' = Without(Places("installed"))
          /\ sized' = (sized \cup {tbl}) \ {"installed"}
          /\ Fail /\ UNCHANGED <<tbl, inited>>
    /\ UNCHANGED <<line, left, record, files>>

-----------------------------------------------------------------------------
(* ezi_software_source_load(), available first: the header, then           *)
(* ezi_hash_table_clear(), which loses the bodies.                         *)
ReadHeader ==
    /\ at = "load"
    /\ \/ /\ Memory(0, 0, Owned(Linked(tbl)))
          /\ owned' = Without(Entries(tbl))
          /\ left' \in 0..MaxRecords[tbl]
          /\ Goto("records", tbl) /\ UNCHANGED smooth
       \/ smooth' = FALSE /\ Fail /\ UNCHANGED <<left, tbl, memory>>
    /\ UNCHANGED <<line, record, tables, streams>>

(* The records end with the header's count, or with the file.              *)
EndRecords ==
    /\ at = "records"
    /\ smooth' = (smooth /\ left = 0)
    /\ IF tbl = "available" THEN Goto("load", "installed") /\ left' = 0
                            ELSE Goto("export", "commands") /\ left' = 5
    /\ UNCHANGED <<line, record, memory, tables, streams>>

(* ezi_software_read(), up to its dependencies.                            *)
ReadRecord ==
    /\ at = "records" /\ left > 0
    /\ left' = left - 1
    /\ \/ key' \in Software /\ deps' \in 0..MaxDeps
          /\ Goto("read", tbl) /\ UNCHANGED smooth
       \/ smooth' = FALSE /\ at' = "drop" /\ errno' = "set"
          /\ UNCHANGED <<deps, key, tbl, logged, status>>
    /\ UNCHANGED <<line, opts, memory, tables, streams>>

(* Fault: one dependency more than there are.                              *)
OneMoreDependency == deps >= 0

MoreDependencies == deps > 0

(* A dependency is read and shifted to the list, which free_ezi_software() *)
(* releases when either fails.                                             *)
ReadDependency ==
    /\ at = "read" /\ MoreDependencies
    /\ \/ /\ Memory(2, 2, {})
          /\ owned' = [owned EXCEPT ![List] = @ \cup New(2)]
          /\ deps' = deps - 1
          /\ UNCHANGED <<at, errno, smooth>>
       \/ /\ \/ (\E n \in 0..1 : Memory(n, 2, owned[List])) /\ UNCHANGED smooth
             \/ Memory(0, 0, owned[List]) /\ smooth' = FALSE
          /\ owned' = Without({List})
          /\ at' = "drop" /\ errno' = "set"
          /\ UNCHANGED deps
    /\ UNCHANGED <<line, tbl, left, key, opts, tables, streams, logged, status>>

(* Fault: the record that is read next starts with the list of this one.   *)
StoresShared(t, k) ==
    \/ /\ Holds(t, k) /\ Memory(0, 0, owned[Deps(t, k)])
       /\ owned' = [owned EXCEPT ![Deps(t, k)] = owned[List]]
    \/ /\ ~Holds(t, k) /\ Memory(2, 2, {})
       /\ owned' = [owned EXCEPT ![Body(t, k)] = {top + 1}, ![Node(t, k)] = {top + 2},
                                 ![Deps(t, k)] = owned[List]]

(* Fault: the dependencies of a value that is overwritten are kept.        *)
StoresOver(t, k) ==
    \/ /\ Holds(t, k) /\ Memory(0, 0, {})
       /\ owned' = [owned EXCEPT ![Deps(t, k)] = owned[List], ![List] = {}]
    \/ /\ ~Holds(t, k) /\ Memory(2, 2, {})
       /\ owned' = [owned EXCEPT ![Body(t, k)] = {top + 1}, ![Node(t, k)] = {top + 2},
                                 ![Deps(t, k)] = owned[List], ![List] = {}]

(* ezi_hash_table_set() of the record on the stack, whose dependencies     *)
(* become those of the entry: the old ones are freed, or an entry is made. *)
Stores(t, k) ==
    \/ /\ Holds(t, k) /\ Memory(0, 0, owned[Deps(t, k)])
       /\ owned' = [owned EXCEPT ![Deps(t, k)] = owned[List], ![List] = {}]
    \/ /\ ~Holds(t, k) /\ Memory(2, 2, {})
       /\ owned' = [owned EXCEPT ![Body(t, k)] = {top + 1}, ![Node(t, k)] = {top + 2},
                                 ![Deps(t, k)] = owned[List], ![List] = {}]

(* ... or not, and then the record is left behind.                         *)
FailsToStore(t, k) ==
    /\ ~Holds(t, k) /\ \E n \in 0..1 : Memory(n, 2, {})
    /\ owned' = Without({List})

(* Fault: the load goes on when a record cannot be stored.                 *)
StoreRecordAnyway ==
    /\ at = "read" /\ deps = 0
    /\ Stores(tbl, key) \/ FailsToStore(tbl, key)
    /\ Goto("records", tbl)
    /\ UNCHANGED <<line, left, record, tables, files>>

StoreRecord ==
    /\ at = "read" /\ deps = 0
    /\ \/ Stores(tbl, key) /\ Goto("records", tbl)
       \/ FailsToStore(tbl, key) /\ at' = "drop" /\ errno' = "set"
          /\ UNCHANGED <<tbl, logged, status>>
    /\ UNCHANGED <<line, left, record, tables, files>>

(* Fault: a table is freed, but its fields are not zeroed.                 *)
FreeTableKeepsFields(t) ==
    /\ Memory(0, 0, Owned(Places(t)))
    /\ UNCHANGED <<owned, sized>>

(* free_ezi_hash_table(): buckets that are counted but were not allocated  *)
(* cannot be walked.                                                       *)
WalksNothing(t) == t \in sized /\ owned[Buckets(t)] = {}

FreeTable(t) ==
    /\ ~WalksNothing(t)
    /\ Memory(0, 0, Owned(Places(t)))
    /\ owned' = Without(Places(t))
    /\ sized' = sized \ {t}

(* A load that fails frees the table.                                      *)
Drop ==
    /\ at = "drop" /\ FreeTable(tbl) /\ Fail
    /\ UNCHANGED <<line, tbl, left, record, inited, files>>

-----------------------------------------------------------------------------
(* export_known_commands(), whose failures nobody looks at.                *)
Exported == <<"usage", "install", "list", "add", "echo">>

Export ==
    /\ at = "export"
    /\ left' = left - 1
    /\ \/ Stores("commands", Exported[left]) /\ UNCHANGED errno
       \/ FailsToStore("commands", Exported[left]) /\ errno' = "stale"
    /\ at' = IF left = 1 THEN "dispatch" ELSE "export"
    /\ UNCHANGED <<line, tbl, record, tables, files, logged, status>>

(* The command has returned, with errno e when it failed.  ezi_app_run()   *)
(* shows that errno and sets its own.                                      *)
Succeeds == at' = "returned" /\ status' = "ok" /\ UNCHANGED <<errno, logged>>

FailsWith(e) ==
    /\ at' = "returned" /\ status' = "failed"
    /\ logged' = e /\ errno' = "set"

Name == line[1]
Args == Tail(line)
IsCommand(name)  == name \in Command /\ Holds("commands", name)
IsSoftware(name) == name \in Software /\ Holds("available", name)

(* get_command(): a failed lookup sets no errno before it is shown.        *)
Dispatch ==
    /\ at = "dispatch"
    /\ \/ IsCommand(Name) /\ Goto("execute", tbl)
       \/ ~IsCommand(Name) /\ FailsWith(errno) /\ UNCHANGED tbl
    /\ UNCHANGED <<line, left, record, memory, tables, files>>

Execute(name) ==
    /\ at = "execute" /\ Name = name
    /\ UNCHANGED <<line, tbl, deps, key, memory, tables, streams>>

(* echo_command_exec().                                                    *)
Echo == Execute("echo") /\ Succeeds /\ UNCHANGED <<left, opts, smooth>>

(* list_software_command_exec().                                           *)
ListTable ==
    /\ Execute("list") /\ UNCHANGED <<left, opts, smooth>>
    /\ IF Len(Args) = 1 /\ Args[1] \in Source THEN Succeeds ELSE FailsWith("set")

(* show_usage_command_exec().                                              *)
Usage ==
    /\ Execute("usage") /\ UNCHANGED <<left, opts, smooth>>
    /\ IF Len(Args) # 1 THEN FailsWith("set")
       ELSE IF IsCommand(Args[1]) THEN Succeeds ELSE FailsWith(errno)

(* install_software_command_exec(); the installation is module Install.    *)
InstallSoftware ==
    /\ Execute("install") /\ UNCHANGED <<left, opts>>
    /\ \/ Len(Args) # 1 /\ FailsWith("set") /\ UNCHANGED smooth
       \/ /\ Len(Args) = 1 /\ ~IsSoftware(Args[1])
          /\ FailsWith(errno) /\ UNCHANGED smooth
       \/ /\ Len(Args) = 1 /\ IsSoftware(Args[1])
          /\ \/ Succeeds /\ UNCHANGED smooth
             \/ (\E e \in {errno, "set"} : FailsWith(e)) /\ smooth' = FALSE

-----------------------------------------------------------------------------
(* add_software_command_exec(): getopt() from the word behind "add".       *)
Add ==
    /\ Execute("add")
    /\ at' = "options" /\ left' = 1 /\ opts' = {}
    /\ UNCHANGED <<smooth, outcome>>

IsOption(w) == w \in Option \cup {"-?"}

(* Fault: a description is required as well.                               *)
AllRequired == {"-n", "-u", "-d"}

Required == {"-n", "-u"}

(* An option with its argument.                                            *)
TakeOption ==
    /\ left < Len(Args) /\ Args[left] \in Option
    /\ opts' = opts \cup {Args[left]}
    /\ left' = left + 2
    /\ key' = IF Args[left] = "-n" THEN Args[left + 1] ELSE key
    /\ UNCHANGED <<at, deps, outcome>>

(* A word that is no option is passed over.                                *)
SkipWord ==
    /\ left <= Len(Args) /\ ~IsOption(Args[left])
    /\ left' = left + 1
    /\ UNCHANGED <<at, deps, key, opts, outcome>>

(* An option that is unknown or lacks its argument ends the command, and   *)
(* so does the final -1 where a char cannot hold it.                       *)
RejectOption ==
    /\ \/ left <= Len(Args) /\ Args[left] \notin Option /\ IsOption(Args[left])
       \/ left = Len(Args) /\ Args[left] \in Option
       \/ left > Len(Args) /\ ~CharIsSigned
    /\ FailsWith("set")
    /\ UNCHANGED <<left, deps, key, opts>>

(* No option is left; a name and a URL are required.                       *)
EndOptions ==
    /\ left > Len(Args) /\ CharIsSigned
    /\ IF Required \subseteq opts
         THEN /\ at' = "tokens"
              /\ deps' \in IF "-D" \in opts THEN 0..MaxDeps ELSE {0}
              /\ UNCHANGED outcome
         ELSE FailsWith("set") /\ UNCHANGED deps
    /\ UNCHANGED <<left, key, opts>>

Options ==
    /\ at = "options"
    /\ TakeOption \/ SkipWord \/ RejectOption \/ EndOptions
    /\ UNCHANGED <<line, tbl, memory, tables, files>>

(* A token of the dependencies is pushed; the list is left behind when it  *)
(* cannot be.                                                              *)
PushToken ==
    /\ at = "tokens" /\ MoreDependencies
    /\ \/ /\ Memory(2, 2, {})
          /\ owned' = [owned EXCEPT ![List] = @ \cup New(2)]
          /\ deps' = deps - 1
          /\ UNCHANGED <<at, outcome>>
       \/ /\ \E n \in 0..1 : Memory(n, 2, {})
          /\ owned' = Without({List})
          /\ FailsWith("set") /\ UNCHANGED deps
    /\ UNCHANGED <<line, tbl, left, key, opts, tables, files>>

InsertSoftware ==
    /\ at = "tokens" /\ deps = 0
    /\ \/ Stores("available", key) /\ at' = "save" /\ UNCHANGED outcome
       \/ FailsToStore("available", key) /\ FailsWith("set")
    /\ UNCHANGED <<line, tbl, left, record, tables, files>>

(* ezi_software_database_save(), which allocates nothing.                  *)
Save ==
    /\ at = "save"
    /\ \/ Succeeds /\ UNCHANGED smooth
       \/ FailsWith("set") /\ smooth' = FALSE
    /\ UNCHANGED <<line, tbl, left, record, memory, tables, streams>>

-----------------------------------------------------------------------------
(* ezi_app_destroy(): the list of arguments, the table of commands, and    *)
(* the database when it was initialised, available first.                  *)
FreeConfig ==
    /\ at = "returned"
    /\ Memory(0, 0, owned[Arguments])
    /\ owned' = Without({Arguments})
    /\ Goto("destroy", "commands")
    /\ UNCHANGED <<line, left, record, tables, files>>

After(t) ==
    CASE t = "commands"  -> IF inited THEN Goto("destroy", "available") ELSE Goto("end", t)
      [] t = "available" -> Goto("destroy", "installed")
      [] t = "installed" -> Goto("end", t)

Destroy ==
    /\ at = "destroy"
    /\ tbl \in Source => tbl \in streams
    /\ streams' = streams \ {tbl}
    /\ FreeTable(tbl)
    /\ After(tbl)
    /\ UNCHANGED <<line, left, record, inited, smooth>>

(* A file that is not open is closed, or buckets are walked that are NULL. *)
Undefined ==
    /\ at = "destroy" /\ defined
    /\ WalksNothing(tbl) \/ (tbl \in Source /\ tbl \notin streams)
    /\ defined' = FALSE
    /\ UNCHANGED <<line, at, tbl, left, record, heap, top, owned, failures,
                   tables, files, outcome>>

Next ==
    \/ Parse \/ InitCommands \/ Open \/ InitTable
    \/ ReadHeader \/ EndRecords \/ ReadRecord \/ ReadDependency \/ StoreRecord \/ Drop
    \/ Export \/ Dispatch
    \/ Echo \/ ListTable \/ Usage \/ InstallSoftware
    \/ Add \/ Options \/ PushToken \/ InsertSoftware \/ Save
    \/ FreeConfig \/ Destroy \/ Undefined

Spec == Init /\ [][Next]_vars

-----------------------------------------------------------------------------
(* Types of the process, its memory and its history.                       *)
TypeOK ==
    /\ line \in Lines /\ tbl \in Table
    /\ left \in Nat /\ deps \in 0..MaxDeps /\ opts \in SUBSET Option
    /\ top \in Nat /\ heap \in SUBSET (1..top)
    /\ owned \in [Place -> SUBSET (1..top)]
    /\ failures \in 0..MaxFailures
    /\ {defined, inited, smooth} \subseteq BOOLEAN
    /\ sized \in SUBSET Table /\ streams \in SUBSET Source
    /\ errno \in {"clear", "stale", "set"}
    /\ logged \in {"nothing", "clear", "stale", "set"}
    /\ status \in {"running", "ok", "failed"}

(* On every path, failures included, what a place points to is allocated,  *)
(* and no two places share a block: the dependencies of a record move into *)
(* the table and do not stay behind in the struct on the stack.            *)
OneOwner ==
    /\ Owned(Place) \subseteq heap
    /\ \A p, q \in Place : p # q => owned[p] \cap owned[q] = {}

(* ezi_app_destroy() frees nothing twice and closes nothing twice, on any  *)
(* path from main(), unless the buckets of the commands could not be       *)
(* allocated.                                                              *)
DestroyIsDefined ==
    /\ defined \/ WalksNothing("commands")
    /\ WalksNothing("commands") => failures > 0

(* As long as allocations succeed every block has an owner, and a process  *)
(* that ends has freed all it allocated and closed all it opened, however  *)
(* early it failed; only when the second data file cannot be opened does   *)
(* the first one stay open.                                                *)
CleanEnd ==
    failures = 0 =>
       /\ heap = Owned(Place)
       /\ at = "end" => /\ heap = {}
                        /\ streams = {} \/ (streams = {"installed"} /\ ~smooth)

(* After an allocation failed inside of push, shift or set, whose callers  *)
(* lose blocks then, the run does not go on and succeed; only the commands *)
(* that could not be exported may each cost a block.                       *)
GivesUp ==
    at = "returned" /\ status = "ok" =>
       Cardinality(heap \ Owned(Place)) <= Cardinality({k \in Command : ~IsCommand(k)})

(* The errno that a log shows is that of the failure it tells of.  As long *)
(* as the files are fine, only a name that was looked up and not found     *)
(* sets none (ds_hash_table.c:86): the log then shows no error, or that of *)
(* a command that could not be exported before.  What a call that went     *)
(* well left in errno is never shown.                                      *)
Looked == IF Len(line) = 2 /\ Name \in {"usage", "install"} THEN line[2] ELSE Name

LogsExplain ==
    /\ logged = "clear" /\ smooth =>
          \/ Len(line) = 2 /\ Name = "install"
          \/ Looked \notin Command
    /\ logged = "stale" => failures > 0

(* The command lines of the usage texts of the commands, with the options  *)
(* in any order.                                                           *)
IsAdd(args) ==
    /\ Len(args) % 2 = 0
    /\ \A i \in 1..Len(args) : i % 2 = 1 => args[i] \in Option
    /\ {"-n", "-u"} \subseteq {args[i] : i \in {j \in 1..Len(args) : j % 2 = 1}}

FollowsUsage ==
    \/ Name = "echo"
    \/ Name = "add" /\ IsAdd(Args)
    \/ Name = "list" /\ Len(Args) = 1 /\ Args[1] \in Source
    \/ Name = "usage" /\ Len(Args) = 1 /\ Args[1] \in Command
    \/ Name = "install" /\ Len(Args) = 1 /\ IsSoftware(Args[1])

(* As long as no allocation and no file fails, a command line that follows *)
(* a usage text is carried out.                                            *)
UsageIsAccepted ==
    at = "returned" /\ failures = 0 /\ smooth /\ line # << >> =>
       (FollowsUsage => status = "ok")
=============================================================================
