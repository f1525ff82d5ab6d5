----------------------------- MODULE SourceFile -----------------------------
(***************************************************************************)
(* The data file of a software table: what ezi_software_source_save()      *)
(* writes (src/data_software_source.c, src/data_software.c) and what       *)
(* ezi_software_source_load() makes of any file a save may leave behind.   *)
(*                                                                         *)
(* A file is the sequence of the fields that were written: two for the     *)
(* header (the version, the checksum and the time in one, then the number  *)
(* of records), and for each record its name, its text (the description    *)
(* and the URL in one), the number of its dependencies and their names.    *)
(* A file that was cut short is a prefix of that.  A cut inside a number,  *)
(* or inside the length of a string, reads like a cut before it; a cut     *)
(* inside the characters of a string is `torn'.                            *)
(*                                                                         *)
(* The strings are those that fit into the fields of the struct; module    *)
(* RecordBytes shows what happens to others.                               *)
(*                                                                         *)
(* The reader never compares the bytes fread() got with those it wanted    *)
(* (io_read_write.c:80).  It notices the end of the file one read too late *)
(* (CHECK_EOF): the read that meets the end succeeds, with an undefined    *)
(* number or a shortened string, and the read after it fails.              *)
(***************************************************************************)
EXTENDS Naturals, Sequences, SequencesExt

CONSTANTS
    Name,     \* names of software
    Text,     \* descriptions and URLs
    Stump,    \* a string whose characters were cut short
    Garbage   \* the values an uninitialised number may have

ASSUME FieldsAssumption ==
    /\ Stump \notin Name \cup Text
    /\ Garbage \subseteq Nat /\ Garbage # {}
    /\ (Name \cup Text \cup {Stump}) \cap Nat = {}

(* struct ezi_software without its name, which is the key of the table.    *)
Software == [text : Text, deps : Seq(Name \cup {Stump})]

(* A table holds one software per name.                                    *)
IsTable(table) ==
    DOMAIN table \subseteq Name /\ \A n \in DOMAIN table : table[n] \in Software

Empty == [n \in {} |-> 0]

(* ezi_hash_table_set() on a table of software.                            *)
Put(table, name, sw) ==
    [n \in DOMAIN table \cup {name} |-> IF n = name THEN sw ELSE table[n]]

-----------------------------------------------------------------------------
(* ezi_software_write().                                                   *)
Record(name, sw) == <<name, sw.text, Len(sw.deps)>> \o sw.deps

(* Fault: a record does not say how many dependencies follow.              *)
ContentsWithoutDeps(table, order) ==
    <<0, Len(order)>> \o
        FlattenSeq([i \in DOMAIN order |->
                        <<order[i], table[order[i]].text, 0>>])

(* Fault: the number of records is that of the table before the insertion. *)
ContentsMiscounted(table, order) ==
    <<0, IF order = << >> THEN 0 ELSE Len(order) - 1>> \o
        FlattenSeq([i \in DOMAIN order |->
                        Record(order[i], table[order[i]])])

(* write_source_metadata() and the records of the table in the order in    *)
(* which HASH_TABLE_ITERATE meets them.                                    *)
Contents(table, order) ==
    <<0, Len(order)>> \o
        FlattenSeq([i \in DOMAIN order |->
                        Record(order[i], table[order[i]])])

Whole(fields) == [fields |-> fields, torn |-> FALSE]

Truncated == Whole(<< >>)

(* What a write of the fields leaves in the file when the disk is full.    *)
Cuts(fields) ==
    {Whole(p) : p \in Prefixes(fields)} \cup
    {[fields |-> p, torn |-> TRUE] :
        p \in {q \in Prefixes(fields) :
                  q # << >> /\ q[Len(q)] \in Name \cup Text \cup {Stump}}}

-----------------------------------------------------------------------------
(* Field i is there to its last character.                                 *)
Intact(f, i) ==
    i < Len(f.fields) \/ (i = Len(f.fields) /\ ~f.torn)

Dependency(f, i) ==
    IF Intact(f, i) THEN f.fields[i] ELSE Stump

(* Fault: no read notices the end of the file.                             *)
ReadRecordNoEof(f, p, g) ==
    LET field(i) == IF i <= Len(f.fields) THEN Dependency(f, i) ELSE Stump
        ndeps == IF Intact(f, p + 2) THEN f.fields[p + 2] ELSE g
        last  == p + 2 + ndeps
        deps  == [i \in 1..ndeps |-> field(p + 2 + i)]
    IN  [ok |-> TRUE, name |-> field(p),
         sw |-> [text |-> field(p + 1), deps |-> Reverse(deps)],
         next |-> last + 1, eof |-> ~Intact(f, last)]

(* ezi_software_read() of the record that begins at field p, not yet       *)
(* beyond the end of the file.  The dependencies are shifted onto their    *)
(* list, so they come out in reverse.  g is what an uninitialised number   *)
(* of dependencies contains.                                               *)
ReadRecord(f, p, g) ==
    LET ndeps == IF Intact(f, p + 2) THEN f.fields[p + 2] ELSE g
        last  == p + 2 + ndeps
        deps  == [i \in 1..ndeps |-> Dependency(f, p + 2 + i)]
    IN  IF /\ Intact(f, p) /\ Intact(f, p + 1)
           /\ last <= Len(f.fields) \/ (ndeps = 0 /\ ~Intact(f, p + 2))
        THEN [ok |-> TRUE, name |-> f.fields[p],
              sw |-> [text |-> f.fields[p + 1], deps |-> Reverse(deps)],
              next |-> last + 1, eof |-> ~Intact(f, last)]
        ELSE [ok |-> FALSE]

Failed == [ok |-> FALSE]

(* A turn of the loop of ezi_software_source_load(), after what s says of  *)
(* the turns before it: the loop stops at the end of the file, and fails   *)
(* with the first record that cannot be read.                              *)
ScanRecord(f, g, s) ==
    LET r == ReadRecord(f, s.next, g)
    IN  IF ~s.ok \/ s.eof THEN s
        ELSE IF ~r.ok THEN Failed
        ELSE [ok |-> TRUE, eof |-> r.eof, next |-> r.next,
              table |-> Put(s.table, r.name, r.sw)]

(* The loop over the records the header promises, from an empty table and  *)
(* the field after the header.                                             *)
ScanStart == [ok |-> TRUE, eof |-> FALSE, next |-> 3, table |-> Empty]

Scan(f, g) ==
    LET scan[i \in Nat] ==
          IF i = 0 THEN ScanStart ELSE ScanRecord(f, g, scan[i - 1])
    IN  scan[f.fields[2]]

(* Fault: a file without a header is taken for an empty table.             *)
LoadWithoutHeader(f, g) ==
    IF Len(f.fields) <= 1 THEN [ok |-> TRUE, table |-> Empty]
    ELSE LET s == Scan(f, g)
         IN  IF s.ok THEN [ok |-> TRUE, table |-> s.table] ELSE Failed

(* ezi_software_source_load().  A header that ends in its last number is   *)
(* accepted: the number read is undefined, but the loop sees the end of    *)
(* the file before it reads a record.                                      *)
Load(f, g) ==
    IF Len(f.fields) = 0 THEN Failed
    ELSE IF Len(f.fields) = 1 THEN [ok |-> TRUE, table |-> Empty]
    ELSE LET s == Scan(f, g)
         IN  IF s.ok THEN [ok |-> TRUE, table |-> s.table] ELSE Failed

(* No load of the file can succeed.                                        *)
Unreadable(f) == \A g \in Garbage : ~Load(f, g).ok

(* Equal tables, whatever the order of the dependencies.                   *)
SameTable(t, u) ==
    /\ DOMAIN t = DOMAIN u
    /\ \A n \in DOMAIN t :
          /\ t[n].text = u[n].text
          /\ t[n].deps = u[n].deps \/ t[n].deps = Reverse(u[n].deps)
=============================================================================
