---------------------------- MODULE RecordBytes ----------------------------
(***************************************************************************)
(* The records of a data file at the level of bytes: what `ezi add' copies *)
(* into a struct ezi_software (src/add_software_command.c), what           *)
(* ezi_software_write() makes of it and what ezi_software_read() reads     *)
(* (src/data_software.c, src/io_read_write.c, src/io_endian.c), perhaps on *)
(* a machine with the other byte order.                                    *)
(*                                                                         *)
(* strncpy() ends a string that fills its field without a zero byte, and   *)
(* the writer takes such a field and what follows it in the struct for one *)
(* string.  The reader takes no more bytes of a string than fit into its   *)
(* field, and goes on behind those.                                        *)
(*                                                                         *)
(* Module SourceFile has the same records as fields; ReadsAsFields below   *)
(* relates its reader to this one.                                         *)
(***************************************************************************)
EXTENDS Naturals, Sequences, SequencesExt, FiniteSetsExt

CONSTANTS
    NameLen, DescLen, UrlLen,  \* EZI_SOFTWARE_MAX_NAME_LEN, ...
    DepsWidth,    \* how many values a written number of dependencies has (2^16)
    Arguments,    \* what users add: records of name, desc, url and deps
    Behind,       \* the strings that may follow an allocated block
    Garbage,      \* the values an uninitialised number may have
    MaxRecords,   \* bound on the records of a file
    MaxCut        \* bound on the records of a file that is cut

ASSUME LengthsAssumption ==
    /\ \A n \in {NameLen, DescLen, UrlLen, DepsWidth} : n \in Nat \ {0} /\ n <= 65536
    /\ Garbage \subseteq Nat
    /\ MaxRecords \in Nat /\ MaxCut \in Nat

(* The strings of a command line have no zero byte, and list far fewer     *)
(* than 2^24 dependencies.                                                 *)
ASSUME StringsAssumption ==
    /\ \A arg \in Arguments :
          /\ arg.name \in Seq(1..255) /\ arg.desc \in Seq(1..255)
          /\ arg.url \in Seq(1..255) /\ arg.deps \in Seq(Seq(1..255))
          /\ Len(arg.deps) < 256^3
    /\ Behind \subseteq Seq(0..255)

VARIABLES
    phase,      \* "write", "read", "done" or "failed"
    bigEndian,  \* the byte order of the machine that writes, and that reads
    written,    \* the structs that were written
    bytes,      \* the file
    whole,      \* all that was written is in the file
    stream,     \* the position of the reader and its end-of-file flag
    got         \* the structs that were read

vars == <<phase, bigEndian, written, bytes, whole, stream, got>>

-----------------------------------------------------------------------------
(* strncpy(field, s, n) into a field of zeros.                             *)
Copy(s, n) == [i \in 1..n |-> IF i <= Len(s) THEN s[i] ELSE 0]

(* The string that begins at m[1]: the bytes before the first zero.        *)
CString(m) == SelectInSeq(m, LAMBDA b : b = 0)
Chars(m) == IF CString(m) = 0 THEN m ELSE SubSeq(m, 1, CString(m) - 1)

(* The struct add_software_command_exec() makes of its arguments.          *)
Struct(a) ==
    [name |-> Copy(a.name, NameLen), desc |-> Copy(a.desc, DescLen),
     url  |-> Copy(a.url, UrlLen),
     deps |-> [i \in DOMAIN a.deps |-> Copy(a.deps[i], NameLen)]]

-----------------------------------------------------------------------------
(* The bytes of a number in memory.                                        *)
HostBytes(n, w, big) ==
    LET low == [i \in 1..w |-> (n \div 256^(i - 1)) % 256]
    IN  IF big THEN Reverse(low) ELSE low

HostNumber(m, big) ==
    FoldLeft(LAMBDA n, b : 256 * n + b, 0, IF big THEN m ELSE Reverse(m))

(* The list of dependencies follows the URL in the struct.  Its first      *)
(* field is the count, a size_t of which only the lowest three bytes are   *)
(* not zero: a string that runs into it ends there.                        *)
ListHead(sw, big) ==
    IF big THEN <<0>> ELSE HostBytes(Len(sw.deps), 3, FALSE) \o <<0>>

(* is_big_endian() ? num : ezi_swap_endianness(num).                       *)
Swapped(m, big) == IF big THEN m ELSE Reverse(m)

(* ezi_fs_write_uint32() and ezi_fs_write_uint16(): width w in bytes.      *)
NumberBytes(n, w, big) == Swapped(HostBytes(n, w, big), big)

(* ezi_fs_write_string() of the string at m.                               *)
StringBytes(m, big) == NumberBytes(Len(Chars(m)), 4, big) \o Chars(m)

(* Fault: the number of dependencies is written in the host's byte order.  *)
RecordBytesUnswapped(sw, big, b) ==
    LET head == ListHead(sw, big)
    IN  StringBytes(sw.name \o sw.desc \o sw.url \o head, big)
        \o StringBytes(sw.desc \o sw.url \o head, big)
        \o StringBytes(sw.url \o head, big)
        \o HostBytes(Len(sw.deps) % DepsWidth, 2, big)
        \o FlattenSeq([i \in DOMAIN sw.deps |-> StringBytes(sw.deps[i] \o b, big)])

(* ezi_software_write(): three strings of the struct, the number of        *)
(* dependencies, and the blocks of the list, behind which lies b.          *)
Record(sw, big, b) ==
    LET head == ListHead(sw, big)
    IN  StringBytes(sw.name \o sw.desc \o sw.url \o head, big)
        \o StringBytes(sw.desc \o sw.url \o head, big)
        \o StringBytes(sw.url \o head, big)
        \o NumberBytes(Len(sw.deps) % DepsWidth, 2, big)
        \o FlattenSeq([i \in DOMAIN sw.deps |-> StringBytes(sw.deps[i] \o b, big)])

-----------------------------------------------------------------------------
(* The stream after a read that failed.                                    *)
Broken == [ok |-> FALSE, eof |-> TRUE, pos |-> 0, val |-> << >>]

(* Fault: a read that meets the end of the file counts what it asked for.  *)
ReadBeyond(s, n) ==
    IF ~s.ok \/ s.eof THEN Broken
    ELSE LET end == Min({s.pos + n, Len(bytes)})
         IN  [ok |-> TRUE, eof |-> s.pos + n > Len(bytes), pos |-> s.pos + n,
              val |-> SubSeq(bytes, s.pos + 1, end)]

(* Fault: a read at the end of the file gets nothing and succeeds.         *)
ReadAtEof(s, n) ==
    IF ~s.ok THEN Broken
    ELSE LET end == Min({s.pos + n, Len(bytes)})
         IN  [ok |-> TRUE, eof |-> s.pos + n > Len(bytes), pos |-> end,
              val |-> SubSeq(bytes, s.pos + 1, end)]

(* A read that begins at the end of the file fails (CHECK_EOF); one that   *)
(* meets it gets fewer bytes and succeeds.                                 *)
Read(s, n) ==
    IF ~s.ok \/ s.eof THEN Broken
    ELSE LET end == Min({s.pos + n, Len(bytes)})
         IN  [ok |-> TRUE, eof |-> s.pos + n > Len(bytes), pos |-> end,
              val |-> SubSeq(bytes, s.pos + 1, end)]

(* ezi_fs_read_uint32() and ezi_fs_read_uint16(); g if it comes short.     *)
ReadNumber(s, w, big, g) ==
    LET r == Read(s, w)
    IN  [r EXCEPT !.val = IF Len(@) < w THEN g
                          ELSE HostNumber(Swapped(@, big), big)]

(* ezi_fs_read_string() into a buffer of n bytes.                          *)
ReadString(s, n, big) ==
    LET len == ReadNumber(s, 4, big, 0)
    IN  Read(len, Min({len.val, n}))

(* The string and its zero byte go to the memory m behind offset o.  The   *)
(* zero behind a string that fills its field hits the next field.          *)
Store(m, o, str) ==
    [i \in DOMAIN m |-> IF i \in (o + 1)..(o + Len(str)) THEN str[i - o]
                        ELSE IF i = o + Len(str) + 1 THEN 0 ELSE m[i]]

(* One turn of the loop over the dependencies of ezi_software_read(), which *)
(* shifts each onto the list; d.s is the stream.                           *)
ReadDep(d, big) ==
    LET r == ReadString(d.s, NameLen, big)
    IN  IF ~d.s.ok THEN d
        ELSE [s |-> r, deps |-> <<Copy(r.val, NameLen)>> \o d.deps]

(* The loop.  A dependency takes four bytes or meets the end of the file,  *)
(* so n turns fail or reach the end if n is more than Len(bytes).          *)
ReadDeps(s, n, big) ==
    LET deps[i \in Nat] == IF i = 0 THEN [s |-> s, deps |-> << >>]
                           ELSE ReadDep(deps[i - 1], big)
    IN  deps[Min({n, Len(bytes) + 1})]

(* ezi_software_read() at s, with g for an uninitialised number.           *)
ReadRecord(s, big, g) ==
    LET name == ReadString(s, NameLen, big)
        desc == ReadString(name, DescLen, big)
        url  == ReadString(desc, UrlLen, big)
        num  == ReadNumber(url, 2, big, g)
        deps == ReadDeps(num, num.val, big)
        d    == NameLen
        u    == NameLen + DescLen
        m    == Store(Store(Store(Copy(<< >>, u + UrlLen + 1), 0, name.val),
                            d, desc.val), u, url.val)
    IN  IF ~num.ok \/ ~deps.s.ok THEN [ok |-> FALSE]
        ELSE [ok |-> TRUE,
              stream |-> [ok |-> TRUE, eof |-> deps.s.eof, pos |-> deps.s.pos, val |-> << >>],
              sw |-> [name |-> SubSeq(m, 1, d), desc |-> SubSeq(m, d + 1, u),
                      url |-> SubSeq(m, u + 1, u + UrlLen), deps |-> deps.deps]]

-----------------------------------------------------------------------------
Init ==
    /\ phase = "write"
    /\ bigEndian \in [{"writer", "reader"} -> BOOLEAN]
    /\ written = << >> /\ bytes = << >> /\ whole = TRUE /\ got = << >>
    /\ stream = [ok |-> TRUE, eof |-> FALSE, pos |-> 0, val |-> << >>]

(* One turn of the loop of ezi_software_source_save().                     *)
Write ==
    /\ phase = "write" /\ Len(written) < MaxRecords
    /\ \E a \in Arguments, b \in Behind :
          /\ written' = Append(written, Struct(a))
          /\ bytes' = bytes \o Record(Struct(a), bigEndian["writer"], b)
    /\ UNCHANGED <<phase, bigEndian, whole, stream, got>>

(* The buffer is flushed; when the disk is full, a part of it stays out,   *)
(* and nobody is told.                                                     *)
Rewind ==
    /\ phase = "write" /\ phase' = "read"
    /\ \/ UNCHANGED <<bytes, whole>>
       \/ /\ Len(written) <= MaxCut /\ whole' = FALSE
          /\ \E n \in 1..Len(bytes) : bytes' = SubSeq(bytes, 1, n - 1)
    /\ UNCHANGED <<bigEndian, written, stream, got>>

(* One turn of the loop of ezi_software_source_load(), or its end.         *)
ReadNext ==
    /\ phase = "read"
    /\ IF Len(got) < Len(written) /\ ~stream.eof
       THEN \E g \in Garbage :
              LET r == ReadRecord(stream, bigEndian["reader"], g)
              IN  IF r.ok
                  THEN /\ got' = Append(got, r.sw) /\ stream' = r.stream
                       /\ UNCHANGED phase
                  ELSE phase' = "failed" /\ UNCHANGED <<got, stream>>
       ELSE phase' = "done" /\ UNCHANGED <<got, stream>>
    /\ UNCHANGED <<bigEndian, written, bytes, whole>>

Next == Write \/ Rewind \/ ReadNext

Spec == Init /\ [][Next]_vars

-----------------------------------------------------------------------------
(* Types of the file and of the structs; what is read has the shape of     *)
(* what is written.                                                        *)
TypeOK ==
    LET IsStruct(sw) ==
          /\ sw.name \in [1..NameLen -> 0..255]
          /\ sw.desc \in [1..DescLen -> 0..255]
          /\ sw.url \in [1..UrlLen -> 0..255]
          /\ \A i \in DOMAIN sw.deps : sw.deps[i] \in [1..NameLen -> 0..255]
    IN  /\ whole \in BOOLEAN
        /\ phase \in {"write", "read", "done", "failed"}
        /\ \A i \in DOMAIN bytes : bytes[i] \in 0..255
        /\ \A i \in DOMAIN written : IsStruct(written[i])
        /\ \A i \in DOMAIN got : IsStruct(got[i])
        /\ Len(got) <= Len(written) /\ Len(written) <= MaxRecords
        /\ stream.pos \in 0..Len(bytes)

(* A field may be filled to its last byte only if nothing follows it: a    *)
(* name if there is no description, a description if there is no URL, a    *)
(* URL if there is no dependency (on a big-endian machine the count begins *)
(* with a zero), a dependency never.                                       *)
Fits(sw) ==
    LET full(f) == f[Len(f)] # 0
        none(f) == f[1] = 0
    IN  /\ full(sw.name) => none(sw.desc)
        /\ full(sw.desc) => none(sw.url)
        /\ full(sw.url) => sw.deps = << >> \/ bigEndian["writer"]
        /\ \A i \in DOMAIN sw.deps : ~full(sw.deps[i])
        /\ Len(sw.deps) < DepsWidth

Same(sw, tw) ==
    /\ sw.name = tw.name /\ sw.desc = tw.desc /\ sw.url = tw.url
    /\ sw.deps = Reverse(tw.deps)

(* From a file that is not cut, the records up to the first one that does  *)
(* not fit are read back as they were, with their dependencies reversed,   *)
(* on a machine of either byte order: a record that does not fit harms     *)
(* none before it, and the load fails at none of them.                     *)
FittingRecordsReturn ==
    whole => \A i \in DOMAIN written :
        (\A j \in 1..i : Fits(written[j])) =>
            /\ i <= Len(got) => Same(got[i], written[i])
            /\ phase \in {"done", "failed"} => i <= Len(got)

(* Wherever a file is cut, inside a number or a string, no record comes    *)
(* out of it that was not written: the strings of each are whole, all but  *)
(* the last have their dependencies, and that one has lost them, or a part *)
(* of the name of one.                                                     *)
Shortened(deps, full) ==
    \/ deps = << >>
    \/ /\ Len(deps) = Len(full) /\ Tail(deps) = Tail(full)
       /\ \E n \in 0..NameLen : Head(deps) = Copy(SubSeq(Head(full), 1, n), NameLen)

CutsInventNothing ==
    \A i \in DOMAIN got :
        (\A j \in 1..i : Fits(written[j])) =>
            \/ Same(got[i], written[i])
            \/ /\ ~whole /\ i = Len(got) /\ stream.eof
               /\ Same([got[i] EXCEPT !.deps = Reverse(written[i].deps)], written[i])
               /\ Shortened(got[i].deps, Reverse(written[i].deps))

(* The file as the fields that SourceFile is about.  A field takes as many *)
(* bytes as its numbers and strings; a number or a length of which a part  *)
(* is missing counts for nothing.                                          *)
F == INSTANCE SourceFile WITH
        Name <- [1..NameLen -> 0..255], Text <- [1..DescLen + UrlLen -> 0..255],
        Stump <- << >>

Sum(sizes) == FoldLeft(LAMBDA n, m : n + m, 0, sizes)

Sizes(sw) ==
    <<4 + Len(Chars(sw.name)), 8 + Len(Chars(sw.desc)) + Len(Chars(sw.url)), 2>>
        \o [i \in DOMAIN sw.deps |-> 4 + Len(Chars(sw.deps[i]))]

Fields(sw) == F!Record(sw.name, [text |-> sw.desc \o sw.url, deps |-> sw.deps])

AsFile ==
    LET fields == FlattenSeq([i \in DOMAIN written |-> Fields(written[i])])
        sizes  == FlattenSeq([i \in DOMAIN written |-> Sizes(written[i])])
        end(i) == Sum(SubSeq(sizes, 1, i))
        full   == Max({i \in 0..Len(sizes) : end(i) <= Len(bytes)})
        torn   == full < Len(sizes) /\ end(full) + 4 <= Len(bytes)
    IN  [fields |-> SubSeq(fields, 1, IF torn THEN full + 1 ELSE full), torn |-> torn]

AsSoftware(sw, r) ==
    /\ sw.name = r.name
    /\ sw.desc \o sw.url = r.sw.text
    /\ Len(sw.deps) = Len(r.sw.deps)
    /\ \A i \in DOMAIN sw.deps : r.sw.deps[i] \in {sw.deps[i], << >>}

(* As long as all records fit, the reader of bytes does what the reader of *)
(* fields in SourceFile may do, wherever the file was cut: it takes the    *)
(* same records, fails at the same ones, and sees the end of the file at   *)
(* the same one.                                                           *)
ReadsAsFields ==
    [][ phase = "read" /\ Len(got) < Len(written) /\ ~stream.eof
        /\ (\A i \in DOMAIN written : Fits(written[i]))
        => LET p == 1 + Sum([i \in DOMAIN got |-> Len(Fields(written[i]))])
           IN  \E g \in Garbage :
                  LET r == F!ReadRecord(AsFile, p, g)
                  IN  IF ~r.ok THEN phase' = "failed"
                      ELSE /\ Len(got') = Len(got) + 1
                           /\ AsSoftware(got'[Len(got')], r)
                           /\ stream'.eof = r.eof ]_vars

(* tests/data_software_tests.c compares what it decodes with what it       *)
(* encoded: every record that was written is read back with its strings.   *)
RecordsReturn ==
    phase \in {"done", "failed"} =>
        /\ Len(got) = Len(written)
        /\ \A i \in DOMAIN got : got[i].name = written[i].name
=============================================================================
