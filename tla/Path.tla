-------------------------------- MODULE Path --------------------------------
(***************************************************************************)
(* The file names that src/util_path.c makes from a URL.  A string is the  *)
(* sequence of its characters; only separators and dots matter.  A buffer  *)
(* is longer than the URL that goes into it, as those of the install       *)
(* command are (FILENAME_MAX against the 0x60 bytes of a URL), so that no  *)
(* name is clipped.                                                        *)
(***************************************************************************)
EXTENDS Naturals, Sequences, FiniteSetsExt

Separator == {"/", "\\"}
Dot       == "."
NoName    == << >>

(* The regular expression "[^\\/]+$" matches from i on: to the end, and no *)
(* character is a separator.                                               *)
Matches(str, i) == \A j \in i..Len(str) : str[j] \notin Separator

(* ezi_base_filename(): the leftmost match; NoName if there is none.       *)
BaseFilename(str) ==
    LET starts == {i \in 1..Len(str) : Matches(str, i)}
    IN  IF starts = {} THEN NoName ELSE SubSeq(str, Min(starts), Len(str))

(* The loop of ezi_base_filename_no_ext(), which counts from 0: from the   *)
(* terminating zero back to a dot, or to the first character.              *)
DotFrom(out) ==
    LET back[i \in 0..Len(out)] ==
            IF i > 0 /\ (i = Len(out) \/ out[i + 1] # Dot) THEN back[i - 1] ELSE i
    IN  back[Len(out)]

(* Fault: a name that begins with its only dot is cut to nothing.          *)
BaseFilenameCut(str) ==
    LET out == BaseFilename(str)
    IN  IF Dot \in {out[i] : i \in 1..Len(out)}
        THEN SubSeq(out, 1, DotFrom(out)) ELSE out

(* ezi_base_filename_no_ext().                                             *)
BaseFilenameNoExt(str) ==
    LET out == BaseFilename(str)
    IN  IF DotFrom(out) > 0 THEN SubSeq(out, 1, DotFrom(out)) ELSE out

-----------------------------------------------------------------------------
(* What is meant by it: the last component of a path, and what is left of  *)
(* that without its last extension, where a dot at the beginning does not  *)
(* begin an extension.                                                     *)
Component(str) ==
    LET ends == {0} \cup {i \in 1..Len(str) : str[i] \in Separator}
    IN  SubSeq(str, Max(ends) + 1, Len(str))

IsStem(stem, name) ==
    \/ /\ stem = name
       /\ \A i \in 2..Len(name) : name[i] # Dot
    \/ \E ext \in 1..Len(name) - 1 :
          /\ name[ext + 1] = Dot
          /\ \A i \in (ext + 2)..Len(name) : name[i] # Dot
          /\ stem = SubSeq(name, 1, ext)
=============================================================================
