----------------------------- MODULE MCInstall -----------------------------
(***************************************************************************)
(* An instance of Install: s1 and s2 have different URLs that end in the   *)
(* same file name, s3 another one; s4 and s5 have URLs that name the       *)
(* directory above /tmp and none.  The archives hold a folder and a file.  *)
(***************************************************************************)
EXTENDS Install, TLC

CONSTANTS p1, p2, s1, s2, s3, s4, s5, folder, source

MCProc      == {p1, p2}
MCSoftware  == {s1, s2, s3, s4, s5}
MCUrl       == s1 :> <<"h", "/", "a", ".", "x">>
               @@ s2 :> <<"k", "/", "a", ".", "y">>
               @@ s3 :> <<"h", "\\", "b">>
               @@ s4 :> <<"h", "/", ".", ".", ".">>
               @@ s5 :> <<"h", "/">>
MCNames     == UNION {[1..n -> {"a", ".", "/", "\\"}] : n \in 0..5}
MCArchive   == [s \in MCSoftware |->
                   IF s = s3 THEN <<source>> ELSE <<folder, source>>]
MCFolders   == {folder}
=============================================================================
