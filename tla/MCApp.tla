------------------------------- MODULE MCApp -------------------------------
(***************************************************************************)
(* Command lines for App: each command as its usage text has it, and with  *)
(* too few, too many or wrong words.                                       *)
(***************************************************************************)
EXTENDS App

MCLines ==
    { << >>, <<"echo", "-n">>, <<"erase">>,
      <<"list", "available">>, <<"list", "add">>,
      <<"usage", "add">>, <<"usage", "erase">>,
      <<"install", "s1">>, <<"install", "s1", "s2">>,
      <<"add", "-D", "s2", "-u", "-d", "-n", "s2">>,
      <<"add", "here", "-u", "url", "-n">>, <<"add", "-u", "url">>,
      <<"add", "-?">> }

(* The usage line of `ezi add' (add_software_command.c:95), with and       *)
(* without what stands in brackets.                                        *)
MCUsageLines ==
    { <<"add", "-n", "s1", "-u", "url">>,
      <<"add", "-n", "s1", "-u", "url", "-d", "text">> }

(* The installed table matters less: nothing is looked up in it.           *)
MCRecords == [s \in Source |-> IF s = "available" THEN 2 ELSE 1]
=============================================================================
