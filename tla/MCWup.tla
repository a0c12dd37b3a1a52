------------------------------- MODULE MCWup -------------------------------
(***************************************************************************)
(* Wup: two clients of two commands each, on three words of memory; and a       *)
(* backup with a directory in a directory, an empty file and one of several     *)
(* blocks, restored over an older MLC.                                          *)
(***************************************************************************)
EXTENDS Wup, TLC

Write(addr, data) == [op |-> "write", addr |-> addr, data |-> data, len |-> Len(data)]
MCCommands ==
  {Write(0, <<1, 2>>), [op |-> "read", addr |-> 0, len |-> 2],
   [op |-> "memcpy", addr |-> 2, src |-> 0, len |-> 1],
   [op |-> "svc"], [op |-> "kill"], [op |-> "unknown"], [op |-> "repeat", n |-> 2, val |-> 9]}
WriteOnly == {Write(0, <<1, 2>>)}

MCDirs == {<<"usr">>, <<"usr", "save">>, <<"sys">>}
MCBackup == <<"usr", "a">> :> <<1, 2, 3>> @@ <<"usr", "save", "b">> :> <<4>> @@ <<"sys", "c">> :> <<>>
MCOldMlc == [p \in DOMAIN MCBackup |-> IF p = <<"usr", "a">> THEN <<7, 7>> ELSE <<>>]
=============================================================================
