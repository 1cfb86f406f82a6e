---------------------------- MODULE MCTransfer ----------------------------
(* The instance of Transfer that TLC checks: a file of two chunks and a      *)
(* file of one.                                                            *)
EXTENDS Transfer

MCFiles == {"f1", "f2"}
MCTasks == <<"f1.0", "f1.1", "f2.0">>
MCFileOf == [c \in {"f1.0", "f1.1", "f2.0"} |-> IF c = "f2.0" THEN "f2" ELSE "f1"]
\* A collision that is refused, overwritten or avoided; several sources.
MCCases == {<<"fail", FALSE>>, <<"overwrite", FALSE>>, <<"rename", FALSE>>, <<"overwrite", TRUE>>}
=============================================================================
