----------------------------- MODULE MCFileWriter -----------------------------
(* Instances of FileWriter for TLC.                                          *)
EXTENDS FileWriter

CONSTANTS a1, a2, a3

(* a1 and a2 write to the same file, a3 to another one.                      *)
MCKeyOf == [a \in Appends |-> IF a = a3 THEN 2 ELSE 1]

(* SetDir switches to a new directory.                                       *)
MCDirOf == [s \in Setters |-> "new"]
===============================================================================
