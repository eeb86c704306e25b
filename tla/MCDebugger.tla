------------------------------ MODULE MCDebugger ------------------------------
(***************************************************************************)
(* Instances of Debugger.  "set x" and "set x " are two lines the monitor  *)
(* shows alike, as it trims the arguments; "set y" has their root and a    *)
(* key of its own; "set x & dir" is an operator group, whose root is the   *)
(* whole text; "echo 0" is on the list the monitor starts with.  Entering  *)
(* "set  y" gives cmd.exe "set y".                                         *)
(***************************************************************************)
EXTENDS Debugger

MCKeyOf ==
  [c \in Lines |-> IF c = "set x " THEN "set x" ELSE c]
MCRootOf ==
  [c \in Lines |-> CASE c = "set x & dir" -> c
                     [] c = "echo 0" -> "echo"
                     [] OTHER -> "set"]
MCEditedLine ==
  [t \in Edits |-> IF t = "" THEN NoLine ELSE "set y"]
===============================================================================
