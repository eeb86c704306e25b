------------------------------- MODULE MCHooks --------------------------------
(***************************************************************************)
(* Instances of Hooks.  The lines are a and b, the groups a & b, a | b,    *)
(* a && (a | b) and a || b, the block if ... (a | b), and a script whose   *)
(* lines are a and a & b; then a group around the script, and one around   *)
(* the block.                                                              *)
(***************************************************************************)
EXTENDS Hooks

MCKind ==
  [n \in Nodes |->
    CASE n \in {"a", "b"} -> "command"
      [] n = "script" -> "script"
      [] n = "block" -> "block"
      [] n \in {"a&b", "script&b", "block&b"} -> "eComSep"
      [] n = "a|b" -> "ePipe"
      [] n = "a&&a|b" -> "eAnd"
      [] n = "a||b" -> "eOr"]
MCArms ==
  [n \in Nodes |->
    CASE n \in {"a", "b"} -> <<>>
      [] n = "script" -> <<"a", "a&b">>
      [] n = "block" -> <<"a|b">>
      [] n \in {"a&b", "a|b", "a||b"} -> <<"a", "b">>
      [] n = "a&&a|b" -> <<"a", "a|b">>
      [] n = "script&b" -> <<"script", "b">>
      [] n = "block&b" -> <<"block", "b">>]
===============================================================================
