------------------------------ MODULE MCEditLine ------------------------------
(***************************************************************************)
(* EditLine with every text of up to five symbols to enter, and lines with *)
(* plain, quoted and half-quoted commands, two of them with a quote that   *)
(* is not closed, and with arguments that differ in blanks only, that      *)
(* repeat the command's quotes, and beyond MaxLength.                      *)
(***************************************************************************)
EXTENDS EditLine

CommandsMC ==
  {<<"a">>, <<"b">>, <<"a", "b">>, <<"q", "a", "q">>, <<"q", "a", " ", "b", "q">>,
   <<"a", "q", " ", "q">>, <<"q", "a", "q", "b">>, <<"q", "a">>, <<"q", "a", " ">>,
   <<"a", "a", "a", "a", "a", "a">>, <<"a", "a", "a", "a", "a", "b">>}
ArgumentsMC ==
  {<<>>, <<" ">>, <<" ", "a">>, <<" ", " ", "a">>, <<" ", "a", " ">>, <<" ", "b">>,
   <<"b">>, <<" ", "a", " ", "b">>, <<" ", "q", "b", "q">>, <<" ", "b", "q">>,
   <<" ", "a", "b", "a", "b", "a">>, <<" ", "a", "b", "a", "b", "b">>}
LinesMC == [command : CommandsMC, arguments : ArgumentsMC]
TextsMC == UNION {[1..n -> {"a", "b", " ", "q"}] : n \in 0..5}

===============================================================================
