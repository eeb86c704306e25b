------------------------------ MODULE LogChannel ------------------------------
(***************************************************************************)
(* What cmd_hook.json is for: a lossless first-in-first-out channel from   *)
(* the hook DLL inside cmd.exe (log_json_entry) to the Python monitor      *)
(* (CmdLogMonitor).  JsonLog implements it when nothing goes wrong.        *)
(***************************************************************************)
EXTENDS Naturals, Sequences

CONSTANT Entry          \* the log entries

VARIABLES sent,         \* every entry the DLL has logged, in order
          received      \* every entry the monitor has handled, in order

vars == <<sent, received>>

Init == sent = <<>> /\ received = <<>>

Send(e) ==
  /\ sent' = Append(sent, e)
  /\ UNCHANGED received

Receive ==
  /\ Len(received) < Len(sent)
  /\ received' = Append(received, sent[Len(received) + 1])
  /\ UNCHANGED sent

Next == Receive \/ \E e \in Entry : Send(e)

Spec == Init /\ [][Next]_vars

===============================================================================
