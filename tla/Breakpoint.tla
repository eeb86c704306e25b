------------------------------ MODULE Breakpoint ------------------------------
(***************************************************************************)
(* What the debugger promises about one cmd.exe: a command line that       *)
(* reaches a breakpoint is held, at most one at a time; the controller     *)
(* settles on at most one verdict for it, which never changes; the command *)
(* is then carried out as the verdict says, or, if the wait may time out,  *)
(* as it was.  An edit replaces the line; the contract leaves open whether *)
(* it replaces that of an operator group.  Debugger implements this.       *)
(***************************************************************************)
EXTENDS Naturals

CONSTANTS Ids,          \* break ids
          Lines,        \* command lines
          NoLine,       \* no command line
          Groups,       \* operator groups, lines an edit may leave as they are
          None,         \* no verdict, no result
          MayTimeOut    \* whether a held command may run without a verdict

VARIABLES reached,      \* reached[i]: the line held by break i
          verdict,      \* verdict[i]: what the controller decided
          result        \* result[i]: the line that was run, NoLine if skipped

vars == <<reached, verdict, result>>

Verdicts == [act : {"continue", "skip"}, text : {NoLine}] \cup [act : {"edit"}, text : Lines]

(* Whether v, given to line c, is honoured when ran is what runs.  By way  *)
(* of exception an edited group may run as it was.                         *)
Honours(ran, c, v) ==
  \/ v.act = "skip" /\ ran = NoLine
  \/ v.act = "continue" /\ ran = c
  \/ v.act = "edit" /\ ran = v.text
  \/ v.act = "edit" /\ ran = c /\ c \in Groups

Held(i) == reached[i] # NoLine /\ result[i] = None

Init ==
  /\ reached = [i \in Ids |-> NoLine]
  /\ verdict = [i \in Ids |-> None]
  /\ result = [i \in Ids |-> None]

Reach(i, c) ==
  /\ \A j \in Ids : ~Held(j)
  /\ reached[i] = NoLine
  /\ reached' = [reached EXCEPT ![i] = c]
  /\ UNCHANGED <<verdict, result>>

Decide(i, v) ==
  /\ reached[i] # NoLine
  /\ verdict[i] = None
  /\ verdict' = [verdict EXCEPT ![i] = v]
  /\ UNCHANGED <<reached, result>>

Obey(i) ==
  /\ Held(i)
  /\ verdict[i] # None
  /\ \E ran \in Lines \cup {NoLine} :
       Honours(ran, reached[i], verdict[i]) /\ result' = [result EXCEPT ![i] = ran]
  /\ UNCHANGED <<reached, verdict>>

GiveUp(i) ==
  /\ MayTimeOut
  /\ Held(i)
  /\ result' = [result EXCEPT ![i] = reached[i]]
  /\ UNCHANGED <<reached, verdict>>

Next ==
  \E i \in Ids :
    \/ \E c \in Lines : Reach(i, c)
    \/ \E v \in Verdicts : Decide(i, v)
    \/ Obey(i)
    \/ GiveUp(i)

Spec == Init /\ [][Next]_vars

===============================================================================
