--------------------------------- MODULE Hooks ---------------------------------
(***************************************************************************)
(* Where a command line meets a breakpoint (cmdtest/src/hooks.rs).  The    *)
(* DLL detours six functions of cmd.exe: FindFixAndRun, which runs a       *)
(* command; Dispatch, which cmd.exe calls for every node of a parsed line; *)
(* and the functions of the operators | & && ||.  A group is put to the    *)
(* user as a whole: while it runs, a thread-local counter keeps the hooks  *)
(* below it quiet.                                                         *)
(*                                                                         *)
(* cmd.exe's main thread is a stack of the functions it is in.  The hooks  *)
(* are installed one after the other by the injected thread while the main *)
(* thread may already be running a command.                                *)
(*                                                                         *)
(* What the functions of cmd.exe themselves do is not in this repository;  *)
(* it is modelled as hooks.rs and main.py:50-55 take it to be.             *)
(***************************************************************************)
EXTENDS Naturals, Sequences, SequencesExt

CONSTANTS Nodes,        \* the nodes of parsed command lines
          Kind,         \* what each is
          Arms,         \* the nodes it runs, in order
          Lines,        \* the nodes that are whole command lines
          Unreadable,   \* nodes whose text cannot be read back
          MaxTyped,     \* bound: command lines entered at the prompt
          Faults        \* "attach": a hook cannot be installed
                        \* "module": cmd.exe's module is not found

HookOrder == <<"FindFixAndRun", "Dispatch", "ePipe", "eComSep", "eAnd", "eOr">>
Hooks == {HookOrder[i] : i \in 1..6}
Operators == {"ePipe", "eComSep", "eAnd", "eOr"}

(* A "command" is run by FindFixAndRun, a "script" too, which then         *)
(* dispatches its lines; a "block" stands for if, for and parentheses.     *)
Kinds == {"command", "script", "block"} \cup Operators

ASSUME HooksAssumption ==
  /\ Kind \in [Nodes -> Kinds] /\ Arms \in [Nodes -> Seq(Nodes)]
  /\ \A n \in Nodes : Kind[n] = "command" => Arms[n] = <<>>
  /\ \A n \in Nodes : Kind[n] \in Operators => Len(Arms[n]) = 2
  /\ Lines \subseteq Nodes /\ Unreadable \subseteq Nodes
  /\ MaxTyped \in Nat /\ Faults \subseteq {"attach", "module"}

VARIABLES attaching,    \* the hook being installed, 7 when done, 8 detached
          enabled,      \* hooks whose detour is in place
          stored,       \* hooks that are in their OnceLock
          stack,        \* the functions the main thread is in
          depth,        \* SUPPRESS_PIPE_CHILDREN
          rc,           \* what the last function returned, 0 for success
          typed,        \* command lines entered
          ready,        \* history: hooks stored when the last was entered
          dropped       \* history: nodes let through, asked about or not, that
                        \* were then not run

hookVars == <<attaching, enabled, stored>>
cmdVars == <<stack, depth, rc, typed, ready, dropped>>
vars == <<hookVars, cmdVars>>

-------------------------------------------------------------------------------
(* attach and detach. *)

Attaching == attaching \in 1..6
Hook == HookOrder[attaching]

AttachHook ==
  /\ Attaching
  /\ Hook \notin enabled
  /\ \/ enabled' = enabled \cup {Hook} /\ attaching' = attaching
     \/ "attach" \in Faults /\ enabled' = enabled /\ attaching' = attaching + 1
  /\ UNCHANGED <<stored, cmdVars>>

(* OnceLock::set comes after enable: until then the hook is called but     *)
(* does not know the function it replaces.                                 *)
StoreNever ==
  /\ Attaching
  /\ Hook \in enabled
  /\ attaching' = attaching + 1
  /\ UNCHANGED <<enabled, stored, cmdVars>>
Store ==
  /\ Attaching
  /\ Hook \in enabled
  /\ stored' = stored \cup {Hook}
  /\ attaching' = attaching + 1
  /\ UNCHANGED <<enabled, cmdVars>>

ModuleNotFound ==
  /\ "module" \in Faults
  /\ attaching = 1 /\ enabled = {}
  /\ attaching' = 7
  /\ UNCHANGED <<enabled, stored, cmdVars>>

(* cmd.exe ends, in whatever it is doing. *)
Detach ==
  /\ attaching = 7
  /\ attaching' = 8
  /\ enabled' = enabled \ stored
  /\ stack' = <<>> /\ depth' = 0
  /\ UNCHANGED <<stored, rc, typed, ready, dropped>>

-------------------------------------------------------------------------------
(* The main thread. *)

IsCommand(n) == Kind[n] \in {"command", "script"}

(* The function Dispatch calls for a node. *)
Handler(n) == IF IsCommand(n) THEN "FindFixAndRun" ELSE Kind[n]

(* render_operator_node needs the text of both sides; a side that is a     *)
(* group itself has the operator in it.                                    *)
HasText(n) == Kind[n] \in Operators \/ n \notin Unreadable
Rendered(n) ==
  IF Kind[n] \in Operators THEN \A i \in 1..2 : HasText(Arms[n][i]) ELSE HasText(n)

Frame(n, io) ==
  [node |-> n, io |-> io, fn |-> "Dispatch", step |-> "enter", arm |-> 0, asks |-> 0,
   quiet |-> FALSE]
Top == Last(stack)
Put(f) == stack' = Append(Front(stack), f)

(* with_pipe_children_suppressed around an operator's own function, which  *)
(* the outermost group does.                                               *)
EnterNot(d) == d
Enter(d) == d + 1
LeaveNot(d) == d
Leave(d) == IF d > 0 THEN d - 1 ELSE 0

Return(r) ==
  /\ stack' = Front(stack)
  /\ depth' = IF Top.quiet THEN Leave(depth) ELSE depth
  /\ rc' = r

CallOriginal ==
  LET quiet == Top.fn \in Operators /\ depth = 0 IN
  /\ Put([Top EXCEPT !.step = "call", !.quiet = quiet])
  /\ depth' = IF quiet THEN Enter(depth) ELSE depth

(* hooked_find_fix_and_run, hooked_dispatch and handle_operator_group ask  *)
(* unless a group around them has asked; Dispatch is left to FindFixAndRun *)
(* but for a command in a pipe; what has no text is let through.           *)
BreaksUnguarded(f) == Rendered(f.node) /\ (f.fn = "Dispatch" => f.io = "pipe" /\ IsCommand(f.node))
Breaks(f) ==
  /\ depth = 0
  /\ f.fn = "Dispatch" => f.io = "pipe" /\ IsCommand(f.node)
  /\ Rendered(f.node)

Type(n) ==
  /\ stack = <<>>
  /\ attaching < 8
  /\ typed < MaxTyped
  /\ stack' = <<Frame(n, "other")>>
  /\ typed' = typed + 1
  /\ ready' = stored
  /\ UNCHANGED <<hookVars, depth, rc, dropped>>

In(step) == stack # <<>> /\ Top.step = step

Unhooked ==
  /\ In("enter")
  /\ Top.fn \notin enabled
  /\ Put([Top EXCEPT !.step = "run"])
  /\ UNCHANGED <<hookVars, depth, rc, typed, ready, dropped>>

Pass ==
  /\ In("enter")
  /\ Top.fn \in enabled
  /\ ~Breaks(Top)
  /\ CallOriginal
  /\ UNCHANGED <<hookVars, rc, typed, ready, dropped>>

Ask ==
  /\ In("enter")
  /\ Top.fn \in enabled
  /\ Breaks(Top)
  /\ Put([Top EXCEPT !.step = "held", !.asks = @ + 1])
  /\ UNCHANGED <<hookVars, depth, rc, typed, ready, dropped>>

(* Editing changes the node's text and continues. *)
Continue ==
  /\ In("held")
  /\ CallOriginal
  /\ UNCHANGED <<hookVars, rc, typed, ready, dropped>>

Skip ==
  /\ In("held")
  /\ Return(0)
  /\ UNCHANGED <<hookVars, typed, ready, dropped>>

(* call_find_fix_and_run, call_dispatch and call_operator: what a hook has *)
(* passed on or the user has let through goes to the function it is for,   *)
(* or, as long as the hook is not stored, nowhere.                         *)
Forward ==
  /\ In("call")
  /\ Top.fn \in stored
  /\ Put([Top EXCEPT !.step = "run"])
  /\ UNCHANGED <<hookVars, depth, rc, typed, ready, dropped>>

NotStored ==
  /\ In("call")
  /\ Top.fn \notin stored
  /\ Return(0)
  /\ dropped' = dropped \cup {Top.node}
  /\ UNCHANGED <<hookVars, typed, ready>>

(* cmd.exe's own functions.  Dispatch calls the function of the node, but  *)
(* may give a command of a pipe to a process of its own.                   *)
DispatchNode ==
  /\ In("run")
  /\ Top.fn = "Dispatch"
  /\ \/ Put([Top EXCEPT !.fn = Handler(Top.node), !.step = "enter"])
     \/ Top.io = "pipe" /\ IsCommand(Top.node) /\ Put([Top EXCEPT !.fn = "process"])
  /\ UNCHANGED <<hookVars, depth, rc, typed, ready, dropped>>

(* Whether f has another arm to run: && and || look at the first's result. *)
Wants(f) ==
  /\ f.fn # "process" /\ f.arm < Len(Arms[f.node])
  /\ f.fn = "eAnd" /\ f.arm = 1 => rc = 0
  /\ f.fn = "eOr" /\ f.arm = 1 => rc # 0

RunArm ==
  /\ In("run")
  /\ Top.fn # "Dispatch"
  /\ Wants(Top)
  /\ LET f == [Top EXCEPT !.arm = @ + 1]
         io == IF f.fn = "ePipe" THEN "pipe" ELSE "other" IN
     stack' = Front(stack) \o <<f, Frame(Arms[f.node][f.arm], io)>>
  /\ UNCHANGED <<hookVars, depth, rc, typed, ready, dropped>>

Finish ==
  /\ In("run")
  /\ Top.fn # "Dispatch"
  /\ ~Wants(Top)
  /\ \E r \in 0..1 : (Top.arm > 0 => r = rc) /\ Return(r)
  /\ UNCHANGED <<hookVars, typed, ready, dropped>>

-------------------------------------------------------------------------------
Init ==
  /\ attaching = 1
  /\ enabled = {} /\ stored = {}
  /\ stack = <<>>
  /\ depth = 0
  /\ rc = 0
  /\ typed = 0
  /\ ready = {}
  /\ dropped = {}

AttachNext == AttachHook \/ Store \/ ModuleNotFound \/ Detach
Step ==
  \/ Unhooked \/ Pass \/ Ask \/ Continue \/ Skip \/ Forward \/ NotStored
  \/ DispatchNode \/ RunArm \/ Finish
Next == AttachNext \/ Step \/ \E n \in Lines : Type(n)

Spec == Init /\ [][Next]_vars

-------------------------------------------------------------------------------
(* Properties. *)

Frames ==
  [node : Nodes, io : {"pipe", "other"},
   fn : Hooks \cup {"block", "process"}, step : {"enter", "held", "call", "run"},
   arm : Nat, asks : 0..2, quiet : BOOLEAN]

(* The state is well formed: a frame runs no more arms than it has, and    *)
(* only an operator's frame keeps the hooks quiet, one level each.         *)
TypeOK ==
  /\ attaching \in 1..8
  /\ enabled \subseteq Hooks /\ stored \subseteq Hooks
  /\ stack \in Seq(Frames)
  /\ \A i \in 1..Len(stack) : stack[i].arm <= Len(Arms[stack[i].node])
  /\ \A i \in 1..Len(stack) : stack[i].quiet => stack[i].fn \in Operators
  /\ depth \in 0..Len(stack) /\ rc \in 0..1
  /\ typed \in 0..MaxTyped
  /\ ready \subseteq Hooks /\ dropped \subseteq Nodes

(* The hooks are quiet exactly while a group that was let through runs;    *)
(* back at the prompt the next command line breaks again.                  *)
Quiet == {i \in 1..Len(stack) : stack[i].quiet}
SuppressionBalanced ==
  /\ depth = IF Quiet = {} THEN 0 ELSE 1
  /\ \A i, j \in Quiet : i = j

(* A command is executing. *)
Executing == In("run") /\ Top.arm = 0 /\ Top.fn \in {"FindFixAndRun", "process"}

(* The frames that answer for it: those above the script it is in, if any. *)
Scripts == {i \in 1..(Len(stack) - 1) : Kind[stack[i].node] = "script"}
Scope == {i \in 1..Len(stack) : \A s \in Scripts : s < i}
Asked == \E i \in Scope : stack[i].asks > 0

(* A command runs without a breakpoint of its own or of its group only if  *)
(* its text or its group's is unreadable, if the group it is in runs a     *)
(* script, or if the hooks it needs were not there when its command line   *)
(* was entered: FindFixAndRun, and for a pipe Dispatch or ePipe.           *)
Covered ==
  Executing /\ ~Asked =>
    \/ "FindFixAndRun" \notin ready
    \/ Top.io = "pipe" /\ {"Dispatch", "ePipe"} \cap ready = {}
    \/ Top.node \in Unreadable
    \/ \E i \in Quiet : stack[i].asks = 0 \/ i \notin Scope

(* The user is asked once about a command: by the group or by the command, *)
(* by Dispatch or by FindFixAndRun, unless ePipe was not hooked yet.       *)
AskedOnce ==
  \A i, j \in Scope :
    stack[i].asks > 0 /\ stack[j].asks > 0 =>
      i = j /\ (stack[i].asks > 1 => stack[i].io = "pipe" /\ "ePipe" \notin ready)

(* What a hook passes on and what the user continues is run, but for the   *)
(* time it takes to install the hooks.                                     *)
DroppedOnlyAttaching == [][dropped' # dropped => Attaching]_vars

(* README.md:43, "Every command reaches a Python-controlled breakpoint     *)
(* before execution".                                                      *)
EveryCommandBreaks == Executing /\ ready = Hooks => Asked

===============================================================================
