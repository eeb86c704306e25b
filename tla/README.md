# A verification of Exorcism in TLA+

Exorcism is a debugger for batch files. A Python controller starts a `cmd.exe`, injects
a Rust DLL into it and monitors it; the DLL detours functions of `cmd.exe`, holds every
command line at a breakpoint and asks the controller what to do with it. The two
programs share nothing but files: `cmd_hook.json`, which the DLL rewrites for every
entry while the monitor polls it, and one response file per breakpoint, which the
monitor writes while the DLL polls for it.

This directory holds TLA+ models of the parts that decide whether that works, the TLC
configurations that check them on small instances, and proofs, checked by TLAPS, that
the main results hold for all values of the constants.

    tlasany M.tla                         parse a module
    tlc -config X.cfg M                   check one configuration
    tlapm M.tla                           check the proofs of a module

## Inventory

Paths are relative to the repository root. "Hard" is what a test would hardly reach.

| Component | Code | State | Operations | Hard | Correct if |
|---|---|---|---|---|---|
| Command log | `cmdtest/src/logging.rs`, `_read_new_content` and `start_monitoring` of `utils/monitors/monitor.py` | the file; count and position of the monitor | log an entry (read back, truncate, rewrite), poll, handle an entry | polls between the writes, torn files, a relative path, death in the middle of a write | every entry reaches the monitor once and in order |
| Breakpoint protocol | `cmdtest/src/debugger.rs`, `_write_debug_response` | break ids, response files | break, wait, parse, time out, carry out; write a temporary file and rename it | late answers, files that stay, half-written files | a command does what was decided for it |
| Monitor rules and prompt | `_handle_debug_break`, `_ask_debugger_action` | `auto_continue`, `auto_skip`, `root_auto_continue` | seven choices, three rules | the order of rules, exceptions, Ctrl+C | nothing is decided that the user did not order |
| Hooks and operator groups | `cmdtest/src/hooks.rs` | six `OnceLock`s, detours, the thread-local `SUPPRESS_PIPE_CHILDREN` | attach, detach, the six hook functions | commands during attach, hooks that fail, nesting of groups and scripts | each command is asked about, once |
| Edited lines and keys | `command_parts` of `cmdtest/src/cmd.rs`, `_command_key`, `_split_edited_command` of `monitor.py`, `parse_debug_decision` and `set_node_strings` | the texts kept for edits | cut, join to a key, split again, write back | quotes and blanks, 500 characters | what was entered is what runs; a rule is about one command |
| Command nodes | the rest of `cmdtest/src/cmd.rs` | none | read a node's text, render a group | groups that cannot be rendered, depth 12 | what is shown is what runs |
| Session control | `main.py` | files of earlier sessions, the environment of `cmd.exe` | clean up, resolve, launch, inject, monitor | a cleanup that stops half way, an earlier `cmd.exe` that still runs | a session sees only its own files |
| Launch and injection | `utils/handlers/injection_handler.py` | none | launch, inject | any call may fail; success is reported before the DLL has loaded | no `cmd.exe` is left without a controller |
| Symbol resolution | `utils/handlers/symbol_resolver.py` | the PDB cache | parse, download, look up | a download that fails or is cut short, an update of Windows | hooks go to the right addresses |
| Display, memory probing, scripts | `utils/ui/ui.py`, `cmdtest/src/win.rs`, `*.bat` | none | | | |

The controller launches `cmd.exe` with the DLL's settings in its environment and injects
the DLL, whose `DllMain` attaches the hooks (`hooks.rs`) from the injected thread. A
hook asks `debugger.rs` for a decision; that logs a `debug_break` entry (`logging.rs`)
and polls for `response_<id>.txt`. The monitor reads the entry from the log, answers
from a rule or asks the user, and writes the response. When `cmd.exe` ends, `DllMain`
logs that the hook is being removed, which is what ends the monitor.

`PROJECT.json` lists every hazard of the code at its line, with the properties that look
for it.

## Modules

| Module | What it is |
|---|---|
| `LogChannel` | what the log promises: a lossless first-in-first-out channel |
| `JsonLog` | the log as it is written and polled; implements `LogChannel` |
| `JsonLogProofs` | its theorems |
| `Breakpoint` | what the debugger promises: at most one command is held, it gets at most one verdict, and does what the verdict says, but for the edit of an operator group, which the contract leaves open |
| `Debugger` | the protocol between DLL and monitor, with the rules and the user; implements `Breakpoint` |
| `MCDebugger` | its instances: which command lines share a key or a root |
| `DebuggerProofs` | its theorems |
| `Hooks` | the detours and the commands they meet |
| `MCHooks` | its instances: a few parsed command lines |
| `HooksProofs` | its theorems |
| `Symbols` | the search for the addresses of the hooks, with the PDB cache |
| `Sessions` | sessions one after the other in one directory: cleanup, `Symbols`, launch, injection, monitor, and the `cmd.exe` of each |
| `SessionsProofs` | its theorems |
| `EditLine` | a command's text on its way to the user and back |
| `MCEditLine` | its instance: lines and texts of a few symbols |
| `EditLineProofs` | its theorems |

### JsonLog

The file is the array being written and how many of its tokens are on disk
(`file[d].doc`, `file[d].written`). An entry is three tokens, because all that matters
about where a text is cut is whether a line of the fragment is a JSON string on its own:
such a line is decoded where every other fragment is reported as raw text. `LogEntry`
opens the file and reads the entries back, `Truncate` is `set_len(0)`, `Write` is one
write of the unbuffered serialiser; the monitor's steps are interleaved with each.
Reading the file is one step of the model: the code reads it with one `read()`.
`PollEmpty` and `Reread` are two steps because the code reads twice when the first text
does not start with `[`. `Detach` logs the removal of the hook, after which the writer
is gone; it may do so while another entry is half written when the console is closed
(`ConsoleClose`). `HandleEntry` is `_format_and_print_entry`; for the removal it
terminates `cmd.exe`.

What an entry says is left out; an entry is its number. Simplified is the text after a
fault: the position the monitor keeps may then fall anywhere in a document, and
`Misaligned` lets `Reread` find a lone string in it or not.

### Debugger

`Break` is `prompt_for_decision` up to the wait: it takes a fresh id and logs the break.
`TakeReply` and `TimeOut` are the two ends of `wait_for_debug_decision`, with `Carried`
for what then runs. On the monitor's side `Start`, `Take` and the rule and choice
actions follow `start_monitoring` and `_handle_debug_break` branch by branch; each ends
in `Decide`, after which `WriteTemp` and `Replace` write the response. `Raise` is an
exception in any of that, which ends the loop it is raised in: the one over the existing
entries, or monitoring. The log is a sequence here, which is what `JsonLog` implements;
`"drop"` adds the entries it may lose.

`Carried` is what the code does, by which an edited operator group runs as it was.
`Honours`, in `Breakpoint`, is what is asked of it: after an edit the text of the edit
runs, and only of a group it is left open whether it does. `DecisionHonoured` and the
contract use `Honours`; `EditReplaces` is the claim without the exception, which the
code does not keep (`edited_group`).

`choice`, `published`, `result` and `timedOut` are histories that no action reads.
Command lines, keys, roots and edited lines are constants: `KeyOf`, `RootOf` and
`EditedLine` may be any functions, and the theorems hold for all of them.

### Hooks

The main thread of `cmd.exe` is a stack of frames, one for each node that is being run,
with the function it is in (`Dispatch`, then `FindFixAndRun` or the function of the
operator) and how far the call has got: entered, held at a breakpoint, calling the
original, running. `Ask` and `Pass` are the two ways through a hook, `CallOriginal`
takes the suppression counter up for the outermost group and `Return` takes it down.
`AttachHook` and `Store` are `enable` and `OnceLock::set` of each hook, in the order of
`attach`; they interleave with the main thread. What the functions of `cmd.exe` do
(`DispatchNode`, `RunArm`, `Finish`) is not in the repository and marked external:
`Dispatch` calls the function of a node, an operator dispatches its sides, a script its
lines, and a command in a pipe may be given to a process of its own, as the warnings in
`main.py` 50 and 55 have it. `Err` of `OnceLock::set` is left out: `DllMain` attaches
once in a process.

### Symbols and Sessions

`Symbols` follows `resolve_cmd_symbol_rvas`: `ParseHeaders` is `_parse_cmd_debug_info`
and the first half of `_ensure_pdb`, `Download`, `Unreachable` and `CutShort` are the
ways `urlretrieve` ends, `LookUp` is the part that calls `dbghelp`. The cache of each
build of `cmd.exe` outlives the session and is `"none"`, `"empty"` (the directory is
there, the file is not), `"partial"` or `"whole"`. What a PDB and a PE header say is
abstracted to whether the names are found.

`Sessions` EXTENDS it and runs the controller through `main`: `RemoveLog`,
`ListResponses` and `Unlink` are the cleanup, file by file, which any failure ends
(`GiveUpCleaning`, for the one `try` around it); `ResolveAddresses` takes the steps of
`Symbols`; `Launch`, `Inject` and their failures are `launch_cmd_and_inject`; then come
the monitor's steps. `MonitorFails` is an exception in them: in the first loop it skips
the rest of what was read, in the second it ends the monitor and with it the controller
(monitor.py 429 and 445). `Interrupt` is Ctrl+C. Each session's `cmd.exe` goes on by
itself (`Load`, `Attached`, `Break`, `TakeResponse`, `TimeOut`, `Exit`), before, after
and beside the controller's steps, and one that was left behind does so during later
sessions. Entries and responses carry the session they belong to, which the code does
not write and no action decides by; a break id, which the code does write, starts at 1
in every `cmd.exe`. `left`, `failed` and `marks` are histories. `left` has the sessions
that Ctrl+C ended, `failed` those whose monitor an exception ended. Of the marks,
`"alone"` says that no other DLL was loaded when the session began, `"emptied"` that it
has removed the log, `"clean"` that all its cleanup succeeded, `"crossed"` that a wait
took an answer to another `cmd.exe`'s break, and `"misled"` that the session was ended
for another one's removal.

The log is here the sequence of entries that `JsonLog` implements as long as there is
one writer. `Racing` says when there are two, the threads of two `cmd.exe` or the
injected thread and the main thread of one; then `Clobber` may take an entry out of the
log, or out for long enough that the monitor counts one less and reads one twice.

### EditLine

A text is a sequence of letters, blanks and quotes. `Extract` is the limit of
`command_parts`, `Key` is `_command_key`, `Split` is `_split_edited_command` and
`Edited` what `parse_debug_decision` and `set_node_strings` make of the response.
`Reach`, `MakeRule` and `Edit` put them together: a line is held, gets a rule or is
edited, or is answered silently for a rule of an earlier line. `Debugger` takes keys and
edited lines as any functions; `EditLine` is where those functions are looked at.

## Runs

| Run | Instance | Shows |
|---|---|---|
| `log_base` | 3 entries and the removal, no faults | `DeliveredInOrder`, `ActivityIsLogged`, the invariants that carry them, `ImplementsChannel`; with fairness `EventuallyHandled`, `RemovalStopsMonitor` |
| `log_faults` | 3 entries, 2 directories, every fault | `HandledOnce`: whatever is lost, no entry is handled twice or after a later one |
| `core` | 5 lines, 3 breaks, Ctrl+C | `DecisionHonoured`, the rules (`RulesDisjoint`, `RuleProvenance`, `StandingRules`, `RulesInvariant`), `PromptIsCurrent`, `HeldIsInHand`, `ImplementsContract`; with fairness `HeldIsAsked`, `AnswerTakesEffect` |
| `faults` | 3 lines, 2 breaks, every fault | `DecisionHonoured`, `ProtocolInvariant`, `ImplementsContract`; with fairness `HeldIsReleased` |
| `hooks_full` | 8 command lines, 2 of them entered, any hook may fail | `SuppressionBalanced`, `Covered`, `AskedOnce`, `DroppedOnlyAttaching` |
| `sessions` | 2 sessions, 2 builds, 2 breaks in each `cmd.exe`, every fault | `FilesAreOwn`, `SessionsIsolated`: with no other DLL loaded nothing of an earlier session is read from a log that was removed, and after a complete cleanup nothing is left at all; `NoneAbandoned`: only Ctrl+C and an exception in the monitor leave a `cmd.exe` behind; `HooksPlaced` |
| `edit_line` | 132 lines, every text of up to 5 symbols | `EnteredIsRun`, `DefaultKeepsCommand`, `RuleMatchesAlike` |

Five runs show the code doing something else than the repository says:

| Run | Statement | What happens |
|---|---|---|
| `log_cd` | README.md 45: command activity is logged to `cmd_hook.json` | after `cd` the DLL writes another file of that name |
| `log_reread` | README.md 183: the log is monitored in real time; main.py 193: until Ctrl+C | a poll at the wrong moment ends the monitor with an `AttributeError` |
| `edited_group` | monitor.py 16: edit replaces the command line; README.md 97: before it runs | an operator group runs as it was (debugger.rs 118) |
| `hooks_script` | README.md 43: every command reaches a breakpoint | the commands of a script that is called in a group do not |
| `sessions_removal` | monitor.py 330: `cmd.exe` is terminated because its hook was removed | closing a `cmd.exe` that Ctrl+C had left behind terminates the current session's |

Other behaviour worth knowing, which the properties state as exceptions:

- A skip that comes after the timeout is accepted and has no effect, the command has run
  (`DecisionHonoured` excepts `timedOut`; monitor.py 15, debugger.rs 219).
- While a hook is enabled and not yet stored, a command that reaches it is not run and
  reports success (`DroppedOnlyAttaching` confines that to the installation of the
  hooks; hooks.rs 104).
- Ignored roots go before auto-skip, so `r` may undo an earlier `k` (`StandingRules`).
- A group one side of which cannot be rendered runs without a breakpoint, and so do its
  parts (`Covered`).
- Keys are trimmed and made of what is shown, so that a rule may answer for a line that
  differs in the blanks around its arguments (`set x` and `set x ` of `MCDebugger`) or
  after 500 characters, though monitor.py 17 says "every exact future match". With a
  quote that is never closed, the end of the command and the start of the arguments
  cannot be told apart in a key. These are the exceptions of `RuleMatchesAlike`
  (`Alike`, the lines as shown, `Parsed`). Redirections are not in a key, nor in the
  model.
- The default of an edit is the line as shown, which is cut at 500 characters; accepting
  it runs the cut text (`DefaultKeepsCommand` is about the line as shown). With a quote
  inside the command it is split again somewhere else (`Plain`, `Quoted` except it).
- Where the `ePipe` hook is missing, a command in a pipe is asked about in `Dispatch`
  and again in `FindFixAndRun` (excepted by `AskedOnce`).
- A response of an earlier session that could not be removed may answer a break of the
  next one, and a log that could not be removed is read from its beginning (`"clean"`
  and `"emptied"` in `FilesAreOwn` and `SessionsIsolated`).
- An exception in the monitor's second loop ends the controller and leaves `cmd.exe`
  running (`failed` in `NoneAbandoned`; `log_reread` is one cause).
- A console closed in the middle of a write leaves the detach a torn array, of which it
  keeps nothing (`ReadExisting`).
- A PDB whose download was cut short is never downloaded again (`"partial"` in
  `HooksPlaced`).
- If the DLL does not load, the monitor polls until Ctrl+C.

### Bounds

Three entries are enough for a document to be read when it is empty, of the length the
monitor knows, and longer by one or two, with a poll in every gap of the writes. Two
breaks let a late answer meet the next break; three let two rules be made before a third
command meets both. Two sessions are enough for one to leave something to another, and
two breaks each for an id of the one to be waited for by the other; one `Clobber`
reaches each of its outcomes. Five symbols hold a quoted command with a blank in it and
an argument behind it, and `MaxLength` is 5 so that lines beyond it occur. Two entered
command lines let the first leave something behind for the second; the lines of
`MCHooks` have every operator, nesting of operators, a script with a group in it, a
group with a script in it, and a group that cannot be rendered. `MaxEvents`,
`MaxBreaks`, `MaxTyped`, `MaxSessions`, `MaxLog` and `MaxClobbers` are the only bounds
in the modules; the theorems hold for all values of them. `MakeRule` and `Edit` of
`EditLine` happen before there is a rule, so that a behaviour has one.

Deadlock is checked in `edit_line` only: elsewhere `cmd.exe` and the monitor both end,
sessions come to an end, and the bounds stop the rest. That nobody waits for ever is
what `HeldIsAsked`, `AnswerTakesEffect` and `HeldIsReleased` say.

### Fairness

`JsonLog`: a call of `log_json_entry` that has begun runs on (weak fairness of
`DllStep`) and the monitor keeps polling (`MonStep`); both are loops or straight lines
of a thread of their own. `Debugger`: the wait ends, by the clock if by nothing else
(`TakeReply \/ TimeOut`), and the monitor keeps polling and finishes the reply it has
begun (`Answer`). Nothing is assumed of when `cmd.exe` logs, changes directory, meets a
command or ends, of whether the user answers, or of any fault. `core` has no timeout, so
that there only the monitor's answer ends a wait; `AnswerTakesEffect` and `HeldIsAsked`
except a monitor that Ctrl+C has stopped. `Hooks`, `Sessions` and `EditLine` state
safety only.

## Proofs

`JsonLogProofs`
- `TypeCorrect`: `TypeOK`, for any number of entries, directories and all faults.
- `Delivery`: `DeliveredInOrder`, assuming `Reliable` (no fault, one directory; without
  it entries are lost, see `log_cd`). `DeliveredInOrder` is not inductive: the invariant
  adds that the document on disk is a prefix of what was logged and all of it between
  entries (`DocumentTracksLog`), and that what the monitor has handled and queued is the
  first `count` entries (`MonitorTracksDocument`). Both are also invariants of
  `log_base`.
- `DocumentIsTracked`, `MonitorIsTracked` state these two under the same assumption.
- `Refinement`: `ImplementsChannel` under the same assumption; `HandleEntry` receives,
  `LogEntry` sends, everything else stutters.
- `AllIsLogged`: `ActivityIsLogged` under the same assumption. It adds that nothing is
  logged after the removal (`RemovalIsLast`).
- `NoneIsHandledTwice`: `HandledOnce` with no assumption, for all faults and
  directories. The invariant, `InOrder`, says that each document, the batch and what was
  handled are ordered; that what lies past `count` in the monitor's file is younger than
  all it has taken, which survives a document that got shorter; and that the array about
  to be written is what could be read back with one entry younger than everything.

`DebuggerProofs`, for any lines, keys, roots, rules, number of breaks and faults:
- `TypeCorrect`: `TypeOK`.
- `ProtocolInvariance`: the inductive invariant of the responses. The log holds each
  break once and in order (`LogOrdered`); a response in place is the one reply published
  for its break, that reply is the choice made for it, and breaks not yet taken have no
  choice (`ReplyTraced`); at most one break is unresolved (`OneHeld`).
- `Honoured`: `DecisionHonoured`, from that invariant: the response taken is for the
  held break, never torn, and its choice never changes; what runs is what `Honours`
  asks, which leaves an edited group open.
- `EditsReplace`: `EditReplaces`, assuming `Groups = {}`: where there are no operator
  groups every edit that comes in time replaces its line. With groups it is what
  `edited_group` refutes.
- `RulesInvariance`: the rules are exactly what the user has chosen and the initial
  list, and the user is only asked about commands without a rule; `Disjoint`,
  `Provenance` and `Standing` follow from it, with the fact that breaks are decided in
  the order of their ids.
- `Refinement`: `ImplementsContract`, whatever fails.
- `PromptsAreCurrent`: `PromptIsCurrent`, assuming `"timeout" \notin Faults`: what has
  been released was answered (`Released`), so an unanswered break that is not over is
  the held one.
- `NoneIsForgotten`: `HeldIsInHand`, assuming that no entry is lost and no reply fails
  (`"drop"`, `"raise"` not in `Faults`; TLC finds it violated with either): the break of
  a held command is still in the part of the log the monitor has not read, is being
  handled, or what was decided for it is in its response file. It is the part of
  `HeldIsAsked` and `AnswerTakesEffect` that is about safety, and it holds whatever
  times out, is interrupted, or cannot be removed. `InHand` is
  inductive and says where the held break is; that it has no decision while it is
  unread, and that its response is what was decided for it, is `ProtocolInvariant`.

`HooksProofs`, for any nodes and groups, of any depth, and any hooks that fail or come
late:
- `HooksInvariance`: the inductive invariant. `FrameOK` is about one call, how often its
  hook has asked and how far it got; `Link` relates it to the calls below it (no hook
  asks above a group that keeps quiet; a side of a pipe is run by its `ePipe`);
  `Balanced` makes the counter the number of quiet frames.
- `TypeCorrect`, `CounterBalanced` (`SuppressionBalanced`), `NobodyIsAskedTwice`
  (`AskedOnce`), `NoneRunsUnseen` (`Covered`) follow from it.
- `DropsOnlyAttaching`: `DroppedOnlyAttaching`, as every enabled hook but the one being
  attached is stored.
- `PlainCommandsBreak`: `EveryCommandBreaks`, which `hooks_script` refutes, does hold if
  no node is a script and no text is unreadable, for groups and blocks of any nesting.
  It adds to `Covered` that a group that keeps quiet has asked (`QuietHasAsked`).
  Neither condition can be dropped: a script is the counterexample of that run, and a
  group that cannot be rendered is let through.

`SessionsProofs`, for any number of sessions, builds and breaks and all faults:
- `TypeCorrect`: `TypeOK`, with `InOrder`, the stages of a session.
- `FilesStayOwn`, `SessionsAreIsolated`: `FilesAreOwn` and `SessionsIsolated`, from
  `SessionInvariant`. It adds what the cleanup relies on when no other DLL is loaded: no
  entry comes back after the log was removed, and every response still there is among
  those listed (`LeftAlone`). That the entries are the session's own does not depend on
  the responses, so it holds however the rest of the cleanup ends; that the responses
  are needs a complete cleanup. That no other DLL was loaded cannot be dropped: see
  `sessions_removal`.
- `NoneIsAbandoned`: `NoneAbandoned`. Before the launch there is nothing to leave
  behind, a failed injection and a removal end the session's `cmd.exe`, and the two
  other ends of a session are Ctrl+C and `MonitorFails`.
- `HooksArePlaced`: `HooksPlaced`, from `ResolutionTraced`, the stages of a resolution.

`EditLineProofs`, for any alphabet, limit, lines and texts, of any length:
- `TextsAreTexts`: `TypeOK`; what is run has a command, whatever was entered.
- `EnteredTextIsRun`: `EnteredIsRun`. The lemma behind it, `EditedWordForWord`, is about
  `Split` alone: the text is cut in two at the first blank or at the closing quote, and
  the blanks left out are those between the two.
- `DefaultRunsTheCommand`: `DefaultKeepsCommand`, as `Split` undoes `Key`
  (`SplitOfKey`) where the command shown is `Plain` or `Quoted`, lines beyond the limit
  included.
- `RulesMatchAlike`: `RuleMatchesAlike`, from `SameKeyAlike`: of two lines with one key,
  neither command can go on where the other has ended, as there is a blank there that is
  not between quotes (`NotContinued`, `NotLonger`); so the commands shown are the same,
  and with them the arguments. Beside a command that is cut at the limit none is longer.

The inductive invariant, `TextInv`, adds to `TypeOK` that what runs is what the edit was
made into (`EditRuns`), that rules are the keys of the lines they were made for
(`RulesAreOfLines`), and that a silent answer has one (`SilentHasRule`). That a text has
a first blank or a closing quote needs no induction over texts: a set of positions has a
least element (`LeastElement`, from `WFMin` of the library) and, being bounded, a
greatest (`GreatestElement`).

Every invariant and action property of a passing run is stated by a theorem, and two
that a run refutes, `EveryCommandBreaks` and `EditReplaces`, are proved where their
condition excludes the counterexample. Only checked by TLC are the liveness properties
(`EventuallyHandled`, `RemovalStopsMonitor`, `HeldIsAsked`, `AnswerTakesEffect`,
`HeldIsReleased`): they need fairness and ENABLED, which the prover does not reason
about. No recursive operator is declared in any module.

## Not modelled

- The monitor's display, and the probing of memory, whose outcome is `Unreadable` in
  `Hooks`.
- In `cmd.rs`, the scan for the pointers to a group's sides and the limit of 12 levels:
  they read the raw memory of `cmd.exe`.
- The contents of PE files and PDBs, and the calls of `dbghelp`, which keep no state
  that outlives them.
- Two controllers at once. Sessions come one after the other.
- A user's own `EXORCISM_*_RVA` environment, the question for the DLL's path, and the
  build of the DLL.
- A `TerminateProcess` that fails: an ended session's `cmd.exe` is taken to be gone.
- The temporary response files in `Sessions`, which nobody reads; they are in
  `Debugger`.
- Two writers to the log step by step. `JsonLog` has one, but for the detach of a
  closing console; `Sessions` has the outcome for its own questions (`Clobber`).
- Scripts: the build and test batch files.

The two programs' caches and the file system's are taken to be coherent, and a `read()`
to return one state of the file.

## Plan

What every session depends on was modelled first: the log, the protocol over it, and
which commands it is asked about; then the sessions around it and the text of the
commands. Left are, in this order:

1. A second logging thread in `JsonLog`, with `Clobber` of `Sessions` derived from it.
2. `Debugger` over a log that loses entries for a while, so that a break may be handled
   twice.
3. Two controllers in one directory.
