------------------------------- MODULE EditLine -------------------------------
(***************************************************************************)
(* What becomes of the text of a command between cmd.exe and the user: it  *)
(* is read from the node up to a maximal length (command_parts), joined    *)
(* into the key that the rules go by and that an edit has as its default   *)
(* (_command_key), taken apart again when it has been edited               *)
(* (_split_edited_command), sent in a response of three lines and written  *)
(* back into the node (parse_debug_decision, set_node_strings).            *)
(*                                                                         *)
(* A text is a sequence of letters, blanks and quotes.                     *)
(***************************************************************************)
EXTENDS Naturals, Sequences, SequencesExt

CONSTANTS Blank, Quote, Letters,
          MaxLength,    \* 500 in command_parts
          Lines,        \* commands as cmd.exe has parsed them
          Texts         \* what the user may enter

Symbols == Letters \cup {Blank, Quote}

ASSUME EditLineAssumption ==
  /\ Blank # Quote /\ Blank \notin Letters /\ Quote \notin Letters
  /\ MaxLength \in Nat \ {0}
  /\ Lines \subseteq [command : Seq(Symbols) \ {<<>>}, arguments : Seq(Symbols)]
  /\ Texts \subseteq Seq(Symbols)

-------------------------------------------------------------------------------
(* The steps of the way.  `line` is [command, arguments] throughout. *)

Strip(text) ==
  LET solid == {i \in DOMAIN text : text[i] # Blank} IN
  IF solid = {} THEN <<>> ELSE SubSeq(text, Min(solid), Max(solid))

Extract(text) == SubSeq(text, 1, Min({Len(text), MaxLength}))
command_parts(line) ==
  [command |-> Extract(line.command), arguments |-> Extract(line.arguments)]

KeyOfCommand(line) == Strip(line.command)
JoinedKey(line) == Strip(line.command) \o Strip(line.arguments)
Key(line) ==
  IF line.arguments = <<>> THEN Strip(line.command)
  ELSE Strip(line.command \o <<Blank>> \o Strip(line.arguments))

FirstTwoWords(text) ==
  LET blanks == {i \in DOMAIN text : text[i] = Blank}
      rest == Strip(SubSeq(text, Min(blanks \cup {Len(text)}), Len(text)))
      more == {i \in DOMAIN rest : rest[i] = Blank}
  IN  IF blanks = {} THEN [command |-> text, arguments |-> <<>>]
      ELSE [command |-> SubSeq(text, 1, Min(blanks) - 1),
            arguments |-> <<Blank>> \o SubSeq(rest, 1, Min(more \cup {Len(rest) + 1}) - 1)]
SplitAtBlank(text) ==
  LET blanks == {i \in DOMAIN text : text[i] = Blank} IN
  IF blanks = {} THEN [command |-> text, arguments |-> <<>>]
  ELSE [command |-> SubSeq(text, 1, Min(blanks) - 1),
        arguments |-> <<Blank>> \o Strip(SubSeq(text, Min(blanks), Len(text)))]

Split(entered) ==
  LET text == Strip(entered)
      closing == {i \in DOMAIN text \ {1} : text[i] = Quote}
  IN  IF text # <<>> /\ text[1] = Quote /\ closing # {}
      THEN [command |-> SubSeq(text, 1, Min(closing)),
            arguments |-> SubSeq(text, Min(closing) + 1, Len(text))]
      ELSE SplitAtBlank(text)

normalize_arguments(arguments) ==
  IF arguments = <<>> \/ arguments[1] = Blank THEN arguments ELSE <<Blank>> \o arguments

EditedAnyway(line, entered) ==
  LET edit == Split(entered) IN
  [command |-> edit.command, arguments |-> normalize_arguments(edit.arguments)]

(* An edit without a command is a continue, and that leaves the node as it *)
(* is, beyond the maximal length too.                                      *)
Edited(line, entered) ==
  LET edit == Split(entered) IN
  IF edit.command = <<>> THEN line
  ELSE [command |-> edit.command, arguments |-> normalize_arguments(edit.arguments)]

-------------------------------------------------------------------------------
(* One rule is made, or one line edited, before the next line comes. *)
VARIABLES phase,        \* "idle", "held", "edited" or "silent"
          line,         \* the line that is held or was last
          entered,      \* what the user has entered for it
          run,          \* what cmd.exe runs
          auto,         \* the keys that have a rule
          ruled         \* history: the lines the rules were made for

vars == <<phase, line, entered, run, auto, ruled>>

Reach(l) ==
  /\ phase = "idle"
  /\ line' = l /\ run' = l /\ entered' = <<>>
  /\ phase' = IF Key(command_parts(l)) \in auto THEN "silent" ELSE "held"
  /\ UNCHANGED <<auto, ruled>>

(* The prompt returns the default when nothing is entered.  How a line is  *)
(* edited does not depend on the rules: it is tried without.               *)
Edit(text) ==
  /\ phase = "held"
  /\ ruled = {}
  /\ entered' = IF text = <<>> THEN Key(command_parts(line)) ELSE text
  /\ run' = Edited(line, entered')
  /\ phase' = "edited"
  /\ UNCHANGED <<line, auto, ruled>>

(* Auto-continue, auto-skip and ignore alike; bound: one rule. *)
MakeRule ==
  /\ phase = "held"
  /\ ruled = {}
  /\ auto' = auto \cup {Key(command_parts(line))}
  /\ ruled' = ruled \cup {line}
  /\ phase' = "idle"
  /\ UNCHANGED <<line, entered, run>>

Release ==
  /\ phase # "idle"
  /\ phase' = "idle"
  /\ entered' = <<>> /\ run' = line
  /\ UNCHANGED <<line, auto, ruled>>

Init ==
  /\ phase = "idle"
  /\ line \in Lines /\ run = line
  /\ entered = <<>> /\ auto = {} /\ ruled = {}

Next == (\E l \in Lines : Reach(l)) \/ (\E t \in Texts : Edit(t)) \/ MakeRule \/ Release

Spec == Init /\ [][Next]_vars

-------------------------------------------------------------------------------
(* What cmd.exe runs is a line whose command is not empty. *)
TypeOK ==
  /\ phase \in {"idle", "held", "edited", "silent"}
  /\ line \in Lines
  /\ run \in [command : Seq(Symbols) \ {<<>>}, arguments : Seq(Symbols)]
  /\ entered \in Seq(Symbols) /\ auto \subseteq Seq(Symbols) /\ ruled \subseteq Lines

(* No blank in a command except between quotes that enclose all of it. *)
Plain(command) == command[1] # Quote /\ \A i \in DOMAIN command : command[i] # Blank
Quoted(command) ==
  /\ Len(command) > 1
  /\ {i \in DOMAIN command : command[i] = Quote} = {1, Len(command)}

(* What the user enters is what is run, word for word: the command up to   *)
(* the first blank outside quotes, and all the rest as its arguments, with *)
(* a blank before them.  Text right after a closing quote (Glued) is taken *)
(* for an argument; otherwise there was a blank where the two were split.  *)
Glued(text) ==
  \E i \in 2..Len(text) - 1 : Quoted(SubSeq(text, 1, i)) /\ text[i + 1] # Blank
EnteredIsRun ==
  LET text == Strip(entered) IN
  phase = "edited" /\ text # <<>> =>
    /\ Quoted(run.command) \/ \A i \in DOMAIN run.command : run.command[i] # Blank
    /\ run.arguments = <<>> \/ run.arguments[1] = Blank
    /\ \E n \in 0..Len(text) :
         /\ text = run.command \o [i \in 1..n |-> Blank] \o Strip(run.arguments)
         /\ n = 0 => run.arguments = <<>> \/ Glued(text)

(* Two lines are alike if they differ in blanks around the arguments only. *)
Alike(l, m) == l.command = m.command /\ Strip(l.arguments) = Strip(m.arguments)

(* Whoever accepts the default of an edit runs the command as it is shown: *)
(* joining and splitting undo each other but for blanks around the         *)
(* arguments, unless quotes or blanks are inside the command.  What is     *)
(* shown is the line that was held, or, of a command or arguments beyond   *)
(* MaxLength, only their beginning.                                        *)
DefaultKeepsCommand ==
  LET shown == command_parts(line) IN
  /\ phase = "edited" /\ entered = Key(shown)
  /\ Plain(shown.command) \/ Quoted(shown.command)
  => Alike(run, shown)

(* A command as cmd.exe parses it: up to the first blank that is not       *)
(* between quotes.  Parsed excepts one with a quote that is never closed.  *)
Open(text, i) == Cardinality({j \in 1..(i - 1) : text[j] = Quote}) % 2 = 1
Parsed(command) ==
  /\ \A i \in DOMAIN command : command[i] = Blank => Open(command, i)
  /\ ~Open(command, Len(command) + 1)

(* monitor.py:17, "every exact future match", with three exceptions.  A    *)
(* rule answers for a command that is shown as the one it was made for,    *)
(* but blanks around the arguments may differ (1), and so may what is      *)
(* beyond MaxLength and not shown (2); and nothing is said of a command    *)
(* with a quote that is not closed (3).                                    *)
RuleMatchesAlike ==
  LET shown(l) == command_parts(l) IN
  phase = "silent" /\ (\A l \in ruled \cup {line} : Parsed(l.command))
    => \E l \in ruled : Alike(shown(l), shown(line))

===============================================================================
