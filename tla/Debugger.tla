------------------------------- MODULE Debugger -------------------------------
(***************************************************************************)
(* The breakpoint protocol.  For every command line cmd.exe is about to    *)
(* run, the hook DLL (cmdtest/src/debugger.rs) logs a break with a fresh   *)
(* id and polls for the file response_<id>.txt until it can take a         *)
(* decision or its time is up.  The monitor (utils/monitors/monitor.py)    *)
(* handles the logged breaks in order; it answers from its rules or asks   *)
(* the user, and writes the response file under a temporary name first.    *)
(* Nothing tells the monitor that a break is over.                         *)
(*                                                                         *)
(* The log is the lossless channel that JsonLog implements; of its entries *)
(* only the breaks and the removal of the hook change the monitor's state. *)
(*                                                                         *)
(* Faults: "timeout"   the wait may end before the response is taken       *)
(*         "drop"      a break's entry may be lost (see JsonLog)           *)
(*         "raise"     asking or answering raises an exception: no console *)
(*                     input, an OSError from the response file            *)
(*         "interrupt" Ctrl+C                                              *)
(*         "keep"      the DLL cannot remove a response it has taken       *)
(***************************************************************************)
EXTENDS Naturals, Sequences

CONSTANTS Lines,        \* command lines cmd.exe may reach
          NoLine,       \* no line
          Groups,       \* those that are operator groups (a & b, a | b ...)
          Keys, Roots,  \* what the monitor's rules are about
          KeyOf, RootOf,\* _command_key and _root_command of a line
          Seeded,       \* the keys auto_continue starts with
          Edits,        \* texts the user may enter as an edited command
          EditedLine,   \* the line cmd.exe is given for each, NoLine if blank
          None,         \* no reply, no choice, no result
          MaxBreaks,    \* bound: breakpoints in a behaviour
          Faults        \* the faults that may happen

Ids == 1..MaxBreaks

Replies == [act : {"continue", "skip"}, text : {NoLine}] \cup [act : {"edit"}, text : Lines \cup {NoLine}]
Torn == [act |-> "edit", text |-> NoLine]

Choices == {"c", "s", "e", "a", "k", "i", "r", "root rule", "skip rule", "continue rule"}
Decisions == [by : Choices, reply : Replies]

ASSUME DebuggerAssumption ==
  /\ NoLine \notin Lines /\ Groups \subseteq Lines
  /\ KeyOf \in [Lines -> Keys] /\ RootOf \in [Lines -> Roots]
  /\ Seeded \subseteq Keys
  /\ EditedLine \in [Edits -> Lines \cup {NoLine}]
  /\ None \notin Replies \cup Decisions \cup Lines \cup {NoLine}
  /\ MaxBreaks \in Nat
  /\ Faults \subseteq {"timeout", "drop", "raise", "interrupt", "keep"}

VARIABLES dll,          \* cmd.exe's main thread
          breakId,      \* BREAK_ID
          reached,      \* reached[i]: the line that break i holds or held
          result,       \* history: the line that was run, NoLine if skipped
          timedOut,     \* history: the breaks whose wait timed out
          log,          \* break ids in the log, Removal last
          response,     \* response[i]: response_<i>.txt
          mon,          \* where the monitor is
          seen,         \* log entries it has taken
          existing,     \* log entries it found when it started
          reply,        \* the reply being written
          choice,       \* history: how break i was decided and by whom
          published,    \* history: the replies that were put in place
          autoContinue, autoSkip, rootContinue    \* the rules

Removal == 0

dllVars == <<dll, breakId, reached, result, timedOut>>
rules == <<autoContinue, autoSkip, rootContinue>>
monVars == <<mon, seen, existing, reply, choice, published, rules>>
vars == <<dllVars, log, response, monVars>>

-------------------------------------------------------------------------------
(* The DLL: handle_command_breakpoint and handle_operator_breakpoint. *)

Held == breakId - 1

(* What runs when reply r is given to line c: set_node_strings for an      *)
(* edit, but a group runs as it is.                                        *)
CarriedAlways(c, r) == IF r.act = "edit" THEN r.text ELSE c
Carried(c, r) ==
  IF r.act = "skip" THEN NoLine
  ELSE IF r.act = "edit" /\ c \notin Groups THEN r.text ELSE c

(* parse_debug_decision: an edit without a command line is a continue. *)
Parse(r) == IF r = Torn THEN [act |-> "continue", text |-> NoLine] ELSE r

Break(c) ==
  /\ dll = "running"
  /\ breakId <= MaxBreaks
  /\ breakId' = breakId + 1
  /\ reached' = [reached EXCEPT ![breakId] = c]
  /\ dll' = "waiting"
  /\ \/ log' = Append(log, breakId)
     \/ "drop" \in Faults /\ log' = log
  /\ UNCHANGED <<result, timedOut, response, monVars>>

Resume(ran) ==
  /\ dll = "waiting"
  /\ result' = [result EXCEPT ![Held] = ran]
  /\ dll' = "running"
  /\ UNCHANGED <<breakId, reached, log, monVars>>

(* The file that the wait polls. *)
FileForLast(id) == IF id > 1 THEN id - 1 ELSE id
FileFor(id) == id

TakeReply ==
  LET file == FileFor(Held) IN
  /\ dll = "waiting"
  /\ response[file] # None
  /\ Resume(Carried(reached[Held], Parse(response[file])))
  /\ \/ response' = [response EXCEPT ![file] = None]
     \/ "keep" \in Faults /\ UNCHANGED response
  /\ UNCHANGED timedOut

(* The deadline is looked at before the file: an answer that comes late in *)
(* the last sleep is not read.                                             *)
TimeOutNever == FALSE /\ UNCHANGED vars
TimeOut ==
  /\ "timeout" \in Faults
  /\ Resume(reached[Held])
  /\ timedOut' = timedOut \cup {Held}
  /\ UNCHANGED response

(* cmd.exe ends: by itself, logging the removal of the hook, or killed.    *)
Exit ==
  /\ dll # "exited"
  /\ dll' = "exited"
  /\ log' = Append(log, Removal) \/ log' = log
  /\ UNCHANGED <<breakId, reached, result, timedOut, response, monVars>>

DllNext == (\E c \in Lines : Break(c)) \/ TakeReply \/ TimeOut \/ Exit

-------------------------------------------------------------------------------
(* The monitor: start_monitoring and _handle_debug_break. *)

Continue == [act |-> "continue", text |-> NoLine]
Skip == [act |-> "skip", text |-> NoLine]
Edit(c) == [act |-> "edit", text |-> c]

RootIgnored(c) == RootOf[c] \in rootContinue
SkippedFirst(c) == KeyOf[c] \in autoSkip
Skipped(c) == ~RootIgnored(c) /\ KeyOf[c] \in autoSkip
ContinuedNever(c) == FALSE
Continued(c) == ~RootIgnored(c) /\ ~Skipped(c) /\ KeyOf[c] \in autoContinue

(* The entries that are there when it starts are handled in a loop of      *)
(* their own.                                                              *)
StartAtEnd ==
  /\ mon = "starting"
  /\ existing' = Len(log)
  /\ seen' = Len(log)
  /\ mon' = "polling"
  /\ UNCHANGED <<dllVars, log, response, reply, choice, published, rules>>
Start ==
  /\ mon = "starting"
  /\ existing' = Len(log)
  /\ mon' = "polling"
  /\ UNCHANGED <<dllVars, log, response, seen, reply, choice, published, rules>>

Take == mon = "polling" /\ seen < Len(log) /\ seen' = seen + 1
Entry == log[seen + 1]      \* the entry that Take takes
Line == reached[Entry]      \* its command line, if it is a break
Asked == log[seen]          \* the break being handled

Decide(i, by, r) ==
  /\ choice' = [choice EXCEPT ![i] = [by |-> by, reply |-> r]]
  /\ reply' = r
  /\ mon' = "replying"
  /\ UNCHANGED <<dllVars, log, response, existing, published>>

RuleAnswers(by, applies, r) ==
  /\ Take
  /\ Entry # Removal
  /\ applies
  /\ Decide(Entry, by, r)
  /\ UNCHANGED rules

RootContinue == RuleAnswers("root rule", RootIgnored(Line), Continue)
AutoSkip == RuleAnswers("skip rule", Skipped(Line), Skip)
AutoContinue == RuleAnswers("continue rule", Continued(Line), Continue)

Prompt ==
  /\ Take
  /\ Entry # Removal
  /\ ~RootIgnored(Line) /\ ~Skipped(Line) /\ ~Continued(Line)
  /\ mon' = "prompting"
  /\ UNCHANGED <<dllVars, log, response, existing, reply, choice, published, rules>>

UserDecides(by, r) ==
  /\ mon = "prompting"
  /\ Decide(Asked, by, r)
  /\ UNCHANGED seen

AddLine(set) == set \cup {reached[Asked]}
AddKey(set) == set \cup {KeyOf[reached[Asked]]}
AddRoot(set) == set \cup {RootOf[reached[Asked]]}

ChooseOnceRemembered ==
  /\ UserDecides("c", Continue)
  /\ autoContinue' = AddKey(autoContinue)
  /\ UNCHANGED <<autoSkip, rootContinue>>
ChooseOnce == UserDecides("c", Continue) /\ UNCHANGED rules
ChooseSkip == UserDecides("s", Skip) /\ UNCHANGED rules
ChooseEdit(t) ==
  /\ UserDecides("e", IF EditedLine[t] = NoLine THEN Continue ELSE Edit(EditedLine[t]))
  /\ UNCHANGED rules
ChooseAutoContinue ==
  /\ UserDecides("a", Continue)
  /\ autoContinue' = AddKey(autoContinue)
  /\ UNCHANGED <<autoSkip, rootContinue>>
ChooseAutoSkip ==
  /\ UserDecides("k", Skip)
  /\ autoSkip' = AddKey(autoSkip)
  /\ UNCHANGED <<autoContinue, rootContinue>>
ChooseIgnoreRepeats ==
  /\ UserDecides("i", Continue)
  /\ autoContinue' = AddKey(autoContinue)
  /\ UNCHANGED <<autoSkip, rootContinue>>
ChooseIgnoreRoot ==
  /\ UserDecides("r", Continue)
  /\ rootContinue' = AddRoot(rootContinue)
  /\ UNCHANGED <<autoContinue, autoSkip>>

Choose ==
  \/ ChooseOnce \/ ChooseSkip \/ ChooseAutoContinue \/ ChooseAutoSkip
  \/ ChooseIgnoreRepeats \/ ChooseIgnoreRoot
  \/ \E t \in Edits : ChooseEdit(t)

(* _write_debug_response: the text goes to response_<id>.tmp first, where  *)
(* the DLL does not look.                                                  *)
WriteInPlace ==
  /\ mon = "replying"
  /\ response' = [response EXCEPT ![Asked] = IF reply.act = "edit" THEN Torn ELSE @]
  /\ mon' = "replacing"
  /\ UNCHANGED <<dllVars, log, seen, existing, reply, choice, published, rules>>
WriteTemp ==
  /\ mon = "replying"
  /\ mon' = "replacing"
  /\ UNCHANGED <<dllVars, log, response, seen, existing, reply, choice, published, rules>>

Replace ==
  /\ mon = "replacing"
  /\ response' = [response EXCEPT ![Asked] = reply]
  /\ published' = [published EXCEPT ![Asked] = reply]
  /\ mon' = "polling"
  /\ UNCHANGED <<dllVars, log, seen, existing, reply, choice, rules>>

(* The hook was removed: cmd.exe is terminated and monitoring ends. *)
SeeRemoval ==
  /\ Take
  /\ Entry = Removal
  /\ dll' = "exited"
  /\ mon' = "stopped"
  /\ UNCHANGED <<breakId, reached, result, timedOut, log, response, existing, reply,
                 choice, published, rules>>

(* An exception ends the loop it is raised in.  The main loop is the end   *)
(* of monitoring; after the first one monitoring goes on, without the rest *)
(* of the entries that were there.                                         *)
Raise ==
  /\ "raise" \in Faults
  /\ mon \in {"prompting", "replying", "replacing"}
  /\ IF seen <= existing
     THEN mon' = "polling" /\ seen' = existing
     ELSE mon' = "stopped" /\ UNCHANGED seen
  /\ UNCHANGED <<dllVars, log, response, existing, reply, choice, published, rules>>

Interrupt ==
  /\ "interrupt" \in Faults
  /\ mon # "stopped"
  /\ mon' = "stopped"
  /\ UNCHANGED <<dllVars, log, response, seen, existing, reply, choice, published, rules>>

Answer ==
  Start \/ RootContinue \/ AutoSkip \/ AutoContinue \/ Prompt \/ WriteTemp \/ Replace \/ SeeRemoval
MonNext == Answer \/ Choose \/ Raise \/ Interrupt

-------------------------------------------------------------------------------
Init ==
  /\ dll = "running"
  /\ breakId = 1
  /\ reached = [i \in Ids |-> NoLine]
  /\ result = [i \in Ids |-> None]
  /\ timedOut = {}
  /\ log = <<>>
  /\ response = [i \in Ids |-> None]
  /\ mon = "starting"
  /\ seen = 0
  /\ existing = 0
  /\ reply = Continue
  /\ choice = [i \in Ids |-> None]
  /\ published = [i \in Ids |-> None]
  /\ autoContinue = Seeded
  /\ autoSkip = {}
  /\ rootContinue = {}

Next == DllNext \/ MonNext

Spec == Init /\ [][Next]_vars

(* The wait is a loop of its own thread and ends by the clock at the       *)
(* latest; the monitor keeps polling and writes the replies it has begun.  *)
(* Nothing is assumed of the user, or of when cmd.exe reaches a command.   *)
Fairness == WF_vars(TakeReply \/ TimeOut) /\ WF_vars(Answer)
FairSpec == Spec /\ Fairness

-------------------------------------------------------------------------------
(* Properties. *)

Busy == mon \in {"prompting", "replying", "replacing"}

(* The state is well formed; the ids of the log are those of past breaks,  *)
(* and the monitor never works on the removal entry.                       *)
DllTypes ==
  /\ dll \in {"running", "waiting", "exited"}
  /\ breakId \in 1..(MaxBreaks + 1)
  /\ dll = "waiting" => breakId > 1
  /\ reached \in [Ids -> Lines \cup {NoLine}]
  /\ \A i \in Ids : reached[i] # NoLine <=> i < breakId
  /\ result \in [Ids -> Lines \cup {NoLine, None}]
  /\ timedOut \subseteq Ids
LogTypes ==
  /\ log \in Seq(0..MaxBreaks)
  /\ \A n \in 1..Len(log) : log[n] < breakId
  /\ seen \in 0..Len(log) /\ existing \in 0..Len(log)
  /\ Busy => seen > 0 /\ Asked # Removal
MonTypes ==
  /\ mon \in {"starting", "polling", "prompting", "replying", "replacing", "stopped"}
  /\ reply \in Replies
  /\ response \in [Ids -> Replies \cup {None}]
  /\ published \in [Ids -> Replies \cup {None}]
  /\ choice \in [Ids -> Decisions \cup {None}]
  /\ autoContinue \subseteq Keys /\ autoSkip \subseteq Keys /\ rootContinue \subseteq Roots
TypeOK == DllTypes /\ LogTypes /\ MonTypes

(* What Breakpoint promises, for this protocol. *)
Contract == INSTANCE Breakpoint
  WITH verdict <- published, MayTimeOut <- "timeout" \in Faults

(* A command that does not run into the timeout does what was decided for  *)
(* that very break, by the user or by a rule, but that an edited group may *)
(* also run as it was: no reply is taken for another break, half written,  *)
(* or left over from an earlier command.                                   *)
DecisionHonoured ==
  \A i \in Ids : result[i] # None =>
    IF i \in timedOut THEN result[i] = reached[i]
    ELSE choice[i] # None /\ Contract!Honours(result[i], reached[i], choice[i].reply)

(* That exception is not in the repository's own words: monitor.py:16,     *)
(* "Replace this command line before it runs.", and README.md:97, "edit    *)
(* the command line before it runs", say of every command that what runs   *)
(* after an edit is the text of the edit.                                  *)
EditReplaces ==
  \A i \in Ids \ timedOut :
    result[i] # None /\ choice[i] # None /\ choice[i].reply.act = "edit" =>
      result[i] = choice[i].reply.text

(* What makes that so: the log holds each break once, in order, and ends    *)
(* with the removal; a response in place is the reply that was published,  *)
(* that reply is the choice made for its break, and no break is chosen for *)
(* twice; at most one break is unresolved, the held one.                   *)
LogOrdered ==
  /\ \A m, n \in 1..Len(log) : m < n => log[m] # Removal /\ (log[n] = Removal \/ log[m] < log[n])
  /\ \A n \in 1..Len(log) : log[n] = Removal => dll = "exited"
ReplyTraced ==
  /\ reply # Torn
  /\ \A i \in Ids : response[i] \in {None, published[i]}
  /\ \A i \in Ids : published[i] # None =>
       published[i] # Torn /\ choice[i] # None /\ choice[i].reply = published[i]
  /\ \A i \in Ids : choice[i] # None =>
       i < breakId /\ \A n \in (seen + 1)..Len(log) : log[n] = Removal \/ i < log[n]
  /\ mon = "prompting" => \A i \in Ids : choice[i] # None => i < Asked
  /\ mon \in {"replying", "replacing"} =>
       choice[Asked] # None /\ choice[Asked].reply = reply /\ published[Asked] = None
OneHeld ==
  /\ \A i \in timedOut : result[i] # None
  /\ \A i \in Ids : i >= breakId => result[i] = None
  /\ dll # "exited" => \A i \in Ids :
       i < breakId /\ result[i] = None <=> i = Held /\ dll = "waiting"
ProtocolInvariant == LogOrdered /\ ReplyTraced /\ OneHeld

(* No key is ever both skipped and continued by rule. *)
RulesDisjoint == autoContinue \cap autoSkip = {}

(* Nothing is decided without the user's word: behind every silent answer  *)
(* there is an earlier explicit choice about the same key or root, or the  *)
(* list the monitor starts with.                                           *)
Chose(i, letters) == choice[i] # None /\ choice[i].by \in letters
SameKey(i, j) == KeyOf[reached[i]] = KeyOf[reached[j]]
SameRoot(i, j) == RootOf[reached[i]] = RootOf[reached[j]]
RuleProvenance ==
  \A j \in Ids :
    /\ Chose(j, {"root rule"}) => \E i \in 1..(j - 1) : Chose(i, {"r"}) /\ SameRoot(i, j)
    /\ Chose(j, {"skip rule"}) => \E i \in 1..(j - 1) : Chose(i, {"k"}) /\ SameKey(i, j)
    /\ Chose(j, {"continue rule"}) =>
         \/ KeyOf[reached[j]] \in Seeded
         \/ \E i \in 1..(j - 1) : Chose(i, {"a", "i"}) /\ SameKey(i, j)

(* A standing order is kept: after a, i or r every later matching command  *)
(* is continued, and after k it is skipped unless its root is ignored.     *)
StandingRules ==
  \A i, j \in Ids : i < j /\ choice[j] # None =>
    /\ Chose(i, {"r"}) /\ SameRoot(i, j) => choice[j].reply = Continue
    /\ Chose(i, {"a", "i"}) /\ SameKey(i, j) => choice[j].reply = Continue
    /\ Chose(i, {"k"}) /\ SameKey(i, j) =>
         \/ choice[j].reply = Skip
         \/ \E h \in 1..(j - 1) : Chose(h, {"r"}) /\ SameRoot(h, j)

(* What makes both so: the rules hold exactly what the user chose and what *)
(* the monitor starts with, and the user is only asked about a command     *)
(* that no rule covers.                                                    *)
KeysChosen(letters) == {KeyOf[reached[i]] : i \in {j \in Ids : Chose(j, letters)}}
RootsChosen(letters) == {RootOf[reached[i]] : i \in {j \in Ids : Chose(j, letters)}}
RulesRecorded ==
  /\ autoSkip = KeysChosen({"k"})
  /\ autoContinue = Seeded \cup KeysChosen({"a", "i"})
  /\ rootContinue = RootsChosen({"r"})
PromptUnruled ==
  mon = "prompting" =>
    LET c == reached[Asked] IN
    KeyOf[c] \notin autoContinue \cup autoSkip /\ RootOf[c] \notin rootContinue
RulesInvariant == RulesRecorded /\ PromptUnruled

(* Unless waits time out, the command the user is asked about is the one   *)
(* that is held, and it stays held until the reply is in place.            *)
PromptIsCurrent ==
  Busy => dll = "exited" \/ (dll = "waiting" /\ Asked = Held /\ result[Held] = None)

(* Unless entries are lost or replies fail, a held command is never        *)
(* forgotten while the monitor runs: its break is still to be read, and    *)
(* undecided, or is being handled, or what was decided for it is in place. *)
HeldIsInHand ==
  dll = "waiting" /\ mon # "stopped" =>
    \/ choice[Held] = None /\ \E n \in (seen + 1)..Len(log) : log[n] = Held
    \/ Busy /\ Asked = Held
    \/ response[Held] # None /\ response[Held] = choice[Held].reply

(* The protocol implements the contract of Breakpoint: commands are held   *)
(* one at a time, each gets one verdict, and does what it says, but that   *)
(* an edited group may also run as it was.                                 *)
ImplementsContract == Contract!Spec

(* While both programs run, a held command is released or put to the user: *)
(* no break is overlooked.                                                 *)
HeldIsAsked == dll = "waiting" ~> (dll # "waiting" \/ mon \in {"prompting", "stopped"})

(* What was decided for a held command is carried out. *)
AnswerTakesEffect ==
  \A i \in Ids : choice[i] # None ~> (result[i] # None \/ dll = "exited" \/ mon = "stopped")

(* Whatever becomes of the monitor, a held command is released in the end. *)
HeldIsReleased == dll = "waiting" ~> dll # "waiting"

===============================================================================
