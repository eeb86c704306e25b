------------------------------- MODULE JsonLog --------------------------------
(***************************************************************************)
(* cmd_hook.json, the file through which the hook DLL talks to the         *)
(* monitor.  The DLL rewrites the whole file for every entry               *)
(* (cmdtest/src/logging.rs): it reads the entries back, truncates the file *)
(* and serialises the longer array with many small unbuffered writes.  The *)
(* monitor (utils/monitors/monitor.py) polls the file with no lock and     *)
(* keeps the number of entries it has already seen.                        *)
(*                                                                         *)
(* The file is the document being written and how much of it is on disk,   *)
(* counted in tokens.  A document of n entries is                          *)
(*     "["  (K C V) * n  "]"  newline                                      *)
(* where K C V is the end of an entry: K closes the key of its last field, *)
(* C is the colon, V the value and the closing brace.  The cut matters     *)
(* only because a line that is a JSON string on its own is decoded         *)
(* differently from every other fragment.                                  *)
(*                                                                         *)
(* Faults: "open"  the DLL cannot open the file for one entry              *)
(*         "write" a write fails and the rest of the document is not       *)
(*                 written                                                 *)
(*         "close" the console window is closed while the main thread is   *)
(*                 logging: it dies where it is, and DllMain logs the      *)
(*                 removal of the hook from another thread                 *)
(*         "kill"  cmd.exe is terminated, DllMain does not run             *)
(***************************************************************************)
EXTENDS Naturals, Sequences, SequencesExt

CONSTANTS MaxEvents,    \* bound: ordinary entries logged in a behaviour
          Dirs,         \* working directories cmd.exe can be in
          Home,         \* the directory both programs start in
          Faults        \* the faults that may happen

ASSUME LogAssumption ==
  /\ MaxEvents \in Nat
  /\ Home \in Dirs
  /\ Faults \subseteq {"open", "write", "close", "kill"}

VARIABLES file,         \* file[d]: cmd_hook.json in directory d
          cwd,          \* cmd.exe's working directory
          writer,       \* the DLL's logging thread
          draft,        \* the array it is writing
          logged,       \* history: every entry given to log_json_entry
          mon,          \* where the monitor is
          batch,        \* entries it has read and not yet handled
          count,        \* last_json_entry_count
          position,     \* last_position, in tokens
          shouldStop,   \* should_stop
          handled       \* history: every entry it has handled

dllVars == <<file, cwd, writer, draft, logged>>
monVars == <<mon, batch, count, position, shouldStop, handled>>
vars == <<file, cwd, writer, draft, logged, mon, batch, count, position,
          shouldStop, handled>>

-------------------------------------------------------------------------------
(* Entries and files. *)

Event(n) == [type |-> "event", seq |-> n]
HookRemoved == [type |-> "removed", seq |-> 0]
Junk == [type |-> "junk", seq |-> 0]    \* a key salvaged from a torn document

Entry == [type : {"event"}, seq : 1..MaxEvents] \cup {HookRemoved, Junk}

BodyEnd(f) == 3 * Len(f.doc) + 1
Size(f) == BodyEnd(f) + 2
EmptyFile == [doc |-> <<>>, written |-> 0]

(* The text on disk is a whole JSON array (its final newline may be missing). *)
Complete(f) == f.written > BodyEnd(f)

(* The text ends in a line that holds only a key. *)
EndsInKey(f) == f.written % 3 = 2 /\ f.written <= BodyEnd(f)

(* read_existing_entries: the array; if it does not parse, whatever lines  *)
(* of the text are JSON values on their own.                               *)
ReadExistingForgets(f) == <<>>
ReadExisting(f) ==
  IF Complete(f) THEN f.doc ELSE IF EndsInKey(f) THEN <<Junk>> ELSE <<>>

-------------------------------------------------------------------------------
(* The DLL: log_json_entry, and DllMain's detach when cmd.exe ends. *)

Settle(e) == IF e = HookRemoved THEN "gone" ELSE "idle"

BeginAppend(e) ==
  /\ logged' = Append(logged, e)
  /\ draft' = Append(ReadExisting(file[cwd]), e)
  /\ writer' = "opened"

(* OpenOptions::open fails: the entry is silently dropped. *)
OpenFails(e) ==
  /\ "open" \in Faults
  /\ logged' = Append(logged, e)
  /\ writer' = Settle(e)
  /\ UNCHANGED draft

LogEntry(e) ==
  /\ writer = "idle"
  /\ BeginAppend(e) \/ OpenFails(e)
  /\ UNCHANGED <<file, cwd, monVars>>

LogEvent == Len(logged) < MaxEvents /\ LogEntry(Event(Len(logged) + 1))

Detach == LogEntry(HookRemoved)

Truncate ==
  /\ writer = "opened"
  /\ file' = [file EXCEPT ![cwd] = [doc |-> draft, written |-> 0]]
  /\ writer' = "writing"
  /\ UNCHANGED <<cwd, draft, logged, monVars>>

RemainsOneMore(f) == f.written <= Size(f)
Remains(f) == f.written < Size(f)

Write ==
  /\ writer = "writing"
  /\ file' = [file EXCEPT ![cwd].written = @ + 1]
  /\ writer' = IF Remains(file'[cwd]) THEN "writing" ELSE Settle(Last(draft))
  /\ UNCHANGED <<cwd, draft, logged, monVars>>

WriteFails ==
  /\ "write" \in Faults
  /\ writer = "writing"
  /\ writer' = Settle(Last(draft))
  /\ UNCHANGED <<file, cwd, draft, logged, monVars>>

(* The log's name is relative, and cd moves the whole process. *)
ChangeDir(d) ==
  /\ writer = "idle"
  /\ cwd' = d
  /\ UNCHANGED <<file, writer, draft, logged, monVars>>

ConsoleClose ==
  /\ "close" \in Faults
  /\ writer \in {"opened", "writing"}
  /\ Last(draft) # HookRemoved
  /\ BeginAppend(HookRemoved)
  /\ UNCHANGED <<file, cwd, monVars>>

Killed ==
  /\ "kill" \in Faults
  /\ writer # "gone"
  /\ writer' = "gone"
  /\ UNCHANGED <<file, cwd, draft, logged, monVars>>

DllStep == Truncate \/ Write \/ WriteFails
DllNext ==
  DllStep \/ LogEvent \/ Detach \/ ConsoleClose \/ Killed \/ \E d \in Dirs : ChangeDir(d)

-------------------------------------------------------------------------------
(* The monitor: start_monitoring, _read_new_content and the part of        *)
(* _format_and_print_entry that changes its state.                         *)

(* f.tell() at the end of the text.  The closing bracket and newline take  *)
(* the bytes where the next document has the separator of its next entry.  *)
Tell(f) == IF f.written < BodyEnd(f) THEN f.written ELSE BodyEnd(f)

NewEntriesRepeat(f, n) == f.doc
NewEntries(f, n) == SubSeq(f.doc, n + 1, Len(f.doc))

(* A fragment read from position p on has a line that is a JSON string:    *)
(* the key it ends in, or the value it starts with.                        *)
LoneString(f, p) ==
  /\ f.written > p
  /\ EndsInKey(f) \/ (p > 0 /\ p % 3 = 0)

(* After a fault p may fall anywhere in a document that is not a longer    *)
(* version of the one it was measured in.                                  *)
Misaligned(f, p) == Faults # {} /\ f.written > p

ExistingEntriesSkipped(f) == <<>>
ExistingEntries(f) == IF Complete(f) THEN f.doc ELSE <<>>

(* What is there already is handled first; text that does not parse is     *)
(* left for the first poll.                                                *)
StartMonitoring ==
  LET f == file[Home] IN
  /\ mon = "starting"
  /\ position' = Tell(f)
  /\ batch' = ExistingEntries(f)
  /\ count' = IF Complete(f) THEN Len(f.doc) ELSE count
  /\ mon' = IF batch' = <<>> THEN "idle" ELSE "startup"
  /\ UNCHANGED <<shouldStop, handled, dllVars>>

PollEmpty ==
  /\ mon = "idle"
  /\ file[Home].written = 0
  /\ mon' = "reread"
  /\ UNCHANGED <<batch, count, position, shouldStop, handled, dllVars>>

(* A whole array is read.  The start of one makes json.loads raise, which  *)
(* is logged and changes nothing.                                          *)
PollArray ==
  LET f == file[Home] IN
  /\ mon = "idle"
  /\ Complete(f)
  /\ batch' = NewEntries(f, count)
  /\ count' = Len(f.doc)
  /\ position' = Tell(f)
  /\ mon' = IF batch' = <<>> THEN "idle" ELSE "handling"
  /\ UNCHANGED <<shouldStop, handled, dllVars>>

(* The text was empty, so it is not taken for an array; the file is read   *)
(* again from last_position, and by now the DLL may have written more.     *)
(* Fragments are printed raw, but a lone string is not a JSONDecodeError:  *)
(* entry.get raises AttributeError, which ends start_monitoring.           *)
Reread ==
  LET f == file[Home] IN
  /\ mon = "reread"
  /\ position' = IF f.written > position THEN Tell(f) ELSE position
  /\ \/ ~LoneString(f, position) /\ mon' = "idle"
     \/ (LoneString(f, position) \/ Misaligned(f, position)) /\ mon' = "crashed"
  /\ UNCHANGED <<batch, count, shouldStop, handled, dllVars>>

(* start_monitoring's first loop runs to the end of what it found, the     *)
(* main loop leaves as soon as should_stop is set.                         *)
PlaceAfter(stop, rest) ==
  IF stop /\ (mon = "handling" \/ rest = <<>>) THEN "stopped"
  ELSE IF rest = <<>> THEN "idle" ELSE mon

StopsOnNever(e) == FALSE
StopsOn(e) == e = HookRemoved

(* The removal of the hook stops the monitor and terminates cmd.exe.       *)
HandleEntry ==
  LET e == Head(batch) IN
  /\ mon \in {"startup", "handling"}
  /\ handled' = Append(handled, e)
  /\ batch' = Tail(batch)
  /\ shouldStop' = (shouldStop \/ StopsOn(e))
  /\ writer' = IF StopsOn(e) THEN "gone" ELSE writer
  /\ mon' = PlaceAfter(shouldStop', batch')
  /\ UNCHANGED <<count, position, file, cwd, draft, logged>>

(* Ctrl+C. *)
Interrupt ==
  /\ mon \notin {"stopped", "crashed"}
  /\ mon' = "stopped"
  /\ shouldStop' = TRUE
  /\ UNCHANGED <<batch, count, position, handled, dllVars>>

MonStep == StartMonitoring \/ PollEmpty \/ PollArray \/ Reread \/ HandleEntry
MonNext == MonStep \/ Interrupt

-------------------------------------------------------------------------------
Init ==
  /\ file = [d \in Dirs |-> EmptyFile]
  /\ cwd = Home
  /\ writer = "idle"
  /\ draft = <<>>
  /\ logged = <<>>
  /\ mon = "starting"
  /\ batch = <<>>
  /\ count = 0
  /\ position = 0
  /\ shouldStop = FALSE
  /\ handled = <<>>

Next == DllNext \/ MonNext

Spec == Init /\ [][Next]_vars

(* A log_json_entry that has begun runs on, and the monitor keeps polling: *)
(* each is a loop or a straight line of its own process.  Nothing is       *)
(* assumed about when cmd.exe logs, changes directory or ends.             *)
Fairness == WF_vars(DllStep) /\ WF_vars(MonStep)
FairSpec == Spec /\ Fairness

-------------------------------------------------------------------------------
(* Properties. *)

(* The state is well formed: the file never holds more than its document,  *)
(* the monitor's count never exceeds what was logged.                      *)
TypeOK ==
  /\ file \in [Dirs -> [doc : Seq(Entry), written : Nat]]
  /\ \A d \in Dirs : file[d].written <= Size(file[d])
  /\ cwd \in Dirs
  /\ writer \in {"idle", "opened", "writing", "gone"}
  /\ writer = "writing" => Remains(file[cwd])
  /\ writer \in {"opened", "writing"} => draft # <<>>
  /\ draft \in Seq(Entry) /\ logged \in Seq(Entry)
  /\ batch \in Seq(Entry) /\ handled \in Seq(Entry)
  /\ mon \in {"starting", "startup", "idle", "reread", "handling", "stopped", "crashed"}
  /\ mon \in {"startup", "handling"} => batch # <<>>
  /\ count \in Nat /\ position \in Nat
  /\ shouldStop \in BOOLEAN

(* The invariant that carries DeliveredInOrder.  Between entries the file  *)
(* is whole or still empty, so that what the DLL reads back is all it has  *)
(* logged; the document on disk never runs ahead of the log; the monitor   *)
(* has taken, and handled or queued, exactly the first count entries.      *)
DocumentTracksLog ==
  LET f == file[Home] IN
  /\ writer = "idle" => f.doc = logged /\ (Complete(f) \/ f = EmptyFile)
  /\ writer \in {"opened", "writing"} => draft = logged
  /\ writer = "writing" => f.doc = logged
  /\ Len(f.doc) <= Len(logged)
  /\ \A i \in 1..Len(f.doc) : f.doc[i] = logged[i]

MonitorTracksDocument ==
  /\ mon = "starting" => count = 0
  /\ mon \in {"starting", "idle", "reread"} => batch = <<>>
  /\ mon \notin {"stopped", "crashed"} =>
       Len(handled) + Len(batch) = count /\ count <= Len(file[Home].doc)
  /\ Len(handled) + Len(batch) <= Len(logged)
  /\ \A i \in 1..Len(handled) : handled[i] = logged[i]
  /\ \A i \in 1..Len(batch) : batch[i] = logged[Len(handled) + i]

Inductive == TypeOK /\ DocumentTracksLog /\ MonitorTracksDocument

(* No entry is lost, repeated or reordered on its way from log_json_entry  *)
(* to _format_and_print_entry, wherever the polls fall between truncation  *)
(* and the last write: what was handled is the start of what was logged.   *)
DeliveredInOrder == IsPrefix(handled, logged)

(* The log implements the lossless channel. *)
Channel == INSTANCE LogChannel WITH sent <- logged, received <- handled
ImplementsChannel == Channel!Spec

(* Even when documents are torn, forgotten or written to another           *)
(* directory, the monitor never handles an event twice or after a later    *)
(* one: no command is ever put to the user twice.                          *)
HandledOnce ==
  \A i, j \in 1..Len(handled) :
    i < j /\ {handled[i].type, handled[j].type} = {"event"}
      => handled[i].seq < handled[j].seq

(* Every logged entry is eventually handled unless the monitor ends first: *)
(* a poll that saw an empty or torn file is made good by a later one.      *)
Ended == mon \in {"stopped", "crashed"}
EventuallyHandled ==
  \A n \in 1..(MaxEvents + 1) : Len(logged) >= n ~> (Len(handled) >= n \/ Ended)

(* Once the hook's removal is in the log the monitor stops of itself.      *)
RemovalStopsMonitor == writer = "gone" ~> Ended

(* README.md:45, "Decisions and command activity are logged to             *)
(* cmd_hook.json": between two entries the file in the directory both      *)
(* programs were started in holds all that was logged.                     *)
ActivityIsLogged ==
  writer \in {"idle", "gone"} =>
    \A i \in 1..Len(logged) : \E j \in 1..Len(file[Home].doc) : file[Home].doc[j] = logged[i]

(* main.py:193, "Press Ctrl+C to stop debugging...", and README.md:183,    *)
(* "Monitors the JSON log file in real-time": polling does not end the     *)
(* monitor by an error of its own.                                         *)
MonitorSurvives == mon # "crashed"

===============================================================================
