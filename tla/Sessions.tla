-------------------------------- MODULE Sessions -------------------------------
(***************************************************************************)
(* Sessions of the controller (main.py, injection_handler.py), one after   *)
(* the other in one directory.  Each cleans up what the last has left,     *)
(* resolves the addresses of the hooks (Symbols), launches a cmd.exe,      *)
(* injects the DLL and monitors.  Ctrl+C ends a session and leaves its     *)
(* cmd.exe running, whose DLL goes on logging to the same cmd_hook.json    *)
(* and waiting for the same response files, with break ids of its own.     *)
(*                                                                         *)
(* The log and the responses are here what JsonLog and Debugger show them  *)
(* to be as long as one thread writes to the log.  Where two do, one may   *)
(* undo what the other wrote (Clobber).                                    *)
(*                                                                         *)
(* Faults beside those of Symbols:                                         *)
(*         "clean"     a file of the last session cannot be removed        *)
(*         "launch", "inject"  cmd.exe cannot be started, or not injected  *)
(*         "load"      LoadLibrary fails in cmd.exe                        *)
(*         "kill"      cmd.exe ends without logging it                     *)
(*         "interrupt" Ctrl+C                                              *)
(*         "raise"     an exception while the monitor reads or handles     *)
(* TerminateProcess on the controller's own child is taken to succeed.     *)
(***************************************************************************)
EXTENDS Symbols, SequencesExt

CONSTANTS MaxSessions,  \* bound: sessions in a behaviour
          MaxBreaks,    \* bound: breakpoints of each cmd.exe
          MaxLog,       \* bound: entries in the log
          MaxClobbers   \* bound: entries that are undone

Numbers == 1..MaxSessions
Ids == 1..MaxBreaks
Nobody == 0
Removal == 0

(* A log entry says which cmd.exe logged it for our eyes only: the code    *)
(* writes the break id and no more.                                        *)
Entries == [by : Numbers, id : Ids \cup {Removal}]

ASSUME SessionsAssumption ==
  /\ MaxSessions \in Nat /\ MaxBreaks \in Nat /\ MaxLog \in Nat /\ MaxClobbers \in Nat
  /\ DefaultBuild \in Builds /\ Elsewhere \subseteq Builds
  /\ Faults \subseteq {"headers", "network", "cut", "dbghelp", "clean", "launch", "inject",
                       "load", "kill", "interrupt", "raise"}

VARIABLES session,      \* the current session, or the last
          ctl,          \* where the controller is
          globbed,      \* responses that the cleanup has still to remove
          cmd,          \* cmd[s]: the cmd.exe of session s
          env,          \* env[s]: the addresses in its environment
          breakId,      \* its BREAK_ID
          waiting,      \* those that are held at a breakpoint
          log,          \* cmd_hook.json
          response,     \* response[i]: for whose break response_<i>.txt is
          batch,        \* entries the monitor has read and not yet handled
          count,        \* last_json_entry_count
          existing,     \* it is still in the loop over the existing ones
          stop,         \* should_stop
          clobbered,    \* how often Clobber has happened
          left,         \* history: sessions that Ctrl+C ended
          failed,       \* history: sessions whose monitor an exception ended
          marks         \* history of the current session:
                        \*   "alone"   no other DLL was loaded when it began
                        \*   "emptied" it has removed the log
                        \*   "clean"   its cleanup was complete
                        \*   "sound"   nothing failed in its resolution, and the
                        \*             PDB is not one that was cut short
                        \*   "crossed" a cmd.exe took another one's answer
                        \*   "misled"  another cmd.exe's removal ended it

Marks == {"alone", "emptied", "clean", "sound", "crossed", "misled"}

ctlVars == <<session, ctl, globbed>>
cmdVars == <<cmd, env, breakId, waiting>>
fileVars == <<log, response, clobbered>>
monVars == <<batch, count, existing, stop>>
history == <<left, failed, marks>>
vars == <<symbolVars, ctlVars, cmdVars, fileVars, monVars, history>>

Mark(ms) == marks' = marks \cup ms
NoMonitor == batch' = <<>> /\ count' = 0 /\ existing' = FALSE /\ stop' = FALSE

-------------------------------------------------------------------------------
(* The controller up to the monitor: main and launch_cmd_and_inject. *)

Live(s) == cmd[s] \in {"bare", "injected", "attaching", "hooked"}
Touches(s) == cmd[s] \in {"injected", "attaching", "hooked"}

Begin ==
  /\ ctl = "over"
  /\ session < MaxSessions
  /\ session' = session + 1
  /\ ctl' = "cleaning"
  /\ marks' = {m \in {"alone"} : \A s \in Numbers : ~Touches(s)}
  /\ UNCHANGED <<symbolVars, globbed, cmdVars, fileVars, monVars, left, failed>>

KeepLog ==
  /\ ctl = "cleaning"
  /\ ctl' = "listing"
  /\ Mark({"emptied"})
  /\ UNCHANGED <<symbolVars, session, globbed, cmdVars, fileVars, monVars, left, failed>>
RemoveLog ==
  /\ ctl = "cleaning"
  /\ log' = <<>>
  /\ ctl' = "listing"
  /\ Mark({"emptied"})
  /\ UNCHANGED <<symbolVars, session, globbed, cmdVars, response, clobbered, monVars, left, failed>>

(* glob reads the directory before the first file is removed. *)
ListNone ==
  /\ ctl = "listing"
  /\ ctl' = "unlinking"
  /\ UNCHANGED <<symbolVars, session, globbed, cmdVars, fileVars, monVars, history>>
ListResponses ==
  /\ ctl = "listing"
  /\ globbed' = {i \in Ids : response[i] # Nobody}
  /\ ctl' = "unlinking"
  /\ UNCHANGED <<symbolVars, session, cmdVars, fileVars, monVars, history>>

GiveUpCleaning ==
  /\ ctl' = "resolving"
  /\ globbed' = {}
  /\ UNCHANGED <<symbolVars, session, cmdVars, fileVars, monVars, history>>

(* unlink of a response that a DLL has taken in the meantime raises, as    *)
(* does one that is locked; the rest is then left where it is.             *)
Unlink(i) ==
  /\ ctl = "unlinking"
  /\ i \in globbed
  /\ IF response[i] = Nobody THEN GiveUpCleaning
     ELSE /\ response' = [response EXCEPT ![i] = Nobody]
          /\ globbed' = globbed \ {i}
          /\ UNCHANGED <<symbolVars, session, ctl, cmdVars, log, clobbered, monVars, history>>

CleaningFails ==
  /\ "clean" \in Faults
  /\ ctl \in {"cleaning", "listing", "unlinking"}
  /\ GiveUpCleaning

(* The temporary files come last; nobody reads them. *)
Cleaned ==
  /\ ctl = "unlinking"
  /\ globbed = {}
  /\ ctl' = "resolving"
  /\ Mark({"clean"})
  /\ UNCHANGED <<symbolVars, session, globbed, cmdVars, fileVars, monVars, left, failed>>

ResolveAddresses ==
  /\ ctl = "resolving"
  /\ Resolve \/ ResolveStep
  /\ UNCHANGED <<ctlVars, cmdVars, fileVars, monVars, history>>

(* The new cmd.exe gets the addresses that were found in its environment. *)
Launch ==
  /\ ctl = "resolving"
  /\ Forget
  /\ cmd' = [cmd EXCEPT ![session] = "bare"]
  /\ env' = [env EXCEPT ![session] = resolved]
  /\ Mark({m \in {"sound"} : ~troubled /\ pdb[build] # "partial"})
  /\ ctl' = "injecting"
  /\ UNCHANGED <<session, globbed, breakId, waiting, fileVars, monVars, left, failed>>

LaunchFails ==
  /\ "launch" \in Faults
  /\ ctl = "resolving"
  /\ Forget
  /\ ctl' = "over"
  /\ UNCHANGED <<session, globbed, cmdVars, fileVars, monVars, history>>

(* inject_dll is done when the remote thread exists; it does not wait for  *)
(* LoadLibrary.                                                            *)
Inject ==
  /\ ctl = "injecting"
  /\ cmd[session] = "bare"
  /\ cmd' = [cmd EXCEPT ![session] = "injected"]
  /\ ctl' = "settling"
  /\ UNCHANGED <<symbolVars, session, globbed, env, breakId, waiting, fileVars, monVars, history>>

EndsNot(s) == UNCHANGED cmdVars
Ends(s) ==
  /\ cmd' = [cmd EXCEPT ![s] = "ended"]
  /\ env' = [env EXCEPT ![s] = {}] /\ breakId' = [breakId EXCEPT ![s] = 1]
  /\ waiting' = waiting \ {s}
InjectionFails ==
  /\ ctl = "injecting"
  /\ cmd[session] = "ended" \/ "inject" \in Faults
  /\ Ends(session)
  /\ ctl' = "over"
  /\ UNCHANGED <<symbolVars, session, globbed, fileVars, monVars, history>>

-------------------------------------------------------------------------------
(* The monitor, as far as sessions can see it. *)

(* A log that is just being rewritten may not be readable; it is then read *)
(* by the first poll.                                                      *)
StartMonitoring ==
  /\ ctl = "settling"
  /\ ctl' = "monitoring"
  /\ \E seen \in {log, <<>>} : batch' = seen /\ count' = Len(seen)
  /\ existing' = TRUE /\ stop' = FALSE
  /\ UNCHANGED <<symbolVars, session, globbed, cmdVars, fileVars, history>>

(* A log that has got shorter is counted anew. *)
Poll ==
  /\ ctl = "monitoring"
  /\ batch = <<>> /\ ~stop
  /\ existing \/ count # Len(log)
  /\ existing' = FALSE
  /\ batch' = SubSeq(log, count + 1, Len(log)) /\ count' = Len(log)
  /\ UNCHANGED <<symbolVars, ctlVars, cmdVars, fileVars, stop, history>>

Monitoring == ctl \in {"monitoring", "answering"}
Handle(e) ==
  /\ ctl = "monitoring"
  /\ batch # <<>> /\ e = Head(batch)

(* A rule or the user decides. *)
HandleBreak ==
  \E e \in Entries :
    /\ Handle(e)
    /\ e.id # Removal
    /\ ctl' = "answering"
    /\ UNCHANGED <<symbolVars, session, globbed, cmdVars, fileVars, monVars, history>>

Answer ==
  /\ ctl = "answering"
  /\ response' = [response EXCEPT ![Head(batch).id] = Head(batch).by]
  /\ batch' = Tail(batch)
  /\ ctl' = "monitoring"
  /\ UNCHANGED <<symbolVars, session, globbed, cmdVars, log, clobbered, count, existing, stop, history>>

(* The message says that the hook is being removed, not whose.  The first  *)
(* loop goes on to the end of what it has read.                            *)
HandleRemoval ==
  \E e \in Entries :
    /\ Handle(e)
    /\ e.id = Removal
    /\ Ends(session)
    /\ Mark({m \in {"misled"} : e.by # session})
    /\ IF existing
       THEN stop' = TRUE /\ batch' = Tail(batch) /\ UNCHANGED <<ctl, count, existing>>
       ELSE ctl' = "over" /\ NoMonitor
    /\ UNCHANGED <<symbolVars, session, globbed, fileVars, left, failed>>

Stopped ==
  /\ ctl = "monitoring"
  /\ stop /\ batch = <<>>
  /\ ctl' = "over"
  /\ NoMonitor
  /\ UNCHANGED <<symbolVars, session, globbed, cmdVars, fileVars, history>>

(* An exception in the first loop skips the rest of what was read; one in  *)
(* the second ends the monitor, and the controller with it.                *)
MonitorFails ==
  /\ "raise" \in Faults
  /\ Monitoring
  /\ IF existing
     THEN ctl' = "monitoring" /\ batch' = <<>> /\ UNCHANGED <<count, existing, stop, failed>>
     ELSE ctl' = "over" /\ NoMonitor /\ failed' = failed \cup {session}
  /\ UNCHANGED <<symbolVars, session, globbed, cmdVars, fileVars, left, marks>>

(* Ctrl+C at any time leaves cmd.exe as it is. *)
Interrupt ==
  /\ "interrupt" \in Faults
  /\ ctl # "over"
  /\ ctl' = "over"
  /\ globbed' = {}
  /\ left' = left \cup {session}
  /\ Abandon
  /\ NoMonitor
  /\ UNCHANGED <<session, cmdVars, fileVars, failed, marks>>

(* Only with no cmd.exe running. *)
UpdateWindows ==
  /\ ctl = "over"
  /\ \A s \in Numbers : ~Live(s)
  /\ \E b \in Builds : Update(b)
  /\ UNCHANGED <<ctlVars, cmdVars, fileVars, monVars, history>>

-------------------------------------------------------------------------------
(* cmd.exe and its DLL. *)

(* A hook at a wrong address is a detour of whatever is there: cmd.exe may *)
(* end, may never be stopped, or some other hook may work.                 *)
RightAddresses(s) == env[s] = Names \/ build = DefaultBuild
Load(s) ==
  /\ cmd[s] = "injected"
  /\ \E next \in {"attaching", "bare", "ended"} :
       /\ next = "bare" => "load" \in Faults
       /\ next = "ended" => ~RightAddresses(s)
       /\ cmd' = [cmd EXCEPT ![s] = next]
  /\ UNCHANGED <<symbolVars, ctlVars, env, breakId, waiting, fileVars, monVars, history>>

Attached(s) ==
  /\ cmd[s] = "attaching"
  /\ cmd' = [cmd EXCEPT ![s] = "hooked"]
  /\ UNCHANGED <<symbolVars, ctlVars, env, breakId, waiting, fileVars, monVars, history>>

Hooked(s) == cmd[s] \in {"attaching", "hooked"}

LogEntry(s, i) ==
  /\ Len(log) < MaxLog
  /\ log' = Append(log, [by |-> s, id |-> i])
  /\ UNCHANGED <<response, clobbered>>

Break(s) ==
  /\ Hooked(s)
  /\ s \notin waiting
  /\ breakId[s] <= MaxBreaks
  /\ LogEntry(s, breakId[s])
  /\ breakId' = [breakId EXCEPT ![s] = @ + 1]
  /\ waiting' = waiting \cup {s}
  /\ UNCHANGED <<symbolVars, ctlVars, cmd, env, monVars, history>>

(* The file has the id in its name and no other mark. *)
TakeResponse(s) ==
  LET i == breakId[s] - 1 IN
  /\ s \in waiting
  /\ response[i] # Nobody
  /\ response' = [response EXCEPT ![i] = Nobody]
  /\ waiting' = waiting \ {s}
  /\ Mark({m \in {"crossed"} : response[i] # s})
  /\ UNCHANGED <<symbolVars, ctlVars, cmd, env, breakId, log, clobbered, monVars, left, failed>>

TimeOut(s) ==
  /\ s \in waiting
  /\ waiting' = waiting \ {s}
  /\ UNCHANGED <<symbolVars, ctlVars, cmd, env, breakId, fileVars, monVars, history>>

Exit(s) ==
  /\ Live(s)
  /\ IF Hooked(s)
     THEN LogEntry(s, Removal) \/ ("kill" \in Faults /\ UNCHANGED fileVars)
     ELSE UNCHANGED fileVars
  /\ Ends(s)
  /\ UNCHANGED <<symbolVars, ctlVars, monVars, history>>

(* Two threads that read, truncate and rewrite the log at once: those of   *)
(* two cmd.exe, or of one whose injected thread is still installing hooks. *)
(* One writes back what it read before the other had written; the entry is *)
(* lost, or lost for a while, in which the monitor may have counted less.  *)
Racing ==
  \/ \E s \in Numbers : cmd[s] = "attaching"
  \/ \E s, t \in Numbers : s # t /\ Hooked(s) /\ Hooked(t)

Clobber ==
  /\ clobbered < MaxClobbers
  /\ clobbered' = clobbered + 1
  /\ Racing
  /\ \/ \E n \in DOMAIN log : log' = RemoveAt(log, n) /\ UNCHANGED count
     \/ count > 0 /\ count' = count - 1 /\ UNCHANGED log
  /\ UNCHANGED <<symbolVars, ctlVars, cmdVars, response, batch, existing, stop, history>>

-------------------------------------------------------------------------------
Init ==
  /\ SymbolInit
  /\ session = 0 /\ ctl = "over" /\ globbed = {}
  /\ cmd = [s \in Numbers |-> "none"]
  /\ env = [s \in Numbers |-> {}]
  /\ breakId = [s \in Numbers |-> 1]
  /\ waiting = {}
  /\ log = <<>> /\ clobbered = 0
  /\ response = [i \in Ids |-> Nobody]
  /\ batch = <<>> /\ count = 0 /\ existing = FALSE /\ stop = FALSE
  /\ left = {} /\ failed = {} /\ marks = {}

Controller ==
  \/ Begin \/ RemoveLog \/ ListResponses \/ CleaningFails \/ Cleaned
  \/ \E i \in Ids : Unlink(i)
  \/ ResolveAddresses \/ Launch \/ LaunchFails \/ Inject \/ InjectionFails

Monitor ==
  \/ StartMonitoring \/ Poll \/ HandleBreak \/ Answer \/ HandleRemoval
  \/ Stopped \/ MonitorFails

Cmd(s) ==
  Load(s) \/ Attached(s) \/ Break(s) \/ TakeResponse(s) \/ TimeOut(s) \/ Exit(s)

Next ==
  \/ Controller \/ Monitor \/ Interrupt \/ UpdateWindows \/ Clobber
  \/ \E s \in Numbers : Cmd(s)

Spec == Init /\ [][Next]_vars

-------------------------------------------------------------------------------
(* Every variable has its type, and break ids stay within the bound. *)
TypeOK ==
  /\ SymbolTypes
  /\ session \in 0..MaxSessions
  /\ ctl \in {"over", "cleaning", "listing", "unlinking", "resolving", "injecting", "settling",
              "monitoring", "answering"}
  /\ globbed \subseteq Ids
  /\ cmd \in [Numbers -> {"none", "bare", "injected", "attaching", "hooked", "ended"}]
  /\ env \in [Numbers -> SUBSET Names]
  /\ breakId \in [Numbers -> 1..MaxBreaks + 1]
  /\ waiting \subseteq Numbers
  /\ log \in Seq(Entries) /\ batch \in Seq(Entries)
  /\ response \in [Ids -> Numbers \cup {Nobody}]
  /\ count \in Nat /\ existing \in BOOLEAN /\ stop \in BOOLEAN
  /\ clobbered \in 0..MaxClobbers
  /\ left \subseteq Numbers /\ failed \subseteq Numbers /\ marks \subseteq Marks

(* For a session that began with no other DLL loaded, nothing of an        *)
(* earlier one remains: once it has removed the log, every entry, read or  *)
(* not, is its own cmd.exe's, even if the rest of its cleanup fails; and   *)
(* after a complete cleanup so is every response.                          *)
Emptied == {"alone", "emptied"} \subseteq marks
Fresh == {"alone", "clean"} \subseteq marks
Own(entries) == \A n \in DOMAIN entries : entries[n].by = session
FilesAreOwn ==
  /\ Emptied => Own(log) /\ Own(batch)
  /\ Fresh => \A i \in Ids : response[i] \in {Nobody, session}

(* In such a session no cmd.exe is terminated because another one has      *)
(* removed its hook, even if responses could not be removed; and after a   *)
(* complete cleanup none takes the answer to another one's break.          *)
SessionsIsolated ==
  /\ Emptied => "misled" \notin marks
  /\ Fresh => "crossed" \notin marks

(* What makes these so: the new cmd.exe comes only after the cleanup, and  *)
(* one without a DLL never gets one later; the cleanup leaves no response  *)
(* but those it still has to remove, and nothing is added meanwhile.       *)
Cleaning == ctl \in {"cleaning", "listing", "unlinking"}
InOrder ==
  /\ ctl # "over" \/ marks # {} => session \in Numbers
  /\ \A s \in Numbers : s > session \/ (s = session /\ (Cleaning \/ ctl = "resolving"))
                          => cmd[s] = "none"
  /\ \A s \in waiting : Hooked(s) /\ breakId[s] > 1
  /\ Cleaning \/ ctl = "resolving" => "sound" \notin marks
  /\ ~Monitoring => batch = <<>> /\ ~stop
  /\ ctl = "answering" => batch # <<>> /\ Head(batch).id \in Ids
  /\ stop => ~Live(session)
LeftAlone ==
  "alone" \in marks =>
    /\ \A s \in Numbers : Touches(s) => s = session
    /\ ctl \in {"listing", "unlinking"} => log = <<>>
    /\ ctl = "unlinking" => \A i \in Ids : response[i] # Nobody => i \in globbed
    /\ Cleaning => marks = IF ctl = "cleaning" THEN {"alone"} ELSE {"alone", "emptied"}
    /\ "clean" \in marks => "emptied" \in marks
SessionInvariant == InOrder /\ LeftAlone /\ FilesAreOwn /\ SessionsIsolated

(* A cmd.exe without a controller is one that Ctrl+C or an exception in    *)
(* the monitor has left behind: no other end of a session leaves one,      *)
(* whichever step of resolution, launch or injection fails, and whatever   *)
(* stops the monitor.                                                      *)
NoneAbandoned ==
  \A s \in Numbers : Live(s) => s \in left \cup failed \/ (s = session /\ ctl # "over")

(* A failed download is made up for: once nothing fails, all the addresses *)
(* are found, unless an earlier download of this build's PDB was cut short *)
(* in the middle of the file.                                              *)
HooksPlaced == "sound" \in marks /\ Live(session) => env[session] = Names
ResolutionTraced ==
  /\ looking = "idle" => ~troubled
  /\ looking = "loading" /\ ~troubled => pdb[build] \in {"partial", "whole"}
  /\ looking = "done" /\ ~troubled /\ pdb[build] # "partial" => resolved = Names

(* Only its own removal of the hook ends a session: "Terminating cmd.exe:  *)
(* hook was removed" (_terminate_target_process).                          *)
EndedByOwnRemoval == "misled" \notin marks

===============================================================================
