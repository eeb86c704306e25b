---------------------------- MODULE SessionsProofs ----------------------------
(***************************************************************************)
(* Proofs about Sessions: for any number of sessions, cmd.exe processes,   *)
(* breakpoints and lost entries, and whichever faults may happen.          *)
(***************************************************************************)
EXTENDS Sessions, SequenceTheorems, TLAPS

(* An entry added by s. *)
LEMMA EntryType ==
  ASSUME NEW s \in Numbers, NEW i \in Ids \cup {Removal}
  PROVE  [by |-> s, id |-> i] \in Entries
BY DEF Entries

(* What is cut out of a list of entries is a list of entries, and those of *)
(* one session if the list was.                                            *)
LEMMA SubSeqEntries ==
  ASSUME NEW e \in Seq(Entries), NEW m \in Nat, NEW who,
         \A n \in DOMAIN e : e[n].by = who
  PROVE  LET f == SubSeq(e, m + 1, Len(e)) IN
         /\ f \in Seq(Entries)
         /\ \A n \in DOMAIN f : f[n].by = who
<1> DEFINE f == SubSeq(e, m + 1, Len(e))
<1>1. \A n \in (m + 1)..Len(e) : e[n] \in Entries
  OBVIOUS
<1>2. f \in Seq(Entries)
  BY <1>1, SubSeqProperties
<1>3. ASSUME NEW n \in DOMAIN f PROVE f[n].by = who
  <2>1. n \in 1..Len(f) /\ Len(f) = IF m + 1 <= Len(e) + 1 THEN Len(e) + 1 - (m + 1) ELSE 0
    BY <1>1, <1>2, SubSeqProperties
  <2>2. f[n] = e[m + 1 + n - 1] /\ m + 1 + n - 1 \in 1..Len(e)
    BY <1>1, <2>1, SubSeqProperties
  <2> QED
    BY <2>2
<1> QED
  BY <1>2, <1>3

(* The same without the session. *)
LEMMA SubSeqType ==
  ASSUME NEW e \in Seq(Entries), NEW m \in Nat
  PROVE  SubSeq(e, m + 1, Len(e)) \in Seq(Entries)
<1>1. \A n \in (m + 1)..Len(e) : e[n] \in Entries
  OBVIOUS
<1> QED
  BY <1>1, SubSeqProperties

(* With one entry removed, what remains was in the list before. *)
LEMMA RemoveAtEntries ==
  ASSUME NEW e \in Seq(Entries), NEW k \in DOMAIN e
  PROVE  LET f == RemoveAt(e, k) IN
         /\ f \in Seq(Entries)
         /\ \A n \in DOMAIN f : \E o \in DOMAIN e : f[n] = e[o]
<1> DEFINE a == SubSeq(e, 1, k - 1)
           b == SubSeq(e, k + 1, Len(e))
<1>0. k \in 1..Len(e) /\ Len(e) \in Nat /\ DOMAIN e = 1..Len(e)
  OBVIOUS
<1>1. /\ a \in Seq(Entries) /\ Len(a) = k - 1
      /\ \A n \in 1..Len(a) : a[n] = e[n]
  BY <1>0, SubSeqProperties
<1>2. /\ b \in Seq(Entries) /\ Len(b) = Len(e) - k
      /\ \A n \in 1..Len(b) : b[n] = e[k + n]
  <2>1. \A n \in (k + 1)..Len(e) : e[n] \in Entries
    OBVIOUS
  <2>2. /\ b \in Seq(Entries)
        /\ Len(b) = Len(e) + 1 - (k + 1)
        /\ \A n \in 1..(Len(e) + 1 - (k + 1)) : b[n] = e[k + 1 + n - 1]
    BY <1>0, <2>1, SubSeqProperties
  <2> QED
    BY <1>0, <2>2
<1>3. RemoveAt(e, k) = a \o b
  BY DEF RemoveAt
<1> HIDE DEF a, b
<1>4. /\ a \o b \in Seq(Entries) /\ Len(a \o b) = Len(a) + Len(b)
      /\ \A n \in 1..Len(a) + Len(b) :
            (a \o b)[n] = IF n <= Len(a) THEN a[n] ELSE b[n - Len(a)]
  BY <1>1, <1>2, ConcatProperties
<1>5. ASSUME NEW n \in DOMAIN (a \o b) PROVE \E o \in DOMAIN e : (a \o b)[n] = e[o]
  <2>1. n \in 1..Len(a) + Len(b)
    BY <1>4
  <2>2. CASE n <= Len(a)
    <3>1. (a \o b)[n] = e[n] /\ n \in 1..Len(e)
      BY <1>0, <1>1, <1>4, <2>1, <2>2
    <3> QED
      BY <1>0, <3>1
  <2>3. CASE ~(n <= Len(a))
    <3> DEFINE j == n - Len(a)
    <3>1. j \in 1..Len(b) /\ (a \o b)[n] = b[j]
      BY <1>0, <1>1, <1>2, <1>4, <2>1, <2>3
    <3> HIDE DEF j
    <3>2. (a \o b)[n] = e[k + j] /\ k + j \in 1..Len(e)
      BY <1>0, <1>2, <3>1
    <3> QED
      BY <1>0, <3>2
  <2> QED
    BY <2>2, <2>3
<1> QED
  BY <1>3, <1>4, <1>5

(* The parts of a step. *)
LEMMA Step ==
  ASSUME [Next]_vars
  PROVE  \/ Begin \/ RemoveLog \/ ListResponses \/ CleaningFails \/ Cleaned
         \/ \E i \in Ids : Unlink(i)
         \/ ResolveAddresses \/ Launch \/ LaunchFails \/ Inject \/ InjectionFails
         \/ StartMonitoring \/ Poll \/ HandleBreak \/ Answer \/ HandleRemoval \/ Stopped
         \/ MonitorFails \/ Interrupt \/ UpdateWindows \/ Clobber
         \/ \E s \in Numbers : \/ Load(s) \/ Attached(s) \/ Break(s)
                               \/ TakeResponse(s) \/ TimeOut(s) \/ Exit(s)
         \/ UNCHANGED vars
BY DEF Next, Controller, Monitor, Cmd

-------------------------------------------------------------------------------
(* The variables of Symbols keep their types. *)
SymbolStep ==
  \/ UNCHANGED symbolVars
  \/ Resolve \/ ResolveStep \/ Forget \/ Abandon
  \/ \E b \in Builds : Update(b)

(* Every step of the resolution, and of what ends it, keeps them. *)
LEMMA SymbolTypesKept ==
  ASSUME SymbolTypes, SymbolStep
  PROVE  SymbolTypes'
<1> USE DEF SymbolTypes, CacheStates
<1>1. CASE UNCHANGED symbolVars
  BY <1>1 DEF symbolVars
<1>2. CASE Resolve
  BY <1>2 DEF Resolve
<1>3. CASE ParseHeaders
  BY <1>3 DEF ParseHeaders
<1>4. CASE NoHeaders
  BY <1>4 DEF NoHeaders
<1>5. CASE Download
  BY <1>5 DEF Download
<1>6. CASE Unreachable
  BY <1>6 DEF Unreachable
<1>7. CASE CutShort
  BY <1>7 DEF CutShort, LeavePartial
<1>8. CASE LookUp
  BY <1>8 DEF LookUp, Found
<1>9. CASE Forget
  BY <1>9 DEF Forget
<1>10. CASE Abandon
  BY <1>10 DEF Abandon, LeavePartial
<1>11. ASSUME NEW b \in Builds, Update(b) PROVE SymbolTypes'
  BY <1>11 DEF Update
<1> QED
  BY <1>1, <1>2, <1>3, <1>4, <1>5, <1>6, <1>7, <1>8, <1>9, <1>10, <1>11
     DEF SymbolStep, ResolveStep

(* No step of Sessions does anything else to the variables of Symbols. *)
LEMMA EveryStepIsASymbolStep ==
  ASSUME [Next]_vars
  PROVE  SymbolStep
BY Step DEF SymbolStep, vars, symbolVars, Begin, RemoveLog, ListResponses, CleaningFails,
   GiveUpCleaning, Cleaned, Unlink, ResolveAddresses, Launch, LaunchFails, Inject,
   InjectionFails, StartMonitoring, Poll, HandleBreak, Answer, HandleRemoval, Stopped,
   MonitorFails, Interrupt, UpdateWindows, Clobber, Load, Attached, Break, TakeResponse,
   TimeOut, Exit

(* The rest of the types, of the controller and of the files. *)
CmdTypes ==
  /\ cmd \in [Numbers -> {"none", "bare", "injected", "attaching", "hooked", "ended"}]
  /\ env \in [Numbers -> SUBSET Names]
  /\ breakId \in [Numbers -> 1..MaxBreaks + 1]
  /\ waiting \subseteq Numbers
FileTypes ==
  /\ log \in Seq(Entries) /\ batch \in Seq(Entries)
  /\ response \in [Ids -> Numbers \cup {Nobody}]
  /\ count \in Nat /\ clobbered \in 0..MaxClobbers
CtlTypes ==
  /\ session \in 0..MaxSessions
  /\ ctl \in {"over", "cleaning", "listing", "unlinking", "resolving", "injecting", "settling",
              "monitoring", "answering"}
  /\ globbed \subseteq Ids
  /\ existing \in BOOLEAN /\ stop \in BOOLEAN
  /\ left \subseteq Numbers /\ failed \subseteq Numbers /\ marks \subseteq Marks

(* These are all the parts of the type invariant. *)
LEMMA TypeParts == TypeOK <=> SymbolTypes /\ CtlTypes /\ CmdTypes /\ FileTypes
BY DEF TypeOK, CmdTypes, FileTypes, CtlTypes

(* The controller's variables, the marks included. *)
LEMMA CtlTypesKept ==
  ASSUME TypeOK, InOrder, [Next]_vars
  PROVE  CtlTypes'
<1> USE SessionsAssumption DEF CtlTypes, Numbers
<1>0. CtlTypes
  BY TypeParts
<1>1. CASE Begin
  BY <1>0, <1>1 DEF Begin, monVars, Marks
<1>2. CASE RemoveLog
  BY <1>0, <1>2 DEF RemoveLog, monVars, Mark, Marks
<1>3. CASE ListResponses
  BY <1>0, <1>3 DEF ListResponses, monVars, history
<1>4. CASE CleaningFails
  BY <1>0, <1>4 DEF CleaningFails, GiveUpCleaning, monVars, history
<1>5. CASE Cleaned
  BY <1>0, <1>5 DEF Cleaned, monVars, Mark, Marks
<1>6. ASSUME NEW i \in Ids, Unlink(i) PROVE CtlTypes'
  BY <1>0, <1>6 DEF Unlink, GiveUpCleaning, monVars, history
<1>7. CASE ResolveAddresses
  BY <1>0, <1>7 DEF ResolveAddresses, ctlVars, monVars, history
<1>8. CASE Launch
  BY <1>0, <1>8 DEF Launch, monVars, Mark, Marks
<1>9. CASE LaunchFails
  BY <1>0, <1>9 DEF LaunchFails, monVars, history
<1>10. CASE Inject
  BY <1>0, <1>10 DEF Inject, monVars, history
<1>11. CASE InjectionFails
  BY <1>0, <1>11 DEF InjectionFails, monVars, history
<1>12. CASE StartMonitoring
  BY <1>0, <1>12 DEF StartMonitoring, history
<1>13. CASE Poll
  BY <1>0, <1>13 DEF Poll, ctlVars, history
<1>14. CASE HandleBreak
  BY <1>0, <1>14 DEF HandleBreak, monVars, history
<1>15. CASE Answer
  BY <1>0, <1>15 DEF Answer, history
<1>16. CASE HandleRemoval
  BY <1>0, <1>16 DEF HandleRemoval, NoMonitor, Mark, Marks
<1>17. CASE Stopped
  BY <1>0, <1>17 DEF Stopped, NoMonitor, history
<1>18. CASE Interrupt
  BY <1>0, <1>18 DEF Interrupt, NoMonitor, InOrder
<1>19. CASE UpdateWindows
  BY <1>0, <1>19 DEF UpdateWindows, ctlVars, monVars, history
<1>20. CASE Clobber
  BY <1>0, <1>20 DEF Clobber, ctlVars, history
<1>21. ASSUME NEW s \in Numbers, Load(s) \/ Attached(s) \/ Break(s) \/ TimeOut(s) \/ Exit(s)
       PROVE  CtlTypes'
  BY <1>0, <1>21 DEF Load, Attached, Break, TimeOut, Exit, ctlVars, monVars, history
<1>22. ASSUME NEW s \in Numbers, TakeResponse(s) PROVE CtlTypes'
  BY <1>0, <1>22 DEF TakeResponse, ctlVars, monVars, Mark, Marks
<1>23. CASE UNCHANGED vars
  BY <1>0, <1>23 DEF vars, ctlVars, monVars, history
<1>24. CASE MonitorFails
  BY <1>0, <1>24 DEF MonitorFails, NoMonitor, Monitoring, InOrder
<1> QED
  BY Step, <1>1, <1>2, <1>3, <1>4, <1>5, <1>6, <1>7, <1>8, <1>9, <1>10, <1>11, <1>12, <1>13,
     <1>14, <1>15, <1>16, <1>17, <1>18, <1>19, <1>20, <1>21, <1>22, <1>23, <1>24

(* The variables of the cmd.exe processes: only an end, the launch, the   *)
(* injection and the steps of the DLL touch them.                          *)
LEMMA CmdTypesKept ==
  ASSUME TypeOK, [Next]_vars
  PROVE  CmdTypes'
<1> USE SessionsAssumption DEF CmdTypes
<1>0. CmdTypes /\ SymbolTypes /\ session \in 0..MaxSessions
  BY TypeParts DEF CtlTypes
<1>1. ASSUME NEW s, Ends(s) PROVE CmdTypes'
  <2>1. 1 \in 1..MaxBreaks + 1 /\ {} \in SUBSET Names
    OBVIOUS
  <2>2. cmd' \in [Numbers -> {"none", "bare", "injected", "attaching", "hooked", "ended"}]
    BY <1>0, <1>1 DEF Ends
  <2>3. env' \in [Numbers -> SUBSET Names]
    BY <1>0, <1>1, <2>1 DEF Ends
  <2>4. breakId' \in [Numbers -> 1..MaxBreaks + 1]
    BY <1>0, <1>1, <2>1 DEF Ends
  <2> QED
    BY <1>0, <1>1, <2>2, <2>3, <2>4 DEF Ends
<1>2. CASE UNCHANGED cmdVars
  BY <1>0, <1>2 DEF cmdVars
<1>3. CASE Launch
  BY <1>0, <1>3 DEF Launch, SymbolTypes
<1>4. CASE Inject
  BY <1>0, <1>4 DEF Inject
<1>5. ASSUME NEW s \in Numbers, Load(s) PROVE CmdTypes'
  BY <1>0, <1>5 DEF Load
<1>6. ASSUME NEW s \in Numbers, Attached(s) PROVE CmdTypes'
  BY <1>0, <1>6 DEF Attached
<1>7. ASSUME NEW s \in Numbers, Break(s) PROVE CmdTypes'
  BY <1>0, <1>7 DEF Break
<1>8. ASSUME NEW s \in Numbers, TakeResponse(s) PROVE CmdTypes'
  BY <1>0, <1>8 DEF TakeResponse
<1>9. ASSUME NEW s \in Numbers, TimeOut(s) PROVE CmdTypes'
  BY <1>0, <1>9 DEF TimeOut
<1>10. \/ UNCHANGED cmdVars \/ Launch \/ Inject
       \/ \E s \in Numbers : Load(s) \/ Attached(s) \/ Break(s) \/ TakeResponse(s) \/ TimeOut(s)
       \/ \E s : Ends(s)
  BY Step DEF vars, Begin, RemoveLog, ListResponses, CleaningFails, GiveUpCleaning, Cleaned,
     Unlink, ResolveAddresses, LaunchFails, InjectionFails, StartMonitoring, Poll, HandleBreak,
     Answer, HandleRemoval, Stopped, MonitorFails, Interrupt, UpdateWindows, Clobber, Exit
<1> QED
  BY <1>1, <1>2, <1>3, <1>4, <1>5, <1>6, <1>7, <1>8, <1>9, <1>10

(* The log, the responses and the monitor's copy of the log.  The answer   *)
(* needs InOrder: the monitor gives one only while it holds an entry.      *)
LEMMA FileTypesKept ==
  ASSUME TypeOK, InOrder, [Next]_vars
  PROVE  FileTypes'
<1> USE SessionsAssumption DEF FileTypes
<1>0. FileTypes /\ session \in 0..MaxSessions /\ breakId \in [Numbers -> 1..MaxBreaks + 1]
  BY TypeParts DEF CtlTypes, CmdTypes
<1>1. CASE UNCHANGED <<fileVars, monVars>>
  BY <1>0, <1>1 DEF fileVars, monVars
<1>2. CASE UNCHANGED fileVars /\ NoMonitor
  BY <1>0, <1>2 DEF fileVars, NoMonitor
<1>3. CASE RemoveLog
  BY <1>0, <1>3 DEF RemoveLog, monVars
<1>4. ASSUME NEW i \in Ids, Unlink(i) PROVE FileTypes'
  BY <1>0, <1>4 DEF Unlink, GiveUpCleaning, fileVars, monVars
<1>5. CASE StartMonitoring
  <2>1. PICK seen \in {log, <<>>} : batch' = seen /\ count' = Len(seen)
    BY <1>5 DEF StartMonitoring
  <2>2. batch' \in Seq(Entries) /\ count' \in Nat
    <3>1. seen \in Seq(Entries)
      BY <1>0, EmptySeq
    <3>2. Len(seen) \in Nat
      BY <3>1
    <3> QED
      BY <2>1, <3>1, <3>2
  <2> QED
    BY <1>0, <1>5, <2>2 DEF StartMonitoring, fileVars
<1>6. CASE Poll
  BY <1>0, <1>6, SubSeqType DEF Poll, fileVars
<1>7. CASE Answer
  <2>1. /\ batch \in Seq(Entries) /\ batch # <<>> /\ Head(batch) \in Entries
        /\ Tail(batch) \in Seq(Entries)
    BY <1>0, <1>7, HeadTailProperties DEF Answer, InOrder
  <2>2. Head(batch).by \in Numbers
    BY <2>1 DEF Entries
  <2> QED
    BY <1>0, <1>7, <2>1, <2>2 DEF Answer
<1>8. CASE HandleRemoval
  <2>1. batch \in Seq(Entries) /\ batch # <<>> /\ Tail(batch) \in Seq(Entries)
    BY <1>0, <1>8, HeadTailProperties DEF HandleRemoval, Handle
  <2>2. /\ log' = log /\ response' = response /\ clobbered' = clobbered
        /\ \/ batch' = Tail(batch) /\ count' = count
           \/ batch' = <<>> /\ count' = 0
    BY <1>8 DEF HandleRemoval, NoMonitor, fileVars
  <2>3. CASE batch' = Tail(batch) /\ count' = count
    BY <1>0, <2>1, <2>2, <2>3
  <2>4. CASE batch' = <<>> /\ count' = 0
    <3>1. <<>> \in Seq(Entries) /\ 0 \in Nat
      OBVIOUS
    <3> QED
      BY <1>0, <2>2, <2>4, <3>1
  <2> QED
    BY <2>2, <2>3, <2>4
<1>9. CASE Clobber
  <2>1. log' \in Seq(Entries)
    BY <1>0, <1>9, RemoveAtEntries DEF Clobber
  <2>2. count' \in Nat /\ clobbered' \in 0..MaxClobbers
    BY <1>0, <1>9 DEF Clobber
  <2>3. response' = response /\ batch' = batch
    BY <1>9 DEF Clobber
  <2> QED
    BY <1>0, <2>1, <2>2, <2>3
<1>10. ASSUME NEW s \in Numbers, NEW i \in Ids \cup {Removal}, LogEntry(s, i), UNCHANGED monVars
       PROVE  FileTypes'
  <2>1. log' = Append(log, [by |-> s, id |-> i]) /\ log' \in Seq(Entries)
    BY <1>0, <1>10, EntryType, AppendProperties DEF LogEntry
  <2> QED
    BY <1>0, <1>10, <2>1 DEF LogEntry, monVars
<1>11. ASSUME NEW s \in Numbers, Break(s) PROVE FileTypes'
  <2>1. breakId[s] \in Ids
    BY <1>0, <1>11 DEF Break, Ids
  <2> QED
    BY <1>10, <1>11, <2>1 DEF Break
<1>12. ASSUME NEW s \in Numbers, TakeResponse(s) PROVE FileTypes'
  <2>1. Nobody \in Numbers \cup {Nobody}
    OBVIOUS
  <2>2. response' \in [Ids -> Numbers \cup {Nobody}]
    BY <1>0, <1>12, <2>1 DEF TakeResponse
  <2> QED
    BY <1>0, <1>12, <2>2 DEF TakeResponse, monVars
<1>13. ASSUME NEW s \in Numbers, Exit(s) PROVE FileTypes'
  BY <1>1, <1>10, <1>13 DEF Exit
<1>14. CASE UNCHANGED <<fileVars, count>> /\ batch' = <<>>
  BY <1>0, <1>14 DEF fileVars
<1>15. \/ UNCHANGED <<fileVars, monVars>> \/ (UNCHANGED fileVars /\ NoMonitor)
       \/ (UNCHANGED <<fileVars, count>> /\ batch' = <<>>)
       \/ RemoveLog \/ (\E i \in Ids : Unlink(i)) \/ StartMonitoring \/ Poll \/ Answer
       \/ HandleRemoval \/ Clobber
       \/ \E s \in Numbers : Break(s) \/ TakeResponse(s) \/ Exit(s)
  BY Step DEF vars, Begin, ListResponses, CleaningFails, GiveUpCleaning, Cleaned,
     ResolveAddresses, Launch, LaunchFails, Inject, InjectionFails, HandleBreak, Stopped,
     MonitorFails, Interrupt, UpdateWindows, Load, Attached, TimeOut
<1> QED
  BY <1>1, <1>2, <1>3, <1>4, <1>5, <1>6, <1>7, <1>8, <1>9, <1>11, <1>12, <1>13, <1>14, <1>15

-------------------------------------------------------------------------------
(* The order of a session: its cmd.exe starts after the cleanup, only a    *)
(* hooked one waits, and the monitor holds entries only while it runs.     *)
LEMMA InOrderKept ==
  ASSUME TypeOK, InOrder, [Next]_vars
  PROVE  InOrder'
<1> USE SessionsAssumption DEF InOrder, Numbers, Cleaning, Monitoring, Hooked, Live
<1>0. CtlTypes /\ CmdTypes
  BY TypeParts
<1> USE DEF CtlTypes, CmdTypes
<1>1. CASE Begin
  <2>1. /\ ctl = "over" /\ ctl' = "cleaning" /\ session' = session + 1
        /\ session' \in 1..MaxSessions
        /\ "sound" \notin marks'
        /\ UNCHANGED <<cmd, breakId, waiting, batch, stop>>
    BY <1>0, <1>1 DEF Begin, cmdVars, monVars
  <2>2. batch = <<>> /\ ~stop
    BY <2>1
  <2>3. \A s \in 1..MaxSessions : s >= session' => cmd'[s] = "none"
    BY <1>0, <2>1
  <2> QED
    BY <1>0, <2>1, <2>2, <2>3
<1>2. CASE RemoveLog
  BY <1>0, <1>2 DEF RemoveLog, Mark, cmdVars, monVars
<1>3. CASE ListResponses
  BY <1>0, <1>3 DEF ListResponses, cmdVars, monVars, history
<1>4. ASSUME GiveUpCleaning, Cleaning PROVE InOrder'
  BY <1>0, <1>4 DEF GiveUpCleaning, cmdVars, monVars, history
<1>5. CASE Cleaned
  BY <1>0, <1>5 DEF Cleaned, Mark, cmdVars, monVars
<1>6. ASSUME NEW i \in Ids, Unlink(i) PROVE InOrder'
  BY <1>0, <1>4, <1>6 DEF Unlink, cmdVars, monVars, history
<1>7. CASE ResolveAddresses
  BY <1>0, <1>7 DEF ResolveAddresses, ctlVars, cmdVars, monVars, history
<1>8. CASE Launch
  BY <1>0, <1>8 DEF Launch, monVars
<1>9. CASE LaunchFails
  BY <1>0, <1>9 DEF LaunchFails, cmdVars, monVars, history
<1>10. CASE Inject
  BY <1>0, <1>10 DEF Inject, monVars, history
<1>11. CASE InjectionFails
  BY <1>0, <1>11 DEF InjectionFails, Ends, monVars, history
<1>12. CASE StartMonitoring
  BY <1>0, <1>12 DEF StartMonitoring, cmdVars, history
<1>13. CASE Poll
  BY <1>0, <1>13 DEF Poll, ctlVars, cmdVars, history
<1>14. CASE HandleBreak
  BY <1>0, <1>14 DEF HandleBreak, Handle, Entries, cmdVars, monVars, history
<1>15. CASE Answer
  BY <1>0, <1>15 DEF Answer, cmdVars, history
<1>16. CASE HandleRemoval
  BY <1>0, <1>16 DEF HandleRemoval, Handle, Ends, NoMonitor
<1>17. CASE Stopped
  BY <1>0, <1>17 DEF Stopped, NoMonitor, cmdVars, history
<1>18. CASE Interrupt
  BY <1>0, <1>18 DEF Interrupt, NoMonitor, cmdVars
<1>19. CASE UpdateWindows
  BY <1>0, <1>19 DEF UpdateWindows, ctlVars, cmdVars, monVars, history
<1>20. CASE Clobber
  BY <1>0, <1>20 DEF Clobber, ctlVars, cmdVars, history
<1>21. ASSUME NEW s \in Numbers, Load(s) PROVE InOrder'
  BY <1>0, <1>21 DEF Load, ctlVars, monVars, history
<1>22. ASSUME NEW s \in Numbers, Attached(s) PROVE InOrder'
  BY <1>0, <1>22 DEF Attached, ctlVars, monVars, history
<1>23. ASSUME NEW s \in Numbers, Break(s) PROVE InOrder'
  BY <1>0, <1>23 DEF Break, ctlVars, monVars, history
<1>24. ASSUME NEW s \in Numbers, TakeResponse(s) PROVE InOrder'
  <2>1. ~(s > session) /\ session \in Numbers
    <3>1. s \in waiting
      BY <1>24 DEF TakeResponse
    <3> QED
      BY <1>0, <3>1
  <2>2. /\ UNCHANGED <<session, ctl, cmd, breakId, batch, stop>>
        /\ waiting' \subseteq waiting
        /\ "sound" \in marks' => "sound" \in marks
    BY <1>24 DEF TakeResponse, Mark, ctlVars, monVars
  <2> QED
    BY <1>0, <2>1, <2>2
<1>25. ASSUME NEW s \in Numbers, TimeOut(s) PROVE InOrder'
  BY <1>0, <1>25 DEF TimeOut, ctlVars, monVars, history
<1>26. ASSUME NEW s \in Numbers, Exit(s) PROVE InOrder'
  BY <1>0, <1>26 DEF Exit, Ends, ctlVars, monVars, history
<1>27. CASE UNCHANGED vars
  BY <1>27 DEF vars, ctlVars, cmdVars, monVars, history
<1>28. CASE CleaningFails
  BY <1>4, <1>28 DEF CleaningFails
<1>29. CASE MonitorFails
  BY <1>0, <1>29 DEF MonitorFails, NoMonitor, cmdVars
<1> HIDE DEF InOrder, Hooked, Live, Cleaning, Monitoring, CtlTypes, CmdTypes, Numbers
<1>30. ASSUME NEW s \in Numbers,
              Load(s) \/ Attached(s) \/ Break(s) \/ TakeResponse(s) \/ TimeOut(s) \/ Exit(s)
       PROVE  InOrder'
  BY <1>21, <1>22, <1>23, <1>24, <1>25, <1>26, <1>30
<1> QED
  BY Step, <1>1, <1>2, <1>3, <1>5, <1>6, <1>7, <1>8, <1>9, <1>10, <1>11, <1>12, <1>13, <1>14,
     <1>15, <1>16, <1>17, <1>18, <1>19, <1>20, <1>27, <1>28, <1>29, <1>30

(* The state is well formed and a session goes in order, whatever happens. *)
THEOREM TypeAndOrder == Spec => [](TypeOK /\ InOrder)
<1>1. Init => TypeOK /\ InOrder
  <2> SUFFICES ASSUME Init PROVE TypeOK /\ InOrder
    OBVIOUS
  <2>1. SymbolTypes
    BY SessionsAssumption DEF Init, SymbolInit, SymbolTypes, CacheStates
  <2>2. CtlTypes
    <3>1. existing \in BOOLEAN /\ stop \in BOOLEAN
      BY DEF Init
    <3>2. session \in 0..MaxSessions
      BY SessionsAssumption DEF Init
    <3> QED
      BY <3>1, <3>2 DEF Init, CtlTypes
  <2>3. CmdTypes
    BY SessionsAssumption DEF Init, CmdTypes
  <2>4. FileTypes
    BY SessionsAssumption, EmptySeq DEF Init, FileTypes
  <2>5. InOrder
    BY DEF Init, InOrder, Cleaning, Monitoring, Live
  <2> QED
    BY TypeParts, <2>1, <2>2, <2>3, <2>4, <2>5
<1>2. TypeOK /\ InOrder /\ [Next]_vars => (TypeOK /\ InOrder)'
  <2> SUFFICES ASSUME TypeOK, InOrder, [Next]_vars PROVE TypeOK' /\ InOrder'
    OBVIOUS
  <2>1. SymbolTypes'
    BY TypeParts, SymbolTypesKept, EveryStepIsASymbolStep
  <2>2. SymbolTypes' /\ CtlTypes' /\ CmdTypes' /\ FileTypes' => TypeOK'
    BY DEF TypeOK, CmdTypes, FileTypes, CtlTypes
  <2> QED
    BY <2>1, <2>2, CtlTypesKept, CmdTypesKept, FileTypesKept, InOrderKept
<1> QED
  BY <1>1, <1>2, PTL DEF Spec

(* The state is well formed at every step. *)
THEOREM TypeCorrect == Spec => []TypeOK
<1>1. TypeOK /\ InOrder => TypeOK
  OBVIOUS
<1> QED
  BY <1>1, TypeAndOrder, PTL

-------------------------------------------------------------------------------
(* Only Ctrl+C and an exception in the monitor leave a cmd.exe behind: an  *)
(* injection that fails and a hook that is removed end it, and before the  *)
(* launch there is none.                                                   *)
LEMMA NoneAbandonedKept ==
  ASSUME TypeOK, InOrder, NoneAbandoned, [Next]_vars
  PROVE  NoneAbandoned'
<1> USE SessionsAssumption DEF NoneAbandoned, Live
<1>0. CtlTypes /\ CmdTypes
  BY TypeParts
<1> USE DEF CtlTypes, CmdTypes
<1>1. ASSUME UNCHANGED <<session, cmd, left, failed>>, ctl # "over", ctl' # "over"
      PROVE  NoneAbandoned'
  BY <1>1
<1>2. CASE Begin
  BY <1>0, <1>2 DEF Begin, cmdVars
<1>3. CASE Launch
  BY <1>0, <1>3 DEF Launch
<1>4. CASE LaunchFails
  BY <1>0, <1>4 DEF LaunchFails, cmdVars, history, InOrder
<1>5. CASE Inject
  BY <1>0, <1>5 DEF Inject, history
<1>6. CASE InjectionFails
  BY <1>0, <1>6 DEF InjectionFails, Ends, history
<1>7. CASE HandleRemoval
  BY <1>0, <1>7 DEF HandleRemoval, Handle, Ends
<1>8. CASE Stopped
  BY <1>0, <1>8 DEF Stopped, cmdVars, history, InOrder
<1>9. CASE Interrupt
  BY <1>0, <1>9 DEF Interrupt, cmdVars
<1>10. ASSUME NEW s \in Numbers, Load(s) \/ Attached(s) \/ Exit(s) PROVE NoneAbandoned'
  BY <1>0, <1>10 DEF Load, Attached, Exit, Ends, ctlVars, history
<1>11. ASSUME UNCHANGED <<session, ctl, cmd, left, failed>> PROVE NoneAbandoned'
  BY <1>11
<1>12. ASSUME NEW i \in Ids, Unlink(i) PROVE NoneAbandoned'
  BY <1>0, <1>12 DEF Unlink, GiveUpCleaning, cmdVars, history
<1>13. CASE RemoveLog \/ ListResponses \/ CleaningFails \/ Cleaned \/ StartMonitoring
            \/ HandleBreak \/ Answer
  BY <1>1, <1>13 DEF RemoveLog, ListResponses, CleaningFails, GiveUpCleaning, Cleaned,
     StartMonitoring, HandleBreak, Handle, Answer, Mark, cmdVars, history
<1>14. CASE ResolveAddresses \/ Poll \/ UpdateWindows \/ Clobber \/ UNCHANGED vars
  BY <1>11, <1>14 DEF ResolveAddresses, Poll, UpdateWindows, Clobber, vars, ctlVars, cmdVars,
     history
<1>15. ASSUME NEW s \in Numbers, Break(s) \/ TakeResponse(s) \/ TimeOut(s) PROVE NoneAbandoned'
  BY <1>11, <1>15 DEF Break, TakeResponse, TimeOut, ctlVars, history
<1>16. CASE MonitorFails
  BY <1>0, <1>16 DEF MonitorFails, Monitoring, cmdVars
<1> HIDE DEF NoneAbandoned, CtlTypes, CmdTypes, Live
<1> QED
  BY Step, <1>2, <1>3, <1>4, <1>5, <1>6, <1>7, <1>8, <1>9, <1>10, <1>12, <1>13, <1>14, <1>15,
     <1>16

(* A cmd.exe without a controller is one that Ctrl+C or an exception in    *)
(* the monitor has left behind.                                            *)
THEOREM NoneIsAbandoned == Spec => []NoneAbandoned
<1>1. Init => NoneAbandoned
  BY DEF Init, NoneAbandoned, Live
<1>2. TypeOK /\ InOrder /\ NoneAbandoned /\ [Next]_vars => NoneAbandoned'
  BY NoneAbandonedKept
<1> QED
  BY <1>1, <1>2, TypeAndOrder, PTL DEF Spec

-------------------------------------------------------------------------------
(* How the resolution stands, wherever the controller is with it.          *)
LEMMA ResolutionTracedKept ==
  ASSUME SymbolTypes, ResolutionTraced, SymbolStep
  PROVE  ResolutionTraced'
<1> USE DEF ResolutionTraced, SymbolTypes, CacheStates
<1>1. CASE UNCHANGED symbolVars
  BY <1>1 DEF symbolVars
<1>2. CASE Resolve
  BY <1>2 DEF Resolve
<1>3. CASE ParseHeaders
  BY <1>3 DEF ParseHeaders, Cached
<1>4. CASE NoHeaders
  BY <1>4 DEF NoHeaders
<1>5. CASE Download
  BY <1>5 DEF Download
<1>6. CASE Unreachable
  BY <1>6 DEF Unreachable
<1>7. CASE CutShort
  BY <1>7 DEF CutShort, LeavePartial
<1>8. CASE LookUp
  BY <1>8 DEF LookUp, Found
<1>9. CASE Forget
  BY <1>9 DEF Forget
<1>10. CASE Abandon
  BY <1>10 DEF Abandon, LeavePartial
<1>11. ASSUME NEW b \in Builds, Update(b) PROVE ResolutionTraced'
  BY <1>11 DEF Update
<1> HIDE DEF ResolutionTraced, SymbolTypes
<1> QED
  BY <1>1, <1>2, <1>3, <1>4, <1>5, <1>6, <1>7, <1>8, <1>9, <1>10, <1>11
     DEF SymbolStep, ResolveStep

(* A launch takes the addresses over; no other step changes them while the *)
(* cmd.exe lives.                                                          *)
LEMMA HooksPlacedKept ==
  ASSUME TypeOK, InOrder, ResolutionTraced, HooksPlaced, [Next]_vars
  PROVE  HooksPlaced'
<1> USE DEF HooksPlaced, Live
<1>0. CtlTypes /\ CmdTypes
  BY TypeParts
<1> USE DEF CtlTypes, CmdTypes
<1>1. ASSUME UNCHANGED <<session, cmd, env>>, "sound" \in marks' => "sound" \in marks
      PROVE  HooksPlaced'
  BY <1>1
<1>2. CASE Begin
  BY <1>2 DEF Begin
<1>3. CASE Launch
  <2>1. "sound" \in marks' => "sound" \in marks \/ resolved = Names
    BY <1>3 DEF Launch, Mark, Forget, ResolutionTraced
  <2>2. /\ session \in Numbers /\ cmd[session] = "none"
        /\ session' = session /\ env' = [env EXCEPT ![session] = resolved]
    BY <1>0, <1>3 DEF Launch, InOrder
  <2>3. "sound" \notin marks
    BY <1>3 DEF Launch, InOrder
  <2> QED
    BY <1>0, <2>1, <2>2, <2>3
<1>4. CASE Inject
  BY <1>0, <1>4 DEF Inject, history
<1>5. ASSUME NEW s \in Numbers, Ends(s), session' = session,
             "sound" \in marks' => "sound" \in marks
      PROVE  HooksPlaced'
  BY <1>0, <1>5 DEF Ends
<1>6. ASSUME NEW s \in Numbers, Load(s) \/ Attached(s) PROVE HooksPlaced'
  <2>1. /\ UNCHANGED <<session, env, marks>>
        /\ cmd[s] \in {"injected", "attaching"}
        /\ \E next : cmd' = [cmd EXCEPT ![s] = next]
    BY <1>6 DEF Load, Attached, ctlVars, history
  <2> QED
    BY <1>0, <2>1
<1>7. CASE InjectionFails \/ HandleRemoval
  BY <1>0, <1>5, <1>7 DEF InjectionFails, HandleRemoval, Handle, Mark, history, InOrder
<1>8. ASSUME NEW s \in Numbers, Exit(s) PROVE HooksPlaced'
  BY <1>5, <1>8 DEF Exit, ctlVars, history
<1>9. ASSUME NEW i \in Ids, Unlink(i) PROVE HooksPlaced'
  BY <1>1, <1>9 DEF Unlink, GiveUpCleaning, cmdVars, history
<1>10. CASE RemoveLog \/ ListResponses \/ CleaningFails \/ Cleaned \/ ResolveAddresses
            \/ LaunchFails \/ StartMonitoring \/ Poll \/ HandleBreak \/ Answer \/ Stopped
            \/ MonitorFails \/ Interrupt \/ UpdateWindows \/ Clobber \/ UNCHANGED vars
  BY <1>1, <1>10 DEF RemoveLog, ListResponses, CleaningFails, GiveUpCleaning, Cleaned,
     ResolveAddresses, LaunchFails, StartMonitoring, Poll, HandleBreak, Answer, Stopped,
     MonitorFails, Interrupt, UpdateWindows, Clobber, Mark, vars, ctlVars, cmdVars, history
<1>11. ASSUME NEW s \in Numbers, Break(s) \/ TakeResponse(s) \/ TimeOut(s) PROVE HooksPlaced'
  BY <1>1, <1>11 DEF Break, TakeResponse, TimeOut, Mark, ctlVars, history
<1> HIDE DEF HooksPlaced, CtlTypes, CmdTypes, Live
<1> QED
  BY Step, <1>2, <1>3, <1>4, <1>6, <1>7, <1>8, <1>9, <1>10, <1>11

(* A resolution in which nothing fails finds every address, whatever was   *)
(* left in the cache by those that failed before, a PDB that was cut short *)
(* excepted; and the cmd.exe of the session has them until it ends.        *)
THEOREM HooksArePlaced == Spec => []HooksPlaced
<1>1. Init => ResolutionTraced /\ HooksPlaced
  BY DEF Init, SymbolInit, ResolutionTraced, HooksPlaced
<1>2. TypeOK /\ InOrder /\ ResolutionTraced /\ HooksPlaced /\ [Next]_vars
        => ResolutionTraced' /\ HooksPlaced'
  BY TypeParts, ResolutionTracedKept, EveryStepIsASymbolStep, HooksPlacedKept
<1> QED
  BY <1>1, <1>2, TypeAndOrder, PTL DEF Spec

-------------------------------------------------------------------------------
(* A session that began alone stays so: only its own cmd.exe has a DLL,    *)
(* and while it cleans up there is not even that, so that nobody adds to   *)
(* what it removes.                                                        *)
LEMMA LeftAloneKept ==
  ASSUME TypeOK, InOrder, LeftAlone, [Next]_vars
  PROVE  LeftAlone'
<1> USE DEF LeftAlone, Cleaning, Touches
<1>0. CtlTypes /\ CmdTypes /\ FileTypes
  BY TypeParts
<1> USE DEF CtlTypes, CmdTypes
<1>1. ASSUME UNCHANGED <<session, cmd, marks>>, ~Cleaning' PROVE LeftAlone'
  BY <1>1
<1>2. CASE Begin
  BY <1>0, <1>2 DEF Begin, cmdVars
<1>3. CASE RemoveLog
  BY <1>0, <1>3 DEF RemoveLog, Mark, cmdVars
<1>4. CASE ListResponses
  BY <1>0, <1>4 DEF ListResponses, cmdVars, fileVars, history, FileTypes
<1>5. CASE CleaningFails
  BY <1>1, <1>5 DEF CleaningFails, GiveUpCleaning, cmdVars, history
<1>6. CASE Cleaned
  BY <1>0, <1>6 DEF Cleaned, Mark, cmdVars
<1>7. ASSUME NEW i \in Ids, Unlink(i) PROVE LeftAlone'
  <2>1. CASE response[i] = Nobody
    BY <1>1, <1>7, <2>1 DEF Unlink, GiveUpCleaning, cmdVars, history
  <2>2. CASE response[i] # Nobody
    BY <1>0, <1>7, <2>2 DEF Unlink, cmdVars, history, FileTypes
  <2> QED
    BY <2>1, <2>2
<1>8. CASE Launch
  BY <1>0, <1>8 DEF Launch, Mark
<1>9. CASE Inject
  BY <1>0, <1>9 DEF Inject, history
<1>10. ASSUME NEW s \in Numbers, Ends(s), UNCHANGED session, ~Cleaning',
              marks' \ {"misled"} = marks \ {"misled"}
       PROVE  LeftAlone'
  BY <1>0, <1>10 DEF Ends
<1>11. CASE InjectionFails \/ HandleRemoval
  BY <1>0, <1>10, <1>11 DEF InjectionFails, HandleRemoval, Handle, Mark, history, InOrder
<1>12. ASSUME NEW s \in Numbers, Live(s), Cleaning, "alone" \in marks PROVE ~Touches(s)
  BY <1>12 DEF InOrder
<1>13. ASSUME NEW s \in Numbers, Load(s) \/ Attached(s) PROVE LeftAlone'
  <2>1. /\ Touches(s) /\ \E next : cmd' = [cmd EXCEPT ![s] = next]
        /\ UNCHANGED <<session, ctl, globbed, log, response, marks>>
    BY <1>13 DEF Load, Attached, ctlVars, fileVars, history
  <2> QED
    BY <1>0, <2>1
<1>14. ASSUME NEW s \in Numbers, Break(s) \/ TakeResponse(s) PROVE LeftAlone'
  <2>1. /\ Touches(s) /\ Live(s)
        /\ UNCHANGED <<session, ctl, globbed, cmd>>
        /\ marks' \ {"crossed"} = marks \ {"crossed"}
    BY <1>14 DEF Break, TakeResponse, LogEntry, Hooked, Live, InOrder, ctlVars, history, Mark
  <2>2. "alone" \in marks => ~Cleaning
    BY <1>12, <2>1
  <2> QED
    BY <2>1, <2>2
<1>15. ASSUME NEW s \in Numbers, Exit(s) PROVE LeftAlone'
  <2>1. CASE Hooked(s)
    <3>1. "alone" \in marks => ~Cleaning
      BY <1>12, <2>1 DEF Hooked, Live
    <3>2. Ends(s) /\ UNCHANGED <<session, ctl, marks>>
      BY <1>15 DEF Exit, ctlVars, history
    <3> QED
      BY <1>10, <3>1, <3>2
  <2>2. CASE ~Hooked(s)
    BY <1>0, <1>15, <2>2 DEF Exit, Ends, ctlVars, fileVars, history
  <2> QED
    BY <2>1, <2>2
<1>16. ASSUME NEW s \in Numbers, TimeOut(s) PROVE LeftAlone'
  BY <1>16 DEF TimeOut, ctlVars, fileVars, history
<1>17. CASE Clobber
  <2>1. CASE log = <<>>
    BY <1>17, <2>1 DEF Clobber, ctlVars, cmdVars, history
  <2>2. CASE log # <<>>
    BY <1>17, <2>2 DEF Clobber, ctlVars, cmdVars, history
  <2> QED
    BY <2>1, <2>2
<1>18. CASE LaunchFails \/ StartMonitoring \/ HandleBreak \/ Answer \/ Stopped
            \/ MonitorFails \/ Interrupt
  BY <1>1, <1>18 DEF LaunchFails, StartMonitoring, HandleBreak, Handle, Answer, Stopped,
     MonitorFails, Interrupt, cmdVars, history
<1>19. CASE ResolveAddresses \/ Poll \/ UpdateWindows \/ UNCHANGED vars
  BY <1>19 DEF ResolveAddresses, Poll, UpdateWindows, vars, ctlVars, cmdVars, fileVars, history
<1> HIDE DEF LeftAlone, CtlTypes, CmdTypes, Cleaning, Touches
<1> QED
  BY Step, <1>2, <1>3, <1>4, <1>5, <1>6, <1>7, <1>8, <1>9, <1>11, <1>13, <1>14, <1>15, <1>16,
     <1>17, <1>18, <1>19

(* What is its own stays so when an entry is added by itself, and when     *)
(* entries are taken out.                                                  *)
LEMMA OwnAppend ==
  ASSUME NEW e \in Seq(Entries), Own(e), NEW i \in Ids \cup {Removal}, session \in Numbers
  PROVE  Own(Append(e, [by |-> session, id |-> i]))
<1> DEFINE x == [by |-> session, id |-> i]
<1>1. x \in Entries /\ x.by = session
  BY EntryType
<1>2. /\ Len(Append(e, x)) = Len(e) + 1
      /\ Append(e, x)[Len(e) + 1] = x
      /\ \A n \in 1..Len(e) : Append(e, x)[n] = e[n]
      /\ Append(e, x) \in Seq(Entries)
  BY <1>1, AppendProperties
<1> HIDE DEF x
<1>3. ASSUME NEW n \in DOMAIN Append(e, x) PROVE Append(e, x)[n].by = session
  <2>1. n \in 1..Len(e) \/ n = Len(e) + 1
    BY <1>2
  <2> QED
    BY <1>1, <1>2, <2>1 DEF Own
<1> QED
  BY <1>3 DEF Own, x

(* Handling an entry. *)
LEMMA OwnTail ==
  ASSUME NEW e \in Seq(Entries), e # <<>>, Own(e)
  PROVE  Own(Tail(e)) /\ Head(e).by = session
BY HeadTailProperties DEF Own

(* Reading what is new in the log. *)
LEMMA OwnSubSeq ==
  ASSUME NEW e \in Seq(Entries), NEW m \in Nat, Own(e)
  PROVE  Own(SubSeq(e, m + 1, Len(e)))
BY SubSeqEntries DEF Own

(* Losing an entry to another writer. *)
LEMMA OwnRemoveAt ==
  ASSUME NEW e \in Seq(Entries), NEW k \in DOMAIN e, Own(e)
  PROVE  Own(RemoveAt(e, k))
BY RemoveAtEntries DEF Own

(* Only a session that begins changes the number of the session. *)
LEMMA SameSession ==
  ASSUME [Next]_vars, ~Begin
  PROVE  session' = session
BY Step DEF vars, RemoveLog, ListResponses, CleaningFails, GiveUpCleaning, Cleaned, Unlink,
     ResolveAddresses, Launch, LaunchFails, Inject, InjectionFails, StartMonitoring, Poll,
     HandleBreak, Answer, HandleRemoval, Stopped, MonitorFails, Interrupt, UpdateWindows,
     Clobber, Load, Attached, Break, TakeResponse, TimeOut, Exit, ctlVars

(* What the log and the monitor hold when nobody else adds to the log. *)
OwnEntries == Own(log) /\ Own(batch)
LEMMA OwnEntriesKept ==
  ASSUME TypeOK, InOrder, LeftAlone, Emptied, OwnEntries, [Next]_vars, ~Begin
  PROVE  OwnEntries'
<1>0. /\ CtlTypes /\ CmdTypes /\ FileTypes /\ Own(log) /\ Own(batch)
      /\ \A s \in Numbers : Touches(s) => s = session
  BY TypeParts DEF OwnEntries, LeftAlone, Emptied
<1>1. session' = session
  BY SameSession
<1>2. Own(<<>>)
  BY DEF Own
<1>3. Own(log')
  <2>1. ASSUME log' = log PROVE Own(log')
    BY <1>0, <2>1
  <2>2. ASSUME log' = <<>> PROVE Own(log')
    BY <1>2, <2>2
  <2>3. ASSUME NEW n \in DOMAIN log, log' = RemoveAt(log, n) PROVE Own(log')
    BY <1>0, <2>3, OwnRemoveAt DEF FileTypes
  <2>4. ASSUME NEW s \in Numbers, NEW i \in Ids \cup {Removal}, Hooked(s), LogEntry(s, i)
        PROVE  Own(log')
    <3>1. s = session
      BY <1>0, <2>4 DEF Hooked, Touches
    <3> QED
      BY <1>0, <2>4, <3>1, OwnAppend DEF LogEntry, FileTypes
  <2>5. ASSUME NEW s \in Numbers, Break(s) PROVE Own(log')
    <3>1. breakId[s] \in Ids
      BY <1>0, <2>5, SessionsAssumption DEF Break, Ids, CmdTypes
    <3> QED
      BY <2>4, <2>5, <3>1 DEF Break
  <2>6. ASSUME NEW s \in Numbers, Exit(s) PROVE Own(log')
    BY <2>1, <2>4, <2>6 DEF Exit, fileVars
  <2>7. \/ log' = log \/ log' = <<>> \/ \E n \in DOMAIN log : log' = RemoveAt(log, n)
        \/ \E s \in Numbers : Break(s) \/ Exit(s)
    BY Step DEF vars, RemoveLog, ListResponses, CleaningFails, GiveUpCleaning, Cleaned, Unlink,
       ResolveAddresses, Launch, LaunchFails, Inject, InjectionFails, StartMonitoring, Poll,
       HandleBreak, Answer, HandleRemoval, Stopped, MonitorFails, Interrupt, UpdateWindows,
       Clobber, Load, Attached, TakeResponse, TimeOut, fileVars
  <2> QED
    BY <2>1, <2>2, <2>3, <2>5, <2>6, <2>7
<1>4. Own(batch')
  <2>1. ASSUME batch' = batch \/ batch' = <<>> \/ batch' = log PROVE Own(batch')
    BY <1>0, <1>2, <2>1
  <2>2. CASE Poll
    BY <1>0, <2>2, OwnSubSeq DEF Poll, FileTypes
  <2>3. ASSUME batch # <<>>, batch' = Tail(batch) PROVE Own(batch')
    BY <1>0, <2>3, OwnTail DEF FileTypes
  <2>4. \/ batch' = batch \/ batch' = <<>> \/ batch' = log \/ Poll
        \/ (batch # <<>> /\ batch' = Tail(batch))
    BY Step DEF vars, RemoveLog, ListResponses, CleaningFails, GiveUpCleaning, Cleaned, Unlink,
       ResolveAddresses, Launch, LaunchFails, Inject, InjectionFails, StartMonitoring,
       HandleBreak, Answer, HandleRemoval, Handle, Stopped, MonitorFails, Interrupt,
       UpdateWindows, Clobber, Load, Attached, Break, TakeResponse, TimeOut, Exit, monVars,
       NoMonitor, InOrder
  <2> QED
    BY <2>1, <2>2, <2>3, <2>4
<1> QED
  BY <1>1, <1>3, <1>4 DEF OwnEntries, Own

(* The responses, when all that the monitor has to answer is its own. *)
OwnResponses == \A i \in Ids : response[i] \in {Nobody, session}
LEMMA OwnResponsesKept ==
  ASSUME TypeOK, InOrder, Own(batch), OwnResponses, [Next]_vars, ~Begin
  PROVE  OwnResponses'
<1>0. FileTypes
  BY TypeParts
<1>1. session' = session
  BY SameSession
<1>2. \A i \in Ids : response'[i] \in {Nobody, session}
  <2>1. ASSUME response' = response PROVE \A i \in Ids : response'[i] \in {Nobody, session}
    BY <1>0, <2>1 DEF OwnResponses
  <2>2. ASSUME NEW i, NEW who \in {Nobody, session},
               response' = [response EXCEPT ![i] = who]
        PROVE  \A j \in Ids : response'[j] \in {Nobody, session}
    BY <1>0, <2>2 DEF OwnResponses, FileTypes
  <2>3. CASE Answer
    <3>1. Head(batch).by = session
      BY <1>0, <2>3, OwnTail DEF Answer, InOrder, FileTypes
    <3> QED
      BY <2>2, <2>3, <3>1 DEF Answer
  <2>4. \/ response' = response \/ Answer
        \/ \E i : response' = [response EXCEPT ![i] = Nobody]
    BY Step DEF vars, RemoveLog, ListResponses, CleaningFails, GiveUpCleaning, Cleaned, Unlink,
       ResolveAddresses, Launch, LaunchFails, Inject, InjectionFails, StartMonitoring, Poll,
       HandleBreak, HandleRemoval, Stopped, MonitorFails, Interrupt, UpdateWindows, Clobber,
       Load, Attached, Break, TakeResponse, TimeOut, Exit, LogEntry, fileVars
  <2> QED
    BY <2>1, <2>2, <2>3, <2>4
<1> QED
  BY <1>1, <1>2 DEF OwnResponses

(* A session marks itself alone when it begins, its log as removed when it *)
(* has removed it, and itself as clean when it has cleaned up.             *)
LEMMA MarksKept ==
  ASSUME TypeOK, [Next]_vars, ~Begin
  PROVE  /\ ~RemoveLog => (Emptied' => Emptied)
         /\ ~Cleaned => (Fresh' => Fresh)
BY Step DEF Emptied, Fresh, vars, history, Mark, RemoveLog, ListResponses, CleaningFails,
   GiveUpCleaning, Cleaned, Unlink, ResolveAddresses, Launch, LaunchFails, Inject,
   InjectionFails, StartMonitoring, Poll, HandleBreak, Answer, HandleRemoval, Stopped,
   MonitorFails, Interrupt, UpdateWindows, Clobber, Load, Attached, Break, TakeResponse,
   TimeOut, Exit

(* A cleanup is only complete if the log was removed. *)
LEMMA FreshIsEmptied ==
  ASSUME LeftAlone, Fresh
  PROVE  Emptied
BY DEF LeftAlone, Fresh, Emptied

(* When the log is removed there is nothing in it, and the monitor does    *)
(* not run yet; when the cleanup is complete there is no response either.  *)
LEMMA FilesAreOwnKept ==
  ASSUME TypeOK, InOrder, LeftAlone, FilesAreOwn, [Next]_vars
  PROVE  FilesAreOwn'
<1>1. FilesAreOwn <=> (Emptied => OwnEntries) /\ (Fresh => OwnResponses)
  BY DEF FilesAreOwn, OwnEntries, OwnResponses
<1>2. (Emptied' => OwnEntries') /\ (Fresh' => OwnResponses') => FilesAreOwn'
  BY DEF FilesAreOwn, OwnEntries, OwnResponses
<1>3. CASE Begin
  BY <1>2, <1>3 DEF Begin, Emptied, Fresh
<1>4. ASSUME ~Begin, Emptied' PROVE OwnEntries'
  <2>1. CASE RemoveLog
    <3>1. batch = <<>>
      BY <2>1 DEF RemoveLog, InOrder, Monitoring
    <3>2. log' = <<>> /\ batch' = <<>>
      BY <2>1, <3>1 DEF RemoveLog, monVars
    <3> QED
      BY <3>2 DEF OwnEntries, Own
  <2>2. CASE ~RemoveLog
    BY <1>1, <1>4, <2>2, MarksKept, OwnEntriesKept
  <2> QED
    BY <2>1, <2>2
<1>5. ASSUME ~Begin, Fresh' PROVE OwnResponses'
  <2>1. CASE Cleaned
    <3>1. "alone" \in marks
      BY <1>5, <2>1 DEF Cleaned, Mark, Fresh
    <3>2. \A i \in Ids : response[i] = Nobody
      BY <2>1, <3>1 DEF Cleaned, LeftAlone
    <3>3. response' = response
      BY <2>1 DEF Cleaned, fileVars
    <3> QED
      BY <3>2, <3>3 DEF OwnResponses
  <2>2. CASE ~Cleaned
    <3>1. Fresh /\ OwnResponses /\ Own(batch)
      BY <1>1, <1>5, <2>2, MarksKept, FreshIsEmptied DEF OwnEntries
    <3> QED
      BY <1>5, <3>1, OwnResponsesKept
  <2> QED
    BY <2>1, <2>2
<1> QED
  BY <1>2, <1>3, <1>4, <1>5

(* The removal the monitor handles, and the response a cmd.exe takes, are  *)
(* its own since all of them are.                                          *)
LEMMA SessionsIsolatedKept ==
  ASSUME TypeOK, InOrder, LeftAlone, FilesAreOwn, SessionsIsolated, [Next]_vars
  PROVE  SessionsIsolated'
<1>0. FileTypes /\ CmdTypes
  BY TypeParts
<1>1. CASE Begin
  BY <1>1 DEF Begin, SessionsIsolated, Emptied, Fresh
<1>2. ASSUME ~Begin, Emptied' PROVE "misled" \notin marks'
  <2>1. CASE RemoveLog
    <3>1. ctl = "cleaning" /\ marks' = marks \cup {"emptied"}
      BY <2>1 DEF RemoveLog, Mark
    <3>2. marks = {"alone"}
      BY <1>2, <3>1 DEF Emptied, LeftAlone, Cleaning
    <3> QED
      BY <3>1, <3>2
  <2>2. CASE HandleRemoval
    <3>1. Emptied
      BY <1>2, <2>2, MarksKept DEF HandleRemoval, Handle, RemoveLog
    <3>2. Own(batch) /\ batch \in Seq(Entries) /\ batch # <<>>
      BY <1>0, <2>2, <3>1 DEF FilesAreOwn, HandleRemoval, Handle, FileTypes
    <3>3. Head(batch).by = session
      BY <3>2, OwnTail
    <3>4. marks' = marks
      BY <2>2, <3>3 DEF HandleRemoval, Handle, Mark
    <3> QED
      BY <3>1, <3>4 DEF SessionsIsolated
  <2>3. CASE ~RemoveLog /\ ~HandleRemoval
    <3>1. Emptied
      BY <1>2, <2>3, MarksKept
    <3>2. marks' \cap {"misled"} \subseteq marks
      BY <1>2, <2>3, Step DEF vars, history, Mark, ListResponses, CleaningFails, GiveUpCleaning,
         Cleaned, Unlink, ResolveAddresses, Launch, LaunchFails, Inject, InjectionFails,
         StartMonitoring, Poll, HandleBreak, Answer, Stopped, MonitorFails, Interrupt,
         UpdateWindows, Clobber, Load, Attached, Break, TakeResponse, TimeOut, Exit
    <3> QED
      BY <3>1, <3>2 DEF SessionsIsolated
  <2> QED
    BY <2>1, <2>2, <2>3
<1>3. ASSUME ~Begin, Fresh' PROVE "crossed" \notin marks'
  <2>1. CASE Cleaned
    <3>1. ctl = "unlinking" /\ marks' = marks \cup {"clean"}
      BY <2>1 DEF Cleaned, Mark
    <3>2. marks = {"alone", "emptied"}
      BY <1>3, <3>1 DEF Fresh, LeftAlone, Cleaning
    <3> QED
      BY <3>1, <3>2
  <2>2. ASSUME NEW s \in Numbers, TakeResponse(s) PROVE "crossed" \notin marks'
    <3>1. s \in waiting /\ Touches(s) /\ breakId[s] > 1
      BY <2>2 DEF TakeResponse, InOrder, Hooked, Touches
    <3>2. Fresh
      BY <1>3, <2>2 DEF TakeResponse, Mark, Fresh
    <3>3. s = session
      BY <3>1, <3>2 DEF LeftAlone, Fresh
    <3>4. breakId[s] - 1 \in Ids
      BY <1>0, <3>1, SessionsAssumption DEF CmdTypes, Ids
    <3>5. response[breakId[s] - 1] = session
      BY <2>2, <3>2, <3>4 DEF TakeResponse, FilesAreOwn
    <3>6. marks' = marks
      BY <2>2, <3>3, <3>5 DEF TakeResponse, Mark
    <3> QED
      BY <3>2, <3>6 DEF SessionsIsolated
  <2>3. CASE ~Cleaned /\ ~(\E s \in Numbers : TakeResponse(s))
    <3>1. Fresh
      BY <1>3, <2>3, MarksKept
    <3>2. marks' \cap {"crossed"} \subseteq marks
      BY <1>3, <2>3, Step DEF vars, history, Mark, RemoveLog, ListResponses, CleaningFails,
         GiveUpCleaning, Unlink, ResolveAddresses, Launch, LaunchFails, Inject, InjectionFails,
         StartMonitoring, Poll, HandleBreak, Answer, HandleRemoval, Stopped, MonitorFails,
         Interrupt, UpdateWindows, Clobber, Load, Attached, Break, TimeOut, Exit
    <3> QED
      BY <3>1, <3>2 DEF SessionsIsolated
  <2> QED
    BY <2>1, <2>2, <2>3
<1> QED
  BY <1>1, <1>2, <1>3 DEF SessionsIsolated

(* What the isolation of sessions rests on, at every step.                 *)
THEOREM SessionsKeepOrder == Spec => []SessionInvariant
<1>1. Init => LeftAlone /\ FilesAreOwn /\ SessionsIsolated
  BY DEF Init, LeftAlone, FilesAreOwn, SessionsIsolated, Emptied, Fresh, Cleaning
<1>2. TypeOK /\ InOrder /\ LeftAlone /\ FilesAreOwn /\ SessionsIsolated /\ [Next]_vars
        => LeftAlone' /\ FilesAreOwn' /\ SessionsIsolated'
  BY LeftAloneKept, FilesAreOwnKept, SessionsIsolatedKept
<1>3. InOrder /\ LeftAlone /\ FilesAreOwn /\ SessionsIsolated => SessionInvariant
  BY DEF SessionInvariant
<1> QED
  BY <1>1, <1>2, <1>3, TypeAndOrder, PTL DEF Spec

(* Nothing of an earlier session is left for one that began alone: not in  *)
(* the log it has removed, nor in what the monitor has read of it, nor,    *)
(* after a complete cleanup, among the responses.                          *)
THEOREM FilesStayOwn == Spec => []FilesAreOwn
<1>1. SessionInvariant => FilesAreOwn
  BY DEF SessionInvariant
<1> QED
  BY <1>1, SessionsKeepOrder, PTL

(* In such a session no removal, and after a complete cleanup no answer,   *)
(* reaches the wrong cmd.exe.                                              *)
THEOREM SessionsAreIsolated == Spec => []SessionsIsolated
<1>1. SessionInvariant => SessionsIsolated
  BY DEF SessionInvariant
<1> QED
  BY <1>1, SessionsKeepOrder, PTL

===============================================================================
