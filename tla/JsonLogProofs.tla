---------------------------- MODULE JsonLogProofs -----------------------------
(***************************************************************************)
(* Proofs about JsonLog: without faults, and as long as cmd.exe stays in   *)
(* one directory, the rewritten file is a lossless channel for any number  *)
(* of entries and any placement of the monitor's polls; with any faults    *)
(* and directories no event is handled twice or after a later one.         *)
(***************************************************************************)
EXTENDS JsonLog, SequenceTheorems, TLAPS

Reliable == Faults = {} /\ Dirs = {Home}

(* The typing facts about one entry. *)
LEMMA EntryTypes ==
  /\ HookRemoved \in Entry /\ Junk \in Entry
  /\ \A n \in 1..MaxEvents : Event(n) \in Entry /\ Event(n) # HookRemoved
BY DEF Entry, HookRemoved, Junk, Event

(* What read_existing_entries returns is a sequence of entries. *)
LEMMA ReadExistingType ==
  ASSUME NEW f \in [doc : Seq(Entry), written : Nat]
  PROVE  ReadExisting(f) \in Seq(Entry)
BY EntryTypes DEF ReadExisting

(* Last(s) is an element of s. *)
LEMMA LastType ==
  ASSUME NEW s \in Seq(Entry), s # <<>>
  PROVE  Last(s) \in Entry
BY DEF Last

(* A longer sequence is never empty. *)
LEMMA AppendType ==
  ASSUME NEW s \in Seq(Entry), NEW e \in Entry
  PROVE  /\ Append(s, e) \in Seq(Entry) /\ Append(s, e) # <<>>
         /\ Len(Append(s, e)) = Len(s) + 1
         /\ Last(Append(s, e)) = e
         /\ \A i \in 1..Len(s) : Append(s, e)[i] = s[i]
BY AppendProperties DEF Last

(* Writing a token changes how much is on disk and nothing else. *)
LEMMA OneMoreToken ==
  ASSUME NEW f \in [doc : Seq(Entry), written : Nat]
  PROVE  LET g == [f EXCEPT !.written = @ + 1] IN
         /\ g \in [doc : Seq(Entry), written : Nat]
         /\ g.written = f.written + 1 /\ g.doc = f.doc
OBVIOUS

(* The state is well formed at every step, whatever faults happen. *)
THEOREM TypeCorrect == Spec => []TypeOK
<1>1. Init => TypeOK
  <2>1. EmptyFile \in [doc : Seq(Entry), written : Nat] /\ EmptyFile.written = 0
    BY DEF EmptyFile
  <2>2. 0 <= Size(EmptyFile)
    BY DEF EmptyFile, Size, BodyEnd
  <2>3. ASSUME Init PROVE TypeOK
    <3>1. file \in [Dirs -> [doc : Seq(Entry), written : Nat]]
      BY <2>1, <2>3 DEF Init
    <3>2. \A d \in Dirs : file[d] = EmptyFile
      BY <2>3 DEF Init
    <3> QED
      BY <2>2, <2>3, <3>1, <3>2, LogAssumption, EmptySeq DEF Init, TypeOK, EmptyFile
  <2> QED
    BY <2>3
<1>2. TypeOK /\ [Next]_vars => TypeOK'
  <2> SUFFICES ASSUME TypeOK, [Next]_vars PROVE TypeOK'
    OBVIOUS
  <2> USE DEF TypeOK
  <2>1. ASSUME NEW e \in Entry, LogEntry(e) PROVE TypeOK'
    <3>1. file[cwd] \in [doc : Seq(Entry), written : Nat]
      OBVIOUS
    <3>2. logged' = Append(logged, e) /\ logged' \in Seq(Entry)
      BY <2>1, AppendType DEF LogEntry, BeginAppend, OpenFails
    <3>3. draft' \in Seq(Entry) /\ (writer' = "opened" => draft' # <<>>)
      BY <2>1, <3>1, ReadExistingType, AppendType DEF LogEntry, BeginAppend, OpenFails, Settle
    <3>4. writer' \in {"idle", "opened", "gone"}
      BY <2>1 DEF LogEntry, BeginAppend, OpenFails, Settle
    <3> QED
      BY <2>1, <3>2, <3>3, <3>4 DEF LogEntry, monVars, Size, BodyEnd
  <2>2. CASE LogEvent
    <3>1. Len(logged) + 1 \in 1..MaxEvents
      BY <2>2, LogAssumption DEF LogEvent
    <3>2. Event(Len(logged) + 1) \in Entry /\ LogEntry(Event(Len(logged) + 1))
      BY <2>2, <3>1, EntryTypes DEF LogEvent
    <3> QED
      BY <2>1, <3>2
  <2>3. CASE Detach
    BY <2>1, <2>3, EntryTypes DEF Detach
  <2>4. CASE Truncate
    BY <2>4 DEF Truncate, monVars, Remains, Size, BodyEnd
  <2>5. CASE Write
    <3> DEFINE f == file[cwd]
               g == [f EXCEPT !.written = @ + 1]
    <3>1. f \in [doc : Seq(Entry), written : Nat] /\ f.written <= Size(f)
      OBVIOUS
    <3>2. file' = [file EXCEPT ![cwd] = g] /\ file'[cwd] = g
      BY <2>5 DEF Write
    <3>3. g \in [doc : Seq(Entry), written : Nat] /\ g.written = f.written + 1
          /\ g.doc = f.doc
      BY <3>1, OneMoreToken
    <3>4. g.written <= Size(g)
      BY <2>5, <3>1, <3>3 DEF Write, Remains, Size, BodyEnd
    <3>5. writer' \in {"idle", "writing", "gone"} /\ (writer' = "writing" => draft' # <<>>)
      BY <2>5, <3>2 DEF Write, Settle
    <3>6. file' \in [Dirs -> [doc : Seq(Entry), written : Nat]]
      BY <3>2, <3>3
    <3>7. \A d \in Dirs : file'[d].written <= Size(file'[d])
      BY <3>2, <3>4
    <3>8. writer' = "writing" => Remains(file'[cwd'])
      BY <2>5 DEF Write, Settle
    <3> QED
      BY <2>5, <3>5, <3>6, <3>7, <3>8 DEF Write, monVars, Remains, Size, BodyEnd
  <2>6. CASE WriteFails
    BY <2>6 DEF WriteFails, Settle, monVars, Remains, Size, BodyEnd
  <2>7. ASSUME NEW d \in Dirs, ChangeDir(d) PROVE TypeOK'
    BY <2>7 DEF ChangeDir, monVars, Remains, Size, BodyEnd
  <2>8. CASE ConsoleClose
    <3>1. file[cwd] \in [doc : Seq(Entry), written : Nat]
      OBVIOUS
    <3> QED
      BY <2>8, <3>1, ReadExistingType, AppendType, EntryTypes
         DEF ConsoleClose, BeginAppend, monVars, Remains, Size, BodyEnd
  <2>9. CASE Killed
    BY <2>9 DEF Killed, monVars, Remains, Size, BodyEnd
  <2>10. CASE StartMonitoring
    <3> DEFINE f == file[Home]
    <3>1. f \in [doc : Seq(Entry), written : Nat]
      BY LogAssumption
    <3>2. ExistingEntries(f) \in Seq(Entry) /\ Tell(f) \in Nat /\ Len(f.doc) \in Nat
      BY <3>1 DEF ExistingEntries, Tell, BodyEnd
    <3> QED
      BY <2>10, <3>2 DEF StartMonitoring, dllVars, Remains, Size, BodyEnd
  <2>11. CASE PollEmpty
    BY <2>11 DEF PollEmpty, dllVars, Remains, Size, BodyEnd
  <2>12. CASE PollArray
    <3> DEFINE f == file[Home]
    <3>1. f \in [doc : Seq(Entry), written : Nat]
      BY LogAssumption
    <3>2. NewEntries(f, count) \in Seq(Entry) /\ Tell(f) \in Nat /\ Len(f.doc) \in Nat
      BY <3>1 DEF NewEntries, Tell, BodyEnd
    <3> QED
      BY <2>12, <3>2 DEF PollArray, dllVars, Remains, Size, BodyEnd
  <2>13. CASE Reread
    <3> DEFINE f == file[Home]
    <3>1. Tell(f) \in Nat
      BY LogAssumption DEF Tell, BodyEnd
    <3> QED
      BY <2>13, <3>1 DEF Reread, dllVars, Remains, Size, BodyEnd
  <2>14. CASE HandleEntry
    <3>1. Head(batch) \in Entry /\ Tail(batch) \in Seq(Entry)
      BY <2>14, HeadTailProperties DEF HandleEntry
    <3>2. handled' \in Seq(Entry) /\ batch' \in Seq(Entry)
      BY <2>14, <3>1, AppendType DEF HandleEntry
    <3>3. mon' \in {"startup", "handling", "idle", "stopped"}
          /\ (mon' \in {"startup", "handling"} => batch' # <<>>)
      BY <2>14 DEF HandleEntry, PlaceAfter
    <3>4. writer' \in {writer, "gone"} /\ shouldStop' \in BOOLEAN
      BY <2>14 DEF HandleEntry, StopsOn
    <3> QED
      BY <2>14, <3>2, <3>3, <3>4 DEF HandleEntry, Remains, Size, BodyEnd
  <2>15. CASE Interrupt
    BY <2>15 DEF Interrupt, dllVars, Remains, Size, BodyEnd
  <2>16. CASE UNCHANGED vars
    BY <2>16 DEF vars, Remains, Size, BodyEnd
  <2> QED
    BY <2>2, <2>3, <2>4, <2>5, <2>6, <2>7, <2>8, <2>9, <2>10, <2>11, <2>12,
       <2>13, <2>14, <2>15, <2>16
       DEF Next, DllNext, DllStep, MonNext, MonStep
<1> QED
  BY <1>1, <1>2, PTL DEF Spec

-------------------------------------------------------------------------------
(* Between entries a reliable DLL reads back exactly what it has logged.   *)
LEMMA ReadBack ==
  ASSUME NEW f \in [doc : Seq(Entry), written : Nat],
         Complete(f) \/ f = EmptyFile
  PROVE  ReadExisting(f) = f.doc
BY DEF ReadExisting, EndsInKey, EmptyFile, BodyEnd

(* The invariant holds initially. *)
LEMMA InductiveInit == Init => DocumentTracksLog /\ MonitorTracksDocument
<1> SUFFICES ASSUME Init PROVE DocumentTracksLog /\ MonitorTracksDocument
  OBVIOUS
<1>1. file[Home] = EmptyFile /\ EmptyFile.doc = <<>>
  BY LogAssumption DEF Init, EmptyFile
<1> QED
  BY <1>1 DEF Init, DocumentTracksLog, MonitorTracksDocument

(* Appending to the log keeps everything the invariant says of the monitor. *)
LEMMA LogGrows ==
  ASSUME TypeOK, MonitorTracksDocument, NEW e \in Entry, logged' = Append(logged, e),
         UNCHANGED <<file, mon, batch, count, handled>>
  PROVE  MonitorTracksDocument'
<1>1. /\ Len(logged') = Len(logged) + 1
      /\ \A i \in 1..Len(logged) : logged'[i] = logged[i]
  BY AppendType DEF TypeOK
<1>2. Len(handled) \in Nat /\ Len(batch) \in Nat /\ Len(logged) \in Nat
  BY DEF TypeOK
<1> QED
  BY <1>1, <1>2 DEF MonitorTracksDocument

(* The DLL's steps preserve the invariant. *)
LEMMA DllInductive ==
  ASSUME Reliable, Inductive, DllNext
  PROVE  DocumentTracksLog' /\ MonitorTracksDocument'
<1> DEFINE f == file[Home]
<1> USE DEF Inductive
<1>0. /\ cwd = Home /\ f \in [doc : Seq(Entry), written : Nat]
      /\ logged \in Seq(Entry) /\ f.doc \in Seq(Entry) /\ Len(logged) \in Nat
  BY DEF Reliable, TypeOK
<1>1. ASSUME NEW e \in Entry, LogEntry(e) PROVE DocumentTracksLog' /\ MonitorTracksDocument'
  <2>1. BeginAppend(e) /\ writer = "idle" /\ UNCHANGED <<file, cwd, monVars>>
    BY <1>1 DEF LogEntry, OpenFails, Reliable
  <2>2. draft' = logged' /\ writer' = "opened" /\ logged' = Append(logged, e)
    BY <1>0, <2>1, ReadBack DEF BeginAppend, DocumentTracksLog
  <2>3. Len(logged') = Len(logged) + 1 /\ \A i \in 1..Len(logged) : logged'[i] = logged[i]
    BY <1>0, <2>2, AppendType
  <2>4. DocumentTracksLog'
    BY <1>0, <2>1, <2>2, <2>3 DEF DocumentTracksLog
  <2>5. MonitorTracksDocument'
    BY <2>1, <2>2, LogGrows DEF monVars
  <2> QED
    BY <2>4, <2>5
<1>2. CASE LogEvent
  <2>1. Len(logged) + 1 \in 1..MaxEvents
    BY <1>0, <1>2, LogAssumption DEF LogEvent
  <2> QED
    BY <1>1, <1>2, <2>1, EntryTypes DEF LogEvent
<1>3. CASE Detach
  BY <1>1, <1>3, EntryTypes DEF Detach
<1>4. CASE Truncate
  <2>1. f' = [doc |-> logged, written |-> 0] /\ draft = logged /\ writer' = "writing"
    BY <1>0, <1>4, LogAssumption DEF Truncate, DocumentTracksLog, TypeOK
  <2>2. f'.doc = logged /\ draft' = logged' /\ logged' = logged
    BY <1>4, <2>1 DEF Truncate
  <2>3. DocumentTracksLog'
    BY <1>0, <2>1, <2>2 DEF DocumentTracksLog
  <2>4. Len(f.doc) <= Len(f'.doc) /\ Len(f.doc) \in Nat
    BY <1>0, <2>2 DEF DocumentTracksLog
  <2>5. MonitorTracksDocument'
    BY <1>0, <1>4, <2>2, <2>4 DEF Truncate, MonitorTracksDocument, monVars, TypeOK
  <2> QED
    BY <2>3, <2>5
<1>5. CASE Write
  <2>1. f' = [f EXCEPT !.written = @ + 1] /\ draft = logged /\ writer = "writing"
    BY <1>0, <1>5, LogAssumption DEF Write, DocumentTracksLog, TypeOK
  <2>2. f'.doc = f.doc /\ f'.written = f.written + 1
    BY <1>0, <2>1, OneMoreToken
  <2>3. f.doc = logged
    BY <2>1 DEF DocumentTracksLog
  <2>4. writer' = "idle" => Complete(f')
    BY <1>0, <1>5, <2>2 DEF Write, Settle, Remains, Complete, Size, BodyEnd
  <2>5. DocumentTracksLog'
    BY <1>0, <1>5, <2>1, <2>2, <2>3, <2>4 DEF Write, Settle, DocumentTracksLog
  <2>6. MonitorTracksDocument'
    BY <1>5, <2>2 DEF Write, MonitorTracksDocument, monVars
  <2> QED
    BY <2>5, <2>6
<1>6. ASSUME NEW d \in Dirs, ChangeDir(d) PROVE DocumentTracksLog' /\ MonitorTracksDocument'
  BY <1>6 DEF ChangeDir, DocumentTracksLog, MonitorTracksDocument, monVars, Complete, BodyEnd
<1> QED
  BY <1>2, <1>3, <1>4, <1>5, <1>6
     DEF DllNext, DllStep, WriteFails, ConsoleClose, Killed, Reliable

(* The monitor's steps preserve the invariant. *)
LEMMA MonInductive ==
  ASSUME Inductive, MonNext
  PROVE  DocumentTracksLog' /\ MonitorTracksDocument'
<1> DEFINE f == file[Home]
<1> USE DEF Inductive
<1>0. /\ f \in [doc : Seq(Entry), written : Nat] /\ f.doc \in Seq(Entry)
      /\ logged \in Seq(Entry) /\ handled \in Seq(Entry) /\ batch \in Seq(Entry)
      /\ Len(logged) \in Nat /\ Len(handled) \in Nat /\ Len(batch) \in Nat
      /\ Len(f.doc) \in Nat /\ count \in Nat
  BY LogAssumption DEF TypeOK
<1>1. UNCHANGED <<file, logged, draft>> /\ writer' \in {writer, "gone"}
  BY DEF MonNext, MonStep, StartMonitoring, PollEmpty, PollArray, Reread,
         HandleEntry, Interrupt, dllVars
<1>2. DocumentTracksLog'
  BY <1>1 DEF DocumentTracksLog, Complete, BodyEnd
<1>3. CASE StartMonitoring
  <2>1. Len(handled) = 0 /\ count = 0
    BY <1>0, <1>3 DEF StartMonitoring, MonitorTracksDocument
  <2>2. /\ batch' \in Seq(Entry) /\ Len(batch') = count' /\ count' <= Len(f.doc)
        /\ \A i \in 1..Len(batch') : batch'[i] = f.doc[i]
    BY <1>0, <1>3, <2>1, EmptySeq DEF StartMonitoring, ExistingEntries
  <2>3. mon' \in {"idle", "startup"} /\ (mon' = "idle" => batch' = <<>>)
    BY <1>3 DEF StartMonitoring
  <2> QED
    BY <1>0, <1>1, <1>3, <2>1, <2>2, <2>3
       DEF StartMonitoring, MonitorTracksDocument, DocumentTracksLog
<1>4. CASE PollArray
  <2>1. batch = <<>> /\ Len(handled) = count /\ count <= Len(f.doc)
    BY <1>4 DEF PollArray, MonitorTracksDocument
  <2>2. /\ Len(batch') = Len(f.doc) - count
        /\ \A i \in 1..Len(batch') : batch'[i] = f.doc[count + i]
    BY <1>0, <1>4, <2>1, SubSeqProperties DEF PollArray, NewEntries
  <2>3. \A i \in 1..Len(batch') : batch'[i] = logged[Len(handled) + i]
    BY <1>0, <2>1, <2>2 DEF DocumentTracksLog
  <2> QED
    BY <1>0, <1>4, <2>1, <2>2, <2>3
       DEF PollArray, MonitorTracksDocument, DocumentTracksLog, dllVars
<1>5. CASE HandleEntry
  <2>0. batch # <<>> /\ mon \in {"startup", "handling"}
    BY <1>5 DEF HandleEntry, TypeOK
  <2>1. /\ Len(batch) >= 1 /\ Head(batch) = batch[1] /\ Head(batch) \in Entry
        /\ batch' = Tail(batch) /\ Len(batch') = Len(batch) - 1
        /\ \A i \in 1..Len(batch') : batch'[i] = batch[i + 1]
    BY <1>0, <1>5, <2>0, EmptySeq, HeadTailProperties DEF HandleEntry
  <2>2. Head(batch) = logged[Len(handled) + 1]
    BY <1>0, <2>1 DEF MonitorTracksDocument
  <2>3. /\ Len(handled') = Len(handled) + 1
        /\ handled'[Len(handled) + 1] = Head(batch)
        /\ \A i \in 1..Len(handled) : handled'[i] = handled[i]
    BY <1>0, <1>5, <2>1, AppendProperties DEF HandleEntry
  <2>4. \A i \in 1..Len(handled') : handled'[i] = logged[i]
    <3> TAKE i \in 1..Len(handled')
    <3>1. i \in 1..Len(handled) \/ i = Len(handled) + 1
      BY <1>0, <2>3
    <3> QED
      BY <2>2, <2>3, <3>1 DEF MonitorTracksDocument
  <2>5. \A i \in 1..Len(batch') : batch'[i] = logged[Len(handled') + i]
    <3> TAKE i \in 1..Len(batch')
    <3>1. i + 1 \in 1..Len(batch) /\ Len(handled') + i = Len(handled) + (i + 1)
      BY <1>0, <2>1, <2>3
    <3> QED
      BY <2>1, <3>1 DEF MonitorTracksDocument
  <2>6. mon' \in {"startup", "handling", "stopped", "idle"} /\ (mon' = "idle" => batch' = <<>>)
    BY <1>5, <2>0 DEF HandleEntry, PlaceAfter
  <2>7. UNCHANGED <<file, count, logged>>
    BY <1>5 DEF HandleEntry
  <2>8. Len(handled') + Len(batch') = Len(handled) + Len(batch)
    <3>1. Len(handled') = Len(handled) + 1 /\ Len(batch') = Len(batch) - 1
      BY <2>1, <2>3
    <3>2. Len(handled) \in Nat /\ Len(batch) \in Nat
      BY <1>0
    <3> QED
      BY <3>1, <3>2
  <2>9. /\ count' <= Len(file'[Home].doc) /\ Len(handled') + Len(batch') = count'
        /\ Len(handled') + Len(batch') <= Len(logged')
    BY <2>0, <2>7, <2>8 DEF MonitorTracksDocument
  <2> QED
    BY <1>2, <2>4, <2>5, <2>6, <2>7, <2>9 DEF MonitorTracksDocument
<1>6. CASE PollEmpty \/ Reread \/ Interrupt
  <2>1. UNCHANGED <<file, logged, batch, count, handled>>
    BY <1>6 DEF PollEmpty, Reread, Interrupt, dllVars
  <2>2. \/ mon' \in {"stopped", "crashed"}
        \/ mon' \in {"idle", "reread"} /\ mon \in {"idle", "reread"}
    BY <1>6 DEF PollEmpty, Reread, Interrupt
  <2> QED
    BY <1>2, <2>1, <2>2 DEF MonitorTracksDocument
<1> QED
  BY <1>2, <1>3, <1>4, <1>5, <1>6 DEF MonNext, MonStep

(* The invariant holds for ever in the absence of faults.                  *)
LEMMA Invariance ==
  ASSUME Reliable
  PROVE  Spec => []Inductive
<1>1. Init => DocumentTracksLog /\ MonitorTracksDocument
  BY InductiveInit
<1>2. Inductive /\ [Next]_vars => DocumentTracksLog' /\ MonitorTracksDocument'
  <2>1. ASSUME Inductive, UNCHANGED vars PROVE DocumentTracksLog' /\ MonitorTracksDocument'
    BY <2>1 DEF Inductive, vars, DocumentTracksLog, MonitorTracksDocument, Complete, BodyEnd
  <2> QED
    BY <2>1, DllInductive, MonInductive DEF Next
<1>3. Inductive <=> TypeOK /\ DocumentTracksLog /\ MonitorTracksDocument
  BY DEF Inductive
<1> QED
  BY <1>1, <1>2, <1>3, TypeCorrect, PTL DEF Spec

(* Whatever the number of entries and wherever the polls fall, the monitor *)
(* handles what log_json_entry was given, in order and without a gap.      *)
THEOREM Delivery ==
  ASSUME Reliable
  PROVE  Spec => []DeliveredInOrder
<1>1. ASSUME Inductive PROVE DeliveredInOrder
  <2>1. /\ logged \in Seq(Entry) /\ handled \in Seq(Entry) /\ batch \in Seq(Entry)
        /\ Len(handled) + Len(batch) <= Len(logged)
        /\ \A i \in 1..Len(handled) : handled[i] = logged[i]
    BY <1>1 DEF Inductive, TypeOK, MonitorTracksDocument
  <2>2. Len(handled) <= Len(logged) /\ Len(handled) \in Nat /\ Len(logged) \in Nat
    BY <2>1
  <2> DEFINE s == SubSeq(handled, 1, Len(handled))
             t == SubSeq(logged, 1, Len(handled))
  <2>3. /\ s \in Seq(Entry) /\ Len(s) = Len(handled)
        /\ \A i \in 1..Len(handled) : s[i] = handled[i]
    BY <2>1, <2>2, SubSeqProperties
  <2>4. /\ t \in Seq(Entry) /\ Len(t) = Len(handled)
        /\ \A i \in 1..Len(handled) : t[i] = logged[i]
    BY <2>1, <2>2, SubSeqProperties
  <2>5. s = t
    BY <2>1, <2>3, <2>4, SeqEqual
  <2> QED
    BY <2>2, <2>5 DEF DeliveredInOrder, IsPrefix
<1> QED
  BY <1>1, Invariance, PTL

(* The rewritten file implements the lossless channel: every step of the   *)
(* two programs is the logging of one entry, the handling of the oldest    *)
(* entry not yet handled, or neither.                                      *)
THEOREM Refinement ==
  ASSUME Reliable
  PROVE  Spec => ImplementsChannel
<1>1. Init => Channel!Init
  BY DEF Init, Channel!Init
<1>2. Inductive /\ [Next]_vars => [Channel!Next]_(Channel!vars)
  <2> SUFFICES ASSUME Inductive, [Next]_vars PROVE [Channel!Next]_(Channel!vars)
    OBVIOUS
  <2> USE DEF Channel!Next, Channel!vars
  <2>1. ASSUME NEW e \in Entry, LogEntry(e) PROVE Channel!Next
    BY <2>1 DEF LogEntry, BeginAppend, OpenFails, monVars, Channel!Send
  <2>2. CASE LogEvent
    <3>1. Len(logged) + 1 \in 1..MaxEvents
      BY <2>2, LogAssumption DEF LogEvent, Inductive, TypeOK
    <3> QED
      BY <2>1, <2>2, <3>1, EntryTypes DEF LogEvent
  <2>3. CASE Detach \/ ConsoleClose
    BY <2>1, <2>3, EntryTypes DEF Detach, ConsoleClose, Reliable
  <2>4. CASE HandleEntry
    <3>1. /\ batch \in Seq(Entry) /\ batch # <<>> /\ handled' = Append(handled, Head(batch))
          /\ UNCHANGED logged
      BY <2>4 DEF HandleEntry, Inductive, TypeOK
    <3>2. Len(batch) >= 1 /\ Head(batch) = batch[1]
      BY <3>1, EmptySeq
    <3>3. /\ Len(handled) + Len(batch) <= Len(logged)
          /\ \A i \in 1..Len(batch) : batch[i] = logged[Len(handled) + i]
          /\ Len(handled) \in Nat /\ Len(logged) \in Nat /\ Len(batch) \in Nat
      BY DEF Inductive, TypeOK, MonitorTracksDocument
    <3>4. Len(handled) < Len(logged) /\ Head(batch) = logged[Len(handled) + 1]
      BY <3>2, <3>3
    <3> QED
      BY <3>1, <3>4 DEF Channel!Receive
  <2>5. CASE UNCHANGED <<logged, handled>>
    BY <2>5
  <2> QED
    BY <2>2, <2>3, <2>4, <2>5
       DEF Next, DllNext, DllStep, MonNext, MonStep, Truncate, Write, WriteFails, Killed,
           ChangeDir, StartMonitoring, PollEmpty, PollArray, Reread, Interrupt, dllVars,
           monVars, vars
<1> QED
  BY <1>1, <1>2, Invariance, PTL DEF Spec, ImplementsChannel, Channel!Spec

(* Without faults and in one directory the document on disk is, between    *)
(* two entries, all that was logged.                                       *)
THEOREM DocumentIsTracked ==
  ASSUME Reliable
  PROVE  Spec => []DocumentTracksLog
<1>1. Inductive => DocumentTracksLog
  BY DEF Inductive
<1> QED
  BY <1>1, Invariance, PTL

(* ... of which the monitor has taken the first count entries, handled or  *)
(* still in its batch, and will take no entry a second time.               *)
THEOREM MonitorIsTracked ==
  ASSUME Reliable
  PROVE  Spec => []MonitorTracksDocument
<1>1. Inductive => MonitorTracksDocument
  BY DEF Inductive
<1> QED
  BY <1>1, Invariance, PTL

-------------------------------------------------------------------------------
(* Nothing is logged after the removal of the hook, and once the writer is *)
(* gone the document is all that was logged.                               *)
RemovalIsLast ==
  /\ \A i \in 1..Len(logged) : logged[i] = HookRemoved => i = Len(logged) /\ writer # "idle"
  /\ writer = "gone" => file[Home].doc = logged

LEMMA RemovalIsLastKept ==
  ASSUME Reliable, Inductive, RemovalIsLast, [Next]_vars
  PROVE  RemovalIsLast'
<1>0. /\ logged \in Seq(Entry) /\ draft \in Seq(Entry) /\ batch \in Seq(Entry)
      /\ cwd = Home /\ file \in [Dirs -> [doc : Seq(Entry), written : Nat]]
      /\ Len(logged) \in Nat
  BY LenProperties DEF Inductive, TypeOK, Reliable
<1>1. ASSUME NEW e \in Entry, LogEntry(e) PROVE RemovalIsLast'
  <2>1. logged' = Append(logged, e) /\ writer = "idle" /\ writer' = "opened"
    BY <1>1 DEF LogEntry, BeginAppend, OpenFails, Reliable
  <2>2. /\ Len(logged') = Len(logged) + 1
        /\ \A i \in 1..Len(logged) : logged'[i] = logged[i]
    BY <1>0, <2>1, AppendType
  <2> QED
    BY <1>0, <2>1, <2>2 DEF RemovalIsLast
<1>2. CASE LogEvent \/ Detach
  BY <1>1, <1>2, EntryTypes, LogAssumption DEF LogEvent, Detach, Inductive, TypeOK
<1>3. CASE Truncate
  BY <1>3 DEF Truncate, RemovalIsLast
<1>4. CASE Write
  <2>1. /\ logged' = logged /\ draft = logged /\ file[Home].doc = logged
        /\ writer' \in {"writing", Settle(Last(draft))} /\ draft # <<>>
        /\ file'[Home].doc = file[Home].doc
    BY <1>0, <1>4 DEF Write, Inductive, TypeOK, DocumentTracksLog
  <2>2. Last(logged) = logged[Len(logged)]
    BY DEF Last
  <2>3. writer' = "idle" => Last(logged) # HookRemoved
    BY <2>1 DEF Settle
  <2> QED
    BY <2>1, <2>2, <2>3 DEF RemovalIsLast
<1>5. CASE HandleEntry
  <2>1. /\ logged' = logged /\ file' = file /\ batch # <<>> /\ mon \in {"startup", "handling"}
        /\ writer' = IF StopsOn(Head(batch)) THEN "gone" ELSE writer
    BY <1>5 DEF HandleEntry, Inductive, TypeOK
  <2>2. CASE Head(batch) = HookRemoved
    <3>1. /\ Len(batch) \in Nat /\ Len(batch) >= 1 /\ Head(batch) = batch[1]
          /\ Len(handled) \in Nat /\ count \in Nat
      BY <1>0, <2>1, EmptySeq, LenProperties DEF Inductive, TypeOK
    <3>2. /\ Len(handled) + Len(batch) = count /\ count <= Len(file[Home].doc)
          /\ Len(handled) + Len(batch) <= Len(logged)
          /\ batch[1] = logged[Len(handled) + 1]
      BY <2>1, <3>1 DEF Inductive, MonitorTracksDocument
    <3>3. Len(handled) + 1 = Len(logged)
      BY <1>0, <2>2, <3>1, <3>2 DEF RemovalIsLast
    <3>4. /\ Len(file[Home].doc) \in Nat /\ Len(file[Home].doc) <= Len(logged)
          /\ \A i \in 1..Len(file[Home].doc) : file[Home].doc[i] = logged[i]
          /\ file[Home].doc \in Seq(Entry)
      BY <1>0, LenProperties DEF Inductive, DocumentTracksLog, Reliable
    <3>5. file[Home].doc = logged
      BY <1>0, <3>1, <3>2, <3>3, <3>4, SeqEqual
    <3> QED
      BY <2>1, <3>5 DEF RemovalIsLast, StopsOn
  <2>3. CASE Head(batch) # HookRemoved
    BY <2>1, <2>3 DEF RemovalIsLast, StopsOn
  <2> QED
    BY <2>2, <2>3
<1>6. CASE UNCHANGED <<file, logged, writer>>
  BY <1>6 DEF RemovalIsLast
<1> QED
  BY <1>2, <1>3, <1>4, <1>5, <1>6
     DEF Next, DllNext, DllStep, MonNext, MonStep, WriteFails, Killed, ConsoleClose, ChangeDir,
         StartMonitoring, PollEmpty, PollArray, Reread, Interrupt, dllVars, vars, Reliable

(* Between two entries, and in the end, the file holds all that was logged.*)
THEOREM AllIsLogged ==
  ASSUME Reliable
  PROVE  Spec => []ActivityIsLogged
<1>1. Init => RemovalIsLast
  BY DEF Init, RemovalIsLast
<1>2. Inductive /\ RemovalIsLast /\ [Next]_vars => RemovalIsLast'
  BY RemovalIsLastKept
<1>3. Inductive /\ RemovalIsLast => ActivityIsLogged
  BY DEF Inductive, DocumentTracksLog, RemovalIsLast, ActivityIsLogged
<1> QED
  BY <1>1, <1>2, <1>3, Invariance, PTL DEF Spec

-------------------------------------------------------------------------------
(* Whatever fails, events are handled in the order they were logged in.    *)

(* The events of s were logged one after the other; all before event n;    *)
(* those of s past index c after all those of t.                           *)
Ordered(s) == \A i, j \in 1..Len(s) :
  i < j /\ s[i].type = "event" /\ s[j].type = "event" => s[i].seq < s[j].seq
Older(s, n) == \A i \in 1..Len(s) : s[i].type = "event" => s[i].seq < n
After(s, c, t) == \A i \in 1..Len(s), j \in 1..Len(t) :
  i > c /\ s[i].type = "event" /\ t[j].type = "event" => t[j].seq < s[i].seq

(* An entry that is younger than everything in a file or at the monitor.   *)
Youngest(e) == e.type = "event" =>
  /\ e.seq <= Len(logged)
  /\ Older(handled, e.seq) /\ Older(batch, e.seq)
  /\ \A d \in Dirs : Older(file[d].doc, e.seq)

(* Documents, what was handled and what waits are in order; what the       *)
(* monitor has not counted in its file is younger than what it has taken;  *)
(* the array about to be written is the one on disk, as far as it could be *)
(* read back, and a younger entry.                                         *)
FilesInOrder == \A d \in Dirs : Ordered(file[d].doc) /\ Older(file[d].doc, Len(logged) + 1)
TakenInOrder ==
  /\ Ordered(handled) /\ Older(handled, Len(logged) + 1)
  /\ Ordered(batch) /\ Older(batch, Len(logged) + 1)
  /\ After(batch, 0, handled)
  /\ mon = "starting" => handled = <<>> /\ batch = <<>>
UncountedIsNew ==
  After(file[Home].doc, count, handled) /\ After(file[Home].doc, count, batch)
DraftIsNew == writer = "opened" =>
  draft = Append(ReadExisting(file[cwd]), Last(draft)) /\ Youngest(Last(draft))
InOrder == FilesInOrder /\ TakenInOrder /\ UncountedIsNew /\ DraftIsNew

(* Every document is typed, and so is what the DLL reads back of it.       *)
LEMMA DocTypes ==
  ASSUME TypeOK, NEW d \in Dirs
  PROVE  /\ file[d] \in [doc : Seq(Entry), written : Nat]
         /\ file[d].doc \in Seq(Entry) /\ Len(file[d].doc) \in Nat
         /\ ReadExisting(file[d]) \in Seq(Entry)
<1>1. file[d] \in [doc : Seq(Entry), written : Nat]
  BY DEF TypeOK
<1> QED
  BY <1>1, ReadExistingType

(* Entries are numbered by naturals.                                       *)
LEMMA SeqIsNat == \A e \in Entry : e.seq \in Nat
BY LogAssumption DEF Entry, HookRemoved, Junk

(* An element of a sequence of entries is an entry.                        *)
LEMMA ElementType ==
  ASSUME NEW s \in Seq(Entry), NEW i \in 1..Len(s)
  PROVE  s[i] \in Entry /\ s[i].seq \in Nat
BY SeqIsNat

(* What is before event n is before every later one.                       *)
LEMMA OlderGrows ==
  ASSUME NEW s \in Seq(Entry), NEW n \in Nat, NEW m \in Nat, n <= m, Older(s, n)
  PROVE  Older(s, m)
BY ElementType DEF Older

(* Appending an entry younger than the rest keeps all three orders.        *)
LEMMA AppendKeeps ==
  ASSUME NEW s \in Seq(Entry), NEW e \in Entry
  PROVE  /\ Ordered(s) /\ (e.type = "event" => Older(s, e.seq)) => Ordered(Append(s, e))
         /\ \A n \in Nat : Older(s, n) /\ (e.type = "event" => e.seq < n) => Older(Append(s, e), n)
         /\ \A c \in Nat, t \in Seq(Entry) :
              After(s, c, t) /\ (e.type = "event" => Older(t, e.seq)) => After(Append(s, e), c, t)
<1> DEFINE a == Append(s, e)
<1>1. Len(a) = Len(s) + 1 /\ a[Len(s) + 1] = e /\ Len(s) \in Nat /\ a \in Seq(Entry)
      /\ \A i \in 1..Len(s) : a[i] = s[i]
  BY AppendProperties, LenProperties
<1>2. \A i \in 1..Len(a) : i \in 1..Len(s) \/ i = Len(s) + 1
  BY <1>1
<1>3. ASSUME Ordered(s), e.type = "event" => Older(s, e.seq) PROVE Ordered(a)
  <2> SUFFICES ASSUME NEW i \in 1..Len(a), NEW j \in 1..Len(a), i < j,
                      a[i].type = "event", a[j].type = "event"
               PROVE  a[i].seq < a[j].seq
    BY DEF Ordered
  <2>1. i \in 1..Len(s) /\ a[i] = s[i]
    BY <1>1
  <2>2. CASE j \in 1..Len(s)
    BY <1>1, <1>3, <2>1, <2>2 DEF Ordered
  <2>3. CASE j = Len(s) + 1
    BY <1>1, <1>3, <2>1, <2>3 DEF Older
  <2> QED
    BY <1>2, <2>2, <2>3
<1>4. ASSUME NEW n \in Nat, Older(s, n), e.type = "event" => e.seq < n PROVE Older(a, n)
  BY <1>1, <1>2, <1>4 DEF Older
<1>5. ASSUME NEW c \in Nat, NEW t \in Seq(Entry), After(s, c, t),
             e.type = "event" => Older(t, e.seq)
      PROVE  After(a, c, t)
  <2> SUFFICES ASSUME NEW i \in 1..Len(a), NEW j \in 1..Len(t), i > c,
                      a[i].type = "event", t[j].type = "event"
               PROVE  t[j].seq < a[i].seq
    BY DEF After
  <2>1. CASE i \in 1..Len(s)
    BY <1>1, <1>5, <2>1 DEF After
  <2>2. CASE i = Len(s) + 1
    BY <1>1, <1>5, <2>2 DEF Older
  <2> QED
    BY <1>2, <2>1, <2>2
<1> QED
  BY <1>3, <1>4, <1>5

(* What is read back of a file is as old and as ordered as the file.       *)
LEMMA ReadBackKeeps ==
  ASSUME NEW f \in [doc : Seq(Entry), written : Nat]
  PROVE  /\ Ordered(f.doc) => Ordered(ReadExisting(f))
         /\ \A n \in Nat : Older(f.doc, n) => Older(ReadExisting(f), n)
         /\ \A c \in Nat, t \in Seq(Entry) : After(f.doc, c, t) => After(ReadExisting(f), c, t)
<1> DEFINE r == ReadExisting(f)
<1>1. CASE r = f.doc
  BY <1>1
<1>2. CASE r = <<Junk>>
  <2>1. Len(r) = 1 /\ r[1].type = "junk"
    BY <1>2 DEF Junk
  <2> HIDE DEF r
  <2>2. \A i \in 1..Len(r) : r[i].type # "event"
    BY <2>1
  <2>3. Ordered(r) /\ (\A n \in Nat : Older(r, n))
    BY <2>2 DEF Ordered, Older
  <2>4. \A c \in Nat, t \in Seq(Entry) : After(r, c, t)
    BY <2>2 DEF After
  <2> QED
    BY <2>3, <2>4 DEF r
<1>3. CASE r = <<>>
  <2>1. Len(r) = 0
    BY <1>3
  <2> HIDE DEF r
  <2>2. 1..Len(r) = {}
    BY <2>1
  <2>3. Ordered(r) /\ (\A n \in Nat : Older(r, n))
    BY <2>2 DEF Ordered, Older
  <2>4. \A c \in Nat, t \in Seq(Entry) : After(r, c, t)
    BY <2>2 DEF After
  <2> QED
    BY <2>3, <2>4 DEF r
<1> QED
  BY <1>1, <1>2, <1>3 DEF ReadExisting

(* The empty sequence is in every order.                                   *)
LEMMA EmptyInOrder ==
  /\ Ordered(<<>>) /\ (\A n : Older(<<>>, n))
  /\ \A c, t : After(<<>>, c, t) /\ After(t, c, <<>>)
<1>1. 1..Len(<<>>) = {}
  OBVIOUS
<1> QED
  BY <1>1 DEF Ordered, Older, After

(* The invariant holds initially.                                          *)
LEMMA InOrderInit == Init => InOrder
<1> SUFFICES ASSUME Init PROVE InOrder
  OBVIOUS
<1>1. \A d \in Dirs : file[d].doc = <<>>
  BY DEF Init, EmptyFile
<1> QED
  BY <1>1, EmptyInOrder, LogAssumption
     DEF Init, InOrder, FilesInOrder, TakenInOrder, UncountedIsNew, DraftIsNew

(* Starting to log an entry that no file and no list of the monitor has.   *)
LEMMA LogKeepsOrder ==
  ASSUME TypeOK, InOrder, NEW e \in Entry, e.type = "event" => e.seq = Len(logged) + 1,
         logged' = Append(logged, e), UNCHANGED <<file, cwd, mon, batch, count, handled>>,
         writer' = "opened" => draft' = Append(ReadExisting(file[cwd]), e)
  PROVE  InOrder'
<1>0. /\ cwd \in Dirs /\ Home \in Dirs /\ logged \in Seq(Entry) /\ Len(logged) \in Nat
      /\ handled \in Seq(Entry) /\ batch \in Seq(Entry)
  BY LogAssumption DEF TypeOK
<1>1. Len(logged') = Len(logged) + 1
  BY <1>0, AppendType
<1>2. \A s \in Seq(Entry) : Older(s, Len(logged) + 1) => Older(s, Len(logged') + 1)
  BY <1>0, <1>1, OlderGrows
<1>3. FilesInOrder'
  BY <1>2, DocTypes DEF InOrder, FilesInOrder
<1>4. TakenInOrder' /\ UncountedIsNew'
  BY <1>0, <1>2 DEF InOrder, TakenInOrder, UncountedIsNew
<1>5. ASSUME writer' = "opened" PROVE DraftIsNew'
  <2>1. Last(draft') = e
    BY <1>0, <1>5, DocTypes, AppendType
  <2>2. Youngest(e)'
    BY <1>1 DEF Youngest, InOrder, FilesInOrder, TakenInOrder
  <2>3. draft' = Append(ReadExisting(file[cwd])', Last(draft'))
    BY <1>5, <2>1 DEF ReadExisting, Complete, EndsInKey, BodyEnd
  <2> QED
    BY <2>1, <2>2, <2>3 DEF DraftIsNew, Youngest
<1>6. DraftIsNew'
  BY <1>5 DEF DraftIsNew
<1> QED
  BY <1>3, <1>4, <1>6 DEF InOrder

(* Steps that change none of the contents.                                 *)
LEMMA OrderStays ==
  ASSUME InOrder, \A d \in Dirs : file'[d].doc = file[d].doc, Home \in Dirs,
         UNCHANGED <<logged, batch, count, handled>>,
         mon' = "starting" => mon = "starting",
         writer' = "opened" => writer = "opened" /\ UNCHANGED <<file, cwd, draft>>
  PROVE  InOrder'
<1>1. FilesInOrder' /\ TakenInOrder' /\ UncountedIsNew'
  BY DEF InOrder, FilesInOrder, TakenInOrder, UncountedIsNew
<1>2. DraftIsNew'
  BY DEF InOrder, DraftIsNew, Youngest, ReadExisting, Complete, EndsInKey, BodyEnd
<1> QED
  BY <1>1, <1>2 DEF InOrder

(* The array replaces the document it was made from.                       *)
LEMMA TruncateKeepsOrder ==
  ASSUME TypeOK, InOrder, Truncate
  PROVE  InOrder'
<1> DEFINE r == ReadExisting(file[cwd])
           e == Last(draft)
<1>0. /\ cwd \in Dirs /\ Home \in Dirs /\ Len(logged) \in Nat /\ count \in Nat
      /\ handled \in Seq(Entry) /\ batch \in Seq(Entry) /\ e \in Entry /\ e.seq \in Nat
      /\ file[cwd] \in [doc : Seq(Entry), written : Nat] /\ r \in Seq(Entry)
  BY LogAssumption, LastType, SeqIsNat, DocTypes DEF TypeOK, Truncate
<1>1. draft = Append(r, e) /\ Youngest(e)
  BY DEF InOrder, DraftIsNew, Truncate
<1>2. /\ \A d \in Dirs \ {cwd} : file'[d] = file[d]
      /\ file'[cwd].doc = draft
      /\ UNCHANGED <<logged, batch, count, handled, mon>> /\ writer' = "writing"
  BY <1>0 DEF Truncate, monVars, TypeOK
<1>3. Ordered(r) /\ Older(r, Len(logged) + 1) /\ (e.type = "event" => Older(r, e.seq))
  BY <1>0, <1>1, ReadBackKeeps DEF InOrder, FilesInOrder, Youngest
<1>4. Ordered(draft) /\ Older(draft, Len(logged) + 1)
  <2>1. e.type = "event" => e.seq < Len(logged) + 1
    BY <1>0, <1>1 DEF Youngest
  <2>2. Len(logged) + 1 \in Nat
    BY <1>0
  <2> HIDE DEF r, e
  <2> QED
    BY <1>0, <1>1, <1>3, <2>1, <2>2, AppendKeeps
<1>5. FilesInOrder'
  BY <1>2, <1>4 DEF InOrder, FilesInOrder
<1>6. TakenInOrder'
  BY <1>2 DEF InOrder, TakenInOrder
<1>7. ASSUME cwd = Home PROVE UncountedIsNew'
  <2>1. After(r, count, handled) /\ After(r, count, batch)
    BY <1>0, <1>7, ReadBackKeeps DEF InOrder, UncountedIsNew
  <2>2. After(draft, count, handled) /\ After(draft, count, batch)
    <3>1. e.type = "event" => Older(handled, e.seq) /\ Older(batch, e.seq)
      BY <1>1 DEF Youngest
    <3> HIDE DEF r, e
    <3> QED
      BY <1>0, <1>1, <2>1, <3>1, AppendKeeps
  <2> QED
    BY <1>2, <1>7, <2>2 DEF UncountedIsNew
<1>8. ASSUME cwd # Home PROVE UncountedIsNew'
  BY <1>0, <1>2, <1>8 DEF InOrder, UncountedIsNew
<1> QED
  BY <1>2, <1>5, <1>6, <1>7, <1>8 DEF InOrder, DraftIsNew

(* The monitor counts a whole array, and takes what it had not counted.    *)
LEMMA TakeKeepsOrder ==
  ASSUME TypeOK, InOrder, StartMonitoring \/ PollArray
  PROVE  InOrder'
<1> DEFINE f == file[Home]
<1>0. /\ Home \in Dirs /\ f \in [doc : Seq(Entry), written : Nat] /\ f.doc \in Seq(Entry)
      /\ Len(f.doc) \in Nat /\ count \in Nat /\ handled \in Seq(Entry)
  BY LogAssumption, DocTypes DEF TypeOK
<1>1. UNCHANGED <<file, cwd, writer, draft, logged, handled>>
  BY DEF StartMonitoring, PollArray, dllVars
<1>2. Ordered(f.doc) /\ Older(f.doc, Len(logged) + 1) /\ After(f.doc, count, handled)
  BY <1>0 DEF InOrder, FilesInOrder, UncountedIsNew
<1>3. \/ batch' = <<>>
      \/ /\ batch' \in Seq(Entry) /\ count' = Len(f.doc)
         /\ \E c \in Nat : /\ After(f.doc, c, handled) /\ Len(batch') + c = Len(f.doc)
                         /\ \A i \in 1..Len(batch') : batch'[i] = f.doc[c + i]
  <2>1. CASE StartMonitoring
    <3>1. handled = <<>>
      BY <2>1 DEF StartMonitoring, InOrder, TakenInOrder
    <3>2. After(f.doc, 0, handled)
      BY <3>1, EmptyInOrder
    <3>3. CASE Complete(f)
      <4>1. batch' = f.doc /\ count' = Len(f.doc)
        BY <2>1, <3>3 DEF StartMonitoring, ExistingEntries
      <4>2. Len(batch') + 0 = Len(f.doc) /\ \A i \in 1..Len(batch') : batch'[i] = f.doc[0 + i]
        BY <1>0, <4>1
      <4> QED
        BY <1>0, <3>2, <4>1, <4>2
    <3>4. CASE ~Complete(f)
      BY <2>1, <3>4 DEF StartMonitoring, ExistingEntries
    <3> QED
      BY <3>3, <3>4
  <2>2. CASE PollArray
    <3>1. batch' = SubSeq(f.doc, count + 1, Len(f.doc)) /\ count' = Len(f.doc)
      BY <2>2 DEF PollArray, NewEntries
    <3>2. CASE count + 1 > Len(f.doc)
      BY <1>0, <3>1, <3>2
    <3>3. CASE count + 1 <= Len(f.doc)
      <4>1. /\ batch' \in Seq(Entry) /\ Len(batch') + count = Len(f.doc)
            /\ \A i \in 1..Len(batch') : batch'[i] = f.doc[count + i]
        BY <1>0, <3>1, <3>3, SubSeqProperties
      <4> QED
        BY <1>0, <1>2, <3>1, <4>1
    <3>4. count + 1 > Len(f.doc) \/ count + 1 <= Len(f.doc)
      BY <1>0
    <3> QED
      BY <3>2, <3>3, <3>4
  <2> QED
    BY <2>1, <2>2
<1>4. count' = Len(f.doc) \/ (handled = <<>> /\ batch' = <<>>)
  BY DEF StartMonitoring, PollArray, ExistingEntries, InOrder, TakenInOrder
<1>5. Ordered(batch') /\ Older(batch', Len(logged) + 1) /\ After(batch', 0, handled)
  <2>1. CASE batch' = <<>>
    BY <2>1, EmptyInOrder
  <2>2. ASSUME NEW c \in Nat, batch' \in Seq(Entry), After(f.doc, c, handled),
               Len(batch') + c = Len(f.doc), \A i \in 1..Len(batch') : batch'[i] = f.doc[c + i]
        PROVE  Ordered(batch') /\ Older(batch', Len(logged) + 1) /\ After(batch', 0, handled)
    <3>1. Len(batch') \in Nat /\ \A i \in 1..Len(batch') : c + i \in 1..Len(f.doc) /\ c + i > c
      BY <1>0, <2>2
    <3>2. \A i, j \in 1..Len(batch') : i < j => c + i < c + j
      BY <3>1
    <3>3. Ordered(batch')
      <4> SUFFICES ASSUME NEW i \in 1..Len(batch'), NEW j \in 1..Len(batch'), i < j,
                          batch'[i].type = "event", batch'[j].type = "event"
                   PROVE  batch'[i].seq < batch'[j].seq
        BY DEF Ordered
      <4>1. /\ c + i \in 1..Len(f.doc) /\ c + j \in 1..Len(f.doc) /\ c + i < c + j
            /\ batch'[i] = f.doc[c + i] /\ batch'[j] = f.doc[c + j]
        BY <2>2, <3>1, <3>2
      <4> HIDE DEF f
      <4> QED
        BY <1>2, <4>1 DEF Ordered
    <3>4. Older(batch', Len(logged) + 1)
      BY <1>2, <2>2, <3>1 DEF Older
    <3>5. After(batch', 0, handled)
      BY <2>2, <3>1 DEF After
    <3> QED
      BY <3>3, <3>4, <3>5
  <2> QED
    BY <1>3, <2>1, <2>2
<1>6. UncountedIsNew'
  <2>1. \A t : After(f.doc, Len(f.doc), t)
    BY <1>0 DEF After
  <2> QED
    BY <1>1, <1>4, <2>1, EmptyInOrder DEF UncountedIsNew
<1>7. TakenInOrder' /\ FilesInOrder'
  <2>1. mon' # "starting"
    BY DEF StartMonitoring, PollArray
  <2> QED
    BY <1>1, <1>5, <2>1 DEF InOrder, TakenInOrder, FilesInOrder
<1>8. DraftIsNew'
  <2>1. ASSUME writer = "opened", Last(draft).type = "event" PROVE Older(batch', Last(draft).seq)
    <3> DEFINE n == Last(draft).seq
    <3>1. Older(f.doc, n)
      BY <1>0, <2>1 DEF InOrder, DraftIsNew, Youngest
    <3>2. CASE batch' = <<>>
      BY <3>2, EmptyInOrder
    <3>3. ASSUME NEW c \in Nat, batch' \in Seq(Entry), Len(batch') + c = Len(f.doc),
                 \A i \in 1..Len(batch') : batch'[i] = f.doc[c + i]
          PROVE  Older(batch', n)
      <4>1. \A i \in 1..Len(batch') : c + i \in 1..Len(f.doc)
        BY <1>0, <3>3
      <4> QED
        BY <3>1, <3>3, <4>1 DEF Older
    <3> QED
      BY <1>3, <3>2, <3>3
  <2> QED
    BY <1>1, <2>1 DEF InOrder, DraftIsNew, Youngest, ReadExisting, Complete, EndsInKey, BodyEnd
<1> QED
  BY <1>6, <1>7, <1>8 DEF InOrder

(* The first of what waits is handled.                                     *)
LEMMA HandleKeepsOrder ==
  ASSUME TypeOK, InOrder, HandleEntry
  PROVE  InOrder'
<1> DEFINE e == Head(batch)
<1>0. /\ batch # <<>> /\ batch \in Seq(Entry) /\ handled \in Seq(Entry) /\ Home \in Dirs
      /\ count \in Nat /\ Len(batch) \in Nat /\ Len(logged) \in Nat
  BY LogAssumption DEF TypeOK, HandleEntry
<1>1. /\ Len(batch) >= 1 /\ e = batch[1] /\ e \in Entry /\ e.seq \in Nat
      /\ batch' = Tail(batch) /\ batch' \in Seq(Entry) /\ Len(batch') = Len(batch) - 1
      /\ \A i \in 1..Len(batch') : batch'[i] = batch[i + 1]
  BY <1>0, EmptySeq, HeadTailProperties, SeqIsNat DEF HandleEntry
<1>2. \A i \in 1..Len(batch') : i + 1 \in 1..Len(batch)
  BY <1>0, <1>1
<1>3. handled' = Append(handled, e) /\ Len(handled') = Len(handled) + 1
      /\ handled'[Len(handled) + 1] = e /\ (\A i \in 1..Len(handled) : handled'[i] = handled[i])
      /\ Len(handled) \in Nat
  BY <1>0, <1>1, AppendProperties DEF HandleEntry
<1>4. UNCHANGED <<file, cwd, draft, logged, count>> /\ mon' # "starting"
      /\ writer' \in {writer, "gone"}
  BY DEF HandleEntry, PlaceAfter
<1>5. e.type = "event" => Older(handled, e.seq) /\ e.seq < Len(logged) + 1
  BY <1>0, <1>1 DEF InOrder, TakenInOrder, After, Older
<1>6. Ordered(batch') /\ Older(batch', Len(logged) + 1)
  BY <1>1, <1>2 DEF InOrder, TakenInOrder, Ordered, Older
<1>7. Ordered(handled') /\ Older(handled', Len(logged) + 1)
  <2>1. Ordered(handled) /\ Older(handled, Len(logged) + 1) /\ Len(logged) + 1 \in Nat
    BY <1>0 DEF InOrder, TakenInOrder
  <2> HIDE DEF e
  <2> QED
    BY <1>0, <1>1, <1>3, <1>5, <2>1, AppendKeeps
<1>8. After(batch', 0, handled')
  <2> SUFFICES ASSUME NEW i \in 1..Len(batch'), NEW j \in 1..Len(handled'),
                      batch'[i].type = "event", handled'[j].type = "event"
               PROVE  handled'[j].seq < batch'[i].seq
    BY DEF After
  <2>1. i + 1 \in 1..Len(batch) /\ batch'[i] = batch[i + 1] /\ i + 1 > 1 /\ 1 \in 1..Len(batch)
    BY <1>0, <1>1, <1>2
  <2>2. CASE j \in 1..Len(handled)
    BY <1>3, <2>1, <2>2 DEF InOrder, TakenInOrder, After
  <2>3. CASE j = Len(handled) + 1
    BY <1>1, <1>3, <2>1, <2>3 DEF InOrder, TakenInOrder, Ordered
  <2> QED
    BY <1>3, <2>2, <2>3
<1>9. ASSUME NEW n, Older(handled, n), Older(batch, n) PROVE Older(batch', n) /\ Older(handled', n)
  <2>1. Older(batch', n)
    BY <1>1, <1>2, <1>9 DEF Older
  <2>2. \A i \in 1..Len(handled') : i \in 1..Len(handled) \/ i = Len(handled) + 1
    BY <1>3
  <2>3. 1 \in 1..Len(batch)
    BY <1>0, <1>1
  <2>4. Older(handled', n)
    BY <1>1, <1>3, <1>9, <2>2, <2>3 DEF Older
  <2> QED
    BY <2>1, <2>4
<1>10. UncountedIsNew'
  <2> DEFINE d == file[Home].doc
  <2>1. After(d, count, handled) /\ After(d, count, batch)
    BY DEF InOrder, UncountedIsNew
  <2>2. After(d, count, batch')
    BY <1>1, <1>2, <2>1 DEF After
  <2>3. After(d, count, handled')
    <3> SUFFICES ASSUME NEW i \in 1..Len(d), NEW j \in 1..Len(handled'), i > count,
                        d[i].type = "event", handled'[j].type = "event"
                 PROVE  handled'[j].seq < d[i].seq
      BY DEF After
    <3>1. CASE j \in 1..Len(handled)
      BY <1>3, <2>1, <3>1 DEF After
    <3>2. CASE j = Len(handled) + 1
      <4>1. 1 \in 1..Len(batch)
        BY <1>0, <1>1
      <4> QED
        BY <1>1, <1>3, <2>1, <3>2, <4>1 DEF After
    <3> QED
      BY <1>3, <3>1, <3>2
  <2> QED
    BY <1>4, <2>2, <2>3 DEF UncountedIsNew
<1>11. TakenInOrder' /\ FilesInOrder'
  BY <1>4, <1>6, <1>7, <1>8 DEF InOrder, TakenInOrder, FilesInOrder
<1>12. DraftIsNew'
  BY <1>4, <1>9 DEF InOrder, DraftIsNew, Youngest, ReadExisting, Complete, EndsInKey, BodyEnd
<1> QED
  BY <1>10, <1>11, <1>12 DEF InOrder

(* No step of the DLL or the monitor disturbs the order, whatever fails.   *)
LEMMA InOrderKept == TypeOK /\ InOrder /\ [Next]_vars => InOrder'
<1> SUFFICES ASSUME TypeOK, InOrder, [Next]_vars PROVE InOrder'
  OBVIOUS
<1>0. /\ cwd \in Dirs /\ Home \in Dirs /\ logged \in Seq(Entry) /\ Len(logged) \in Nat
  BY LogAssumption DEF TypeOK
<1>1. ASSUME NEW e \in Entry, e.type = "event" => e.seq = Len(logged) + 1, LogEntry(e)
      PROVE  InOrder'
  BY <1>1, LogKeepsOrder DEF LogEntry, BeginAppend, OpenFails, Settle, monVars
<1>2. CASE LogEvent
  <2>1. Len(logged) + 1 \in 1..MaxEvents
    BY <1>0, <1>2, LogAssumption DEF LogEvent
  <2> QED
    BY <1>1, <1>2, <2>1, EntryTypes DEF LogEvent, Event
<1>3. CASE Detach
  BY <1>1, <1>3, EntryTypes DEF Detach, HookRemoved
<1>4. CASE ConsoleClose
  <2>1. HookRemoved \in Entry /\ HookRemoved.type # "event"
    BY EntryTypes DEF HookRemoved
  <2>2. /\ logged' = Append(logged, HookRemoved)
        /\ UNCHANGED <<file, cwd, mon, batch, count, handled>>
        /\ draft' = Append(ReadExisting(file[cwd]), HookRemoved)
    BY <1>4 DEF ConsoleClose, BeginAppend, monVars
  <2> QED
    BY <2>1, <2>2, LogKeepsOrder
<1>5. CASE Truncate
  BY <1>5, TruncateKeepsOrder
<1>6. CASE Write
  <2>1. \A d \in Dirs : file'[d].doc = file[d].doc
    BY <1>0, <1>6, OneMoreToken DEF Write, TypeOK
  <2> QED
    BY <1>0, <1>6, <2>1, OrderStays DEF Write, Settle, monVars
<1>7. CASE \E d \in Dirs : ChangeDir(d)
  BY <1>0, <1>7, OrderStays DEF ChangeDir, monVars
<1>8. CASE WriteFails \/ Killed
  BY <1>0, <1>8, OrderStays DEF WriteFails, Settle, Killed, monVars
<1>9. CASE StartMonitoring \/ PollArray
  BY <1>9, TakeKeepsOrder
<1>10. CASE PollEmpty \/ Reread \/ Interrupt
  BY <1>0, <1>10, OrderStays DEF PollEmpty, Reread, Interrupt, dllVars
<1>11. CASE HandleEntry
  BY <1>11, HandleKeepsOrder
<1>12. CASE UNCHANGED vars
  BY <1>0, <1>12, OrderStays DEF vars
<1> QED
  BY <1>2, <1>3, <1>4, <1>5, <1>6, <1>7, <1>8, <1>9, <1>10, <1>11, <1>12
     DEF Next, DllNext, DllStep, MonNext, MonStep

(* No command is put to the user twice, or after a later one, whatever is  *)
(* torn, forgotten or written to another directory.                        *)
THEOREM NoneIsHandledTwice == Spec => []HandledOnce
<1>1. TypeOK /\ InOrder => HandledOnce
  <2> SUFFICES ASSUME TypeOK, InOrder, NEW i \in 1..Len(handled), NEW j \in 1..Len(handled),
                      i < j, {handled[i].type, handled[j].type} = {"event"}
               PROVE  handled[i].seq < handled[j].seq
    BY DEF HandledOnce
  <2>1. handled[i].type = "event" /\ handled[j].type = "event"
    OBVIOUS
  <2> QED
    BY <2>1 DEF InOrder, TakenInOrder, Ordered
<1> QED
  BY <1>1, InOrderInit, InOrderKept, TypeCorrect, PTL DEF Spec

===============================================================================
