---------------------------- MODULE DebuggerProofs ----------------------------
(***************************************************************************)
(* Proofs about Debugger, for any command lines, rules, number of breaks   *)
(* and combination of faults.                                              *)
(***************************************************************************)
EXTENDS Debugger, SequenceTheorems, TLAPS

Lines0 == Lines \cup {NoLine}

(* An entry appended to the log leaves the earlier ones where they were.   *)
LEMMA AppendToLog ==
  ASSUME log \in Seq(0..MaxBreaks), NEW e \in 0..MaxBreaks
  PROVE  /\ Append(log, e) \in Seq(0..MaxBreaks)
         /\ Len(log) \in Nat /\ Len(Append(log, e)) = Len(log) + 1
         /\ Append(log, e)[Len(log) + 1] = e
         /\ \A n \in 1..Len(log) : Append(log, e)[n] = log[n]
BY AppendProperties

(* The replies the monitor can give, and the line each of them runs. *)
LEMMA ReplyTypes ==
  /\ Continue \in Replies /\ Skip \in Replies
  /\ \A c \in Lines0 : Edit(c) \in Replies
  /\ None \notin Replies
BY DebuggerAssumption DEF Continue, Skip, Edit, Replies, Lines0

LEMMA CarriedType ==
  ASSUME NEW r \in Replies, NEW c \in Lines0
  PROVE  Parse(r) \in Replies /\ Carried(c, r) \in Lines0
BY DEF Parse, Torn, Replies, Carried, Lines0

(* What the DLL makes of a reply is among what the contract allows for it. *)
LEMMA CarriedHonours ==
  ASSUME NEW r \in Replies, NEW c
  PROVE  Contract!Honours(Carried(c, r), c, r)
BY DEF Carried, Contract!Honours, Replies

(* The elements of a sequence over S are in S. *)
LEMMA Elements ==
  ASSUME NEW S, NEW s \in Seq(S)
  PROVE  Len(s) \in Nat /\ \A n \in 1..Len(s) : s[n] \in S
OBVIOUS

(* An interval loses no more than its start when its start grows. *)
LEMMA Narrowed ==
  ASSUME NEW a \in Nat, NEW b \in Nat, NEW c \in Nat, b >= a
  PROVE  \A n \in (b + 1)..c : n \in (a + 1)..c
OBVIOUS

(* What a log entry can be. *)
LEMMA LogEntries ==
  ASSUME LogTypes, DllTypes
  PROVE  /\ Len(log) \in Nat
         /\ \A n \in 1..Len(log) : log[n] \in Nat /\ log[n] < breakId
         /\ \A n \in 1..Len(log) : log[n] # Removal => log[n] \in Ids /\ reached[log[n]] \in Lines
<1>1. Len(log) \in Nat /\ \A n \in 1..Len(log) : log[n] \in 0..MaxBreaks
  BY Elements DEF LogTypes
<1>2. \A n \in 1..Len(log) : log[n] < breakId
  BY DEF LogTypes
<1>3. \A n \in 1..Len(log) : log[n] # Removal => log[n] \in Ids
  BY <1>1, DebuggerAssumption DEF Ids, Removal
<1> QED
  BY <1>1, <1>2, <1>3, DebuggerAssumption DEF DllTypes

(* The log, and what the monitor knows of it, stays well formed when       *)
(* cmd.exe appends to it.                                                  *)
LEMMA LogStaysTyped ==
  ASSUME TypeOK, NEW e \in 0..MaxBreaks, e < breakId', breakId <= breakId', breakId' \in Nat,
         log' = Append(log, e) \/ log' = log,
         UNCHANGED <<mon, seen, existing>>
  PROVE  LogTypes'
<1> USE DEF TypeOK
<1>0. breakId \in Nat /\ MaxBreaks \in Nat
  BY DebuggerAssumption DEF DllTypes
<1>1. CASE log' = log
  <2>1. \A n \in 1..Len(log) : log[n] < breakId'
    BY <1>0, LogEntries
  <2> QED
    BY <1>1, <2>1 DEF LogTypes, Busy, Asked
<1>2. CASE log' = Append(log, e)
  <2>1. /\ log' \in Seq(0..MaxBreaks) /\ Len(log) \in Nat /\ Len(log') = Len(log) + 1
        /\ log'[Len(log) + 1] = e /\ \A n \in 1..Len(log) : log'[n] = log[n]
    BY <1>2, AppendToLog DEF LogTypes
  <2>2. \A n \in 1..Len(log') : log'[n] < breakId'
    <3> TAKE n \in 1..Len(log')
    <3>1. n = Len(log) + 1 \/ n \in 1..Len(log)
      BY <2>1
    <3> QED
      BY <1>0, <2>1, LogEntries, <3>1
  <2>3. Busy => seen \in 1..Len(log) /\ log'[seen] = log[seen]
    BY <2>1 DEF LogTypes, Busy
  <2> QED
    BY <2>1, <2>2, <2>3 DEF LogTypes, Busy, Asked
<1> QED
  BY <1>1, <1>2

(* What the monitor is about to take, if it is a break. *)
LEMMA TakenEntry ==
  ASSUME TypeOK, Take, Entry # Removal, UNCHANGED log
  PROVE  /\ Entry \in Ids /\ Line \in Lines
         /\ seen' \in 1..Len(log) /\ Asked' = Entry
BY LogEntries DEF TypeOK, LogTypes, Take, Entry, Line, Asked

(* The break being handled. *)
LEMMA AskedEntry ==
  ASSUME TypeOK, Busy
  PROVE  Asked \in Ids /\ reached[Asked] \in Lines /\ seen \in 1..Len(log)
BY LogEntries DEF TypeOK, LogTypes, Asked

(* Recording a decision keeps the monitor's state well formed. *)
LEMMA DecideTyped ==
  ASSUME MonTypes, NEW i \in Ids, NEW by \in Choices, NEW r \in Replies, Decide(i, by, r)
  PROVE  /\ mon' = "replying" /\ reply' \in Replies
         /\ choice' \in [Ids -> Decisions \cup {None}]
         /\ UNCHANGED <<response, published>>
BY DEF Decide, MonTypes, Decisions

(* The state is well formed at every step. *)
THEOREM TypeCorrect == Spec => []TypeOK
<1>1. Init => TypeOK
  BY DebuggerAssumption, ReplyTypes, EmptySeq
     DEF Init, TypeOK, DllTypes, LogTypes, MonTypes, Ids, Busy, Removal
<1>2. TypeOK /\ [Next]_vars => TypeOK'
  <2> SUFFICES ASSUME TypeOK, [Next]_vars PROVE TypeOK'
    OBVIOUS
  <2> USE DEF TypeOK
  <2>1. ASSUME NEW c \in Lines, Break(c) PROVE TypeOK'
    <3>1. /\ breakId \in Ids /\ breakId' = breakId + 1 /\ dll' = "waiting"
          /\ reached' = [reached EXCEPT ![breakId] = c]
          /\ log' = Append(log, breakId) \/ log' = log
          /\ UNCHANGED <<result, timedOut, response, monVars>>
      BY <2>1, DebuggerAssumption DEF Break, Ids, DllTypes
    <3>2. DllTypes'
      BY <3>1, DebuggerAssumption DEF Ids, DllTypes
    <3>3. breakId \in 0..MaxBreaks /\ breakId < breakId' /\ breakId <= breakId' /\ breakId' \in Nat
      BY <3>1, DebuggerAssumption DEF Ids
    <3>4. LogTypes'
      BY <3>1, <3>3, LogStaysTyped DEF monVars
    <3> QED
      BY <3>1, <3>2, <3>4 DEF monVars, rules, MonTypes
  <2>2. ASSUME NEW x \in Lines0, Resume(x), response' \in [Ids -> Replies \cup {None}],
               timedOut' \subseteq Ids
        PROVE  TypeOK'
    <3>1. DllTypes'
      BY <2>2 DEF Resume, DllTypes, Lines0
    <3>2. LogTypes' /\ MonTypes'
      BY <2>2 DEF Resume, LogTypes, MonTypes, Busy, Asked, monVars, rules
    <3> QED
      BY <3>1, <3>2
  <2>3. dll = "waiting" => Held \in Ids /\ reached[Held] \in Lines0
    BY DebuggerAssumption DEF Held, Ids, Lines0, DllTypes
  <2>4. CASE TakeReply
    <3>1. response[Held] \in Replies /\ Held \in Ids /\ reached[Held] \in Lines0
      BY <2>3, <2>4, DebuggerAssumption DEF TakeReply, FileFor, MonTypes
    <3>2. Carried(reached[Held], Parse(response[Held])) \in Lines0
      BY <3>1, CarriedType
    <3>3. response' \in [Ids -> Replies \cup {None}] /\ timedOut' \subseteq Ids
      BY <2>4 DEF TakeReply, MonTypes, DllTypes
    <3> QED
      BY <2>2, <2>4, <3>2, <3>3 DEF TakeReply, FileFor
  <2>5. CASE TimeOut
    <3>1. Held \in Ids /\ reached[Held] \in Lines0
      BY <2>3, <2>5 DEF TimeOut, Resume
    <3>2. response' \in [Ids -> Replies \cup {None}] /\ timedOut' \subseteq Ids
      BY <2>5, <3>1 DEF TimeOut, MonTypes, DllTypes
    <3> QED
      BY <2>2, <2>5, <3>1, <3>2 DEF TimeOut
  <2>6. CASE Exit
    <3>1. Removal \in 0..MaxBreaks /\ Removal < breakId /\ breakId <= breakId /\ breakId \in Nat
      BY DebuggerAssumption DEF Removal, DllTypes
    <3>2. LogTypes'
      BY <2>6, <3>1, LogStaysTyped DEF Exit, monVars
    <3> QED
      BY <2>6, <3>2 DEF Exit, monVars, rules, DllTypes, MonTypes
  <2>7. CASE Start
    BY <2>7 DEF Start, dllVars, rules, Busy, DllTypes, LogTypes, MonTypes
  <2>8. ASSUME NEW by \in Choices, NEW r \in Replies, NEW p, RuleAnswers(by, p, r)
        PROVE  TypeOK'
    <3>1. Take /\ Entry # Removal /\ Decide(Entry, by, r) /\ UNCHANGED rules
      BY <2>8 DEF RuleAnswers
    <3>2. Entry \in Ids /\ seen' \in 1..Len(log) /\ Asked' = Entry
      BY <3>1, TakenEntry DEF Decide
    <3>3. UNCHANGED <<dllVars, log, existing>>
      BY <3>1 DEF Decide
    <3>4. DllTypes' /\ LogTypes'
      BY <3>1, <3>2, <3>3 DEF DllTypes, LogTypes, dllVars
    <3> QED
      BY <3>1, <3>2, <3>4, DecideTyped DEF MonTypes, rules, Decisions
  <2>9. CASE RootContinue \/ AutoSkip \/ AutoContinue
    BY <2>8, <2>9, ReplyTypes DEF RootContinue, AutoSkip, AutoContinue, Choices
  <2>10. CASE Prompt
    <3>1. Entry \in Ids /\ seen' \in 1..Len(log) /\ Asked' = Entry /\ Entry # Removal
      BY <2>10, TakenEntry DEF Prompt
    <3> QED
      BY <2>10, <3>1 DEF Prompt, dllVars, rules, DllTypes, LogTypes, MonTypes
  <2>11. ASSUME NEW by \in Choices, NEW r \in Replies, UserDecides(by, r),
                autoContinue' \subseteq Keys, autoSkip' \subseteq Keys, rootContinue' \subseteq Roots
         PROVE  TypeOK'
    <3>1. mon = "prompting" /\ Decide(Asked, by, r) /\ UNCHANGED seen
      BY <2>11 DEF UserDecides
    <3>2. Asked \in Ids
      BY <3>1, AskedEntry DEF Busy
    <3>3. DllTypes' /\ LogTypes'
      BY <3>1 DEF DllTypes, LogTypes, Decide, dllVars, Busy, Asked
    <3> QED
      BY <2>11, <3>1, <3>2, <3>3, DecideTyped DEF MonTypes, Decisions
  <2>12. CASE Choose
    <3>1. mon = "prompting"
      BY <2>12 DEF Choose, ChooseOnce, ChooseSkip, ChooseEdit, ChooseAutoContinue,
                   ChooseAutoSkip, ChooseIgnoreRepeats, ChooseIgnoreRoot, UserDecides
    <3>2. /\ AddKey(autoContinue) \subseteq Keys /\ AddKey(autoSkip) \subseteq Keys
          /\ AddRoot(rootContinue) \subseteq Roots
      BY <3>1, AskedEntry, DebuggerAssumption DEF AddKey, AddRoot, MonTypes, Busy
    <3>3. autoContinue \subseteq Keys /\ autoSkip \subseteq Keys /\ rootContinue \subseteq Roots
      BY DEF MonTypes
    <3>4. ASSUME NEW t \in Edits, ChooseEdit(t) PROVE TypeOK'
      <4> DEFINE r == IF EditedLine[t] = NoLine THEN Continue ELSE Edit(EditedLine[t])
      <4>1. r \in Replies
        BY ReplyTypes, DebuggerAssumption DEF Lines0
      <4>2. UserDecides("e", r) /\ UNCHANGED rules
        BY <3>4 DEF ChooseEdit
      <4> QED
        BY <2>11, <3>3, <4>1, <4>2 DEF Choices, rules
    <3>5. CASE ChooseOnce \/ ChooseSkip
      BY <2>11, <3>3, <3>5, ReplyTypes DEF ChooseOnce, ChooseSkip, Choices, rules
    <3>6. CASE ChooseAutoContinue \/ ChooseIgnoreRepeats
      BY <2>11, <3>2, <3>3, <3>6, ReplyTypes DEF ChooseAutoContinue, ChooseIgnoreRepeats, Choices
    <3>7. CASE ChooseAutoSkip \/ ChooseIgnoreRoot
      BY <2>11, <3>2, <3>3, <3>7, ReplyTypes DEF ChooseAutoSkip, ChooseIgnoreRoot, Choices
    <3> QED
      BY <2>12, <3>4, <3>5, <3>6, <3>7 DEF Choose
  <2>13. CASE WriteTemp
    BY <2>13 DEF WriteTemp, dllVars, rules, Busy, Asked, DllTypes, LogTypes, MonTypes
  <2>14. CASE Replace
    BY <2>14 DEF Replace, dllVars, rules, Busy, Asked, DllTypes, LogTypes, MonTypes
  <2>15. CASE SeeRemoval
    BY <2>15 DEF SeeRemoval, Take, rules, Busy, DllTypes, LogTypes, MonTypes
  <2>16. CASE Raise
    BY <2>16 DEF Raise, dllVars, rules, Busy, DllTypes, LogTypes, MonTypes
  <2>17. CASE Interrupt
    BY <2>17 DEF Interrupt, dllVars, rules, Busy, DllTypes, LogTypes, MonTypes
  <2>18. CASE UNCHANGED vars
    BY <2>18 DEF vars, dllVars, monVars, rules, Busy, Asked, DllTypes, LogTypes, MonTypes
  <2> QED
    BY <2>1, <2>4, <2>5, <2>6, <2>7, <2>9, <2>10, <2>12, <2>13, <2>14, <2>15, <2>16, <2>17, <2>18
       DEF Next, DllNext, MonNext, Answer
<1> QED
  BY <1>1, <1>2, PTL DEF Spec

-------------------------------------------------------------------------------
(* The steps that only move the monitor leave the DLL's side alone. *)
LEMMA MonitorFrame ==
  ASSUME MonNext
  PROVE  /\ UNCHANGED <<breakId, reached, result, timedOut, log>>
         /\ dll' \in {dll, "exited"}
BY DEF MonNext, Answer, Choose, Start, RootContinue, AutoSkip, AutoContinue, RuleAnswers, Prompt,
       WriteTemp, Replace, SeeRemoval, ChooseOnce, ChooseSkip, ChooseAutoContinue,
       ChooseAutoSkip, ChooseIgnoreRepeats, ChooseIgnoreRoot, ChooseEdit, UserDecides, Decide,
       Raise, Interrupt, dllVars

(* The log stays ordered. *)
LEMMA LogOrderedStep ==
  ASSUME TypeOK, LogOrdered, [Next]_vars
  PROVE  LogOrdered'
<1> USE DEF TypeOK
<1>1. ASSUME NEW e \in 0..MaxBreaks, dll # "exited", log' = Append(log, e),
             e = Removal \/ e = breakId, e = Removal => dll' = "exited"
      PROVE  LogOrdered'
  <2>1. /\ Len(log) \in Nat /\ Len(log') = Len(log) + 1
        /\ log'[Len(log) + 1] = e /\ \A n \in 1..Len(log) : log'[n] = log[n]
    BY <1>1, AppendToLog DEF LogTypes
  <2>2. \A n \in 1..Len(log) : log[n] # Removal /\ log[n] < breakId
    BY <1>1, LogEntries DEF LogOrdered
  <2>3. ASSUME NEW m \in 1..Len(log'), NEW n \in 1..Len(log'), m < n
        PROVE  log'[m] # Removal /\ (log'[n] = Removal \/ log'[m] < log'[n])
    <3>1. m \in 1..Len(log) /\ (n \in 1..Len(log) \/ n = Len(log) + 1)
      BY <2>1, <2>3
    <3> QED
      BY <1>1, <2>1, <2>2, <2>3, <3>1 DEF LogOrdered
  <2>4. ASSUME NEW n \in 1..Len(log'), log'[n] = Removal PROVE dll' = "exited"
    <3>1. n \in 1..Len(log) \/ n = Len(log) + 1
      BY <2>1
    <3> QED
      BY <1>1, <2>1, <2>2, <2>4, <3>1
  <2> QED
    BY <2>3, <2>4 DEF LogOrdered
<1>2. ASSUME log' = log, dll' \in {dll, "exited"} \/ dll # "exited" PROVE LogOrdered'
  BY <1>2 DEF LogOrdered
<1>3. ASSUME NEW c \in Lines, Break(c) PROVE LogOrdered'
  <2>1. breakId \in 0..MaxBreaks /\ breakId # Removal /\ dll = "running"
    BY <1>3, DebuggerAssumption DEF Break, DllTypes, Removal
  <2> QED
    BY <1>1, <1>2, <1>3, <2>1 DEF Break
<1>4. CASE TakeReply \/ TimeOut
  BY <1>2, <1>4 DEF TakeReply, TimeOut, Resume
<1>5. CASE Exit
  BY <1>1, <1>2, <1>5, DebuggerAssumption DEF Exit, Removal
<1>6. CASE MonNext
  BY <1>2, <1>6, MonitorFrame
<1>7. CASE UNCHANGED vars
  BY <1>2, <1>7 DEF vars, dllVars
<1> QED
  BY <1>3, <1>4, <1>5, <1>6, <1>7 DEF Next, DllNext

(* Only the held break is unresolved. *)
LEMMA OneHeldStep ==
  ASSUME TypeOK, OneHeld, [Next]_vars
  PROVE  OneHeld'
<1> USE DEF TypeOK
<1>1. breakId \in Nat /\ MaxBreaks \in Nat /\ Ids = 1..MaxBreaks
  BY DebuggerAssumption DEF DllTypes, Ids
<1>2. ASSUME NEW c \in Lines, Break(c) PROVE OneHeld'
  <2>1. /\ breakId' = breakId + 1 /\ dll = "running" /\ dll' = "waiting"
        /\ UNCHANGED <<result, timedOut>>
    BY <1>2 DEF Break
  <2> QED
    BY <1>1, <2>1 DEF OneHeld, Held
<1>3. ASSUME NEW x \in Lines0, Resume(x), timedOut' \in {timedOut, timedOut \cup {Held}}
      PROVE  OneHeld'
  <2>1. /\ result' = [result EXCEPT ![Held] = x] /\ dll = "waiting" /\ dll' = "running"
        /\ breakId' = breakId /\ x # None
    BY <1>3, DebuggerAssumption DEF Resume, Lines0
  <2>2. Held \in Ids /\ Held < breakId /\ Held \in Nat
    BY <1>1, <2>1 DEF DllTypes, Held
  <2>3. \A i \in Ids : result'[i] = IF i = Held THEN x ELSE result[i]
    BY <2>1 DEF DllTypes
  <2>4. \A i \in Ids : i < breakId => result'[i] # None
    BY <1>1, <2>1, <2>3 DEF OneHeld
  <2>5. \A i \in Ids : i >= breakId => result'[i] = None
    BY <1>1, <2>2, <2>3 DEF OneHeld
  <2>6. \A i \in timedOut' : result'[i] # None
    BY <1>3, <2>1, <2>2, <2>3 DEF OneHeld, DllTypes
  <2> QED
    BY <2>1, <2>4, <2>5, <2>6 DEF OneHeld
<1>4. dll = "waiting" => Held \in Ids /\ reached[Held] \in Lines0
  BY DebuggerAssumption DEF Held, Ids, Lines0, DllTypes
<1>5. CASE TakeReply
  <2>1. response[Held] \in Replies /\ reached[Held] \in Lines0
    BY <1>4, <1>5, DebuggerAssumption DEF TakeReply, FileFor, MonTypes
  <2> QED
    BY <1>3, <1>5, <2>1, CarriedType DEF TakeReply, FileFor
<1>6. CASE TimeOut
  BY <1>3, <1>4, <1>6 DEF TimeOut, Resume
<1>7. CASE Exit
  BY <1>7 DEF Exit, OneHeld
<1>8. CASE MonNext
  BY <1>8, MonitorFrame DEF OneHeld, Held
<1>9. CASE UNCHANGED vars
  BY <1>9 DEF vars, dllVars, OneHeld, Held
<1> QED
  BY <1>2, <1>5, <1>6, <1>7, <1>8, <1>9 DEF Next, DllNext

(* The break about to be taken has not been decided before, and neither    *)
(* have later ones.                                                        *)
LEMMA EntryIsNew ==
  ASSUME TypeOK, LogOrdered, ReplyTraced, Take, Entry # Removal
  PROVE  /\ Entry \in Ids /\ Entry < breakId /\ choice[Entry] = None /\ published[Entry] = None
         /\ \A n \in (seen + 2)..Len(log) : log[n] = Removal \/ Entry < log[n]
         /\ \A i \in Ids : choice[i] # None => i < Entry
<1>1. seen + 1 \in 1..Len(log) /\ Entry = log[seen + 1] /\ Len(log) \in Nat /\ seen \in Nat
  BY LogEntries DEF Take, Entry, TypeOK, LogTypes
<1>2. Entry \in Ids /\ Entry \in Nat /\ Entry < breakId
  BY <1>1, LogEntries DEF TypeOK
<1>3. choice[Entry] = None
  BY <1>1, <1>2 DEF ReplyTraced
<1>4. \A n \in (seen + 2)..Len(log) : log[n] = Removal \/ Entry < log[n]
  BY <1>1 DEF LogOrdered
<1>5. \A i \in Ids : choice[i] # None => i < Entry
  BY <1>1 DEF ReplyTraced
<1> QED
  BY <1>2, <1>3, <1>4, <1>5 DEF ReplyTraced

(* The break the user is asked about has not been decided either. *)
LEMMA AskedIsNew ==
  ASSUME TypeOK, ReplyTraced, mon = "prompting"
  PROVE  /\ Asked \in Ids /\ choice[Asked] = None /\ published[Asked] = None
         /\ \A i \in Ids : choice[i] # None => i < Asked
<1>1. Asked \in Ids /\ Asked \in Nat
  BY AskedEntry, DebuggerAssumption DEF Busy, Ids
<1>2. choice[Asked] = None
  BY <1>1 DEF ReplyTraced
<1> QED
  BY <1>1, <1>2 DEF ReplyTraced

(* A decision for an undecided break keeps every reply traceable. *)
LEMMA DecideTraced ==
  ASSUME TypeOK, ReplyTraced, NEW i \in Ids, NEW by \in Choices, NEW r \in Replies, Decide(i, by, r),
         r # Torn, choice[i] = None, published[i] = None, i < breakId,
         seen' \in Nat, seen' >= seen, Asked' = i,
         \A n \in (seen' + 1)..Len(log) : log[n] = Removal \/ i < log[n]
  PROVE  ReplyTraced'
<1>1. /\ choice' = [choice EXCEPT ![i] = [by |-> by, reply |-> r]] /\ reply' = r
      /\ mon' = "replying" /\ UNCHANGED <<log, response, published, breakId>>
  BY DEF Decide, dllVars
<1>2. /\ choice'[i] = [by |-> by, reply |-> r]
      /\ \A j \in Ids : j # i => choice'[j] = choice[j]
  <2>1. choice \in [Ids -> Decisions \cup {None}]
    BY DEF TypeOK, MonTypes
  <2> QED
    BY <1>1, <2>1
<1>3. choice'[i] # None /\ choice'[i].reply = r
  <2>1. [by |-> by, reply |-> r] \in Decisions
    BY DEF Decisions
  <2> QED
    BY <1>2, <2>1, DebuggerAssumption
<1>4. \A j \in Ids : published[j] # None =>
        published[j] # Torn /\ choice'[j] # None /\ choice'[j].reply = published[j]
  BY <1>2 DEF ReplyTraced
<1>5. ASSUME NEW j \in Ids, choice'[j] # None
      PROVE  j < breakId /\ \A n \in (seen' + 1)..Len(log) : log[n] = Removal \/ j < log[n]
  <2>1. CASE j = i
    BY <2>1
  <2>2. CASE j # i
    <3>1. choice[j] # None /\ seen \in Nat /\ Len(log) \in Nat
      BY <1>2, <1>5, <2>2 DEF TypeOK, LogTypes
    <3>2. \A n \in (seen' + 1)..Len(log) : n \in (seen + 1)..Len(log)
      BY <3>1
    <3> QED
      BY <3>1, <3>2 DEF ReplyTraced
  <2> QED
    BY <2>1, <2>2
<1> QED
  BY <1>1, <1>3, <1>4, <1>5 DEF ReplyTraced

(* Every reply stays traceable to the decision made for its break. *)
LEMMA ReplyTracedStep ==
  ASSUME TypeOK, LogOrdered, ReplyTraced, [Next]_vars
  PROVE  ReplyTraced'
<1>0. /\ Len(log) \in Nat /\ seen \in Nat /\ existing \in Nat /\ breakId \in Nat
      /\ seen <= Len(log) /\ existing <= Len(log)
  BY LogEntries, DebuggerAssumption DEF TypeOK, LogTypes, DllTypes
<1>1. ASSUME NEW e \in 0..MaxBreaks, log' = Append(log, e) \/ log' = log, e = Removal \/ e = breakId,
             breakId' \in Nat, breakId <= breakId', UNCHANGED <<response, monVars>>
      PROVE  ReplyTraced'
  <2>1. ASSUME log' = Append(log, e)
        PROVE  /\ Len(log') = Len(log) + 1 /\ log'[Len(log) + 1] = e
               /\ \A n \in 1..Len(log) : log'[n] = log[n]
    BY <2>1, AppendToLog DEF TypeOK, LogTypes
  <2>2. ASSUME NEW i \in Ids, choice[i] # None
        PROVE  i < breakId' /\ \A n \in (seen + 1)..Len(log') : log'[n] = Removal \/ i < log'[n]
    <3>1. i < breakId /\ i \in Nat /\ \A n \in (seen + 1)..Len(log) : log[n] = Removal \/ i < log[n]
      BY <2>2, DebuggerAssumption DEF ReplyTraced, Ids
    <3>2. ASSUME log' = Append(log, e), NEW n \in (seen + 1)..Len(log')
          PROVE  log'[n] = Removal \/ i < log'[n]
      <4>1. (n \in (seen + 1)..Len(log) /\ n \in 1..Len(log)) \/ n = Len(log) + 1
        BY <1>0, <2>1, <3>2
      <4> QED
        BY <1>1, <2>1, <3>1, <3>2, <4>1
    <3> QED
      BY <1>0, <1>1, <3>1, <3>2
  <2>3. Busy => Asked' = Asked
    BY <1>0, <1>1, <2>1 DEF Asked, TypeOK, LogTypes, monVars
  <2> QED
    BY <1>1, <2>2, <2>3 DEF ReplyTraced, monVars, Busy
<1>2. ASSUME NEW c \in Lines, Break(c) PROVE ReplyTraced'
  <2>1. breakId \in 0..MaxBreaks
    BY <1>2, DebuggerAssumption DEF Break, TypeOK, DllTypes
  <2> QED
    BY <1>0, <1>1, <1>2, <2>1 DEF Break
<1>3. CASE Exit
  BY <1>0, <1>1, <1>3, DebuggerAssumption DEF Exit, Removal
<1>4. CASE TakeReply \/ TimeOut
  <2>1. UNCHANGED <<breakId, log, monVars>>
    BY <1>4 DEF TakeReply, TimeOut, Resume
  <2>2. \A i \in Ids : response'[i] \in {None, response[i]}
    BY <1>4 DEF TakeReply, TimeOut, TypeOK, MonTypes
  <2> QED
    BY <2>1, <2>2 DEF ReplyTraced, Asked, monVars
<1>5. ASSUME NEW by \in Choices, NEW r \in Replies, r # Torn, NEW a, RuleAnswers(by, a, r)
      PROVE  ReplyTraced'
  <2>1. Take /\ Entry # Removal /\ Decide(Entry, by, r) /\ seen' = seen + 1
    BY <1>5 DEF RuleAnswers, Take
  <2>2. Asked' = Entry /\ log' = log
    BY <2>1, TakenEntry DEF Decide
  <2>3. /\ Entry \in Ids /\ Entry < breakId /\ choice[Entry] = None /\ published[Entry] = None
        /\ \A n \in (seen' + 1)..Len(log) : log[n] = Removal \/ Entry < log[n]
    BY <1>0, <2>1, EntryIsNew
  <2> QED
    BY <1>0, <1>5, <2>1, <2>2, <2>3, DecideTraced
<1>6. ASSUME NEW by \in Choices, NEW r \in Replies, r # Torn, UserDecides(by, r)
      PROVE  ReplyTraced'
  <2>1. mon = "prompting" /\ Decide(Asked, by, r) /\ seen' = seen /\ log' = log
    BY <1>6 DEF UserDecides, Decide
  <2>2. Asked \in Ids /\ seen \in 1..Len(log) /\ Asked < breakId /\ Asked # Removal
    BY <2>1, AskedEntry, LogEntries DEF Busy, Asked, TypeOK, LogTypes
  <2>3. \A n \in (seen' + 1)..Len(log) : log[n] = Removal \/ Asked < log[n]
    BY <1>0, <2>1, <2>2 DEF LogOrdered, Asked
  <2>4. choice[Asked] = None /\ published[Asked] = None /\ Asked' = Asked
    BY <2>1, <2>2, AskedIsNew DEF Asked
  <2> QED
    BY <1>0, <1>6, <2>1, <2>2, <2>3, <2>4, DecideTraced
<1>7. Continue # Torn /\ Skip # Torn /\ \A c \in Lines : Edit(c) # Torn
  BY DebuggerAssumption DEF Continue, Skip, Edit, Torn
<1>8. CASE RootContinue \/ AutoSkip \/ AutoContinue
  BY <1>5, <1>7, <1>8, ReplyTypes DEF RootContinue, AutoSkip, AutoContinue, Choices
<1>9. CASE Choose
  <2>1. ASSUME NEW t \in Edits, ChooseEdit(t) PROVE ReplyTraced'
    <3> DEFINE r == IF EditedLine[t] = NoLine THEN Continue ELSE Edit(EditedLine[t])
    <3>1. r \in Replies /\ r # Torn
      BY <1>7, ReplyTypes, DebuggerAssumption DEF Lines0
    <3>2. UserDecides("e", r)
      BY <2>1 DEF ChooseEdit
    <3> QED
      BY <1>6, <3>1, <3>2 DEF Choices
  <2> QED
    BY <1>6, <1>7, <1>9, <2>1, ReplyTypes
       DEF Choose, ChooseOnce, ChooseSkip, ChooseAutoContinue, ChooseAutoSkip,
           ChooseIgnoreRepeats, ChooseIgnoreRoot, Choices
<1>10. CASE Prompt
  <2>1. Take /\ Entry # Removal /\ seen' = seen + 1 /\ mon' = "prompting"
        /\ UNCHANGED <<breakId, log, response, reply, choice, published>>
    BY <1>10 DEF Prompt, Take, dllVars
  <2>2. Asked' = Entry
    BY <2>1, TakenEntry
  <2>3. \A i \in Ids : choice'[i] # None => i < Asked'
    BY <2>1, <2>2, EntryIsNew
  <2> QED
    BY <1>0, <2>1, <2>2, <2>3 DEF ReplyTraced
<1>11. CASE Start \/ WriteTemp \/ SeeRemoval \/ Raise \/ Interrupt
  <2>1. /\ UNCHANGED <<breakId, log, response, reply, choice, published>>
        /\ seen' \in Nat /\ seen' >= seen
    BY <1>0, <1>11 DEF Start, WriteTemp, SeeRemoval, Raise, Interrupt, Take, dllVars
  <2>2. \/ mon' \in {"polling", "stopped"}
        \/ mon = "replying" /\ mon' = "replacing" /\ seen' = seen
    BY <1>11 DEF Start, WriteTemp, SeeRemoval, Raise, Interrupt, dllVars
  <2>3. \A n \in (seen' + 1)..Len(log) : n \in (seen + 1)..Len(log)
    <3>1. seen \in Nat /\ seen' \in Nat /\ seen' >= seen /\ Len(log) \in Nat
      BY <1>0, <2>1
    <3> QED
      BY <3>1, Narrowed
  <2>4. \A i \in Ids : choice'[i] # None =>
          i < breakId' /\ \A n \in (seen' + 1)..Len(log') : log'[n] = Removal \/ i < log'[n]
    BY <2>1, <2>3 DEF ReplyTraced
  <2>5. mon' # "prompting" /\ (mon' \in {"replying", "replacing"} => mon = "replying" /\ Asked' = Asked)
    BY <2>1, <2>2 DEF Asked
  <2> QED
    BY <2>1, <2>4, <2>5 DEF ReplyTraced
<1>12. CASE Replace
  <2>1. /\ mon = "replacing" /\ mon' = "polling"
        /\ response' = [response EXCEPT ![Asked] = reply]
        /\ published' = [published EXCEPT ![Asked] = reply]
        /\ UNCHANGED <<breakId, log, seen, reply, choice>>
    BY <1>12 DEF Replace, dllVars
  <2>2. Asked \in Ids
    BY <2>1, AskedEntry DEF Busy
  <2>3. \A i \in Ids : /\ response'[i] = IF i = Asked THEN reply ELSE response[i]
                       /\ published'[i] = IF i = Asked THEN reply ELSE published[i]
    BY <2>1 DEF TypeOK, MonTypes
  <2>4. reply # Torn /\ choice[Asked] # None /\ choice[Asked].reply = reply
    BY <2>1 DEF ReplyTraced
  <2> QED
    BY <2>1, <2>2, <2>3, <2>4 DEF ReplyTraced
<1>13. CASE UNCHANGED vars
  BY <1>13 DEF vars, dllVars, monVars, ReplyTraced, Asked
<1> QED
  BY <1>2, <1>3, <1>4, <1>8, <1>9, <1>10, <1>11, <1>12, <1>13
     DEF Next, DllNext, MonNext, Answer

(* A decision, once made, stays. *)
LEMMA ChoiceStable ==
  ASSUME TypeOK, LogOrdered, ReplyTraced, MonNext, NEW i \in Ids, choice[i] # None
  PROVE  choice'[i] = choice[i]
<1>0. choice \in [Ids -> Decisions \cup {None}]
  BY DEF TypeOK, MonTypes
<1>1. ASSUME NEW j \in Ids, NEW by, NEW r, choice[j] = None, Decide(j, by, r)
      PROVE  choice'[i] = choice[i]
  BY <1>0, <1>1 DEF Decide
<1>2. ASSUME NEW by, NEW r, NEW a, RuleAnswers(by, a, r) PROVE choice'[i] = choice[i]
  BY <1>1, <1>2, EntryIsNew DEF RuleAnswers
<1>3. ASSUME NEW by, NEW r, UserDecides(by, r) PROVE choice'[i] = choice[i]
  BY <1>1, <1>3, AskedIsNew DEF UserDecides
<1>4. CASE RootContinue \/ AutoSkip \/ AutoContinue
  BY <1>2, <1>4 DEF RootContinue, AutoSkip, AutoContinue
<1>5. CASE Choose
  BY <1>3, <1>5 DEF Choose, ChooseOnce, ChooseSkip, ChooseEdit, ChooseAutoContinue,
                    ChooseAutoSkip, ChooseIgnoreRepeats, ChooseIgnoreRoot
<1>6. CASE Start \/ Prompt \/ WriteTemp \/ Replace \/ SeeRemoval \/ Raise \/ Interrupt
  BY <1>6 DEF Start, Prompt, WriteTemp, Replace, SeeRemoval, Raise, Interrupt
<1> QED
  BY <1>4, <1>5, <1>6 DEF MonNext, Answer

(* The reply the DLL takes is the one decided for the held break. *)
LEMMA ReplyTaken ==
  ASSUME TypeOK, ReplyTraced, OneHeld, TakeReply
  PROVE  /\ Held \in Ids /\ result[Held] = None /\ Held \notin timedOut
         /\ published[Held] # None /\ published[Held] \in Replies
         /\ choice[Held] # None /\ choice[Held].reply = published[Held]
         /\ result' = [result EXCEPT ![Held] = Carried(reached[Held], published[Held])]
<1>1. dll = "waiting" /\ Held \in Ids /\ response[Held] # None
  BY DebuggerAssumption DEF TakeReply, FileFor, Held, Ids, TypeOK, DllTypes
<1>2. result[Held] = None /\ Held \notin timedOut
  BY <1>1 DEF OneHeld
<1>3. response[Held] = published[Held] /\ published[Held] # None /\ published[Held] # Torn
      /\ choice[Held] # None /\ choice[Held].reply = published[Held]
  BY <1>1 DEF ReplyTraced
<1>4. published[Held] \in Replies
  BY <1>1, <1>3 DEF TypeOK, MonTypes
<1>5. Parse(response[Held]) = published[Held]
  BY <1>3 DEF Parse
<1> QED
  BY <1>1, <1>2, <1>3, <1>4, <1>5 DEF TakeReply, FileFor, Resume

(* Commands go on having done what was decided for them. *)
LEMMA DecisionStep ==
  ASSUME TypeOK, ProtocolInvariant, DecisionHonoured, [Next]_vars
  PROVE  DecisionHonoured'
<1> USE DEF ProtocolInvariant
<1>1. ASSUME UNCHANGED <<result, timedOut>>,
             \A i \in Ids : result[i] # None => reached'[i] = reached[i],
             \A i \in Ids : choice[i] # None => choice'[i] = choice[i]
      PROVE  DecisionHonoured'
  BY <1>1 DEF DecisionHonoured
<1>2. ASSUME NEW c \in Lines, Break(c) PROVE DecisionHonoured'
  <2>1. \A i \in Ids : result[i] # None => i # breakId
    BY DebuggerAssumption DEF OneHeld, TypeOK, DllTypes
  <2>2. \A i \in Ids : i # breakId => reached'[i] = reached[i]
    BY <1>2 DEF Break, TypeOK, DllTypes
  <2> QED
    BY <1>1, <1>2, <2>1, <2>2 DEF Break, monVars
<1>3. CASE TakeReply
  <2>1. \A i \in Ids : result'[i] = IF i = Held THEN Carried(reached[Held], choice[Held].reply)
                                                ELSE result[i]
    BY <1>3, ReplyTaken DEF TypeOK, DllTypes
  <2>2. choice[Held] # None /\ Held \notin timedOut /\ choice[Held].reply \in Replies
    BY <1>3, ReplyTaken
  <2>3. UNCHANGED <<choice, reached, timedOut>>
    BY <1>3 DEF TakeReply, Resume, monVars
  <2>4. Contract!Honours(Carried(reached[Held], choice[Held].reply), reached[Held],
                          choice[Held].reply)
    BY <2>2, CarriedHonours
  <2> QED
    BY <2>1, <2>2, <2>3, <2>4 DEF DecisionHonoured
<1>4. CASE TimeOut
  <2>1. \A i \in Ids : result'[i] = IF i = Held THEN reached[Held] ELSE result[i]
    BY <1>4 DEF TimeOut, Resume, TypeOK, DllTypes
  <2>2. UNCHANGED <<choice, reached>> /\ timedOut' = timedOut \cup {Held}
    BY <1>4 DEF TimeOut, Resume, monVars
  <2> QED
    BY <2>1, <2>2 DEF DecisionHonoured
<1>5. CASE Exit
  BY <1>1, <1>5 DEF Exit, monVars
<1>6. CASE MonNext
  BY <1>1, <1>6, MonitorFrame, ChoiceStable
<1>7. CASE UNCHANGED vars
  BY <1>1, <1>7 DEF vars, dllVars, monVars
<1> QED
  BY <1>2, <1>3, <1>4, <1>5, <1>6, <1>7 DEF Next, DllNext

(* The inductive invariant: what is on its way between the two programs    *)
(* always traces back to one decision for one break.                       *)
THEOREM ProtocolInvariance == Spec => [](ProtocolInvariant /\ DecisionHonoured)
<1>1. Init => ProtocolInvariant /\ DecisionHonoured
  <2> SUFFICES ASSUME Init PROVE ProtocolInvariant /\ DecisionHonoured
    OBVIOUS
  <2>1. LogOrdered /\ OneHeld /\ DecisionHonoured
    BY DebuggerAssumption DEF Init, LogOrdered, OneHeld, DecisionHonoured, Held, Ids
  <2>2. ReplyTraced
    BY DEF Init, ReplyTraced, Continue, Torn
  <2> QED
    BY <2>1, <2>2 DEF ProtocolInvariant
<1>2. TypeOK /\ ProtocolInvariant /\ DecisionHonoured /\ [Next]_vars
        => (ProtocolInvariant /\ DecisionHonoured)'
  BY LogOrderedStep, OneHeldStep, ReplyTracedStep, DecisionStep DEF ProtocolInvariant
<1> QED
  BY <1>1, <1>2, TypeCorrect, PTL DEF Spec

(* Every command that runs off its breakpoint does what was decided for    *)
(* that break, but that an edited group may run as it was; and only a      *)
(* timed-out wait lets one run undecided, and unchanged.                   *)
THEOREM Honoured == Spec => []DecisionHonoured
BY ProtocolInvariance, PTL

(* That exception is the only one: where no line is a group, what runs     *)
(* after an edit is the text of the edit (monitor.py:16), whatever fails.  *)
THEOREM EditsReplace ==
  ASSUME Groups = {}
  PROVE  Spec => []EditReplaces
<1>1. DecisionHonoured => EditReplaces
  <2> SUFFICES ASSUME DecisionHonoured, NEW i \in Ids \ timedOut,
                      result[i] # None, choice[i] # None, choice[i].reply.act = "edit"
               PROVE  result[i] = choice[i].reply.text
    BY DEF EditReplaces
  <2>1. Contract!Honours(result[i], reached[i], choice[i].reply)
    BY DEF DecisionHonoured
  <2> QED
    BY <2>1 DEF Contract!Honours
<1> QED
  BY <1>1, Honoured, PTL

-------------------------------------------------------------------------------
(* What a decision adds to the choices made so far. *)
LEMMA ChosenGrows ==
  ASSUME TypeOK, NEW i \in Ids, NEW by \in Choices, NEW r \in Replies, choice[i] = None,
         Decide(i, by, r), NEW L
  PROVE  /\ KeysChosen(L)' = IF by \in L THEN KeysChosen(L) \cup {KeyOf[reached[i]]} ELSE KeysChosen(L)
         /\ RootsChosen(L)' = IF by \in L THEN RootsChosen(L) \cup {RootOf[reached[i]]} ELSE RootsChosen(L)
<1>1. /\ choice' = [choice EXCEPT ![i] = [by |-> by, reply |-> r]] /\ reached' = reached
  BY DEF Decide, dllVars
<1>2. choice \in [Ids -> Decisions \cup {None}] /\ [by |-> by, reply |-> r] \in Decisions
  BY DEF TypeOK, MonTypes, Decisions
<1>3. \A j \in Ids : choice'[j] = IF j = i THEN [by |-> by, reply |-> r] ELSE choice[j]
  BY <1>1, <1>2
<1>4. [by |-> by, reply |-> r] # None
  BY <1>2, DebuggerAssumption
<1>5. \A j \in Ids : Chose(j, L)' <=> Chose(j, L) \/ (j = i /\ by \in L)
  BY <1>3, <1>4 DEF Chose
<1>6. CASE by \in L
  BY <1>1, <1>5, <1>6 DEF KeysChosen, RootsChosen
<1>7. CASE by \notin L
  BY <1>1, <1>5, <1>7 DEF KeysChosen, RootsChosen
<1> QED
  BY <1>6, <1>7

(* Steps that make no decision leave the choices as they were. *)
LEMMA ChosenSame ==
  ASSUME TypeOK, ReplyTraced, choice' = choice,
         reached' = reached \/ \E c \in Lines : reached' = [reached EXCEPT ![breakId] = c], NEW L
  PROVE  KeysChosen(L)' = KeysChosen(L) /\ RootsChosen(L)' = RootsChosen(L)
<1>1. \A j \in Ids : Chose(j, L)' <=> Chose(j, L)
  BY DEF Chose
<1>2. \A j \in Ids : Chose(j, L) => reached'[j] = reached[j]
  <2>1. \A j \in Ids : Chose(j, L) => j < breakId
    BY DEF Chose, ReplyTraced
  <2>2. \A j \in Ids : j # breakId => reached'[j] = reached[j]
    BY DEF TypeOK, DllTypes
  <2>3. \A j \in Ids : j < breakId => j # breakId
    BY DebuggerAssumption DEF Ids, TypeOK, DllTypes
  <2> QED
    BY <2>1, <2>2, <2>3
<1> QED
  BY <1>1, <1>2 DEF KeysChosen, RootsChosen

(* The rules are what was chosen, and prompts are for what they leave.     *)
LEMMA RulesStep ==
  ASSUME TypeOK, LogOrdered, ReplyTraced, RulesInvariant, [Next]_vars
  PROVE  RulesInvariant'
<1> USE DEF RulesInvariant
<1>1. ASSUME UNCHANGED <<choice, rules>>,
             reached' = reached \/ \E c \in Lines : reached' = [reached EXCEPT ![breakId] = c]
      PROVE  RulesRecorded'
  BY <1>1, ChosenSame DEF RulesRecorded, rules
<1>2. ASSUME NEW c \in Lines, Break(c) PROVE RulesInvariant'
  <2>1. /\ reached' = [reached EXCEPT ![breakId] = c] /\ UNCHANGED monVars
        /\ log' = log \/ log' = Append(log, breakId)
        /\ breakId \in 0..MaxBreaks
    BY <1>2, DebuggerAssumption DEF Break, TypeOK, DllTypes
  <2>2. ASSUME mon = "prompting" PROVE Asked' = Asked /\ reached'[Asked] = reached[Asked]
    <3>1. Asked \in Ids /\ seen \in 1..Len(log) /\ Asked # breakId
      BY <2>2, AskedEntry, LogEntries DEF Busy, TypeOK, Asked, Ids
    <3> QED
      BY <2>1, <3>1, AppendToLog DEF monVars, Asked, TypeOK, LogTypes, DllTypes
  <2>3. UNCHANGED <<mon, choice, rules>>
    BY <2>1 DEF monVars
  <2>4. RulesRecorded'
    BY <1>1, <2>1, <2>3
  <2>5. PromptUnruled'
    BY <2>2, <2>3 DEF PromptUnruled, rules
  <2> QED
    BY <2>4, <2>5
<1>3. CASE Exit
  <2>1. UNCHANGED <<monVars, reached>> /\ (log' = log \/ log' = Append(log, Removal))
        /\ Removal \in 0..MaxBreaks
    BY <1>3, DebuggerAssumption DEF Exit, Removal
  <2>2. ASSUME mon = "prompting" PROVE Asked' = Asked
    BY <2>1, <2>2, AskedEntry, AppendToLog DEF Busy, monVars, Asked, TypeOK, LogTypes
  <2> QED
    BY <1>1, <2>1, <2>2 DEF monVars, PromptUnruled, rules
<1>4. CASE TakeReply \/ TimeOut
  <2>1. UNCHANGED <<reached, log, monVars>>
    BY <1>4 DEF TakeReply, TimeOut, Resume
  <2> QED
    BY <1>1, <2>1 DEF monVars, PromptUnruled, rules, Asked
<1>5. ASSUME NEW by \in {"root rule", "skip rule", "continue rule"}, NEW r \in Replies, NEW a,
             RuleAnswers(by, a, r)
      PROVE  RulesInvariant'
  <2>1. Take /\ Entry # Removal /\ Decide(Entry, by, r) /\ UNCHANGED rules /\ by \in Choices
    BY <1>5 DEF RuleAnswers, Choices
  <2>2. Entry \in Ids /\ choice[Entry] = None
    BY <2>1, EntryIsNew
  <2>3. /\ KeysChosen({"k"})' = KeysChosen({"k"})
        /\ KeysChosen({"a", "i"})' = KeysChosen({"a", "i"})
        /\ RootsChosen({"r"})' = RootsChosen({"r"})
    BY <1>5, <2>1, <2>2, ChosenGrows
  <2>4. RulesRecorded'
    BY <2>1, <2>3 DEF RulesRecorded, rules
  <2> QED
    BY <2>1, <2>4 DEF PromptUnruled, Decide
<1>6. CASE RootContinue \/ AutoSkip \/ AutoContinue
  BY <1>5, <1>6, ReplyTypes DEF RootContinue, AutoSkip, AutoContinue
<1>7. ASSUME NEW by \in Choices, NEW r \in Replies, UserDecides(by, r)
      PROVE  /\ PromptUnruled'
             /\ KeysChosen({"k"})' =
                  IF by = "k" THEN AddKey(KeysChosen({"k"})) ELSE KeysChosen({"k"})
             /\ KeysChosen({"a", "i"})' =
                  IF by \in {"a", "i"} THEN AddKey(KeysChosen({"a", "i"})) ELSE KeysChosen({"a", "i"})
             /\ RootsChosen({"r"})' =
                  IF by = "r" THEN AddRoot(RootsChosen({"r"})) ELSE RootsChosen({"r"})
  <2>1. mon = "prompting" /\ Decide(Asked, by, r) /\ Asked \in Ids /\ choice[Asked] = None
    BY <1>7, AskedIsNew DEF UserDecides
  <2> QED
    BY <2>1, ChosenGrows DEF PromptUnruled, Decide, AddKey, AddRoot
<1>8. CASE ChooseOnce \/ ChooseSkip
  BY <1>7, <1>8, ReplyTypes DEF ChooseOnce, ChooseSkip, Choices, RulesRecorded, rules
<1>9. ASSUME NEW t \in Edits, ChooseEdit(t) PROVE RulesInvariant'
  <2> DEFINE r == IF EditedLine[t] = NoLine THEN Continue ELSE Edit(EditedLine[t])
  <2>1. r \in Replies
    BY ReplyTypes, DebuggerAssumption DEF Lines0
  <2>2. UserDecides("e", r) /\ UNCHANGED rules
    BY <1>9 DEF ChooseEdit
  <2> QED
    BY <1>7, <2>1, <2>2 DEF Choices, RulesRecorded, rules
<1>10. CASE ChooseAutoContinue
  BY <1>7, <1>10, ReplyTypes DEF ChooseAutoContinue, Choices, RulesRecorded, AddKey
<1>11. CASE ChooseIgnoreRepeats
  BY <1>7, <1>11, ReplyTypes DEF ChooseIgnoreRepeats, Choices, RulesRecorded, AddKey
<1>12. CASE ChooseAutoSkip
  BY <1>7, <1>12, ReplyTypes DEF ChooseAutoSkip, Choices, RulesRecorded, AddKey
<1>13. CASE ChooseIgnoreRoot
  BY <1>7, <1>13, ReplyTypes DEF ChooseIgnoreRoot, Choices, RulesRecorded, AddRoot
<1>14. CASE Prompt
  <2>1. Take /\ Entry # Removal /\ UNCHANGED <<log, reached, choice, rules>>
        /\ ~RootIgnored(Line) /\ ~Skipped(Line) /\ ~Continued(Line)
    BY <1>14 DEF Prompt, dllVars
  <2>2. Asked' = Entry /\ Line = reached[Entry]
    BY <2>1, TakenEntry DEF Line
  <2> QED
    BY <1>1, <2>1, <2>2 DEF PromptUnruled, RootIgnored, Skipped, Continued, rules
<1>15. CASE Start \/ WriteTemp \/ Replace \/ SeeRemoval \/ Raise \/ Interrupt
  <2>1. UNCHANGED <<reached, choice, rules>> /\ mon' # "prompting"
    BY <1>15 DEF Start, WriteTemp, Replace, SeeRemoval, Raise, Interrupt, dllVars
  <2> QED
    BY <1>1, <2>1 DEF PromptUnruled
<1>16. CASE UNCHANGED vars
  BY <1>1, <1>16 DEF vars, dllVars, monVars, PromptUnruled, Asked, rules
<1> QED
  BY <1>2, <1>3, <1>4, <1>6, <1>8, <1>9, <1>10, <1>11, <1>12, <1>13, <1>14, <1>15, <1>16
     DEF Next, DllNext, MonNext, Answer, Choose

(* The rules hold what the user chose, at all times. *)
THEOREM RulesInvariance == Spec => []RulesInvariant
<1>1. Init => RulesInvariant
  <2> SUFFICES ASSUME Init PROVE RulesInvariant
    OBVIOUS
  <2>1. \A L : KeysChosen(L) = {} /\ RootsChosen(L) = {}
    BY DEF Init, KeysChosen, RootsChosen, Chose
  <2> QED
    BY <2>1 DEF Init, RulesInvariant, RulesRecorded, PromptUnruled
<1>2. TypeOK /\ ProtocolInvariant /\ RulesInvariant /\ [Next]_vars => RulesInvariant'
  BY RulesStep DEF ProtocolInvariant
<1> QED
  BY <1>1, <1>2, TypeCorrect, ProtocolInvariance, PTL DEF Spec

(* No command is under contradictory orders: a key once continued is never *)
(* asked about again, so that it cannot also be skipped.                   *)
THEOREM Disjoint == Spec => []RulesDisjoint
<1>1. Init => RulesDisjoint
  BY DEF Init, RulesDisjoint
<1>2. TypeOK /\ RulesInvariant /\ RulesDisjoint /\ [Next]_vars => RulesDisjoint'
  <2> SUFFICES ASSUME TypeOK, RulesInvariant, RulesDisjoint, [Next]_vars PROVE RulesDisjoint'
    OBVIOUS
  <2>1. ASSUME UNCHANGED rules PROVE RulesDisjoint'
    BY <2>1 DEF rules, RulesDisjoint
  <2>2. CASE DllNext \/ UNCHANGED vars
    BY <2>1, <2>2 DEF DllNext, Break, TakeReply, TimeOut, Resume, Exit, monVars, vars
  <2>3. CASE Answer \/ Raise \/ Interrupt
    BY <2>1, <2>3 DEF Answer, Start, RootContinue, AutoSkip, AutoContinue, RuleAnswers, Prompt,
                      WriteTemp, Replace, SeeRemoval, Raise, Interrupt
  <2>4. CASE ChooseOnce \/ ChooseSkip \/ ChooseIgnoreRoot \/ \E t \in Edits : ChooseEdit(t)
    BY <2>4 DEF ChooseOnce, ChooseSkip, ChooseIgnoreRoot, ChooseEdit, rules, RulesDisjoint
  <2>5. CASE ChooseAutoContinue \/ ChooseIgnoreRepeats
    BY <2>5 DEF ChooseAutoContinue, ChooseIgnoreRepeats, UserDecides, AddKey, RulesDisjoint,
                RulesInvariant, PromptUnruled
  <2>6. CASE ChooseAutoSkip
    BY <2>6 DEF ChooseAutoSkip, UserDecides, AddKey, RulesDisjoint, RulesInvariant, PromptUnruled
  <2> QED
    BY <2>2, <2>3, <2>4, <2>5, <2>6 DEF Next, MonNext, Choose
<1> QED
  BY <1>1, <1>2, TypeCorrect, RulesInvariance, PTL DEF Spec

(* What is decided stays, and so does the line it was decided for. *)
LEMMA DecidedStays ==
  ASSUME TypeOK, LogOrdered, ReplyTraced, [Next]_vars, NEW i \in Ids, choice[i] # None
  PROVE  choice'[i] = choice[i] /\ reached'[i] = reached[i]
<1>1. i < breakId /\ i # breakId
  BY DebuggerAssumption DEF ReplyTraced, TypeOK, DllTypes, Ids
<1>2. ASSUME NEW c \in Lines, Break(c) PROVE choice'[i] = choice[i] /\ reached'[i] = reached[i]
  BY <1>1, <1>2 DEF Break, monVars, TypeOK, DllTypes
<1>3. CASE TakeReply \/ TimeOut \/ Exit \/ UNCHANGED vars
  BY <1>3 DEF TakeReply, TimeOut, Resume, Exit, vars, dllVars, monVars
<1>4. CASE MonNext
  BY <1>4, ChoiceStable, MonitorFrame
<1> QED
  BY <1>2, <1>3, <1>4 DEF Next, DllNext

(* How a command comes to be decided: by the first rule that covers it, or *)
(* by the user if none does; and after all that were decided before it.    *)
UserLetters == {"c", "s", "e", "a", "k", "i", "r"}
DecidedBy(j) ==
  LET c == reached[j]
      d == choice'[j] IN
  \/ d.by = "root rule" /\ d.reply = Continue /\ RootOf[c] \in rootContinue
  \/ /\ d.by = "skip rule" /\ d.reply = Skip
     /\ RootOf[c] \notin rootContinue /\ KeyOf[c] \in autoSkip
  \/ d.by = "continue rule" /\ d.reply = Continue /\ KeyOf[c] \in autoContinue
  \/ /\ d.by \in UserLetters
     /\ RootOf[c] \notin rootContinue /\ KeyOf[c] \notin autoContinue \cup autoSkip
LEMMA NewDecision ==
  ASSUME TypeOK, LogOrdered, ReplyTraced, RulesInvariant, [Next]_vars,
         NEW j \in Ids, choice[j] = None, choice'[j] # None
  PROVE  /\ \A i \in Ids : choice[i] # None => i < j
         /\ \A i \in Ids : i # j => choice'[i] = choice[i]
         /\ reached' = reached /\ reached[j] \in Lines /\ DecidedBy(j)
<1>0. choice \in [Ids -> Decisions \cup {None}]
  BY DEF TypeOK, MonTypes
<1>1. ASSUME NEW k \in Ids, NEW by, NEW r, Decide(k, by, r)
      PROVE  /\ k = j /\ choice'[j] = [by |-> by, reply |-> r] /\ reached' = reached
             /\ \A i \in Ids : i # j => choice'[i] = choice[i]
  BY <1>0, <1>1 DEF Decide, dllVars
<1>2. ASSUME NEW by, NEW r, Take, Entry # Removal, Decide(Entry, by, r)
      PROVE  /\ \A i \in Ids : choice[i] # None => i < j
             /\ \A i \in Ids : i # j => choice'[i] = choice[i]
             /\ reached' = reached /\ reached[j] \in Lines /\ Line = reached[j]
             /\ choice'[j].by = by /\ choice'[j].reply = r
  <2>1. Entry \in Ids /\ Line \in Lines /\ \A i \in Ids : choice[i] # None => i < Entry
    BY <1>2, EntryIsNew, TakenEntry DEF Decide
  <2>2. /\ Entry = j /\ choice'[j] = [by |-> by, reply |-> r] /\ reached' = reached
        /\ \A i \in Ids : i # j => choice'[i] = choice[i]
    BY <1>1, <1>2, <2>1
  <2>3. Line = reached[j]
    BY <2>2 DEF Line
  <2>4. choice'[j].by = by /\ choice'[j].reply = r
    BY <2>2
  <2> QED
    BY <2>1, <2>2, <2>3, <2>4
<1>3. ASSUME NEW by \in UserLetters, NEW r, UserDecides(by, r)
      PROVE  /\ \A i \in Ids : choice[i] # None => i < j
             /\ \A i \in Ids : i # j => choice'[i] = choice[i]
             /\ reached' = reached /\ reached[j] \in Lines /\ DecidedBy(j)
  <2>1. mon = "prompting" /\ Decide(Asked, by, r)
    BY <1>3 DEF UserDecides
  <2>2. /\ Asked \in Ids /\ reached[Asked] \in Lines
        /\ \A i \in Ids : choice[i] # None => i < Asked
    BY <2>1, AskedIsNew, AskedEntry DEF Busy
  <2>3. RootOf[reached[Asked]] \notin rootContinue
        /\ KeyOf[reached[Asked]] \notin autoContinue \cup autoSkip
    BY <2>1 DEF RulesInvariant, PromptUnruled
  <2>4. /\ Asked = j /\ choice'[j] = [by |-> by, reply |-> r] /\ reached' = reached
        /\ \A i \in Ids : i # j => choice'[i] = choice[i]
    BY <1>1, <2>1, <2>2
  <2>5. choice'[j].by \in UserLetters
    BY <2>4
  <2>6. DecidedBy(j)
    BY <2>3, <2>4, <2>5 DEF DecidedBy
  <2> QED
    BY <2>2, <2>4, <2>6
<1>4. CASE RootContinue
  <2>1. Take /\ Entry # Removal /\ RootIgnored(Line) /\ Decide(Entry, "root rule", Continue)
    BY <1>4 DEF RootContinue, RuleAnswers, Decide
  <2> QED
    BY <1>2, <2>1 DEF RootIgnored, DecidedBy
<1>5. CASE AutoSkip
  <2>1. Take /\ Entry # Removal /\ Skipped(Line) /\ Decide(Entry, "skip rule", Skip)
    BY <1>5 DEF AutoSkip, RuleAnswers, Decide
  <2> QED
    BY <1>2, <2>1 DEF Skipped, RootIgnored, DecidedBy
<1>6. CASE AutoContinue
  <2>1. Take /\ Entry # Removal /\ Continued(Line) /\ Decide(Entry, "continue rule", Continue)
    BY <1>6 DEF AutoContinue, RuleAnswers, Decide
  <2> QED
    BY <1>2, <2>1 DEF Continued, DecidedBy
<1>7. CASE Choose
  BY <1>3, <1>7 DEF Choose, ChooseOnce, ChooseSkip, ChooseEdit, ChooseAutoContinue,
                    ChooseAutoSkip, ChooseIgnoreRepeats, ChooseIgnoreRoot, UserLetters
<1>8. CASE Start \/ Prompt \/ WriteTemp \/ Replace \/ SeeRemoval \/ Raise \/ Interrupt
  BY <1>8 DEF Start, Prompt, WriteTemp, Replace, SeeRemoval, Raise, Interrupt
<1>9. CASE DllNext \/ UNCHANGED vars
  BY <1>9 DEF DllNext, Break, TakeReply, TimeOut, Resume, Exit, monVars, vars
<1> QED
  BY <1>4, <1>5, <1>6, <1>7, <1>8, <1>9 DEF Next, MonNext, Answer

(* Every silent answer goes back to an explicit choice of the user about   *)
(* the same key or root, or to the list the monitor starts with.           *)
THEOREM Provenance == Spec => []RuleProvenance
<1>1. Init => RuleProvenance
  BY DEF Init, RuleProvenance, Chose
<1>2. TypeOK /\ ProtocolInvariant /\ RulesInvariant /\ RuleProvenance /\ [Next]_vars
        => RuleProvenance'
  <2> SUFFICES ASSUME TypeOK, ProtocolInvariant, RulesInvariant, RuleProvenance, [Next]_vars
               PROVE  RuleProvenance'
    OBVIOUS
  <2> USE DEF ProtocolInvariant
  <2> DEFINE Earned(j) ==
               /\ Chose(j, {"root rule"}) =>
                    \E i \in 1..(j - 1) : Chose(i, {"r"}) /\ SameRoot(i, j)
               /\ Chose(j, {"skip rule"}) =>
                    \E i \in 1..(j - 1) : Chose(i, {"k"}) /\ SameKey(i, j)
               /\ Chose(j, {"continue rule"}) =>
                    \/ KeyOf[reached[j]] \in Seeded
                    \/ \E i \in 1..(j - 1) : Chose(i, {"a", "i"}) /\ SameKey(i, j)
  <2>1. \A i \in Ids : choice[i] # None => choice'[i] = choice[i] /\ reached'[i] = reached[i]
    BY DecidedStays
  <2>2. \A j \in Ids : \A i \in 1..(j - 1) : i \in Ids
    BY DebuggerAssumption DEF Ids
  <2>3. ASSUME NEW j \in Ids, choice[j] # None PROVE Earned(j)'
    <3>1. Earned(j)
      BY DEF RuleProvenance
    <3> QED
      BY <2>1, <2>2, <2>3, <3>1 DEF Chose, SameKey, SameRoot
  <2>4. ASSUME NEW j \in Ids, choice[j] = None, choice'[j] # None PROVE Earned(j)'
    <3>1. /\ \A i \in Ids : choice[i] # None => i < j
          /\ reached' = reached /\ DecidedBy(j)
      BY <2>4, NewDecision
    <3>2. \A i \in Ids : i < j => i \in 1..(j - 1)
      BY DebuggerAssumption DEF Ids
    <3>3. \A L : \A i \in Ids : Chose(i, L) => Chose(i, L)' /\ i \in 1..(j - 1)
      BY <2>1, <3>1, <3>2 DEF Chose
    <3>4. CASE choice'[j].by = "root rule"
      <4>1. RootOf[reached[j]] \in RootsChosen({"r"})
        BY <3>1, <3>4 DEF DecidedBy, UserLetters, RulesInvariant, RulesRecorded
      <4>2. PICK i \in Ids : Chose(i, {"r"}) /\ RootOf[reached[i]] = RootOf[reached[j]]
        BY <4>1 DEF RootsChosen
      <4> QED
        BY <3>1, <3>3, <3>4, <4>2 DEF SameRoot, Chose
    <3>5. CASE choice'[j].by = "skip rule"
      <4>1. KeyOf[reached[j]] \in KeysChosen({"k"})
        BY <3>1, <3>5 DEF DecidedBy, UserLetters, RulesInvariant, RulesRecorded
      <4>2. PICK i \in Ids : Chose(i, {"k"}) /\ KeyOf[reached[i]] = KeyOf[reached[j]]
        BY <4>1 DEF KeysChosen
      <4> QED
        BY <3>1, <3>3, <3>5, <4>2 DEF SameKey, Chose
    <3>6. CASE choice'[j].by = "continue rule"
      <4>1. KeyOf[reached[j]] \in Seeded \/ KeyOf[reached[j]] \in KeysChosen({"a", "i"})
        BY <3>1, <3>6 DEF DecidedBy, UserLetters, RulesInvariant, RulesRecorded
      <4>2. CASE KeyOf[reached[j]] \in Seeded
        BY <3>1, <3>6, <4>2 DEF Chose
      <4>3. CASE KeyOf[reached[j]] \in KeysChosen({"a", "i"})
        <5>1. PICK i \in Ids : Chose(i, {"a", "i"}) /\ KeyOf[reached[i]] = KeyOf[reached[j]]
          BY <4>3 DEF KeysChosen
        <5> QED
          BY <3>1, <3>3, <3>6, <5>1 DEF SameKey, Chose
      <4> QED
        BY <4>1, <4>2, <4>3
    <3>7. CASE choice'[j].by \in UserLetters
      BY <3>7 DEF UserLetters, Chose
    <3> QED
      BY <3>1, <3>4, <3>5, <3>6, <3>7 DEF DecidedBy
  <2>5. ASSUME NEW j \in Ids, choice'[j] = None PROVE Earned(j)'
    BY <2>5 DEF Chose
  <2> QED
    BY <2>3, <2>4, <2>5 DEF RuleProvenance
<1> QED
  BY <1>1, <1>2, TypeCorrect, ProtocolInvariance, RulesInvariance, PTL DEF Spec

(* A standing order is kept: what was chosen with a, i, r or k decides     *)
(* every later matching command, a root rule before all others.            *)
THEOREM Standing == Spec => []StandingRules
<1>1. Init => StandingRules
  BY DEF Init, StandingRules
<1>2. /\ TypeOK /\ ProtocolInvariant /\ RulesInvariant /\ RulesDisjoint /\ StandingRules
      /\ [Next]_vars
      => StandingRules'
  <2> SUFFICES ASSUME TypeOK, ProtocolInvariant, RulesInvariant, RulesDisjoint, StandingRules,
                      [Next]_vars
               PROVE  StandingRules'
    OBVIOUS
  <2> USE DEF ProtocolInvariant
  <2> DEFINE Kept(i, j) ==
               /\ Chose(i, {"r"}) /\ SameRoot(i, j) => choice[j].reply = Continue
               /\ Chose(i, {"a", "i"}) /\ SameKey(i, j) => choice[j].reply = Continue
               /\ Chose(i, {"k"}) /\ SameKey(i, j) =>
                    \/ choice[j].reply = Skip
                    \/ \E h \in 1..(j - 1) : Chose(h, {"r"}) /\ SameRoot(h, j)
  <2>1. \A i \in Ids : choice[i] # None => choice'[i] = choice[i] /\ reached'[i] = reached[i]
    BY DecidedStays
  <2>2. ASSUME NEW j \in Ids PROVE \A i \in Ids : i < j <=> i \in 1..(j - 1)
    BY DebuggerAssumption DEF Ids
  <2>3. ASSUME NEW j \in Ids PROVE \A i \in 1..(j - 1) : i \in Ids
    BY DebuggerAssumption DEF Ids
  <2>4. ASSUME NEW i \in Ids, NEW j \in Ids, i < j, choice[j] # None PROVE Kept(i, j)'
    <3>1. Kept(i, j)
      BY <2>4 DEF StandingRules
    <3>2. choice[i] = None => choice'[i] = None
      <4>1. ASSUME choice[i] = None, choice'[i] # None PROVE j < i
        BY <2>4, <4>1, NewDecision
      <4>2. ~(j < i)
        BY <2>4, DebuggerAssumption DEF Ids
      <4> QED
        BY <4>1, <4>2
    <3>3. \A L : \A h \in 1..(j - 1) : Chose(h, L) /\ SameRoot(h, j) => (Chose(h, L) /\ SameRoot(h, j))'
      BY <2>1, <2>3, <2>4 DEF Chose, SameRoot
    <3>4. \A L : Chose(i, L)' => /\ Chose(i, L)
                                 /\ SameKey(i, j)' = SameKey(i, j)
                                 /\ SameRoot(i, j)' = SameRoot(i, j)
      BY <2>1, <2>4, <3>2 DEF Chose, SameKey, SameRoot
    <3>5. choice'[j] = choice[j]
      BY <2>1, <2>4
    <3> QED
      BY <3>1, <3>3, <3>4, <3>5
  <2>5. ASSUME NEW i \in Ids, NEW j \in Ids, i < j, choice[j] = None, choice'[j] # None
        PROVE  Kept(i, j)'
    <3>1. /\ \A k \in Ids : choice[k] # None => k < j
          /\ \A k \in Ids : k # j => choice'[k] = choice[k]
          /\ reached' = reached /\ DecidedBy(j)
      BY <2>5, NewDecision
    <3>2. i # j
      BY <2>5, DebuggerAssumption DEF Ids
    <3>3. \A L : /\ Chose(i, L)' => Chose(i, L)
                 /\ SameKey(i, j)' = SameKey(i, j) /\ SameRoot(i, j)' = SameRoot(i, j)
      BY <3>1, <3>2 DEF Chose, SameKey, SameRoot
    <3>4. Chose(i, {"r"}) /\ SameRoot(i, j) => RootOf[reached[j]] \in rootContinue
      BY DEF RulesInvariant, RulesRecorded, RootsChosen, SameRoot
    <3>5. Chose(i, {"a", "i"}) /\ SameKey(i, j) => KeyOf[reached[j]] \in autoContinue
      BY DEF RulesInvariant, RulesRecorded, KeysChosen, SameKey
    <3>6. Chose(i, {"k"}) /\ SameKey(i, j) => KeyOf[reached[j]] \in autoSkip
      BY DEF RulesInvariant, RulesRecorded, KeysChosen, SameKey
    <3>7. RootOf[reached[j]] \in rootContinue =>
            /\ choice'[j].reply = Continue
            /\ \E h \in 1..(j - 1) : (Chose(h, {"r"}) /\ SameRoot(h, j))'
      <4>1. ASSUME RootOf[reached[j]] \in rootContinue PROVE choice'[j].reply = Continue
        BY <3>1, <4>1 DEF DecidedBy
      <4>2. ASSUME RootOf[reached[j]] \in rootContinue
            PROVE  \E h \in 1..(j - 1) : (Chose(h, {"r"}) /\ SameRoot(h, j))'
        <5>1. PICK h \in Ids : Chose(h, {"r"}) /\ RootOf[reached[h]] = RootOf[reached[j]]
          BY <4>2 DEF RulesInvariant, RulesRecorded, RootsChosen
        <5>2. h \in 1..(j - 1) /\ choice'[h] = choice[h]
          BY <2>1, <2>2, <3>1, <5>1 DEF Chose
        <5> QED
          BY <3>1, <5>1, <5>2 DEF Chose, SameRoot
      <4> QED
        BY <4>1, <4>2
    <3>8. KeyOf[reached[j]] \in autoContinue => choice'[j].reply = Continue
      BY <3>1 DEF DecidedBy, RulesDisjoint
    <3>9. KeyOf[reached[j]] \in autoSkip =>
            choice'[j].reply = Skip \/ RootOf[reached[j]] \in rootContinue
      BY <3>1 DEF DecidedBy, RulesDisjoint
    <3> QED
      BY <3>3, <3>4, <3>5, <3>6, <3>7, <3>8, <3>9
  <2> QED
    BY <2>4, <2>5 DEF StandingRules
<1> QED
  BY <1>1, <1>2, TypeCorrect, ProtocolInvariance, RulesInvariance, Disjoint, PTL DEF Spec

-------------------------------------------------------------------------------
(* The protocol implements the contract of Breakpoint, whatever fails: a   *)
(* break reaches, a replaced response decides, and a resumed wait obeys    *)
(* or, if it timed out, gives up.                                          *)
THEOREM Refinement == Spec => ImplementsContract
<1>1. Init => Contract!Init
  BY DEF Init, Contract!Init
<1>2. TypeOK /\ ProtocolInvariant /\ [Next]_vars => [Contract!Next]_(Contract!vars)
  <2> SUFFICES ASSUME TypeOK, ProtocolInvariant, [Next]_vars
               PROVE  [Contract!Next]_(Contract!vars)
    OBVIOUS
  <2> USE DEF ProtocolInvariant
  <2>1. ASSUME NEW c \in Lines, Break(c) PROVE Contract!Next
    <3>1. breakId \in Ids /\ breakId \in Nat /\ dll = "running"
      BY <2>1, DebuggerAssumption DEF Break, TypeOK, DllTypes, Ids
    <3>2. \A j \in Ids : ~Contract!Held(j)
      BY <3>1, DebuggerAssumption DEF Contract!Held, OneHeld, TypeOK, DllTypes, Ids
    <3>3. reached[breakId] = NoLine
      BY <3>1 DEF TypeOK, DllTypes
    <3>4. Contract!Reach(breakId, c)
      BY <2>1, <3>2, <3>3 DEF Contract!Reach, Break, monVars
    <3> QED
      BY <3>1, <3>4 DEF Contract!Next
  <2>2. dll = "waiting" => Held \in Ids /\ Contract!Held(Held)
    BY DebuggerAssumption DEF Contract!Held, Held, OneHeld, TypeOK, DllTypes, Ids
  <2>3. CASE TakeReply
    <3>1. /\ Held \in Ids /\ Contract!Held(Held) /\ published[Held] # None
          /\ published[Held] \in Replies
          /\ result' = [result EXCEPT ![Held] = Carried(reached[Held], published[Held])]
          /\ UNCHANGED <<reached, published>>
      BY <2>2, <2>3, ReplyTaken DEF TakeReply, Resume, monVars
    <3>2. Contract!Honours(Carried(reached[Held], published[Held]), reached[Held],
                          published[Held])
      BY <3>1, CarriedHonours
    <3>3. Carried(reached[Held], published[Held]) \in Lines \cup {NoLine}
      BY <3>1 DEF Carried, Replies, TypeOK, DllTypes
    <3>4. Contract!Obey(Held)
      BY <3>1, <3>2, <3>3 DEF Contract!Obey
    <3> QED
      BY <3>1, <3>4 DEF Contract!Next
  <2>4. CASE TimeOut
    <3>1. Held \in Ids /\ Contract!GiveUp(Held)
      BY <2>2, <2>4 DEF TimeOut, Resume, Contract!GiveUp, monVars
    <3> QED
      BY <3>1 DEF Contract!Next
  <2>5. CASE Replace
    <3>1. /\ Asked \in Ids /\ reached[Asked] # NoLine
          /\ published[Asked] = None /\ reply # Torn /\ reply \in Replies
      BY <2>5, AskedEntry, DebuggerAssumption
         DEF Replace, Busy, ReplyTraced, TypeOK, MonTypes
    <3>2. reply \in Contract!Verdicts
      BY <3>1 DEF Contract!Verdicts, Replies, Torn
    <3>3. Contract!Decide(Asked, reply)
      BY <2>5, <3>1 DEF Contract!Decide, Replace, dllVars
    <3> QED
      BY <3>1, <3>2, <3>3 DEF Contract!Next
  <2>6. CASE MonNext /\ ~Replace
    <3>1. UNCHANGED published
      BY <2>6 DEF MonNext, Answer, Choose, Start, RootContinue, AutoSkip, AutoContinue,
                  RuleAnswers, Prompt, WriteTemp, SeeRemoval, ChooseOnce, ChooseSkip,
                  ChooseAutoContinue, ChooseAutoSkip, ChooseIgnoreRepeats, ChooseIgnoreRoot,
                  ChooseEdit, UserDecides, Decide, Raise, Interrupt
    <3> QED
      BY <2>6, <3>1, MonitorFrame DEF Contract!vars
  <2>7. CASE Exit \/ UNCHANGED vars
    BY <2>7 DEF Exit, vars, dllVars, monVars, Contract!vars
  <2> QED
    BY <2>1, <2>3, <2>4, <2>5, <2>6, <2>7 DEF Next, DllNext
<1> QED
  BY <1>1, <1>2, TypeCorrect, ProtocolInvariance, PTL DEF Spec, ImplementsContract, Contract!Spec

-------------------------------------------------------------------------------
(* A command that has been released without a timeout was answered.        *)
Released == \A i \in Ids : result[i] # None /\ i \notin timedOut => published[i] # None

(* A reply once put in place stays recorded.                               *)
LEMMA PublishedGrows ==
  ASSUME TypeOK, MonNext
  PROVE  \A i \in Ids : published[i] # None => published'[i] # None
<1>1. CASE Replace
  <2>1. reply # None
    BY DebuggerAssumption DEF TypeOK, MonTypes
  <2> QED
    BY <1>1, <2>1 DEF Replace, TypeOK, MonTypes
<1>2. CASE ~Replace
  BY <1>2 DEF MonNext, Answer, Choose, Start, RootContinue, AutoSkip, AutoContinue, RuleAnswers,
              Prompt, WriteTemp, SeeRemoval, ChooseOnce, ChooseSkip, ChooseAutoContinue,
              ChooseAutoSkip, ChooseIgnoreRepeats, ChooseIgnoreRoot, ChooseEdit, UserDecides,
              Decide, Raise, Interrupt
<1> QED
  BY <1>1, <1>2

(* Every step keeps it so.                                                 *)
LEMMA ReleasedStep ==
  ASSUME TypeOK, ProtocolInvariant, Released, [Next]_vars
  PROVE  Released'
<1>1. CASE UNCHANGED <<result, timedOut, published>>
  BY <1>1 DEF Released
<1>2. CASE TakeReply
  <2>1. response[Held] # None /\ response[Held] \in {None, published[Held]} /\ Held \in Ids
    BY <1>2, DebuggerAssumption
       DEF TakeReply, FileFor, ProtocolInvariant, ReplyTraced, Held, TypeOK, DllTypes, Ids
  <2>2. \A i \in Ids : i # Held => result'[i] = result[i]
    BY <1>2 DEF TakeReply, Resume, TypeOK, DllTypes
  <2> QED
    BY <1>2, <2>1, <2>2 DEF TakeReply, Resume, monVars, Released
<1>3. CASE TimeOut
  <2>1. \A i \in Ids : i # Held => result'[i] = result[i]
    BY <1>3 DEF TimeOut, Resume, TypeOK, DllTypes
  <2> QED
    BY <1>3, <2>1 DEF TimeOut, Resume, monVars, Released
<1>4. CASE MonNext
  BY <1>4, MonitorFrame, PublishedGrows DEF Released
<1>5. CASE (\E c \in Lines : Break(c)) \/ Exit \/ UNCHANGED vars
  BY <1>1, <1>5 DEF Break, Exit, vars, dllVars, monVars
<1> QED
  BY <1>2, <1>3, <1>4, <1>5 DEF Next, DllNext

(* Without timeouts no wait ends undecided.                                *)
LEMMA NoTimeOuts ==
  ASSUME "timeout" \notin Faults
  PROVE  Spec => [](timedOut = {})
<1>1. Init => timedOut = {}
  BY DEF Init
<1>2. timedOut = {} /\ [Next]_vars => (timedOut = {})'
  <2> SUFFICES ASSUME timedOut = {}, [Next]_vars PROVE timedOut' = {}
    OBVIOUS
  <2>1. ~TimeOut
    BY DEF TimeOut
  <2>2. MonNext => UNCHANGED timedOut
    BY MonitorFrame
  <2>3. ASSUME NEW c \in Lines, Break(c) PROVE UNCHANGED timedOut
    BY <2>3 DEF Break
  <2>4. TakeReply \/ Exit \/ UNCHANGED vars => UNCHANGED timedOut
    BY DEF TakeReply, Exit, vars, dllVars
  <2> QED
    BY <2>1, <2>2, <2>3, <2>4 DEF Next, DllNext
<1> QED
  BY <1>1, <1>2, PTL DEF Spec

(* Unless waits may time out, the command the user is asked about is the   *)
(* held one and stays so until the reply is in place: whatever else fails, *)
(* a prompt never concerns a command that is already over.                 *)
THEOREM PromptsAreCurrent ==
  ASSUME "timeout" \notin Faults
  PROVE  Spec => []PromptIsCurrent
<1>1. Init => Released
  BY DEF Init, Released
<1>2. TypeOK /\ ProtocolInvariant /\ Released /\ timedOut = {} => PromptIsCurrent
  <2> SUFFICES ASSUME TypeOK, ProtocolInvariant, Released, timedOut = {}, Busy, dll # "exited"
               PROVE  dll = "waiting" /\ Asked = Held /\ result[Held] = None
    BY DEF PromptIsCurrent
  <2>1. Asked \in Ids /\ Asked < breakId
    BY AskedEntry, DebuggerAssumption DEF TypeOK, DllTypes
  <2>2. published[Asked] = None
    <3>1. CASE mon = "prompting"
      BY <2>1, <3>1 DEF ProtocolInvariant, ReplyTraced, Ids
    <3>2. CASE mon \in {"replying", "replacing"}
      BY <3>2 DEF ProtocolInvariant, ReplyTraced
    <3> QED
      BY <3>1, <3>2 DEF Busy
  <2>3. result[Asked] = None
    BY <2>1, <2>2 DEF Released
  <2> QED
    BY <2>1, <2>3 DEF ProtocolInvariant, OneHeld
<1> QED
  BY <1>1, <1>2, TypeCorrect, ProtocolInvariance, NoTimeOuts, ReleasedStep, PTL DEF Spec

-------------------------------------------------------------------------------
(* The held break is still in the log, is being handled, or is answered.   *)
InHand ==
  dll = "waiting" /\ mon # "stopped" =>
    \/ \E n \in (seen + 1)..Len(log) : log[n] = Held
    \/ Busy /\ Asked = Held
    \/ response[Held] # None

(* A monitor that takes an entry to answer it or to ask about it has the   *)
(* held break in hand, or still before it, or answered, as it was.         *)
LEMMA TakenInHand ==
  ASSUME TypeOK, InHand, Take, Entry # Removal, UNCHANGED <<dll, breakId, log, response>>,
         mon' \in {"prompting", "replying"}
  PROVE  InHand'
<1>1. /\ seen \in Nat /\ Len(log) \in Nat /\ seen' = seen + 1 /\ mon = "polling"
      /\ Held' = Held
  BY LenProperties DEF TypeOK, LogTypes, Take, Held
<1>2. SUFFICES ASSUME dll = "waiting"
               PROVE  \/ \E n \in (seen' + 1)..Len(log) : log[n] = Held
                      \/ log[seen'] = Held
                      \/ response[Held] # None
  BY <1>1 DEF InHand, Busy, Asked
<1>3. CASE \E n \in (seen + 1)..Len(log) : log[n] = Held
  <2>1. PICK n \in (seen + 1)..Len(log) : log[n] = Held
    BY <1>3
  <2>2. n = seen' \/ n \in (seen' + 1)..Len(log)
    BY <1>1
  <2> QED
    BY <2>1, <2>2
<1>4. CASE response[Held] # None
  BY <1>4
<1> QED
  BY <1>1, <1>2, <1>3, <1>4 DEF InHand, Busy

(* No step loses hold of it, if entries are not lost and nothing is raised *)
(* while the monitor asks or answers.                                      *)
LEMMA InHandStep ==
  ASSUME "drop" \notin Faults, "raise" \notin Faults, TypeOK, InHand, [Next]_vars
  PROVE  InHand'
<1>1. /\ seen \in Nat /\ Len(log) \in Nat /\ seen <= Len(log) /\ log \in Seq(0..MaxBreaks)
      /\ breakId \in Nat /\ MaxBreaks \in Nat
  BY LenProperties, DebuggerAssumption DEF TypeOK, LogTypes, DllTypes
<1>2. ASSUME NEW c \in Lines, Break(c) PROVE InHand'
  <2>1. /\ log' = Append(log, breakId) /\ breakId \in 0..MaxBreaks
        /\ seen' = seen /\ breakId' = breakId + 1
    BY <1>1, <1>2 DEF Break, monVars
  <2>2. Len(log') = Len(log) + 1 /\ log'[Len(log) + 1] = breakId
    BY <1>1, <2>1, AppendProperties
  <2>3. Len(log) + 1 \in (seen' + 1)..Len(log') /\ Held' = breakId
    BY <1>1, <2>1, <2>2 DEF Held
  <2> QED
    BY <2>2, <2>3 DEF InHand
<1>3. CASE TakeReply \/ TimeOut \/ Exit \/ SeeRemoval
  BY <1>3 DEF TakeReply, TimeOut, Resume, Exit, SeeRemoval, InHand
<1>4. CASE Start
  BY <1>4 DEF Start, InHand, Busy, Asked, Held, dllVars
<1>5. CASE RootContinue \/ AutoSkip \/ AutoContinue \/ Prompt
  <2>1. /\ Take /\ Entry # Removal /\ UNCHANGED <<dll, breakId, log, response>>
        /\ mon' \in {"prompting", "replying"}
    BY <1>5 DEF RootContinue, AutoSkip, AutoContinue, Prompt, RuleAnswers, Decide, dllVars
  <2> QED
    BY <2>1, TakenInHand
<1>6. CASE Choose
  <2>1. /\ UNCHANGED <<dll, breakId, log, response, seen>>
        /\ mon = "prompting" /\ mon' = "replying"
    BY <1>6 DEF Choose, ChooseOnce, ChooseSkip, ChooseAutoContinue, ChooseAutoSkip,
                ChooseIgnoreRepeats, ChooseIgnoreRoot, ChooseEdit, UserDecides, Decide, dllVars
  <2> QED
    BY <2>1 DEF InHand, Busy, Asked, Held
<1>7. CASE WriteTemp
  BY <1>7 DEF WriteTemp, InHand, Busy, Asked, Held, dllVars
<1>8. CASE Replace
  <2>1. /\ UNCHANGED <<dll, breakId, log, seen>> /\ mon = "replacing" /\ mon' = "polling"
        /\ response' = [response EXCEPT ![Asked] = reply]
    BY <1>8 DEF Replace, dllVars
  <2>2. reply # None /\ response \in [Ids -> Replies \cup {None}]
    BY DebuggerAssumption DEF TypeOK, MonTypes
  <2>3. dll = "waiting" => Held \in Ids
    BY <1>1 DEF TypeOK, DllTypes, Held, Ids
  <2>4. dll = "waiting" => (response[Held] # None \/ Asked = Held => response'[Held] # None)
    BY <2>1, <2>2, <2>3
  <2> QED
    BY <2>1, <2>4 DEF InHand, Busy, Asked, Held
<1>9. CASE Interrupt
  BY <1>9 DEF Interrupt, InHand
<1>10. CASE UNCHANGED vars
  BY <1>10 DEF vars, dllVars, monVars, InHand, Busy, Asked, Held
<1>11. ~ Raise
  BY DEF Raise
<1> QED
  BY <1>2, <1>3, <1>4, <1>5, <1>6, <1>7, <1>8, <1>9, <1>10, <1>11
     DEF Next, DllNext, MonNext, Answer

(* Unless entries are lost or replies fail, the monitor never forgets a    *)
(* held command (start_monitoring, _handle_debug_break), waits that time   *)
(* out, Ctrl+C and responses that cannot be removed notwithstanding: that  *)
(* is what is safe in HeldIsAsked and AnswerTakesEffect.                   *)
THEOREM NoneIsForgotten ==
  ASSUME "drop" \notin Faults, "raise" \notin Faults
  PROVE  Spec => []HeldIsInHand
<1>1. Init => InHand
  BY DEF Init, InHand
<1>2. TypeOK /\ InHand /\ [Next]_vars => InHand'
  BY InHandStep
<1>3. TypeOK /\ ProtocolInvariant /\ InHand => HeldIsInHand
  <2>1. SUFFICES ASSUME TypeOK, ProtocolInvariant, InHand, dll = "waiting", mon # "stopped"
                 PROVE  \/ /\ choice[Held] = None
                           /\ \E n \in (seen + 1)..Len(log) : log[n] = Held
                        \/ Busy /\ Asked = Held
                        \/ response[Held] # None /\ response[Held] = choice[Held].reply
    BY DEF HeldIsInHand
  <2>2. Held \in Ids /\ Held # Removal
    BY <2>1, DebuggerAssumption DEF TypeOK, DllTypes, Held, Ids, Removal
  <2>3. ASSUME NEW n \in (seen + 1)..Len(log), log[n] = Held PROVE choice[Held] = None
    <3>1. choice[Held] # None => log[n] = Removal \/ Held < log[n]
      BY <2>1, <2>2, <2>3 DEF ProtocolInvariant, ReplyTraced
    <3> QED
      BY <2>2, <2>3, <3>1 DEF Ids
  <2>4. response[Held] # None => response[Held] = choice[Held].reply
    BY <2>1, <2>2 DEF ProtocolInvariant, ReplyTraced
  <2> QED
    BY <2>1, <2>3, <2>4 DEF InHand
<1> QED
  BY <1>1, <1>2, <1>3, TypeCorrect, ProtocolInvariance, PTL DEF Spec

===============================================================================
