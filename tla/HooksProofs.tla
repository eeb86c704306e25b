------------------------------ MODULE HooksProofs ------------------------------
(***************************************************************************)
(* Proofs about Hooks: for any command lines, however deep, whichever      *)
(* hooks cannot be installed and whenever the others are.                  *)
(***************************************************************************)
EXTENDS Hooks, SequenceTheorems, TLAPS

(* An invariant of the frames, seen from each: what the function of a      *)
(* frame has asked and how far its call has got ...                        *)
FrameOK(f) ==
  /\ \/ f.fn \in {"Dispatch", Handler(f.node)}
     \/ f.fn = "process" /\ f.io = "pipe" /\ IsCommand(f.node) /\ f.step = "run"
  /\ f.quiet => f.fn \in Operators /\ f.step \in {"call", "run"}
  /\ f.step = "held" => f.asks > 0
  /\ f.asks > 0 =>
       /\ IsCommand(f.node) \/ f.fn \in Operators
       /\ f.step = "enter" => f.fn = "FindFixAndRun" /\ f.io = "pipe"
       /\ f.fn = "Dispatch" => f.io = "pipe"
       /\ f.fn \in Operators /\ f.step # "held" => f.quiet
  /\ f.asks > 1 => f.io = "pipe" /\ f.fn # "Dispatch" /\ f.step # "enter"

(* ... what those below it are to it: whether one of them keeps it quiet,  *)
(* and, when it is a side of a pipe, the ePipe that runs it ...            *)
Below(s, j) == \E q \in 1..(j - 1) : s[q].quiet
LetThrough(s, j, f) == f.asks > 0 \/ f.node \in Unreadable \/ Below(s, j)
Link(s, j, f, r) ==
  /\ f.io = "pipe" => j > 1 /\ s[j - 1].fn = "ePipe" /\ s[j - 1].step = "run"
  /\ Below(s, j) => f.asks = 0 /\ ~f.quiet
  /\ f.fn = "ePipe" /\ f.step \in {"call", "run"} /\ "ePipe" \in r => Below(s, j) \/ f.quiet
  /\ f.fn = "FindFixAndRun" /\ f.step \in {"call", "run"} /\ "FindFixAndRun" \in r
       => LetThrough(s, j, f)
  /\ f.io = "pipe" /\ IsCommand(f.node) /\ "Dispatch" \in r
       => (f.fn = "Dispatch" /\ f.step \in {"enter", "held"}) \/ LetThrough(s, j, f)

(* ... and that one below the top is running an arm.                       *)
Inner(f) == f.step = "run" /\ f.fn \notin {"Dispatch", "process"} /\ f.arm > 0
Chain(s, r) ==
  \A j \in 1..Len(s) : FrameOK(s[j]) /\ Link(s, j, s[j], r) /\ (j < Len(s) => Inner(s[j]))

(* The rest: the types, that the hooks a command line was entered under    *)
(* stay until it ends, and that the counter counts the quiet frames.       *)
BasicTypes ==
  /\ attaching \in 1..8
  /\ enabled \subseteq Hooks /\ stored \subseteq Hooks
  /\ rc \in 0..1 /\ typed \in 0..MaxTyped
  /\ ready \subseteq Hooks /\ dropped \subseteq Nodes
StackTypes(s) ==
  /\ s \in Seq(Frames)
  /\ \A i \in 1..Len(s) : s[i].arm <= Len(Arms[s[i].node])
HooksStay ==
  /\ attaching < 8 => stored \subseteq enabled
  /\ stack # <<>> => attaching < 8 /\ ready \subseteq enabled
Balanced ==
  /\ depth \in 0..1
  /\ depth = 1 <=> Below(stack, Len(stack) + 1)
HooksInvariant ==
  BasicTypes /\ StackTypes(stack) /\ Chain(stack, ready) /\ HooksStay /\ Balanced

-------------------------------------------------------------------------------
(* What the three ways to change the stack do to it.                       *)
LEMMA Tops ==
  ASSUME NEW s \in Seq(Frames), s # <<>>
  PROVE  /\ Len(s) \in Nat \ {0} /\ Last(s) = s[Len(s)] /\ Last(s) \in Frames
         /\ Front(s) \in Seq(Frames) /\ Len(Front(s)) = Len(s) - 1
         /\ \A i \in 1..(Len(s) - 1) : Front(s)[i] = s[i]
<1>1. Len(s) \in Nat \ {0}
  BY EmptySeq
<1>2. \A i \in 1..(Len(s) - 1) : s[i] \in Frames
  OBVIOUS
<1>3. /\ SubSeq(s, 1, Len(s) - 1) \in Seq(Frames)
      /\ Len(SubSeq(s, 1, Len(s) - 1)) = Len(s) - 1
      /\ \A i \in 1..(Len(s) - 1) : SubSeq(s, 1, Len(s) - 1)[i] = s[i]
  <2> DEFINE n == Len(s) - 1
             t == SubSeq(s, 1, n)
  <2>1. n \in Int /\ n >= 0 /\ \A i \in 1..n : s[i] \in Frames
    BY <1>1, <1>2
  <2> HIDE DEF n
  <2>2. /\ t \in Seq(Frames) /\ Len(t) = IF 1 <= n THEN n - 1 + 1 ELSE 0
        /\ \A i \in 1..(n - 1 + 1) : t[i] = s[1 + i - 1]
    BY <2>1, SubSeqProperties
  <2>3. Len(t) = n /\ \A i \in 1..n : t[i] = s[i]
    BY <2>1, <2>2
  <2> QED
    BY <2>2, <2>3 DEF n
<1> QED
  BY <1>1, <1>3 DEF Front, Last

(* Another frame on top ... *)
LEMMA Puts ==
  ASSUME NEW s \in Seq(Frames), s # <<>>, NEW f \in Frames
  PROVE  LET t == Append(Front(s), f) IN
         /\ t \in Seq(Frames) /\ Len(t) = Len(s) /\ t[Len(s)] = f /\ t # <<>>
         /\ \A i \in 1..(Len(s) - 1) : t[i] = s[i]
<1> DEFINE t == Append(Front(s), f)
<1>1. /\ t \in Seq(Frames) /\ Len(t) = Len(s) - 1 + 1 /\ t[Len(s) - 1 + 1] = f
      /\ \A i \in 1..(Len(s) - 1) : t[i] = Front(s)[i]
  BY Tops, AppendProperties
<1>2. Len(t) = Len(s) /\ t[Len(s)] = f /\ Len(t) # 0
  BY <1>1, Tops
<1>3. t # <<>>
  BY <1>2
<1> QED
  BY <1>1, <1>2, <1>3, Tops

(* ... and one more. *)
LEMMA Pushes ==
  ASSUME NEW s \in Seq(Frames), s # <<>>, NEW f \in Frames, NEW g \in Frames
  PROVE  LET t == Front(s) \o <<f, g>> IN
         /\ t \in Seq(Frames) /\ Len(t) = Len(s) + 1 /\ t # <<>>
         /\ t[Len(s)] = f /\ t[Len(s) + 1] = g
         /\ \A i \in 1..(Len(s) - 1) : t[i] = s[i]
<1> DEFINE t == Front(s) \o <<f, g>>
<1>1. <<f, g>> \in Seq(Frames) /\ Len(<<f, g>>) = 2 /\ <<f, g>>[1] = f /\ <<f, g>>[2] = g
  OBVIOUS
<1>2. /\ t \in Seq(Frames) /\ Len(t) = Len(s) - 1 + 2
      /\ \A i \in 1..(Len(s) - 1 + 2) :
           t[i] = IF i <= Len(s) - 1 THEN Front(s)[i] ELSE <<f, g>>[i - (Len(s) - 1)]
  BY <1>1, Tops, ConcatProperties
<1>3. Len(t) = Len(s) + 1 /\ Len(t) # 0
  BY <1>2, Tops
<1>4. t[Len(s)] = f
  <2>1. Len(s) - (Len(s) - 1) = 1 /\ Len(s) \in 1..(Len(s) - 1 + 2) /\ ~(Len(s) <= Len(s) - 1)
    BY Tops
  <2> QED
    BY <1>1, <1>2, <2>1
<1>5. t[Len(s) + 1] = g
  <2>1. Len(s) + 1 - (Len(s) - 1) = 2 /\ Len(s) + 1 \in 1..(Len(s) - 1 + 2)
        /\ ~(Len(s) + 1 <= Len(s) - 1)
    BY Tops
  <2> QED
    BY <1>1, <1>2, <2>1
<1>6. \A i \in 1..(Len(s) - 1) : t[i] = s[i]
  BY <1>2, Tops
<1>7. t # <<>>
  BY <1>3
<1> QED
  BY <1>2, <1>3, <1>4, <1>5, <1>6, <1>7

-------------------------------------------------------------------------------
(* A frame depends on those below it alone, so that what holds on a stack  *)
(* holds on its lower part.                                                *)
LEMMA LinkBelow ==
  ASSUME NEW s \in Seq(Frames), NEW t \in Seq(Frames), NEW j \in Nat,
         \A i \in 1..(j - 1) : t[i] = s[i], NEW f, NEW r
  PROVE  /\ Below(t, j) <=> Below(s, j)
         /\ Link(t, j, f, r) <=> Link(s, j, f, r)
<1>1. Below(t, j) <=> Below(s, j)
  BY DEF Below
<1>2. LetThrough(t, j, f) <=> LetThrough(s, j, f)
  BY <1>1 DEF LetThrough
<1>3. j > 1 => t[j - 1] = s[j - 1]
  OBVIOUS
<1> QED
  BY <1>1, <1>2, <1>3 DEF Link

(* The frames below the top are as they were. *)
LEMMA ChainBelow ==
  ASSUME NEW s \in Seq(Frames), NEW t \in Seq(Frames), NEW r, Chain(s, r), s # <<>>,
         \A i \in 1..(Len(s) - 1) : t[i] = s[i], NEW j \in 1..(Len(s) - 1)
  PROVE  FrameOK(t[j]) /\ Link(t, j, t[j], r) /\ Inner(t[j])
<1>1. Len(s) \in Nat \ {0}
  BY Tops
<1>2. t[j] = s[j] /\ FrameOK(s[j]) /\ Link(s, j, s[j], r) /\ Inner(s[j])
  BY <1>1 DEF Chain
<1>3. j \in Nat /\ \A i \in 1..(j - 1) : t[i] = s[i]
  BY <1>1
<1> QED
  BY <1>2, <1>3, LinkBelow

(* With another frame on top. *)
LEMMA ChainPut ==
  ASSUME NEW s \in Seq(Frames), NEW t \in Seq(Frames), NEW r, Chain(s, r), s # <<>>,
         Len(t) = Len(s), \A i \in 1..(Len(s) - 1) : t[i] = s[i],
         FrameOK(t[Len(s)]), Link(s, Len(s), t[Len(s)], r)
  PROVE  Chain(t, r)
<1>1. Len(s) \in Nat \ {0}
  BY Tops
<1>2. Link(t, Len(s), t[Len(s)], r)
  BY <1>1, LinkBelow
<1>3. ASSUME NEW j \in 1..Len(t)
      PROVE  FrameOK(t[j]) /\ Link(t, j, t[j], r) /\ (j < Len(t) => Inner(t[j]))
  <2>1. CASE j = Len(s)
    BY <1>2, <2>1
  <2>2. CASE j \in 1..(Len(s) - 1)
    BY <2>2, ChainBelow
  <2> QED
    BY <1>1, <2>1, <2>2
<1> QED
  BY <1>3 DEF Chain

(* Without the top frame. *)
LEMMA ChainPop ==
  ASSUME NEW s \in Seq(Frames), NEW r, Chain(s, r), s # <<>>
  PROVE  Chain(Front(s), r)
<1>1. /\ Front(s) \in Seq(Frames) /\ Len(Front(s)) = Len(s) - 1
      /\ \A i \in 1..(Len(s) - 1) : Front(s)[i] = s[i]
  BY Tops
<1> QED
  BY <1>1, ChainBelow DEF Chain

(* With one more frame, called by the one that was on top. *)
LEMMA ChainPush ==
  ASSUME NEW s \in Seq(Frames), NEW t \in Seq(Frames), NEW r, Chain(s, r), s # <<>>,
         Len(t) = Len(s) + 1, \A i \in 1..(Len(s) - 1) : t[i] = s[i],
         FrameOK(t[Len(s)]), Link(s, Len(s), t[Len(s)], r), Inner(t[Len(s)]),
         FrameOK(t[Len(s) + 1]), Link(t, Len(s) + 1, t[Len(s) + 1], r)
  PROVE  Chain(t, r)
<1>1. Len(s) \in Nat \ {0}
  BY Tops
<1>2. Link(t, Len(s), t[Len(s)], r)
  BY <1>1, LinkBelow
<1>3. ASSUME NEW j \in 1..Len(t)
      PROVE  FrameOK(t[j]) /\ Link(t, j, t[j], r) /\ (j < Len(t) => Inner(t[j]))
  <2>1. CASE j = Len(s) + 1
    BY <1>1, <2>1
  <2>2. CASE j = Len(s)
    BY <1>1, <1>2, <2>2
  <2>3. CASE j \in 1..(Len(s) - 1)
    BY <2>3, ChainBelow
  <2> QED
    BY <1>1, <2>1, <2>2, <2>3
<1> QED
  BY <1>3 DEF Chain

-------------------------------------------------------------------------------
(* The top frame, and what the counter says of those below it.             *)
LEMMA TopFacts ==
  ASSUME HooksInvariant, stack # <<>>
  PROVE  /\ Len(stack) \in Nat \ {0} /\ Top = stack[Len(stack)] /\ Top \in Frames
         /\ FrameOK(Top) /\ Link(stack, Len(stack), Top, ready)
         /\ Top.arm <= Len(Arms[Top.node])
         /\ depth \in 0..1
         /\ depth = 1 <=> Below(stack, Len(stack)) \/ Top.quiet
         /\ attaching < 8 /\ ready \subseteq enabled
<1>1. /\ Len(stack) \in Nat \ {0} /\ Top = stack[Len(stack)] /\ Top \in Frames
      /\ Len(stack) \in 1..Len(stack)
  BY Tops DEF HooksInvariant, StackTypes, Top
<1>2. FrameOK(Top) /\ Link(stack, Len(stack), Top, ready) /\ Top.arm <= Len(Arms[Top.node])
  BY <1>1 DEF HooksInvariant, StackTypes, Chain
<1>3. Below(stack, Len(stack) + 1) <=> Below(stack, Len(stack)) \/ Top.quiet
  BY <1>1 DEF Below
<1> QED
  BY <1>1, <1>2, <1>3 DEF HooksInvariant, Balanced, HooksStay

(* Replacing the top frame. *)
LEMMA PutKept ==
  ASSUME HooksInvariant, stack # <<>>, NEW f \in Frames, Put(f),
         f.node = Top.node, f.arm = Top.arm, FrameOK(f), Link(stack, Len(stack), f, ready),
         depth' \in 0..1, depth' = 1 <=> Below(stack, Len(stack)) \/ f.quiet,
         UNCHANGED <<hookVars, rc, typed, ready, dropped>>
  PROVE  HooksInvariant'
<1> DEFINE n == Len(stack)
<1>1. n \in Nat \ {0} /\ stack \in Seq(Frames) /\ StackTypes(stack)
  BY TopFacts DEF HooksInvariant, StackTypes
<1>2. /\ stack' \in Seq(Frames) /\ Len(stack') = n /\ stack'[n] = f /\ stack' # <<>>
      /\ \A i \in 1..(n - 1) : stack'[i] = stack[i]
  BY <1>1, Puts DEF Put
<1>3. Chain(stack', ready')
  BY <1>1, <1>2, ChainPut DEF HooksInvariant
<1>4. StackTypes(stack')
  <2>1. f.arm <= Len(Arms[f.node])
    BY TopFacts
  <2> QED
    BY <1>1, <1>2, <2>1 DEF StackTypes
<1>5. Below(stack', n + 1) <=> Below(stack, n) \/ f.quiet
  BY <1>1, <1>2 DEF Below
<1>6. Balanced'
  BY <1>2, <1>5 DEF Balanced, Below
<1>7. BasicTypes' /\ HooksStay'
  BY <1>2 DEF HooksInvariant, BasicTypes, HooksStay, hookVars
<1> QED
  BY <1>3, <1>4, <1>6, <1>7 DEF HooksInvariant

(* Returning from the top frame. *)
LEMMA ReturnKept ==
  ASSUME HooksInvariant, stack # <<>>, NEW r \in 0..1, Return(r),
         dropped' \subseteq Nodes, UNCHANGED <<hookVars, typed, ready>>
  PROVE  HooksInvariant'
<1> DEFINE n == Len(stack)
<1>1. n \in Nat \ {0} /\ stack \in Seq(Frames) /\ StackTypes(stack)
  BY TopFacts DEF HooksInvariant, StackTypes
<1>2. /\ stack' \in Seq(Frames) /\ Len(stack') = n - 1
      /\ \A i \in 1..(n - 1) : stack'[i] = stack[i]
  BY <1>1, Tops DEF Return
<1>3. Chain(stack', ready')
  BY <1>1, ChainPop DEF HooksInvariant, Return
<1>4. StackTypes(stack')
  BY <1>1, <1>2 DEF StackTypes
<1>5. Below(stack', Len(stack') + 1) <=> Below(stack, n)
  BY <1>1, <1>2 DEF Below
<1>6. depth' \in 0..1 /\ (depth' = 1 <=> Below(stack, n))
  BY TopFacts DEF Return, Leave, Link
<1>7. Balanced'
  BY <1>5, <1>6 DEF Balanced, Below
<1>8. BasicTypes' /\ HooksStay'
  BY TopFacts DEF HooksInvariant, BasicTypes, HooksStay, hookVars, Return
<1> QED
  BY <1>3, <1>4, <1>7, <1>8 DEF HooksInvariant

-------------------------------------------------------------------------------
(* The steps of the main thread.  First, which hook a node meets. *)
LEMMA KindsAndHooks ==
  /\ Operators \subseteq Hooks /\ "FindFixAndRun" \in Hooks /\ "Dispatch" \in Hooks
  /\ "block" \notin Hooks /\ "process" \notin Hooks
  /\ \A n \in Nodes : /\ Kind[n] \in Kinds
                      /\ Handler(n) \in Operators \cup {"FindFixAndRun", "block"}
                      /\ Handler(n) \in Operators <=> Kind[n] \in Operators
                      /\ Handler(n) = "FindFixAndRun" <=> IsCommand(n)
                      /\ IsCommand(n) => (Rendered(n) <=> n \notin Unreadable)
                      /\ Arms[n] \in Seq(Nodes)
<1>1. /\ HookOrder[1] = "FindFixAndRun" /\ HookOrder[2] = "Dispatch" /\ HookOrder[3] = "ePipe"
      /\ HookOrder[4] = "eComSep" /\ HookOrder[5] = "eAnd" /\ HookOrder[6] = "eOr"
  BY DEF HookOrder
<1>2. Hooks = {"FindFixAndRun", "Dispatch", "ePipe", "eComSep", "eAnd", "eOr"}
  <2>1. 1..6 = {1, 2, 3, 4, 5, 6}
    OBVIOUS
  <2> QED
    BY <1>1, <2>1 DEF Hooks
<1>3. /\ Operators \subseteq Hooks /\ "FindFixAndRun" \in Hooks /\ "Dispatch" \in Hooks
      /\ "block" \notin Hooks /\ "process" \notin Hooks
  BY <1>2 DEF Operators
<1>4. ASSUME NEW n \in Nodes
      PROVE  /\ Kind[n] \in Kinds
             /\ Handler(n) \in Operators \cup {"FindFixAndRun", "block"}
             /\ Handler(n) \in Operators <=> Kind[n] \in Operators
             /\ Handler(n) = "FindFixAndRun" <=> IsCommand(n)
             /\ IsCommand(n) => (Rendered(n) <=> n \notin Unreadable)
             /\ Arms[n] \in Seq(Nodes)
  <2>1. Kind[n] \in Kinds /\ Arms[n] \in Seq(Nodes)
    BY HooksAssumption
  <2> QED
    BY <2>1 DEF Kinds, Operators, Handler, IsCommand, Rendered, HasText
<1> QED
  BY <1>3, <1>4

(* A frame may be replaced field by field. *)
LEMMA FrameFields ==
  ASSUME NEW f \in Frames
  PROVE  /\ f.node \in Nodes /\ f.io \in {"pipe", "other"}
         /\ f.fn \in Hooks \cup {"block", "process"}
         /\ f.step \in {"enter", "held", "call", "run"}
         /\ f.arm \in Nat /\ f.asks \in 0..2 /\ f.quiet \in BOOLEAN
BY DEF Frames

(* A function whose detour is not in place runs at once; the hooks that    *)
(* were ready are in place.                                                *)
LEMMA UnhookedKept ==
  ASSUME HooksInvariant, Unhooked
  PROVE  HooksInvariant'
<1> DEFINE f == [Top EXCEPT !.step = "run"]
<1>1. stack # <<>> /\ Top.step = "enter" /\ Top.fn \notin enabled /\ Put(f)
      /\ UNCHANGED <<hookVars, depth, rc, typed, ready, dropped>>
  BY DEF Unhooked, In
<1>2. Top \in Frames /\ FrameOK(Top) /\ Link(stack, Len(stack), Top, ready)
      /\ ready \subseteq enabled /\ depth \in 0..1
      /\ (depth = 1 <=> Below(stack, Len(stack)) \/ Top.quiet)
  BY <1>1, TopFacts
<1>3. f \in Frames /\ f.step = "run" /\ f.node = Top.node /\ f.io = Top.io /\ f.fn = Top.fn
      /\ f.arm = Top.arm /\ f.asks = Top.asks /\ f.quiet = Top.quiet
  BY <1>2 DEF Frames
<1> HIDE DEF f
<1>4. FrameOK(f)
  BY <1>1, <1>2, <1>3, KindsAndHooks, FrameFields DEF FrameOK
<1>5. Link(stack, Len(stack), f, ready)
  BY <1>1, <1>2, <1>3 DEF Link, LetThrough
<1> QED
  BY <1>1, <1>2, <1>3, <1>4, <1>5, PutKept

(* The original is called: after a breakpoint, or without one when a group *)
(* is being quiet or the text cannot be read.                              *)
LEMMA CallKept ==
  ASSUME HooksInvariant, stack # <<>>, CallOriginal,
         (Top.step = "enter" /\ ~Breaks(Top)) \/ Top.step = "held",
         UNCHANGED <<hookVars, rc, typed, ready, dropped>>
  PROVE  HooksInvariant'
<1> DEFINE quiet == Top.fn \in Operators /\ depth = 0
           f == [Top EXCEPT !.step = "call", !.quiet = quiet]
<1>1. Put(f) /\ depth' = IF quiet THEN Enter(depth) ELSE depth
  BY DEF CallOriginal
<1>2. Top \in Frames /\ FrameOK(Top) /\ Link(stack, Len(stack), Top, ready)
      /\ depth \in 0..1 /\ (depth = 1 <=> Below(stack, Len(stack)) \/ Top.quiet)
  BY TopFacts
<1>3. f \in Frames /\ f.step = "call" /\ f.node = Top.node /\ f.io = Top.io /\ f.fn = Top.fn
      /\ f.arm = Top.arm /\ f.asks = Top.asks /\ f.quiet = quiet /\ quiet \in BOOLEAN
  BY <1>2 DEF Frames
<1>4. ~Top.quiet /\ (depth = 1 <=> Below(stack, Len(stack)))
  BY <1>2 DEF FrameOK
<1>8. (f.quiet <=> Top.fn \in Operators /\ depth = 0) /\ (quiet <=> f.quiet)
  BY <1>3
<1> HIDE DEF f, quiet
<1>5. FrameOK(f)
  BY <1>2, <1>3, <1>4, <1>8, KindsAndHooks, FrameFields DEF FrameOK, Link
<1>6. depth' \in 0..1 /\ (depth' = 1 <=> Below(stack, Len(stack)) \/ f.quiet)
  BY <1>1, <1>2, <1>4, <1>8 DEF Enter
<1>7. Link(stack, Len(stack), f, ready)
  <2>1. CASE Top.step = "held"
    BY <1>2, <1>3, <1>4, <1>8, <2>1 DEF Link, LetThrough, FrameOK, Operators
  <2>2. CASE Top.step = "enter" /\ ~Breaks(Top)
    <3>1. Top.node \in Nodes /\ (Top.fn = "FindFixAndRun" => IsCommand(Top.node))
      BY <1>2, <2>2, KindsAndHooks, FrameFields DEF FrameOK
    <3>2. Top.fn = "FindFixAndRun" => LetThrough(stack, Len(stack), Top)
      BY <1>2, <1>4, <2>2, <3>1, KindsAndHooks DEF Breaks, LetThrough
    <3>3. Top.fn = "Dispatch" /\ Top.io = "pipe" /\ IsCommand(Top.node)
            => LetThrough(stack, Len(stack), Top)
      BY <1>2, <1>4, <2>2, <3>1, KindsAndHooks DEF Breaks, LetThrough
    <3>4. Below(stack, Len(stack)) => f.asks = 0 /\ ~f.quiet
      BY <1>2, <1>3, <1>4, <1>8 DEF Link
    <3>5. f.fn = "ePipe" => Below(stack, Len(stack)) \/ f.quiet
      BY <1>2, <1>3, <1>4, <1>8 DEF Operators
    <3>6. LetThrough(stack, Len(stack), f) <=> LetThrough(stack, Len(stack), Top)
      BY <1>3 DEF LetThrough
    <3> QED
      BY <1>2, <1>3, <2>2, <3>2, <3>3, <3>4, <3>5, <3>6 DEF Link
  <2> QED
    BY <2>1, <2>2
<1> QED
  BY <1>1, <1>2, <1>3, <1>5, <1>6, <1>7, PutKept

(* A breakpoint, which no quiet group is below. *)
LEMMA AskKept ==
  ASSUME HooksInvariant, Ask
  PROVE  HooksInvariant'
<1> DEFINE f == [Top EXCEPT !.step = "held", !.asks = @ + 1]
<1>1. stack # <<>> /\ Top.step = "enter" /\ Top.fn \in enabled /\ Breaks(Top) /\ Put(f)
      /\ UNCHANGED <<hookVars, depth, rc, typed, ready, dropped>>
  BY DEF Ask, In
<1>2. Top \in Frames /\ FrameOK(Top) /\ Link(stack, Len(stack), Top, ready)
      /\ enabled \subseteq Hooks /\ depth = 0 /\ ~Below(stack, Len(stack)) /\ ~Top.quiet
  BY <1>1, TopFacts DEF HooksInvariant, BasicTypes, Breaks
<1>3. Top.asks \in 0..1
  BY <1>1, <1>2, FrameFields DEF FrameOK
<1>4. f \in Frames /\ f.step = "held" /\ f.node = Top.node /\ f.io = Top.io /\ f.fn = Top.fn
      /\ f.arm = Top.arm /\ f.asks = Top.asks + 1 /\ f.quiet = Top.quiet
  <2>1. Top.asks + 1 \in 0..2
    BY <1>3
  <2> QED
    BY <1>2, <2>1 DEF Frames
<1> HIDE DEF f
<1>5. Top.node \in Nodes /\ Top.fn \in Hooks /\ (Top.fn = "Dispatch" \/ Top.fn = Handler(Top.node))
  BY <1>1, <1>2, FrameFields DEF FrameOK
<1>6. IsCommand(f.node) \/ f.fn \in Operators
  BY <1>1, <1>4, <1>5, KindsAndHooks DEF Breaks
<1>7. f.fn = "Dispatch" => f.io = "pipe"
  BY <1>1, <1>4 DEF Breaks
<1>8. f.asks > 1 => f.io = "pipe" /\ f.fn # "Dispatch"
  BY <1>1, <1>2, <1>3, <1>4 DEF FrameOK
<1>9. FrameOK(f)
  BY <1>2, <1>3, <1>4, <1>5, <1>6, <1>7, <1>8 DEF FrameOK
<1>10. Link(stack, Len(stack), f, ready)
  BY <1>2, <1>3, <1>4 DEF Link, LetThrough
<1> QED
  BY <1>1, <1>2, <1>4, <1>9, <1>10, PutKept

(* The original runs. *)
LEMMA ForwardKept ==
  ASSUME HooksInvariant, Forward
  PROVE  HooksInvariant'
<1> DEFINE f == [Top EXCEPT !.step = "run"]
<1>1. stack # <<>> /\ Top.step = "call" /\ Put(f)
      /\ UNCHANGED <<hookVars, depth, rc, typed, ready, dropped>>
  BY DEF Forward, In
<1>2. Top \in Frames /\ FrameOK(Top) /\ Link(stack, Len(stack), Top, ready)
      /\ depth \in 0..1 /\ (depth = 1 <=> Below(stack, Len(stack)) \/ Top.quiet)
  BY <1>1, TopFacts
<1>3. f \in Frames /\ f.step = "run" /\ f.node = Top.node /\ f.io = Top.io /\ f.fn = Top.fn
      /\ f.arm = Top.arm /\ f.asks = Top.asks /\ f.quiet = Top.quiet
  BY <1>2 DEF Frames
<1> HIDE DEF f
<1>4. FrameOK(f)
  BY <1>1, <1>2, <1>3 DEF FrameOK
<1>5. Link(stack, Len(stack), f, ready)
  BY <1>1, <1>2, <1>3 DEF Link, LetThrough
<1> QED
  BY <1>1, <1>2, <1>3, <1>4, <1>5, PutKept

(* Dispatch calls the node's function or gives it to a process; if it has  *)
(* asked, the node is a command of a pipe.                                 *)
LEMMA DispatchNodeKept ==
  ASSUME HooksInvariant, DispatchNode
  PROVE  HooksInvariant'
<1>1. stack # <<>> /\ Top.step = "run" /\ Top.fn = "Dispatch"
      /\ UNCHANGED <<hookVars, depth, rc, typed, ready, dropped>>
  BY DEF DispatchNode, In
<1>2. Top \in Frames /\ FrameOK(Top) /\ Link(stack, Len(stack), Top, ready)
      /\ depth \in 0..1 /\ (depth = 1 <=> Below(stack, Len(stack)) \/ Top.quiet)
  BY <1>1, TopFacts
<1>3. ~Top.quiet /\ Top.node \in Nodes /\ Top.asks \in 0..1
  BY <1>1, <1>2, FrameFields DEF FrameOK, Operators
<1>4. ASSUME NEW f \in Frames, Put(f), f.node = Top.node, f.io = Top.io, f.arm = Top.arm,
             f.asks = Top.asks, f.quiet = Top.quiet, FrameOK(f),
             f.step = "enter" \/ f.fn = "process"
      PROVE  HooksInvariant'
  <2>1. Link(stack, Len(stack), f, ready)
    BY <1>1, <1>2, <1>3, <1>4 DEF Link, LetThrough, FrameOK
  <2> QED
    BY <1>1, <1>2, <1>4, <2>1, PutKept
<1>5. CASE Put([Top EXCEPT !.fn = Handler(Top.node), !.step = "enter"])
  <2> DEFINE f == [Top EXCEPT !.fn = Handler(Top.node), !.step = "enter"]
  <2>1. Handler(Top.node) \in Hooks \cup {"block", "process"}
    BY <1>3, KindsAndHooks
  <2>2. f \in Frames /\ f.step = "enter" /\ f.node = Top.node /\ f.io = Top.io
        /\ f.fn = Handler(Top.node) /\ f.arm = Top.arm /\ f.asks = Top.asks
        /\ f.quiet = Top.quiet
    BY <1>2, <2>1 DEF Frames
  <2> HIDE DEF f
  <2>3. Top.asks > 0 => Top.io = "pipe" /\ IsCommand(Top.node)
    BY <1>1, <1>2 DEF FrameOK, Operators
  <2>4. FrameOK(f)
    BY <1>3, <2>2, <2>3, KindsAndHooks DEF FrameOK, Operators
  <2> QED
    BY <1>4, <1>5, <2>2, <2>4 DEF f
<1>6. CASE Top.io = "pipe" /\ IsCommand(Top.node) /\ Put([Top EXCEPT !.fn = "process"])
  <2> DEFINE f == [Top EXCEPT !.fn = "process"]
  <2>1. f \in Frames /\ f.step = "run" /\ f.node = Top.node /\ f.io = Top.io
        /\ f.fn = "process" /\ f.arm = Top.arm /\ f.asks = Top.asks /\ f.quiet = Top.quiet
    BY <1>1, <1>2 DEF Frames
  <2> HIDE DEF f
  <2>2. FrameOK(f)
    BY <1>3, <1>6, <2>1 DEF FrameOK, Operators
  <2> QED
    BY <1>4, <1>6, <2>1, <2>2 DEF f
<1> QED
  BY <1>5, <1>6 DEF DispatchNode

(* A side of an operator, a line of a script, or the body of a block is    *)
(* dispatched: in a pipe only by ePipe, which is then just below it.       *)
LEMMA RunArmKept ==
  ASSUME HooksInvariant, RunArm
  PROVE  LET n == Len(stack) IN
         /\ HooksInvariant' /\ stack' # <<>> /\ Last(stack').step = "enter"
         /\ n \in Nat \ {0} /\ Len(stack') = n + 1 /\ stack'[n + 1].quiet = FALSE
         /\ stack'[n].quiet = Top.quiet /\ stack'[n].asks = Top.asks
         /\ \A i \in 1..(n - 1) : stack'[i] = stack[i]
<1> DEFINE n == Len(stack)
           f == [Top EXCEPT !.arm = @ + 1]
           g == Frame(Arms[f.node][f.arm], IF f.fn = "ePipe" THEN "pipe" ELSE "other")
<1>1. stack # <<>> /\ Top.step = "run" /\ Top.fn # "Dispatch" /\ Wants(Top)
      /\ stack' = Front(stack) \o <<f, g>>
      /\ UNCHANGED <<hookVars, depth, rc, typed, ready, dropped>>
  BY DEF RunArm, In
<1>2. /\ n \in Nat \ {0} /\ stack \in Seq(Frames) /\ StackTypes(stack)
      /\ Chain(stack, ready) /\ Top \in Frames /\ FrameOK(Top)
      /\ Link(stack, n, Top, ready) /\ depth \in 0..1
      /\ (depth = 1 <=> Below(stack, n) \/ Top.quiet)
  BY <1>1, TopFacts DEF HooksInvariant, StackTypes
<1>3. Top.arm \in Nat /\ Top.arm + 1 \in Nat /\ Top.arm + 1 > 0 /\ Top.node \in Nodes
      /\ Top.arm + 1 <= Len(Arms[Top.node]) /\ Top.fn # "process"
      /\ Arms[Top.node] \in Seq(Nodes)
  BY <1>1, <1>2, KindsAndHooks, FrameFields DEF Wants
<1>4. f \in Frames /\ f.step = "run" /\ f.node = Top.node /\ f.io = Top.io /\ f.fn = Top.fn
      /\ f.arm = Top.arm + 1 /\ f.asks = Top.asks /\ f.quiet = Top.quiet
  BY <1>1, <1>2, <1>3 DEF Frames
<1>5. Arms[f.node][f.arm] \in Nodes
  BY <1>3, <1>4
<1>6. g \in Frames /\ g.step = "enter" /\ g.fn = "Dispatch" /\ g.arm = 0 /\ g.asks = 0
      /\ g.quiet = FALSE /\ g.node \in Nodes /\ (g.io = "pipe" => f.fn = "ePipe")
  BY <1>5, KindsAndHooks DEF Frame, Frames
<1> HIDE DEF f, g
<1>7. /\ stack' \in Seq(Frames) /\ Len(stack') = n + 1 /\ stack' # <<>>
      /\ stack'[n] = f /\ stack'[n + 1] = g
      /\ \A i \in 1..(n - 1) : stack'[i] = stack[i]
  BY <1>1, <1>2, <1>4, <1>6, Pushes
<1>8. FrameOK(f) /\ FrameOK(g)
  BY <1>1, <1>2, <1>3, <1>4, <1>6 DEF FrameOK, Operators
<1>9. Link(stack, n, f, ready) /\ Inner(f)
  BY <1>1, <1>2, <1>3, <1>4 DEF Link, LetThrough, Inner
<1>10. Link(stack', n + 1, g, ready)
  <2>1. n + 1 > 1 /\ n + 1 - 1 = n
    BY <1>2
  <2> QED
    BY <1>4, <1>6, <1>7, <2>1 DEF Link
<1>11. Chain(stack', ready')
  BY <1>1, <1>2, <1>7, <1>8, <1>9, <1>10, ChainPush
<1>12. StackTypes(stack')
  <2>1. ASSUME NEW i \in 1..Len(stack') PROVE stack'[i].arm <= Len(Arms[stack'[i].node])
    <3>1. CASE i = n + 1
      BY <1>6, <1>7, <3>1, KindsAndHooks
    <3>2. CASE i = n
      BY <1>3, <1>4, <1>7, <3>2
    <3>3. CASE i \in 1..(n - 1)
      BY <1>2, <1>7, <3>3 DEF StackTypes
    <3> QED
      BY <1>2, <1>7, <3>1, <3>2, <3>3
  <2> QED
    BY <1>7, <2>1 DEF StackTypes
<1>13. Below(stack', n + 1 + 1) <=> Below(stack, n) \/ f.quiet
  <2>1. \A q \in 1..(n + 1 + 1 - 1) : q \in 1..(n - 1) \/ q = n \/ q = n + 1
    BY <1>2
  <2>2. 1..(n - 1) \subseteq 1..(n + 1 + 1 - 1) /\ n \in 1..(n + 1 + 1 - 1)
    BY <1>2
  <2> QED
    BY <1>6, <1>7, <2>1, <2>2 DEF Below
<1>14. Balanced'
  BY <1>1, <1>2, <1>4, <1>7, <1>13 DEF Balanced, Below
<1>15. BasicTypes' /\ HooksStay'
  BY <1>1, <1>7 DEF HooksInvariant, BasicTypes, HooksStay, hookVars
<1>16. Last(stack') = g
  BY <1>7, Tops
<1> QED
  BY <1>2, <1>4, <1>6, <1>7, <1>11, <1>12, <1>14, <1>15, <1>16 DEF HooksInvariant

(* A command line is entered, under the hooks that are there by then. *)
LEMMA TypeKept ==
  ASSUME HooksInvariant, NEW m \in Lines, Type(m)
  PROVE  HooksInvariant'
<1> DEFINE g == Frame(m, "other")
<1>1. /\ stack = <<>> /\ attaching < 8 /\ stack' = <<g>> /\ typed' = typed + 1
      /\ typed < MaxTyped /\ ready' = stored /\ UNCHANGED <<hookVars, depth, rc, dropped>>
  BY DEF Type
<1>2. m \in Nodes /\ Len(Arms[m]) \in Nat
  BY HooksAssumption, LenProperties
<1>3. g \in Frames /\ g.step = "enter" /\ g.fn = "Dispatch" /\ g.arm = 0 /\ g.asks = 0
      /\ g.quiet = FALSE /\ g.node = m /\ g.io = "other"
  BY <1>2, KindsAndHooks DEF Frame, Frames
<1> HIDE DEF g
<1>4. stack' \in Seq(Frames) /\ Len(stack') = 1 /\ stack'[1] = g /\ Len(stack) = 0
      /\ stack' # <<>>
  BY <1>1, <1>3
<1>5. FrameOK(g) /\ Link(stack', 1, g, ready')
  BY <1>3 DEF FrameOK, Link, Below, Operators
<1>6. Chain(stack', ready') /\ StackTypes(stack')
  BY <1>2, <1>3, <1>4, <1>5 DEF Chain, StackTypes
<1>7. ~Below(stack, 1) /\ ~Below(stack', 1 + 1)
  BY <1>3, <1>4 DEF Below
<1>8. Balanced'
  BY <1>1, <1>4, <1>7 DEF HooksInvariant, Balanced, Below
<1>9. BasicTypes' /\ HooksStay'
  BY <1>1, <1>4, HooksAssumption DEF HooksInvariant, BasicTypes, HooksStay, hookVars
<1> QED
  BY <1>6, <1>8, <1>9 DEF HooksInvariant

(* The injected thread only adds hooks until cmd.exe ends. *)
LEMMA AttachKept ==
  ASSUME HooksInvariant, AttachNext
  PROVE  HooksInvariant'
<1>1. CASE AttachHook \/ Store \/ ModuleNotFound
  <2>1. UNCHANGED <<stack, depth, rc, typed, ready, dropped>>
    BY <1>1 DEF AttachHook, Store, ModuleNotFound, cmdVars
  <2>2. Attaching => Hook \in Hooks
    BY DEF Attaching, Hook, Hooks
  <2>3. BasicTypes' /\ HooksStay'
    BY <1>1, <2>1, <2>2 DEF HooksInvariant, BasicTypes, HooksStay, AttachHook, Store,
       ModuleNotFound, Attaching
  <2> QED
    BY <2>1, <2>3 DEF HooksInvariant, Chain, StackTypes, Balanced, Below
<1>2. CASE Detach
  <2>1. stack' = <<>> /\ Len(stack') = 0 /\ stack' \in Seq(Frames) /\ depth' = 0
    BY <1>2 DEF Detach
  <2>2. Chain(stack', ready') /\ StackTypes(stack') /\ Balanced'
    BY <2>1 DEF Chain, StackTypes, Balanced, Below
  <2>3. BasicTypes' /\ HooksStay'
    BY <1>2, <2>1 DEF Detach, HooksInvariant, BasicTypes, HooksStay
  <2> QED
    BY <2>2, <2>3 DEF HooksInvariant
<1> QED
  BY <1>1, <1>2 DEF AttachNext

(* Every step keeps the invariant. *)
LEMMA HooksInvariantKept ==
  ASSUME HooksInvariant, [Next]_vars
  PROVE  HooksInvariant'
<1>1. CASE AttachNext
  BY <1>1, AttachKept
<1>2. CASE Unhooked \/ Ask \/ Forward \/ DispatchNode \/ RunArm
  BY <1>2, UnhookedKept, AskKept, ForwardKept, DispatchNodeKept, RunArmKept
<1>3. CASE Pass \/ Continue
  BY <1>3, CallKept DEF Pass, Continue, In
<1>4. CASE Skip \/ Finish
  <2>1. stack # <<>> /\ UNCHANGED <<hookVars, typed, ready, dropped>> /\ dropped \subseteq Nodes
    BY <1>4 DEF Skip, Finish, In, HooksInvariant, BasicTypes
  <2>2. \E r \in 0..1 : Return(r)
    BY <1>4 DEF Skip, Finish
  <2> QED
    BY <2>1, <2>2, ReturnKept
<1>5. CASE NotStored
  <2>1. stack # <<>> /\ Return(0) /\ dropped' = dropped \cup {Top.node}
        /\ UNCHANGED <<hookVars, typed, ready>>
    BY <1>5 DEF NotStored, In
  <2>2. Top.node \in Nodes /\ dropped \subseteq Nodes
    BY <2>1, TopFacts, FrameFields DEF HooksInvariant, BasicTypes
  <2> QED
    BY <2>1, <2>2, ReturnKept
<1>6. CASE \E m \in Lines : Type(m)
  BY <1>6, TypeKept
<1>7. CASE UNCHANGED vars
  BY <1>7 DEF vars, hookVars, cmdVars, HooksInvariant, BasicTypes, StackTypes, Chain, HooksStay,
     Balanced, Below, Link, LetThrough
<1> QED
  BY <1>1, <1>2, <1>3, <1>4, <1>5, <1>6, <1>7 DEF Next, Step

(* The invariant of the frames and of the counter, at every step. *)
THEOREM HooksInvariance == Spec => []HooksInvariant
<1>1. Init => HooksInvariant
  <2> SUFFICES ASSUME Init PROVE HooksInvariant
    OBVIOUS
  <2>1. stack = <<>> /\ Len(stack) = 0 /\ stack \in Seq(Frames) /\ depth = 0
    BY DEF Init
  <2>2. Chain(stack, ready) /\ StackTypes(stack) /\ Balanced
    BY <2>1 DEF Chain, StackTypes, Balanced, Below
  <2>3. BasicTypes /\ HooksStay
    BY <2>1, HooksAssumption DEF Init, BasicTypes, HooksStay
  <2> QED
    BY <2>2, <2>3 DEF HooksInvariant
<1>2. HooksInvariant /\ [Next]_vars => HooksInvariant'
  BY HooksInvariantKept
<1> QED
  BY <1>1, <1>2, PTL DEF Spec

(* The state is well formed at every step. *)
THEOREM TypeCorrect == Spec => []TypeOK
<1>1. HooksInvariant => TypeOK
  <2> SUFFICES ASSUME HooksInvariant PROVE TypeOK
    OBVIOUS
  <2>1. Len(stack) \in Nat
    BY LenProperties DEF HooksInvariant, StackTypes
  <2>2. depth \in 0..Len(stack)
    BY <2>1 DEF HooksInvariant, Balanced, Below
  <2>3. \A i \in 1..Len(stack) : stack[i].quiet => stack[i].fn \in Operators
    BY DEF HooksInvariant, Chain, FrameOK
  <2> QED
    BY <2>2, <2>3 DEF HooksInvariant, BasicTypes, StackTypes, TypeOK
<1> QED
  BY <1>1, HooksInvariance, PTL

(* The counter is 1 exactly while a group that was let through runs, and   *)
(* no second group counts within it.                                       *)
THEOREM CounterBalanced == Spec => []SuppressionBalanced
<1>1. HooksInvariant => SuppressionBalanced
  <2> SUFFICES ASSUME HooksInvariant PROVE SuppressionBalanced
    OBVIOUS
  <2>1. Len(stack) \in Nat
    BY LenProperties DEF HooksInvariant, StackTypes
  <2>2. Below(stack, Len(stack) + 1) <=> Quiet # {}
    BY <2>1 DEF Below, Quiet
  <2>3. ASSUME NEW i \in Quiet, NEW j \in Quiet, i < j PROVE FALSE
    <3>1. i \in 1..(j - 1) /\ stack[i].quiet /\ stack[j].quiet /\ j \in 1..Len(stack)
      BY <2>1, <2>3 DEF Quiet
    <3> QED
      BY <3>1 DEF HooksInvariant, Chain, Link, Below
  <2>4. \A i, j \in Quiet : i = j
    BY <2>1, <2>3 DEF Quiet
  <2> QED
    BY <2>2, <2>4 DEF SuppressionBalanced, HooksInvariant, Balanced
<1> QED
  BY <1>1, HooksInvariance, PTL

-------------------------------------------------------------------------------
(* What is asked, and what is not. *)

(* A frame below the top that has asked is a script or a quiet group. *)
LEMMA AskedBelow ==
  ASSUME HooksInvariant, NEW j \in 1..Len(stack), j < Len(stack), stack[j].asks > 0
  PROVE  stack[j].quiet \/ Kind[stack[j].node] = "script"
<1>1. /\ stack[j] \in Frames /\ FrameOK(stack[j]) /\ Inner(stack[j])
      /\ stack[j].arm <= Len(Arms[stack[j].node])
  BY DEF HooksInvariant, StackTypes, Chain
<1>2. stack[j].node \in Nodes /\ stack[j].arm \in Nat
  BY <1>1, FrameFields
<1>3. Kind[stack[j].node] # "command"
  <2>1. ASSUME Kind[stack[j].node] = "command" PROVE FALSE
    <3>1. Arms[stack[j].node] = <<>>
      BY <1>2, <2>1, HooksAssumption
    <3>2. Len(Arms[stack[j].node]) = 0
      BY <3>1
    <3> QED
      BY <1>1, <1>2, <3>2 DEF Inner
  <2> QED
    BY <2>1
<1> QED
  BY <1>1, <1>3 DEF FrameOK, Inner, IsCommand

(* The user is asked once about a command, by its group or by itself.      *)
THEOREM NobodyIsAskedTwice == Spec => []AskedOnce
<1>1. HooksInvariant => AskedOnce
  <2> SUFFICES ASSUME HooksInvariant, NEW i \in Scope, NEW j \in Scope,
                      stack[i].asks > 0, stack[j].asks > 0
               PROVE  i = j /\ (stack[i].asks > 1 => stack[i].io = "pipe" /\ "ePipe" \notin ready)
    BY DEF AskedOnce
  <2>1. Len(stack) \in Nat /\ i \in 1..Len(stack) /\ j \in 1..Len(stack)
    BY LenProperties DEF HooksInvariant, StackTypes, Scope
  <2>2. ASSUME NEW k \in Scope, NEW m \in Scope, stack[k].asks > 0, stack[m].asks > 0, k < m
        PROVE  FALSE
    <3>1. k \in 1..Len(stack) /\ m \in 1..Len(stack) /\ k < Len(stack)
      BY <2>1, <2>2 DEF Scope
    <3>2. CASE stack[k].quiet
      <4>1. Below(stack, m)
        BY <2>2, <3>1, <3>2 DEF Below
      <4>2. stack[m].asks = 0
        BY <3>1, <4>1 DEF HooksInvariant, Chain, Link
      <4> QED
        BY <2>2, <4>2
    <3>3. CASE Kind[stack[k].node] = "script"
      BY <2>1, <2>2, <3>1, <3>3 DEF Scope, Scripts
    <3> QED
      BY <2>2, <3>1, <3>2, <3>3, AskedBelow
  <2>3. i = j
    BY <2>1, <2>2
  <2>4. ASSUME stack[i].asks > 1 PROVE stack[i].io = "pipe" /\ "ePipe" \notin ready
    <3>1. FrameOK(stack[i]) /\ Link(stack, i, stack[i], ready) /\ stack[i].asks # 0
      BY <2>1 DEF HooksInvariant, Chain
    <3>2. stack[i].io = "pipe"
      BY <2>4, <3>1 DEF FrameOK
    <3>3. /\ i > 1 /\ stack[i - 1].fn = "ePipe" /\ stack[i - 1].step = "run"
          /\ i - 1 \in 1..Len(stack) /\ ~Below(stack, i)
      BY <2>1, <3>1, <3>2 DEF Link
    <3>4. Link(stack, i - 1, stack[i - 1], ready)
      BY <3>3 DEF HooksInvariant, Chain
    <3>5. ~Below(stack, i - 1) /\ ~stack[i - 1].quiet
      BY <2>1, <3>3 DEF Below
    <3> QED
      BY <3>2, <3>3, <3>4, <3>5 DEF Link
  <2> QED
    BY <2>3, <2>4
<1> QED
  BY <1>1, HooksInvariance, PTL

(* A command that runs without a breakpoint is one of the exceptions of    *)
(* Covered: no hook was there for it, its text or its group's cannot be    *)
(* read, or a script hides the group that was asked about.                 *)
THEOREM NoneRunsUnseen == Spec => []Covered
<1>1. HooksInvariant => Covered
  <2> SUFFICES ASSUME HooksInvariant, Executing, ~Asked,
                      "FindFixAndRun" \in ready,
                      Top.io = "pipe" => {"Dispatch", "ePipe"} \cap ready # {},
                      Top.node \notin Unreadable
               PROVE  \E i \in Quiet : stack[i].asks = 0 \/ i \notin Scope
    BY DEF Covered
  <2> DEFINE n == Len(stack)
  <2>1. stack # <<>> /\ Top.step = "run" /\ Top.fn \in {"FindFixAndRun", "process"}
    BY DEF Executing, In
  <2>2. /\ n \in Nat \ {0} /\ Top = stack[n] /\ Top \in Frames /\ FrameOK(Top)
        /\ Link(stack, n, Top, ready)
    BY <2>1, TopFacts
  <2>3. n \in Scope
    BY <2>2 DEF Scope, Scripts
  <2>4. Top.asks = 0
    BY <2>2, <2>3, FrameFields DEF Asked
  <2>5. Top.fn = "process" => Top.io = "pipe" /\ IsCommand(Top.node)
    BY <2>2, KindsAndHooks, FrameFields DEF FrameOK, Operators
  <2>6. Below(stack, n)
    <3>1. CASE Top.fn = "FindFixAndRun"
      BY <2>1, <2>2, <2>4, <3>1 DEF Link, LetThrough
    <3>2. CASE Top.fn = "process" /\ "Dispatch" \in ready
      BY <2>1, <2>2, <2>4, <2>5, <3>2 DEF Link, LetThrough
    <3>3. CASE Top.fn = "process" /\ "ePipe" \in ready
      <4>1. n > 1 /\ stack[n - 1].fn = "ePipe" /\ stack[n - 1].step = "run" /\ n - 1 \in 1..n
        BY <2>2, <2>5, <3>3 DEF Link
      <4>2. Link(stack, n - 1, stack[n - 1], ready)
        BY <4>1 DEF HooksInvariant, Chain
      <4>3. Below(stack, n - 1) \/ stack[n - 1].quiet
        BY <3>3, <4>1, <4>2 DEF Link
      <4> QED
        BY <2>2, <4>1, <4>3 DEF Below
    <3> QED
      BY <2>1, <2>5, <3>1, <3>2, <3>3
  <2>7. PICK q \in 1..(n - 1) : stack[q].quiet
    BY <2>6 DEF Below
  <2>8. q \in Quiet /\ stack[q] \in Frames /\ q \in 1..n
    BY <2>2, <2>7 DEF Quiet, HooksInvariant, StackTypes
  <2>9. stack[q].asks = 0 \/ q \notin Scope
    BY <2>8, FrameFields DEF Asked
  <2> QED
    BY <2>8, <2>9
<1> QED
  BY <1>1, HooksInvariance, PTL

-------------------------------------------------------------------------------
(* A hook that is called without being stored is the one that is being     *)
(* installed.                                                              *)
StoredButOne ==
  /\ attaching < 8 => enabled \subseteq stored \cup (IF Attaching THEN {Hook} ELSE {})
  /\ stack # <<>> /\ Top.step \in {"held", "call"} => Top.fn \in enabled

(* A call gets past the hook only where the detour is in place. *)
LEMMA StoredButOneKept ==
  ASSUME HooksInvariant, StoredButOne, [Next]_vars
  PROVE  StoredButOne'
<1>1. ASSUME stack # <<>>, NEW f \in Frames, Put(f), UNCHANGED hookVars,
             f.step \in {"held", "call"} => f.fn \in enabled
      PROVE  StoredButOne'
  <2>1. stack \in Seq(Frames)
    BY DEF HooksInvariant, StackTypes
  <2>2. stack' \in Seq(Frames) /\ stack' # <<>> /\ Len(stack') = Len(stack)
        /\ stack'[Len(stack)] = f
    BY <1>1, <2>1, Puts DEF Put
  <2>3. stack' # <<>> /\ Last(stack') = f
    BY <2>2, Tops
  <2> QED
    BY <1>1, <2>3 DEF StoredButOne, hookVars, Attaching, Hook, Top
<1>2. ASSUME stack # <<>>, NEW r, Return(r), UNCHANGED hookVars PROVE StoredButOne'
  <2> DEFINE n == Len(stack)
  <2>1. /\ n \in Nat \ {0} /\ stack' \in Seq(Frames) /\ Len(stack') = n - 1
        /\ \A i \in 1..(n - 1) : stack'[i] = stack[i]
    BY <1>2, Tops DEF Return, HooksInvariant, StackTypes
  <2>2. ASSUME stack' # <<>> PROVE Last(stack').step = "run"
    <3>1. Len(stack') \in Nat \ {0} /\ Last(stack') = stack'[n - 1] /\ n - 1 \in 1..(n - 1)
      BY <2>1, <2>2, Tops
    <3>2. Inner(stack[n - 1])
      BY <2>1, <3>1 DEF HooksInvariant, Chain
    <3> QED
      BY <2>1, <3>1, <3>2 DEF Inner
  <2> QED
    BY <1>2, <2>2 DEF StoredButOne, hookVars, Attaching, Hook, Top
<1>3. ASSUME stack # <<>>, CallOriginal, Top.fn \in enabled, UNCHANGED hookVars
      PROVE  StoredButOne'
  <2> DEFINE quiet == Top.fn \in Operators /\ depth = 0
             f == [Top EXCEPT !.step = "call", !.quiet = quiet]
  <2>1. Put(f) /\ Top \in Frames /\ quiet \in BOOLEAN
    BY <1>3, TopFacts DEF CallOriginal
  <2>2. f \in Frames /\ f.fn = Top.fn
    BY <2>1 DEF Frames
  <2> QED
    BY <1>1, <1>3, <2>1, <2>2
<1>4. CASE Pass \/ Continue
  BY <1>3, <1>4 DEF Pass, Continue, In, StoredButOne
<1>5. CASE Unhooked \/ Forward
  <2>1. stack # <<>> /\ Put([Top EXCEPT !.step = "run"]) /\ UNCHANGED hookVars
    BY <1>5 DEF Unhooked, Forward, In
  <2>2. Top \in Frames
    BY <2>1, TopFacts
  <2>3. [Top EXCEPT !.step = "run"] \in Frames /\ [Top EXCEPT !.step = "run"].step = "run"
    BY <2>2 DEF Frames
  <2> QED
    BY <1>1, <2>1, <2>3
<1>6. CASE Ask
  <2> DEFINE f == [Top EXCEPT !.step = "held", !.asks = @ + 1]
  <2>1. stack # <<>> /\ Top.step = "enter" /\ Top.fn \in enabled /\ Put(f) /\ UNCHANGED hookVars
    BY <1>6 DEF Ask, In
  <2>2. Top \in Frames /\ FrameOK(Top)
    BY <2>1, TopFacts
  <2>3. Top.asks + 1 \in 0..2
    BY <2>1, <2>2, FrameFields DEF FrameOK
  <2>4. f \in Frames /\ f.fn = Top.fn
    BY <2>2, <2>3 DEF Frames
  <2> QED
    BY <1>1, <2>1, <2>4
<1>7. CASE Skip \/ NotStored \/ Finish
  BY <1>2, <1>7 DEF Skip, NotStored, Finish, In
<1>8. CASE DispatchNode
  <2>1. stack # <<>> /\ Top.step = "run" /\ UNCHANGED hookVars
    BY <1>8 DEF DispatchNode, In
  <2>2. Top \in Frames /\ Top.node \in Nodes
    BY <2>1, TopFacts, FrameFields
  <2>3. [Top EXCEPT !.fn = Handler(Top.node), !.step = "enter"] \in Frames
    BY <2>2, KindsAndHooks DEF Frames
  <2>4. [Top EXCEPT !.fn = "process"] \in Frames /\ [Top EXCEPT !.fn = "process"].step = "run"
    BY <2>1, <2>2 DEF Frames
  <2>5. [Top EXCEPT !.fn = Handler(Top.node), !.step = "enter"].step = "enter"
    BY <2>2 DEF Frames
  <2> QED
    BY <1>1, <1>8, <2>1, <2>3, <2>4, <2>5 DEF DispatchNode
<1>9. CASE RunArm
  <2>1. Last(stack').step = "enter" /\ stack # <<>> /\ UNCHANGED hookVars
    BY <1>9, RunArmKept DEF RunArm, In
  <2> QED
    BY <2>1 DEF StoredButOne, hookVars, Attaching, Hook, Top
<1>10. CASE \E m \in Lines : Type(m)
  <2>1. PICK m \in Lines : Type(m)
    BY <1>10
  <2>2. stack' = <<Frame(m, "other")>> /\ UNCHANGED hookVars
    BY <2>1 DEF Type
  <2>3. Last(stack').step = "enter"
    BY <2>2 DEF Frame, Last
  <2> QED
    BY <2>2, <2>3 DEF StoredButOne, hookVars, Attaching, Hook, Top
<1>11. CASE AttachHook \/ Store \/ ModuleNotFound
  <2>1. stack' = stack /\ enabled \subseteq enabled'
    BY <1>11 DEF AttachHook, Store, ModuleNotFound, cmdVars
  <2>2. attaching' < 8 => enabled' \subseteq stored' \cup (IF Attaching THEN {Hook} ELSE {})'
    BY <1>11 DEF AttachHook, Store, ModuleNotFound, StoredButOne, Attaching, Hook
  <2> QED
    BY <2>1, <2>2 DEF StoredButOne, Top
<1>12. CASE Detach
  BY <1>12 DEF Detach, StoredButOne
<1>13. CASE UNCHANGED vars
  BY <1>13 DEF vars, hookVars, cmdVars, StoredButOne, Attaching, Hook, Top
<1> QED
  BY <1>4, <1>5, <1>6, <1>7, <1>8, <1>9, <1>10, <1>11, <1>12, <1>13
     DEF Next, Step, AttachNext

(* A command that a hook has passed on or the user has continued is        *)
(* dropped only while hooks are being installed.                           *)
THEOREM DropsOnlyAttaching == Spec => DroppedOnlyAttaching
<1>1. Init => StoredButOne
  BY DEF Init, StoredButOne
<1>2. HooksInvariant /\ StoredButOne /\ [Next]_vars => StoredButOne'
  BY StoredButOneKept
<1>3. HooksInvariant /\ StoredButOne /\ [Next]_vars => [dropped' # dropped => Attaching]_vars
  <2> SUFFICES ASSUME HooksInvariant, StoredButOne, [Next]_vars, dropped' # dropped
               PROVE  Attaching
    OBVIOUS
  <2>1. NotStored
    BY DEF Next, Step, AttachNext, AttachHook, Store, ModuleNotFound, Detach, Unhooked, Pass, Ask,
       Continue, Skip, Forward, DispatchNode, RunArm, Finish, Type, vars, cmdVars
  <2>2. stack # <<>> /\ Top.step = "call" /\ Top.fn \notin stored
    BY <2>1 DEF NotStored, In
  <2>3. attaching < 8 /\ Top.fn \in enabled
    BY <2>2, TopFacts DEF StoredButOne
  <2> QED
    BY <2>2, <2>3 DEF StoredButOne
<1> QED
  BY <1>1, <1>2, <1>3, HooksInvariance, PTL DEF Spec, DroppedOnlyAttaching

-------------------------------------------------------------------------------
(* Where every text can be read back no group is let through unasked: a    *)
(* quiet one has asked.                                                    *)
QuietHasAsked == \A i \in 1..Len(stack) : stack[i].quiet => stack[i].asks > 0

(* Only a group that was asked about, or cannot be rendered, becomes quiet. *)
LEMMA QuietHasAskedKept ==
  ASSUME Unreadable = {}, HooksInvariant, QuietHasAsked, [Next]_vars
  PROVE  QuietHasAsked'
<1> DEFINE n == Len(stack)
<1>1. ASSUME stack # <<>>, NEW f \in Frames, Put(f), f.quiet => f.asks > 0
      PROVE  QuietHasAsked'
  <2>1. stack \in Seq(Frames)
    BY DEF HooksInvariant, StackTypes
  <2>2. /\ n \in Nat \ {0} /\ Len(stack') = n /\ stack'[n] = f
        /\ \A i \in 1..(n - 1) : stack'[i] = stack[i]
    BY <1>1, <2>1, Puts, Tops DEF Put
  <2>3. \A i \in 1..n : i = n \/ i \in 1..(n - 1)
    BY <2>2
  <2> QED
    BY <1>1, <2>2, <2>3 DEF QuietHasAsked
<1>2. ASSUME stack # <<>>
      PROVE  /\ Top \in Frames /\ FrameOK(Top)
             /\ Top.quiet => Top.asks > 0
             /\ Top.asks \in 0..2
  BY <1>2, TopFacts, FrameFields DEF QuietHasAsked
<1>3. ASSUME stack # <<>>, CallOriginal, Top.asks > 0 \/ depth # 0 \/ Top.fn \notin Operators
      PROVE  QuietHasAsked'
  <2> DEFINE quiet == Top.fn \in Operators /\ depth = 0
             f == [Top EXCEPT !.step = "call", !.quiet = quiet]
  <2>1. Put(f) /\ quiet \in BOOLEAN
    BY <1>3 DEF CallOriginal
  <2>2. f \in Frames /\ f.asks = Top.asks /\ f.quiet = quiet
    BY <1>2, <1>3, <2>1 DEF Frames
  <2> QED
    BY <1>1, <1>3, <2>1, <2>2
<1>4. CASE Pass
  <2>1. stack # <<>> /\ CallOriginal /\ ~Breaks(Top)
    BY <1>4 DEF Pass, In
  <2>2. Rendered(Top.node) /\ "Dispatch" \notin Operators
    BY DEF Rendered, HasText, Operators
  <2>3. depth # 0 \/ Top.fn \notin Operators
    BY <2>1, <2>2 DEF Breaks
  <2> QED
    BY <1>3, <2>1, <2>3
<1>5. CASE Continue
  BY <1>2, <1>3, <1>5 DEF Continue, In, FrameOK
<1>6. CASE Unhooked \/ Forward
  <2>1. stack # <<>> /\ Put([Top EXCEPT !.step = "run"])
    BY <1>6 DEF Unhooked, Forward, In
  <2>2. /\ [Top EXCEPT !.step = "run"] \in Frames
        /\ [Top EXCEPT !.step = "run"].quiet = Top.quiet
        /\ [Top EXCEPT !.step = "run"].asks = Top.asks
    BY <1>2, <2>1 DEF Frames
  <2> QED
    BY <1>1, <1>2, <2>1, <2>2
<1>7. CASE Ask
  <2> DEFINE f == [Top EXCEPT !.step = "held", !.asks = @ + 1]
  <2>1. stack # <<>> /\ Top.step = "enter" /\ Put(f)
    BY <1>7 DEF Ask, In
  <2>2. Top.asks + 1 \in 0..2 /\ Top.asks + 1 > 0
    BY <1>2, <2>1 DEF FrameOK
  <2>3. f \in Frames /\ f.asks = Top.asks + 1
    BY <1>2, <2>1, <2>2 DEF Frames
  <2> QED
    BY <1>1, <2>1, <2>2, <2>3
<1>8. CASE Skip \/ NotStored \/ Finish
  <2>1. stack # <<>> /\ stack' = Front(stack)
    BY <1>8 DEF Skip, NotStored, Finish, In, Return
  <2>2. n \in Nat \ {0} /\ Len(stack') = n - 1 /\ \A i \in 1..(n - 1) : stack'[i] = stack[i]
    BY <2>1, Tops DEF HooksInvariant, StackTypes
  <2> QED
    BY <2>2 DEF QuietHasAsked
<1>9. CASE DispatchNode
  <2>1. stack # <<>> /\ Top.step = "run"
    BY <1>9 DEF DispatchNode, In
  <2>2. Top \in Frames /\ Top.node \in Nodes
    BY <1>2, <2>1, FrameFields
  <2>3. ASSUME NEW fn \in Hooks \cup {"block", "process"}, NEW st \in {"enter", "run"}
        PROVE  /\ [Top EXCEPT !.fn = fn, !.step = st] \in Frames
               /\ [Top EXCEPT !.fn = fn, !.step = st].quiet = Top.quiet
               /\ [Top EXCEPT !.fn = fn, !.step = st].asks = Top.asks
    BY <2>2 DEF Frames
  <2>4. [Top EXCEPT !.fn = "process"] = [Top EXCEPT !.fn = "process", !.step = "run"]
    BY <2>1, <2>2 DEF Frames
  <2>5. Handler(Top.node) \in Hooks \cup {"block", "process"}
    BY <2>2, KindsAndHooks
  <2> QED
    BY <1>1, <1>2, <1>9, <2>1, <2>3, <2>4, <2>5 DEF DispatchNode
<1>10. CASE RunArm
  <2>1. /\ n \in Nat \ {0} /\ Len(stack') = n + 1 /\ stack'[n + 1].quiet = FALSE
        /\ stack'[n].quiet = Top.quiet /\ stack'[n].asks = Top.asks
        /\ \A i \in 1..(n - 1) : stack'[i] = stack[i]
    BY <1>10, RunArmKept
  <2>2. Top.quiet => Top.asks > 0
    BY <1>2, <1>10 DEF RunArm, In
  <2>3. SUFFICES ASSUME NEW i \in 1..(n + 1), stack'[i].quiet PROVE stack'[i].asks > 0
    BY <2>1 DEF QuietHasAsked
  <2>4. CASE i \in 1..(n - 1)
    BY <2>1, <2>3, <2>4 DEF QuietHasAsked
  <2>5. CASE i = n
    BY <2>1, <2>2, <2>3, <2>5
  <2>6. CASE i = n + 1
    BY <2>1, <2>3, <2>6
  <2> QED
    BY <2>1, <2>4, <2>5, <2>6
<1>11. CASE \E m \in Lines : Type(m)
  <2>1. PICK m \in Lines : Type(m)
    BY <1>11
  <2>2. Len(stack') = 1 /\ stack'[1].quiet = FALSE
    BY <2>1 DEF Type, Frame
  <2> QED
    BY <2>2 DEF QuietHasAsked
<1>12. CASE AttachHook \/ Store \/ ModuleNotFound \/ UNCHANGED vars
  BY <1>12 DEF AttachHook, Store, ModuleNotFound, vars, cmdVars, QuietHasAsked
<1>13. CASE Detach
  <2>1. Len(stack') = 0
    BY <1>13 DEF Detach
  <2> QED
    BY <2>1 DEF QuietHasAsked
<1> QED
  BY <1>4, <1>5, <1>6, <1>7, <1>8, <1>9, <1>10, <1>11, <1>12, <1>13 DEF Next, Step, AttachNext

(* Where it does hold that every command reaches a breakpoint before it    *)
(* runs (README.md:43): with all hooks in place, every text readable and   *)
(* no script among the commands, whatever the groups and blocks around it. *)
THEOREM PlainCommandsBreak ==
  ASSUME Unreadable = {}, \A m \in Nodes : Kind[m] # "script"
  PROVE  Spec => []EveryCommandBreaks
<1>1. Init => QuietHasAsked
  BY DEF Init, QuietHasAsked
<1>2. HooksInvariant /\ QuietHasAsked /\ [Next]_vars => QuietHasAsked'
  BY QuietHasAskedKept
<1>3. HooksInvariant /\ QuietHasAsked /\ Covered => EveryCommandBreaks
  <2> SUFFICES ASSUME HooksInvariant, QuietHasAsked, Covered, Executing, ready = Hooks, ~Asked
               PROVE  FALSE
    BY DEF EveryCommandBreaks
  <2>1. PICK i \in Quiet : stack[i].asks = 0 \/ i \notin Scope
    BY KindsAndHooks DEF Covered
  <2>2. Len(stack) \in Nat /\ i \in 1..Len(stack) /\ stack[i].asks > 0
    BY LenProperties DEF HooksInvariant, StackTypes, Quiet, QuietHasAsked
  <2>3. Scripts = {}
    <3>1. \A j \in 1..Len(stack) : stack[j] \in Frames
      BY DEF HooksInvariant, StackTypes
    <3> QED
      BY <2>2, <3>1, FrameFields DEF Scripts
  <2>4. i \in Scope
    BY <2>2, <2>3 DEF Scope
  <2> QED
    BY <2>1, <2>2, <2>4
<1> QED
  BY <1>1, <1>2, <1>3, HooksInvariance, NoneRunsUnseen, PTL DEF Spec

===============================================================================
