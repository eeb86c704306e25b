---------------------------- MODULE EditLineProofs ----------------------------
(***************************************************************************)
(* Proofs about EditLine, for every alphabet, every maximal length, and    *)
(* all lines and texts of any length: what is stripped, joined and split   *)
(* is what the user sees and enters.                                       *)
(*                                                                         *)
(* The library's induction over sequences is not needed: where a least or  *)
(* a greatest position matters, the least element of a set of naturals     *)
(* (WFMin) is taken.                                                       *)
(***************************************************************************)
EXTENDS EditLine, SequenceTheorems, FiniteSetTheorems, WellFoundedInduction, TLAPS

Text == Seq(Symbols)

-------------------------------------------------------------------------------
(* The least and the greatest position. *)

(* CHOOSE finds the least element of a set of naturals. *)
LEMMA LeastElement ==
  ASSUME NEW S \in SUBSET Nat, S # {}
  PROVE  Min(S) \in S /\ \A y \in S : Min(S) <= y
<1> DEFINE less == OpToRel(<, Nat)
<1>1. IsWellFoundedOn(less, S)
  BY NatLessThanWellFounded, IsWellFoundedOnSubset
<1>2. PICK x \in S : \A y \in S : <<y, x>> \notin less
  <2> HIDE DEF less
  <2> QED
    BY <1>1, WFMin
<1>3. less = {pair \in Nat \X Nat : pair[1] < pair[2]}
  BY DEF OpToRel
<1>4. \A y \in S : x <= y
  <2>1. SUFFICES ASSUME NEW y \in S, y < x PROVE FALSE
    OBVIOUS
  <2>2. <<y, x>> \in less
    BY <1>3, <2>1
  <2> QED
    BY <1>2, <2>2
<1> QED
  BY <1>2, <1>4 DEF Min

(* It finds the greatest element of a set of positions, too. *)
LEMMA GreatestElement ==
  ASSUME NEW n \in Nat, NEW S \in SUBSET (1..n), S # {}
  PROVE  Max(S) \in S /\ \A y \in S : Max(S) >= y
<1> DEFINE R == {n - x : x \in S}
<1>1. R \in SUBSET Nat /\ R # {}
  <2>1. \A x \in S : n - x \in Nat
    OBVIOUS
  <2> QED
    BY <2>1
<1>2. Min(R) \in R /\ \A r \in R : Min(R) <= r
  BY <1>1, LeastElement
<1>3. PICK x \in S : Min(R) = n - x
  BY <1>2
<1>4. \A y \in S : x >= y
  <2>1. SUFFICES ASSUME NEW y \in S PROVE x >= y
    OBVIOUS
  <2>2. n - y \in R
    OBVIOUS
  <2>3. n - x <= n - y
    BY <1>2, <1>3, <2>2
  <2> QED
    BY <2>3
<1> QED
  BY <1>3, <1>4 DEF Max

-------------------------------------------------------------------------------
(* Stripping. *)

(* Strip is the stretch between any two solid ends with blanks outside. *)
LEMMA StripBetween ==
  ASSUME NEW text \in Text, NEW a \in 1..Len(text), NEW b \in a..Len(text),
         text[a] # Blank, text[b] # Blank,
         \A i \in 1..(a - 1) : text[i] = Blank,
         \A i \in (b + 1)..Len(text) : text[i] = Blank
  PROVE  Strip(text) = SubSeq(text, a, b)
<1> DEFINE solid == {i \in DOMAIN text : text[i] # Blank}
<1>1. Len(text) \in Nat /\ DOMAIN text = 1..Len(text)
  BY LenProperties DEF Text
<1>2. /\ solid \in SUBSET (1..Len(text)) /\ a \in solid /\ b \in solid
      /\ \A i \in solid : i \in Int
  BY <1>1
<1>3. \A i \in solid : a <= i /\ i <= b
  BY <1>1
<1> HIDE DEF solid
<1>4. solid \in SUBSET Nat /\ solid # {}
  BY <1>2
<1>5. Min(solid) \in solid /\ \A y \in solid : Min(solid) <= y
  BY <1>4, LeastElement
<1>6. Max(solid) \in solid /\ \A y \in solid : Max(solid) >= y
  BY <1>1, <1>2, <1>4, GreatestElement
<1>7. Min(solid) = a
  <2>1. Min(solid) \in Int /\ Min(solid) <= a /\ a <= Min(solid)
    BY <1>2, <1>3, <1>5
  <2> QED
    BY <1>2, <2>1
<1>8. Max(solid) = b
  <2>1. Max(solid) \in Int /\ Max(solid) >= b /\ Max(solid) <= b
    BY <1>2, <1>3, <1>6
  <2> QED
    BY <1>2, <2>1
<1> USE DEF solid
<1> QED
  BY <1>4, <1>7, <1>8 DEF Strip

(* A text is all blank, and nothing is left of it, or it has such ends. *)
LEMMA StripCases ==
  ASSUME NEW text \in Text
  PROVE  \/ Strip(text) = <<>> /\ \A i \in 1..Len(text) : text[i] = Blank
         \/ \E a \in 1..Len(text) : \E b \in a..Len(text) :
              /\ text[a] # Blank /\ text[b] # Blank
              /\ \A i \in 1..(a - 1) : text[i] = Blank
              /\ \A i \in (b + 1)..Len(text) : text[i] = Blank
              /\ Strip(text) = SubSeq(text, a, b)
<1> DEFINE solid == {i \in DOMAIN text : text[i] # Blank}
<1>1. Len(text) \in Nat /\ DOMAIN text = 1..Len(text)
  BY LenProperties DEF Text
<1>2. CASE solid = {}
  BY <1>1, <1>2 DEF Strip
<1>3. CASE solid # {}
  <2>1. solid \in SUBSET (1..Len(text))
    BY <1>1
  <2> HIDE DEF solid
  <2>2. PICK a \in solid : \A y \in solid : a <= y
    <3>1. solid \in SUBSET Nat
      BY <1>1, <2>1
    <3> QED
      BY <1>3, <3>1, LeastElement
  <2>3. PICK b \in solid : \A y \in solid : b >= y
    BY <1>1, <1>3, <2>1, GreatestElement
  <2> USE DEF solid
  <2>4. /\ a \in 1..Len(text) /\ b \in a..Len(text)
        /\ text[a] # Blank /\ text[b] # Blank
    BY <1>1, <2>1, <2>2, <2>3
  <2>5. /\ \A i \in 1..(a - 1) : text[i] = Blank
        /\ \A i \in (b + 1)..Len(text) : text[i] = Blank
    BY <1>1, <2>2, <2>3, <2>4
  <2>6. Strip(text) = SubSeq(text, a, b)
    BY <2>4, <2>5, StripBetween
  <2> QED
    BY <2>4, <2>5, <2>6
<1> QED
  BY <1>2, <1>3

(* What is left is a text with solid ends, and of an empty one nothing. *)
LEMMA StripEnds ==
  ASSUME NEW text \in Text
  PROVE  /\ Strip(text) \in Text
         /\ Strip(text) # <<>> =>
              Strip(text)[1] # Blank /\ Strip(text)[Len(Strip(text))] # Blank
         /\ text = <<>> => Strip(text) = <<>>
<1>1. Len(text) \in Nat /\ \A i \in 1..Len(text) : text[i] \in Symbols
  BY LenProperties, ElementOfSeq DEF Text
<1>2. CASE Strip(text) = <<>>
  BY <1>2, EmptySeq DEF Text
<1>3. CASE Strip(text) # <<>>
  <2>1. PICK a \in 1..Len(text), b \in 1..Len(text) :
          /\ b \in a..Len(text)
          /\ text[a] # Blank /\ text[b] # Blank
          /\ Strip(text) = SubSeq(text, a, b)
    BY <1>1, <1>3, StripCases
  <2>2. a \in Int /\ b \in Int /\ \A i \in a..b : text[i] \in Symbols
    BY <1>1, <2>1
  <2>3. /\ SubSeq(text, a, b) \in Seq(Symbols)
        /\ Len(SubSeq(text, a, b)) = b - a + 1
        /\ \A i \in 1..(b - a + 1) : SubSeq(text, a, b)[i] = text[a + i - 1]
    BY <1>1, <2>1, <2>2, SubSeqProperties
  <2>4. SubSeq(text, a, b)[1] = text[a] /\ SubSeq(text, a, b)[b - a + 1] = text[b]
    <3>1. 1 \in 1..(b - a + 1) /\ b - a + 1 \in 1..(b - a + 1)
      BY <1>1, <2>1
    <3>2. a + 1 - 1 = a /\ a + (b - a + 1) - 1 = b
      BY <1>1, <2>1
    <3> QED
      BY <2>3, <3>1, <3>2
  <2>5. text # <<>>
    BY <1>1, EmptySeq
  <2> QED
    BY <2>1, <2>3, <2>4, <2>5 DEF Text
<1> QED
  BY <1>2, <1>3

(* A text with solid ends is left as it is. *)
LEMMA StripOfSolid ==
  ASSUME NEW text \in Text, text # <<>>, text[1] # Blank, text[Len(text)] # Blank
  PROVE  Strip(text) = text
<1>1. Len(text) \in Nat \ {0}
  BY EmptySeq DEF Text
<1>2. Strip(text) = SubSeq(text, 1, Len(text))
  BY <1>1, StripBetween
<1> QED
  BY <1>2, SubSeqFull DEF Text

(* Stripping twice is stripping once. *)
LEMMA StripTwice ==
  ASSUME NEW text \in Text
  PROVE  Strip(Strip(text)) = Strip(text)
<1>1. CASE Strip(text) = <<>>
  BY <1>1, StripEnds
<1>2. CASE Strip(text) # <<>>
  BY <1>2, StripEnds, StripOfSolid
<1> QED
  BY <1>1, <1>2

(* A blank in front makes no difference to what is left. *)
LEMMA StripBlankFirst ==
  ASSUME NEW text \in Text
  PROVE  /\ <<Blank>> \o text \in Text
         /\ Strip(<<Blank>> \o text) = Strip(text)
<1> DEFINE longer == <<Blank>> \o text
<1>1. Blank \in Symbols /\ <<Blank>> \in Seq(Symbols) /\ Len(<<Blank>>) = 1
  BY DEF Symbols
<1>2. /\ longer \in Seq(Symbols) /\ Len(longer) = 1 + Len(text)
      /\ \A i \in 1..(1 + Len(text)) :
           longer[i] = IF i <= 1 THEN <<Blank>>[i] ELSE text[i - 1]
  BY <1>1, ConcatProperties DEF Text
<1>3. Len(text) \in Nat
  BY LenProperties DEF Text
<1>4. longer[1] = Blank /\ \A i \in 1..Len(text) : longer[i + 1] = text[i]
  <2>1. longer[1] = <<Blank>>[1]
    BY <1>2, <1>3
  <2>2. \A i \in 1..Len(text) : longer[i + 1] = text[i]
    <3>1. SUFFICES ASSUME NEW i \in 1..Len(text) PROVE longer[i + 1] = text[i]
      OBVIOUS
    <3>2. i + 1 \in 1..(1 + Len(text)) /\ ~ (i + 1 <= 1) /\ (i + 1) - 1 = i
      BY <1>3
    <3> QED
      BY <1>2, <3>2
  <2> QED
    BY <2>1, <2>2
<1>5. CASE Strip(text) = <<>> /\ \A i \in 1..Len(text) : text[i] = Blank
  <2>1. \A i \in 1..Len(longer) : longer[i] = Blank
    BY <1>2, <1>3, <1>4, <1>5
  <2>2. Strip(longer) = <<>>
    BY <1>2, <2>1, StripCases DEF Text
  <2> QED
    BY <1>2, <1>5, <2>2 DEF Text
<1>6. ASSUME NEW a \in 1..Len(text), NEW b \in a..Len(text),
             text[a] # Blank, text[b] # Blank,
             \A i \in 1..(a - 1) : text[i] = Blank,
             \A i \in (b + 1)..Len(text) : text[i] = Blank,
             Strip(text) = SubSeq(text, a, b)
      PROVE  Strip(longer) = Strip(text)
  <2>1. a + 1 \in 1..Len(longer) /\ b + 1 \in (a + 1)..Len(longer)
    BY <1>2, <1>3
  <2>2. longer[a + 1] # Blank /\ longer[b + 1] # Blank
    BY <1>3, <1>4, <1>6
  <2>3. \A i \in 1..((a + 1) - 1) : longer[i] = Blank
    <3>1. SUFFICES ASSUME NEW i \in 1..a PROVE longer[i] = Blank
      BY <1>3
    <3>2. i = 1 \/ i - 1 \in 1..(a - 1)
      BY <1>3
    <3> QED
      BY <1>2, <1>3, <1>4, <1>6, <3>2
  <2>4. \A i \in ((b + 1) + 1)..Len(longer) : longer[i] = Blank
    <3>1. SUFFICES ASSUME NEW i \in (b + 2)..Len(longer) PROVE longer[i] = Blank
      BY <1>3
    <3>2. i - 1 \in (b + 1)..Len(text) /\ i \in 1..(1 + Len(text)) /\ ~ (i <= 1)
      BY <1>2, <1>3
    <3> QED
      BY <1>2, <1>6, <3>2
  <2>5. Strip(longer) = SubSeq(longer, a + 1, b + 1)
    <3> HIDE DEF longer
    <3> QED
      BY <1>2, <2>1, <2>2, <2>3, <2>4, StripBetween DEF Text
  <2>6. SubSeq(longer, a + 1, b + 1) = SubSeq(text, a, b)
    <3>1. /\ a + 1 \in Len(<<Blank>>) + 1..Len(<<Blank>>) + Len(text)
          /\ b + 1 \in Len(<<Blank>>) + 1..Len(<<Blank>>) + Len(text)
          /\ (a + 1) - Len(<<Blank>>) = a /\ (b + 1) - Len(<<Blank>>) = b
      BY <1>1, <1>3
    <3> QED
      BY <1>1, <3>1, SubSeqOfConcat2 DEF Text
  <2> QED
    BY <1>6, <2>5, <2>6
<1> QED
  BY <1>2, <1>5, <1>6, StripCases DEF Text

(* Nor does one at the end of a text with solid ends. *)
LEMMA StripBlankLast ==
  ASSUME NEW text \in Text, text # <<>>, text[1] # Blank, text[Len(text)] # Blank
  PROVE  Strip(text \o <<Blank>>) = text
<1> DEFINE longer == text \o <<Blank>>
<1>1. Blank \in Symbols /\ <<Blank>> \in Seq(Symbols) /\ Len(<<Blank>>) = 1
  BY DEF Symbols
<1>2. /\ longer \in Seq(Symbols) /\ Len(longer) = Len(text) + 1
      /\ \A i \in 1..(Len(text) + 1) :
           longer[i] = IF i <= Len(text) THEN text[i] ELSE <<Blank>>[i - Len(text)]
  BY <1>1, ConcatProperties DEF Text
<1>3. Len(text) \in Nat \ {0}
  BY EmptySeq DEF Text
<1>4. longer[1] = text[1] /\ longer[Len(text)] = text[Len(text)]
  BY <1>2, <1>3
<1>5. longer[Len(text) + 1] = Blank
  <2>1. longer[Len(text) + 1] = <<Blank>>[(Len(text) + 1) - Len(text)]
    BY <1>2, <1>3
  <2>2. (Len(text) + 1) - Len(text) = 1
    BY <1>3
  <2> QED
    BY <2>1, <2>2
<1>6. SubSeq(longer, 1, Len(text)) = SubSeq(text, 1, Len(text))
  BY <1>1, <1>3, SubSeqOfConcat1 DEF Text
<1>7. SubSeq(text, 1, Len(text)) = text
  BY SubSeqFull DEF Text
<1> HIDE DEF longer
<1>8. Strip(longer) = SubSeq(longer, 1, Len(text))
  <2>1. 1 \in 1..Len(longer) /\ Len(text) \in 1..Len(longer)
    BY <1>2, <1>3
  <2>2. \A i \in (Len(text) + 1)..Len(longer) : longer[i] = Blank
    BY <1>2, <1>3, <1>5
  <2> QED
    BY <1>2, <1>3, <1>4, <2>1, <2>2, StripBetween DEF Text
<1> QED
  BY <1>6, <1>7, <1>8 DEF longer

(* Texts are joined in any order. *)
LEMMA JoinedInAnyOrder ==
  ASSUME NEW a \in Text, NEW b \in Text, NEW c \in Text
  PROVE  (a \o b) \o c = a \o (b \o c)
BY ConcatAssociative DEF Text

(* A text with a solid end is its leading blanks and what is left of it. *)
LEMMA LeadingBlanks ==
  ASSUME NEW text \in Text, text # <<>>, text[Len(text)] # Blank
  PROVE  \E n \in 0..Len(text) :
           /\ text = [i \in 1..n |-> Blank] \o Strip(text)
           /\ n = 0 => text[1] # Blank
<1>1. Len(text) \in Nat \ {0}
  BY EmptySeq DEF Text
<1>2. PICK a \in 1..Len(text), b \in 1..Len(text) :
        /\ b \in a..Len(text) /\ text[a] # Blank
        /\ \A i \in 1..(a - 1) : text[i] = Blank
        /\ \A i \in (b + 1)..Len(text) : text[i] = Blank
        /\ Strip(text) = SubSeq(text, a, b)
  <2>1. ~ \A i \in 1..Len(text) : text[i] = Blank
    <3>1. Len(text) \in 1..Len(text)
      BY <1>1
    <3> QED
      BY <3>1
  <2>2. \E a \in 1..Len(text) : \E b \in a..Len(text) :
          /\ text[a] # Blank /\ text[b] # Blank
          /\ \A i \in 1..(a - 1) : text[i] = Blank
          /\ \A i \in (b + 1)..Len(text) : text[i] = Blank
          /\ Strip(text) = SubSeq(text, a, b)
    BY <2>1, StripCases
  <2>3. \A a \in 1..Len(text) : \A b \in a..Len(text) : b \in 1..Len(text)
    BY <1>1
  <2> QED
    BY <2>2, <2>3
<1>3. b = Len(text)
  BY <1>1, <1>2
<1> DEFINE blanks == [i \in 1..(a - 1) |-> Blank]
<1>4. blanks = SubSeq(text, 1, a - 1)
  <2>1. /\ blanks \in Seq(Symbols) /\ Len(blanks) = a - 1
        /\ \A i \in 1..(a - 1) : blanks[i] = Blank
    <3>1. a - 1 \in Nat /\ Blank \in Symbols
      BY <1>1 DEF Symbols
    <3> QED
      BY <3>1
  <2>2. \A i \in 1..(a - 1) : text[i] \in Symbols
    BY <1>1, ElementOfSeq DEF Text
  <2>3. /\ SubSeq(text, 1, a - 1) \in Seq(Symbols)
        /\ Len(SubSeq(text, 1, a - 1)) = IF 1 <= a - 1 THEN (a - 1) - 1 + 1 ELSE 0
        /\ \A i \in 1..((a - 1) - 1 + 1) : SubSeq(text, 1, a - 1)[i] = text[1 + i - 1]
    BY <1>1, <2>2, SubSeqProperties
  <2>4. /\ Len(SubSeq(text, 1, a - 1)) = a - 1
        /\ \A i \in 1..(a - 1) : SubSeq(text, 1, a - 1)[i] = text[i]
    BY <1>1, <2>3
  <2> HIDE DEF blanks
  <2> QED
    BY <1>2, <2>1, <2>3, <2>4, SeqEqual
<1>5. SubSeq(text, 1, a - 1) \o SubSeq(text, a, Len(text)) = text
  <2>1. /\ 1 \in 1..Len(text) + 1 /\ a - 1 \in 1 - 1..Len(text)
        /\ Len(text) \in a - 1..Len(text) /\ (a - 1) + 1 = a
    BY <1>1
  <2>2. SubSeq(text, 1, a - 1) \o SubSeq(text, (a - 1) + 1, Len(text))
          = SubSeq(text, 1, Len(text))
    BY <2>1, ConcatAdjacentSubSeq DEF Text
  <2> QED
    BY <2>1, <2>2, SubSeqFull DEF Text
<1>6. a - 1 \in 0..Len(text) /\ (a - 1 = 0 => text[1] # Blank)
  BY <1>1, <1>2
<1> QED
  BY <1>2, <1>3, <1>4, <1>5, <1>6

-------------------------------------------------------------------------------
(* Splitting what has been edited. *)

(* The command ends at the quote that closes it, or before the first blank, *)
(* or nowhere.                                                              *)
SplitAs(answer, text) ==
  \/ /\ text = <<>>
     /\ Split(answer) = [command |-> <<>>, arguments |-> <<>>]
  \/ /\ text # <<>> /\ \A i \in 1..Len(text) : text[i] # Blank
     /\ Split(answer) = [command |-> text, arguments |-> <<>>]
  \/ \E m \in 2..Len(text) :
       /\ text[m] = Blank /\ \A i \in 1..(m - 1) : text[i] # Blank
       /\ ~ \E c \in 2..Len(text) : text[1] = Quote /\ text[c] = Quote
       /\ Split(answer) =
            [command |-> SubSeq(text, 1, m - 1),
             arguments |-> <<Blank>> \o Strip(SubSeq(text, m, Len(text)))]
  \/ \E c \in 2..Len(text) :
       /\ text[1] = Quote /\ text[c] = Quote
       /\ \A i \in 2..(c - 1) : text[i] # Quote
       /\ Split(answer) = [command |-> SubSeq(text, 1, c),
                          arguments |-> SubSeq(text, c + 1, Len(text))]

(* Every text is split in one of these ways. *)
LEMMA SplitCases ==
  ASSUME NEW answer \in Text, NEW text, text = Strip(answer)
  PROVE  SplitAs(answer, text)
<1> USE DEF SplitAs
<1> DEFINE closing == {i \in DOMAIN text \ {1} : text[i] = Quote}
           blanks == {i \in DOMAIN text : text[i] = Blank}
<1>1. /\ text \in Seq(Symbols)
      /\ text # <<>> => text[1] # Blank
  BY StripEnds DEF Text
<1>2. /\ Len(text) \in Nat /\ DOMAIN text = 1..Len(text)
      /\ text # <<>> => Len(text) \in Nat \ {0}
  BY <1>1, LenProperties, EmptySeq
<1>3. CASE text # <<>> /\ text[1] = Quote /\ closing # {}
  <2>1. closing \in SUBSET Nat /\ closing # {}
    BY <1>2, <1>3
  <2>2. Min(closing) \in closing /\ \A y \in closing : Min(closing) <= y
    <3> HIDE DEF closing
    <3> QED
      BY <2>1, LeastElement
  <2>3. Min(closing) \in 2..Len(text) /\ text[Min(closing)] = Quote
    BY <1>2, <2>2
  <2>4. \A i \in 2..(Min(closing) - 1) : text[i] # Quote
    <3>1. SUFFICES ASSUME NEW i \in 2..(Min(closing) - 1), text[i] = Quote PROVE FALSE
      OBVIOUS
    <3>2. i \in closing
      BY <1>2, <2>3, <3>1
    <3>3. Min(closing) <= i
      BY <2>2, <3>2
    <3> QED
      BY <2>3, <3>1, <3>3
  <2>5. Split(answer) = [command |-> SubSeq(text, 1, Min(closing)),
                           arguments |-> SubSeq(text, Min(closing) + 1, Len(text))]
    BY <1>3 DEF Split
  <2> QED
    BY <1>3, <2>3, <2>4, <2>5
<1>4. CASE ~ (text # <<>> /\ text[1] = Quote /\ closing # {})
  <2>1. Split(answer) = SplitAtBlank(text)
    BY <1>4 DEF Split
  <2>2. CASE text = <<>>
    <3>1. blanks = {}
      BY <2>2
    <3> QED
      BY <2>1, <2>2, <3>1 DEF SplitAtBlank
  <2>3. CASE text # <<>> /\ blanks = {}
    BY <1>2, <2>1, <2>3 DEF SplitAtBlank
  <2>4. CASE text # <<>> /\ blanks # {}
    <3>1. blanks \in SUBSET Nat
      BY <1>2
    <3>2. Min(blanks) \in blanks /\ \A y \in blanks : Min(blanks) <= y
      <4> HIDE DEF blanks
      <4> QED
        BY <2>4, <3>1, LeastElement
    <3>3. Min(blanks) \in 2..Len(text) /\ text[Min(blanks)] = Blank
      <4>1. Min(blanks) \in 1..Len(text) /\ text[Min(blanks)] = Blank
        BY <1>2, <3>2
      <4> QED
        BY <1>1, <1>2, <2>4, <4>1
    <3>4. \A i \in 1..(Min(blanks) - 1) : text[i] # Blank
      <4>1. SUFFICES ASSUME NEW i \in 1..(Min(blanks) - 1), text[i] = Blank PROVE FALSE
        OBVIOUS
      <4>2. i \in blanks
        BY <1>2, <3>3, <4>1
      <4>3. Min(blanks) <= i
        BY <3>2, <4>2
      <4> QED
        BY <3>3, <4>1, <4>3
    <3>5. Split(answer) =
            [command |-> SubSeq(text, 1, Min(blanks) - 1),
             arguments |-> <<Blank>> \o Strip(SubSeq(text, Min(blanks), Len(text)))]
      BY <2>1, <2>4 DEF SplitAtBlank
    <3>6. ~ \E c \in 2..Len(text) : text[1] = Quote /\ text[c] = Quote
      BY <1>2, <1>4, <2>4
    <3> QED
      BY <3>3, <3>4, <3>5, <3>6
  <2> QED
    BY <2>2, <2>3, <2>4
<1> QED
  BY <1>3, <1>4

(* A stretch of a text is a text, with its length and its symbols. *)
LEMMA Stretch ==
  ASSUME NEW text \in Text, NEW m \in 1..(Len(text) + 1), NEW n \in 0..Len(text)
  PROVE  /\ SubSeq(text, m, n) \in Text
         /\ Len(SubSeq(text, m, n)) = IF m <= n THEN n - m + 1 ELSE 0
         /\ \A i \in 1..(n - m + 1) : SubSeq(text, m, n)[i] = text[m + i - 1]
<1>1. Len(text) \in Nat
  BY LenProperties DEF Text
<1>2. m \in Int /\ n \in Int /\ \A i \in m..n : text[i] \in Symbols
  BY <1>1, ElementOfSeq DEF Text
<1> QED
  BY <1>2, SubSeqProperties DEF Text

(* What is split off is two texts, the command not empty unless all is. *)
LEMMA SplitType ==
  ASSUME NEW answer \in Text
  PROVE  /\ Split(answer) \in [command : Text, arguments : Text]
         /\ Split(answer).command = <<>> <=> Strip(answer) = <<>>
<1> DEFINE text == Strip(answer)
<1>1. text \in Text /\ Len(text) \in Nat
  BY StripEnds, LenProperties DEF Text
<1>2. <<>> \in Text /\ Len(<<>>) = 0
  BY EmptySeq DEF Text
<1> DEFINE typed == /\ Split(answer) \in [command : Text, arguments : Text]
                    /\ Split(answer).command = <<>> <=> text = <<>>
<1> SUFFICES typed
  OBVIOUS
<1> HIDE DEF text
<1>3. CASE text = <<>> /\ Split(answer) = [command |-> <<>>, arguments |-> <<>>]
  BY <1>2, <1>3
<1>4. CASE text # <<>> /\ Split(answer) = [command |-> text, arguments |-> <<>>]
  BY <1>1, <1>2, <1>4
<1>5. ASSUME NEW m \in 2..Len(text),
             Split(answer) =
               [command |-> SubSeq(text, 1, m - 1),
                arguments |-> <<Blank>> \o Strip(SubSeq(text, m, Len(text)))]
      PROVE  typed
  <2>1. /\ m - 1 \in 0..Len(text) /\ m \in 1..(Len(text) + 1)
        /\ 1 \in 1..(Len(text) + 1) /\ Len(text) \in 0..Len(text) /\ 1 <= m - 1
    BY <1>1
  <2>2. SubSeq(text, 1, m - 1) \in Text /\ Len(SubSeq(text, 1, m - 1)) = (m - 1) - 1 + 1
    BY <1>1, <2>1, Stretch
  <2>3. SubSeq(text, m, Len(text)) \in Text
    BY <1>1, <2>1, Stretch
  <2>4. <<Blank>> \o Strip(SubSeq(text, m, Len(text))) \in Text
    BY <2>3, StripEnds, StripBlankFirst
  <2>5. SubSeq(text, 1, m - 1) # <<>> /\ text # <<>>
    BY <1>1, <1>2, <2>1, <2>2
  <2> DEFINE head == SubSeq(text, 1, m - 1)
             rest == <<Blank>> \o Strip(SubSeq(text, m, Len(text)))
  <2>6. Split(answer) = [command |-> head, arguments |-> rest]
    BY <1>5
  <2>7. head \in Text /\ rest \in Text /\ head # <<>> /\ text # <<>>
    BY <2>2, <2>4, <2>5
  <2> HIDE DEF head, rest
  <2> QED
    BY <2>6, <2>7
<1>6. ASSUME NEW c \in 2..Len(text),
             Split(answer) = [command |-> SubSeq(text, 1, c),
                                arguments |-> SubSeq(text, c + 1, Len(text))]
      PROVE  typed
  <2>1. /\ c \in 0..Len(text) /\ c + 1 \in 1..(Len(text) + 1)
        /\ 1 \in 1..(Len(text) + 1) /\ Len(text) \in 0..Len(text) /\ 1 <= c
    BY <1>1
  <2>2. SubSeq(text, 1, c) \in Text /\ Len(SubSeq(text, 1, c)) = c - 1 + 1
    BY <1>1, <2>1, Stretch
  <2>3. SubSeq(text, c + 1, Len(text)) \in Text
    BY <1>1, <2>1, Stretch
  <2>4. SubSeq(text, 1, c) # <<>> /\ text # <<>>
    BY <1>1, <1>2, <2>1, <2>2
  <2> DEFINE head == SubSeq(text, 1, c)
             rest == SubSeq(text, c + 1, Len(text))
  <2>5. Split(answer) = [command |-> head, arguments |-> rest]
    BY <1>6
  <2>6. head \in Text /\ rest \in Text /\ head # <<>> /\ text # <<>>
    BY <2>2, <2>3, <2>4
  <2> HIDE DEF head, rest
  <2> QED
    BY <2>5, <2>6
<1>7. SplitAs(answer, text)
  BY SplitCases DEF text
<1> HIDE DEF typed
<1> QED
  BY <1>3, <1>4, <1>5, <1>6, <1>7 DEF SplitAs

(* Arguments get a blank in front, and nothing else changes. *)
LEMMA NormalizedArguments ==
  ASSUME NEW arguments \in Text
  PROVE  /\ normalize_arguments(arguments) \in Text
         /\ normalize_arguments(arguments) = <<>> <=> arguments = <<>>
         /\ normalize_arguments(arguments) = <<>> \/ normalize_arguments(arguments)[1] = Blank
         /\ Strip(normalize_arguments(arguments)) = Strip(arguments)
<1>1. CASE arguments = <<>> \/ arguments[1] = Blank
  BY <1>1 DEF normalize_arguments
<1>2. CASE ~ (arguments = <<>> \/ arguments[1] = Blank)
  <2>1. normalize_arguments(arguments) = <<Blank>> \o arguments
    BY <1>2 DEF normalize_arguments
  <2>2. Blank \in Symbols /\ <<Blank>> \in Seq(Symbols) /\ Len(<<Blank>>) = 1
    BY DEF Symbols
  <2>3. Len(arguments) \in Nat \ {0}
    BY <1>2, EmptySeq DEF Text
  <2>4. /\ (<<Blank>> \o arguments)[1] = <<Blank>>[1]
        /\ <<Blank>> \o arguments # <<>>
    <3>1. 1 \in 1..(Len(<<Blank>>) + Len(arguments)) /\ 1 <= Len(<<Blank>>)
      BY <2>2, <2>3
    <3>2. (<<Blank>> \o arguments)[1] = <<Blank>>[1]
      BY <2>2, <3>1, ConcatProperties DEF Text
    <3>3. <<Blank>> \o arguments # <<>>
      BY <1>2, <2>2, ConcatEqualIffEmpty DEF Text
    <3> QED
      BY <3>2, <3>3
  <2> QED
    BY <1>2, <2>1, <2>4, StripBlankFirst
<1> QED
  BY <1>1, <1>2

(* An edit that leaves something is the split text with its arguments      *)
(* normalized; an edit that leaves nothing is a continue.                  *)
LEMMA EditedCases ==
  ASSUME NEW l, NEW answer \in Text
  PROVE  /\ Strip(answer) = <<>> => Edited(l, answer) = l
         /\ Strip(answer) # <<>> =>
              Edited(l, answer) =
                [command |-> Split(answer).command,
                 arguments |-> normalize_arguments(Split(answer).arguments)]
BY SplitType DEF Edited

(* So what is run has a command, whatever the user enters. *)
LEMMA EditedType ==
  ASSUME NEW l \in [command : Text \ {<<>>}, arguments : Text], NEW answer \in Text
  PROVE  Edited(l, answer) \in [command : Text \ {<<>>}, arguments : Text]
<1>1. CASE Strip(answer) = <<>>
  BY <1>1, EditedCases
<1>2. CASE Strip(answer) # <<>>
  <2>1. Split(answer).command \in Text \ {<<>>} /\ Split(answer).arguments \in Text
    BY <1>2, SplitType
  <2>2. normalize_arguments(Split(answer).arguments) \in Text
    BY <2>1, NormalizedArguments
  <2> QED
    BY <1>2, <2>1, <2>2, EditedCases
<1> QED
  BY <1>1, <1>2


(* Blanks in a row are a text. *)
LEMMA Padding ==
  ASSUME NEW n \in Nat
  PROVE  /\ [i \in 1..n |-> Blank] \in Text /\ Len([i \in 1..n |-> Blank]) = n
         /\ n = 0 => [i \in 1..n |-> Blank] = <<>>
<1>1. Blank \in Symbols
  BY DEF Symbols
<1>2. [i \in 1..n |-> Blank] \in Seq(Symbols) /\ Len([i \in 1..n |-> Blank]) = n
  BY <1>1
<1>3. n = 0 => [i \in 1..n |-> Blank] = <<>>
  BY <1>2, EmptySeq
<1> QED
  BY <1>2, <1>3 DEF Text

(* A text is its first symbols and the rest of it, both with their ends. *)
LEMMA CutInTwo ==
  ASSUME NEW text \in Text, NEW k \in 1..Len(text)
  PROVE  LET head == SubSeq(text, 1, k)
             rest == SubSeq(text, k + 1, Len(text))
         IN  /\ head \in Text /\ Len(head) = k
             /\ \A i \in 1..k : head[i] = text[i]
             /\ rest \in Text /\ Len(rest) = Len(text) - k
             /\ k < Len(text) =>
                  rest # <<>> /\ rest[1] = text[k + 1] /\ rest[Len(rest)] = text[Len(text)]
             /\ k = Len(text) => head = text /\ rest = <<>>
             /\ head \o rest = text
<1> DEFINE head == SubSeq(text, 1, k)
           rest == SubSeq(text, k + 1, Len(text))
<1>1. Len(text) \in Nat
  BY LenProperties DEF Text
<1>2. head \in Text /\ Len(head) = k /\ \A i \in 1..k : head[i] = text[i]
  <2>1. /\ 1 \in 1..(Len(text) + 1) /\ k \in 0..Len(text) /\ 1 <= k
        /\ k - 1 + 1 = k /\ \A i \in 1..k : 1 + i - 1 = i
    BY <1>1
  <2>2. /\ head \in Text /\ Len(head) = IF 1 <= k THEN k - 1 + 1 ELSE 0
        /\ \A i \in 1..(k - 1 + 1) : head[i] = text[1 + i - 1]
    BY <2>1, Stretch
  <2> HIDE DEF head
  <2> QED
    BY <2>1, <2>2
<1>3. /\ rest \in Text
      /\ Len(rest) = IF k + 1 <= Len(text) THEN Len(text) - (k + 1) + 1 ELSE 0
      /\ \A i \in 1..(Len(text) - (k + 1) + 1) : rest[i] = text[(k + 1) + i - 1]
  <2>1. k + 1 \in 1..(Len(text) + 1) /\ Len(text) \in 0..Len(text)
    BY <1>1
  <2> QED
    BY <2>1, Stretch
<1>4. head \o rest = text
  <2>1. /\ 1 \in 1..Len(text) + 1 /\ k \in 1 - 1..Len(text) /\ Len(text) \in k..Len(text)
    BY <1>1
  <2> QED
    BY <2>1, ConcatAdjacentSubSeq, SubSeqFull DEF Text
<1>5. k = Len(text) => head = text
  BY SubSeqFull DEF Text
<1> HIDE DEF head, rest
<1>6. Len(rest) = Len(text) - k
  BY <1>1, <1>3
<1>7. k = Len(text) => rest = <<>>
  <2>1. ASSUME k = Len(text) PROVE rest = <<>>
    <3>1. Len(rest) = 0
      BY <1>1, <1>6, <2>1
    <3> QED
      BY <1>3, <3>1, EmptySeq DEF Text
  <2> QED
    BY <2>1
<1>8. ASSUME k < Len(text)
      PROVE  rest # <<>> /\ rest[1] = text[k + 1] /\ rest[Len(rest)] = text[Len(text)]
  <2>1. /\ 1 \in 1..(Len(text) - (k + 1) + 1)
        /\ Len(rest) \in 1..(Len(text) - (k + 1) + 1)
        /\ (k + 1) + 1 - 1 = k + 1 /\ (k + 1) + Len(rest) - 1 = Len(text)
    BY <1>1, <1>6, <1>8
  <2>2. rest # <<>>
    BY <1>1, <1>6, <1>8, EmptySeq
  <2> QED
    BY <1>3, <2>1, <2>2
<1> QED
  BY <1>2, <1>3, <1>4, <1>5, <1>6, <1>7, <1>8 DEF head, rest

(* What it is to be run word for word. *)
WordForWord(text, r) ==
  /\ Quoted(r.command) \/ \A i \in DOMAIN r.command : r.command[i] # Blank
  /\ r.arguments = <<>> \/ r.arguments[1] = Blank
  /\ \E n \in 0..Len(text) :
       /\ text = r.command \o [i \in 1..n |-> Blank] \o Strip(r.arguments)
       /\ n = 0 => r.arguments = <<>> \/ Glued(text)

(* An edit is run word for word, but for blanks around it. *)
LEMMA EditedWordForWord ==
  ASSUME NEW l, NEW answer \in Text, NEW text, text = Strip(answer), text # <<>>,
         NEW r, r = Edited(l, answer)
  PROVE  WordForWord(text, r)
<1> DEFINE spelt(n) == text = r.command \o [i \in 1..n |-> Blank] \o Strip(r.arguments)
<1> SUFFICES /\ Quoted(r.command) \/ \A i \in DOMAIN r.command : r.command[i] # Blank
             /\ r.arguments = <<>> \/ r.arguments[1] = Blank
             /\ \E n \in 0..Len(text) :
                  spelt(n) /\ (n = 0 => r.arguments = <<>> \/ Glued(text))
  BY DEF WordForWord
<1> HIDE DEF spelt
<1>1. /\ text \in Text /\ Len(text) \in Nat \ {0} /\ DOMAIN text = 1..Len(text)
      /\ text[1] # Blank /\ text[Len(text)] # Blank
  BY StripEnds, EmptySeq, LenProperties DEF Text
<1>2. /\ r.command = Split(answer).command
      /\ r.arguments = normalize_arguments(Split(answer).arguments)
  BY EditedCases
<1>3. <<>> \in Text
  BY EmptySeq DEF Text
<1>4. /\ r.command \in Text /\ r.arguments \in Text
      /\ r.arguments = <<>> \/ r.arguments[1] = Blank
      /\ r.arguments = <<>> <=> Split(answer).arguments = <<>>
      /\ Strip(r.arguments) = Strip(Split(answer).arguments)
  BY <1>2, SplitType, NormalizedArguments
(* Without arguments the command is all of the text. *)
<1>5. ASSUME r.command = text, r.arguments = <<>>
      PROVE  \E n \in 0..Len(text) :
               spelt(n) /\ (n = 0 => r.arguments = <<>> \/ Glued(text))
  <2>1. Strip(r.arguments) = <<>> /\ [i \in 1..0 |-> Blank] = <<>>
    BY <1>3, <1>5, StripEnds, Padding
  <2>2. text \o <<>> \o <<>> = text
    BY <1>1, ConcatEmptySeq DEF Text
  <2>3. spelt(0)
    BY <1>5, <2>1, <2>2 DEF spelt
  <2>4. 0 \in 0..Len(text)
    BY <1>1
  <2> QED
    BY <1>5, <2>3, <2>4
(* With arguments the rest is blanks and what is stripped of it. *)
<1>6. ASSUME NEW k \in 1..Len(text), k < Len(text),
             NEW rest, rest = SubSeq(text, k + 1, Len(text)),
             r.command = SubSeq(text, 1, k), Strip(r.arguments) = Strip(rest)
      PROVE  \E n \in 0..Len(text) :
               spelt(n) /\ (n = 0 => text[k + 1] # Blank)
  <2>1. /\ rest \in Text /\ Len(rest) = Len(text) - k
        /\ rest # <<>> /\ rest[1] = text[k + 1] /\ rest[Len(rest)] = text[Len(text)]
        /\ r.command \o rest = text
    <3>1. /\ SubSeq(text, k + 1, Len(text)) \in Text
          /\ Len(SubSeq(text, k + 1, Len(text))) = Len(text) - k
          /\ SubSeq(text, 1, k) \o SubSeq(text, k + 1, Len(text)) = text
          /\ SubSeq(text, k + 1, Len(text)) # <<>>
          /\ SubSeq(text, k + 1, Len(text))[1] = text[k + 1]
          /\ SubSeq(text, k + 1, Len(text))[Len(SubSeq(text, k + 1, Len(text)))]
               = text[Len(text)]
      BY <1>1, <1>6, CutInTwo
    <3> QED
      BY <1>6, <3>1
  <2>2. PICK n \in 0..Len(rest) :
          rest = [i \in 1..n |-> Blank] \o Strip(rest) /\ (n = 0 => rest[1] # Blank)
    BY <1>1, <2>1, LeadingBlanks
  <2>3. n \in Nat /\ n \in 0..Len(text)
    BY <1>1, <2>1, <2>2
  <2>4. [i \in 1..n |-> Blank] \in Text /\ Strip(rest) \in Text
    BY <2>1, <2>3, Padding, StripEnds
  <2>5. r.command \o ([i \in 1..n |-> Blank] \o Strip(rest))
          = (r.command \o [i \in 1..n |-> Blank]) \o Strip(rest)
    <3> DEFINE padding == [i \in 1..n |-> Blank]
               command == r.command
               stripped == Strip(rest)
    <3>1. command \in Text /\ padding \in Text /\ stripped \in Text
      BY <1>4, <2>4
    <3> HIDE DEF command, padding, stripped
    <3>2. (command \o padding) \o stripped = command \o (padding \o stripped)
      BY <3>1, JoinedInAnyOrder
    <3> QED
      BY <3>2 DEF command, padding, stripped
  <2>6. spelt(n)
    BY <1>6, <2>1, <2>2, <2>5 DEF spelt
  <2> QED
    BY <2>1, <2>2, <2>3, <2>6
<1>7. CASE /\ \A i \in 1..Len(text) : text[i] # Blank
           /\ Split(answer) = [command |-> text, arguments |-> <<>>]
  <2>1. r.command = text /\ r.arguments = <<>>
    BY <1>2, <1>4, <1>7
  <2> QED
    BY <1>1, <1>5, <1>7, <2>1
<1>8. ASSUME NEW m \in 2..Len(text),
             text[m] = Blank, \A i \in 1..(m - 1) : text[i] # Blank,
             Split(answer) =
               [command |-> SubSeq(text, 1, m - 1),
                arguments |-> <<Blank>> \o Strip(SubSeq(text, m, Len(text)))]
      PROVE  /\ Quoted(r.command) \/ \A i \in DOMAIN r.command : r.command[i] # Blank
             /\ \E n \in 0..Len(text) :
                  spelt(n) /\ (n = 0 => r.arguments = <<>> \/ Glued(text))
  <2>1. m - 1 \in 1..Len(text) /\ m - 1 < Len(text) /\ (m - 1) + 1 = m
    BY <1>1
  <2>2. /\ r.command = SubSeq(text, 1, m - 1)
        /\ r.command \in Text /\ Len(r.command) = m - 1
        /\ \A i \in 1..(m - 1) : r.command[i] = text[i]
        /\ SubSeq(text, m, Len(text)) \in Text
    <3>1. r.command = SubSeq(text, 1, m - 1)
      BY <1>2, <1>8
    <3>2. /\ SubSeq(text, 1, m - 1) \in Text /\ Len(SubSeq(text, 1, m - 1)) = m - 1
          /\ \A i \in 1..(m - 1) : SubSeq(text, 1, m - 1)[i] = text[i]
          /\ SubSeq(text, (m - 1) + 1, Len(text)) \in Text
      BY <1>1, <2>1, CutInTwo
    <3> QED
      BY <2>1, <3>1, <3>2
  <2>3. \A i \in DOMAIN r.command : r.command[i] # Blank
    BY <1>8, <2>2, LenProperties DEF Text
  <2>4. Strip(r.arguments) = Strip(SubSeq(text, (m - 1) + 1, Len(text)))
    BY <1>4, <1>8, <2>1, <2>2, StripEnds, StripBlankFirst, StripTwice
  <2>5. \E n \in 0..Len(text) :
          spelt(n) /\ (n = 0 => text[(m - 1) + 1] # Blank)
    BY <1>6, <2>1, <2>2, <2>4
  <2> QED
    BY <1>8, <2>1, <2>3, <2>5
<1>9. ASSUME NEW c \in 2..Len(text),
             text[1] = Quote, text[c] = Quote, \A i \in 2..(c - 1) : text[i] # Quote,
             Split(answer) = [command |-> SubSeq(text, 1, c),
                              arguments |-> SubSeq(text, c + 1, Len(text))]
      PROVE  /\ Quoted(r.command) \/ \A i \in DOMAIN r.command : r.command[i] # Blank
             /\ \E n \in 0..Len(text) :
                  spelt(n) /\ (n = 0 => r.arguments = <<>> \/ Glued(text))
  <2>1. c \in 1..Len(text) /\ c > 1
    BY <1>1
  <2>2. /\ r.command = SubSeq(text, 1, c)
        /\ r.command \in Text /\ Len(r.command) = c
        /\ \A i \in 1..c : r.command[i] = text[i]
        /\ c = Len(text) => r.command = text /\ SubSeq(text, c + 1, Len(text)) = <<>>
    <3>1. r.command = SubSeq(text, 1, c)
      BY <1>2, <1>9
    <3>2. /\ SubSeq(text, 1, c) \in Text /\ Len(SubSeq(text, 1, c)) = c
          /\ \A i \in 1..c : SubSeq(text, 1, c)[i] = text[i]
          /\ c = Len(text) =>
               SubSeq(text, 1, c) = text /\ SubSeq(text, c + 1, Len(text)) = <<>>
      BY <1>1, <2>1, CutInTwo
    <3> QED
      BY <3>1, <3>2
  <2>3. Quoted(r.command)
    <3>1. DOMAIN r.command = 1..c
      BY <2>2, LenProperties DEF Text
    <3>2. ASSUME NEW i \in 1..c
          PROVE  r.command[i] = Quote <=> i = 1 \/ i = c
      <4>1. i = 1 \/ i = c \/ i \in 2..(c - 1)
        BY <1>1, <2>1
      <4>2. i \in 2..(c - 1) => i # 1 /\ i # c
        BY <1>1, <2>1
      <4> QED
        BY <1>9, <2>2, <4>1, <4>2
    <3> QED
      BY <2>1, <2>2, <3>1, <3>2 DEF Quoted
  <2>4. CASE c = Len(text)
    <3>1. r.arguments = <<>>
      BY <1>4, <1>9, <2>2, <2>4
    <3> QED
      BY <1>5, <2>2, <2>3, <2>4, <3>1
  <2>5. CASE c < Len(text)
    <3>1. PICK n \in 0..Len(text) :
            spelt(n) /\ (n = 0 => text[c + 1] # Blank)
      <4>1. Strip(r.arguments) = Strip(SubSeq(text, c + 1, Len(text)))
        BY <1>4, <1>9
      <4> QED
        BY <1>6, <2>1, <2>2, <2>5, <4>1
    <3>2. text[c + 1] # Blank => Glued(text)
      <4>1. c \in 2..Len(text) - 1
        BY <1>1, <2>5
      <4> QED
        BY <2>2, <2>3, <4>1 DEF Glued
    <3> QED
      BY <2>3, <3>1, <3>2
  <2>6. c = Len(text) \/ c < Len(text)
    <3>1. c \in Int /\ Len(text) \in Int /\ c <= Len(text)
      BY <1>1, <2>1
    <3> QED
      BY <3>1
  <2> QED
    BY <2>4, <2>5, <2>6
<1>10. CASE \E m \in 2..Len(text) :
              /\ text[m] = Blank /\ \A i \in 1..(m - 1) : text[i] # Blank
              /\ ~ \E c \in 2..Len(text) : text[1] = Quote /\ text[c] = Quote
              /\ Split(answer) =
                   [command |-> SubSeq(text, 1, m - 1),
                    arguments |-> <<Blank>> \o Strip(SubSeq(text, m, Len(text)))]
  BY <1>4, <1>8, <1>10
<1>11. CASE \E c \in 2..Len(text) :
              /\ text[1] = Quote /\ text[c] = Quote
              /\ \A i \in 2..(c - 1) : text[i] # Quote
              /\ Split(answer) = [command |-> SubSeq(text, 1, c),
                                  arguments |-> SubSeq(text, c + 1, Len(text))]
  BY <1>4, <1>9, <1>11
<1> QED
  <2>1. SplitAs(answer, text)
    BY SplitCases
  <2> QED
    BY <1>7, <1>10, <1>11, <2>1 DEF SplitAs


-------------------------------------------------------------------------------
(* Cutting and joining. *)

Line == [command : Text \ {<<>>}, arguments : Text]

(* A text that is read up to a maximal length is a text, and not empty     *)
(* unless it was.                                                          *)
LEMMA ExtractType ==
  ASSUME NEW text \in Text
  PROVE  Extract(text) \in Text /\ (text # <<>> => Extract(text) # <<>>)
<1>1. Len(text) \in Nat /\ MaxLength \in Nat \ {0}
  BY LenProperties, EditLineAssumption DEF Text
<1> DEFINE least == Min({Len(text), MaxLength})
<1>2. least \in {Len(text), MaxLength} /\ least <= Len(text)
  BY <1>1, LeastElement
<1>3. least \in 0..Len(text) /\ 1 \in 1..(Len(text) + 1)
  BY <1>1, <1>2
<1>4. Extract(text) = SubSeq(text, 1, least)
  BY DEF Extract
<1> HIDE DEF least
<1>5. Extract(text) \in Text /\ Len(Extract(text)) = IF 1 <= least THEN least - 1 + 1 ELSE 0
  BY <1>3, <1>4, Stretch
<1>6. text # <<>> => 1 <= least
  BY <1>1, <1>2, EmptySeq DEF Text
<1>7. text # <<>> => Len(Extract(text)) # 0
  BY <1>3, <1>5, <1>6
<1> QED
  BY <1>5, <1>7, EmptySeq

(* What the monitor reads of a line is a line. *)
LEMMA PartsType ==
  ASSUME NEW l \in Line
  PROVE  command_parts(l) \in Line
BY ExtractType DEF command_parts, Line

(* The key of a line is a text. *)
LEMMA KeyType ==
  ASSUME NEW l \in Line
  PROVE  Key(l) \in Text
<1>1. l.command \in Text /\ Strip(l.command) \in Text /\ Strip(l.arguments) \in Text
  BY StripEnds DEF Line
<1>2. <<Blank>> \in Text
  BY DEF Text, Symbols
<1>3. l.command \o <<Blank>> \in Text
  BY <1>1, <1>2, ConcatProperties DEF Text
<1>4. l.command \o <<Blank>> \o Strip(l.arguments) \in Text
  BY <1>1, <1>3, ConcatProperties DEF Text
<1> QED
  BY <1>1, <1>4, StripEnds DEF Key

(* A plain or quoted command has solid ends. *)
LEMMA SolidCommand ==
  ASSUME NEW command \in Text \ {<<>>}, Plain(command) \/ Quoted(command)
  PROVE  command[1] # Blank /\ command[Len(command)] # Blank
<1>1. Len(command) \in Nat \ {0} /\ DOMAIN command = 1..Len(command)
  BY EmptySeq, LenProperties DEF Text
<1>2. CASE Plain(command)
  BY <1>1, <1>2 DEF Plain
<1>3. CASE Quoted(command)
  <2>1. command[1] = Quote /\ command[Len(command)] = Quote
    BY <1>3 DEF Quoted
  <2> QED
    BY <2>1, EditLineAssumption
<1> QED
  BY <1>2, <1>3

(* What was joined can be taken apart at the joint. *)
LEMMA ConcatParts ==
  ASSUME NEW s \in Text, s # <<>>, NEW t \in Text
  PROVE  /\ s \o t \in Text /\ Len(s \o t) = Len(s) + Len(t) /\ s \o t # <<>>
         /\ \A i \in 1..Len(s) : (s \o t)[i] = s[i]
         /\ t # <<>> => (s \o t)[Len(s) + 1] = t[1]
         /\ SubSeq(s \o t, 1, Len(s)) = s
         /\ SubSeq(s \o t, Len(s) + 1, Len(s) + Len(t)) = t
<1>1. Len(s) \in Nat \ {0} /\ Len(t) \in Nat /\ (t # <<>> => Len(t) \in Nat \ {0})
  BY EmptySeq, LenProperties DEF Text
<1>2. /\ s \o t \in Text /\ Len(s \o t) = Len(s) + Len(t) /\ s \o t # <<>>
      /\ \A i \in 1..Len(s) + Len(t) :
           (s \o t)[i] = IF i <= Len(s) THEN s[i] ELSE t[i - Len(s)]
  BY ConcatProperties, ConcatEqualIffEmpty DEF Text
<1>3. \A i \in 1..Len(s) : (s \o t)[i] = s[i]
  <2>1. \A i \in 1..Len(s) : i \in 1..Len(s) + Len(t) /\ i <= Len(s)
    BY <1>1
  <2> QED
    BY <1>2, <2>1
<1>4. t # <<>> => (s \o t)[Len(s) + 1] = t[1]
  <2>1. t # <<>> => Len(s) + 1 \in 1..Len(s) + Len(t)
    BY <1>1
  <2>2. ~ (Len(s) + 1 <= Len(s)) /\ (Len(s) + 1) - Len(s) = 1
    BY <1>1
  <2> QED
    BY <1>2, <2>1, <2>2
<1>5. SubSeq(s \o t, 1, Len(s)) = s
  <2>1. 1 \in 1..Len(s) /\ Len(s) \in 1..Len(s)
    BY <1>1
  <2>2. SubSeq(s \o t, 1, Len(s)) = SubSeq(s, 1, Len(s))
    BY <2>1, SubSeqOfConcat1 DEF Text
  <2> QED
    BY <2>2, SubSeqFull DEF Text
<1>6. SubSeq(s \o t, Len(s) + 1, Len(s) + Len(t)) = t
  <2>1. CASE t = <<>>
    <3>1. Len(s) + Len(t) < Len(s) + 1 /\ Len(s) + Len(t) \in Int /\ Len(s) + 1 \in Int
      BY <1>1, <2>1, EmptySeq
    <3>2. SubSeq(s \o t, Len(s) + 1, Len(s) + Len(t)) = <<>>
      BY <3>1, SubSeqEmpty
    <3> QED
      BY <2>1, <3>2
  <2>2. CASE t # <<>>
    <3>1. /\ Len(s) + 1 \in Len(s) + 1..Len(s) + Len(t)
          /\ Len(s) + Len(t) \in Len(s) + 1..Len(s) + Len(t)
          /\ (Len(s) + 1) - Len(s) = 1 /\ (Len(s) + Len(t)) - Len(s) = Len(t)
      BY <1>1, <2>2
    <3>2. SubSeq(s \o t, Len(s) + 1, Len(s) + Len(t)) = SubSeq(t, 1, Len(t))
      BY <3>1, SubSeqOfConcat2 DEF Text
    <3> QED
      BY <3>2, SubSeqFull DEF Text
  <2> QED
    BY <2>1, <2>2
<1> QED
  BY <1>2, <1>3, <1>4, <1>5, <1>6

(* Of a text that begins solid, blanks are left out at the end only. *)
LEMMA StripEnd ==
  ASSUME NEW text \in Text, text # <<>>, text[1] # Blank
  PROVE  /\ Strip(text) \in Text /\ Len(Strip(text)) \in 1..Len(text)
         /\ Strip(text)[Len(Strip(text))] # Blank
         /\ \A i \in 1..Len(Strip(text)) : Strip(text)[i] = text[i]
         /\ \A i \in (Len(Strip(text)) + 1)..Len(text) : text[i] = Blank
<1>1. Len(text) \in Nat \ {0} /\ \A i \in 1..Len(text) : text[i] \in Symbols
  BY EmptySeq, LenProperties, ElementOfSeq DEF Text
<1>2. PICK a \in 1..Len(text), b \in 1..Len(text) :
        /\ b \in a..Len(text) /\ text[b] # Blank
        /\ \A i \in 1..(a - 1) : text[i] = Blank
        /\ \A i \in (b + 1)..Len(text) : text[i] = Blank
        /\ Strip(text) = SubSeq(text, a, b)
  BY <1>1, StripCases
<1>3. a = 1
  <2>1. a # 1 => 1 \in 1..(a - 1)
    BY <1>1, <1>2
  <2> QED
    BY <1>2, <2>1
<1>4. /\ Len(SubSeq(text, 1, b)) = b - 1 + 1
      /\ \A i \in 1..(b - 1 + 1) : SubSeq(text, 1, b)[i] = text[1 + i - 1]
  <2>1. 1 \in Int /\ b \in Int /\ 1 <= b /\ \A i \in 1..b : text[i] \in Symbols
    BY <1>1, <1>2
  <2> QED
    BY <2>1, SubSeqProperties
<1>5. b \in 1..Len(text) /\ b - 1 + 1 = b /\ \A i \in 1..b : 1 + i - 1 = i
  BY <1>1
<1>6. Len(Strip(text)) = b /\ \A i \in 1..b : Strip(text)[i] = text[i]
  BY <1>2, <1>3, <1>4, <1>5
<1>7. Strip(text) \in Text
  BY StripEnds
<1>8. Strip(text)[b] # Blank
  BY <1>2, <1>5, <1>6
<1> QED
  BY <1>2, <1>5, <1>6, <1>7, <1>8

(* The key of a command that begins solid is the command and, after a      *)
(* blank, what the arguments are between their blanks; if that is nothing, *)
(* the command without blanks at its end.                                  *)
LEMMA KeyShape ==
  ASSUME NEW l \in Line, l.command[1] # Blank
  PROVE  \/ /\ Strip(l.arguments) = <<>>
            /\ Len(Key(l)) \in 1..Len(l.command)
            /\ \A i \in 1..Len(Key(l)) : Key(l)[i] = l.command[i]
            /\ \A i \in (Len(Key(l)) + 1)..Len(l.command) : l.command[i] = Blank
         \/ /\ Strip(l.arguments) # <<>>
            /\ Key(l) = l.command \o (<<Blank>> \o Strip(l.arguments))
            /\ Strip(Key(l)) = Key(l)
<1> DEFINE command == l.command
           stripped == Strip(l.arguments)
<1>1. /\ command \in Text /\ command # <<>> /\ stripped \in Text
      /\ <<Blank>> \in Text /\ Len(<<Blank>>) = 1
  BY StripEnds DEF Line, Text, Symbols
<1>2. command[1] # Blank
  OBVIOUS
<1>3. CASE l.arguments = <<>>
  <2>1. Key(l) = Strip(command)
    BY <1>3 DEF Key
  <2>2. Strip(l.arguments) = <<>>
    BY <1>3, StripEnds DEF Line
  <2> HIDE DEF command
  <2>3. /\ Len(Strip(command)) \in 1..Len(command)
        /\ \A i \in 1..Len(Strip(command)) : Strip(command)[i] = command[i]
        /\ \A i \in (Len(Strip(command)) + 1)..Len(command) : command[i] = Blank
    BY <1>1, <1>2, StripEnd
  <2> QED
    BY <2>1, <2>2, <2>3 DEF command
<1>4. CASE l.arguments # <<>> /\ stripped = <<>>
  <2> DEFINE longer == command \o <<Blank>>
             key == Strip(longer)
  <2>1. /\ longer \in Text /\ Len(longer) = Len(command) + 1 /\ longer # <<>>
        /\ \A i \in 1..Len(command) : longer[i] = command[i]
        /\ longer[Len(command) + 1] = Blank
    <3> HIDE DEF command
    <3>1. <<Blank>> # <<>> /\ <<Blank>>[1] = Blank
      OBVIOUS
    <3> QED
      BY <1>1, <3>1, ConcatParts
  <2>2. command \o <<Blank>> \o stripped = longer
    BY <1>4, <2>1, ConcatEmptySeq DEF Text
  <2>3. Key(l) = key
    BY <1>4, <2>2 DEF Key
  <2>4. Len(command) \in Nat \ {0}
    BY <1>1, EmptySeq DEF Text
  <2> HIDE DEF command, longer
  <2>5. longer[1] # Blank
    BY <1>2, <2>1, <2>4
  <2>6. /\ Len(key) \in 1..Len(longer) /\ key[Len(key)] # Blank
        /\ \A i \in 1..Len(key) : key[i] = longer[i]
        /\ \A i \in (Len(key) + 1)..Len(longer) : longer[i] = Blank
    BY <2>1, <2>5, StripEnd
  <2> HIDE DEF key
  <2>7. Len(key) # Len(command) + 1
    BY <2>1, <2>6
  <2>8. Len(key) \in 1..Len(command)
    BY <2>1, <2>4, <2>6, <2>7
  <2>9. \A i \in 1..Len(key) : key[i] = command[i]
    BY <2>1, <2>4, <2>6, <2>8
  <2>10. \A i \in (Len(key) + 1)..Len(command) : command[i] = Blank
    BY <2>1, <2>4, <2>6, <2>8
  <2> QED
    BY <1>4, <2>3, <2>8, <2>9, <2>10 DEF command
<1>5. CASE l.arguments # <<>> /\ stripped # <<>>
  <2> DEFINE tail == <<Blank>> \o stripped
             joined == command \o tail
  <2>1. command \o <<Blank>> \o stripped = joined
    <3> HIDE DEF command, stripped
    <3> QED
      BY <1>1, JoinedInAnyOrder
  <2>2. /\ Len(command) \in Nat \ {0} /\ Len(stripped) \in Nat \ {0}
        /\ stripped[Len(stripped)] # Blank
    BY <1>1, <1>5, EmptySeq, StripEnds DEF Text, Line
  <2>3. /\ tail \in Text /\ Len(tail) = 1 + Len(stripped)
        /\ tail[1 + Len(stripped)] = stripped[Len(stripped)]
    <3> HIDE DEF command, stripped
    <3>1. /\ tail \in Text /\ Len(tail) = 1 + Len(stripped)
          /\ \A i \in 1..1 + Len(stripped) :
               tail[i] = IF i <= 1 THEN <<Blank>>[i] ELSE stripped[i - 1]
      BY <1>1, ConcatProperties DEF Text
    <3>2. /\ 1 + Len(stripped) \in 1..1 + Len(stripped) /\ ~ (1 + Len(stripped) <= 1)
          /\ (1 + Len(stripped)) - 1 = Len(stripped)
      BY <2>2
    <3> HIDE DEF tail
    <3> QED
      BY <3>1, <3>2
  <2> HIDE DEF tail
  <2>4. /\ joined \in Text /\ Len(joined) = Len(command) + Len(tail)
        /\ \A i \in 1..Len(command) + Len(tail) :
             joined[i] = IF i <= Len(command) THEN command[i] ELSE tail[i - Len(command)]
    BY <1>1, <2>3, ConcatProperties DEF Text
  <2> HIDE DEF joined, command
  <2>5. joined # <<>> /\ joined[1] # Blank
    BY <1>2, <2>2, <2>3, <2>4, EmptySeq
  <2>6. joined[Len(joined)] # Blank
    <3>1. /\ Len(joined) \in 1..Len(command) + Len(tail) /\ ~ (Len(joined) <= Len(command))
          /\ Len(joined) - Len(command) = 1 + Len(stripped)
      BY <2>2, <2>3, <2>4
    <3> QED
      BY <2>2, <2>3, <2>4, <3>1
  <2>7. Strip(joined) = joined
    BY <2>4, <2>5, <2>6, StripOfSolid
  <2>8. Key(l) = joined
    BY <1>5, <2>1, <2>7 DEF Key, command
  <2> QED
    BY <1>5, <2>7, <2>8 DEF joined, command, tail
<1> QED
  BY <1>3, <1>4, <1>5


(* The key of such a command is the command and, after a blank, what the   *)
(* arguments are between their blanks.                                     *)
LEMMA KeyCases ==
  ASSUME NEW l \in Line, Plain(l.command) \/ Quoted(l.command)
  PROVE  \/ Strip(l.arguments) = <<>> /\ Key(l) = l.command
         \/ /\ Strip(l.arguments) # <<>>
            /\ Key(l) = l.command \o (<<Blank>> \o Strip(l.arguments))
            /\ Strip(Key(l)) = Key(l)
<1> DEFINE command == l.command
           stripped == Strip(l.arguments)
<1>1. /\ command \in Text /\ command # <<>> /\ stripped \in Text
      /\ <<Blank>> \in Text /\ Len(<<Blank>>) = 1
  BY StripEnds DEF Line, Text, Symbols
<1>2. command[1] # Blank /\ command[Len(command)] # Blank
  BY <1>1, SolidCommand
<1>3. CASE l.arguments = <<>>
  <2>1. Key(l) = command
    BY <1>1, <1>2, <1>3, StripOfSolid DEF Key
  <2>2. Strip(l.arguments) = <<>>
    BY <1>3, StripEnds DEF Line
  <2> QED
    BY <2>1, <2>2
<1>4. CASE l.arguments # <<>> /\ stripped = <<>>
  <2>1. command \o <<Blank>> \in Text
    BY <1>1, ConcatProperties DEF Text
  <2>2. command \o <<Blank>> \o stripped = command \o <<Blank>>
    BY <1>4, <2>1, ConcatEmptySeq DEF Text
  <2>3. Key(l) = Strip(command \o <<Blank>>)
    BY <1>4, <2>2 DEF Key
  <2> QED
    BY <1>1, <1>2, <1>4, <2>3, StripBlankLast
<1>5. CASE l.arguments # <<>> /\ stripped # <<>>
  BY <1>2, <1>5, KeyShape
<1> QED
  BY <1>3, <1>4, <1>5


(* A plain or quoted command followed by a blank, or by nothing, is found  *)
(* again when the text is split, and so is what follows, up to blanks.     *)
LEMMA SplitJoined ==
  ASSUME NEW command \in Text \ {<<>>}, Plain(command) \/ Quoted(command),
         NEW tail \in Text, Len(tail) = 0 \/ tail[1] = Blank,
         NEW answer \in Text, Strip(answer) = command \o tail
  PROVE  /\ Split(answer).command = command
         /\ Strip(Split(answer).arguments) = Strip(tail)
<1> DEFINE text == command \o tail
<1>1. /\ text \in Text /\ Len(text) = Len(command) + Len(tail) /\ text # <<>>
      /\ \A i \in 1..Len(command) : text[i] = command[i]
      /\ tail # <<>> => text[Len(command) + 1] = Blank
      /\ SubSeq(text, 1, Len(command)) = command
      /\ SubSeq(text, Len(command) + 1, Len(text)) = tail
  <2>1. tail # <<>> => tail[1] = Blank
    BY EmptySeq DEF Text
  <2> QED
    BY <2>1, ConcatParts
<1>2. /\ Len(command) \in Nat \ {0} /\ Len(tail) \in Nat /\ Len(text) \in Nat
      /\ tail # <<>> => Len(tail) \in Nat \ {0}
      /\ DOMAIN command = 1..Len(command)
  BY <1>1, EmptySeq, LenProperties DEF Text
<1> HIDE DEF text
<1>3. text = Strip(answer)
  BY DEF text
<1>4. Plain(command) => text[1] # Quote /\ \A i \in 1..Len(command) : text[i] # Blank
  BY <1>1, <1>2 DEF Plain
<1>5. Quoted(command) =>
        /\ Len(command) \in 2..Len(text)
        /\ \A i \in 1..Len(command) : text[i] = Quote <=> i = 1 \/ i = Len(command)
  <2>1. SUFFICES ASSUME Quoted(command)
                 PROVE  /\ Len(command) \in 2..Len(text)
                        /\ \A i \in 1..Len(command) :
                             text[i] = Quote <=> i = 1 \/ i = Len(command)
    OBVIOUS
  <2>2. Len(command) > 1 /\ Len(command) <= Len(text)
    BY <1>1, <1>2, <2>1 DEF Quoted
  <2>3. \A i \in 1..Len(command) : command[i] = Quote <=> i = 1 \/ i = Len(command)
    BY <1>2, <2>1 DEF Quoted
  <2>4. Len(command) \in 2..Len(text)
    <3>1. Len(text) \in Int
      BY <1>1, LenProperties DEF Text
    <3> QED
      BY <1>2, <2>2, <3>1
  <2> QED
    BY <1>1, <2>3, <2>4
(* No blank at all: then nothing follows the command. *)
<1>6. CASE /\ \A i \in 1..Len(text) : text[i] # Blank
           /\ Split(answer) = [command |-> text, arguments |-> <<>>]
  <2>1. tail = <<>>
    <3>1. tail # <<>> => Len(command) + 1 \in 1..Len(text)
      BY <1>1, <1>2
    <3> QED
      BY <1>1, <1>6, <3>1
  <2>2. text = command
    BY <2>1, ConcatEmptySeq DEF text, Text
  <2> QED
    BY <1>6, <2>1, <2>2
(* A blank that is split at: not in a quoted command, so right after a     *)
(* plain one.                                                              *)
<1>7. ASSUME NEW m \in 2..Len(text),
             text[m] = Blank, \A i \in 1..(m - 1) : text[i] # Blank,
             ~ (\E c \in 2..Len(text) : text[1] = Quote /\ text[c] = Quote),
             Split(answer) =
               [command |-> SubSeq(text, 1, m - 1),
                arguments |-> <<Blank>> \o Strip(SubSeq(text, m, Len(text)))]
      PROVE  /\ Split(answer).command = command
             /\ Strip(Split(answer).arguments) = Strip(tail)
  <2>1. ~ Quoted(command)
    <3>1. 1 \in 1..Len(command) /\ Len(command) \in 1..Len(command)
      BY <1>2
    <3> QED
      BY <1>5, <1>7, <3>1
  <2>2. m \notin 1..Len(command)
    BY <1>4, <1>7, <2>1
  <2>3. m > Len(command) /\ m <= Len(text)
    BY <1>1, <1>2, <2>2
  <2>4. tail # <<>>
    <3>1. ASSUME tail = <<>> PROVE FALSE
      <4>1. Len(tail) = 0
        BY <3>1, EmptySeq
      <4>2. Len(text) = Len(command)
        BY <1>1, <1>2, <4>1
      <4> QED
        BY <1>2, <2>3, <4>2
    <3> QED
      BY <3>1
  <2>5. ~ (Len(command) + 1 < m)
    <3>1. Len(command) + 1 < m => Len(command) + 1 \in 1..(m - 1)
      BY <1>1, <1>2
    <3> QED
      BY <1>1, <1>7, <2>4, <3>1
  <2>6. m = Len(command) + 1 /\ m - 1 = Len(command)
    BY <1>1, <1>2, <2>3, <2>5
  <2>7. Split(answer) = [command |-> command, arguments |-> <<Blank>> \o Strip(tail)]
    BY <1>1, <1>7, <2>6
  <2> QED
    BY <2>7, StripEnds, StripBlankFirst, StripTwice
(* A quote that closes: that of the quoted command. *)
<1>8. ASSUME NEW c \in 2..Len(text),
             text[1] = Quote, text[c] = Quote, \A i \in 2..(c - 1) : text[i] # Quote,
             Split(answer) = [command |-> SubSeq(text, 1, c),
                              arguments |-> SubSeq(text, c + 1, Len(text))]
      PROVE  /\ Split(answer).command = command
             /\ Strip(Split(answer).arguments) = Strip(tail)
  <2>1. Quoted(command)
    BY <1>4, <1>8
  <2>2. c <= Len(command)
    <3>1. SUFFICES ASSUME c > Len(command) PROVE FALSE
      BY <1>2
    <3>2. Len(command) \in 2..(c - 1)
      <4>1. Len(command) > 1
        BY <2>1 DEF Quoted
      <4> QED
        BY <1>2, <3>1, <4>1
    <3>3. Len(command) \in 1..Len(command)
      BY <1>2
    <3>4. text[Len(command)] = Quote
      BY <1>5, <2>1, <3>3
    <3> QED
      BY <1>8, <3>2, <3>4
  <2>3. c \in 1..Len(command) /\ c # 1
    BY <1>1, <1>2, <2>2
  <2>4. c = Len(command)
    BY <1>5, <1>8, <2>1, <2>3
  <2>5. Split(answer) = [command |-> command, arguments |-> tail]
    BY <1>1, <1>8, <2>4
  <2> QED
    BY <2>5
<1>9. CASE \E m \in 2..Len(text) :
             /\ text[m] = Blank /\ \A i \in 1..(m - 1) : text[i] # Blank
             /\ ~ \E c \in 2..Len(text) : text[1] = Quote /\ text[c] = Quote
             /\ Split(answer) =
                  [command |-> SubSeq(text, 1, m - 1),
                   arguments |-> <<Blank>> \o Strip(SubSeq(text, m, Len(text)))]
  BY <1>7, <1>9
<1>10. CASE \E c \in 2..Len(text) :
              /\ text[1] = Quote /\ text[c] = Quote
              /\ \A i \in 2..(c - 1) : text[i] # Quote
              /\ Split(answer) = [command |-> SubSeq(text, 1, c),
                                  arguments |-> SubSeq(text, c + 1, Len(text))]
  BY <1>8, <1>10
<1>11. SplitAs(answer, text)
  BY <1>3, SplitCases
<1>12. text # <<>>
  BY <1>1
<1> QED
  BY <1>6, <1>9, <1>10, <1>11, <1>12 DEF SplitAs

(* Joining and splitting undo each other, but for blanks around the        *)
(* arguments, where the command is plain or quoted.                        *)
LEMMA SplitOfKey ==
  ASSUME NEW l \in Line, Plain(l.command) \/ Quoted(l.command)
  PROVE  /\ Split(Key(l)).command = l.command
         /\ Strip(Split(Key(l)).arguments) = Strip(l.arguments)
<1> DEFINE program == l.command
           key == Key(l)
           stripped == Strip(l.arguments)
<1>1. /\ program \in Text \ {<<>>} /\ l.arguments \in Text
      /\ key \in Text /\ stripped \in Text
  BY KeyType, StripEnds DEF Line
<1>2. Plain(program) \/ Quoted(program)
  OBVIOUS
<1>3. \/ stripped = <<>> /\ key = program
      \/ key = program \o (<<Blank>> \o stripped) /\ Strip(key) = key
  BY KeyCases
<1>4. Strip(stripped) = stripped
  BY <1>1, StripTwice
<1> HIDE DEF program, key, stripped
<1>5. CASE stripped = <<>> /\ key = program
  <2>1. program \o stripped = program
    BY <1>1, <1>5, ConcatEmptySeq DEF Text
  <2>2. Strip(program) = program
    BY <1>1, <1>2, SolidCommand, StripOfSolid
  <2>3. Strip(key) = program \o stripped
    BY <1>5, <2>1, <2>2
  <2>4. Len(stripped) = 0
    BY <1>5, EmptySeq
  <2>5. Split(key).command = program /\ Strip(Split(key).arguments) = Strip(stripped)
    BY <1>1, <1>2, <2>3, <2>4, SplitJoined
  <2> QED
    BY <1>4, <2>5 DEF program, key, stripped
<1>6. CASE key = program \o (<<Blank>> \o stripped) /\ Strip(key) = key
  <2> DEFINE rest == <<Blank>> \o stripped
  <2>1. rest \in Text /\ Strip(rest) = stripped
    BY <1>1, <1>4, StripBlankFirst
  <2>2. rest[1] = Blank
    <3>1. <<Blank>> \in Text /\ <<Blank>> # <<>> /\ Len(<<Blank>>) = 1 /\ <<Blank>>[1] = Blank
      BY DEF Text, Symbols
    <3>2. (<<Blank>> \o stripped)[1] = <<Blank>>[1]
      BY <1>1, <3>1, ConcatParts
    <3> QED
      BY <3>1, <3>2
  <2>3. Strip(key) = program \o rest
    BY <1>6
  <2> HIDE DEF rest
  <2>4. rest \in Text /\ (Len(rest) = 0 \/ rest[1] = Blank)
    BY <2>1, <2>2
  <2>5. Split(key).command = program /\ Strip(Split(key).arguments) = Strip(rest)
    <3>1. program \in Text \ {<<>>} /\ key \in Text
      BY <1>1
    <3> QED
      BY <1>2, <2>3, <2>4, <3>1, SplitJoined
  <2>6. Split(key).command = program /\ Strip(Split(key).arguments) = stripped
    BY <2>1, <2>5
  <2> QED
    BY <1>4, <2>6 DEF program, key, stripped
<1> QED
  BY <1>3, <1>5, <1>6

-------------------------------------------------------------------------------
(* Lines with the same key. *)

(* What is read of a text is its beginning, up to MaxLength. *)
LEMMA ExtractParts ==
  ASSUME NEW text \in Text
  PROVE  /\ Len(Extract(text)) = IF Len(text) <= MaxLength THEN Len(text) ELSE MaxLength
         /\ \A i \in 1..Len(Extract(text)) : i \in 1..Len(text) /\ Extract(text)[i] = text[i]
<1>1. Len(text) \in Nat /\ MaxLength \in Nat \ {0}
  BY LenProperties, EditLineAssumption DEF Text
<1> DEFINE least == Min({Len(text), MaxLength})
<1>2. least \in {Len(text), MaxLength} /\ least <= Len(text) /\ least <= MaxLength
  BY <1>1, LeastElement
<1>3. Extract(text) = SubSeq(text, 1, least)
  BY DEF Extract
<1> HIDE DEF least
<1>4. least \in 0..Len(text) /\ 1 \in 1..(Len(text) + 1)
  BY <1>1, <1>2
<1>5. /\ Len(Extract(text)) = IF 1 <= least THEN least - 1 + 1 ELSE 0
      /\ \A i \in 1..(least - 1 + 1) : Extract(text)[i] = text[1 + i - 1]
  BY <1>3, <1>4, Stretch
<1>6. Len(Extract(text)) = least
  BY <1>4, <1>5
<1>7. \A i \in 1..least : i \in 1..(least - 1 + 1) /\ 1 + i - 1 = i /\ i \in 1..Len(text)
  BY <1>1, <1>4
<1> QED
  BY <1>1, <1>2, <1>5, <1>6, <1>7

(* A parsed command does not go on with a blank where another one ends     *)
(* before the limit: that blank would be outside quotes.                   *)
LEMMA NotContinued ==
  ASSUME NEW p \in Text, NEW q \in Text, Parsed(p), Parsed(q),
         Len(Extract(p)) < Len(Extract(q)),
         \A i \in 1..Len(Extract(p)) : Extract(q)[i] = Extract(p)[i]
  PROVE  Extract(q)[Len(Extract(p)) + 1] # Blank
<1>1. /\ Len(p) \in Nat /\ Len(q) \in Nat /\ MaxLength \in Nat
      /\ DOMAIN q = 1..Len(q)
  BY LenProperties, EditLineAssumption DEF Text
<1>2. Len(Extract(p)) = Len(p) /\ Len(Extract(p)) + 1 \in 1..Len(Extract(q))
  BY <1>1, ExtractParts
<1>3. /\ \A i \in 1..Len(p) : Extract(q)[i] = q[i] /\ Extract(p)[i] = p[i]
      /\ Extract(q)[Len(p) + 1] = q[Len(p) + 1] /\ Len(p) + 1 \in 1..Len(q)
  <2>1. \A i \in 1..Len(p) : i \in 1..Len(Extract(q)) /\ i \in 1..Len(Extract(p))
    BY <1>1, <1>2, ExtractParts
  <2> QED
    BY <1>2, <2>1, ExtractParts
<1>4. \A i \in 1..Len(p) : p[i] = q[i]
  BY <1>2, <1>3
<1>5. (Len(p) + 1) - 1 = Len(p)
  BY <1>1
<1>6. {j \in 1..((Len(p) + 1) - 1) : q[j] = Quote} = {j \in 1..((Len(p) + 1) - 1) : p[j] = Quote}
  BY <1>4, <1>5
<1>7. Open(q, Len(p) + 1) <=> Open(p, Len(p) + 1)
  BY <1>6 DEF Open
<1> QED
  BY <1>1, <1>2, <1>3, <1>7 DEF Parsed

(* Nor does it begin with one. *)
LEMMA ParsedBegins ==
  ASSUME NEW l \in Line, Parsed(l.command)
  PROVE  command_parts(l) \in Line /\ command_parts(l).command[1] # Blank
<1> DEFINE p == l.command
<1>1. p \in Text /\ p # <<>>
  BY DEF Line, Text
<1>2. Len(p) \in Nat \ {0} /\ MaxLength \in Nat \ {0} /\ DOMAIN p = 1..Len(p)
  BY <1>1, EmptySeq, LenProperties, EditLineAssumption DEF Text
<1>3. ~ Open(p, 1)
  <2>1. {j \in 1..(1 - 1) : p[j] = Quote} = {}
    OBVIOUS
  <2>2. Cardinality({j \in 1..(1 - 1) : p[j] = Quote}) = 0
    BY <2>1, FS_EmptySet
  <2> QED
    BY <2>2 DEF Open
<1>4. p[1] # Blank
  BY <1>2, <1>3 DEF Parsed
<1> HIDE DEF p
<1>5. Extract(p)[1] = p[1]
  BY <1>1, <1>2, ExtractParts
<1> QED
  BY <1>4, <1>5, PartsType DEF p, command_parts

(* A command, a blank and arguments, joined. *)
LEMMA JoinedAt ==
  ASSUME NEW c \in Text, c # <<>>, NEW a \in Text, a # <<>>
  PROVE  /\ Len(c \o (<<Blank>> \o a)) \in Nat /\ Len(c) \in Nat \ {0}
         /\ Len(c) + 1 < Len(c \o (<<Blank>> \o a))
         /\ \A i \in 1..Len(c) : (c \o (<<Blank>> \o a))[i] = c[i]
         /\ (c \o (<<Blank>> \o a))[Len(c) + 1] = Blank
<1> DEFINE tail == <<Blank>> \o a
<1>1. <<Blank>> \in Text /\ <<Blank>> # <<>> /\ Len(<<Blank>>) = 1 /\ <<Blank>>[1] = Blank
  BY DEF Text, Symbols
<1>2. Len(a) \in Nat \ {0} /\ Len(c) \in Nat \ {0}
  BY EmptySeq DEF Text
<1>3. tail \in Text /\ Len(tail) = 1 + Len(a) /\ tail # <<>> /\ tail[1] = Blank
  <2>1. /\ tail \in Text /\ Len(tail) = Len(<<Blank>>) + Len(a)
        /\ \A i \in 1..Len(<<Blank>>) : tail[i] = <<Blank>>[i]
    BY <1>1, ConcatParts
  <2> HIDE DEF tail
  <2>2. 1 \in 1..Len(<<Blank>>)
    BY <1>1
  <2>3. tail[1] = <<Blank>>[1]
    BY <2>1, <2>2
  <2>4. Len(tail) = 1 + Len(a) /\ Len(tail) # 0
    BY <1>1, <1>2, <2>1
  <2>5. tail # <<>>
    BY <2>4, EmptySeq DEF Text
  <2> QED
    BY <1>1, <2>1, <2>3, <2>4, <2>5
<1> HIDE DEF tail
<1>4. /\ Len(c \o tail) = Len(c) + Len(tail)
      /\ \A i \in 1..Len(c) : (c \o tail)[i] = c[i]
      /\ (c \o tail)[Len(c) + 1] = tail[1]
  BY <1>3, ConcatParts
<1>5. Len(c) + Len(tail) \in Nat /\ Len(c) + 1 < Len(c) + Len(tail)
  BY <1>2, <1>3
<1> QED
  BY <1>2, <1>3, <1>4, <1>5 DEF tail

(* What is joined to one text can be told from the outcome. *)
LEMMA SameRest ==
  ASSUME NEW s \in Text, s # <<>>, NEW t \in Text, NEW u \in Text, s \o t = s \o u
  PROVE  t = u
<1>1. Len(s) + Len(t) = Len(s) + Len(u) /\ Len(t) \in Nat /\ Len(u) \in Nat /\ Len(s) \in Nat
  BY ConcatParts, LenProperties DEF Text
<1>2. Len(t) = Len(u)
  BY <1>1
<1> QED
  BY <1>2, ConcatParts

(* Of two lines with one key the second's command is not shown longer.     *)
LEMMA NotLonger ==
  ASSUME NEW l \in Line, NEW m \in Line, Parsed(l.command), Parsed(m.command),
         Key(command_parts(l)) = Key(command_parts(m))
  PROVE  ~ (Len(command_parts(l).command) < Len(command_parts(m).command))
<1> DEFINE c == command_parts(l).command
           d == command_parts(m).command
           a == Strip(command_parts(l).arguments)
           b == Strip(command_parts(m).arguments)
           k == Key(command_parts(l))
<1> SUFFICES ASSUME Len(c) < Len(d) PROVE FALSE
  OBVIOUS
<1>1. /\ c \in Text /\ c # <<>> /\ d \in Text /\ d # <<>> /\ a \in Text /\ b \in Text
      /\ k \in Text
  BY ParsedBegins, KeyType, StripEnds DEF Line, Text
<1>2. Len(c) \in Nat \ {0} /\ Len(d) \in Nat \ {0} /\ Len(k) \in Nat
  BY <1>1, EmptySeq, LenProperties DEF Text
<1>3. \/ /\ a = <<>> /\ Len(k) \in 1..Len(c)
         /\ \A i \in 1..Len(k) : k[i] = c[i]
         /\ \A i \in (Len(k) + 1)..Len(c) : c[i] = Blank
      \/ a # <<>> /\ k = c \o (<<Blank>> \o a)
  BY ParsedBegins, KeyShape
<1>4. \/ /\ b = <<>> /\ Len(k) \in 1..Len(d)
         /\ \A i \in 1..Len(k) : k[i] = d[i]
         /\ \A i \in (Len(k) + 1)..Len(d) : d[i] = Blank
      \/ b # <<>> /\ k = d \o (<<Blank>> \o b)
  BY ParsedBegins, KeyShape
<1>5. c = Extract(l.command) /\ d = Extract(m.command)
      /\ l.command \in Text /\ m.command \in Text
  BY DEF command_parts, Line, Text
<1> HIDE DEF c, d, a, b, k
<1>6. a # <<>> /\ k = c \o (<<Blank>> \o a) =>
        /\ Len(c) + 1 < Len(k) /\ k[Len(c) + 1] = Blank
        /\ \A i \in 1..Len(c) : k[i] = c[i]
  BY <1>1, JoinedAt
<1>7. b # <<>> /\ k = d \o (<<Blank>> \o b) =>
        Len(d) + 1 < Len(k) /\ \A i \in 1..Len(d) : k[i] = d[i]
  BY <1>1, JoinedAt
<1>8. d[Len(c) + 1] = Blank /\ \A i \in 1..Len(c) : d[i] = c[i]
  BY <1>2, <1>3, <1>4, <1>6, <1>7
<1> QED
  BY <1>5, <1>8, NotContinued

(* Two lines with one key are shown alike. *)
LEMMA SameKeyAlike ==
  ASSUME NEW l \in Line, NEW m \in Line, Parsed(l.command), Parsed(m.command),
         Key(command_parts(l)) = Key(command_parts(m))
  PROVE  Alike(command_parts(l), command_parts(m))
<1> DEFINE c == command_parts(l).command
           d == command_parts(m).command
           a == Strip(command_parts(l).arguments)
           b == Strip(command_parts(m).arguments)
           k == Key(command_parts(l))
<1>1. /\ c \in Text /\ c # <<>> /\ d \in Text /\ d # <<>> /\ a \in Text /\ b \in Text
  BY ParsedBegins, KeyType, StripEnds DEF Line, Text
<1>2. Len(c) \in Nat \ {0} /\ Len(d) \in Nat \ {0}
  BY <1>1, EmptySeq DEF Text
<1>3. \/ /\ a = <<>> /\ Len(k) \in 1..Len(c)
         /\ \A i \in 1..Len(k) : k[i] = c[i]
         /\ \A i \in (Len(k) + 1)..Len(c) : c[i] = Blank
      \/ a # <<>> /\ k = c \o (<<Blank>> \o a)
  BY ParsedBegins, KeyShape
<1>4. \/ /\ b = <<>> /\ Len(k) \in 1..Len(d)
         /\ \A i \in 1..Len(k) : k[i] = d[i]
         /\ \A i \in (Len(k) + 1)..Len(d) : d[i] = Blank
      \/ b # <<>> /\ k = d \o (<<Blank>> \o b)
  BY ParsedBegins, KeyShape
<1>5. ~ (Len(c) < Len(d)) /\ ~ (Len(d) < Len(c))
  BY NotLonger
<1> SUFFICES c = d /\ a = b
  BY DEF Alike
<1> HIDE DEF c, d, a, b, k
<1>6. Len(c) = Len(d)
  BY <1>2, <1>5
<1>7. a # <<>> /\ k = c \o (<<Blank>> \o a) =>
        Len(c) + 1 < Len(k) /\ \A i \in 1..Len(c) : k[i] = c[i]
  BY <1>1, JoinedAt
<1>8. b # <<>> /\ k = d \o (<<Blank>> \o b) =>
        Len(d) + 1 < Len(k) /\ \A i \in 1..Len(d) : k[i] = d[i]
  BY <1>1, JoinedAt
<1>9. (a = <<>> <=> b = <<>>) /\ \A i \in 1..Len(c) : c[i] = d[i]
  BY <1>2, <1>3, <1>4, <1>6, <1>7, <1>8
<1>10. c = d
  BY <1>1, <1>6, <1>9, SeqEqual DEF Text
<1>11. a # <<>> => a = b
  <2> SUFFICES ASSUME a # <<>> PROVE a = b
    OBVIOUS
  <2>1. <<Blank>> \in Text /\ <<Blank>> # <<>>
    BY DEF Text, Symbols
  <2>2. c \o (<<Blank>> \o a) = c \o (<<Blank>> \o b)
    BY <1>3, <1>4, <1>9, <1>10
  <2>3. <<Blank>> \o a \in Text /\ <<Blank>> \o b \in Text
    BY <1>1, <2>1, ConcatParts
  <2>4. <<Blank>> \o a = <<Blank>> \o b
    BY <1>1, <2>2, <2>3, SameRest
  <2> QED
    BY <1>1, <2>1, <2>4, SameRest
<1> QED
  BY <1>9, <1>10, <1>11

-------------------------------------------------------------------------------
(* The way of the text, step by step. *)

(* The rules are for the lines they were made for, a line passes silently  *)
(* only for such a rule, and what is run is the edit of what was entered.  *)
EditRuns == phase = "edited" => run = Edited(line, entered)
RulesAreOfLines == auto = {Key(command_parts(l)) : l \in ruled}
SilentHasRule == phase = "silent" => Key(command_parts(line)) \in auto
TextInv == TypeOK /\ EditRuns /\ RulesAreOfLines /\ SilentHasRule

(* Every line of the program is one of texts, and so is what is entered. *)
LEMMA ConstantsType == Lines \subseteq Line /\ Texts \subseteq Text
BY EditLineAssumption DEF Line, Text

LEMMA InitTextInv == Init => TextInv
<1> SUFFICES ASSUME Init PROVE TextInv
  OBVIOUS
<1>1. run \in Line /\ entered \in Text
  BY ConstantsType, EmptySeq DEF Init, Text
<1> QED
  BY <1>1 DEF Init, TextInv, TypeOK, EditRuns, RulesAreOfLines, SilentHasRule, Line, Text

LEMMA NextTextInv == TextInv /\ [Next]_vars => TextInv'
<1> SUFFICES ASSUME TextInv, [Next]_vars PROVE TextInv'
  OBVIOUS
<1>1. /\ line \in Lines /\ line \in Line /\ run \in Line
      /\ entered \in Text /\ auto \subseteq Text /\ ruled \subseteq Lines
  BY ConstantsType DEF TextInv, TypeOK, Line, Text
<1>2. \A l \in Lines : Key(command_parts(l)) \in Text
  BY ConstantsType, PartsType, KeyType
<1>3. ASSUME NEW l \in Lines, Reach(l) PROVE TextInv'
  <2>1. run' \in Line /\ entered' \in Text
    BY <1>3, ConstantsType, EmptySeq DEF Reach, Text
  <2>2. TypeOK'
    BY <1>1, <1>3, <2>1 DEF Reach, TextInv, TypeOK, Line, Text
  <2> QED
    BY <1>3, <2>2 DEF Reach, TextInv, EditRuns, RulesAreOfLines, SilentHasRule
<1>4. ASSUME NEW t \in Texts, Edit(t) PROVE TextInv'
  <2>1. entered' \in Text
    BY <1>1, <1>2, <1>4, ConstantsType DEF Edit
  <2>2. run' \in Line
    BY <1>1, <1>4, <2>1, EditedType DEF Edit, Line
  <2>3. TypeOK'
    BY <1>1, <1>4, <2>1, <2>2 DEF Edit, TextInv, TypeOK, Line, Text
  <2> QED
    BY <1>4, <2>3 DEF Edit, TextInv, EditRuns, RulesAreOfLines, SilentHasRule
<1>5. ASSUME MakeRule PROVE TextInv'
  <2>1. TypeOK'
    BY <1>1, <1>2, <1>5 DEF MakeRule, TextInv, TypeOK, Line, Text
  <2>2. RulesAreOfLines'
    BY <1>5 DEF MakeRule, TextInv, RulesAreOfLines
  <2> QED
    BY <1>5, <2>1, <2>2 DEF MakeRule, TextInv, EditRuns, SilentHasRule
<1>6. ASSUME Release PROVE TextInv'
  <2>1. entered' \in Text /\ run' \in Line
    BY <1>1, <1>6, EmptySeq DEF Release, Text
  <2>2. TypeOK'
    BY <1>1, <1>6, <2>1 DEF Release, TextInv, TypeOK, Line, Text
  <2> QED
    BY <1>6, <2>2 DEF Release, TextInv, EditRuns, RulesAreOfLines, SilentHasRule
<1>7. ASSUME UNCHANGED vars PROVE TextInv'
  BY <1>7 DEF vars, TextInv, TypeOK, EditRuns, RulesAreOfLines, SilentHasRule
<1> QED
  BY <1>3, <1>4, <1>5, <1>6, <1>7 DEF Next

LEMMA TextInvariant == Spec => []TextInv
<1>1. Init => TextInv
  BY InitTextInv
<1>2. TextInv /\ [Next]_vars => TextInv'
  BY NextTextInv
<1> QED
  BY <1>1, <1>2, PTL DEF Spec

(* Whatever is entered, the text of every step is a text, and what cmd.exe *)
(* is given to run has a command (parse_debug_decision turns an edit       *)
(* without one into a continue).                                           *)
THEOREM TextsAreTexts == Spec => []TypeOK
<1>1. TextInv => TypeOK
  BY DEF TextInv
<1> QED
  BY <1>1, TextInvariant, PTL

(* What the user enters is what is run, word for word                      *)
(* (_split_edited_command, normalize_arguments), for texts of any length.  *)
THEOREM EnteredTextIsRun == Spec => []EnteredIsRun
<1>1. TextInv => EnteredIsRun
  <2>1. SUFFICES ASSUME TextInv, phase = "edited", Strip(entered) # <<>>
                 PROVE  WordForWord(Strip(entered), run)
    BY DEF EnteredIsRun, WordForWord
  <2>2. entered \in Text /\ run = Edited(line, entered)
    BY <2>1 DEF TextInv, TypeOK, EditRuns, Text
  <2> QED
    BY <2>1, <2>2, EditedWordForWord
<1> QED
  BY <1>1, TextInvariant, PTL

(* Accepting the default of an edit runs the command that was shown        *)
(* (_command_key and _split_edited_command), with its arguments up to the  *)
(* blanks around them, where the command is plain or quoted.               *)
THEOREM DefaultRunsTheCommand == Spec => []DefaultKeepsCommand
<1> DEFINE shown == command_parts(line)
<1>1. TextInv => DefaultKeepsCommand
  <2>1. SUFFICES ASSUME TextInv, phase = "edited", entered = Key(shown),
                        Plain(shown.command) \/ Quoted(shown.command)
                 PROVE  /\ run.command = shown.command
                        /\ Strip(run.arguments) = Strip(shown.arguments)
    BY DEF DefaultKeepsCommand, Alike
  <2>2. entered \in Text /\ run = Edited(line, entered) /\ shown \in Line
    BY <2>1, ConstantsType, PartsType DEF TextInv, TypeOK, EditRuns, Text
  <2> HIDE DEF shown
  <2>3. /\ Split(entered).command = shown.command
        /\ Strip(Split(entered).arguments) = Strip(shown.arguments)
    BY <2>1, <2>2, SplitOfKey
  <2>4. Strip(entered) # <<>> /\ Split(entered).arguments \in Text
    BY <2>2, <2>3, SplitType DEF Line
  <2>5. line \in Line
    BY <2>1, ConstantsType DEF TextInv, TypeOK
  <2>6. run = [command |-> Split(entered).command,
               arguments |-> normalize_arguments(Split(entered).arguments)]
    BY <2>2, <2>4, <2>5, EditedCases
  <2> QED
    BY <2>3, <2>4, <2>6, NormalizedArguments
<1> QED
  BY <1>1, TextInvariant, PTL

(* A rule answers for commands that are shown as the one it was made for,  *)
(* up to blanks around the arguments (_command_key as the key of           *)
(* auto_continue and auto_skip), where every quote in them is closed.      *)
THEOREM RulesMatchAlike == Spec => []RuleMatchesAlike
<1>1. TextInv => RuleMatchesAlike
  <2>1. SUFFICES ASSUME TextInv, phase = "silent",
                        \A l \in ruled \cup {line} : Parsed(l.command)
                 PROVE  \E l \in ruled : Alike(command_parts(l), command_parts(line))
    BY DEF RuleMatchesAlike
  <2>2. PICK l \in ruled : Key(command_parts(l)) = Key(command_parts(line))
    BY <2>1 DEF TextInv, RulesAreOfLines, SilentHasRule
  <2>3. l \in Line /\ line \in Line
    BY <2>1, ConstantsType DEF TextInv, TypeOK
  <2> QED
    BY <2>1, <2>2, <2>3, SameKeyAlike
<1> QED
  BY <1>1, TextInvariant, PTL
===============================================================================
