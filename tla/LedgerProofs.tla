---------------------------- MODULE LedgerProofs ----------------------------
(***************************************************************************)
(* Ledger.tla for every set of transcripts, processes and caps, and every  *)
(* size of the ring: its types; that nothing the cursor has gone past is   *)
(* missing from the months' files; that a message is counted once, and     *)
(* once more at most for each kill; and that the owner hears of a cap once *)
(* that it is near and once that it is reached.                            *)
(***************************************************************************)
EXTENDS Ledger, SequenceTheorems, FiniteSetTheorems, WellFoundedInduction, TLAPS

USE LedgerAssumption

LEMMA LastOf ==
    ASSUME NEW n \in Nat \ {0}, NEW s \in Seq(Nat)
    PROVE  /\ Last(n, s) \in Seq(Nat)
           /\ \A i \in DOMAIN Last(n, s) : \E j \in DOMAIN s : Last(n, s)[i] = s[j]
<1>1. CASE Len(s) <= n
  BY <1>1 DEF Last
<1>2. CASE ~(Len(s) <= n)
  <2>1. /\ Len(s) \in Nat /\ Len(s) - n + 1 \in 1 .. Len(s) + 1 /\ Last(n, s) = SubSeq(s, Len(s) - n + 1, Len(s))
    BY <1>2 DEF Last
  <2>2. /\ Last(n, s) \in Seq(Nat) /\ Len(Last(n, s)) = n
        /\ \A i \in 1 .. n : Last(n, s)[i] = s[Len(s) - n + 1 + i - 1]
    <3>1. \A i \in Len(s) - n + 1 .. Len(s) : s[i] \in Nat
      BY <2>1, <1>2, LenProperties
    <3> DEFINE a == Len(s) - n + 1
    <3>2. a \in Int /\ Len(s) \in Int /\ a <= Len(s) /\ Len(s) - a + 1 = n
      BY <2>1, <1>2
    <3> HIDE DEF a
    <3>3. /\ SubSeq(s, a, Len(s)) \in Seq(Nat) /\ Len(SubSeq(s, a, Len(s))) = Len(s) - a + 1
          /\ \A i \in 1 .. Len(s) - a + 1 : SubSeq(s, a, Len(s))[i] = s[a + i - 1]
      BY <3>1, <3>2, SubSeqProperties DEF a
    <3> QED
      BY <2>1, <3>2, <3>3 DEF a
  <2>3. \A i \in 1 .. n : Len(s) - n + 1 + i - 1 \in 1 .. Len(s)
    BY <2>1, <1>2
  <2>4. DOMAIN Last(n, s) = 1 .. n /\ DOMAIN s = 1 .. Len(s)
    BY <2>2, LenProperties
  <2>5. ASSUME NEW i \in 1 .. n PROVE \E j \in DOMAIN s : Last(n, s)[i] = s[j]
    <3>1. Len(s) - n + 1 + i - 1 \in DOMAIN s
      BY <2>3, <2>4
    <3> QED
      BY <2>2, <3>1
  <2> QED
    BY <2>2, <2>4, <2>5
<1> QED
  BY <1>1, <1>2

LEMMA CopyOf ==
    ASSUME NEW S, NEW s \in Seq(S), NEW m \in Nat \ {0}, NEW n \in 0 .. Len(s)
    PROVE  SubSeq(s, m, n) \in Seq(S)
BY SubSeqProperties


-----------------------------------------------------------------------------
(* Sums over finite sets. MapThenSumSet is a recursive function over the   *)
(* parts of a set: that there is one, by the size of the parts, and what   *)
(* follows.                                                                *)

LEMMA Least ==
    ASSUME NEW T \in SUBSET Nat, T # {}
    PROVE  \E n \in T : \A m \in T : n <= m
<1>1. PICK n \in T : \A m \in T : ~ (<<m, n>> \in OpToRel(<, Nat))
  BY WFMin, NatLessThanWellFounded
<1>2. ASSUME NEW m \in T PROVE n <= m
  <2>1. ~(m < n)
    BY <1>1 DEF OpToRel
  <2> QED
    BY <2>1
<1> QED
  BY <1>2

(* A set of numbers that a number is in when all smaller ones are has all. *)
LEMMA AllNumbers ==
    ASSUME NEW A, \A n \in Nat : (\A m \in 0 .. n - 1 : m \in A) => n \in A
    PROVE  Nat \subseteq A
<1>1. SUFFICES ASSUME Nat \ A # {} PROVE FALSE
  OBVIOUS
<1>2. PICK n \in Nat \ A : \A m \in Nat \ A : n <= m
  BY <1>1, Least
<1> QED
  BY <1>2

(* A set that a finite set is in when all its smaller parts are has all of *)
(* its parts.                                                              *)
LEMMA AllFinite ==
    ASSUME NEW A, NEW S, IsFiniteSet(S),
           \A T \in SUBSET S : (\A U \in SUBSET T : U # T => U \in A) => T \in A
    PROVE  S \in A
<1> DEFINE B == {n \in Nat : \A T \in SUBSET S : Cardinality(T) = n => T \in A}
<1>1. ASSUME NEW n \in Nat, \A m \in 0 .. n - 1 : m \in B PROVE n \in B
  <2> SUFFICES ASSUME NEW T \in SUBSET S, Cardinality(T) = n PROVE T \in A
    OBVIOUS
  <2>1. IsFiniteSet(T)
    BY FS_Subset
  <2>2. ASSUME NEW U \in SUBSET T, U # T PROVE U \in A
    <3>1. Cardinality(U) \in Nat /\ Cardinality(U) < n
      BY <2>1, <2>2, FS_Subset, FS_CardinalityType
    <3>2. Cardinality(U) \in B
      BY <1>1, <3>1
    <3> QED
      BY <3>2
  <2> QED
    BY <2>2
<1> HIDE DEF B
<1>2. Nat \subseteq B
  BY <1>1, AllNumbers
<1>3. Cardinality(S) \in B
  BY <1>2, FS_CardinalityType
<1> QED
  BY <1>3 DEF B

\* A set's sum, as the recursion adds it up.
Pick(s) == CHOOSE x \in s : TRUE

SumStep(f, D, g) == [s \in D |-> IF s = {} THEN 0 ELSE f[Pick(s)] + g[s \ {Pick(s)}]]

PartsUpTo(S, n) == {s \in SUBSET S : Cardinality(s) <= n}

Sums(f, S) == CHOOSE g : g = SumStep(f, SUBSET S, g)

SumOver(f, S) == Sums(f, S)[S]

LEMMA PickIn == ASSUME NEW s, s # {} PROVE Pick(s) \in s
BY DEF Pick

LEMMA Smaller ==
    ASSUME NEW S, IsFiniteSet(S), NEW T \in SUBSET S, T # {}
    PROVE  /\ T \ {Pick(T)} \in SUBSET S /\ T \ {Pick(T)} # T
           /\ Cardinality(T) \in Nat \ {0} /\ Cardinality(T \ {Pick(T)}) = Cardinality(T) - 1
<1>1. IsFiniteSet(T) /\ Pick(T) \in T
  BY FS_Subset, PickIn
<1>2. Cardinality(T) \in Nat /\ Cardinality(T) # 0
  BY <1>1, FS_CardinalityType, FS_EmptySet
<1> QED
  BY <1>1, <1>2, FS_RemoveElement

LEMMA SumsUpTo ==
    ASSUME NEW f, NEW S, IsFiniteSet(S), NEW n \in Nat
    PROVE  \E g : g = SumStep(f, PartsUpTo(S, n), g)
<1> DEFINE A == {k \in Nat : \E g : g = SumStep(f, PartsUpTo(S, k), g)}
<1>1. ASSUME NEW k \in Nat, \A m \in 0 .. k - 1 : m \in A PROVE k \in A
  <2>1. CASE k = 0
    <3> DEFINE g == [s \in PartsUpTo(S, k) |-> 0]
    <3>1. ASSUME NEW s \in PartsUpTo(S, k) PROVE s = {}
      <4>1. IsFiniteSet(s) /\ Cardinality(s) \in Nat /\ Cardinality(s) <= 0
        BY <2>1, FS_Subset, FS_CardinalityType DEF PartsUpTo
      <4> QED
        BY <4>1, FS_EmptySet
    <3>2. g = SumStep(f, PartsUpTo(S, k), g)
      BY <3>1 DEF SumStep
    <3> QED
      BY <3>2
  <2>2. CASE k # 0
    <3>1. k - 1 \in 0 .. k - 1
      BY <2>2
    <3>2. k - 1 \in A
      BY <1>1, <3>1
    <3>3. PICK g : g = SumStep(f, PartsUpTo(S, k - 1), g)
      BY <3>2
    <3> DEFINE h == SumStep(f, PartsUpTo(S, k), g)
    <3>4. ASSUME NEW s \in PartsUpTo(S, k), s # {} PROVE h[s \ {Pick(s)}] = g[s \ {Pick(s)}]
      <4>1. s \ {Pick(s)} \in PartsUpTo(S, k - 1) /\ s \ {Pick(s)} \in PartsUpTo(S, k)
        BY <3>4, Smaller DEF PartsUpTo
      <4>2. g[s \ {Pick(s)}] = SumStep(f, PartsUpTo(S, k - 1), g)[s \ {Pick(s)}]
        BY <3>3
      <4> QED
        BY <4>1, <4>2 DEF SumStep
    <3>5. h = SumStep(f, PartsUpTo(S, k), h)
      BY <3>4 DEF SumStep
    <3> QED
      BY <3>5
  <2> QED
    BY <2>1, <2>2
<1> HIDE DEF A
<1>2. Nat \subseteq A
  BY <1>1, AllNumbers
<1> QED
  BY <1>2 DEF A

LEMMA SumsAre ==
    ASSUME NEW f, NEW S, IsFiniteSet(S)
    PROVE  Sums(f, S) = SumStep(f, SUBSET S, Sums(f, S))
<1>1. Cardinality(S) \in Nat /\ SUBSET S = PartsUpTo(S, Cardinality(S))
  BY FS_CardinalityType, FS_Subset DEF PartsUpTo
<1>2. \E g : g = SumStep(f, SUBSET S, g)
  <2>1. \E g : g = SumStep(f, PartsUpTo(S, Cardinality(S)), g)
    BY <1>1, SumsUpTo
  <2> QED
    BY <1>1, <2>1
<1> QED
  BY <1>2 DEF Sums

LEMMA SumsOfPart ==
    ASSUME NEW f, NEW S, IsFiniteSet(S), NEW T \in SUBSET S
    PROVE  Sums(f, S)[T] = SumOver(f, T)
<1> DEFINE A == {U \in SUBSET T : Sums(f, S)[U] = Sums(f, T)[U]}
<1>0. IsFiniteSet(T)
  BY FS_Subset
<1>1. ASSUME NEW U \in SUBSET T, \A V \in SUBSET U : V # U => V \in A PROVE U \in A
  <2>1. /\ Sums(f, S)[U] = IF U = {} THEN 0 ELSE f[Pick(U)] + Sums(f, S)[U \ {Pick(U)}]
        /\ Sums(f, T)[U] = IF U = {} THEN 0 ELSE f[Pick(U)] + Sums(f, T)[U \ {Pick(U)}]
    <3>1. U \in SUBSET S /\ U \in SUBSET T
      OBVIOUS
    <3>2. Sums(f, S)[U] = SumStep(f, SUBSET S, Sums(f, S))[U]
      BY SumsAre
    <3>3. Sums(f, T)[U] = SumStep(f, SUBSET T, Sums(f, T))[U]
      BY <1>0, SumsAre
    <3> QED
      BY <3>1, <3>2, <3>3 DEF SumStep
  <2>2. U # {} => U \ {Pick(U)} \in A
    <3>1. U # {} => U \ {Pick(U)} \in SUBSET U /\ U \ {Pick(U)} # U
      BY PickIn
    <3> HIDE DEF A
    <3> QED
      BY <1>1, <3>1
  <2> QED
    BY <2>1, <2>2
<1> HIDE DEF A
<1>2. T \in A
  BY <1>0, <1>1, AllFinite
<1> QED
  BY <1>2 DEF A, SumOver

LEMMA SumOf ==
    ASSUME NEW f, NEW S, IsFiniteSet(S)
    PROVE  SumOver(f, S) = IF S = {} THEN 0 ELSE f[Pick(S)] + SumOver(f, S \ {Pick(S)})
<1>1. Sums(f, S)[S] = SumStep(f, SUBSET S, Sums(f, S))[S]
  BY SumsAre
<1>2. S \in SUBSET S
  OBVIOUS
<1>3. Sums(f, S)[S] = IF S = {} THEN 0 ELSE f[Pick(S)] + Sums(f, S)[S \ {Pick(S)}]
  BY <1>1, <1>2 DEF SumStep
<1>4. Sums(f, S)[S \ {Pick(S)}] = SumOver(f, S \ {Pick(S)})
  BY SumsOfPart
<1> QED
  BY <1>3, <1>4 DEF SumOver

LEMMA SumIsNat ==
    ASSUME NEW f, NEW S, IsFiniteSet(S), \A x \in S : f[x] \in Nat
    PROVE  SumOver(f, S) \in Nat
<1> DEFINE A == {T \in SUBSET S : SumOver(f, T) \in Nat}
<1>1. ASSUME NEW T \in SUBSET S, \A U \in SUBSET T : U # T => U \in A PROVE T \in A
  <2>1. T # {} => T \ {Pick(T)} \in A /\ Pick(T) \in S
    BY <1>1, Smaller, PickIn
  <2>2. IsFiniteSet(T)
    BY FS_Subset
  <2>3. SumOver(f, T) = IF T = {} THEN 0 ELSE f[Pick(T)] + SumOver(f, T \ {Pick(T)})
    BY <2>2, SumOf
  <2> QED
    BY <2>1, <2>3
<1> HIDE DEF A
<1>2. S \in A
  BY <1>1, AllFinite
<1> QED
  BY <1>2 DEF A

LEMMA SumOfSame ==
    ASSUME NEW f, NEW g, NEW S, IsFiniteSet(S), \A x \in S : f[x] = g[x]
    PROVE  SumOver(f, S) = SumOver(g, S)
<1> DEFINE A == {T \in SUBSET S : SumOver(f, T) = SumOver(g, T)}
<1>1. ASSUME NEW T \in SUBSET S, \A U \in SUBSET T : U # T => U \in A PROVE T \in A
  <2>1. T # {} => T \ {Pick(T)} \in A /\ Pick(T) \in S
    BY <1>1, Smaller, PickIn
  <2>2. IsFiniteSet(T)
    BY FS_Subset
  <2>3. /\ SumOver(f, T) = IF T = {} THEN 0 ELSE f[Pick(T)] + SumOver(f, T \ {Pick(T)})
        /\ SumOver(g, T) = IF T = {} THEN 0 ELSE g[Pick(T)] + SumOver(g, T \ {Pick(T)})
    BY <2>2, SumOf
  <2> QED
    BY <2>1, <2>3
<1> HIDE DEF A
<1>2. S \in A
  BY <1>1, AllFinite
<1> QED
  BY <1>2 DEF A

LEMMA SumWithout ==
    ASSUME NEW f, NEW S, IsFiniteSet(S), \A x \in S : f[x] \in Nat, NEW x \in S
    PROVE  SumOver(f, S) = f[x] + SumOver(f, S \ {x})
<1> DEFINE A == {T \in SUBSET S : \A y \in T : SumOver(f, T) = f[y] + SumOver(f, T \ {y})}
<1>1. ASSUME NEW T \in SUBSET S, \A U \in SUBSET T : U # T => U \in A PROVE T \in A
  <2> SUFFICES ASSUME NEW y \in T PROVE SumOver(f, T) = f[y] + SumOver(f, T \ {y})
    OBVIOUS
  <2>1. IsFiniteSet(T) /\ Pick(T) \in T
    BY FS_Subset, PickIn
  <2>2. SumOver(f, T) = f[Pick(T)] + SumOver(f, T \ {Pick(T)})
    BY <2>1, SumOf
  <2>3. CASE y = Pick(T)
    BY <2>2, <2>3
  <2>4. CASE y # Pick(T)
    <3> DEFINE z == Pick(T)
    <3>1. z \in T
      BY <2>1
    <3> HIDE DEF z
    <3>2. T \ {z} \in A /\ T \ {y} \in A
      BY <1>1, <3>1
    <3>3. y \in T \ {z} /\ z \in T \ {y} /\ (T \ {z}) \ {y} = (T \ {y}) \ {z}
      BY <2>4, <3>1 DEF z
    <3>4. SumOver(f, T \ {z}) = f[y] + SumOver(f, (T \ {z}) \ {y}) /\ SumOver(f, T \ {y}) = f[z] + SumOver(f, (T \ {y}) \ {z})
      BY <3>2, <3>3
    <3>5. SumOver(f, (T \ {z}) \ {y}) \in Nat /\ f[y] \in Nat /\ f[z] \in Nat
      <4>1. IsFiniteSet((T \ {z}) \ {y}) /\ \A v \in (T \ {z}) \ {y} : f[v] \in Nat
        BY FS_Subset
      <4> QED
        BY <3>1, <4>1, SumIsNat
    <3>6. SumOver(f, T) = f[z] + SumOver(f, T \ {z})
      BY <2>2 DEF z
    <3>7. ASSUME NEW a \in Nat, NEW b \in Nat, NEW c \in Nat PROVE a + (b + c) = b + (a + c)
      OBVIOUS
    <3> DEFINE c == SumOver(f, (T \ {z}) \ {y})
    <3>8. SumOver(f, T) = f[z] + (f[y] + c) /\ SumOver(f, T \ {y}) = f[z] + c
      BY <3>3, <3>4, <3>6
    <3>9. c \in Nat /\ f[y] \in Nat /\ f[z] \in Nat
      BY <3>5
    <3> HIDE DEF c, A
    <3> QED
      BY <3>7, <3>8, <3>9
  <2> QED
    BY <2>3, <2>4
<1> HIDE DEF A
<1>2. S \in A
  BY <1>1, AllFinite
<1> QED
  BY <1>2 DEF A

-----------------------------------------------------------------------------
(* Types *)

LEMMA NoPassTyped == NoPass \in Pass /\ NoPass.cursor \in [Transcript -> Mark]
BY DEF NoPass, Pass, Mark

LEMMA NoEnforceTyped == NoEnforce \in Enforce /\ NoPause \in [Scope -> Nat]
BY DEF NoEnforce, Enforce, NoPause

LEMMA InitTyped == Init => TypeOK
<1> SUFFICES ASSUME Init PROVE TypeOK
  OBVIOUS
<1>1. ReadingOK
  BY NoPassTyped, EmptySeq DEF Init, ReadingOK, Text, EmptyBag, SetToBag, BagToSet
<1>2. JudgingOK
  BY NoEnforceTyped, EmptySeq DEF Init, JudgingOK, NoPlain
<1>3. GivenOK
  BY DEF Init, GivenOK, NoPause, Scope
<1> QED
  BY <1>1, <1>2, <1>3 DEF TypeOK

(* Each part keeps its types when its variables stay. *)
LEMMA PartsStay ==
    ASSUME TypeOK
    PROVE  /\ UNCHANGED reading => ReadingOK'
           /\ UNCHANGED judging => JudgingOK'
           /\ UNCHANGED <<given, count, play>> => GivenOK'
<1>1. UNCHANGED reading => ReadingOK'
  BY DEF TypeOK, ReadingOK, reading
<1>2. UNCHANGED judging => JudgingOK'
  BY DEF TypeOK, JudgingOK, judging
<1>3. UNCHANGED <<given, count, play>> => GivenOK'
  BY DEF TypeOK, GivenOK, given
<1> QED
  BY <1>1, <1>2, <1>3

LEMMA CountsTyped ==
    ASSUME TypeOK, NEW what \in {"msg", "change", "op", "kill"}, Counts(what)
    PROVE  count' \in [msg: Nat, change: Nat, op: Nat, kill: Nat]
BY DEF TypeOK, GivenOK, Counts

LEMMA MayTyped ==
    ASSUME TypeOK, NEW what, May(what)
    PROVE  count' \in [msg: Nat, change: Nat, op: Nat, kill: Nat]
BY CountsTyped DEF May

LEMMA LinesOf ==
    ASSUME ReadingOK, NEW t \in Transcript
    PROVE  /\ Lines(t) \in Seq(Line) /\ Len(Lines(t)) \in Nat /\ DOMAIN Lines(t) = 1 .. Len(Lines(t))
           /\ text[t] \in Text /\ text[t].whole \in BOOLEAN
           /\ Whole(t) \in Int /\ Whole(t) <= Len(Lines(t))
<1>1. text[t] \in Text
  BY DEF ReadingOK
<1> QED
  BY <1>1, LenProperties DEF Lines, Whole, Text

LEMMA WritesTyped ==
    ASSUME ReadingOK, NEW t \in Transcript, NEW line \in Line, NEW whole \in BOOLEAN, Writes(t, line, whole)
    PROVE  text' \in [Transcript -> Text]
<1>1. Append(Lines(t), line) \in Seq(Line)
  BY LinesOf, AppendProperties
<1>2. Holds(text[t].ino, Append(text[t].lines, line), whole) \in Text
  BY <1>1, LinesOf DEF Text, Lines, Holds
<1> QED
  BY <1>2 DEF Writes, ReadingOK

LEMMA GivenTyped == TypeOK /\ Given => TypeOK'
<1> SUFFICES ASSUME TypeOK, Given PROVE TypeOK'
  OBVIOUS
<1> USE DEF TypeOK
<1>1. CASE Speaks
  <2>1. PICK t \in Transcript, whole \in BOOLEAN :
            Counts("msg") /\ Writes(t, [id |-> count.msg + 1, month |-> month], whole)
    BY <1>1 DEF Speaks
  <2>2. [id |-> count.msg + 1, month |-> month] \in Line
    BY DEF Line, GivenOK
  <2>3. text' \in [Transcript -> Text]
    BY <2>1, <2>2, WritesTyped
  <2>4. count' \in [msg: Nat, change: Nat, op: Nat, kill: Nat]
    BY <2>1, CountsTyped
  <2>5. UNCHANGED <<cursor, rows, pass, judging, given, play>>
    BY <1>1 DEF Speaks
  <2> QED
    BY <2>3, <2>4, <2>5, PartsStay DEF ReadingOK, GivenOK, given
<1>2. CASE SpeaksOn
  <2>1. PICK t \in Transcript :
            Lines(t) # <<>> /\ May("more") /\ Writes(t, Lines(t)[Len(Lines(t))], TRUE)
    BY <1>2 DEF SpeaksOn
  <2>2. Lines(t)[Len(Lines(t))] \in Line
    BY <2>1, LinesOf, EmptySeq, ElementOfSeq
  <2>3. text' \in [Transcript -> Text]
    BY <2>1, <2>2, WritesTyped
  <2>4. count' \in [msg: Nat, change: Nat, op: Nat, kill: Nat]
    BY <2>1, MayTyped
  <2>5. UNCHANGED <<cursor, rows, pass, judging, given, play>>
    BY <1>2 DEF SpeaksOn
  <2> QED
    BY <2>3, <2>4, <2>5, PartsStay DEF ReadingOK, GivenOK, given
<1>3. CASE EndsLine
  <2>1. text' \in [Transcript -> Text]
    BY <1>3 DEF EndsLine, ReadingOK, Text, Holds
  <2>2. UNCHANGED <<cursor, rows, pass, judging, given, count, play>>
    BY <1>3 DEF EndsLine
  <2> QED
    BY <2>1, <2>2, PartsStay DEF ReadingOK
<1>4. CASE Redone
  <2>1. PICK t \in Transcript : \E n \in 0 .. Whole(t) :
            \/ May("redo") /\ text' = [text EXCEPT ![t] = Holds(@.ino + 1, SubSeq(@.lines, 1, n), TRUE)]
            \/ May("shrink") /\ text' = [text EXCEPT ![t] = Holds(@.ino, SubSeq(@.lines, 1, n), TRUE)]
    BY <1>4 DEF Redone
  <2>2. PICK n \in 0 .. Whole(t) :
            \/ May("redo") /\ text' = [text EXCEPT ![t] = Holds(@.ino + 1, SubSeq(@.lines, 1, n), TRUE)]
            \/ May("shrink") /\ text' = [text EXCEPT ![t] = Holds(@.ino, SubSeq(@.lines, 1, n), TRUE)]
    BY <2>1
  <2>3. SubSeq(Lines(t), 1, n) \in Seq(Line)
    BY LinesOf, CopyOf
  <2>4. text' \in [Transcript -> Text]
    <3>1. /\ Holds(text[t].ino + 1, SubSeq(text[t].lines, 1, n), TRUE) \in Text
          /\ Holds(text[t].ino, SubSeq(text[t].lines, 1, n), TRUE) \in Text
      BY <2>3, LinesOf DEF Text, Lines, Holds
    <3> QED
      BY <2>2, <3>1 DEF ReadingOK
  <2>5. count' \in [msg: Nat, change: Nat, op: Nat, kill: Nat]
    BY <2>2, MayTyped
  <2>6. UNCHANGED <<cursor, rows, pass, judging, given, play>>
    BY <1>4 DEF Redone
  <2> QED
    BY <2>4, <2>5, <2>6, PartsStay DEF ReadingOK, GivenOK, given
<1>5. CASE JobStarts
  <2>1. count' \in [msg: Nat, change: Nat, op: Nat, kill: Nat]
    BY <1>5, MayTyped DEF JobStarts
  <2> QED
    BY <1>5, <2>1, PartsStay DEF JobStarts, GivenOK
<1>6. CASE JobEnds
  BY <1>6, PartsStay DEF JobEnds, GivenOK
<1>7. CASE OwnerSetsCap
  <2>1. PICK s \in Scope, c \in Caps : May("cap:" \o s) /\ caps' = [caps EXCEPT ![s] = c]
    BY <1>7 DEF OwnerSetsCap
  <2>2. count' \in [msg: Nat, change: Nat, op: Nat, kill: Nat]
    BY <2>1, MayTyped
  <2>3. caps' \in [Scope -> Caps]
    BY <2>1 DEF GivenOK
  <2>4. UNCHANGED <<reading, judging, run, logged, peer, month, play>>
    BY <1>7 DEF OwnerSetsCap
  <2> QED
    BY <2>2, <2>3, <2>4, PartsStay DEF GivenOK
<1>8. CASE PeerSpends
  <2>1. count' \in [msg: Nat, change: Nat, op: Nat, kill: Nat]
    BY <1>8, MayTyped DEF PeerSpends
  <2> QED
    BY <1>8, <2>1, PartsStay DEF PeerSpends, GivenOK
<1>9. CASE NextMonth
  BY <1>9, PartsStay DEF NextMonth, GivenOK
<1> QED
  BY <1>1, <1>2, <1>3, <1>4, <1>5, <1>6, <1>7, <1>8, <1>9 DEF Given

LEMMA StartTyped ==
    ASSUME TypeOK, NEW p \in Proc, MayStart(p)
    PROVE  count' \in [msg: Nat, change: Nat, op: Nat, kill: Nat]
<1>1. CASE p = Worker
  BY <1>1 DEF MayStart, TypeOK, GivenOK
<1>2. CASE p # Worker
  BY <1>2, CountsTyped DEF MayStart
<1> QED
  BY <1>1, <1>2

LEMMA MarkTyped ==
    ASSUME NEW ino \in Nat, NEW off \in Nat, NEW seen \in Seq(Nat)
    PROVE  MarkAt(ino, off, seen) \in Mark
BY LastOf DEF MarkAt, Mark

LEMMA StartsOverTyped ==
    ASSUME NEW t \in Transcript, NEW m \in Mark
    PROVE  /\ StartsOver(t, m) \in Mark /\ StartsOver(t, m).seen = m.seen /\ StartsOver(t, m).ino = m.ino
           /\ StartsOver(t, m).off \in {0, m.off}
           /\ m.ino # text[t].ino => StartsOver(t, m).off = 0
BY DEF StartsOver, Mark

(* What a pass knows, field by field. *)
LEMMA PassFields ==
    ASSUME ReadingOK
    PROVE  /\ pass.t \in Transcript /\ pass.left \subseteq Transcript /\ pass.by \in Proc
           /\ pass.ino \in Nat /\ pass.from \in Nat /\ pass.upto \in Nat
           /\ pass.data \in Seq(Line) /\ pass.seen \in Seq(Nat)
           /\ pass.cursor \in [Transcript -> Mark] /\ pass.runs \subseteq Transcript /\ pass.out \subseteq Row
           /\ \A t \in Transcript : pass.cursor[t] \in Mark
BY DEF ReadingOK, Pass

LEMMA LooksTyped ==
    ASSUME ReadingOK, NEW p \in Proc, Looks(p)
    PROVE  pass' \in Pass
<1>1. PICK t \in pass.left :
        LET m == StartsOver(t, pass.cursor[t])
            now == [pass EXCEPT !.left = @ \ {t}]
        IN  pass' = IF Size(t) = 2 * m.off
                    THEN [now EXCEPT !.cursor[t] = MarkAt(text[t].ino, m.off, m.seen)]
                    ELSE [now EXCEPT !.at = "read", !.t = t, !.ino = text[t].ino, !.from = m.off, !.seen = m.seen]
  BY DEF Looks
<1> DEFINE m == StartsOver(t, pass.cursor[t])
           mark == MarkAt(text[t].ino, m.off, m.seen)
<1>2. t \in Transcript /\ pass.cursor[t] \in Mark /\ text[t].ino \in Nat
  BY PassFields, LinesOf DEF Text
<1>3. m \in Mark /\ m.off \in Nat /\ m.seen \in Seq(Nat)
  BY <1>2, StartsOverTyped DEF Mark
<1>4. mark \in Mark
  BY <1>2, <1>3, MarkTyped
<1> DEFINE now == [pass EXCEPT !.left = pass.left \ {t}]
<1>5. /\ now \in Pass /\ now.cursor = pass.cursor
      /\ \/ pass' = [now EXCEPT !.cursor = [now.cursor EXCEPT ![t] = mark]]
         \/ pass' = [now EXCEPT !.at = "read", !.t = t, !.ino = text[t].ino, !.from = m.off, !.seen = m.seen]
  <2>1. now \in Pass /\ now.cursor = pass.cursor
    BY DEF ReadingOK, Pass
  <2> QED
    BY <1>1, <2>1
<1> HIDE DEF m, mark, now
<1>6. [pass.cursor EXCEPT ![t] = mark] \in [Transcript -> Mark]
  BY <1>4, PassFields
<1>7. CASE pass' = [now EXCEPT !.cursor = [now.cursor EXCEPT ![t] = mark]]
  BY <1>5, <1>6, <1>7 DEF Pass
<1>8. CASE pass' = [now EXCEPT !.at = "read", !.t = t, !.ino = text[t].ino, !.from = m.off, !.seen = m.seen]
  BY <1>2, <1>3, <1>5, <1>8 DEF Pass
<1> QED
  BY <1>5, <1>7, <1>8

LEMMA ReadsTyped ==
    ASSUME ReadingOK, NEW p \in Proc, Reads(p)
    PROVE  /\ SubSeq(Lines(pass.t), pass.from + 1, Whole(pass.t)) \in Seq(Line)
           /\ pass' \in Pass
<1> DEFINE data == SubSeq(Lines(pass.t), pass.from + 1, Whole(pass.t))
<1>1. data \in Seq(Line)
  <2>1. Whole(pass.t) \in 0 .. Len(Lines(pass.t)) \/ Whole(pass.t) < pass.from + 1
    BY PassFields, LinesOf
  <2>2. pass.from + 1 \in Nat \ {0} /\ Whole(pass.t) \in Int
    BY PassFields, LinesOf
  <2> QED
    BY <2>1, <2>2, CopyOf, SubSeqEmpty, EmptySeq, LinesOf, PassFields
<1>2. pass.from + Len(data) \in Nat
  BY <1>1, LenProperties, PassFields
<1>3. pass' = [pass EXCEPT !.at = "line", !.data = data, !.upto = pass.from + Len(data)]
  BY DEF Reads
<1> HIDE DEF data
<1>4. pass' \in Pass
  BY <1>1, <1>2, <1>3 DEF ReadingOK, Pass
<1> QED
  BY <1>1, <1>4 DEF data

LEMMA CountsLineTyped ==
    ASSUME ReadingOK, NEW p \in Proc, CountsLine(p)
    PROVE  pass' \in Pass
<1> DEFINE mark == MarkAt(pass.ino, pass.upto, pass.seen)
           line == Head(pass.data)
           row == [id |-> line.id, month |-> line.month, job |-> pass.t \in pass.runs]
<1>1. CASE pass.data = <<>>
  <2>1. pass' = [pass EXCEPT !.at = "look", !.cursor = [pass.cursor EXCEPT ![pass.t] = mark]]
    BY <1>1 DEF CountsLine
  <2>2. [pass.cursor EXCEPT ![pass.t] = mark] \in [Transcript -> Mark]
    BY PassFields, MarkTyped
  <2> QED
    BY <2>1, <2>2 DEF ReadingOK, Pass
<1>2. CASE pass.data # <<>>
  <2>1. Tail(pass.data) \in Seq(Line) /\ line \in Line
    BY <1>2, PassFields, HeadTailProperties
  <2>2. row \in Row /\ Append(pass.seen, line.id) \in Seq(Nat)
    BY <2>1, PassFields, AppendProperties DEF Row, Line
  <2> DEFINE rest == [pass EXCEPT !.data = Tail(pass.data)]
  <2>3. rest \in Pass /\ rest.seen = pass.seen /\ rest.out = pass.out
    BY <2>1 DEF ReadingOK, Pass
  <2>4. \/ pass' = rest
        \/ pass' = [rest EXCEPT !.seen = Append(rest.seen, line.id), !.out = rest.out \cup {row}]
    BY <1>2 DEF CountsLine
  <2> HIDE DEF row, rest
  <2>5. CASE pass' = [rest EXCEPT !.seen = Append(rest.seen, line.id), !.out = rest.out \cup {row}]
    <3>1. rest.out \cup {row} \subseteq Row /\ Append(rest.seen, line.id) \in Seq(Nat)
      BY <2>2, <2>3, PassFields
    <3> QED
      BY <2>3, <2>5, <3>1 DEF Pass
  <2> QED
    BY <2>3, <2>4, <2>5
<1> QED
  BY <1>1, <1>2

LEMMA AddsRowsTyped ==
    ASSUME ReadingOK, NEW p \in Proc, AddsRows(p)
    PROVE  /\ BagToSet(rows') \subseteq Row /\ \A r \in BagToSet(rows') : rows'[r] \in Nat \ {0}
           /\ pass' \in Pass
<1>1. PICK r \in pass.out :
        LET these == {x \in pass.out : x.month = r.month}
        IN  /\ rows' = rows (+) SetToBag(these)
            /\ pass' = [pass EXCEPT !.at = "add", !.out = @ \ these]
  BY DEF AddsRows
<1> DEFINE these == {x \in pass.out : x.month = r.month}
<1>2. these \subseteq Row
  BY PassFields
<1>3. rows' = rows (+) SetToBag(these) /\ pass' = [pass EXCEPT !.at = "add", !.out = pass.out \ these]
  BY <1>1
<1> HIDE DEF these
<1>4. BagToSet(rows') = BagToSet(rows) \cup these
  BY <1>3 DEF (+), SetToBag, BagToSet
<1>5. \A x \in BagToSet(rows') : rows'[x] \in Nat \ {0}
  BY <1>3 DEF (+), SetToBag, BagToSet, ReadingOK
<1>6. pass' \in Pass
  BY <1>3, PassFields DEF ReadingOK, Pass
<1> QED
  BY <1>2, <1>4, <1>5, <1>6 DEF ReadingOK

LEMMA PassStepsTyped == ASSUME TypeOK, NEW p \in Proc, PassStarts(p) \/ PassSteps(p) PROVE TypeOK'
<1> USE DEF TypeOK
<1>1. CASE PassStarts(p)
  <2>1. [NoPass EXCEPT !.at = "look", !.by = p, !.left = Transcript, !.cursor = cursor, !.runs = logged] \in Pass
    BY NoPassTyped DEF Pass, ReadingOK, GivenOK
  <2>2. count' \in [msg: Nat, change: Nat, op: Nat, kill: Nat]
    BY <1>1, StartTyped DEF PassStarts
  <2> QED
    BY <1>1, <2>1, <2>2, PartsStay DEF PassStarts, ReadingOK, GivenOK, given
<1>2. CASE Looks(p)
  BY <1>2, LooksTyped, PartsStay DEF Looks, ReadingOK
<1>3. CASE Reads(p)
  BY <1>3, ReadsTyped, PartsStay DEF Reads, ReadingOK
<1>4. CASE CountsLine(p)
  BY <1>4, CountsLineTyped, PartsStay DEF CountsLine, ReadingOK
<1>5. CASE AddsRows(p)
  BY <1>5, AddsRowsTyped, PartsStay DEF AddsRows, ReadingOK
<1>6. CASE SavesCursor(p)
  <2>1. ReadingOK'
    BY <1>6, PassFields, NoPassTyped DEF SavesCursor, ReadingOK
  <2>2. [NoEnforce EXCEPT !.at = "ready"] \in Enforce
    BY NoEnforceTyped DEF Enforce
  <2>3. JudgingOK'
    BY <1>6, <2>2, NoEnforceTyped DEF SavesCursor, Ready, JudgingOK
  <2> QED
    BY <1>6, <2>1, <2>3, PartsStay DEF SavesCursor
<1> QED
  BY <1>1, <1>2, <1>3, <1>4, <1>5, <1>6 DEF PassSteps

LEMMA EnforceTyped ==
    ASSUME TypeOK, NEW p \in Proc, EnforceStarts(p) \/ EnforceSteps(p) \/ Collides(p)
    PROVE  TypeOK'
<1> USE DEF TypeOK
<1>0. enf[p] \in Enforce
  BY DEF JudgingOK
<1>1. CASE EnforceStarts(p)
  <2> DEFINE doc == [s \in Scope |-> IF Reached(s) THEN caps[s] ELSE 0]
             todo == {x \in Tasks : Due(x)}
             new == [at |-> "tell", todo |-> todo, month |-> month, before |-> json, doc |-> doc]
  <2>1. doc \in [Scope -> Nat]
    BY DEF GivenOK
  <2>2. todo \in SUBSET (Scope \X Kind)
    BY DEF Tasks, Scope, Kind
  <2> HIDE DEF doc, todo
  <2>3. new \in Enforce
    BY <2>1, <2>2 DEF Enforce, JudgingOK, GivenOK
  <2>4. enf' = [enf EXCEPT ![p] = new]
    BY <1>1 DEF EnforceStarts, doc, todo
  <2>5. count' \in [msg: Nat, change: Nat, op: Nat, kill: Nat]
    BY <1>1, StartTyped DEF EnforceStarts, GivenOK
  <2> HIDE DEF new
  <2>6. UNCHANGED <<reading, markers, told, json, plain, given, play>>
    BY <1>1 DEF EnforceStarts
  <2>7. JudgingOK'
    BY <2>3, <2>4, <2>6 DEF JudgingOK
  <2>8. GivenOK'
    BY <2>5, <2>6 DEF GivenOK, given
  <2> QED
    BY <2>6, <2>7, <2>8, PartsStay
<1>2. CASE Tells(p)
  <2>1. PICK task \in Tasks :
        /\ IsNext(task, p)
        /\ IF <<task[1], task[2], enf[p].month>> \in markers
           THEN enf' = [enf EXCEPT ![p].todo = @ \ {task}] /\ UNCHANGED told
           ELSE /\ enf' = [enf EXCEPT ![p].at = "mark"]
                /\ IF task[2] = "warned" /\ enf[p].doc[task[1]] # 0 THEN UNCHANGED told
                   ELSE Sends(task, enf[p].month)
    BY <1>2 DEF Tells
  <2>2. task[1] \in Scope /\ task[2] \in Kind
    BY DEF Tasks, Scope, Kind
  <2>3. enf' \in [Proc -> Enforce]
    <3>1. [enf[p] EXCEPT !.todo = @ \ {task}] \in Enforce /\ [enf[p] EXCEPT !.at = "mark"] \in Enforce
      BY <1>0 DEF Enforce
    <3> QED
      BY <2>1, <3>1 DEF JudgingOK
  <2>4. ASSUME Sends(task, enf[p].month) PROVE told' \in [Scope -> Seq([kind: Kind, month: Nat])]
    <3>1. [kind |-> task[2], month |-> enf[p].month] \in [kind: Kind, month: Nat]
      BY <1>0, <2>2 DEF Enforce
    <3>2. Append(told[task[1]], [kind |-> task[2], month |-> enf[p].month]) \in Seq([kind: Kind, month: Nat])
      BY <2>2, <3>1, AppendProperties DEF JudgingOK
    <3> QED
      BY <2>2, <2>4, <3>2 DEF Sends, JudgingOK
  <2>5. told' \in [Scope -> Seq([kind: Kind, month: Nat])]
    BY <2>1, <2>4 DEF JudgingOK
  <2> QED
    BY <1>2, <2>3, <2>5, PartsStay DEF Tells, JudgingOK
<1>3. CASE Marks(p)
  <2>1. PICK task \in Tasks :
        /\ markers' = markers \cup {<<task[1], task[2], enf[p].month>>}
        /\ enf' = [enf EXCEPT ![p].at = "tell", ![p].todo = @ \ {task}]
    BY <1>3 DEF Marks
  <2>2. <<task[1], task[2], enf[p].month>> \in Scope \X Kind \X Nat
    BY <1>0 DEF Tasks, Scope, Kind, Enforce
  <2>3. enf' = [enf EXCEPT ![p] = [enf[p] EXCEPT !.at = "tell", !.todo = enf[p].todo \ {task}]]
    BY <2>1, <1>0 DEF Enforce, JudgingOK
  <2>4. [enf[p] EXCEPT !.at = "tell", !.todo = enf[p].todo \ {task}] \in Enforce
    BY <1>0 DEF Enforce
  <2>5. UNCHANGED <<reading, told, json, plain, given, count, play>>
    BY <1>3 DEF Marks
  <2>6. markers' \subseteq Scope \X Kind \X Nat
    BY <2>1, <2>2 DEF JudgingOK
  <2>7. enf' \in [Proc -> Enforce]
    BY <2>3, <2>4 DEF JudgingOK
  <2>8. JudgingOK'
    BY <2>5, <2>6, <2>7 DEF JudgingOK
  <2> QED
    BY <2>5, <2>8, PartsStay
<1>4. CASE WritesJson(p)
  <2>1. [enf[p] EXCEPT !.at = "plain"] \in Enforce /\ enf[p].doc \in [Scope -> Nat]
    BY <1>0 DEF Enforce
  <2> QED
    BY <1>4, <2>1, PartsStay DEF WritesJson, JudgingOK
<1>5. CASE WritesPlain(p)
  <2>1. enf[p].doc \in [Scope -> Nat]
    BY <1>0 DEF Enforce
  <2>2. PlainOf(enf[p].doc) \in [scope: Scope \cup {"none"}, cap: Nat]
    BY <2>1 DEF PlainOf, Scope, NoPlain
  <2> QED
    BY <1>5, <2>2, NoEnforceTyped, PartsStay DEF WritesPlain, JudgingOK
<1>6. CASE Collides(p)
  BY <1>6, NoEnforceTyped, PartsStay DEF Collides, JudgingOK
<1> QED
  BY <1>1, <1>2, <1>3, <1>4, <1>5, <1>6 DEF EnforceSteps

LEMMA KilledTyped == ASSUME TypeOK, NEW p \in Proc, Killed(p) PROVE TypeOK'
<1> USE DEF TypeOK
<1>1. count' \in [msg: Nat, change: Nat, op: Nat, kill: Nat]
  BY CountsTyped DEF Killed
<1> QED
  BY <1>1, NoPassTyped, NoEnforceTyped DEF Killed, ReadingOK, JudgingOK, GivenOK, given

(* Every state is of its types, for all instances. *)
THEOREM TypeCorrect == Spec => []TypeOK
<1>1. TypeOK /\ [Next]_vars => TypeOK'
  <2> SUFFICES ASSUME TypeOK, [Next]_vars PROVE TypeOK'
    OBVIOUS
  <2>1. CASE Given
    BY <2>1, GivenTyped
  <2>2. ASSUME NEW p \in Proc, PassStarts(p) \/ PassSteps(p) PROVE TypeOK'
    BY <2>2, PassStepsTyped
  <2>3. ASSUME NEW p \in Proc, EnforceStarts(p) \/ EnforceSteps(p) \/ Collides(p) PROVE TypeOK'
    BY <2>3, EnforceTyped
  <2>4. ASSUME NEW p \in Proc, Killed(p) PROVE TypeOK'
    BY <2>4, KilledTyped
  <2>5. CASE UNCHANGED vars
    BY <2>5, PartsStay DEF vars, TypeOK
  <2> QED
    BY <2>1, <2>2, <2>3, <2>4, <2>5 DEF Next
<1> QED
  BY <1>1, InitTyped, PTL DEF Spec

-----------------------------------------------------------------------------
(* The rows are finitely many, so that their sums are numbers. *)

LEMMA SumsOfRows == ASSUME NEW S PROVE MapThenSumSet(LAMBDA r : rows[r], S) = SumOver(rows, S)
BY DEF MapThenSumSet, MapThenFoldSet, SumOver, Sums, SumStep, Pick

FiniteOK == IsFiniteSet(BagToSet(rows)) /\ IsFiniteSet(pass.out)

LEMMA FiniteStep == ASSUME TypeOK, FiniteOK, [Next]_vars PROVE FiniteOK'
<1>1. CASE UNCHANGED <<rows, pass>>
  BY <1>1 DEF FiniteOK
<1>2. ASSUME UNCHANGED rows, pass'.out = pass.out \/ pass'.out = {} PROVE FiniteOK'
  BY <1>2, FS_EmptySet DEF FiniteOK
<1>3. ASSUME NEW p \in Proc, PassStarts(p) PROVE FiniteOK'
  BY <1>2, <1>3 DEF PassStarts, NoPass
<1>4. ASSUME NEW p \in Proc, Looks(p) PROVE FiniteOK'
  <2>1. pass \in Pass
    BY DEF TypeOK, ReadingOK
  <2>2. pass'.out = pass.out /\ UNCHANGED rows
    BY <1>4, <2>1 DEF Looks, Pass
  <2> QED
    BY <1>2, <2>2
<1>5. ASSUME NEW p \in Proc, Reads(p) PROVE FiniteOK'
  <2>1. pass'.out = pass.out /\ UNCHANGED rows
    BY <1>5 DEF Reads, TypeOK, ReadingOK, Pass
  <2> QED
    BY <1>2, <2>1
<1>6. ASSUME NEW p \in Proc, CountsLine(p) PROVE FiniteOK'
  <2>1. UNCHANGED rows /\ (pass'.out = pass.out \/ \E row : pass'.out = pass.out \cup {row})
    BY <1>6 DEF CountsLine, TypeOK, ReadingOK, Pass
  <2> QED
    BY <2>1, FS_AddElement DEF FiniteOK
<1>7. ASSUME NEW p \in Proc, AddsRows(p) PROVE FiniteOK'
  <2>1. PICK r \in pass.out :
          LET these == {x \in pass.out : x.month = r.month}
          IN  /\ rows' = rows (+) SetToBag(these)
              /\ pass' = [pass EXCEPT !.at = "add", !.out = @ \ these]
    BY <1>7 DEF AddsRows
  <2> DEFINE these == {x \in pass.out : x.month = r.month}
  <2>2. rows' = rows (+) SetToBag(these) /\ pass'.out = pass.out \ these /\ these \in SUBSET pass.out
    BY <2>1 DEF TypeOK, ReadingOK, Pass
  <2> HIDE DEF these
  <2>3. BagToSet(rows') = BagToSet(rows) \cup these
    BY <2>2 DEF (+), SetToBag, BagToSet
  <2>4. IsFiniteSet(these) /\ IsFiniteSet(pass.out \ these)
    BY <2>2, FS_Subset DEF FiniteOK
  <2>5. IsFiniteSet(BagToSet(rows) \cup these)
    BY <2>4, FS_Union DEF FiniteOK
  <2>6. IsFiniteSet(BagToSet(rows')) /\ IsFiniteSet(pass'.out)
    BY <2>2, <2>3, <2>4, <2>5
  <2> QED
    BY <2>6 DEF FiniteOK
<1>8. ASSUME NEW p \in Proc, SavesCursor(p) PROVE FiniteOK'
  BY <1>2, <1>8 DEF SavesCursor, NoPass
<1>9. ASSUME NEW p \in Proc, Killed(p) PROVE FiniteOK'
  <2>1. UNCHANGED rows /\ (pass' = pass \/ pass' = NoPass)
    BY <1>9 DEF Killed
  <2> QED
    BY <1>2, <2>1 DEF NoPass
<1>10. CASE Given \/ UNCHANGED vars \/ \E p \in Proc : EnforceStarts(p) \/ EnforceSteps(p) \/ Collides(p)
  <2>1. UNCHANGED <<rows, pass>>
    BY <1>10 DEF Given, Speaks, SpeaksOn, EndsLine, Redone, JobStarts, JobEnds, OwnerSetsCap, PeerSpends,
           NextMonth, EnforceStarts, EnforceSteps, Tells, Marks, WritesJson, WritesPlain, Collides, reading, vars
  <2> QED
    BY <1>1, <2>1
<1> QED
  BY <1>3, <1>4, <1>5, <1>6, <1>7, <1>8, <1>9, <1>10 DEF Next, PassSteps

LEMMA FiniteInit == Init => FiniteOK
BY FS_EmptySet DEF Init, FiniteOK, NoPass, EmptyBag, SetToBag, BagToSet

LEMMA AlwaysFinite == Spec => []FiniteOK
<1>1. TypeOK /\ FiniteOK /\ [Next]_vars => FiniteOK'
  BY FiniteStep
<1> QED
  BY <1>1, FiniteInit, TypeCorrect, PTL DEF Spec

LEMMA SpentTyped ==
    ASSUME TypeOK, FiniteOK, NEW s \in Scope
    PROVE  Spent(s) \in Nat
<1> DEFINE counted == {r \in BagToSet(rows) : r.month = month /\ (s = "job" => r.job)}
           own == Price * MapThenSumSet(LAMBDA r : rows[r], counted)
<1>1. IsFiniteSet(counted) /\ \A r \in counted : rows[r] \in Nat
  <2>1. counted \in SUBSET BagToSet(rows)
    OBVIOUS
  <2>2. IsFiniteSet(counted)
    BY <2>1, FS_Subset DEF FiniteOK
  <2> QED
    BY <2>1, <2>2 DEF TypeOK, ReadingOK
<1>2. SumOver(rows, counted) \in Nat
  BY <1>1, SumIsNat
<1>3. own = Price * SumOver(rows, counted)
  BY SumsOfRows
<1>4. own \in Nat
  BY <1>2, <1>3
<1>5. peer.spent \in Nat
  BY DEF TypeOK, GivenOK
<1>6. Spent(s) = IF s = "cluster" /\ peer.month = month THEN own + peer.spent ELSE own
  BY DEF Spent
<1> HIDE DEF own
<1> QED
  BY <1>4, <1>5, <1>6

-----------------------------------------------------------------------------
(* Nothing lost. A row is never dropped, a line never changes while its    *)
(* transcript is the same file, and what a pass has gone past is in the    *)
(* files or in the rows that it is about to add.                           *)

HasRow(id) == \E r \in BagToSet(rows) : r.id = id

Holding(id) == HasRow(id) \/ \E r \in pass.out : r.id = id

\* What is known of the first lines of a file that is the one there is.
Upto(t, ino, n) == ino = text[t].ino => \A i \in 1 .. n : i <= Whole(t) /\ HasRow(Lines(t)[i].id)

HeldUpto(t, ino, n) == ino = text[t].ino => \A i \in 1 .. n : i <= Whole(t) /\ Holding(Lines(t)[i].id)

SavedOK ==
    \A t \in Transcript :
        /\ cursor[t].ino <= text[t].ino
        /\ \A i \in DOMAIN cursor[t].seen : HasRow(cursor[t].seen[i])
        /\ Upto(t, cursor[t].ino, cursor[t].off)

PassOK ==
    \A t \in Transcript :
        /\ pass.cursor[t].ino <= text[t].ino
        /\ \A i \in DOMAIN pass.cursor[t].seen : Holding(pass.cursor[t].seen[i])
        /\ HeldUpto(t, pass.cursor[t].ino, pass.cursor[t].off)

FileOK ==
    pass.at \in {"read", "line"} =>
        /\ pass.ino <= text[pass.t].ino
        /\ \A i \in DOMAIN pass.seen : Holding(pass.seen[i])

ReadOK == pass.at = "read" => HeldUpto(pass.t, pass.ino, pass.from)

LineOK ==
    (pass.at = "line" /\ pass.ino = text[pass.t].ino) =>
        \A i \in 1 .. pass.upto :
            /\ i <= Whole(pass.t)
            /\ \/ Holding(Lines(pass.t)[i].id)
               \/ \E k \in DOMAIN pass.data : pass.data[k].id = Lines(pass.t)[i].id

KeepInv == "shrink" \notin play.may => SavedOK /\ PassOK /\ FileOK /\ ReadOK /\ LineOK

LEMMA InitKeeps == Init => KeepInv
<1> SUFFICES ASSUME Init PROVE KeepInv
  OBVIOUS
<1>1. \A t \in Transcript : /\ NoPass.cursor[t] = [ino |-> 0, off |-> 0, seen |-> <<>>]
                            /\ text[t] = [ino |-> 1, lines |-> <<>>, whole |-> TRUE]
  BY DEF Init, NoPass
<1>2. cursor = NoPass.cursor /\ pass.cursor = NoPass.cursor /\ pass.at = "idle"
  BY DEF Init, NoPass
<1>3. SavedOK
  BY <1>1, <1>2 DEF SavedOK, Upto
<1>4. PassOK
  BY <1>1, <1>2 DEF PassOK, HeldUpto
<1> QED
  BY <1>2, <1>3, <1>4 DEF KeepInv, FileOK, ReadOK, LineOK

(* What the sessions do to a file, unless they cut it short. *)
Grows(t) ==
    /\ text'[t].ino >= text[t].ino
    /\ text'[t].ino = text[t].ino =>
        /\ Whole(t)' >= Whole(t)
        /\ \A i \in 1 .. Whole(t) : Lines(t)'[i] = Lines(t)[i]

LEMMA GivenGrows ==
    ASSUME TypeOK, Given, "shrink" \notin play.may
    PROVE  \A t \in Transcript : Grows(t)
<1> SUFFICES ASSUME NEW t \in Transcript PROVE Grows(t)
  OBVIOUS
<1>0. ReadingOK /\ text[t].ino \in Nat
  BY LinesOf DEF TypeOK, Text
<1>1. ASSUME UNCHANGED text[t] PROVE Grows(t)
  BY <1>0, <1>1, LinesOf DEF Grows, Whole, Lines
<1>2. ASSUME NEW line \in Line, NEW whole \in BOOLEAN, Writes(t, line, whole), text[t].whole
      PROVE  Grows(t)
  <2>1. text'[t] = Holds(text[t].ino, Append(text[t].lines, line), whole)
    BY <1>0, <1>2 DEF Writes, ReadingOK
  <2>2. Lines(t)' = Append(Lines(t), line) /\ text'[t].ino = text[t].ino
    BY <2>1 DEF Lines, Holds
  <2>3. Len(Lines(t)') = Len(Lines(t)) + 1 /\ \A i \in 1 .. Len(Lines(t)) : Lines(t)'[i] = Lines(t)[i]
    BY <1>0, <2>2, LinesOf, AppendProperties
  <2>4. Whole(t) = Len(Lines(t)) /\ Len(Lines(t)) \in Nat
    BY <1>0, <1>2, LinesOf DEF Whole
  <2>5. Whole(t)' \in {Len(Lines(t)'), Len(Lines(t)') - 1}
    BY DEF Whole
  <2> QED
    BY <1>0, <2>2, <2>3, <2>4, <2>5 DEF Grows
<1>3. CASE Speaks
  <2>1. PICK u \in Transcript, whole \in BOOLEAN :
            Open(u) /\ Writes(u, [id |-> count.msg + 1, month |-> month], whole)
    BY <1>3 DEF Speaks
  <2>2. [id |-> count.msg + 1, month |-> month] \in Line
    BY DEF Line, GivenOK, TypeOK
  <2>3. u # t => UNCHANGED text[t]
    BY <1>0, <2>1 DEF Writes, ReadingOK
  <2> QED
    BY <1>1, <1>2, <2>1, <2>2, <2>3 DEF Open
<1>4. CASE SpeaksOn
  <2>1. PICK u \in Transcript : Open(u) /\ Lines(u) # <<>> /\ Writes(u, Lines(u)[Len(Lines(u))], TRUE)
    BY <1>4 DEF SpeaksOn
  <2>2. Lines(u)[Len(Lines(u))] \in Line
    BY <1>0, <2>1, LinesOf, EmptySeq, ElementOfSeq
  <2>3. u # t => UNCHANGED text[t]
    BY <1>0, <2>1 DEF Writes, ReadingOK
  <2> QED
    BY <1>1, <1>2, <2>1, <2>2, <2>3 DEF Open
<1>5. CASE EndsLine
  <2>1. PICK u \in Transcript : text' = [text EXCEPT ![u] = Holds(text[u].ino, text[u].lines, TRUE)]
    BY <1>5 DEF EndsLine
  <2>2. CASE u # t
    BY <1>0, <1>1, <2>1, <2>2 DEF ReadingOK
  <2>3. CASE u = t
    <3>1. text'[t].ino = text[t].ino /\ Lines(t)' = Lines(t) /\ Whole(t)' = Len(Lines(t))
      BY <1>0, <2>1, <2>3 DEF ReadingOK, Holds, Lines, Whole
    <3> QED
      BY <1>0, <3>1, LinesOf DEF Grows
  <2> QED
    BY <2>2, <2>3
<1>6. CASE Redone
  <2>1. PICK u \in Transcript : \E n \in 0 .. Whole(u) :
            text' = [text EXCEPT ![u] = Holds(text[u].ino + 1, SubSeq(text[u].lines, 1, n), TRUE)]
    BY <1>6 DEF Redone, May
  <2>2. PICK n \in 0 .. Whole(u) :
            text' = [text EXCEPT ![u] = Holds(text[u].ino + 1, SubSeq(text[u].lines, 1, n), TRUE)]
    BY <2>1
  <2>3. CASE u # t
    BY <1>0, <1>1, <2>2, <2>3 DEF ReadingOK
  <2>4. CASE u = t
    <3>1. text'[t].ino = text[t].ino + 1
      BY <1>0, <2>2, <2>4 DEF ReadingOK, Holds
    <3> QED
      BY <1>0, <3>1 DEF Grows
  <2> QED
    BY <2>3, <2>4
<1>7. CASE JobStarts \/ JobEnds \/ OwnerSetsCap \/ PeerSpends \/ NextMonth
  BY <1>1, <1>7 DEF JobStarts, JobEnds, OwnerSetsCap, PeerSpends, NextMonth, reading
<1> QED
  BY <1>3, <1>4, <1>5, <1>6, <1>7 DEF Given

(* A file that is still the one there is still has what it had. *)
LEMMA StillThere ==
    ASSUME ReadingOK, ReadingOK', NEW t \in Transcript, Grows(t),
           NEW ino \in Nat, ino <= text[t].ino
    PROVE  /\ ino <= text'[t].ino
           /\ ino = text'[t].ino =>
                /\ ino = text[t].ino
                /\ \A i \in Nat \ {0} : i <= Whole(t) => i <= Whole(t)' /\ Lines(t)'[i] = Lines(t)[i]
<1>1. text[t].ino \in Nat /\ text'[t].ino \in Nat
  BY DEF ReadingOK, Text
<1>2. Whole(t) \in Int
  BY LinesOf
<1>3. Whole(t)' \in Int
  <2>1. text'[t].lines \in Seq(Line)
    BY DEF ReadingOK, Text
  <2> QED
    BY <2>1, LenProperties DEF Whole, Lines
<1>4. ino <= text'[t].ino /\ (ino = text'[t].ino => text'[t].ino = text[t].ino)
  BY <1>1 DEF Grows
<1> QED
  BY <1>1, <1>2, <1>3, <1>4 DEF Grows

LEMMA GivenKeeps ==
    ASSUME TypeOK, KeepInv, Given, "shrink" \notin play.may
    PROVE  SavedOK' /\ PassOK' /\ FileOK' /\ ReadOK' /\ LineOK'
<1>1. SavedOK /\ PassOK /\ FileOK /\ ReadOK /\ LineOK
  BY DEF KeepInv
<1>2. UNCHANGED <<cursor, rows, pass>>
  BY DEF Given, Speaks, SpeaksOn, EndsLine, Redone, JobStarts, JobEnds, OwnerSetsCap, PeerSpends, NextMonth, reading
<1>3. \A id : (HasRow(id)' <=> HasRow(id)) /\ (Holding(id)' <=> Holding(id))
  BY <1>2 DEF HasRow, Holding, BagToSet
<1>4. \A t \in Transcript : Grows(t)
  BY GivenGrows
<1>5. ReadingOK /\ ReadingOK'
  BY GivenTyped DEF TypeOK
<1>6. \A t \in Transcript : cursor[t] \in Mark /\ pass.cursor[t] \in Mark
  BY <1>5, PassFields DEF ReadingOK
<1>7. SavedOK'
  <2> SUFFICES ASSUME NEW t \in Transcript
      PROVE  /\ cursor[t].ino <= text'[t].ino
             /\ \A i \in DOMAIN cursor[t].seen : HasRow(cursor[t].seen[i])
             /\ cursor[t].ino = text'[t].ino =>
                  \A i \in 1 .. cursor[t].off : i <= Whole(t)' /\ HasRow(Lines(t)'[i].id)
    BY <1>2, <1>3 DEF SavedOK, Upto
  <2>1. cursor[t].ino \in Nat /\ cursor[t].off \in Nat /\ cursor[t].ino <= text[t].ino
    BY <1>1, <1>6 DEF SavedOK, Mark
  <2> QED
    BY <1>1, <1>4, <1>5, <2>1, StillThere DEF SavedOK, Upto
<1>8. PassOK'
  <2> SUFFICES ASSUME NEW t \in Transcript
      PROVE  /\ pass.cursor[t].ino <= text'[t].ino
             /\ \A i \in DOMAIN pass.cursor[t].seen : Holding(pass.cursor[t].seen[i])
             /\ pass.cursor[t].ino = text'[t].ino =>
                  \A i \in 1 .. pass.cursor[t].off : i <= Whole(t)' /\ Holding(Lines(t)'[i].id)
    BY <1>2, <1>3 DEF PassOK, HeldUpto
  <2>1. pass.cursor[t].ino \in Nat /\ pass.cursor[t].off \in Nat /\ pass.cursor[t].ino <= text[t].ino
    BY <1>1, <1>6 DEF PassOK, Mark
  <2> QED
    BY <1>1, <1>4, <1>5, <2>1, StillThere DEF PassOK, HeldUpto
<1>9. pass.t \in Transcript /\ pass.ino \in Nat /\ pass.from \in Nat /\ pass.upto \in Nat
  BY <1>5, PassFields
<1>10. CASE pass.at \in {"read", "line"}
  <2>1. /\ pass.ino <= text'[pass.t].ino
        /\ pass.ino = text'[pass.t].ino =>
             /\ pass.ino = text[pass.t].ino
             /\ \A i \in Nat \ {0} :
                    i <= Whole(pass.t) => i <= Whole(pass.t)' /\ Lines(pass.t)'[i] = Lines(pass.t)[i]
    <3>1. pass.ino <= text[pass.t].ino /\ Grows(pass.t)
      BY <1>1, <1>4, <1>9, <1>10 DEF FileOK
    <3> HIDE DEF Grows
    <3>2. \A t \in Transcript : pass.ino <= text[t].ino =>
            /\ pass.ino <= text'[t].ino
            /\ pass.ino = text'[t].ino =>
                 /\ pass.ino = text[t].ino
                 /\ \A i \in Nat \ {0} : i <= Whole(t) => i <= Whole(t)' /\ Lines(t)'[i] = Lines(t)[i]
      BY <1>4, <1>5, <1>9, StillThere
    <3>3. Whole(pass.t)' = (IF text'[pass.t].whole THEN Len(text'[pass.t].lines) ELSE Len(text'[pass.t].lines) - 1)
      BY <1>2 DEF Whole, Lines
    <3> QED
      BY <1>2, <1>9, <3>1, <3>2 DEF Whole, Lines
  <2>2. FileOK'
    BY <1>1, <1>2, <1>3, <1>10, <2>1 DEF FileOK
  <2>3. ReadOK'
    <3> SUFFICES ASSUME pass.at = "read", pass.ino = text'[pass.t].ino, NEW i \in 1 .. pass.from
        PROVE  i <= Whole(pass.t)' /\ Holding(Lines(pass.t)'[i].id)
      BY <1>2, <1>3 DEF ReadOK, HeldUpto, Whole, Lines
    <3>1. i <= Whole(pass.t) /\ Holding(Lines(pass.t)[i].id)
      BY <1>1, <2>1 DEF ReadOK, HeldUpto
    <3> QED
      BY <1>9, <2>1, <3>1
  <2>4. LineOK'
    <3> SUFFICES ASSUME pass.at = "line", pass.ino = text'[pass.t].ino, NEW i \in 1 .. pass.upto
        PROVE  /\ i <= Whole(pass.t)'
               /\ \/ Holding(Lines(pass.t)'[i].id)
                  \/ \E k \in DOMAIN pass.data : pass.data[k].id = Lines(pass.t)'[i].id
      BY <1>2, <1>3 DEF LineOK, Whole, Lines
    <3>1. /\ i <= Whole(pass.t)
          /\ \/ Holding(Lines(pass.t)[i].id)
             \/ \E k \in DOMAIN pass.data : pass.data[k].id = Lines(pass.t)[i].id
      BY <1>1, <2>1 DEF LineOK
    <3> QED
      BY <1>9, <2>1, <3>1
  <2> QED
    BY <1>7, <1>8, <2>2, <2>3, <2>4
<1>11. CASE pass.at \notin {"read", "line"}
  BY <1>2, <1>7, <1>8, <1>11 DEF FileOK, ReadOK, LineOK
<1> QED
  BY <1>10, <1>11

(* A step that leaves the files, and after which what was held is held. *)
LEMMA SavedStays ==
    ASSUME SavedOK, UNCHANGED <<text, cursor>>, \A id : HasRow(id) => HasRow(id)'
    PROVE  SavedOK'
BY DEF SavedOK, Upto, Whole, Lines

LEMMA PassStays ==
    ASSUME PassOK, UNCHANGED text, pass'.cursor = pass.cursor, \A id : Holding(id) => Holding(id)'
    PROVE  PassOK'
BY DEF PassOK, HeldUpto, Whole, Lines

(* The steps of a pass that leave the months' files and the cursor. *)
LEMMA SameRows ==
    ASSUME UNCHANGED rows, pass.out \subseteq pass'.out
    PROVE  \A id : (HasRow(id) <=> HasRow(id)') /\ (Holding(id) => Holding(id)')
BY DEF HasRow, Holding

(* A pass that has got somewhere with a transcript notes it. *)
LEMMA PassNotes ==
    ASSUME ReadingOK, PassOK, UNCHANGED <<text, rows>>, pass'.out = pass.out,
           NEW t \in Transcript, NEW ino \in Nat, NEW off \in Nat, NEW seen \in Seq(Nat),
           ino <= text[t].ino, HeldUpto(t, ino, off), \A i \in DOMAIN seen : Holding(seen[i]),
           pass'.cursor = [pass.cursor EXCEPT ![t] = MarkAt(ino, off, seen)]
    PROVE  PassOK'
<1>1. \A id : Holding(id) <=> Holding(id)'
  BY DEF Holding, HasRow
<1> DEFINE mark == MarkAt(ino, off, seen)
<1>2. mark.ino = ino /\ mark.off = off /\ \A i \in DOMAIN mark.seen : Holding(mark.seen[i])
  BY LastOf DEF MarkAt
<1>3. \A u \in Transcript : pass'.cursor[u] = IF u = t THEN mark ELSE pass.cursor[u]
  BY PassFields
<1> HIDE DEF mark
<1> SUFFICES ASSUME NEW u \in Transcript
    PROVE  /\ pass'.cursor[u].ino <= text'[u].ino
           /\ \A i \in DOMAIN pass'.cursor[u].seen : Holding(pass'.cursor[u].seen[i])
           /\ HeldUpto(u, pass'.cursor[u].ino, pass'.cursor[u].off)
  BY <1>1 DEF PassOK, HeldUpto, Whole, Lines
<1> QED
  BY <1>2, <1>3 DEF PassOK

LEMMA StartKeeps ==
    ASSUME TypeOK, KeepInv, "shrink" \notin play.may, NEW p \in Proc, PassStarts(p)
    PROVE  SavedOK' /\ PassOK' /\ FileOK' /\ ReadOK' /\ LineOK'
<1>1. SavedOK /\ UNCHANGED <<text, cursor, rows>>
  BY DEF KeepInv, PassStarts
<1>2. pass'.cursor = cursor /\ pass'.at = "look"
  BY DEF PassStarts, NoPass
<1>3. SavedOK'
  BY <1>1, SavedStays DEF HasRow
<1>4. PassOK'
  BY <1>2, <1>3 DEF SavedOK, PassOK, Upto, HeldUpto, Holding, PassStarts
<1> QED
  BY <1>2, <1>3, <1>4 DEF FileOK, ReadOK, LineOK

LEMMA LooksKeeps ==
    ASSUME TypeOK, KeepInv, "shrink" \notin play.may, NEW p \in Proc, Looks(p)
    PROVE  SavedOK' /\ PassOK' /\ FileOK' /\ ReadOK' /\ LineOK'
<1>0. ReadingOK /\ SavedOK /\ PassOK /\ UNCHANGED <<text, cursor, rows>>
  BY DEF TypeOK, KeepInv, Looks
<1>1. PICK t \in pass.left :
        LET m == StartsOver(t, pass.cursor[t])
            now == [pass EXCEPT !.left = @ \ {t}]
        IN  pass' = IF Size(t) = 2 * m.off
                    THEN [now EXCEPT !.cursor[t] = MarkAt(text[t].ino, m.off, m.seen)]
                    ELSE [now EXCEPT !.at = "read", !.t = t, !.ino = text[t].ino, !.from = m.off, !.seen = m.seen]
  BY DEF Looks
<1> DEFINE m == StartsOver(t, pass.cursor[t])
           mark == MarkAt(text[t].ino, m.off, m.seen)
           now == [pass EXCEPT !.left = pass.left \ {t}]
<1>2. /\ t \in Transcript /\ pass.cursor[t] \in Mark /\ text[t].ino \in Nat
      /\ m.off \in Nat /\ m.seen = pass.cursor[t].seen /\ m.seen \in Seq(Nat)
  <2>1. t \in Transcript /\ pass.cursor[t] \in Mark
    BY <1>0, PassFields
  <2>2. text[t].ino \in Nat
    BY <1>0, <2>1 DEF ReadingOK, Text
  <2>3. m \in Mark /\ m.seen = pass.cursor[t].seen
    BY <1>0, <2>1, StartsOverTyped
  <2> HIDE DEF m
  <2> QED
    BY <2>1, <2>2, <2>3 DEF Mark
<1>3. HeldUpto(t, text[t].ino, m.off) /\ \A i \in DOMAIN m.seen : Holding(m.seen[i])
  <2>1. m.off = 0 \/ (m.off = pass.cursor[t].off /\ pass.cursor[t].ino = text[t].ino)
    BY <1>2, StartsOverTyped
  <2> QED
    BY <1>0, <1>2, <2>1 DEF PassOK, HeldUpto
<1>4. /\ now \in Pass /\ now.cursor = pass.cursor /\ now.out = pass.out /\ now.at = pass.at
      /\ \/ pass' = [now EXCEPT !.cursor = [now.cursor EXCEPT ![t] = mark]]
         \/ pass' = [now EXCEPT !.at = "read", !.t = t, !.ino = text[t].ino, !.from = m.off, !.seen = m.seen]
  <2>1. now \in Pass /\ now.cursor = pass.cursor /\ now.out = pass.out /\ now.at = pass.at
    BY <1>0 DEF ReadingOK, Pass
  <2> QED
    BY <1>1, <2>1
<1>5. pass.at = "look"
  BY DEF Looks
<1> HIDE DEF m, now
<1>6. CASE pass' = [now EXCEPT !.cursor = [now.cursor EXCEPT ![t] = mark]]
  <2>1. pass'.cursor = [pass.cursor EXCEPT ![t] = mark] /\ pass'.out = pass.out /\ pass'.at = "look"
    BY <1>4, <1>5, <1>6 DEF Pass
  <2>2. SavedOK'
    BY <1>0, <2>1, SameRows, SavedStays
  <2>3. PassOK'
    BY <1>0, <1>2, <1>3, <2>1, PassNotes
  <2> QED
    BY <2>1, <2>2, <2>3 DEF FileOK, ReadOK, LineOK
<1>7. CASE pass' = [now EXCEPT !.at = "read", !.t = t, !.ino = text[t].ino, !.from = m.off, !.seen = m.seen]
  <2>1. /\ pass'.cursor = pass.cursor /\ pass'.out = pass.out /\ pass'.at = "read" /\ pass'.t = t
        /\ pass'.ino = text[t].ino /\ pass'.from = m.off /\ pass'.seen = m.seen
    BY <1>4, <1>7 DEF Pass
  <2>2. \A id : (HasRow(id) <=> HasRow(id)') /\ (Holding(id) => Holding(id)')
    BY <1>0, <2>1, SameRows
  <2>3. SavedOK' /\ PassOK'
    BY <1>0, <2>1, <2>2, SavedStays, PassStays
  <2>4. FileOK' /\ ReadOK'
    BY <1>0, <1>2, <1>3, <2>1, <2>2 DEF FileOK, ReadOK, HeldUpto, Whole, Lines
  <2> QED
    BY <2>1, <2>3, <2>4 DEF LineOK
<1> QED
  BY <1>4, <1>6, <1>7

LEMMA ReadsKeeps ==
    ASSUME TypeOK, KeepInv, "shrink" \notin play.may, NEW p \in Proc, Reads(p)
    PROVE  SavedOK' /\ PassOK' /\ FileOK' /\ ReadOK' /\ LineOK'
<1>0. ReadingOK /\ SavedOK /\ PassOK /\ FileOK /\ ReadOK /\ UNCHANGED <<text, cursor, rows>> /\ pass.at = "read"
  BY DEF TypeOK, KeepInv, Reads
<1> DEFINE data == SubSeq(Lines(pass.t), pass.from + 1, Whole(pass.t))
<1>1. /\ pass'.cursor = pass.cursor /\ pass'.out = pass.out /\ pass'.at = "line" /\ pass'.t = pass.t
      /\ pass'.ino = pass.ino /\ pass'.seen = pass.seen /\ pass'.data = data /\ pass'.upto = pass.from + Len(data)
  BY <1>0 DEF Reads, ReadingOK, Pass
<1>2. \A id : (HasRow(id) <=> HasRow(id)') /\ (Holding(id) => Holding(id)')
  BY <1>0, <1>1, SameRows
<1>3. SavedOK' /\ PassOK'
  BY <1>0, <1>1, <1>2, SavedStays, PassStays
<1>4. FileOK' /\ ReadOK'
  BY <1>0, <1>1, <1>2 DEF FileOK, ReadOK
<1>5. pass.t \in Transcript /\ pass.from \in Nat /\ Whole(pass.t) \in Int /\ Whole(pass.t) <= Len(Lines(pass.t))
  BY <1>0, PassFields, LinesOf
<1>6. /\ pass.from < Whole(pass.t) =>
            /\ Len(data) = Whole(pass.t) - pass.from /\ DOMAIN data = 1 .. Len(data)
            /\ \A k \in 1 .. Len(data) : data[k] = Lines(pass.t)[pass.from + k]
      /\ ~(pass.from < Whole(pass.t)) => Len(data) = 0
  <2>1. Lines(pass.t) \in Seq(Line) /\ Len(Lines(pass.t)) \in Nat
    BY <1>0, <1>5, LinesOf
  <2>2. CASE pass.from < Whole(pass.t)
    <3> DEFINE a == pass.from + 1
               s == Lines(pass.t)
               n == Whole(pass.t)
    <3>1. a \in Nat \ {0} /\ n \in 0 .. Len(s) /\ a <= n /\ s \in Seq(Line)
      BY <1>5, <2>1, <2>2
    <3>2. \A i \in a .. n : s[i] \in Line
      BY <3>1, ElementOfSeq
    <3>3. n - a + 1 = Whole(pass.t) - pass.from /\ \A k \in 1 .. n - a + 1 : a + k - 1 = pass.from + k
      BY <1>5
    <3> HIDE DEF a, s, n
    <3>4. /\ SubSeq(s, a, n) \in Seq(Line) /\ Len(SubSeq(s, a, n)) = n - a + 1
          /\ \A k \in 1 .. n - a + 1 : SubSeq(s, a, n)[k] = s[a + k - 1]
      BY <3>1, <3>2, SubSeqProperties
    <3> QED
      BY <2>2, <3>3, <3>4, LenProperties DEF a, s, n
  <2>3. CASE ~(pass.from < Whole(pass.t))
    BY <1>5, <2>1, <2>3, SubSeqEmpty, EmptySeq
  <2> QED
    BY <2>2, <2>3
<1> HIDE DEF data
<1>7. LineOK'
  <2> SUFFICES ASSUME pass.ino = text[pass.t].ino, NEW i \in 1 .. pass.from + Len(data)
      PROVE  /\ i <= Whole(pass.t)
             /\ Holding(Lines(pass.t)[i].id) \/ \E k \in DOMAIN data : data[k].id = Lines(pass.t)[i].id
    BY <1>0, <1>1, <1>2 DEF LineOK, Whole, Lines
  <2>1. CASE i <= pass.from
    BY <1>0, <1>5, <2>1 DEF ReadOK, HeldUpto
  <2>2. CASE ~(i <= pass.from)
    <3>1. pass.from < Whole(pass.t)
      BY <1>5, <1>6, <2>2
    <3>2. i - pass.from \in 1 .. Len(data) /\ pass.from + (i - pass.from) = i /\ i <= Whole(pass.t)
      BY <1>5, <1>6, <2>2, <3>1
    <3>3. data[i - pass.from] = Lines(pass.t)[i] /\ i - pass.from \in DOMAIN data
      BY <1>6, <3>1, <3>2
    <3> QED
      BY <3>2, <3>3
  <2> QED
    BY <2>1, <2>2
<1> QED
  BY <1>3, <1>4, <1>7

LEMMA CountsLineKeeps ==
    ASSUME TypeOK, KeepInv, "shrink" \notin play.may, NEW p \in Proc, CountsLine(p)
    PROVE  SavedOK' /\ PassOK' /\ FileOK' /\ ReadOK' /\ LineOK'
<1>0. /\ ReadingOK /\ SavedOK /\ PassOK /\ FileOK /\ LineOK
      /\ UNCHANGED <<text, cursor, rows>> /\ pass.at = "line"
  BY DEF TypeOK, KeepInv, CountsLine
<1>1. pass.t \in Transcript /\ pass.ino \in Nat /\ pass.upto \in Nat /\ pass.seen \in Seq(Nat)
  BY <1>0, PassFields
<1>2. CASE pass.data = <<>>
  <2> DEFINE mark == MarkAt(pass.ino, pass.upto, pass.seen)
  <2>1. pass' = [pass EXCEPT !.at = "look", !.cursor = [pass.cursor EXCEPT ![pass.t] = mark]]
    BY <1>2 DEF CountsLine
  <2> HIDE DEF mark
  <2>2. pass'.at = "look" /\ pass'.out = pass.out /\ pass'.cursor = [pass.cursor EXCEPT ![pass.t] = mark]
    BY <1>0, <2>1 DEF ReadingOK, Pass
  <2>3. HeldUpto(pass.t, pass.ino, pass.upto) /\ \A i \in DOMAIN pass.seen : Holding(pass.seen[i])
    BY <1>0, <1>1, <1>2 DEF LineOK, FileOK, HeldUpto
  <2>4. PassOK'
    BY <1>0, <1>1, <2>2, <2>3, PassNotes DEF FileOK, mark
  <2>5. SavedOK'
    BY <1>0, <2>2, SameRows, SavedStays
  <2> QED
    BY <2>2, <2>4, <2>5 DEF FileOK, ReadOK, LineOK
<1>3. CASE pass.data # <<>>
  <2>0. PICK line : line = Head(pass.data)
    OBVIOUS
  <2> DEFINE row == [id |-> line.id, month |-> line.month, job |-> pass.t \in pass.runs]
             rest == [pass EXCEPT !.data = Tail(pass.data)]
  <2>1. /\ Tail(pass.data) \in Seq(Line) /\ line \in Line
        /\ Len(Tail(pass.data)) = Len(pass.data) - 1 /\ Len(pass.data) \in Nat \ {0}
        /\ \A k \in 1 .. Len(Tail(pass.data)) : Tail(pass.data)[k] = pass.data[k + 1]
        /\ line = pass.data[1]
    BY <1>0, <1>3, <2>0, PassFields, HeadTailProperties, EmptySeq, LenProperties
  <2>2. /\ rest.cursor = pass.cursor /\ rest.out = pass.out /\ rest.at = "line" /\ rest.t = pass.t
        /\ rest.ino = pass.ino /\ rest.upto = pass.upto /\ rest.seen = pass.seen /\ rest.data = Tail(pass.data)
        /\ rest \in Pass
    BY <1>0, <2>1 DEF ReadingOK, Pass
  <2>3. IF Has(pass.seen, line.id) THEN pass' = rest
        ELSE pass' = [rest EXCEPT !.seen = Append(rest.seen, line.id), !.out = rest.out \cup {row}]
    BY <1>3, <2>0 DEF CountsLine
  <2>4. row.id = line.id /\ line.id \in Nat
    BY <2>1 DEF Line
  <2> HIDE DEF row, rest
  <2>5. /\ pass'.cursor = pass.cursor /\ pass.out \subseteq pass'.out /\ pass'.at = "line" /\ pass'.t = pass.t
        /\ pass'.ino = pass.ino /\ pass'.upto = pass.upto /\ pass'.data = Tail(pass.data)
        /\ IF Has(pass.seen, line.id) THEN pass'.seen = pass.seen
           ELSE pass'.seen = Append(pass.seen, line.id) /\ row \in pass'.out
    <3>1. CASE Has(pass.seen, line.id)
      BY <2>2, <2>3, <3>1
    <3>2. CASE ~Has(pass.seen, line.id)
      <4> DEFINE seen == Append(rest.seen, line.id)
                 out == rest.out \cup {row}
      <4>1. pass' = [rest EXCEPT !.seen = seen, !.out = out]
        BY <2>3, <3>2
      <4>2. pass.out \subseteq out /\ row \in out /\ seen = Append(pass.seen, line.id)
        BY <2>2
      <4> HIDE DEF seen, out
      <4>3. /\ pass'.cursor = rest.cursor /\ pass'.out = out /\ pass'.at = rest.at /\ pass'.t = rest.t
            /\ pass'.ino = rest.ino /\ pass'.upto = rest.upto /\ pass'.data = rest.data /\ pass'.seen = seen
        BY <2>2, <4>1 DEF Pass
      <4> QED
        BY <2>2, <3>2, <4>2, <4>3
    <3> QED
      BY <3>1, <3>2
  <2>6. \A id : (HasRow(id) <=> HasRow(id)') /\ (Holding(id) => Holding(id)')
    BY <1>0, <2>5, SameRows
  <2>7. SavedOK' /\ PassOK'
    BY <1>0, <2>5, <2>6, SavedStays, PassStays
  <2>8. Holding(line.id)'
    <3>1. CASE Has(pass.seen, line.id)
      BY <1>0, <2>6, <3>1 DEF Has, FileOK
    <3>2. CASE ~Has(pass.seen, line.id)
      BY <2>4, <2>5, <3>2 DEF Holding
    <3> QED
      BY <3>1, <3>2
  <2>9. \A i, x : i \in DOMAIN pass'.seen /\ x = pass'.seen[i] => Holding(x)'
    <3>0. \A i, x : i \in DOMAIN pass.seen /\ x = pass.seen[i] => Holding(x)'
      BY <1>0, <2>6 DEF FileOK
    <3>1. CASE Has(pass.seen, line.id)
      BY <2>5, <3>0, <3>1
    <3>2. CASE ~Has(pass.seen, line.id)
      <4>1. /\ DOMAIN Append(pass.seen, line.id) = 1 .. Len(pass.seen) + 1 /\ DOMAIN pass.seen = 1 .. Len(pass.seen)
            /\ \A i \in 1 .. Len(pass.seen) : Append(pass.seen, line.id)[i] = pass.seen[i]
            /\ Append(pass.seen, line.id)[Len(pass.seen) + 1] = line.id
        BY <1>1, <2>4, AppendProperties, LenProperties
      <4>2. Len(pass.seen) \in Nat
        BY <1>1, LenProperties
      <4>3. \A i \in DOMAIN pass'.seen :
                pass'.seen[i] = line.id \/ (i \in DOMAIN pass.seen /\ pass'.seen[i] = pass.seen[i])
        BY <2>5, <3>2, <4>1, <4>2
      <4> QED
        BY <2>8, <3>0, <4>3
    <3> QED
      BY <3>1, <3>2
  <2>10. FileOK' /\ ReadOK'
    <3>1. pass'.ino <= text'[pass'.t].ino
      BY <1>0, <2>5 DEF FileOK
    <3>2. (\A i \in DOMAIN pass.seen : Holding(pass.seen[i]))'
      BY <2>9
    <3> QED
      BY <2>5, <3>1, <3>2 DEF FileOK, ReadOK
  <2>11. LineOK'
    <3>1. ASSUME pass.ino = text[pass.t].ino, NEW i \in 1 .. pass.upto, NEW x, x = Lines(pass.t)[i].id
          PROVE  /\ i <= Whole(pass.t)
                 /\ Holding(x)' \/ \E k \in DOMAIN Tail(pass.data) : Tail(pass.data)[k].id = x
      <4>1. i <= Whole(pass.t) /\ (Holding(x) \/ \E k \in DOMAIN pass.data : pass.data[k].id = x)
        BY <1>0, <3>1 DEF LineOK
      <4>2. ASSUME NEW k \in DOMAIN pass.data, pass.data[k].id = x
            PROVE  Holding(x)' \/ \E j \in DOMAIN Tail(pass.data) : Tail(pass.data)[j].id = x
        <5>1. DOMAIN pass.data = 1 .. Len(pass.data) /\ DOMAIN Tail(pass.data) = 1 .. Len(Tail(pass.data))
          BY <1>0, <2>1, PassFields, LenProperties
        <5>2. CASE k = 1
          BY <2>1, <2>8, <4>2, <5>2
        <5>3. CASE k # 1
          <6>1. k - 1 \in DOMAIN Tail(pass.data) /\ Tail(pass.data)[k - 1] = pass.data[k]
            BY <2>1, <5>1, <5>3
          <6> QED
            BY <4>2, <6>1
        <5> QED
          BY <5>2, <5>3
      <4> QED
        BY <2>6, <4>1, <4>2
    <3>2. \A i \in Nat : Lines(pass.t)'[i] = Lines(pass.t)[i] /\ Whole(pass.t)' = Whole(pass.t)
      BY <1>0, <2>5 DEF Lines, Whole
    <3>3. (\A i \in 1 .. pass.upto : \A x : pass.ino = text[pass.t].ino /\ x = Lines(pass.t)[i].id =>
             /\ i <= Whole(pass.t)
             /\ Holding(x) \/ \E k \in DOMAIN pass.data : pass.data[k].id = x)'
      <4> SUFFICES ASSUME NEW i \in 1 .. pass'.upto, NEW x, pass'.ino = text'[pass'.t].ino, x = Lines(pass.t)'[i].id
          PROVE  /\ i <= Whole(pass.t)'
                 /\ Holding(x)' \/ \E k \in DOMAIN pass'.data : pass'.data[k].id = x
        OBVIOUS
      <4>1. i \in 1 .. pass.upto /\ i \in Nat /\ pass.ino = text[pass.t].ino /\ pass'.data = Tail(pass.data)
        BY <1>0, <1>1, <2>5
      <4>2. x = Lines(pass.t)[i].id /\ Whole(pass.t)' = Whole(pass.t)
        BY <3>2, <4>1
      <4>3. /\ i <= Whole(pass.t)
            /\ Holding(x)' \/ \E k \in DOMAIN Tail(pass.data) : Tail(pass.data)[k].id = x
        BY <3>1, <4>1, <4>2
      <4> QED
        BY <4>1, <4>2, <4>3
    <3> QED
      BY <3>3 DEF LineOK
  <2> QED
    BY <2>7, <2>10, <2>11
<1> QED
  BY <1>2, <1>3

LEMMA AddsRowsKeeps ==
    ASSUME TypeOK, KeepInv, "shrink" \notin play.may, NEW p \in Proc, AddsRows(p)
    PROVE  SavedOK' /\ PassOK' /\ FileOK' /\ ReadOK' /\ LineOK'
<1>0. ReadingOK /\ SavedOK /\ PassOK /\ UNCHANGED <<text, cursor>>
  BY DEF TypeOK, KeepInv, AddsRows
<1>1. PICK r \in pass.out :
        LET these == {x \in pass.out : x.month = r.month}
        IN  /\ rows' = rows (+) SetToBag(these)
            /\ pass' = [pass EXCEPT !.at = "add", !.out = @ \ these]
  BY DEF AddsRows
<1> DEFINE these == {x \in pass.out : x.month = r.month}
<1>2. rows' = rows (+) SetToBag(these) /\ pass' = [pass EXCEPT !.at = "add", !.out = pass.out \ these]
  BY <1>1
<1> HIDE DEF these
<1>3. BagToSet(rows') = BagToSet(rows) \cup these
  BY <1>2 DEF (+), SetToBag, BagToSet
<1>4. pass'.at = "add" /\ pass'.cursor = pass.cursor /\ pass'.out = pass.out \ these
  BY <1>0, <1>2 DEF ReadingOK, Pass
<1>5. \A id : (HasRow(id) => HasRow(id)') /\ (Holding(id) => Holding(id)')
  BY <1>3, <1>4 DEF HasRow, Holding
<1>6. SavedOK' /\ PassOK'
  BY <1>0, <1>4, <1>5, SavedStays, PassStays
<1> QED
  BY <1>4, <1>6 DEF FileOK, ReadOK, LineOK

(* An idle pass knows nothing. *)
LEMMA IdleOK ==
    ASSUME ReadingOK, pass' = NoPass, UNCHANGED text
    PROVE  PassOK' /\ FileOK' /\ ReadOK' /\ LineOK'
<1>1. \A t \in Transcript : pass'.cursor[t] = [ino |-> 0, off |-> 0, seen |-> <<>>]
  BY DEF NoPass
<1>2. pass'.at = "idle"
  BY DEF NoPass
<1>3. \A t \in Transcript : text'[t].ino \in Nat
  BY DEF ReadingOK, Text
<1>4. PassOK'
  BY <1>1, <1>3 DEF PassOK, HeldUpto
<1> QED
  BY <1>2, <1>4 DEF FileOK, ReadOK, LineOK

LEMMA SavesCursorKeeps ==
    ASSUME TypeOK, KeepInv, "shrink" \notin play.may, NEW p \in Proc, SavesCursor(p)
    PROVE  SavedOK' /\ PassOK' /\ FileOK' /\ ReadOK' /\ LineOK'
<1>0. /\ ReadingOK /\ PassOK /\ UNCHANGED <<text, rows>>
      /\ pass.out = {} /\ cursor' = pass.cursor /\ pass' = NoPass
  BY DEF TypeOK, KeepInv, SavesCursor
<1>1. \A id : (Holding(id) <=> HasRow(id)) /\ (HasRow(id)' <=> HasRow(id))
  BY <1>0 DEF Holding, HasRow
<1>2. SavedOK'
  BY <1>0, <1>1 DEF SavedOK, PassOK, Upto, HeldUpto, Whole, Lines
<1> QED
  BY <1>0, <1>2, IdleOK

LEMMA Others ==
    ASSUME KeepInv, "shrink" \notin play.may, UNCHANGED reading
    PROVE  SavedOK' /\ PassOK' /\ FileOK' /\ ReadOK' /\ LineOK'
<1>1. SavedOK /\ PassOK /\ FileOK /\ ReadOK /\ LineOK
  BY DEF KeepInv
<1>2. \A id : (HasRow(id)' <=> HasRow(id)) /\ (Holding(id)' <=> Holding(id))
  BY DEF HasRow, Holding, reading
<1>3. UNCHANGED <<text, cursor, rows, pass>>
  BY DEF reading
<1> QED
  BY <1>1, <1>2, <1>3 DEF SavedOK, PassOK, FileOK, ReadOK, LineOK, Upto, HeldUpto, Whole, Lines

LEMMA KilledKeeps ==
    ASSUME TypeOK, KeepInv, "shrink" \notin play.may, NEW p \in Proc, Killed(p)
    PROVE  SavedOK' /\ PassOK' /\ FileOK' /\ ReadOK' /\ LineOK'
<1>1. CASE pass' = pass
  BY <1>1, Others DEF Killed, reading
<1>2. CASE pass' = NoPass
  <2>1. SavedOK'
    BY SavedStays DEF KeepInv, Killed, HasRow
  <2> QED
    BY <1>2, <2>1, IdleOK DEF TypeOK, Killed
<1> QED
  BY <1>1, <1>2 DEF Killed

LEMMA AlwaysKept == Spec => []KeepInv
<1>1. TypeOK /\ KeepInv /\ [Next]_vars => KeepInv'
  <2> SUFFICES ASSUME TypeOK, KeepInv, [Next]_vars PROVE KeepInv'
    OBVIOUS
  <2>0. play' = play
    BY DEF Next, vars, Given, Speaks, SpeaksOn, EndsLine, Redone, JobStarts, JobEnds, OwnerSetsCap, PeerSpends,
           NextMonth, PassStarts, PassSteps, Looks, Reads, CountsLine, AddsRows, SavesCursor, EnforceStarts,
           EnforceSteps, Tells, Marks, WritesJson, WritesPlain, Collides, Killed
  <2> SUFFICES ASSUME "shrink" \notin play.may
      PROVE  SavedOK' /\ PassOK' /\ FileOK' /\ ReadOK' /\ LineOK'
    BY <2>0 DEF KeepInv
  <2>1. CASE Given
    BY <2>1, GivenKeeps
  <2>2. ASSUME NEW p \in Proc, PassStarts(p) \/ PassSteps(p)
        PROVE  SavedOK' /\ PassOK' /\ FileOK' /\ ReadOK' /\ LineOK'
    BY <2>2, StartKeeps, LooksKeeps, ReadsKeeps, CountsLineKeeps, AddsRowsKeeps, SavesCursorKeeps DEF PassSteps
  <2>3. ASSUME NEW p \in Proc, EnforceStarts(p) \/ EnforceSteps(p) \/ Collides(p)
        PROVE  SavedOK' /\ PassOK' /\ FileOK' /\ ReadOK' /\ LineOK'
    <3>1. UNCHANGED reading
      BY <2>3 DEF EnforceStarts, EnforceSteps, Tells, Marks, WritesJson, WritesPlain, Collides
    <3> QED
      BY <3>1, Others
  <2>4. ASSUME NEW p \in Proc, Killed(p) PROVE SavedOK' /\ PassOK' /\ FileOK' /\ ReadOK' /\ LineOK'
    BY <2>4, KilledKeeps
  <2>5. CASE UNCHANGED vars
    BY <2>5, Others DEF vars, reading
  <2> QED
    BY <2>1, <2>2, <2>3, <2>4, <2>5 DEF Next
<1> QED
  BY <1>1, InitKeeps, TypeCorrect, PTL DEF Spec

(* What the cursor has gone past is in the files, for all instances and    *)
(* without a bound, where no transcript is cut short in place.             *)
THEOREM NothingLostCorrect == Spec => []NothingLost
<1>1. TypeOK /\ KeepInv => NothingLost
  BY DEF TypeOK, ReadingOK, Mark, KeepInv, SavedOK, Upto, HasRow, NothingLost
<1> QED
  BY <1>1, TypeCorrect, AlwaysKept, PTL

-----------------------------------------------------------------------------
(* Told once. One process enforces at a time; what it has told is marked,  *)
(* or the next thing it does is to mark it; and once it has told that a    *)
(* cap is reached, that it is near is marked, or will be without a word.   *)

HeardAlone ==
    /\ \A p, q \in Enforcing : p = q
    /\ pass.at # "idle" => enf[pass.by].at = "idle"

HeardTasks ==
    \A p \in Enforcing :
        /\ enf[p].todo \subseteq Tasks /\ (enf[p].at = "plain" => enf[p].todo = {})
        /\ \A s \in Scope : <<s, "paused">> \in enf[p].todo =>
               enf[p].doc[s] # 0 /\ (s = "job" \/ <<s, "warned">> \in enf[p].todo)

Marking(task, m) ==
    \/ <<task[1], task[2], m>> \in markers
    \/ \E p \in Proc : enf[p].at = "mark" /\ enf[p].month = m /\ IsNext(task, p)

\* No word will be lost about a cap that is near.
Past(s, m) ==
    \/ s = "job"
    \/ <<s, "warned", m>> \in markers
    \/ \E p \in Enforcing : enf[p].month = m /\ enf[p].doc[s] # 0 /\ <<s, "warned">> \in enf[p].todo

HeardMarked ==
    \A s \in Scope : \A i \in DOMAIN told[s] :
        /\ Marking(<<s, told[s][i].kind>>, told[s][i].month)
        /\ told[s][i].kind = "paused" => Past(s, told[s][i].month)

HeardOrder ==
    \A s \in Scope : \A i, j \in DOMAIN told[s] :
        (i < j /\ told[s][i].month = told[s][j].month) =>
            told[s][i].kind = "warned" /\ told[s][j].kind = "paused"

Quiet == count.kill = 0 /\ "beside" \notin play.may

HeardInv == Quiet => HeardAlone /\ HeardTasks /\ HeardMarked /\ HeardOrder

HeardParts == HeardAlone /\ HeardTasks /\ HeardMarked /\ HeardOrder

LEMMA HeardInit == Init => HeardInv
<1> SUFFICES ASSUME Init PROVE HeardInv
  OBVIOUS
<1>1. Enforcing = {} /\ pass.at = "idle" /\ \A s \in Scope : told[s] = <<>>
  BY DEF Init, Enforcing, NoEnforce, NoPass
<1>2. \A s \in Scope : DOMAIN told[s] = {}
  BY <1>1
<1> QED
  BY <1>1, <1>2 DEF HeardInv, HeardAlone, HeardTasks, HeardMarked, HeardOrder

(* The tasks have an order: one of them is the next. *)
LEMMA OneIsNext ==
    ASSUME NEW p \in Proc, NEW a \in Tasks, NEW b \in Tasks, IsNext(a, p), IsNext(b, p)
    PROVE  a = b
<1>1. Place(a) <= Place(b) /\ Place(b) <= Place(a)
  BY DEF IsNext
<1>2. \A x \in Tasks : x \in {<<"box", "paused">>, <<"box", "warned">>, <<"cluster", "paused">>,
                              <<"cluster", "warned">>, <<"job", "paused">>}
  BY DEF Tasks, Kind
<1>3. /\ Place(<<"box", "paused">>) = 1 /\ Place(<<"box", "warned">>) = 2
      /\ Place(<<"cluster", "paused">>) = 3 /\ Place(<<"cluster", "warned">>) = 4
      /\ Place(<<"job", "paused">>) = 5
  BY DEF Place
<1>4. \A x \in Tasks : Place(x) \in 1 .. 5
  BY <1>2, <1>3
<1>5. Place(a) = Place(b)
  BY <1>1, <1>4
<1> QED
  BY <1>2, <1>3, <1>5

(* That a cap is reached is told before that it is near. *)
LEMMA PausedFirst ==
    ASSUME NEW p \in Proc, NEW s \in Scope, enf[p].todo \subseteq Tasks, <<s, "paused">> \in enf[p].todo
    PROVE  ~IsNext(<<s, "warned">>, p)
<1> SUFFICES ASSUME IsNext(<<s, "warned">>, p) PROVE FALSE
  OBVIOUS
<1>1. Place(<<s, "warned">>) <= Place(<<s, "paused">>) /\ <<s, "warned">> \in Tasks
  BY DEF IsNext
<1>2. s \in {"box", "cluster"}
  BY <1>1 DEF Tasks
<1>3. /\ Place(<<"box", "paused">>) = 1 /\ Place(<<"box", "warned">>) = 2
      /\ Place(<<"cluster", "paused">>) = 3 /\ Place(<<"cluster", "warned">>) = 4
  BY DEF Place
<1> QED
  BY <1>1, <1>2, <1>3

(* Steps that leave who enforces as they are. *)
LEMMA HeardStays ==
    ASSUME HeardParts, UNCHANGED <<markers, told>>, Enforcing' = Enforcing,
           \A q \in Enforcing : enf'[q] = enf[q]
    PROVE  /\ \A p, q \in Enforcing' : p = q
           /\ HeardTasks' /\ HeardMarked' /\ HeardOrder'
<1>1. \A q \in Proc : enf'[q].at = "mark" <=> enf[q].at = "mark"
  BY DEF Enforcing
<1>2. \A q \in Proc : enf[q].at = "mark" => enf'[q] = enf[q]
  BY DEF Enforcing
<1>3. HeardTasks'
  BY DEF HeardParts, HeardTasks
<1>4. ASSUME NEW s, NEW k, NEW m, Marking(<<s, k>>, m) PROVE Marking(<<s, k>>, m)'
  BY <1>1, <1>2, <1>4 DEF Marking, IsNext
<1>5. ASSUME NEW s, NEW m, Past(s, m) PROVE Past(s, m)'
  BY <1>5 DEF Past
<1>6. HeardMarked'
  BY <1>4, <1>5 DEF HeardParts, HeardMarked
<1>7. HeardOrder'
  BY DEF HeardParts, HeardOrder
<1> QED
  BY <1>3, <1>6, <1>7 DEF HeardParts, HeardAlone

LEMMA HeardReads ==
    ASSUME TypeOK, HeardParts, NEW p \in Proc, PassStarts(p) \/ PassSteps(p)
    PROVE  HeardParts'
<1>0. UNCHANGED <<markers, told>>
  BY DEF PassStarts, PassSteps, Looks, Reads, CountsLine, AddsRows, SavesCursor, judging
<1>1. CASE PassStarts(p)
  <2>1. UNCHANGED enf /\ enf[p].at = "idle" /\ pass'.by = p
    BY <1>1 DEF PassStarts, MayStart, judging, NoPass
  <2>2. Enforcing' = Enforcing
    BY <2>1 DEF Enforcing
  <2> QED
    BY <1>0, <2>1, <2>2, HeardStays DEF HeardParts, HeardAlone
<1>2. CASE Looks(p) \/ Reads(p) \/ CountsLine(p) \/ AddsRows(p)
  <2>1. UNCHANGED enf /\ pass.at # "idle" /\ pass.by = p
    BY <1>2 DEF Looks, Reads, CountsLine, AddsRows, judging
  <2>2. pass'.by = pass.by
    BY <1>2 DEF Looks, Reads, CountsLine, AddsRows, TypeOK, ReadingOK, Pass
  <2>3. Enforcing' = Enforcing
    BY <2>1 DEF Enforcing
  <2>4. (pass.at # "idle" => enf[pass.by].at = "idle")'
    BY <2>1, <2>2 DEF HeardParts, HeardAlone
  <2> QED
    BY <1>0, <2>1, <2>3, <2>4, HeardStays DEF HeardParts, HeardAlone
<1>3. CASE SavesCursor(p)
  <2>1. pass.at # "idle" /\ pass.by = p /\ pass'.at = "idle"
    BY <1>3 DEF SavesCursor, NoPass
  <2>2. enf[p].at = "idle"
    BY <2>1 DEF HeardParts, HeardAlone
  <2>3. enf \in [Proc -> Enforce]
    BY DEF TypeOK, JudgingOK
  <2>4. enf'[p].at \in {"idle", "ready"} /\ \A q \in Proc \ {p} : enf'[q] = enf[q]
    BY <1>3, <2>3 DEF SavesCursor, Ready, NoEnforce
  <2>5. Enforcing' = Enforcing /\ \A q \in Enforcing : enf'[q] = enf[q]
    BY <2>2, <2>4 DEF Enforcing
  <2> QED
    BY <1>0, <2>1, <2>5, HeardStays DEF HeardParts, HeardAlone
<1> QED
  BY <1>1, <1>2, <1>3 DEF PassSteps

LEMMA HeardGiven ==
    ASSUME HeardParts, Given \/ UNCHANGED vars
    PROVE  HeardParts'
<1>1. UNCHANGED <<markers, told, enf, pass>>
  BY DEF Given, Speaks, SpeaksOn, EndsLine, Redone, JobStarts, JobEnds, OwnerSetsCap, PeerSpends, NextMonth,
         judging, reading, vars
<1>2. Enforcing' = Enforcing
  BY <1>1 DEF Enforcing
<1> QED
  BY <1>1, <1>2, HeardStays DEF HeardParts, HeardAlone

LEMMA HeardStarts ==
    ASSUME TypeOK, FiniteOK, HeardParts, Quiet, NEW p \in Proc, EnforceStarts(p)
    PROVE  HeardParts'
<1> DEFINE new == [at |-> "tell", todo |-> {x \in Tasks : Due(x)}, month |-> month, before |-> json,
                   doc |-> [s \in Scope |-> IF Reached(s) THEN caps[s] ELSE 0]]
<1>1. /\ Enforcing = {} /\ enf' = [enf EXCEPT ![p] = new] /\ UNCHANGED <<markers, told, pass>>
      /\ enf[p].at = "ready" \/ (enf[p].at = "idle" /\ (pass.at # "idle" => pass.by # p))
  BY DEF EnforceStarts, MayStart, Quiet, reading
<1>2. enf \in [Proc -> Enforce]
  BY DEF TypeOK, JudgingOK
<1>3. enf'[p] = new /\ \A q \in Proc \ {p} : enf'[q] = enf[q]
  BY <1>1, <1>2
<1>4. Enforcing' = {p}
  BY <1>1, <1>3 DEF Enforcing
<1>5. HeardAlone'
  BY <1>1, <1>3, <1>4 DEF HeardParts, HeardAlone, TypeOK, ReadingOK, Pass
<1>6. ASSUME NEW s \in Scope, <<s, "paused">> \in new.todo
      PROVE  new.doc[s] # 0 /\ (s = "job" \/ <<s, "warned">> \in new.todo)
  <2>1. Reached(s)
    BY <1>6 DEF Due
  <2>2. Spent(s) \in Nat /\ caps[s] \in Nat
    BY SpentTyped DEF TypeOK, GivenOK
  <2>3. Near(s)
    BY <2>1, <2>2 DEF Reached, Near
  <2>4. s # "job" => <<s, "warned">> \in Tasks
    BY DEF Tasks, Scope, Kind
  <2>5. s # "job" => <<s, "warned">> \in new.todo
    BY <2>3, <2>4 DEF Due
  <2> QED
    BY <2>1, <2>5 DEF Reached
<1>7. HeardTasks'
  BY <1>3, <1>4, <1>6 DEF HeardTasks
<1>8. ASSUME NEW s, NEW k, NEW m, Marking(<<s, k>>, m) PROVE Marking(<<s, k>>, m)'
  BY <1>1, <1>8 DEF Marking, Enforcing
<1>9. ASSUME NEW s, NEW m, Past(s, m) PROVE Past(s, m)'
  BY <1>1, <1>9 DEF Past
<1>10. HeardMarked'
  BY <1>1, <1>8, <1>9 DEF HeardParts, HeardMarked
<1>11. HeardOrder'
  BY <1>1 DEF HeardParts, HeardOrder
<1> QED
  BY <1>5, <1>7, <1>10, <1>11 DEF HeardParts

(* Where the one that enforces goes on: it is one still, its tasks are as  *)
(* they were but for one that is marked or none.                           *)
LEMMA HeardGoesOn ==
    ASSUME TypeOK, HeardParts, NEW p \in Enforcing, UNCHANGED pass, markers \subseteq markers',
           NEW new, enf' = [enf EXCEPT ![p] = new], new.at \in {"tell", "mark", "plain"},
           new.month = enf[p].month, new.doc = enf[p].doc, new.at = "plain" => new.todo = {},
           \/ new.todo = enf[p].todo
           \/ \E task \in Tasks : /\ IsNext(task, p) /\ new.todo = enf[p].todo \ {task}
                                  /\ <<task[1], task[2], enf[p].month>> \in markers'
    PROVE  /\ HeardAlone' /\ HeardTasks' /\ Enforcing' = {p} /\ Enforcing = {p} /\ enf'[p] = new
           /\ \A s \in Scope : \A m : Past(s, m) => Past(s, m)'
<1>0. enf \in [Proc -> Enforce] /\ p \in Proc
  BY DEF TypeOK, JudgingOK, Enforcing
<1>1. Enforcing = {p}
  BY DEF HeardParts, HeardAlone
<1>2. enf'[p] = new /\ \A q \in Proc \ {p} : enf'[q] = enf[q]
  BY <1>0
<1>3. Enforcing' = {p}
  <2>1. \A q \in Proc : q \in Enforcing' <=> q = p
    BY <1>0, <1>1, <1>2 DEF Enforcing
  <2>2. \A q \in Enforcing' : q \in Proc
    BY DEF Enforcing
  <2> QED
    BY <1>0, <2>1, <2>2
<1>4. HeardAlone'
  <2>1. pass.by \in Proc
    BY DEF TypeOK, ReadingOK, Pass
  <2>2. pass.at # "idle" => pass.by # p
    BY DEF HeardParts, HeardAlone, Enforcing
  <2> QED
    BY <1>2, <1>3, <2>1, <2>2 DEF HeardParts, HeardAlone
<1>5. /\ enf[p].todo \subseteq Tasks
      /\ \A s \in Scope : <<s, "paused">> \in enf[p].todo =>
               enf[p].doc[s] # 0 /\ (s = "job" \/ <<s, "warned">> \in enf[p].todo)
  BY DEF HeardParts, HeardTasks
<1>6. ASSUME NEW s \in Scope, <<s, "paused">> \in new.todo
      PROVE  new.doc[s] # 0 /\ (s = "job" \/ <<s, "warned">> \in new.todo)
  <2>1. <<s, "paused">> \in enf[p].todo
    BY <1>6
  <2>2. ~IsNext(<<s, "warned">>, p)
    BY <1>0, <1>5, <2>1, PausedFirst
  <2> QED
    BY <1>5, <2>1, <2>2
<1>7. HeardTasks'
  <2>1. new.todo \subseteq Tasks
    BY <1>5
  <2> QED
    BY <1>2, <1>3, <1>6, <2>1 DEF HeardTasks
<1>8. ASSUME NEW s \in Scope, NEW m, Past(s, m) PROVE Past(s, m)'
  <2>1. CASE s = "job" \/ <<s, "warned", m>> \in markers
    BY <2>1 DEF Past
  <2>2. CASE enf[p].month = m /\ enf[p].doc[s] # 0 /\ <<s, "warned">> \in enf[p].todo
    <3>1. CASE <<s, "warned">> \in new.todo
      BY <1>2, <1>3, <2>2, <3>1 DEF Past
    <3>2. CASE <<s, "warned">> \notin new.todo
      <4>1. PICK task \in Tasks : task = <<s, "warned">> /\ <<task[1], task[2], m>> \in markers'
        BY <2>2, <3>2
      <4> QED
        BY <4>1 DEF Past
    <3> QED
      BY <3>1, <3>2
  <2> QED
    BY <1>1, <1>8, <2>1, <2>2 DEF Past
<1> QED
  BY <1>1, <1>2, <1>3, <1>4, <1>7, <1>8

LEMMA HeardTells ==
    ASSUME TypeOK, HeardParts, NEW p \in Proc, Tells(p)
    PROVE  HeardParts'
<1>0. enf \in [Proc -> Enforce] /\ enf[p] \in Enforce /\ p \in Enforcing /\ enf[p].at = "tell"
  BY DEF TypeOK, JudgingOK, Enforcing, Tells
<1>1. UNCHANGED <<markers, pass>>
  BY DEF Tells, reading
<1>2. PICK task \in Tasks :
        /\ IsNext(task, p)
        /\ IF <<task[1], task[2], enf[p].month>> \in markers
           THEN enf' = [enf EXCEPT ![p].todo = @ \ {task}] /\ UNCHANGED told
           ELSE /\ enf' = [enf EXCEPT ![p].at = "mark"]
                /\ IF task[2] = "warned" /\ enf[p].doc[task[1]] # 0 THEN UNCHANGED told
                   ELSE Sends(task, enf[p].month)
  BY DEF Tells
<1> DEFINE m == enf[p].month
<1>3. Enforcing = {p}
  BY <1>0 DEF HeardParts, HeardAlone
<1>4. \A s, k, n : Marking(<<s, k>>, n) => <<s, k, n>> \in markers
  BY <1>0, <1>3 DEF Marking, Enforcing
<1>5. \A s, k, n : Marking(<<s, k>>, n) => Marking(<<s, k>>, n)'
  BY <1>1, <1>4 DEF Marking
<1>6. CASE UNCHANGED told /\ HeardAlone' /\ HeardTasks' /\ \A s \in Scope : \A n : Past(s, n) => Past(s, n)'
  <2>1. HeardMarked'
    BY <1>5, <1>6 DEF HeardParts, HeardMarked
  <2> QED
    BY <1>6, <2>1 DEF HeardParts, HeardOrder
<1>7. CASE <<task[1], task[2], m>> \in markers
  <2> DEFINE new == [enf[p] EXCEPT !.todo = enf[p].todo \ {task}]
  <2>1. enf' = [enf EXCEPT ![p] = new] /\ UNCHANGED told
    BY <1>0, <1>2, <1>7
  <2>2. new.at = "tell" /\ new.month = enf[p].month /\ new.doc = enf[p].doc /\ new.todo = enf[p].todo \ {task}
    BY <1>0 DEF Enforce
  <2> HIDE DEF new
  <2>3. HeardAlone' /\ HeardTasks' /\ \A s \in Scope : \A n : Past(s, n) => Past(s, n)'
    BY <1>0, <1>1, <1>2, <1>7, <2>1, <2>2, HeardGoesOn
  <2> QED
    BY <1>6, <2>1, <2>3
<1>8. CASE <<task[1], task[2], m>> \notin markers
  <2> DEFINE new == [enf[p] EXCEPT !.at = "mark"]
  <2>1. enf' = [enf EXCEPT ![p] = new]
    BY <1>0, <1>2, <1>8
  <2>2. new.at = "mark" /\ new.month = enf[p].month /\ new.doc = enf[p].doc /\ new.todo = enf[p].todo
    BY <1>0 DEF Enforce
  <2> HIDE DEF new
  <2>3. /\ HeardAlone' /\ HeardTasks' /\ \A s \in Scope : \A n : Past(s, n) => Past(s, n)'
        /\ Enforcing' = {p} /\ enf'[p] = new
    BY <1>0, <1>1, <2>1, <2>2, HeardGoesOn
  <2>4. CASE UNCHANGED told
    BY <1>6, <2>3, <2>4
  <2>5. CASE Sends(task, m) /\ ~(task[2] = "warned" /\ enf[p].doc[task[1]] # 0)
    <3>1. PICK s \in Scope, k \in Kind : task = <<s, k>>
      BY DEF Tasks, Scope, Kind
    <3> DEFINE word == [kind |-> k, month |-> m]
    <3>2. told[s] \in Seq([kind: Kind, month: Nat]) /\ told \in [Scope -> Seq([kind: Kind, month: Nat])]
          /\ word \in [kind: Kind, month: Nat]
      BY <1>0 DEF TypeOK, JudgingOK, Enforce
    <3>3. told' = [told EXCEPT ![s] = Append(told[s], word)]
      BY <2>5, <3>1 DEF Sends
    <3>4. told'[s] = Append(told[s], word) /\ \A u \in Scope \ {s} : told'[u] = told[u]
      BY <3>2, <3>3
    <3>5. /\ Len(told[s]) \in Nat /\ DOMAIN told[s] = 1 .. Len(told[s])
          /\ DOMAIN told'[s] = 1 .. Len(told[s]) + 1 /\ told'[s][Len(told[s]) + 1] = word
          /\ \A i \in 1 .. Len(told[s]) : told'[s][i] = told[s][i]
      BY <3>2, <3>4, LenProperties, AppendProperties
    <3>6. word.kind = k /\ word.month = m
      OBVIOUS
    <3> HIDE DEF word
    <3>7. Marking(<<s, k>>, m)'
      <4>1. IsNext(task, p)'
        BY <1>2, <2>2, <2>3 DEF IsNext
      <4> QED
        BY <2>2, <2>3, <3>1, <4>1 DEF Marking
    <3>8. k = "paused" => Past(s, m)'
      <4> SUFFICES ASSUME k = "paused" PROVE Past(s, m)'
        OBVIOUS
      <4>1. <<s, "paused">> \in enf[p].todo
        BY <1>2, <3>1 DEF IsNext
      <4>2. enf[p].doc[s] # 0 /\ (s = "job" \/ <<s, "warned">> \in enf[p].todo)
        BY <1>0, <4>1 DEF HeardParts, HeardTasks
      <4> QED
        BY <2>2, <2>3, <4>2 DEF Past
    <3>9. HeardMarked'
      <4> SUFFICES ASSUME NEW u \in Scope, NEW i \in DOMAIN told'[u], NEW x, x = told'[u][i]
          PROVE  Marking(<<u, x.kind>>, x.month)' /\ (x.kind = "paused" => Past(u, x.month)')
        BY DEF HeardMarked
      <4>1. CASE u = s /\ i = Len(told[s]) + 1
        <5>1. x.kind = k /\ x.month = m /\ x.month = enf'[p].month
          BY <2>2, <2>3, <3>5, <3>6, <4>1
        <5> QED
          BY <3>7, <3>8, <4>1, <5>1
      <4>2. CASE ~(u = s /\ i = Len(told[s]) + 1)
        <5>1. i \in DOMAIN told[u] /\ x = told[u][i]
          BY <3>4, <3>5, <4>2
        <5>2. Marking(<<u, x.kind>>, x.month) /\ (x.kind = "paused" => Past(u, x.month))
          BY <5>1 DEF HeardParts, HeardMarked
        <5> QED
          BY <1>5, <2>3, <5>2
      <4> QED
        BY <4>1, <4>2
    <3>10. ASSUME NEW i \in DOMAIN told[s], told[s][i].month = m
           PROVE  told[s][i].kind = "warned" /\ k = "paused"
      <4>0. told[s][i] \in [kind: Kind, month: Nat]
        BY <3>2, <3>5, ElementOfSeq
      <4>1. Marking(<<s, told[s][i].kind>>, m) /\ told[s][i].kind \in Kind
        BY <3>10, <4>0 DEF HeardParts, HeardMarked
      <4>2. told[s][i].kind # k
        BY <1>4, <1>8, <3>1, <4>1
      <4>3. told[s][i].kind = "warned" \/ told[s][i].kind = "paused"
        BY <4>1 DEF Kind
      <4>4. ASSUME told[s][i].kind = "paused" PROVE FALSE
        <5>1. Past(s, m) /\ k = "warned"
          BY <3>10, <4>2, <4>4 DEF HeardParts, HeardMarked, Kind
        <5>2. s # "job"
          BY <3>1, <5>1 DEF Tasks
        <5>3. <<s, "warned", m>> \notin markers
          BY <1>8, <3>1, <5>1
        <5>4. enf[p].doc[s] # 0
          BY <1>3, <5>1, <5>2, <5>3 DEF Past
        <5> QED
          BY <2>5, <3>1, <5>1, <5>4
      <4> QED
        BY <4>2, <4>3, <4>4 DEF Kind
    <3>11. HeardOrder'
      <4> SUFFICES ASSUME NEW u \in Scope, NEW i \in DOMAIN told'[u], NEW j \in DOMAIN told'[u],
                          i < j, told'[u][i].month = told'[u][j].month
          PROVE  told'[u][i].kind = "warned" /\ told'[u][j].kind = "paused"
        BY DEF HeardOrder
      <4>1. CASE u = s /\ j = Len(told[s]) + 1
        <5>1. i \in DOMAIN told[s] /\ told'[s][i] = told[s][i]
          BY <3>5, <4>1
        <5> QED
          BY <3>5, <3>6, <3>10, <4>1, <5>1
      <4>2. CASE ~(u = s /\ j = Len(told[s]) + 1)
        <5>1. CASE u = s
          <6>1. i \in DOMAIN told[s] /\ j \in DOMAIN told[s] /\ told'[s][i] = told[s][i] /\ told'[s][j] = told[s][j]
            BY <3>5, <4>2, <5>1
          <6> QED
            BY <5>1, <6>1 DEF HeardParts, HeardOrder
        <5>2. CASE u # s
          BY <3>4, <5>2 DEF HeardParts, HeardOrder
        <5> QED
          BY <5>1, <5>2
      <4> QED
        BY <4>1, <4>2
    <3> QED
      BY <2>3, <3>9, <3>11 DEF HeardParts
  <2> QED
    BY <1>2, <1>8, <2>4, <2>5
<1> QED
  BY <1>7, <1>8

LEMMA HeardMarks ==
    ASSUME TypeOK, HeardParts, NEW p \in Proc, Marks(p)
    PROVE  HeardParts'
<1>0. enf \in [Proc -> Enforce] /\ enf[p] \in Enforce /\ p \in Enforcing /\ enf[p].at = "mark"
  BY DEF TypeOK, JudgingOK, Enforcing, Marks
<1>1. UNCHANGED <<told, pass>>
  BY DEF Marks, reading
<1>2. PICK task \in Tasks :
        /\ IsNext(task, p)
        /\ markers' = markers \cup {<<task[1], task[2], enf[p].month>>}
        /\ enf' = [enf EXCEPT ![p].at = "tell", ![p].todo = @ \ {task}]
  BY DEF Marks
<1> DEFINE new == [enf[p] EXCEPT !.at = "tell", !.todo = enf[p].todo \ {task}]
<1>3. enf' = [enf EXCEPT ![p] = new]
  BY <1>0, <1>2 DEF Enforce
<1>4. new.at = "tell" /\ new.month = enf[p].month /\ new.doc = enf[p].doc /\ new.todo = enf[p].todo \ {task}
  BY <1>0 DEF Enforce
<1> HIDE DEF new
<1>5. /\ HeardAlone' /\ HeardTasks' /\ \A s \in Scope : \A n : Past(s, n) => Past(s, n)'
      /\ Enforcing = {p}
  BY <1>0, <1>1, <1>2, <1>3, <1>4, HeardGoesOn
<1>6. ASSUME NEW s \in Scope, NEW k \in Kind, NEW n, Marking(<<s, k>>, n) PROVE Marking(<<s, k>>, n)'
  <2>1. CASE <<s, k, n>> \in markers
    BY <1>2, <2>1 DEF Marking
  <2>2. CASE <<s, k, n>> \notin markers
    <3>1. PICK q \in Proc : enf[q].at = "mark" /\ enf[q].month = n /\ IsNext(<<s, k>>, q)
      BY <1>6, <2>2 DEF Marking
    <3>2. q = p
      BY <1>5, <3>1 DEF Enforcing
    <3>3. <<s, k>> \in Tasks
      BY <1>0, <3>1, <3>2 DEF IsNext, HeardParts, HeardTasks
    <3>4. <<s, k>> = task
      BY <1>2, <3>1, <3>2, <3>3, OneIsNext
    <3>5. <<s, k, n>> \in markers'
      BY <1>2, <3>1, <3>2, <3>4
    <3> QED
      BY <3>5 DEF Marking
  <2> QED
    BY <2>1, <2>2
<1>7. ASSUME NEW s \in Scope, NEW i \in DOMAIN told[s] PROVE told[s][i].kind \in Kind
  <2>1. told[s] \in Seq([kind: Kind, month: Nat])
    BY DEF TypeOK, JudgingOK
  <2>2. told[s][i] \in [kind: Kind, month: Nat]
    BY <2>1, LenProperties, ElementOfSeq
  <2> QED
    BY <2>2
<1>8. HeardMarked'
  BY <1>1, <1>5, <1>6, <1>7 DEF HeardParts, HeardMarked
<1> QED
  BY <1>1, <1>5, <1>8 DEF HeardParts, HeardOrder

LEMMA HeardWrites ==
    ASSUME TypeOK, HeardParts, NEW p \in Proc, WritesJson(p) \/ WritesPlain(p)
    PROVE  HeardParts'
<1>0. enf \in [Proc -> Enforce] /\ enf[p] \in Enforce /\ p \in Enforcing /\ enf[p].at # "mark"
  BY DEF TypeOK, JudgingOK, Enforcing, WritesJson, WritesPlain
<1>1. UNCHANGED <<told, markers, pass>>
  BY DEF WritesJson, WritesPlain, reading
<1>2. Enforcing = {p}
  BY <1>0 DEF HeardParts, HeardAlone
<1>3. \A s, k, n : Marking(<<s, k>>, n) => Marking(<<s, k>>, n)'
  BY <1>0, <1>1, <1>2 DEF Marking, Enforcing
<1>4. CASE WritesJson(p)
  <2> DEFINE new == [enf[p] EXCEPT !.at = "plain"]
  <2>1. enf' = [enf EXCEPT ![p] = new] /\ enf[p].todo = {}
    BY <1>0, <1>4 DEF WritesJson
  <2>2. new.at = "plain" /\ new.month = enf[p].month /\ new.doc = enf[p].doc /\ new.todo = enf[p].todo
    BY <1>0 DEF Enforce
  <2> HIDE DEF new
  <2>3. HeardAlone' /\ HeardTasks' /\ \A s \in Scope : \A n : Past(s, n) => Past(s, n)'
    BY <1>0, <1>1, <2>1, <2>2, HeardGoesOn
  <2>4. HeardMarked'
    BY <1>1, <1>3, <2>3 DEF HeardParts, HeardMarked
  <2> QED
    BY <1>1, <2>3, <2>4 DEF HeardParts, HeardOrder
<1>5. CASE WritesPlain(p)
  <2>1. enf' = [enf EXCEPT ![p] = NoEnforce] /\ enf[p].at = "plain"
    BY <1>5 DEF WritesPlain
  <2>2. enf'[p].at = "idle" /\ \A q \in Proc \ {p} : enf'[q] = enf[q]
    BY <1>0, <2>1 DEF NoEnforce
  <2>3. Enforcing' = {}
    BY <1>2, <2>2 DEF Enforcing
  <2>4. enf[p].todo = {}
    BY <1>0, <2>1 DEF HeardParts, HeardTasks
  <2>5. \A s \in Scope : \A n : Past(s, n) => Past(s, n)'
    BY <1>1, <1>2, <2>4 DEF Past
  <2>6. HeardMarked'
    BY <1>1, <1>3, <2>5 DEF HeardParts, HeardMarked
  <2>7. HeardAlone' /\ HeardTasks'
    <3>1. pass.by \in Proc
      BY DEF TypeOK, ReadingOK, Pass
    <3> QED
      BY <1>1, <2>2, <2>3, <3>1 DEF HeardParts, HeardAlone, HeardTasks
  <2> QED
    BY <1>1, <2>6, <2>7 DEF HeardParts, HeardOrder
<1> QED
  BY <1>4, <1>5

(* The owner hears once that a cap is near and once that it is reached, in *)
(* this order, in a month, for all instances, where one enforces at a time *)
(* and none is killed.                                                     *)
THEOREM ToldOnceCorrect == Spec => []ToldOnce
<1>1. TypeOK /\ FiniteOK /\ HeardInv /\ [Next]_vars => HeardInv'
  <2> SUFFICES ASSUME TypeOK, FiniteOK, HeardInv, [Next]_vars, Quiet' PROVE HeardParts'
    BY DEF HeardInv, HeardParts
  <2>1. count.kill = 0 /\ play' = play /\ \A p \in Proc : ~Killed(p)
    <3>1. play' = play
      BY DEF Next, vars, Given, Speaks, SpeaksOn, EndsLine, Redone, JobStarts, JobEnds, OwnerSetsCap, PeerSpends,
           NextMonth, PassStarts, PassSteps, Looks, Reads, CountsLine, AddsRows, SavesCursor, EnforceStarts,
           EnforceSteps, Tells, Marks, WritesJson, WritesPlain, Collides, Killed
    <3>2. count \in [msg: Nat, change: Nat, op: Nat, kill: Nat] /\ count'.kill = 0
      BY DEF TypeOK, GivenOK, Quiet
    <3>3. \A p \in Proc : ~Killed(p)
      BY <3>2 DEF Killed, Counts
    <3>4. ASSUME UNCHANGED count \/ Counts("msg") \/ Counts("change") \/ Counts("op") PROVE count'.kill = count.kill
      BY <3>2, <3>4 DEF Counts
    <3>5. UNCHANGED count \/ Counts("msg") \/ Counts("change") \/ Counts("op")
      BY <3>3 DEF Next, vars, Given, Speaks, SpeaksOn, EndsLine, Redone, JobStarts, JobEnds, OwnerSetsCap, PeerSpends,
           NextMonth, PassStarts, PassSteps, Looks, Reads, CountsLine, AddsRows, SavesCursor, EnforceStarts,
           EnforceSteps, Tells, Marks, WritesJson, WritesPlain, Collides, May, MayStart
    <3> QED
      BY <3>1, <3>2, <3>3, <3>4, <3>5
  <2>2. Quiet /\ HeardParts
    BY <2>1 DEF Quiet, HeardInv, HeardParts
  <2>3. CASE Given \/ UNCHANGED vars
    BY <2>2, <2>3, HeardGiven
  <2>4. ASSUME NEW p \in Proc, PassStarts(p) \/ PassSteps(p) PROVE HeardParts'
    BY <2>2, <2>4, HeardReads
  <2>5. ASSUME NEW p \in Proc, EnforceStarts(p) PROVE HeardParts'
    BY <2>2, <2>5, HeardStarts
  <2>6. ASSUME NEW p \in Proc, EnforceSteps(p) PROVE HeardParts'
    BY <2>2, <2>6, HeardTells, HeardMarks, HeardWrites DEF EnforceSteps
  <2>7. ASSUME NEW p \in Proc PROVE ~Collides(p)
    BY <2>2 DEF Collides, HeardParts, HeardAlone, Enforcing
  <2> QED
    BY <2>1, <2>3, <2>4, <2>5, <2>6, <2>7 DEF Next
<1>2. HeardInv => ToldOnce
  BY DEF HeardInv, Quiet, HeardOrder, ToldOnce
<1> QED
  BY <1>1, <1>2, HeardInit, TypeCorrect, AlwaysFinite, PTL DEF Spec

-----------------------------------------------------------------------------
(* Counted once. A message is of one transcript, whose lines have the      *)
(* messages in their order; and what has been counted more often than      *)
(* there were kills is in the ring, or, where no file is replaced, in the  *)
(* file before a message that is.                                          *)

HasLine(lines, id) == \E i \in DOMAIN lines : lines[i].id = id

InFile(t) == pass.at \in {"read", "line"} /\ pass.t = t

From(t, id) ==
    \/ HasLine(Lines(t), id)
    \/ Has(cursor[t].seen, id)
    \/ Has(pass.cursor[t].seen, id)
    \/ InFile(t) /\ Has(pass.seen, id)
    \/ pass.at = "line" /\ pass.t = t /\ HasLine(pass.data, id)

OfOne ==
    \A t \in Transcript : \A id :
        From(t, id) => /\ id \in 1 .. count.msg
                       /\ \A u \in Transcript : From(u, id) => u = t

Ordered(lines) == \A i, j \in DOMAIN lines : i <= j => lines[i].id <= lines[j].id

InOrder == \A t \in Transcript : Ordered(Lines(t))

Distinct(s) == \A i, j \in DOMAIN s : s[i] = s[j] => i = j

AllDistinct ==
    /\ Distinct(pass.seen)
    /\ \A t \in Transcript : Distinct(cursor[t].seen) /\ Distinct(pass.cursor[t].seen)

Steady == {"redo", "shrink"} \cap play.may = {}

\* What has been seen in the first n lines of a file that only grows.
ReadUpTo(lines, n, seen) ==
    /\ \A i, j \in DOMAIN seen : i <= j => seen[i] <= seen[j]
    /\ \A j \in DOMAIN seen : HasLine(lines, seen[j])
    /\ \A i \in DOMAIN lines : i > n => \A j \in DOMAIN seen : seen[j] <= lines[i].id

Follows(file, m) == ReadUpTo(file.lines, m.off, m.seen) /\ (m.ino = file.ino \/ m.seen = <<>>)

InFileOK ==
    /\ pass.at = "read" => ReadUpTo(Lines(pass.t), pass.from, pass.seen) /\ pass.ino = text[pass.t].ino
    /\ pass.at = "line" =>
         /\ ReadUpTo(Lines(pass.t), pass.upto - Len(pass.data), pass.seen) /\ pass.ino = text[pass.t].ino
         /\ \A k \in DOMAIN pass.data :
                /\ pass.upto - Len(pass.data) + k \in DOMAIN Lines(pass.t)
                /\ Lines(pass.t)[pass.upto - Len(pass.data) + k] = pass.data[k]

SteadyOK == /\ \A t \in Transcript : Follows(text[t], cursor[t]) /\ Follows(text[t], pass.cursor[t])
            /\ InFileOK

SeenOf(t) == IF InFile(t) THEN pass.seen ELSE pass.cursor[t].seen

Passed(lines, seen, id) == HasLine(lines, id) /\ \E j \in DOMAIN seen : id <= seen[j]

Beyond(t, seen, id) == Has(seen, id) \/ (Steady /\ Passed(Lines(t), seen, id))

Met(id) == \E t \in Transcript : Beyond(t, SeenOf(t), id)

Saved(id) == \E t \in Transcript : Beyond(t, cursor[t].seen, id)

CountOK ==
    /\ \A id \in Nat : Counted(id) <= 1 + count.kill
    /\ \A id \in Nat : Counted(id) <= count.kill \/ (IF pass.at = "idle" THEN Saved(id) ELSE Met(id))
    /\ \A r \in pass.out : Counted(r.id) <= count.kill /\ Met(r.id)
    /\ \A r, q \in pass.out : r.id = q.id => r = q

Enough == count.msg <= Ring \/ Steady

CountInv == OfOne /\ InOrder /\ AllDistinct /\ (Steady => SteadyOK) /\ (Enough => CountOK)

-----------------------------------------------------------------------------
(* What the ring keeps. *)

LEMMA LastAt ==
    ASSUME NEW n \in Nat \ {0}, NEW s \in Seq(Nat)
    PROVE  /\ Last(n, s) \in Seq(Nat) /\ Len(Last(n, s)) \in Nat /\ Len(s) \in Nat
           /\ Len(s) <= n => Last(n, s) = s
           /\ Len(s) > n => Len(Last(n, s)) = n /\ \A i \in 1 .. n : Last(n, s)[i] = s[Len(s) - n + i]
<1>0. Len(s) \in Nat /\ Last(n, s) \in Seq(Nat)
  BY LenProperties, LastOf
<1>1. Len(Last(n, s)) \in Nat
  BY <1>0, LenProperties
<1>2. CASE Len(s) <= n
  BY <1>0, <1>1, <1>2 DEF Last
<1>3. CASE Len(s) > n
  <2> DEFINE a == Len(s) - n + 1
             b == Len(s)
  <2>1. a \in Nat \ {0} /\ b \in Nat /\ a <= b /\ b - a + 1 = n /\ \A i \in 1 .. n : a + i - 1 = Len(s) - n + i
    BY <1>0, <1>3
  <2>2. Last(n, s) = SubSeq(s, a, b)
    BY <1>0, <1>3 DEF Last
  <2>3. \A i \in a .. b : s[i] \in Nat
    BY <1>0, <2>1, ElementOfSeq
  <2> HIDE DEF a, b
  <2>4. Len(SubSeq(s, a, b)) = b - a + 1 /\ \A i \in 1 .. b - a + 1 : SubSeq(s, a, b)[i] = s[a + i - 1]
    BY <2>1, <2>3, SubSeqProperties
  <2>5. Len(Last(n, s)) = n
    BY <2>1, <2>2, <2>4
  <2>6. ASSUME NEW i \in 1 .. n PROVE Last(n, s)[i] = s[Len(s) - n + i]
    <3>1. i \in 1 .. b - a + 1 /\ a + i - 1 = Len(s) - n + i
      BY <2>1
    <3> QED
      BY <2>2, <2>4, <3>1
  <2> QED
    BY <1>0, <1>1, <1>3, <2>5, <2>6
<1> QED
  BY <1>0, <1>2, <1>3

LEMMA LastDistinct ==
    ASSUME NEW n \in Nat \ {0}, NEW s \in Seq(Nat), Distinct(s)
    PROVE  Distinct(Last(n, s))
<1>0. DOMAIN s = 1 .. Len(s) /\ Len(s) \in Nat /\ DOMAIN Last(n, s) = 1 .. Len(Last(n, s))
  BY LastAt, LenProperties
<1>1. CASE Len(s) <= n
  BY <1>1, LastAt
<1>2. CASE Len(s) > n
  <2> SUFFICES ASSUME NEW i \in 1 .. n, NEW j \in 1 .. n, Last(n, s)[i] = Last(n, s)[j] PROVE i = j
    BY <1>0, <1>2, LastAt DEF Distinct
  <2>1. s[Len(s) - n + i] = s[Len(s) - n + j]
    BY <1>2, LastAt
  <2>2. Len(s) - n + i \in DOMAIN s /\ Len(s) - n + j \in DOMAIN s
    BY <1>0, <1>2
  <2>3. Len(s) - n + i = Len(s) - n + j
    BY <2>1, <2>2 DEF Distinct
  <2> QED
    BY <1>0, <2>3
<1> QED
  BY <1>0, <1>1, <1>2

LEMMA LastReadUpTo ==
    ASSUME NEW n \in Nat \ {0}, NEW s \in Seq(Nat), NEW lines, NEW m, ReadUpTo(lines, m, s)
    PROVE  ReadUpTo(lines, m, Last(n, s))
<1>0. DOMAIN s = 1 .. Len(s) /\ Len(s) \in Nat /\ DOMAIN Last(n, s) = 1 .. Len(Last(n, s))
  BY LastAt, LenProperties
<1>1. CASE Len(s) <= n
  BY <1>1, LastAt
<1>2. CASE Len(s) > n
  <2>1. DOMAIN Last(n, s) = 1 .. n
    BY <1>0, <1>2, LastAt
  <2>2. \A i \in 1 .. n : Len(s) - n + i \in DOMAIN s /\ Last(n, s)[i] = s[Len(s) - n + i]
    <3>1. \A i \in 1 .. n : Last(n, s)[i] = s[Len(s) - n + i]
      BY <1>2, LastAt
    <3>2. \A i \in 1 .. n : Len(s) - n + i \in DOMAIN s
      BY <1>0, <1>2
    <3> QED
      BY <3>1, <3>2
  <2>3. \A i, j \in 1 .. n : i <= j => Len(s) - n + i <= Len(s) - n + j
    BY <1>0
  <2>4. \A i, j \in 1 .. n : i <= j => Last(n, s)[i] <= Last(n, s)[j]
    BY <2>2, <2>3 DEF ReadUpTo
  <2>5. \A j \in 1 .. n : HasLine(lines, Last(n, s)[j])
    BY <2>2 DEF ReadUpTo
  <2>6. \A i \in DOMAIN lines : i > m => \A j \in 1 .. n : Last(n, s)[j] <= lines[i].id
    BY <2>2 DEF ReadUpTo
  <2> QED
    BY <2>1, <2>4, <2>5, <2>6 DEF ReadUpTo
<1> QED
  BY <1>0, <1>1, <1>2

(* What is not met twice is at most as many as there are. *)
LEMMA DistinctFew ==
    ASSUME NEW s \in Seq(Nat), Distinct(s), NEW m \in Nat, \A i \in DOMAIN s : s[i] \in 1 .. m
    PROVE  Len(s) <= m
<1>0. DOMAIN s = 1 .. Len(s) /\ Len(s) \in Nat
  BY LenProperties
<1> SUFFICES ASSUME m < Len(s) PROVE FALSE
  BY <1>0
<1>1. \A n \in Nat : IsFiniteSet(1 .. n) /\ Cardinality(1 .. n) = n
  <2> SUFFICES ASSUME NEW n \in Nat PROVE IsFiniteSet(1 .. n) /\ Cardinality(1 .. n) = n
    OBVIOUS
  <2>1. 1 \in Int /\ n \in Int /\ (IF 1 > n THEN 0 ELSE n - 1 + 1) = n
    OBVIOUS
  <2> QED
    BY <2>1, FS_Interval
<1>2. Cardinality(1 .. m) < Cardinality(1 .. Len(s)) /\ IsFiniteSet(1 .. m) /\ IsFiniteSet(1 .. Len(s))
  BY <1>0, <1>1
<1>3. s \in [1 .. Len(s) -> 1 .. m]
  BY <1>0, LenProperties
<1>4. \E x, y \in 1 .. Len(s) : x # y /\ s[x] = s[y]
  <2> DEFINE S == 1 .. Len(s)
             T == 1 .. m
  <2>1. IsFiniteSet(S) /\ IsFiniteSet(T) /\ Cardinality(T) < Cardinality(S) /\ s \in [S -> T]
    BY <1>2, <1>3
  <2> HIDE DEF S, T
  <2>2. \E x, y \in S : x # y /\ s[x] = s[y]
    BY <2>1, FS_PigeonHole
  <2> QED
    BY <2>2 DEF S
<1> QED
  BY <1>0, <1>4 DEF Distinct

(* A ring that is cut still tells what has been met. *)
LEMMA LastBeyond ==
    ASSUME NEW s \in Seq(Nat), Distinct(s), count.msg \in Nat, \A i \in DOMAIN s : s[i] \in 1 .. count.msg,
           Enough, NEW t, NEW n, Steady => ReadUpTo(Lines(t), n, s), NEW id \in Nat, Beyond(t, s, id)
    PROVE  Beyond(t, Last(Ring, s), id)
<1>0. DOMAIN s = 1 .. Len(s) /\ Len(s) \in Nat /\ DOMAIN Last(Ring, s) = 1 .. Len(Last(Ring, s)) /\ Ring \in Nat \ {0}
  BY LastAt, LenProperties
<1>1. CASE Len(s) <= Ring
  BY <1>0, <1>1, LastAt
<1>2. CASE Len(s) > Ring
  <2>1. Len(s) <= count.msg
    BY DistinctFew
  <2>2. Steady
    BY <1>0, <1>2, <2>1 DEF Enough
  <2>3. PICK j \in DOMAIN s : id <= s[j] /\ HasLine(Lines(t), id)
    BY <2>2 DEF Beyond, Has, Passed, ReadUpTo
  <2>4. Last(Ring, s)[Ring] = s[Len(s)] /\ Ring \in DOMAIN Last(Ring, s)
    <3>1. Ring \in 1 .. Ring /\ Len(s) - Ring + Ring = Len(s)
      BY <1>0
    <3>2. Len(Last(Ring, s)) = Ring /\ \A i \in 1 .. Ring : Last(Ring, s)[i] = s[Len(s) - Ring + i]
      BY <1>0, <1>2, LastAt
    <3> QED
      BY <1>0, <3>1, <3>2
  <2>5. s[j] <= s[Len(s)] /\ s[j] \in Nat /\ s[Len(s)] \in Nat
    <3>1. Len(s) \in DOMAIN s /\ j <= Len(s)
      BY <1>0, <1>2
    <3> QED
      BY <1>0, <2>2, <3>1, ElementOfSeq DEF ReadUpTo
  <2> QED
    BY <2>2, <2>3, <2>4, <2>5 DEF Beyond, Passed
<1> QED
  BY <1>0, <1>1, <1>2

-----------------------------------------------------------------------------
(* What each step of a pass does, field by field. *)

PassLeaves == UNCHANGED <<text, cursor, rows, play, count>>

LEMMA StartsDoes ==
    ASSUME TypeOK, NEW p \in Proc, PassStarts(p)
    PROVE  /\ UNCHANGED <<text, cursor, rows, play>> /\ count'.msg = count.msg /\ count'.kill = count.kill
           /\ pass.at = "idle" /\ pass'.at = "look" /\ pass'.cursor = cursor /\ pass'.out = {} /\ pass'.seen = <<>>
<1>1. count'.msg = count.msg /\ count'.kill = count.kill
  BY DEF PassStarts, MayStart, Counts, TypeOK, GivenOK
<1> QED
  BY <1>1 DEF PassStarts, NoPass

LooksOver(t, m) ==
    /\ pass'.at = "look" /\ pass'.out = pass.out /\ pass'.seen = pass.seen
    /\ pass'.cursor = [pass.cursor EXCEPT ![t] = MarkAt(text[t].ino, m.off, m.seen)]

LooksInto(t, m) ==
    /\ pass'.at = "read" /\ pass'.out = pass.out /\ pass'.seen = m.seen /\ pass'.cursor = pass.cursor
    /\ pass'.t = t /\ pass'.ino = text[t].ino /\ pass'.from = m.off

LEMMA LooksDoes ==
    ASSUME TypeOK, NEW p \in Proc, Looks(p)
    PROVE  /\ PassLeaves /\ pass.at = "look"
           /\ \E t \in Transcript :
                /\ StartsOver(t, pass.cursor[t]) \in Mark /\ StartsOver(t, pass.cursor[t]).seen = pass.cursor[t].seen
                /\ \/ LooksOver(t, StartsOver(t, pass.cursor[t]))
                   \/ LooksInto(t, StartsOver(t, pass.cursor[t]))
<1>0. ReadingOK /\ PassLeaves /\ pass.at = "look"
  BY DEF TypeOK, Looks, PassLeaves
<1>1. PICK t \in pass.left :
        LET m == StartsOver(t, pass.cursor[t])
            now == [pass EXCEPT !.left = @ \ {t}]
        IN  pass' = IF Size(t) = 2 * m.off
                    THEN [now EXCEPT !.cursor[t] = MarkAt(text[t].ino, m.off, m.seen)]
                    ELSE [now EXCEPT !.at = "read", !.t = t, !.ino = text[t].ino, !.from = m.off, !.seen = m.seen]
  BY DEF Looks
<1> DEFINE m == StartsOver(t, pass.cursor[t])
           mark == MarkAt(text[t].ino, m.off, m.seen)
           now == [pass EXCEPT !.left = pass.left \ {t}]
<1>2. t \in Transcript /\ pass.cursor[t] \in Mark
  BY <1>0, PassFields
<1>3. m \in Mark /\ m.seen = pass.cursor[t].seen
  BY <1>2, StartsOverTyped
<1>4. /\ now \in Pass /\ now.cursor = pass.cursor /\ now.out = pass.out /\ now.at = pass.at /\ now.seen = pass.seen
      /\ \/ pass' = [now EXCEPT !.cursor = [now.cursor EXCEPT ![t] = mark]]
         \/ pass' = [now EXCEPT !.at = "read", !.t = t, !.ino = text[t].ino, !.from = m.off, !.seen = m.seen]
  <2>1. now \in Pass /\ now.cursor = pass.cursor /\ now.out = pass.out /\ now.at = pass.at /\ now.seen = pass.seen
    BY <1>0 DEF ReadingOK, Pass
  <2> QED
    BY <1>1, <2>1
<1> HIDE DEF m, mark, now
<1>5. CASE pass' = [now EXCEPT !.cursor = [now.cursor EXCEPT ![t] = mark]]
  <2>1. /\ pass'.at = "look" /\ pass'.out = pass.out /\ pass'.seen = pass.seen
        /\ pass'.cursor = [pass.cursor EXCEPT ![t] = mark]
    BY <1>0, <1>4, <1>5 DEF Pass
  <2> QED
    BY <1>0, <1>2, <1>3, <2>1 DEF LooksOver, m, mark
<1>6. CASE pass' = [now EXCEPT !.at = "read", !.t = t, !.ino = text[t].ino, !.from = m.off, !.seen = m.seen]
  <2>1. /\ pass'.at = "read" /\ pass'.out = pass.out /\ pass'.seen = m.seen /\ pass'.cursor = pass.cursor
        /\ pass'.t = t /\ pass'.ino = text[t].ino /\ pass'.from = m.off
    BY <1>4, <1>6 DEF Pass
  <2> QED
    BY <1>0, <1>2, <1>3, <2>1 DEF LooksInto, m
<1> QED
  BY <1>4, <1>5, <1>6

\* The lines that are read are the file's, from one on.
LinesFrom(data, lines, n) == \A k \in DOMAIN data : n + k \in DOMAIN lines /\ lines[n + k] = data[k]

LEMMA ReadsDoes ==
    ASSUME TypeOK, NEW p \in Proc, Reads(p)
    PROVE  /\ PassLeaves /\ pass.at = "read" /\ pass'.at = "line"
           /\ pass'.out = pass.out /\ pass'.seen = pass.seen /\ pass'.cursor = pass.cursor
           /\ pass'.t = pass.t /\ pass'.ino = pass.ino
           /\ pass'.upto - Len(pass'.data) = pass.from /\ LinesFrom(pass'.data, Lines(pass.t), pass.from)
<1>0. ReadingOK /\ PassLeaves /\ pass.at = "read"
  BY DEF TypeOK, Reads, PassLeaves
<1> DEFINE data == SubSeq(Lines(pass.t), pass.from + 1, Whole(pass.t))
<1>1. /\ pass'.cursor = pass.cursor /\ pass'.out = pass.out /\ pass'.at = "line" /\ pass'.t = pass.t
      /\ pass'.ino = pass.ino /\ pass'.seen = pass.seen /\ pass'.data = data /\ pass'.upto = pass.from + Len(data)
  BY <1>0 DEF Reads, ReadingOK, Pass
<1>2. pass.t \in Transcript /\ pass.from \in Nat
  BY <1>0, PassFields
<1>3. /\ Whole(pass.t) \in Int /\ Whole(pass.t) <= Len(Lines(pass.t))
      /\ Lines(pass.t) \in Seq(Line) /\ Len(Lines(pass.t)) \in Nat /\ DOMAIN Lines(pass.t) = 1 .. Len(Lines(pass.t))
  BY <1>0, <1>2, LinesOf
<1>4. data \in Seq(Line)
  BY <1>0, ReadsTyped
<1>5. Len(data) \in Nat /\ DOMAIN data = 1 .. Len(data)
  BY <1>4, LenProperties
<1>6. LinesFrom(data, Lines(pass.t), pass.from)
  <2>1. CASE pass.from < Whole(pass.t)
    <3> DEFINE a == pass.from + 1
               n == Whole(pass.t)
               s == Lines(pass.t)
    <3>1. a \in Nat \ {0} /\ n \in Nat /\ a <= n /\ n <= Len(s) /\ s \in Seq(Line)
      BY <1>2, <1>3, <2>1
    <3>2. \A i \in a .. n : s[i] \in Line
      BY <3>1, ElementOfSeq
    <3>3. \A k \in 1 .. n - a + 1 : a + k - 1 = pass.from + k /\ pass.from + k \in 1 .. Len(s)
      <4>1. pass.from \in Nat /\ a = pass.from + 1 /\ n \in Nat /\ n <= Len(s) /\ Len(s) \in Nat
        BY <1>2, <1>3, <3>1
      <4> HIDE DEF a, n, s
      <4> SUFFICES ASSUME NEW k \in 1 .. n - a + 1
          PROVE  a + k - 1 = pass.from + k /\ pass.from + k \in 1 .. Len(s)
        OBVIOUS
      <4>2. k \in Nat /\ 1 <= k /\ k <= n - a + 1
        BY <4>1
      <4>3. a + k - 1 = pass.from + k
        BY <4>1, <4>2
      <4>4. pass.from + k <= n
        BY <4>1, <4>2
      <4> QED
        BY <4>1, <4>2, <4>3, <4>4
    <3> HIDE DEF a, n, s
    <3>4. /\ Len(SubSeq(s, a, n)) = n - a + 1
          /\ \A k \in 1 .. n - a + 1 : SubSeq(s, a, n)[k] = s[a + k - 1]
      BY <3>1, <3>2, SubSeqProperties
    <3>5. DOMAIN data = 1 .. n - a + 1 /\ \A k \in 1 .. n - a + 1 : data[k] = s[a + k - 1]
      BY <1>5, <3>4 DEF a, n, s
    <3> HIDE DEF data
    <3> QED
      BY <1>3, <3>3, <3>5 DEF s, LinesFrom
  <2>2. CASE ~(pass.from < Whole(pass.t))
    <3>1. data = <<>>
      BY <1>2, <1>3, <2>2, SubSeqEmpty
    <3> HIDE DEF data
    <3>2. DOMAIN data = {}
      BY <3>1
    <3> QED
      BY <3>2 DEF LinesFrom
  <2> QED
    BY <2>1, <2>2
<1> HIDE DEF data
<1>7. pass'.upto - Len(pass'.data) = pass.from
  BY <1>1, <1>2, <1>5
<1> QED
  BY <1>0, <1>1, <1>6, <1>7

EndsFile ==
    /\ pass.data = <<>> /\ pass'.at = "look" /\ pass'.out = pass.out /\ pass'.seen = pass.seen
    /\ pass'.cursor = [pass.cursor EXCEPT ![pass.t] = MarkAt(pass.ino, pass.upto, pass.seen)]

\* The first line that is left is taken; the others are as they were.
TakesLine(x) ==
    /\ pass'.at = "line" /\ pass'.cursor = pass.cursor
    /\ pass'.t = pass.t /\ pass'.ino = pass.ino /\ pass'.upto = pass.upto
    /\ 1 \in DOMAIN pass.data /\ pass.data[1].id = x /\ x \in Nat
    /\ Len(pass'.data) = Len(pass.data) - 1 /\ Len(pass.data) \in Nat
    /\ \A k \in DOMAIN pass'.data : k + 1 \in DOMAIN pass.data /\ pass'.data[k] = pass.data[k + 1]

SkipsIt(x) == Has(pass.seen, x) /\ pass'.out = pass.out /\ pass'.seen = pass.seen

CountsIt(x) ==
    /\ ~Has(pass.seen, x) /\ pass'.seen = Append(pass.seen, x)
    /\ \E row \in Row : row.id = x /\ pass'.out = pass.out \cup {row}

LEMMA CountsLineDoes ==
    ASSUME TypeOK, NEW p \in Proc, CountsLine(p)
    PROVE  /\ PassLeaves /\ pass.at = "line"
           /\ EndsFile \/ \E x \in Nat : TakesLine(x) /\ (SkipsIt(x) \/ CountsIt(x))
<1>0. ReadingOK /\ PassLeaves /\ pass.at = "line"
  BY DEF TypeOK, CountsLine, PassLeaves
<1>1. CASE pass.data = <<>>
  <2> DEFINE mark == MarkAt(pass.ino, pass.upto, pass.seen)
  <2>1. pass' = [pass EXCEPT !.at = "look", !.cursor = [pass.cursor EXCEPT ![pass.t] = mark]]
    BY <1>1 DEF CountsLine
  <2> HIDE DEF mark
  <2>2. /\ pass'.at = "look" /\ pass'.out = pass.out /\ pass'.seen = pass.seen
        /\ pass'.cursor = [pass.cursor EXCEPT ![pass.t] = mark]
    BY <1>0, <2>1 DEF ReadingOK, Pass
  <2> QED
    BY <1>0, <1>1, <2>2 DEF EndsFile, mark
<1>2. CASE pass.data # <<>>
  <2>0. PICK line : line = Head(pass.data)
    OBVIOUS
  <2> DEFINE row == [id |-> line.id, month |-> line.month, job |-> pass.t \in pass.runs]
             rest == [pass EXCEPT !.data = Tail(pass.data)]
  <2>1. /\ Tail(pass.data) \in Seq(Line) /\ line \in Line
        /\ Len(Tail(pass.data)) = Len(pass.data) - 1 /\ Len(pass.data) \in Nat \ {0}
        /\ \A k \in 1 .. Len(Tail(pass.data)) : Tail(pass.data)[k] = pass.data[k + 1]
        /\ line = pass.data[1] /\ DOMAIN pass.data = 1 .. Len(pass.data)
    BY <1>0, <1>2, <2>0, PassFields, HeadTailProperties, EmptySeq, LenProperties
  <2>2. /\ rest.cursor = pass.cursor /\ rest.out = pass.out /\ rest.at = "line" /\ rest.t = pass.t
        /\ rest.ino = pass.ino /\ rest.upto = pass.upto /\ rest.seen = pass.seen /\ rest.data = Tail(pass.data)
        /\ rest \in Pass
    BY <1>0, <2>1 DEF ReadingOK, Pass
  <2>3. IF Has(pass.seen, line.id) THEN pass' = rest
        ELSE pass' = [rest EXCEPT !.seen = Append(rest.seen, line.id), !.out = rest.out \cup {row}]
    BY <1>2, <2>0 DEF CountsLine
  <2>4. row.id = line.id /\ line.id \in Nat /\ row \in Row
    BY <2>1 DEF Line, Row
  <2> HIDE DEF row, rest
  <2>5. /\ pass'.cursor = pass.cursor /\ pass'.at = "line" /\ pass'.t = pass.t
        /\ pass'.ino = pass.ino /\ pass'.upto = pass.upto /\ pass'.data = Tail(pass.data)
        /\ IF Has(pass.seen, line.id) THEN pass'.seen = pass.seen /\ pass'.out = pass.out
           ELSE pass'.seen = Append(pass.seen, line.id) /\ pass'.out = pass.out \cup {row}
    <3>1. CASE Has(pass.seen, line.id)
      BY <2>2, <2>3, <3>1
    <3>2. CASE ~Has(pass.seen, line.id)
      <4> DEFINE seen == Append(rest.seen, line.id)
                 out == rest.out \cup {row}
      <4>1. pass' = [rest EXCEPT !.seen = seen, !.out = out]
        BY <2>3, <3>2
      <4>2. out = pass.out \cup {row} /\ seen = Append(pass.seen, line.id)
        BY <2>2
      <4> HIDE DEF seen, out
      <4>3. /\ pass'.cursor = rest.cursor /\ pass'.out = out /\ pass'.at = rest.at /\ pass'.t = rest.t
            /\ pass'.ino = rest.ino /\ pass'.upto = rest.upto /\ pass'.data = rest.data /\ pass'.seen = seen
        BY <2>2, <4>1 DEF Pass
      <4> QED
        BY <2>2, <3>2, <4>2, <4>3
    <3> QED
      BY <3>1, <3>2
  <2>6. TakesLine(line.id)
    <3>1. DOMAIN Tail(pass.data) = 1 .. Len(pass.data) - 1 /\ 1 \in DOMAIN pass.data
      BY <2>1, LenProperties
    <3>2. \A k \in DOMAIN Tail(pass.data) : k + 1 \in DOMAIN pass.data
      BY <2>1, <3>1
    <3> QED
      BY <2>1, <2>4, <2>5, <3>1, <3>2 DEF TakesLine
  <2>7. SkipsIt(line.id) \/ CountsIt(line.id)
    BY <2>4, <2>5 DEF SkipsIt, CountsIt
  <2> QED
    BY <1>0, <2>4, <2>6, <2>7
<1> QED
  BY <1>0, <1>1, <1>2

LEMMA AddsRowsDoes ==
    ASSUME TypeOK, NEW p \in Proc, AddsRows(p)
    PROVE  /\ UNCHANGED <<text, cursor, play, count>> /\ pass.at \in {"look", "add"} /\ pass'.at = "add"
           /\ pass'.seen = pass.seen /\ pass'.cursor = pass.cursor
           /\ \E these \in SUBSET pass.out : rows' = rows (+) SetToBag(these) /\ pass'.out = pass.out \ these
<1>1. PICK r \in pass.out :
        LET these == {x \in pass.out : x.month = r.month}
        IN  /\ rows' = rows (+) SetToBag(these)
            /\ pass' = [pass EXCEPT !.at = "add", !.out = @ \ these]
  BY DEF AddsRows
<1> DEFINE these == {x \in pass.out : x.month = r.month}
<1>2. /\ rows' = rows (+) SetToBag(these) /\ these \in SUBSET pass.out
      /\ pass' = [pass EXCEPT !.at = "add", !.out = pass.out \ these]
  BY <1>1
<1> HIDE DEF these
<1>3. pass'.at = "add" /\ pass'.seen = pass.seen /\ pass'.cursor = pass.cursor /\ pass'.out = pass.out \ these
  BY <1>2 DEF TypeOK, ReadingOK, Pass
<1>4. UNCHANGED <<text, cursor, play, count>> /\ pass.at \in {"look", "add"}
  BY DEF AddsRows
<1> QED
  BY <1>2, <1>3, <1>4

LEMMA SavesDoes ==
    ASSUME TypeOK, NEW p \in Proc, SavesCursor(p)
    PROVE  /\ UNCHANGED <<text, rows, play, count>> /\ pass.at \in {"look", "add"} /\ pass.out = {}
           /\ cursor' = pass.cursor /\ pass' = NoPass
BY DEF SavesCursor

LEMMA KilledDoes ==
    ASSUME TypeOK, NEW p \in Proc, Killed(p)
    PROVE  /\ UNCHANGED <<text, cursor, rows, play>>
           /\ count'.msg = count.msg /\ count'.kill = count.kill + 1 /\ count.kill \in Nat
           /\ pass' = pass \/ pass' = NoPass
BY DEF Killed, Counts, TypeOK, GivenOK

LEMMA EnforceDoes ==
    ASSUME TypeOK, NEW p \in Proc, EnforceStarts(p) \/ EnforceSteps(p) \/ Collides(p)
    PROVE  /\ UNCHANGED <<text, cursor, rows, pass, play>> /\ count'.msg = count.msg /\ count'.kill = count.kill
<1>1. count' = count \/ Counts("op")
  BY DEF EnforceStarts, EnforceSteps, Tells, Marks, WritesJson, WritesPlain, Collides, MayStart
<1>2. count'.msg = count.msg /\ count'.kill = count.kill
  BY <1>1 DEF Counts, TypeOK, GivenOK
<1> QED
  BY <1>2 DEF EnforceStarts, EnforceSteps, Tells, Marks, WritesJson, WritesPlain, Collides, reading

-----------------------------------------------------------------------------
(* What the sessions do to the lines. *)

AppendsTo(l, m) ==
    /\ DOMAIN l \subseteq DOMAIN m /\ \A i \in DOMAIN l : m[i] = l[i]
    /\ \A i \in DOMAIN m \ DOMAIN l : \A j \in DOMAIN l : l[j].id <= m[i].id

LEMMA AppendsNone ==
    ASSUME NEW l
    PROVE  AppendsTo(l, l)
BY DEF AppendsTo

LEMMA AppendsOne ==
    ASSUME NEW l \in Seq(Line), NEW line \in Line, Ordered(l), \A j \in DOMAIN l : l[j].id <= line.id
    PROVE  /\ Ordered(Append(l, line)) /\ AppendsTo(l, Append(l, line))
           /\ \A id : HasLine(Append(l, line), id) => HasLine(l, id) \/ id = line.id
<1> DEFINE m == Append(l, line)
<1>1. /\ Len(l) \in Nat /\ DOMAIN l = 1 .. Len(l) /\ DOMAIN m = 1 .. Len(l) + 1
      /\ m[Len(l) + 1] = line /\ \A i \in 1 .. Len(l) : m[i] = l[i]
  BY LenProperties, AppendProperties
<1> HIDE DEF m
<1>2. AppendsTo(l, m)
  BY <1>1 DEF AppendsTo
<1>3. ASSUME NEW i \in DOMAIN m, NEW j \in DOMAIN m, i <= j PROVE m[i].id <= m[j].id
  <2>1. line.id \in Nat
    BY DEF Line
  <2>2. CASE j = Len(l) + 1 /\ i = Len(l) + 1
    BY <1>1, <2>1, <2>2
  <2>3. CASE j = Len(l) + 1 /\ i # Len(l) + 1
    BY <1>1, <2>3
  <2>4. CASE j # Len(l) + 1
    <3>1. i \in DOMAIN l /\ j \in DOMAIN l
      BY <1>1, <1>3, <2>4
    <3> QED
      BY <1>1, <1>3, <3>1 DEF Ordered
  <2> QED
    BY <2>2, <2>3, <2>4
<1>4. \A id : HasLine(m, id) => HasLine(l, id) \/ id = line.id
  BY <1>1 DEF HasLine
<1> QED
  BY <1>2, <1>3, <1>4 DEF Ordered, m

LEMMA FirstLines ==
    ASSUME NEW l \in Seq(Line), NEW n \in 0 .. Len(l), Ordered(l)
    PROVE  Ordered(SubSeq(l, 1, n)) /\ \A id : HasLine(SubSeq(l, 1, n), id) => HasLine(l, id)
<1>1. Len(l) \in Nat /\ DOMAIN l = 1 .. Len(l)
  BY LenProperties
<1>2. DOMAIN SubSeq(l, 1, n) = 1 .. n /\ \A i \in 1 .. n : SubSeq(l, 1, n)[i] = l[i]
  BY <1>1, SubSeqProperties
<1> QED
  BY <1>1, <1>2 DEF Ordered, HasLine

LEMMA LineIds ==
    ASSUME TypeOK, OfOne, NEW t \in Transcript
    PROVE  \A i \in DOMAIN Lines(t) : Lines(t)[i] \in Line /\ Lines(t)[i].id \in 1 .. count.msg
<1> SUFFICES ASSUME NEW i \in DOMAIN Lines(t)
             PROVE  Lines(t)[i] \in Line /\ Lines(t)[i].id \in 1 .. count.msg
  OBVIOUS
<1>1. Lines(t)[i] \in Line
  BY LinesOf, ElementOfSeq DEF TypeOK
<1>2. From(t, Lines(t)[i].id)
  BY DEF From, HasLine
<1> QED
  BY <1>1, <1>2 DEF OfOne

NewLine(u, t, id) == t = u /\ id = count.msg + 1 /\ count'.msg = count.msg + 1

(* One file changes at most. *)
LEMMA OneChanges ==
    ASSUME TypeOK, InOrder, NEW u \in Transcript, NEW file, text' = [text EXCEPT ![u] = file],
           Ordered(file.lines), Steady => file.ino = text[u].ino /\ AppendsTo(Lines(u), file.lines),
           \A id : HasLine(file.lines, id) => HasLine(Lines(u), id) \/ NewLine(u, u, id)
    PROVE  /\ \A t \in Transcript : Ordered(text'[t].lines)
           /\ Steady => \A t \in Transcript : text'[t].ino = text[t].ino /\ AppendsTo(Lines(t), text'[t].lines)
           /\ \A t \in Transcript : \A id : HasLine(text'[t].lines, id) => HasLine(Lines(t), id) \/ NewLine(u, t, id)
<1>1. text'[u] = file /\ \A t \in Transcript \ {u} : text'[t] = text[t]
  BY DEF TypeOK, ReadingOK
<1>2. \A t \in Transcript \ {u} : text'[t].lines = Lines(t) /\ text'[t].ino = text[t].ino
  BY <1>1 DEF Lines
<1>3. \A t \in Transcript : t = u \/ t \in Transcript \ {u}
  OBVIOUS
<1> HIDE DEF NewLine
<1> QED
  BY <1>1, <1>2, <1>3, AppendsNone DEF InOrder

LEMMA GivenText ==
    ASSUME TypeOK, OfOne, InOrder, Given
    PROVE  /\ UNCHANGED <<cursor, rows, pass, play>>
           /\ count'.kill = count.kill /\ count'.msg \in {count.msg, count.msg + 1} /\ count.msg \in Nat
           /\ \A t \in Transcript : Ordered(text'[t].lines)
           /\ Steady => \A t \in Transcript : text'[t].ino = text[t].ino /\ AppendsTo(Lines(t), text'[t].lines)
           /\ \E u \in Transcript : \A t \in Transcript : \A id :
                HasLine(text'[t].lines, id) => HasLine(Lines(t), id) \/ NewLine(u, t, id)
<1>0. count \in [msg: Nat, change: Nat, op: Nat, kill: Nat] /\ ReadingOK /\ text \in [Transcript -> Text]
  BY DEF TypeOK, GivenOK, ReadingOK
<1>1. UNCHANGED <<cursor, rows, pass, play>>
  BY DEF Given, Speaks, SpeaksOn, EndsLine, Redone, JobStarts, JobEnds, OwnerSetsCap, PeerSpends, NextMonth, reading
<1>2. count'.kill = count.kill /\ count'.msg \in {count.msg, count.msg + 1}
  <2>1. UNCHANGED count \/ Counts("msg") \/ Counts("change")
    BY DEF Given, Speaks, SpeaksOn, EndsLine, Redone, JobStarts, JobEnds, OwnerSetsCap, PeerSpends, NextMonth, May
  <2> QED
    BY <1>0, <2>1 DEF Counts
<1> DEFINE Changed(u) ==
      /\ \A t \in Transcript : Ordered(text'[t].lines)
      /\ Steady => \A t \in Transcript : text'[t].ino = text[t].ino /\ AppendsTo(Lines(t), text'[t].lines)
      /\ \A t \in Transcript : \A id : HasLine(text'[t].lines, id) => HasLine(Lines(t), id) \/ NewLine(u, t, id)
<1>3. CASE Speaks
  <2>1. PICK u \in Transcript, whole \in BOOLEAN :
            Counts("msg") /\ Writes(u, [id |-> count.msg + 1, month |-> month], whole)
    BY <1>3 DEF Speaks
  <2> DEFINE line == [id |-> count.msg + 1, month |-> month]
             file == Holds(text[u].ino, Append(Lines(u), line), whole)
  <2>2. line \in Line /\ line.id = count.msg + 1 /\ count'.msg = count.msg + 1
    BY <1>0, <2>1 DEF Line, TypeOK, GivenOK, Counts
  <2>3. text' = [text EXCEPT ![u] = file]
    BY <1>0, <2>1 DEF Writes, Lines
  <2>4. file.ino = text[u].ino /\ file.lines = Append(Lines(u), line)
    BY DEF Holds
  <2> HIDE DEF line
  <2>5. /\ Ordered(Append(Lines(u), line)) /\ AppendsTo(Lines(u), Append(Lines(u), line))
        /\ \A id : HasLine(Append(Lines(u), line), id) => HasLine(Lines(u), id) \/ id = line.id
    <3>1. \A j \in DOMAIN Lines(u) : Lines(u)[j].id <= line.id
      BY <1>0, <2>2, LineIds
    <3> QED
      BY <1>0, <2>2, <3>1, LinesOf, AppendsOne DEF InOrder
  <2> HIDE DEF file
  <2>6. \A id : HasLine(file.lines, id) => HasLine(Lines(u), id) \/ NewLine(u, u, id)
    BY <2>2, <2>4, <2>5 DEF NewLine
  <2> HIDE DEF NewLine
  <2>7. Changed(u)
    BY <2>3, <2>4, <2>5, <2>6, OneChanges
  <2> HIDE DEF Changed
  <2>8. \E v \in Transcript : Changed(v)
    BY <2>7
  <2> QED
    BY <1>0, <1>1, <1>2, <2>8 DEF Changed
<1>4. CASE SpeaksOn
  <2>1. PICK u \in Transcript : Lines(u) # <<>> /\ Writes(u, Lines(u)[Len(Lines(u))], TRUE)
    BY <1>4 DEF SpeaksOn
  <2> DEFINE line == Lines(u)[Len(Lines(u))]
             file == Holds(text[u].ino, Append(Lines(u), line), TRUE)
  <2>2. Len(Lines(u)) \in DOMAIN Lines(u) /\ line \in Line /\ \A j \in DOMAIN Lines(u) : j <= Len(Lines(u))
    BY <1>0, <2>1, LinesOf, EmptySeq, ElementOfSeq
  <2>3. text' = [text EXCEPT ![u] = file]
    BY <1>0, <2>1 DEF Writes, Lines
  <2>4. file.ino = text[u].ino /\ file.lines = Append(Lines(u), line)
    BY DEF Holds
  <2>5. \A j \in DOMAIN Lines(u) : Lines(u)[j].id <= line.id
    BY <2>2 DEF InOrder, Ordered
  <2>6. HasLine(Lines(u), line.id)
    BY <2>2 DEF HasLine
  <2> HIDE DEF line
  <2>7. /\ Ordered(Append(Lines(u), line)) /\ AppendsTo(Lines(u), Append(Lines(u), line))
        /\ \A id : HasLine(Append(Lines(u), line), id) => HasLine(Lines(u), id) \/ id = line.id
    BY <1>0, <2>2, <2>5, LinesOf, AppendsOne DEF InOrder
  <2> HIDE DEF file, NewLine
  <2>8. Changed(u)
    <3>1. Ordered(file.lines) /\ (Steady => file.ino = text[u].ino /\ AppendsTo(Lines(u), file.lines))
      BY <2>4, <2>7
    <3>2. \A id : HasLine(file.lines, id) => HasLine(Lines(u), id)
      BY <2>4, <2>6, <2>7
    <3> QED
      BY <2>3, <3>1, <3>2, OneChanges
  <2> HIDE DEF Changed
  <2>9. \E v \in Transcript : Changed(v)
    BY <2>8
  <2> QED
    BY <1>0, <1>1, <1>2, <2>9 DEF Changed
<1>5. CASE EndsLine
  <2>1. PICK u \in Transcript : text' = [text EXCEPT ![u] = Holds(text[u].ino, text[u].lines, TRUE)]
    BY <1>5 DEF EndsLine
  <2> DEFINE file == Holds(text[u].ino, text[u].lines, TRUE)
  <2>2. file.ino = text[u].ino /\ file.lines = Lines(u) /\ text' = [text EXCEPT ![u] = file]
    BY <2>1 DEF Holds, Lines
  <2> HIDE DEF file, NewLine
  <2>3. Changed(u)
    BY <2>2, OneChanges, AppendsNone DEF InOrder
  <2> HIDE DEF Changed
  <2>4. \E v \in Transcript : Changed(v)
    BY <2>3
  <2> QED
    BY <1>0, <1>1, <1>2, <2>4 DEF Changed
<1>6. CASE Redone
  <2>1. ~Steady
    BY <1>6 DEF Redone, May, Steady
  <2>2. PICK u \in Transcript : \E n \in 0 .. Whole(u), ino \in {text[u].ino, text[u].ino + 1} :
            text' = [text EXCEPT ![u] = Holds(ino, SubSeq(text[u].lines, 1, n), TRUE)]
    BY <1>6 DEF Redone
  <2>3. PICK n \in 0 .. Whole(u), ino \in {text[u].ino, text[u].ino + 1} :
            text' = [text EXCEPT ![u] = Holds(ino, SubSeq(text[u].lines, 1, n), TRUE)]
    BY <2>2
  <2> DEFINE file == Holds(ino, SubSeq(text[u].lines, 1, n), TRUE)
  <2>4. file.lines = SubSeq(Lines(u), 1, n) /\ text' = [text EXCEPT ![u] = file]
    BY <2>3 DEF Holds, Lines
  <2> HIDE DEF file, NewLine
  <2>5. n \in 0 .. Len(Lines(u)) /\ Lines(u) \in Seq(Line)
    BY <1>0, LinesOf
  <2>6. Ordered(file.lines) /\ \A id : HasLine(file.lines, id) => HasLine(Lines(u), id)
    BY <2>4, <2>5, FirstLines DEF InOrder
  <2>7. Changed(u)
    BY <2>1, <2>4, <2>6, OneChanges
  <2> HIDE DEF Changed
  <2>8. \E v \in Transcript : Changed(v)
    BY <2>7
  <2> QED
    BY <1>0, <1>1, <1>2, <2>8 DEF Changed
<1>7. CASE JobStarts \/ JobEnds \/ OwnerSetsCap \/ PeerSpends \/ NextMonth
  <2>1. text' = text
    BY <1>7 DEF JobStarts, JobEnds, OwnerSetsCap, PeerSpends, NextMonth, reading
  <2>2. PICK u \in Transcript : TRUE
    BY LedgerAssumption
  <2>3. \A t \in Transcript : text'[t].lines = Lines(t) /\ text'[t].ino = text[t].ino
    BY <2>1 DEF Lines
  <2> HIDE DEF NewLine
  <2>4. Changed(u)
    BY <2>3, AppendsNone DEF InOrder
  <2> HIDE DEF Changed
  <2>5. \E v \in Transcript : Changed(v)
    BY <2>4
  <2> QED
    BY <1>0, <1>1, <1>2, <2>5 DEF Changed
<1> QED
  BY <1>3, <1>4, <1>5, <1>6, <1>7 DEF Given

-----------------------------------------------------------------------------
(* A message stays of one transcript, and none is in a ring twice. *)

LEMMA LastHas ==
    ASSUME NEW n \in Nat \ {0}, NEW s \in Seq(Nat), NEW x, Has(Last(n, s), x)
    PROVE  Has(s, x)
BY LastOf DEF Has

LEMMA NothingHas ==
    /\ \A x : ~Has(<<>>, x) /\ ~HasLine(<<>>, x)
    /\ Distinct(<<>>)
    /\ \A t \in Transcript : NoPass.cursor[t].seen = <<>> /\ NoPass.cursor[t].ino = 0 /\ NoPass.cursor[t].off = 0
    /\ NoPass.seen = <<>> /\ NoPass.at = "idle" /\ NoPass.out = {}
BY DEF Has, HasLine, Distinct, NoPass

LEMMA OfOneStays ==
    ASSUME TypeOK, OfOne, count'.msg = count.msg,
           \A t \in Transcript : \A id : From(t, id)' => From(t, id)
    PROVE  OfOne'
BY DEF OfOne

LEMMA OfOneGiven ==
    ASSUME TypeOK, OfOne, InOrder, Given
    PROVE  OfOne' /\ InOrder'
<1>1. PICK u \in Transcript : \A t \in Transcript : \A id :
                HasLine(text'[t].lines, id) => HasLine(Lines(t), id) \/ NewLine(u, t, id)
  BY GivenText
<1>2. UNCHANGED <<cursor, pass>> /\ count'.msg \in {count.msg, count.msg + 1} /\ count.msg \in Nat
  BY GivenText
<1> HIDE DEF NewLine
<1>3. ASSUME NEW t \in Transcript, NEW id, From(t, id)' PROVE From(t, id) \/ NewLine(u, t, id)
  BY <1>1, <1>2, <1>3 DEF From, InFile, Lines
<1>4. InOrder'
  BY GivenText DEF InOrder, Lines
<1>5. ASSUME NEW t \in Transcript, NEW id, From(t, id)'
      PROVE  id \in 1 .. count'.msg /\ \A v \in Transcript : From(v, id)' => v = t
  <2>1. CASE From(t, id)
    <3>1. id \in 1 .. count.msg
      BY <2>1 DEF OfOne
    <3>2. \A v \in Transcript : From(v, id)' => From(v, id)
      BY <1>2, <1>3, <3>1 DEF NewLine
    <3> QED
      BY <1>2, <2>1, <3>1, <3>2 DEF OfOne
  <2>2. CASE ~From(t, id)
    <3>1. NewLine(u, t, id)
      BY <1>3, <1>5, <2>2
    <3>2. t = u /\ id = count.msg + 1 /\ count'.msg = count.msg + 1
      BY <3>1 DEF NewLine
    <3>3. \A v \in Transcript : ~From(v, id)
      BY <1>2, <3>2 DEF OfOne
    <3>4. ASSUME NEW v \in Transcript, From(v, id)' PROVE v = t
      BY <1>3, <3>2, <3>3, <3>4 DEF NewLine
    <3> QED
      BY <1>2, <3>2, <3>4
  <2> QED
    BY <2>1, <2>2
<1> QED
  BY <1>4, <1>5 DEF OfOne

(* The rings that a pass knows. *)
LEMMA Rings ==
    ASSUME TypeOK
    PROVE  /\ pass.seen \in Seq(Nat) /\ pass.t \in Transcript
           /\ \A t \in Transcript : cursor[t].seen \in Seq(Nat) /\ pass.cursor[t].seen \in Seq(Nat)
           /\ pass.cursor \in [Transcript -> Mark] /\ cursor \in [Transcript -> Mark]
<1>1. \A m \in Mark : m.seen \in Seq(Nat)
  BY DEF Mark
<1> QED
  BY <1>1, PassFields DEF TypeOK, ReadingOK

LEMMA OfOnePass ==
    ASSUME TypeOK, OfOne, AllDistinct, NEW p \in Proc, PassStarts(p) \/ PassSteps(p)
    PROVE  /\ \A t \in Transcript : \A id : From(t, id)' => From(t, id)
           /\ AllDistinct'
<1>0. Ring \in Nat \ {0}
  OBVIOUS
<1>1. CASE PassStarts(p)
  <2>1. /\ UNCHANGED <<text, cursor>> /\ pass'.at = "look" /\ pass'.cursor = cursor /\ pass'.seen = <<>>
    BY <1>1, StartsDoes
  <2>2. \A t \in Transcript : \A id : From(t, id)' => From(t, id)
    BY <2>1 DEF From, InFile, Lines
  <2>3. AllDistinct'
    BY <2>1, NothingHas DEF AllDistinct
  <2> QED
    BY <2>2, <2>3
<1>2. CASE Looks(p)
  <2>1. PICK t \in Transcript :
          /\ StartsOver(t, pass.cursor[t]) \in Mark /\ StartsOver(t, pass.cursor[t]).seen = pass.cursor[t].seen
          /\ \/ LooksOver(t, StartsOver(t, pass.cursor[t]))
             \/ LooksInto(t, StartsOver(t, pass.cursor[t]))
    BY <1>2, LooksDoes
  <2>2. UNCHANGED <<text, cursor>> /\ pass.at = "look"
    BY <1>2, LooksDoes DEF PassLeaves
  <2> DEFINE m == StartsOver(t, pass.cursor[t])
  <2>3. m.seen = pass.cursor[t].seen /\ m.seen \in Seq(Nat)
    BY <2>1, Rings
  <2> HIDE DEF m
  <2>4. CASE LooksOver(t, m)
    <3>1. /\ pass'.at = "look" /\ pass'.seen = pass.seen
          /\ \A u \in Transcript : pass'.cursor[u].seen = IF u = t THEN Last(Ring, m.seen) ELSE pass.cursor[u].seen
      BY <2>4, Rings DEF LooksOver, MarkAt
    <3>2. \A u \in Transcript : \A id : Has(pass'.cursor[u].seen, id) => Has(pass.cursor[u].seen, id)
      BY <1>0, <2>3, <3>1, LastHas
    <3>3. \A u \in Transcript : \A id : From(u, id)' => From(u, id)
      BY <2>2, <3>1, <3>2 DEF From, InFile, Lines
    <3>4. \A u \in Transcript : Distinct(pass'.cursor[u].seen)
      BY <1>0, <2>3, <3>1, LastDistinct DEF AllDistinct
    <3> QED
      BY <2>2, <3>1, <3>3, <3>4 DEF AllDistinct
  <2>5. CASE LooksInto(t, m)
    <3>1. pass'.at = "read" /\ pass'.seen = m.seen /\ pass'.cursor = pass.cursor /\ pass'.t = t
      BY <2>5 DEF LooksInto
    <3>2. \A u \in Transcript : \A id : From(u, id)' => From(u, id)
      BY <2>2, <2>3, <3>1 DEF From, InFile, Lines
    <3> QED
      BY <2>2, <2>3, <3>1, <3>2 DEF AllDistinct
  <2> QED
    BY <2>1, <2>4, <2>5 DEF m
<1>3. CASE Reads(p)
  <2>1. /\ UNCHANGED <<text, cursor>> /\ pass.at = "read" /\ pass'.at = "line" /\ pass'.seen = pass.seen
        /\ pass'.cursor = pass.cursor /\ pass'.t = pass.t /\ LinesFrom(pass'.data, Lines(pass.t), pass.from)
    BY <1>3, ReadsDoes DEF PassLeaves
  <2>2. \A id : HasLine(pass'.data, id) => HasLine(Lines(pass.t), id)
    BY <2>1 DEF LinesFrom, HasLine
  <2>3. \A u \in Transcript : \A id : From(u, id)' => From(u, id)
    BY <2>1, <2>2 DEF From, InFile, Lines
  <2> QED
    BY <2>1, <2>3 DEF AllDistinct
<1>4. CASE CountsLine(p)
  <2>1. UNCHANGED <<text, cursor>> /\ pass.at = "line"
    BY <1>4, CountsLineDoes DEF PassLeaves
  <2>2. CASE EndsFile
    <3>1. /\ pass'.at = "look" /\ pass'.seen = pass.seen
          /\ \A u \in Transcript :
                pass'.cursor[u].seen = IF u = pass.t THEN Last(Ring, pass.seen) ELSE pass.cursor[u].seen
      BY <2>2, Rings DEF EndsFile, MarkAt
    <3>2. \A u \in Transcript : \A id :
              Has(pass'.cursor[u].seen, id) => Has(pass.cursor[u].seen, id) \/ (u = pass.t /\ Has(pass.seen, id))
      BY <1>0, <3>1, LastHas, Rings
    <3>3. \A u \in Transcript : \A id : From(u, id)' => From(u, id)
      BY <2>1, <3>1, <3>2 DEF From, InFile, Lines
    <3>4. \A u \in Transcript : Distinct(pass'.cursor[u].seen)
      BY <1>0, <3>1, LastDistinct, Rings DEF AllDistinct
    <3> QED
      BY <2>1, <3>1, <3>3, <3>4 DEF AllDistinct
  <2>3. ASSUME NEW x \in Nat, TakesLine(x), SkipsIt(x) \/ CountsIt(x)
        PROVE  (\A t \in Transcript : \A id : From(t, id)' => From(t, id)) /\ AllDistinct'
    <3>1. /\ pass'.at = "line" /\ pass'.cursor = pass.cursor /\ pass'.t = pass.t
          /\ HasLine(pass.data, x) /\ \A id : HasLine(pass'.data, id) => HasLine(pass.data, id)
      BY <2>3 DEF TakesLine, HasLine
    <3>2. (\A id : Has(pass'.seen, id) => Has(pass.seen, id) \/ id = x) /\ Distinct(pass'.seen)
      <4>1. CASE SkipsIt(x)
        BY <4>1 DEF SkipsIt, AllDistinct
      <4>2. CASE CountsIt(x)
        <5>1. pass'.seen = Append(pass.seen, x) /\ ~Has(pass.seen, x) /\ pass.seen \in Seq(Nat)
          BY <4>2, Rings DEF CountsIt
        <5>2. /\ Len(pass.seen) \in Nat /\ DOMAIN pass.seen = 1 .. Len(pass.seen)
              /\ DOMAIN pass'.seen = 1 .. Len(pass.seen) + 1 /\ pass'.seen[Len(pass.seen) + 1] = x
              /\ \A i \in 1 .. Len(pass.seen) : pass'.seen[i] = pass.seen[i]
          BY <2>3, <5>1, LenProperties, AppendProperties
        <5>3. \A i \in DOMAIN pass'.seen :
                i = Len(pass.seen) + 1 \/ (i \in DOMAIN pass.seen /\ pass'.seen[i] = pass.seen[i])
          BY <5>2
        <5>4. \A i \in DOMAIN pass.seen : pass.seen[i] # x
          BY <5>1 DEF Has
        <5>5. \A id : Has(pass'.seen, id) => Has(pass.seen, id) \/ id = x
          BY <5>2, <5>3 DEF Has
        <5>6. ASSUME NEW i \in DOMAIN pass'.seen, NEW j \in DOMAIN pass'.seen, pass'.seen[i] = pass'.seen[j]
              PROVE  i = j
          BY <5>2, <5>3, <5>4, <5>6 DEF Distinct, AllDistinct
        <5> QED
          BY <5>5, <5>6 DEF Distinct
      <4> QED
        BY <2>3, <4>1, <4>2
    <3>3. \A u \in Transcript : \A id : From(u, id)' => From(u, id)
      BY <2>1, <3>1, <3>2 DEF From, InFile, Lines
    <3> QED
      BY <2>1, <3>1, <3>2, <3>3 DEF AllDistinct
  <2> QED
    BY <1>4, <2>2, <2>3, CountsLineDoes
<1>5. CASE AddsRows(p)
  <2>1. /\ UNCHANGED <<text, cursor>> /\ pass'.at = "add" /\ pass'.seen = pass.seen /\ pass'.cursor = pass.cursor
    BY <1>5, AddsRowsDoes
  <2> QED
    BY <2>1 DEF From, InFile, Lines, AllDistinct
<1>6. CASE SavesCursor(p)
  <2>1. text' = text /\ cursor' = pass.cursor /\ pass' = NoPass
    BY <1>6, SavesDoes
  <2>2. /\ \A t \in Transcript : pass'.cursor[t].seen = <<>>
        /\ pass'.seen = <<>> /\ pass'.at = "idle" /\ \A x : ~Has(<<>>, x)
    BY <2>1, NothingHas
  <2>3. \A t \in Transcript : \A id : From(t, id)' => From(t, id)
    BY <2>1, <2>2 DEF From, InFile, Lines
  <2> QED
    BY <2>1, <2>2, <2>3, NothingHas DEF AllDistinct
<1> QED
  BY <1>1, <1>2, <1>3, <1>4, <1>5, <1>6 DEF PassSteps

LEMMA OfOneKilled ==
    ASSUME TypeOK, OfOne, AllDistinct, NEW p \in Proc, Killed(p)
    PROVE  /\ \A t \in Transcript : \A id : From(t, id)' => From(t, id)
           /\ AllDistinct'
<1>1. UNCHANGED <<text, cursor>> /\ (pass' = pass \/ pass' = NoPass)
  BY KilledDoes
<1>2. CASE pass' = pass
  BY <1>1, <1>2 DEF From, InFile, Lines, AllDistinct
<1>3. CASE pass' = NoPass
  <2>1. /\ \A t \in Transcript : pass'.cursor[t].seen = <<>>
        /\ pass'.seen = <<>> /\ pass'.at = "idle" /\ \A x : ~Has(<<>>, x)
    BY <1>3, NothingHas
  <2>2. \A t \in Transcript : \A id : From(t, id)' => From(t, id)
    BY <1>1, <2>1 DEF From, InFile, Lines
  <2> QED
    BY <1>1, <2>1, <2>2, NothingHas DEF AllDistinct
<1> QED
  BY <1>1, <1>2, <1>3

-----------------------------------------------------------------------------
(* Where no file is replaced, what a cursor has gone past stays behind.    *)

LEMMA ReadUpToGrows ==
    ASSUME NEW l, NEW m, AppendsTo(l, m), NEW n, NEW seen, ReadUpTo(l, n, seen)
    PROVE  ReadUpTo(m, n, seen)
<1>1. \A id : HasLine(l, id) => HasLine(m, id)
  BY DEF HasLine, AppendsTo
<1>2. ASSUME NEW i \in DOMAIN m, i > n, NEW j \in DOMAIN seen PROVE seen[j] <= m[i].id
  <2>1. CASE i \in DOMAIN l
    BY <1>2, <2>1 DEF ReadUpTo, AppendsTo
  <2>2. CASE i \notin DOMAIN l
    <3>1. PICK k \in DOMAIN l : l[k].id = seen[j]
      BY DEF ReadUpTo, HasLine
    <3> QED
      BY <2>2, <3>1 DEF AppendsTo
  <2> QED
    BY <2>1, <2>2
<1> QED
  BY <1>1, <1>2 DEF ReadUpTo

LEMMA NothingRead == \A lines, n : ReadUpTo(lines, n, <<>>)
BY DEF ReadUpTo

LEMMA SteadyGiven ==
    ASSUME TypeOK, OfOne, InOrder, Steady, SteadyOK, Given
    PROVE  SteadyOK'
<1>1. /\ UNCHANGED <<cursor, pass>>
      /\ \A t \in Transcript : text'[t].ino = text[t].ino /\ AppendsTo(Lines(t), text'[t].lines)
  BY GivenText
<1>2. \A t \in Transcript : \A n, seen : ReadUpTo(Lines(t), n, seen) => ReadUpTo(text'[t].lines, n, seen)
  BY <1>1, ReadUpToGrows
<1>3. \A t \in Transcript : \A m : Follows(text[t], m) => Follows(text'[t], m)
  BY <1>1, <1>2 DEF Follows, Lines
<1>4. \A t \in Transcript : Follows(text'[t], cursor'[t]) /\ Follows(text'[t], pass'.cursor[t])
  BY <1>1, <1>3 DEF SteadyOK
<1>5. pass.t \in Transcript
  BY Rings
<1>6. \A i \in DOMAIN Lines(pass.t) : i \in DOMAIN text'[pass.t].lines /\ text'[pass.t].lines[i] = Lines(pass.t)[i]
  BY <1>1, <1>5 DEF AppendsTo
<1>7. Lines(pass.t)' = text'[pass.t].lines
  BY <1>1 DEF Lines
<1>8. CASE pass.at = "read"
  <2>1. ReadUpTo(text'[pass.t].lines, pass.from, pass.seen) /\ pass.ino = text'[pass.t].ino
    BY <1>1, <1>2, <1>5, <1>8 DEF SteadyOK, InFileOK
  <2> QED
    BY <1>1, <1>4, <1>7, <1>8, <2>1 DEF SteadyOK, InFileOK
<1>9. CASE pass.at = "line"
  <2>1. /\ ReadUpTo(text'[pass.t].lines, pass.upto - Len(pass.data), pass.seen) /\ pass.ino = text'[pass.t].ino
        /\ \A k \in DOMAIN pass.data :
                /\ pass.upto - Len(pass.data) + k \in DOMAIN text'[pass.t].lines
                /\ text'[pass.t].lines[pass.upto - Len(pass.data) + k] = pass.data[k]
    BY <1>1, <1>2, <1>5, <1>6, <1>9 DEF SteadyOK, InFileOK
  <2> QED
    BY <1>1, <1>4, <1>7, <1>9, <2>1 DEF SteadyOK, InFileOK
<1>10. CASE pass.at \notin {"read", "line"}
  BY <1>1, <1>4, <1>10 DEF SteadyOK, InFileOK
<1> QED
  BY <1>8, <1>9, <1>10

(* A file that has only grown is never taken for a shorter one. *)
LEMMA NotShorter ==
    ASSUME TypeOK, KeepInv, Steady, SteadyOK, NEW t \in Transcript
    PROVE  LET m == StartsOver(t, pass.cursor[t])
           IN  ReadUpTo(Lines(t), m.off, m.seen) /\ m.seen \in Seq(Nat)
<1> DEFINE c == pass.cursor[t]
           m == StartsOver(t, c)
<1>1. c \in Mark /\ ReadUpTo(Lines(t), c.off, c.seen) /\ (c.ino = text[t].ino \/ c.seen = <<>>)
  BY Rings DEF SteadyOK, Follows, Lines
<1>2. m.seen = c.seen /\ c.seen \in Seq(Nat)
  BY <1>1, StartsOverTyped DEF Mark
<1>3. CASE c.seen = <<>>
  BY <1>2, <1>3, NothingRead
<1>4. CASE c.ino = text[t].ino
  <2>1. PassOK /\ c.off \in Nat
    BY <1>1 DEF KeepInv, Steady, Mark
  <2>2. c.off # 0 => c.off <= Whole(t)
    <3>1. c.off # 0 => c.off \in 1 .. c.off
      BY <2>1
    <3> QED
      BY <1>4, <2>1, <3>1 DEF PassOK, HeldUpto
  <2>3. Len(Lines(t)) \in Nat /\ text[t].whole \in BOOLEAN
    BY LinesOf DEF TypeOK
  <2>4. c.off # 0 => ~(Size(t) < 2 * c.off)
    BY <2>1, <2>2, <2>3 DEF Whole, Size
  <2>5. m.off = c.off
    <3>1. CASE c.off = 0
      BY <1>1, <3>1, StartsOverTyped
    <3>2. CASE c.off # 0
      BY <1>4, <2>4, <3>2 DEF StartsOver
    <3> QED
      BY <3>1, <3>2
  <2> QED
    BY <1>1, <1>2, <2>5
<1> QED
  BY <1>1, <1>3, <1>4

LEMMA SteadyStays ==
    ASSUME SteadyOK, UNCHANGED <<text, cursor>>, pass'.cursor = pass.cursor, InFileOK'
    PROVE  SteadyOK'
BY DEF SteadyOK

(* A pass notes what it has gone past. *)
LEMMA SteadyNotes ==
    ASSUME TypeOK, SteadyOK, UNCHANGED <<text, cursor>>, pass'.at = "look",
           NEW t \in Transcript, NEW off, NEW seen \in Seq(Nat), ReadUpTo(Lines(t), off, seen),
           pass'.cursor = [pass.cursor EXCEPT ![t] = MarkAt(text[t].ino, off, seen)]
    PROVE  SteadyOK'
<1>1. Ring \in Nat \ {0}
  OBVIOUS
<1>2. ReadUpTo(Lines(t), off, Last(Ring, seen))
  BY <1>1, LastReadUpTo
<1>3. Follows(text[t], MarkAt(text[t].ino, off, seen))
  BY <1>2 DEF Follows, MarkAt, Lines
<1>4. \A u \in Transcript : pass'.cursor[u] = IF u = t THEN MarkAt(text[t].ino, off, seen) ELSE pass.cursor[u]
  BY Rings
<1>5. \A u \in Transcript : Follows(text'[u], pass'.cursor[u])
  BY <1>3, <1>4 DEF SteadyOK
<1> QED
  BY <1>5 DEF SteadyOK, InFileOK

LEMMA SteadyPass ==
    ASSUME TypeOK, KeepInv, InOrder, Steady, SteadyOK, NEW p \in Proc, PassStarts(p) \/ PassSteps(p)
    PROVE  SteadyOK'
<1>1. CASE PassStarts(p)
  <2>1. UNCHANGED <<text, cursor>> /\ pass'.at = "look" /\ pass'.cursor = cursor
    BY <1>1, StartsDoes
  <2> QED
    BY <2>1 DEF SteadyOK, InFileOK
<1>2. CASE Looks(p)
  <2>1. PICK t \in Transcript :
          /\ StartsOver(t, pass.cursor[t]) \in Mark /\ StartsOver(t, pass.cursor[t]).seen = pass.cursor[t].seen
          /\ \/ LooksOver(t, StartsOver(t, pass.cursor[t]))
             \/ LooksInto(t, StartsOver(t, pass.cursor[t]))
    BY <1>2, LooksDoes
  <2>2. UNCHANGED <<text, cursor>>
    BY <1>2, LooksDoes DEF PassLeaves
  <2> DEFINE m == StartsOver(t, pass.cursor[t])
  <2>3. ReadUpTo(Lines(t), m.off, m.seen) /\ m.seen \in Seq(Nat)
    BY NotShorter
  <2> HIDE DEF m
  <2>4. CASE LooksOver(t, m)
    BY <2>2, <2>3, <2>4, SteadyNotes DEF LooksOver
  <2>5. CASE LooksInto(t, m)
    <3>1. /\ pass'.at = "read" /\ pass'.seen = m.seen /\ pass'.cursor = pass.cursor /\ pass'.t = t
          /\ pass'.ino = text[t].ino /\ pass'.from = m.off
      BY <2>5 DEF LooksInto
    <3>2. InFileOK'
      BY <2>2, <2>3, <3>1 DEF InFileOK, Lines
    <3> QED
      BY <2>2, <3>1, <3>2, SteadyStays
  <2> QED
    BY <2>1, <2>4, <2>5 DEF m
<1>3. CASE Reads(p)
  <2>1. /\ UNCHANGED <<text, cursor>> /\ pass.at = "read" /\ pass'.at = "line" /\ pass'.seen = pass.seen
        /\ pass'.cursor = pass.cursor /\ pass'.t = pass.t /\ pass'.ino = pass.ino
        /\ pass'.upto - Len(pass'.data) = pass.from /\ LinesFrom(pass'.data, Lines(pass.t), pass.from)
    BY <1>3, ReadsDoes DEF PassLeaves
  <2>2. InFileOK'
    BY <2>1 DEF SteadyOK, InFileOK, Lines, LinesFrom
  <2> QED
    BY <2>1, <2>2, SteadyStays
<1>4. CASE CountsLine(p)
  <2>1. UNCHANGED <<text, cursor>> /\ pass.at = "line"
    BY <1>4, CountsLineDoes DEF PassLeaves
  <2> DEFINE n == pass.upto - Len(pass.data)
             lines == Lines(pass.t)
  <2>2. /\ ReadUpTo(lines, n, pass.seen) /\ pass.ino = text[pass.t].ino
        /\ \A k \in DOMAIN pass.data : n + k \in DOMAIN lines /\ lines[n + k] = pass.data[k]
    BY <2>1 DEF SteadyOK, InFileOK
  <2>3. pass.upto \in Nat /\ pass.t \in Transcript /\ pass.seen \in Seq(Nat) /\ Len(pass.data) \in Nat
    BY PassFields, LenProperties DEF TypeOK
  <2>4. lines \in Seq(Line) /\ DOMAIN lines = 1 .. Len(lines) /\ Len(lines) \in Nat /\ Ordered(lines)
    BY <2>3, LinesOf DEF TypeOK, InOrder
  <2>5. CASE EndsFile
    <3>1. Len(pass.data) = 0 /\ n = pass.upto
      BY <2>3, <2>5 DEF EndsFile
    <3> QED
      BY <2>1, <2>2, <2>3, <2>5, <3>1, SteadyNotes DEF EndsFile
  <2>6. ASSUME NEW x \in Nat, TakesLine(x), SkipsIt(x) \/ CountsIt(x)
        PROVE  SteadyOK'
    <3>1. /\ pass'.at = "line" /\ pass'.cursor = pass.cursor /\ pass'.t = pass.t
          /\ pass'.ino = pass.ino /\ pass'.upto = pass.upto
          /\ 1 \in DOMAIN pass.data /\ pass.data[1].id = x
          /\ Len(pass'.data) = Len(pass.data) - 1
          /\ \A k \in DOMAIN pass'.data : k + 1 \in DOMAIN pass.data /\ pass'.data[k] = pass.data[k + 1]
      BY <2>6 DEF TakesLine
    <3>2. n \in Int /\ pass'.upto - Len(pass'.data) = n + 1
      BY <2>3, <3>1
    <3>3. n + 1 \in DOMAIN lines /\ lines[n + 1].id = x
      BY <2>2, <3>1
    <3> HIDE DEF n, lines
    <3>4. pass'.data \in Seq(Line)
      <4>1. ReadingOK'
        BY <1>4, CountsLineTyped, PartsStay DEF TypeOK, CountsLine, ReadingOK
      <4> QED
        BY <4>1 DEF ReadingOK, Pass
    <3>5. \A k \in DOMAIN pass'.data : k \in Nat
      BY <3>4, LenProperties
    <3>6. ASSUME NEW k \in DOMAIN pass'.data
          PROVE  n + 1 + k \in DOMAIN lines /\ lines[n + 1 + k] = pass'.data[k]
      <4>1. k \in Nat /\ n + (k + 1) = n + 1 + k
        BY <3>2, <3>5
      <4>2. k + 1 \in DOMAIN pass.data /\ pass'.data[k] = pass.data[k + 1]
        BY <3>1
      <4>3. n + (k + 1) \in DOMAIN lines /\ lines[n + (k + 1)] = pass.data[k + 1]
        BY <2>2, <4>2
      <4> QED
        BY <4>1, <4>2, <4>3
    <3>7. ReadUpTo(lines, n + 1, pass'.seen)
      <4>1. CASE SkipsIt(x)
        <5>1. pass'.seen = pass.seen
          BY <4>1 DEF SkipsIt
        <5>2. \A i \in DOMAIN lines : i > n + 1 => i > n
          BY <2>4, <3>2
        <5> QED
          BY <2>2, <5>1, <5>2 DEF ReadUpTo
      <4>2. CASE CountsIt(x)
        <5>1. pass'.seen = Append(pass.seen, x)
          BY <4>2 DEF CountsIt
        <5>2. /\ Len(pass.seen) \in Nat /\ DOMAIN pass.seen = 1 .. Len(pass.seen)
              /\ DOMAIN pass'.seen = 1 .. Len(pass.seen) + 1 /\ pass'.seen[Len(pass.seen) + 1] = x
              /\ \A i \in 1 .. Len(pass.seen) : pass'.seen[i] = pass.seen[i]
          BY <2>3, <2>6, <5>1, LenProperties, AppendProperties
        <5>3. \A j \in DOMAIN pass'.seen :
                \/ j = Len(pass.seen) + 1 /\ pass'.seen[j] = x
                \/ j \in DOMAIN pass.seen /\ j <= Len(pass.seen) /\ pass'.seen[j] = pass.seen[j]
          BY <5>2
        <5>4. \A j \in DOMAIN pass.seen : pass.seen[j] <= x
          BY <2>2, <3>2, <3>3 DEF ReadUpTo
        <5>5. \A i, j \in DOMAIN pass'.seen : i <= j => pass'.seen[i] <= pass'.seen[j]
          <6> SUFFICES ASSUME NEW i \in DOMAIN pass'.seen, NEW j \in DOMAIN pass'.seen, i <= j
              PROVE  pass'.seen[i] <= pass'.seen[j]
            OBVIOUS
          <6>1. CASE j = Len(pass.seen) + 1
            BY <2>6, <5>2, <5>3, <5>4, <6>1
          <6>2. CASE j # Len(pass.seen) + 1
            <7>1. j \in DOMAIN pass.seen /\ i \in DOMAIN pass.seen
              BY <5>2, <6>2
            <7>2. pass'.seen[i] = pass.seen[i] /\ pass'.seen[j] = pass.seen[j]
              BY <5>2, <7>1
            <7> QED
              BY <2>2, <7>1, <7>2 DEF ReadUpTo
          <6> QED
            BY <6>1, <6>2
        <5>6. \A j \in DOMAIN pass'.seen : HasLine(lines, pass'.seen[j])
          <6>1. HasLine(lines, x)
            BY <3>3 DEF HasLine
          <6> QED
            BY <2>2, <5>3, <6>1 DEF ReadUpTo
        <5>7. ASSUME NEW i \in DOMAIN lines, i > n + 1, NEW j \in DOMAIN pass'.seen
              PROVE  pass'.seen[j] <= lines[i].id
          <6>1. i > n /\ n + 1 <= i
            BY <2>4, <3>2, <5>7
          <6>2. x <= lines[i].id
            BY <2>4, <3>3, <6>1 DEF Ordered
          <6>3. j \in DOMAIN pass.seen => pass.seen[j] <= lines[i].id
            BY <2>2, <6>1 DEF ReadUpTo
          <6> QED
            BY <5>3, <6>2, <6>3
        <5> QED
          BY <5>5, <5>6, <5>7 DEF ReadUpTo
      <4> QED
        BY <2>6, <4>1, <4>2
    <3>8. Lines(pass.t)' = lines
      BY <2>1, <3>1 DEF Lines, lines
    <3>9. InFileOK'
      BY <2>1, <2>2, <3>1, <3>2, <3>6, <3>7, <3>8 DEF InFileOK
    <3> QED
      BY <2>1, <3>1, <3>9, SteadyStays
  <2> QED
    BY <1>4, <2>5, <2>6, CountsLineDoes
<1>5. CASE AddsRows(p)
  <2>1. UNCHANGED <<text, cursor>> /\ pass'.at = "add" /\ pass'.cursor = pass.cursor
    BY <1>5, AddsRowsDoes
  <2> QED
    BY <2>1, SteadyStays DEF InFileOK
<1>6. CASE SavesCursor(p)
  <2>1. text' = text /\ cursor' = pass.cursor /\ pass' = NoPass
    BY <1>6, SavesDoes
  <2>2. pass'.at = "idle" /\ \A t \in Transcript : pass'.cursor[t].seen = <<>>
    BY <2>1, NothingHas
  <2>3. \A t \in Transcript : Follows(text'[t], pass'.cursor[t])
    BY <2>2, NothingRead DEF Follows
  <2> QED
    BY <2>1, <2>2, <2>3 DEF SteadyOK, InFileOK
<1> QED
  BY <1>1, <1>2, <1>3, <1>4, <1>5, <1>6 DEF PassSteps

LEMMA SteadyKilled ==
    ASSUME TypeOK, SteadyOK, NEW p \in Proc, Killed(p)
    PROVE  SteadyOK'
<1>1. UNCHANGED <<text, cursor>> /\ (pass' = pass \/ pass' = NoPass)
  BY KilledDoes
<1>2. CASE pass' = pass
  BY <1>1, <1>2 DEF SteadyOK, InFileOK, Lines
<1>3. CASE pass' = NoPass
  <2>1. pass'.at = "idle" /\ \A t \in Transcript : pass'.cursor[t].seen = <<>>
    BY <1>3, NothingHas
  <2>2. \A t \in Transcript : Follows(text'[t], pass'.cursor[t])
    BY <2>1, NothingRead DEF Follows
  <2> QED
    BY <1>1, <2>1, <2>2 DEF SteadyOK, InFileOK
<1> QED
  BY <1>1, <1>2, <1>3

-----------------------------------------------------------------------------
(* How often a message is counted. *)

RowsOf(b, id) == {r \in BagToSet(b) : r.id = id}

LEMMA CountedIs ==
    ASSUME NEW id
    PROVE  /\ Counted(id) = SumOver(rows, RowsOf(rows, id))
           /\ Counted(id)' = SumOver(rows', RowsOf(rows', id))
BY DEF Counted, RowsOf, MapThenSumSet, MapThenFoldSet, SumOver, Sums, SumStep, Pick

LEMMA RowsAre ==
    ASSUME TypeOK, FiniteOK, NEW S \in SUBSET BagToSet(rows)
    PROVE  IsFiniteSet(S) /\ (\A r \in S : rows[r] \in Nat) /\ SumOver(rows, S) \in Nat
<1>1. IsFiniteSet(S)
  BY FS_Subset DEF FiniteOK
<1>2. \A r \in S : rows[r] \in Nat
  BY DEF TypeOK, ReadingOK
<1> QED
  BY <1>1, <1>2, SumIsNat

LEMMA CountedTyped ==
    ASSUME TypeOK, FiniteOK, NEW id
    PROVE  Counted(id) \in Nat
<1>1. RowsOf(rows, id) \in SUBSET BagToSet(rows)
  BY DEF RowsOf
<1> QED
  BY <1>1, RowsAre, CountedIs

LEMMA CountedSame ==
    ASSUME rows' = rows
    PROVE  \A id : Counted(id)' = Counted(id)
BY CountedIs

LEMMA CountedAdds ==
    ASSUME TypeOK, FiniteOK, NEW these \in SUBSET pass.out, rows' = rows (+) SetToBag(these),
           \A r, q \in pass.out : r.id = q.id => r = q, NEW id
    PROVE  /\ (\A r \in these : r.id # id) => Counted(id)' = Counted(id)
           /\ Counted(id)' <= Counted(id) + 1
<1> DEFINE S == RowsOf(rows, id)
           T == RowsOf(rows', id)
<1>1. /\ BagToSet(rows') = BagToSet(rows) \cup these
      /\ \A r \in BagToSet(rows) \ these : rows'[r] = rows[r] + 0
      /\ \A r \in these : rows'[r] = (IF r \in BagToSet(rows) THEN rows[r] ELSE 0) + 1
  BY DEF (+), SetToBag, BagToSet
<1>2. /\ S \in SUBSET BagToSet(rows) /\ T = S \cup {r \in these : r.id = id}
      /\ S = RowsOf(rows, id) /\ T = RowsOf(rows', id)
  BY <1>1 DEF RowsOf
<1>3. IsFiniteSet(S) /\ (\A r \in S : rows[r] \in Nat) /\ SumOver(rows, S) \in Nat
  BY <1>2, RowsAre
<1>4. Counted(id) = SumOver(rows, S) /\ Counted(id)' = SumOver(rows', T)
  BY CountedIs
<1> HIDE DEF S, T
<1>5. CASE \A r \in these : r.id # id
  <2>1. T = S /\ \A r \in S : r \notin these /\ r \in BagToSet(rows)
    BY <1>2, <1>5 DEF RowsOf
  <2>2. \A r \in S : rows'[r] = rows[r]
    BY <1>1, <1>3, <2>1
  <2>3. SumOver(rows', S) = SumOver(rows, S)
    BY <1>3, <2>2, SumOfSame
  <2> QED
    BY <1>3, <1>4, <2>1, <2>3
<1>6. ASSUME NEW x \in these, x.id = id PROVE Counted(id)' <= Counted(id) + 1
  <2>1. \A r \in these : r.id = id => r = x
    BY <1>6
  <2>2. T = S \cup {x} /\ T \ {x} = S \ {x}
    BY <1>2, <1>6, <2>1
  <2>3. \A r \in S \ {x} : r \in BagToSet(rows) \ these
    BY <1>2, <2>1 DEF RowsOf
  <2>4. \A r \in S \ {x} : rows'[r] = rows[r]
    BY <1>1, <1>3, <2>3
  <2>5. IsFiniteSet(S \ {x}) /\ IsFiniteSet(T) /\ SumOver(rows, S \ {x}) \in Nat
    <3>1. S \ {x} \in SUBSET BagToSet(rows)
      BY <1>2
    <3> QED
      BY <1>3, <2>2, <3>1, RowsAre, FS_AddElement
  <2>6. SumOver(rows', S \ {x}) = SumOver(rows, S \ {x})
    BY <2>4, <2>5, SumOfSame
  <2>7. x \in BagToSet(rows) <=> x \in S
    BY <1>2, <1>6 DEF RowsOf
  <2>8. rows'[x] = (IF x \in S THEN rows[x] ELSE 0) + 1 /\ (x \in S => rows[x] \in Nat)
    BY <1>1, <1>3, <1>6, <2>7
  <2>9. \A r \in T : rows'[r] \in Nat
    BY <1>3, <2>2, <2>4, <2>8
  <2>10. SumOver(rows', T) = rows'[x] + SumOver(rows', T \ {x})
    BY <2>2, <2>5, <2>9, SumWithout
  <2>11. CASE x \in S
    <3>1. SumOver(rows, S) = rows[x] + SumOver(rows, S \ {x})
      BY <1>3, <2>11, SumWithout
    <3>2. SumOver(rows', T) = rows[x] + 1 + SumOver(rows, S \ {x}) /\ rows[x] \in Nat
      BY <2>2, <2>6, <2>8, <2>10, <2>11
    <3>3. SumOver(rows', T) = SumOver(rows, S) + 1 /\ SumOver(rows, S) \in Nat
      BY <1>3, <2>5, <3>1, <3>2
    <3> QED
      BY <1>4, <3>3
  <2>12. CASE x \notin S
    <3>0. S \ {x} = S
      BY <2>12
    <3>1. SumOver(rows, S \ {x}) = SumOver(rows, S)
      BY <3>0
    <3>2. SumOver(rows', T) = 0 + 1 + SumOver(rows, S \ {x})
      BY <2>2, <2>6, <2>8, <2>10, <2>12
    <3>3. SumOver(rows', T) = SumOver(rows, S) + 1 /\ SumOver(rows, S) \in Nat
      BY <1>3, <3>1, <3>2
    <3> QED
      BY <1>4, <3>3
  <2> QED
    BY <2>11, <2>12
<1>7. Counted(id) \in Nat
  BY CountedTyped
<1> QED
  BY <1>5, <1>6, <1>7

-----------------------------------------------------------------------------
(* What is counted has been met. *)

Known(id) == IF pass.at = "idle" THEN Saved(id) ELSE Met(id)

LEMMA CountStays ==
    ASSUME CountOK, rows' = rows, count'.kill = count.kill,
           \A id \in Nat : Known(id) => Known(id)',
           pass'.out = {} \/ (pass'.out = pass.out /\ \A id \in Nat : Met(id) => Met(id)'),
           \A r \in pass.out : r.id \in Nat
    PROVE  CountOK'
<1>1. \A id : Counted(id)' = Counted(id)
  BY CountedSame
<1>2. \A id \in Nat : Counted(id)' <= 1 + count'.kill
  BY <1>1 DEF CountOK
<1>3. \A id \in Nat : Counted(id)' <= count'.kill \/ Known(id)'
  BY <1>1 DEF CountOK, Known
<1>4. \A r \in pass'.out : Counted(r.id)' <= count'.kill /\ Met(r.id)'
  BY <1>1 DEF CountOK
<1>5. \A r, q \in pass'.out : r.id = q.id => r = q
  BY DEF CountOK
<1> QED
  BY <1>2, <1>3, <1>4, <1>5 DEF CountOK, Known

LEMMA OutIds == ASSUME TypeOK PROVE \A r \in pass.out : r \in Row /\ r.id \in Nat
BY DEF TypeOK, ReadingOK, Pass, Row

LEMMA CountGiven ==
    ASSUME TypeOK, OfOne, InOrder, CountOK, Given
    PROVE  CountOK'
<1>1. /\ UNCHANGED <<cursor, rows, pass, play>> /\ count'.kill = count.kill
      /\ Steady => \A t \in Transcript : AppendsTo(Lines(t), text'[t].lines)
  BY GivenText
<1>2. Steady => \A t \in Transcript : \A id : HasLine(Lines(t), id) => HasLine(text'[t].lines, id)
  BY <1>1 DEF AppendsTo, HasLine
<1>3. \A t \in Transcript : \A seen, id :
        (Has(seen, id) \/ (Steady /\ Passed(Lines(t), seen, id))) =>
            Has(seen, id) \/ (Steady /\ Passed(text'[t].lines, seen, id))
  BY <1>2 DEF Passed
<1>4. Steady' = Steady /\ \A t \in Transcript : Lines(t)' = text'[t].lines /\ SeenOf(t)' = SeenOf(t)
  BY <1>1 DEF Steady, Lines, SeenOf, InFile
<1>5. \A id \in Nat : Met(id) => Met(id)'
  BY <1>3, <1>4 DEF Met, Beyond
<1>6. \A id \in Nat : Saved(id) => Saved(id)'
  BY <1>1, <1>3, <1>4 DEF Saved, Beyond
<1>7. \A id \in Nat : Known(id) => Known(id)'
  BY <1>1, <1>5, <1>6 DEF Known
<1> QED
  BY <1>1, <1>5, <1>7, CountStays, OutIds

(* What a pass knows of the other transcripts stays. *)
LEMMA MetStays ==
    ASSUME UNCHANGED <<text, play>>, NEW id,
           \A t \in Transcript : Beyond(t, SeenOf(t), id) => Beyond(t, SeenOf(t)', id), Met(id)
    PROVE  Met(id)'
<1>1. \A t \in Transcript : \A seen : (Has(seen, id) \/ (Steady /\ Passed(Lines(t), seen, id))) =>
        Has(seen, id) \/ (Steady' /\ Passed(Lines(t)', seen, id))
  BY DEF Lines, Steady
<1> QED
  BY <1>1 DEF Met, Beyond

(* The rings of a pass are fit to be cut. *)
LEMMA FitToCut ==
    ASSUME TypeOK, OfOne, AllDistinct, Steady => SteadyOK, NEW t \in Transcript
    PROVE  /\ count.msg \in Nat
           /\ \E n : LET s == pass.cursor[t].seen
                     IN  /\ s \in Seq(Nat) /\ Distinct(s) /\ \A i \in DOMAIN s : s[i] \in 1 .. count.msg
                         /\ Steady => ReadUpTo(Lines(t), n, s)
<1>1. count.msg \in Nat
  BY DEF TypeOK, GivenOK
<1>2. \A i \in DOMAIN pass.cursor[t].seen : From(t, pass.cursor[t].seen[i])
  BY DEF From, Has
<1>3. Steady => ReadUpTo(Lines(t), pass.cursor[t].off, pass.cursor[t].seen)
  BY DEF SteadyOK, Follows, Lines
<1>4. \A i \in DOMAIN pass.cursor[t].seen : pass.cursor[t].seen[i] \in 1 .. count.msg
  BY <1>2 DEF OfOne
<1>5. pass.cursor[t].seen \in Seq(Nat) /\ Distinct(pass.cursor[t].seen)
  BY Rings DEF AllDistinct
<1> QED
  BY <1>1, <1>3, <1>4, <1>5

LEMMA CountLooks ==
    ASSUME TypeOK, OfOne, AllDistinct, Steady => SteadyOK, Enough, CountOK, NEW p \in Proc, Looks(p)
    PROVE  CountOK'
<1>1. PICK t \in Transcript :
          /\ StartsOver(t, pass.cursor[t]) \in Mark /\ StartsOver(t, pass.cursor[t]).seen = pass.cursor[t].seen
          /\ \/ LooksOver(t, StartsOver(t, pass.cursor[t]))
             \/ LooksInto(t, StartsOver(t, pass.cursor[t]))
  BY LooksDoes
<1>2. UNCHANGED <<text, cursor, rows, play, count>> /\ pass.at = "look"
  BY LooksDoes DEF PassLeaves
<1> DEFINE m == StartsOver(t, pass.cursor[t])
<1>3. m.seen = pass.cursor[t].seen
  BY <1>1
<1> HIDE DEF m
<1>4. \A u \in Transcript : SeenOf(u) = pass.cursor[u].seen
  BY <1>2 DEF SeenOf, InFile
<1>5. ASSUME NEW id \in Nat, Beyond(t, pass.cursor[t].seen, id)
      PROVE  Beyond(t, Last(Ring, pass.cursor[t].seen), id)
  <2>1. PICK s : s = pass.cursor[t].seen
    OBVIOUS
  <2>2. PICK n : /\ s \in Seq(Nat) /\ Distinct(s) /\ \A i \in DOMAIN s : s[i] \in 1 .. count.msg
                 /\ Steady => ReadUpTo(Lines(t), n, s)
    BY <2>1, FitToCut
  <2>3. count.msg \in Nat /\ Beyond(t, s, id)
    BY <1>5, <2>1, FitToCut
  <2>4. Beyond(t, Last(Ring, s), id)
    BY <2>2, <2>3, LastBeyond
  <2> QED
    BY <2>1, <2>4
<1>6. CASE LooksOver(t, m)
  <2>1. /\ pass'.at = "look" /\ pass'.out = pass.out
        /\ \A u \in Transcript : pass'.cursor[u].seen = IF u = t THEN Last(Ring, m.seen) ELSE pass.cursor[u].seen
    BY <1>6, Rings DEF LooksOver, MarkAt
  <2>2. \A u \in Transcript : SeenOf(u)' = IF u = t THEN Last(Ring, pass.cursor[t].seen) ELSE SeenOf(u)
    BY <1>3, <1>4, <2>1 DEF SeenOf, InFile
  <2>3. ASSUME NEW id \in Nat, Met(id) PROVE Met(id)'
    <3>1. \A u \in Transcript : Beyond(u, SeenOf(u), id) => Beyond(u, SeenOf(u)', id)
      BY <1>4, <1>5, <2>2
    <3> QED
      BY <1>2, <2>3, <3>1, MetStays
  <2> QED
    BY <1>2, <2>1, <2>3, CountStays, OutIds DEF Known
<1>7. CASE LooksInto(t, m)
  <2>1. pass'.at = "read" /\ pass'.out = pass.out /\ pass'.seen = m.seen /\ pass'.cursor = pass.cursor /\ pass'.t = t
    BY <1>7 DEF LooksInto
  <2>2. \A u \in Transcript : SeenOf(u)' = SeenOf(u)
    BY <1>3, <1>4, <2>1 DEF SeenOf, InFile
  <2>3. ASSUME NEW id \in Nat, Met(id) PROVE Met(id)'
    BY <1>2, <2>2, <2>3, MetStays
  <2> QED
    BY <1>2, <2>1, <2>3, CountStays, OutIds DEF Known
<1> QED
  BY <1>1, <1>6, <1>7 DEF m

(* A line that is not in the ring is of a message that has not been met. *)
LEMMA NotMet ==
    ASSUME TypeOK, OfOne, Steady => SteadyOK, pass.at = "line", NEW x \in Nat, TakesLine(x), ~Has(pass.seen, x)
    PROVE  ~Met(x)
<1>1. pass.t \in Transcript /\ pass.seen \in Seq(Nat)
  BY Rings
<1>2. HasLine(pass.data, x)
  BY DEF TakesLine, HasLine
<1>3. From(pass.t, x)
  BY <1>2 DEF From
<1> SUFFICES ASSUME NEW u \in Transcript, Beyond(u, SeenOf(u), x) PROVE FALSE
  BY DEF Met
<1>4. CASE u # pass.t
  <2>1. SeenOf(u) = pass.cursor[u].seen
    BY <1>4 DEF SeenOf, InFile
  <2>2. From(u, x)
    BY <2>1 DEF Beyond, Passed, From
  <2> QED
    BY <1>1, <1>3, <1>4, <2>2 DEF OfOne
<1>5. CASE u = pass.t
  <2>1. SeenOf(u) = pass.seen
    BY <1>5 DEF SeenOf, InFile
  <2>2. Steady /\ \E j \in DOMAIN pass.seen : x <= pass.seen[j]
    BY <2>1 DEF Beyond, Passed
  <2>3. PICK j \in DOMAIN pass.seen : x <= pass.seen[j]
    BY <2>2
  <2> DEFINE n == pass.upto - Len(pass.data)
             lines == Lines(pass.t)
  <2>4. /\ ReadUpTo(lines, n, pass.seen)
        /\ \A k \in DOMAIN pass.data : n + k \in DOMAIN lines /\ lines[n + k] = pass.data[k]
    BY <2>2 DEF SteadyOK, InFileOK
  <2>5. n + 1 \in DOMAIN lines /\ lines[n + 1].id = x
    BY <2>4 DEF TakesLine
  <2>6. n \in Int
    BY PassFields, LenProperties DEF TypeOK
  <2>7. pass.seen[j] \in Nat
    BY <1>1, LenProperties, ElementOfSeq
  <2> HIDE DEF n, lines
  <2>8. pass.seen[j] <= x
    BY <2>4, <2>5, <2>6 DEF ReadUpTo
  <2>9. pass.seen[j] = x
    BY <2>3, <2>7, <2>8
  <2> QED
    BY <2>9 DEF Has
<1> QED
  BY <1>4, <1>5

LEMMA CountLine ==
    ASSUME TypeOK, OfOne, AllDistinct, Steady => SteadyOK, Enough, CountOK, NEW p \in Proc, CountsLine(p)
    PROVE  CountOK'
<1>1. UNCHANGED <<text, cursor, rows, play, count>> /\ pass.at = "line"
  BY CountsLineDoes DEF PassLeaves
<1>2. pass.t \in Transcript /\ pass.seen \in Seq(Nat)
  BY Rings
<1>3. \A u \in Transcript : SeenOf(u) = IF u = pass.t THEN pass.seen ELSE pass.cursor[u].seen
  BY <1>1 DEF SeenOf, InFile
<1>4. CASE EndsFile
  <2>1. /\ pass'.at = "look" /\ pass'.out = pass.out
        /\ \A u \in Transcript :
              pass'.cursor[u].seen = IF u = pass.t THEN Last(Ring, pass.seen) ELSE pass.cursor[u].seen
    BY <1>4, Rings DEF EndsFile, MarkAt
  <2>2. \A u \in Transcript : SeenOf(u)' = IF u = pass.t THEN Last(Ring, pass.seen) ELSE SeenOf(u)
    BY <1>3, <2>1 DEF SeenOf, InFile
  <2>3. ASSUME NEW id \in Nat, Beyond(pass.t, pass.seen, id)
        PROVE  Beyond(pass.t, Last(Ring, pass.seen), id)
    <3>1. \A i \in DOMAIN pass.seen : From(pass.t, pass.seen[i])
      BY <1>1 DEF From, InFile, Has
    <3>2. \A i \in DOMAIN pass.seen : pass.seen[i] \in 1 .. count.msg
      BY <1>2, <3>1 DEF OfOne
    <3>3. Steady => ReadUpTo(Lines(pass.t), pass.upto - Len(pass.data), pass.seen)
      BY <1>1 DEF SteadyOK, InFileOK
    <3>4. Distinct(pass.seen) /\ count.msg \in Nat
      BY DEF AllDistinct, TypeOK, GivenOK
    <3> QED
      BY <1>2, <2>3, <3>2, <3>3, <3>4, LastBeyond
  <2>4. ASSUME NEW id \in Nat, Met(id) PROVE Met(id)'
    <3>1. \A u \in Transcript : Beyond(u, SeenOf(u), id) => Beyond(u, SeenOf(u)', id)
      BY <1>3, <2>2, <2>3
    <3> QED
      BY <1>1, <2>4, <3>1, MetStays
  <2> QED
    BY <1>1, <2>1, <2>4, CountStays, OutIds DEF Known
<1>5. ASSUME NEW x \in Nat, TakesLine(x), SkipsIt(x) PROVE CountOK'
  <2>1. /\ pass'.at = "line" /\ pass'.out = pass.out /\ pass'.seen = pass.seen
        /\ pass'.cursor = pass.cursor /\ pass'.t = pass.t
    BY <1>5 DEF TakesLine, SkipsIt
  <2>2. \A u \in Transcript : SeenOf(u)' = SeenOf(u)
    BY <1>3, <2>1 DEF SeenOf, InFile
  <2>3. ASSUME NEW id \in Nat, Met(id) PROVE Met(id)'
    BY <1>1, <2>2, <2>3, MetStays
  <2> QED
    BY <1>1, <2>1, <2>3, CountStays, OutIds DEF Known
<1>6. ASSUME NEW x \in Nat, TakesLine(x), CountsIt(x) PROVE CountOK'
  <2>1. PICK row \in Row : row.id = x /\ pass'.out = pass.out \cup {row}
    BY <1>6 DEF CountsIt
  <2>2. /\ pass'.at = "line" /\ pass'.cursor = pass.cursor /\ pass'.t = pass.t
        /\ ~Has(pass.seen, x) /\ pass'.seen = Append(pass.seen, x)
    BY <1>6 DEF TakesLine, CountsIt
  <2>3. \A u \in Transcript : SeenOf(u)' = IF u = pass.t THEN Append(pass.seen, x) ELSE SeenOf(u)
    BY <1>2, <1>3, <2>2 DEF SeenOf, InFile
  <2>4. /\ Has(Append(pass.seen, x), x)
        /\ \A i \in DOMAIN pass.seen : i \in DOMAIN Append(pass.seen, x) /\ Append(pass.seen, x)[i] = pass.seen[i]
    <3>1. /\ Len(pass.seen) \in Nat /\ DOMAIN pass.seen = 1 .. Len(pass.seen)
          /\ DOMAIN Append(pass.seen, x) = 1 .. Len(pass.seen) + 1 /\ Append(pass.seen, x)[Len(pass.seen) + 1] = x
          /\ \A i \in 1 .. Len(pass.seen) : Append(pass.seen, x)[i] = pass.seen[i]
      BY <1>2, <1>6, LenProperties, AppendProperties
    <3>2. Len(pass.seen) + 1 \in 1 .. Len(pass.seen) + 1
      BY <3>1
    <3> HIDE DEF Has
    <3>3. Has(Append(pass.seen, x), x)
      BY <3>1, <3>2 DEF Has
    <3>4. \A i \in 1 .. Len(pass.seen) : i \in 1 .. Len(pass.seen) + 1
      BY <3>1
    <3> QED
      BY <3>1, <3>3, <3>4
  <2>5. \A id : Beyond(pass.t, pass.seen, id) => Beyond(pass.t, Append(pass.seen, x), id)
    BY <2>4 DEF Beyond, Passed, Has
  <2>6. ASSUME NEW id \in Nat, Met(id) PROVE Met(id)'
    <3>1. \A u \in Transcript : Beyond(u, SeenOf(u), id) => Beyond(u, SeenOf(u)', id)
      BY <1>3, <2>3, <2>5
    <3> QED
      BY <1>1, <2>6, <3>1, MetStays
  <2>7. Met(x)'
    <3>1. PICK u \in Transcript : u = pass.t
      BY <1>2
    <3>2. Has(SeenOf(u)', x)
      BY <2>3, <2>4, <3>1
    <3> QED
      BY <3>2 DEF Met, Beyond
  <2>8. ~Met(x)
    BY <1>1, <1>6, <2>2, NotMet
  <2>9. Counted(x) <= count.kill /\ \A r \in pass.out : r.id # x
    BY <1>1, <2>8 DEF CountOK
  <2>10. \A id : Counted(id)' = Counted(id)
    BY <1>1, CountedSame
  <2>11. \A id \in Nat : Counted(id)' <= 1 + count'.kill
    BY <1>1, <2>10 DEF CountOK
  <2>12. \A id \in Nat : Counted(id)' <= count'.kill \/ Met(id)'
    BY <1>1, <2>6, <2>10 DEF CountOK
  <2>13. \A r \in pass'.out : Counted(r.id)' <= count'.kill /\ Met(r.id)'
    BY <1>1, <2>1, <2>6, <2>7, <2>9, <2>10, OutIds DEF CountOK
  <2>14. \A r, q \in pass'.out : r.id = q.id => r = q
    BY <2>1, <2>9 DEF CountOK
  <2> QED
    BY <2>2, <2>11, <2>12, <2>13, <2>14 DEF CountOK
<1> QED
  BY <1>4, <1>5, <1>6, CountsLineDoes

LEMMA CountAdds ==
    ASSUME TypeOK, FiniteOK, CountOK, NEW p \in Proc, AddsRows(p)
    PROVE  CountOK'
<1>1. /\ UNCHANGED <<text, cursor, play, count>> /\ pass.at \in {"look", "add"} /\ pass'.at = "add"
      /\ pass'.seen = pass.seen /\ pass'.cursor = pass.cursor
  BY AddsRowsDoes
<1>2. PICK these \in SUBSET pass.out : rows' = rows (+) SetToBag(these) /\ pass'.out = pass.out \ these
  BY AddsRowsDoes
<1>3. \A u \in Transcript : SeenOf(u)' = SeenOf(u)
  BY <1>1 DEF SeenOf, InFile
<1>4. ASSUME NEW id \in Nat, Met(id) PROVE Met(id)'
  BY <1>1, <1>3, <1>4, MetStays
<1>5. ASSUME NEW id \in Nat
      PROVE  /\ Counted(id) \in Nat /\ Counted(id)' \in Nat /\ count.kill \in Nat
             /\ (\A r \in these : r.id # id) => Counted(id)' = Counted(id)
             /\ Counted(id)' <= Counted(id) + 1
  <2>1. /\ (\A r \in these : r.id # id) => Counted(id)' = Counted(id)
        /\ Counted(id)' <= Counted(id) + 1
    BY <1>2, CountedAdds DEF CountOK
  <2>2. FiniteOK' /\ TypeOK'
    BY FiniteStep, AddsRowsTyped, PassStepsTyped DEF Next, PassSteps
  <2>3. Counted(id)' \in Nat
    <3>1. RowsOf(rows', id) \in SUBSET BagToSet(rows')
      BY DEF RowsOf
    <3>2. IsFiniteSet(RowsOf(rows', id)) /\ \A r \in RowsOf(rows', id) : rows'[r] \in Nat
      BY <2>2, <3>1, FS_Subset DEF FiniteOK, TypeOK, ReadingOK
    <3>3. SumOver(rows', RowsOf(rows', id)) \in Nat
      BY <3>2, SumIsNat
    <3> QED
      BY <3>3, CountedIs
  <2>4. count.kill \in Nat
    BY DEF TypeOK, GivenOK
  <2> QED
    BY <2>1, <2>3, <2>4, CountedTyped
<1>6. \A id \in Nat : Counted(id)' <= 1 + count'.kill
  <2> SUFFICES ASSUME NEW id \in Nat PROVE Counted(id)' <= 1 + count.kill
    BY <1>1
  <2>1. CASE \A r \in these : r.id # id
    BY <1>5, <2>1 DEF CountOK
  <2>2. CASE \E r \in these : r.id = id
    <3>1. Counted(id) <= count.kill
      BY <2>2 DEF CountOK
    <3> QED
      BY <1>5, <3>1
  <2> QED
    BY <2>1, <2>2
<1>7. \A id \in Nat : Counted(id)' <= count'.kill \/ Met(id)'
  <2> SUFFICES ASSUME NEW id \in Nat PROVE Counted(id)' <= count.kill \/ Met(id)'
    BY <1>1
  <2>1. CASE \A r \in these : r.id # id
    <3>1. Counted(id) <= count.kill \/ Met(id)
      BY <1>1 DEF CountOK
    <3> QED
      BY <1>4, <1>5, <2>1, <3>1
  <2>2. CASE \E r \in these : r.id = id
    <3>1. Met(id)
      BY <2>2 DEF CountOK
    <3> QED
      BY <1>4, <3>1
  <2> QED
    BY <2>1, <2>2
<1>8. \A r \in pass'.out : Counted(r.id)' <= count'.kill /\ Met(r.id)'
  <2> SUFFICES ASSUME NEW r \in pass.out \ these PROVE Counted(r.id)' <= count.kill /\ Met(r.id)'
    BY <1>1, <1>2
  <2>1. \A q \in these : q.id # r.id
    BY DEF CountOK
  <2>2. r.id \in Nat
    BY OutIds
  <2>3. Counted(r.id)' = Counted(r.id)
    BY <1>5, <2>1, <2>2
  <2>4. Counted(r.id) <= count.kill /\ Met(r.id)
    BY DEF CountOK
  <2> QED
    BY <1>4, <2>2, <2>3, <2>4
<1>9. \A r, q \in pass'.out : r.id = q.id => r = q
  BY <1>2 DEF CountOK
<1> QED
  BY <1>1, <1>6, <1>7, <1>8, <1>9 DEF CountOK

LEMMA CountPass ==
    ASSUME TypeOK, FiniteOK, OfOne, AllDistinct, Steady => SteadyOK, Enough, CountOK,
           NEW p \in Proc, PassStarts(p) \/ PassSteps(p)
    PROVE  CountOK'
<1>1. CASE PassStarts(p)
  <2>1. /\ UNCHANGED <<text, cursor, rows, play>> /\ count'.kill = count.kill
        /\ pass.at = "idle" /\ pass'.at = "look" /\ pass'.cursor = cursor /\ pass'.out = {}
    BY <1>1, StartsDoes
  <2>2. \A t \in Transcript : SeenOf(t)' = cursor[t].seen
    BY <2>1 DEF SeenOf, InFile
  <2>3. ASSUME NEW id \in Nat, Saved(id) PROVE Met(id)'
    BY <2>1, <2>2, <2>3 DEF Saved, Met, Beyond, Lines, Steady
  <2> QED
    BY <2>1, <2>3, CountStays, OutIds DEF Known
<1>2. CASE Reads(p)
  <2>1. /\ UNCHANGED <<text, cursor, rows, play, count>> /\ pass.at = "read" /\ pass'.at = "line"
        /\ pass'.out = pass.out /\ pass'.seen = pass.seen /\ pass'.cursor = pass.cursor /\ pass'.t = pass.t
    BY <1>2, ReadsDoes DEF PassLeaves
  <2>2. \A u \in Transcript : SeenOf(u)' = SeenOf(u)
    BY <2>1 DEF SeenOf, InFile
  <2>3. ASSUME NEW id \in Nat, Met(id) PROVE Met(id)'
    BY <2>1, <2>2, <2>3, MetStays
  <2> QED
    BY <2>1, <2>3, CountStays, OutIds DEF Known
<1>3. CASE SavesCursor(p)
  <2>1. /\ UNCHANGED <<text, rows, play, count>> /\ pass.at \in {"look", "add"}
        /\ cursor' = pass.cursor /\ pass' = NoPass
    BY <1>3, SavesDoes
  <2>2. pass'.at = "idle" /\ pass'.out = {}
    BY <2>1, NothingHas
  <2>3. \A t \in Transcript : cursor'[t].seen = SeenOf(t)
    BY <2>1 DEF SeenOf, InFile
  <2>4. ASSUME NEW id \in Nat, Met(id) PROVE Saved(id)'
    BY <2>1, <2>3, <2>4 DEF Saved, Met, Beyond, Lines, Steady
  <2> QED
    BY <2>1, <2>2, <2>4, CountStays, OutIds DEF Known
<1> QED
  BY <1>1, <1>2, <1>3, CountLooks, CountLine, CountAdds DEF PassSteps

LEMMA CountKilled ==
    ASSUME TypeOK, FiniteOK, CountOK, NEW p \in Proc, Killed(p)
    PROVE  CountOK'
<1>1. /\ UNCHANGED <<text, cursor, rows, play>> /\ count'.kill = count.kill + 1 /\ count.kill \in Nat
      /\ pass' = pass \/ pass' = NoPass
  BY KilledDoes
<1>2. \A id \in Nat : Counted(id)' = Counted(id) /\ Counted(id) \in Nat
  BY <1>1, CountedSame, CountedTyped
<1>3. \A id \in Nat : Counted(id)' <= count'.kill /\ Counted(id)' <= 1 + count'.kill
  BY <1>1, <1>2 DEF CountOK
<1>4. CASE pass' = pass
  <2>1. \A id \in Nat : Met(id) => Met(id)'
    BY <1>1, <1>4 DEF Met, SeenOf, InFile, Beyond, Lines, Steady
  <2> QED
    BY <1>3, <1>4, <2>1, OutIds DEF CountOK
<1>5. CASE pass' = NoPass
  BY <1>3, <1>5, NothingHas DEF CountOK
<1> QED
  BY <1>1, <1>4, <1>5

LEMMA CountInit == ASSUME Init PROVE CountInv
<1>1. /\ \A t \in Transcript : text[t] = [ino |-> 1, lines |-> <<>>, whole |-> TRUE]
      /\ cursor = NoPass.cursor /\ pass = NoPass /\ rows = EmptyBag
      /\ count = [msg |-> 0, change |-> 0, op |-> 0, kill |-> 0]
  BY DEF Init
<1>2. \A t \in Transcript : Lines(t) = <<>> /\ cursor[t].seen = <<>> /\ pass.cursor[t].seen = <<>>
  BY <1>1, NothingHas DEF Lines
<1>3. pass.at = "idle" /\ pass.seen = <<>> /\ pass.out = {}
  BY <1>1, NothingHas
<1>4. OfOne
  BY <1>2, <1>3, NothingHas DEF OfOne, From, InFile
<1>5. InOrder
  BY <1>2 DEF InOrder, Ordered
<1>6. AllDistinct
  BY <1>2, <1>3, NothingHas DEF AllDistinct
<1>7. SteadyOK
  BY <1>2, <1>3, NothingRead DEF SteadyOK, Follows, InFileOK
<1>8. \A id : Counted(id) = 0
  <2>1. \A id : RowsOf(rows, id) = {}
    BY <1>1 DEF RowsOf, EmptyBag, SetToBag, BagToSet
  <2>2. SumOver(rows, {}) = 0
    BY SumOf, FS_EmptySet
  <2> QED
    BY <2>1, <2>2, CountedIs
<1>9. CountOK
  BY <1>1, <1>3, <1>8 DEF CountOK
<1> QED
  BY <1>4, <1>5, <1>6, <1>7, <1>9 DEF CountInv

LEMMA CountStep ==
    ASSUME TypeOK, FiniteOK, KeepInv, CountInv, [Next]_vars
    PROVE  CountInv'
<1>0. count \in [msg: Nat, change: Nat, op: Nat, kill: Nat] /\ OfOne /\ InOrder /\ AllDistinct
  BY DEF CountInv, TypeOK, GivenOK
<1>1. CASE Given
  <2>1. UNCHANGED <<cursor, pass, play>> /\ count'.msg \in {count.msg, count.msg + 1} /\ count.msg \in Nat
    BY <1>0, <1>1, GivenText
  <2>2. (Steady' => Steady) /\ (Enough' => Enough) /\ AllDistinct'
    BY <1>0, <2>1 DEF Steady, Enough, AllDistinct
  <2>3. OfOne' /\ InOrder' /\ (Steady' => SteadyOK')
    BY <1>0, <1>1, <2>2, OfOneGiven, SteadyGiven DEF CountInv
  <2>4. Enough' => CountOK'
    BY <1>0, <1>1, <2>2, CountGiven DEF CountInv
  <2> QED
    BY <2>2, <2>3, <2>4 DEF CountInv
<1>2. ASSUME NEW p \in Proc, PassStarts(p) \/ PassSteps(p) PROVE CountInv'
  <2>1. UNCHANGED <<text, play>> /\ count'.msg = count.msg
    BY <1>2, StartsDoes, LooksDoes, ReadsDoes, CountsLineDoes, AddsRowsDoes, SavesDoes DEF PassSteps, PassLeaves
  <2>2. (Steady' => Steady) /\ (Enough' => Enough) /\ InOrder'
    BY <1>0, <2>1 DEF Steady, Enough, InOrder, Lines
  <2>3. OfOne' /\ AllDistinct'
    BY <1>0, <1>2, <2>1, OfOnePass, OfOneStays
  <2>4. Steady' => SteadyOK'
    BY <1>0, <1>2, <2>2, SteadyPass DEF CountInv
  <2>5. Enough' => CountOK'
    BY <1>0, <1>2, <2>2, CountPass DEF CountInv
  <2> QED
    BY <2>2, <2>3, <2>4, <2>5 DEF CountInv
<1>3. ASSUME NEW p \in Proc, Killed(p) PROVE CountInv'
  <2>1. UNCHANGED <<text, play>> /\ count'.msg = count.msg
    BY <1>3, KilledDoes
  <2>2. (Steady' => Steady) /\ (Enough' => Enough) /\ InOrder'
    BY <1>0, <2>1 DEF Steady, Enough, InOrder, Lines
  <2>3. OfOne' /\ AllDistinct'
    BY <1>0, <1>3, <2>1, OfOneKilled, OfOneStays
  <2>4. (Steady' => SteadyOK') /\ (Enough' => CountOK')
    BY <1>3, <2>2, SteadyKilled, CountKilled DEF CountInv
  <2> QED
    BY <2>2, <2>3, <2>4 DEF CountInv
<1>4. ASSUME UNCHANGED <<text, cursor, rows, pass, play>>, count'.msg = count.msg, count'.kill = count.kill
      PROVE  CountInv'
  <2>1. \A t \in Transcript : \A id : From(t, id)' => From(t, id)
    BY <1>4 DEF From, InFile, Lines
  <2>2. OfOne' /\ InOrder' /\ AllDistinct'
    BY <1>0, <1>4, <2>1, OfOneStays DEF InOrder, AllDistinct, Lines
  <2>3. (Steady' => Steady) /\ (Enough' => Enough) /\ (SteadyOK => SteadyOK')
    BY <1>4 DEF Steady, Enough, SteadyOK, InFileOK, Lines
  <2>4. \A t \in Transcript : SeenOf(t)' = SeenOf(t)
    BY <1>4 DEF SeenOf, InFile
  <2>5. \A id \in Nat : (Met(id) => Met(id)') /\ (Saved(id) => Saved(id)')
    BY <1>4, <2>4 DEF Met, Saved, Beyond, Lines, Steady
  <2>6. \A id \in Nat : Known(id) => Known(id)'
    BY <1>4, <2>5 DEF Known
  <2>7. CountOK => CountOK'
    BY <1>4, <2>5, <2>6, CountStays, OutIds
  <2> QED
    BY <2>2, <2>3, <2>7 DEF CountInv
<1>5. ASSUME NEW p \in Proc, EnforceStarts(p) \/ EnforceSteps(p) \/ Collides(p) PROVE CountInv'
  BY <1>4, <1>5, EnforceDoes
<1>6. CASE UNCHANGED vars
  BY <1>4, <1>6 DEF vars, reading
<1> QED
  BY <1>1, <1>2, <1>3, <1>5, <1>6 DEF Next

(* A message is counted once, and once more at most for each kill that     *)
(* comes between its row and the cursor, while the ring holds all there    *)
(* are, or no transcript is replaced: the ring and the last line that has  *)
(* been read, by which a line is known, are of one transcript, and what is *)
(* counted is known until the cursor is saved (_ingest_locked).            *)
THEOREM CountedOnceCorrect == Spec => []CountedOnce
<1>1. TypeOK /\ FiniteOK /\ KeepInv /\ CountInv /\ [Next]_vars => CountInv'
  BY CountStep
<1>2. Init => CountInv
  BY CountInit
<1>3. TypeOK /\ CountInv => CountedOnce
  <2> SUFFICES ASSUME TypeOK, CountInv, Enough, NEW id \in 1 .. count.msg PROVE Counted(id) <= 1 + count.kill
    BY DEF CountedOnce, Enough, Steady
  <2>1. id \in Nat
    BY DEF TypeOK, GivenOK
  <2> QED
    BY <2>1 DEF CountInv, CountOK
<1> QED
  BY <1>1, <1>2, <1>3, TypeCorrect, AlwaysFinite, AlwaysKept, PTL DEF Spec
=============================================================================
