------------------------------ MODULE TextProofs ------------------------------
(***************************************************************************)
(* Proofs about the texts the device sends, for every number of messages   *)
(* and of Nodes and for texts of every length: LineWriter's stream has one *)
(* reading, and StatusReport's line is a JSON object.  The prover's        *)
(* libraries have induction for operators, which the backends cannot       *)
(* instantiate; here it is stated for a set (InductionForSets), and what   *)
(* recursive definitions compute follows from that.                        *)
(***************************************************************************)
EXTENDS LineWriter, StatusReport, TLAPS, SequenceTheorems, WellFoundedInduction

\* The order of the natural numbers, as a set of pairs.
Less == {p \in Nat \X Nat : p[1] < p[2]}

\* Induction, for a set.
LEMMA InductionForSets ==
  ASSUME NEW S, 0 \in S, \A n \in Nat : n \in S => n + 1 \in S
  PROVE  Nat \subseteq S
<1>1. IsWellFoundedOn(Less, Nat)
  BY NatLessThanWellFounded, Zenon DEF OpToRel, Less
<1>2. SUFFICES ASSUME Nat \ S # {} PROVE FALSE
  OBVIOUS
<1>3. PICK x \in Nat \ S : \A y \in Nat \ S : <<y, x>> \notin Less
  <2>1. Nat \ S \subseteq Nat
    OBVIOUS
  <2> QED BY <1>1, <1>2, <2>1, WFMin, Zenon
<1>4. x - 1 \in Nat /\ (x - 1) + 1 = x
  OBVIOUS
<1>5. <<x - 1, x>> \in Less
  BY <1>4 DEF Less
<1>6. x - 1 \in S
  BY <1>3, <1>4, <1>5
<1> QED BY <1>3, <1>4, <1>6

-----------------------------------------------------------------------------
(* Sequences of sequences, one after the other *)

\* What FlattenSeq computes, for each number of sequences from the first on.
Flattened(s) ==
  CHOOSE f : f = [i \in 1 .. Len(s) |-> IF i = 1 THEN s[i] ELSE f[i - 1] \o s[i]]

\* The first k of them.
First(s, k) == IF k = 0 THEN << >> ELSE Flattened(s)[k]

\* There is such a function, for any sequences.
LEMMA FlattenedExists ==
  ASSUME NEW T, NEW s \in Seq(Seq(T))
  PROVE  /\ Flattened(s) \in [1 .. Len(s) -> Seq(T)]
         /\ \A i \in 1 .. Len(s) :
              Flattened(s)[i] = IF i = 1 THEN s[i] ELSE Flattened(s)[i - 1] \o s[i]
<1> DEFINE Follows(f, n) ==
             \A i \in 1 .. n : f[i] = IF i = 1 THEN s[i] ELSE f[i - 1] \o s[i]
           S == {n \in Nat : n <= Len(s) => \E f \in [1 .. n -> Seq(T)] : Follows(f, n)}
<1>1. 0 \in S
  <2>1. [i \in 1 .. 0 |-> << >>] \in [1 .. 0 -> Seq(T)] /\ 1 .. 0 = {}
    OBVIOUS
  <2>2. Follows([i \in 1 .. 0 |-> << >>], 0)
    BY <2>1
  <2>3. \E f \in [1 .. 0 -> Seq(T)] : Follows(f, 0)
    <3> HIDE DEF Follows
    <3> QED BY <2>1, <2>2, Zenon
  <2> QED BY <2>3
<1>2. ASSUME NEW n \in Nat, n \in S PROVE n + 1 \in S
  <2>1. SUFFICES ASSUME n + 1 <= Len(s)
                 PROVE  \E g \in [1 .. n + 1 -> Seq(T)] : Follows(g, n + 1)
    <3>1. n + 1 \in Nat
      OBVIOUS
    <3> HIDE DEF Follows
    <3> QED BY <3>1, Zenon
  <2>2. PICK f \in [1 .. n -> Seq(T)] : Follows(f, n)
    BY <1>2, <2>1
  <2>3. \A i \in 1 .. n + 1 : s[i] \in Seq(T)
    BY <2>1
  <2> DEFINE last == IF n = 0 THEN s[1] ELSE f[n] \o s[n + 1]
             g == [i \in 1 .. n + 1 |-> IF i \in 1 .. n THEN f[i] ELSE last]
  <2>4. last \in Seq(T)
    <3>1. CASE n = 0
      BY <2>3, <3>1
    <3>2. CASE n # 0
      <4>1. f[n] \in Seq(T) /\ s[n + 1] \in Seq(T)
        BY <2>3, <3>2
      <4> QED BY <3>2, <4>1
    <3> QED BY <3>1, <3>2
  <2>5. g \in [1 .. n + 1 -> Seq(T)]
    <3> HIDE DEF last
    <3> QED BY <2>4
  <2>6. \A i \in 1 .. n : g[i] = f[i] /\ (i # 1 => g[i - 1] = f[i - 1])
    <3> HIDE DEF last
    <3> QED OBVIOUS
  <2>7. g[n + 1] = last /\ (n # 0 => g[n] = f[n])
    <3> HIDE DEF last
    <3> QED OBVIOUS
  <2>8. Follows(g, n + 1)
    <3> HIDE DEF g
    <3> SUFFICES ASSUME NEW i \in 1 .. n + 1
                 PROVE  g[i] = IF i = 1 THEN s[i] ELSE g[i - 1] \o s[i]
      OBVIOUS
    <3>1. CASE i \in 1 .. n
      BY <2>2, <2>6, <3>1
    <3>2. CASE i = n + 1
      BY <2>7, <3>2
    <3> QED BY <3>1, <3>2
  <2> QED BY <2>5, <2>8
<1>3. Len(s) \in S
  <2> HIDE DEF S
  <2> QED BY <1>1, <1>2, InductionForSets
<1>4. PICK f \in [1 .. Len(s) -> Seq(T)] : Follows(f, Len(s))
  BY <1>3
<1>5. f = [i \in 1 .. Len(s) |-> IF i = 1 THEN s[i] ELSE f[i - 1] \o s[i]]
  BY <1>4
<1>6. Flattened(s) = [i \in 1 .. Len(s) |->
                        IF i = 1 THEN s[i] ELSE Flattened(s)[i - 1] \o s[i]]
  BY <1>5, Zenon DEF Flattened
<1>7. \A i \in 1 .. Len(s) :
        Flattened(s)[i] = IF i = 1 THEN s[i] ELSE Flattened(s)[i - 1] \o s[i]
  BY <1>6, Zenon
<1> DEFINE G == {n \in Nat : n \in 1 .. Len(s) => Flattened(s)[n] \in Seq(T)}
<1>8. 0 \in G
  OBVIOUS
<1>9. ASSUME NEW n \in Nat, n \in G PROVE n + 1 \in G
  <2>1. SUFFICES ASSUME n + 1 \in 1 .. Len(s) PROVE Flattened(s)[n + 1] \in Seq(T)
    OBVIOUS
  <2>2. s[n + 1] \in Seq(T)
    BY <2>1
  <2>3. CASE n = 0
    BY <1>7, <2>1, <2>2, <2>3
  <2>4. CASE n # 0
    <3>1. n \in 1 .. Len(s) /\ n + 1 # 1 /\ (n + 1) - 1 = n
      BY <2>1, <2>4
    <3>2. Flattened(s)[n] \in Seq(T)
      BY <1>9, <3>1
    <3>3. Flattened(s)[n + 1] = Flattened(s)[n] \o s[n + 1]
      BY <1>7, <2>1, <3>1
    <3> QED BY <2>2, <3>2, <3>3
  <2> QED BY <2>3, <2>4
<1>10. Nat \subseteq G
  <2> HIDE DEF G
  <2> QED BY <1>8, <1>9, InductionForSets
<1>11. \A i \in 1 .. Len(s) : Flattened(s)[i] \in Seq(T)
  BY <1>10
<1> QED BY <1>6, <1>7, <1>11, Zenon

\* The first k + 1 are the first k and the next; FlattenSeq makes them all.
LEMMA FirstStep ==
  ASSUME NEW T, NEW s \in Seq(Seq(T))
  PROVE  /\ First(s, 0) = << >>
         /\ \A k \in 0 .. Len(s) : First(s, k) \in Seq(T)
         /\ \A k \in 0 .. Len(s) - 1 : First(s, k + 1) = First(s, k) \o s[k + 1]
<1>1. First(s, 0) = << >>
  BY DEF First
<1>2. ASSUME NEW k \in 0 .. Len(s) PROVE First(s, k) \in Seq(T)
  <2>1. k # 0 => k \in 1 .. Len(s)
    OBVIOUS
  <2>2. k # 0 => Flattened(s)[k] \in Seq(T)
    BY <2>1, FlattenedExists
  <2> QED BY <2>2, EmptySeq, Zenon DEF First
<1>3. ASSUME NEW k \in 0 .. Len(s) - 1 PROVE First(s, k + 1) = First(s, k) \o s[k + 1]
  <2>1. k + 1 \in 1 .. Len(s) /\ k + 1 # 0 /\ s[k + 1] \in Seq(T)
    OBVIOUS
  <2>2. First(s, k + 1) = Flattened(s)[k + 1]
    BY <2>1 DEF First
  <2>3. CASE k = 0
    <3>1. First(s, k + 1) = s[k + 1]
      BY <2>1, <2>2, <2>3, FlattenedExists
    <3> QED BY <1>1, <2>1, <2>3, <3>1
  <2>4. CASE k # 0
    <3>1. k + 1 # 1 /\ (k + 1) - 1 = k
      BY <2>4
    <3>2. First(s, k + 1) = Flattened(s)[k] \o s[k + 1]
      BY <2>1, <2>2, <3>1, FlattenedExists
    <3> QED BY <2>4, <3>2 DEF First
  <2> QED BY <2>3, <2>4
<1> QED BY <1>1, <1>2, <1>3

\* FlattenSeq puts all of them one after the other.
LEMMA FlattenIsFirst ==
  ASSUME NEW T, NEW s \in Seq(Seq(T))
  PROVE  FlattenSeq(s) = First(s, Len(s)) /\ FlattenSeq(s) \in Seq(T)
<1>1. FlattenSeq(s) = IF Len(s) = 0 THEN s ELSE Flattened(s)[Len(s)]
  BY Zenon DEF FlattenSeq, Flattened
<1>2. Len(s) = 0 => s = << >>
  BY EmptySeq
<1>3. FlattenSeq(s) = First(s, Len(s))
  BY <1>1, <1>2, Zenon DEF First
<1> QED BY <1>3, FirstStep

\* The first k are the same for any sequences that start with the same k.
LEMMA FirstAgrees ==
  ASSUME NEW T, NEW s \in Seq(Seq(T)), NEW t \in Seq(Seq(T)),
         NEW k \in 0 .. Len(s), k <= Len(t), \A i \in 1 .. k : s[i] = t[i]
  PROVE  First(s, k) = First(t, k)
<1> DEFINE S == {n \in Nat : n <= k => First(s, n) = First(t, n)}
<1>1. 0 \in S
  BY FirstStep
<1>2. ASSUME NEW n \in Nat, n \in S PROVE n + 1 \in S
  <2>1. SUFFICES ASSUME n + 1 <= k PROVE First(s, n + 1) = First(t, n + 1)
    OBVIOUS
  <2>2. /\ n \in 0 .. Len(s) - 1 /\ n \in 0 .. Len(t) - 1
        /\ n <= k /\ n + 1 \in 1 .. k
    BY <2>1
  <2>3. First(s, n + 1) = First(s, n) \o s[n + 1] /\ First(t, n + 1) = First(t, n) \o t[n + 1]
    BY <2>2, FirstStep
  <2> QED BY <1>2, <2>2, <2>3
<1>3. Nat \subseteq S
  <2> HIDE DEF S
  <2> QED BY <1>1, <1>2, InductionForSets
<1> QED BY <1>3

\* What the first k are followed by.
LEMMA FirstIsPrefix ==
  ASSUME NEW T, NEW s \in Seq(Seq(T)), NEW k \in 0 .. Len(s)
  PROVE  \E r \in Seq(T) : FlattenSeq(s) = First(s, k) \o r
<1> DEFINE S == {d \in Nat : k + d <= Len(s) => \E r \in Seq(T) : First(s, k + d) = First(s, k) \o r}
<1>1. 0 \in S
  <2>1. First(s, k) \in Seq(T) /\ k + 0 = k /\ << >> \in Seq(T)
    BY FirstStep
  <2>2. First(s, k + 0) = First(s, k) \o << >>
    BY <2>1
  <2> QED BY <2>1, <2>2
<1>2. ASSUME NEW d \in Nat, d \in S PROVE d + 1 \in S
  <2>1. SUFFICES ASSUME k + (d + 1) <= Len(s)
                 PROVE  \E r \in Seq(T) : First(s, k + (d + 1)) = First(s, k) \o r
    <3>1. d + 1 \in Nat
      OBVIOUS
    <3> QED BY <3>1, Zenon
  <2>2. k + d \in 0 .. Len(s) - 1 /\ (k + d) + 1 = k + (d + 1) /\ k + d <= Len(s)
    BY <2>1
  <2>3. PICK r \in Seq(T) : First(s, k + d) = First(s, k) \o r
    BY <1>2, <2>2
  <2>4. First(s, k) \in Seq(T) /\ s[(k + d) + 1] \in Seq(T)
    BY <2>2, FirstStep
  <2>5. First(s, k + (d + 1)) = (First(s, k) \o r) \o s[(k + d) + 1]
    BY <2>2, <2>3, FirstStep, Zenon
  <2>6. First(s, k + (d + 1)) = First(s, k) \o (r \o s[(k + d) + 1])
    <3>1. \A a, b, c \in Seq(T) : (a \o b) \o c = a \o (b \o c)
      BY ConcatAssociative
    <3> QED BY <2>4, <2>5, <3>1, Zenon
  <2>7. r \o s[(k + d) + 1] \in Seq(T)
    BY <2>4, ConcatProperties
  <2> QED BY <2>6, <2>7
<1>3. Nat \subseteq S
  <2> HIDE DEF S
  <2> QED BY <1>1, <1>2, InductionForSets
<1>4. Len(s) - k \in Nat /\ k + (Len(s) - k) = Len(s) /\ Len(s) <= Len(s)
  OBVIOUS
<1> QED BY <1>3, <1>4, FlattenIsFirst

-----------------------------------------------------------------------------
(* Numbers *)

Numerals == {"0", "1", "2", "3", "4", "5", "6", "7", "8", "9"}

\* A digit is one of ten.
LEMMA DigitIsNumeral ==
  ASSUME NEW n \in 0 .. 9
  PROVE  Digit(n) \in Numerals
BY DEF Digit, Numerals

\* The quotient by ten of a number of more than one digit.
LEMMA Shorter ==
  ASSUME NEW n \in Nat
  PROVE  n % 10 \in 0 .. 9 /\ n \div 10 \in 0 .. n /\ (n >= 10 => n \div 10 < n)
OBVIOUS

\* What Decimal says of one number, given what it says of smaller ones, and of all numbers
\* up to one.
Writes(f, n) == f[n] = IF n < 10 THEN <<Digit(n)>> ELSE Append(f[n \div 10], Digit(n % 10))
WritesUpTo(f, n) == f \in [0 .. n -> Seq(Numerals)] /\ \A i \in 0 .. n : Writes(f, i)

\* For any number, a function says what Decimal should, up to it.
LEMMA WritesUpToExists ==
  \A n \in Nat : \E f : WritesUpTo(f, n)
<1> DEFINE S == {n \in Nat : \E f : WritesUpTo(f, n)}

<1>1. 0 \in S
  <2> DEFINE f == [i \in 0 .. 0 |-> <<Digit(0)>>]
  <2>1. f \in [0 .. 0 -> Seq(Numerals)]
    BY DigitIsNumeral
  <2>2. \A i \in 0 .. 0 : Writes(f, i)
    BY DEF Writes
  <2>3. WritesUpTo(f, 0)
    BY <2>1, <2>2, Zenon DEF WritesUpTo
  <2> QED BY <2>3
<1>2. ASSUME NEW n \in Nat, n \in S PROVE n + 1 \in S
  <2>1. PICK f : WritesUpTo(f, n)
    BY <1>2
  <2> DEFINE last == IF n + 1 < 10 THEN <<Digit(n + 1)>>
                     ELSE Append(f[(n + 1) \div 10], Digit((n + 1) % 10))
             g == [i \in 0 .. n + 1 |-> IF i \in 0 .. n THEN f[i] ELSE last]
  <2>2. last \in Seq(Numerals)
    <3>1. CASE n + 1 < 10
      <4>1. Digit(n + 1) \in Numerals
        BY <3>1, DigitIsNumeral
      <4> QED BY <3>1, <4>1
    <3>2. CASE ~(n + 1 < 10)
      <4>1. (n + 1) \div 10 \in 0 .. n /\ (n + 1) % 10 \in 0 .. 9
        BY <3>2, Shorter
      <4>2. f[(n + 1) \div 10] \in Seq(Numerals) /\ Digit((n + 1) % 10) \in Numerals
        BY <2>1, <4>1, DigitIsNumeral DEF WritesUpTo
      <4>3. Append(f[(n + 1) \div 10], Digit((n + 1) % 10)) \in Seq(Numerals)
        BY <4>2, AppendProperties
      <4> QED BY <3>2, <4>3, Zenon
    <3> QED BY <3>1, <3>2, Zenon
  <2> HIDE DEF last
  <2>3. \A i \in 0 .. n : f[i] \in Seq(Numerals) /\ Writes(f, i)
    BY <2>1 DEF WritesUpTo
  <2>4. g \in [0 .. n + 1 -> Seq(Numerals)]
    BY <2>2, <2>3
  <2>5. ASSUME NEW i \in 0 .. n PROVE Writes(g, i)
    <3>1. i \in 0 .. n + 1 /\ i \div 10 \in 0 .. n /\ i \div 10 \in 0 .. n + 1
      BY Shorter
    <3>2. g[i] = f[i] /\ g[i \div 10] = f[i \div 10]
      BY <3>1
    <3> HIDE DEF g
    <3> QED BY <2>3, <3>2, Zenon DEF Writes
  <2>6. Writes(g, n + 1)
    <3>1. g[n + 1] = last
      OBVIOUS
    <3>2. CASE n + 1 < 10
      <4> HIDE DEF g
      <4> QED BY <3>1, <3>2, Zenon DEF Writes, last
    <3>3. CASE ~(n + 1 < 10)
      <4>1. (n + 1) \div 10 \in 0 .. n /\ (n + 1) \div 10 \in 0 .. n + 1
        BY <3>3, Shorter
      <4>2. g[(n + 1) \div 10] = f[(n + 1) \div 10]
        BY <4>1
      <4> HIDE DEF g
      <4> QED BY <3>1, <3>3, <4>2, Zenon DEF Writes, last
    <3> QED BY <3>2, <3>3, Zenon
  <2>7. \A i \in 0 .. n + 1 : i \in 0 .. n \/ i = n + 1
    OBVIOUS
  <2>8. WritesUpTo(g, n + 1) /\ n + 1 \in Nat
    <3> HIDE DEF g
    <3>1. n + 1 \in Nat
      OBVIOUS
    <3> QED BY <2>4, <2>5, <2>6, <2>7, <3>1, Zenon DEF WritesUpTo
  <2> QED BY <2>8, Zenon
<1>3. Nat \subseteq S
  <2> HIDE DEF S
  <2> QED BY <1>1, <1>2, InductionForSets
<1> QED BY <1>3

\* And no two such functions differ.
LEMMA WritesUpToUnique ==
  ASSUME NEW n \in Nat, NEW m \in 0 .. n, NEW f, NEW g,
         WritesUpTo(f, n), WritesUpTo(g, m)
  PROVE  f[m] = g[m]
<1> DEFINE S == {k \in Nat : \A i \in 0 .. k : i <= m => f[i] = g[i]}
<1>1. ASSUME NEW i \in 0 .. m PROVE Writes(f, i) /\ Writes(g, i)
  <2>1. i \in 0 .. n
    OBVIOUS
  <2> QED BY <2>1, Zenon DEF WritesUpTo
<1>2. 0 \in S
  <2>1. 0 \in 0 .. m /\ 0 < 10
    OBVIOUS
  <2>2. f[0] = <<Digit(0)>> /\ g[0] = <<Digit(0)>>
    BY <1>1, <2>1, Zenon DEF Writes
  <2>3. \A i \in 0 .. 0 : i = 0
    OBVIOUS
  <2> QED BY <2>2, <2>3
<1>3. ASSUME NEW k \in Nat, k \in S PROVE k + 1 \in S
  <2>1. ASSUME k + 1 <= m PROVE f[k + 1] = g[k + 1]
    <3>1. k + 1 \in 0 .. m
      BY <2>1
    <3>2. CASE k + 1 < 10
      <4>1. f[k + 1] = <<Digit(k + 1)>> /\ g[k + 1] = <<Digit(k + 1)>>
        BY <1>1, <3>1, <3>2, Zenon DEF Writes
      <4> QED BY <4>1
    <3>3. CASE ~(k + 1 < 10)
      <4>1. (k + 1) \div 10 \in 0 .. k /\ (k + 1) \div 10 <= m
        BY <2>1, <3>3, Shorter
      <4>2. f[(k + 1) \div 10] = g[(k + 1) \div 10]
        BY <1>3, <4>1
      <4> QED BY <1>1, <3>1, <3>3, <4>2, Zenon DEF Writes
    <3> QED BY <3>2, <3>3
  <2>2. \A i \in 0 .. k + 1 : i \in 0 .. k \/ i = k + 1
    OBVIOUS
  <2>3. \A i \in 0 .. k : i <= m => f[i] = g[i]
    BY <1>3
  <2>4. \A i \in 0 .. k + 1 : i <= m => f[i] = g[i]
    BY <2>1, <2>2, <2>3, Zenon
  <2>5. k + 1 \in Nat
    OBVIOUS
  <2> QED BY <2>4, <2>5, Zenon
<1>4. Nat \subseteq S
  <2> HIDE DEF S
  <2> QED BY <1>2, <1>3, InductionForSets
<1>5. m \in S /\ m \in 0 .. m /\ m <= m
  BY <1>4
<1> QED BY <1>5

\* ltoa writes digits.
LEMMA DecimalTyped == Decimal \in [Nat -> Seq(Numerals)]
<1> DEFINE D(n) == CHOOSE f : WritesUpTo(f, n)
           F == [n \in Nat |-> D(n)[n]]
<1>1. \A n \in Nat : WritesUpTo(D(n), n)
  BY WritesUpToExists
<1>2. ASSUME NEW n \in Nat
      PROVE  F[n] = IF n < 10 THEN <<Digit(n)>> ELSE Append(F[n \div 10], Digit(n % 10))
  <2>1. n \div 10 \in 0 .. n /\ n \div 10 \in Nat /\ n \in 0 .. n
    BY Shorter
  <2>2. D(n)[n \div 10] = D(n \div 10)[n \div 10]
    <3> HIDE DEF D
    <3> QED BY <1>1, <2>1, WritesUpToUnique
  <2>3. Writes(D(n), n)
    <3> HIDE DEF D
    <3> QED BY <1>1, <2>1 DEF WritesUpTo
  <2>4. F[n] = D(n)[n] /\ F[n \div 10] = D(n \div 10)[n \div 10]
    <3> HIDE DEF D
    <3> QED BY <2>1
  <2> HIDE DEF D, F
  <2> QED BY <2>2, <2>3, <2>4, Zenon DEF Writes
<1>3. F = [n \in Nat |-> IF n < 10 THEN <<Digit(n)>> ELSE Append(F[n \div 10], Digit(n % 10))]
  <2>1. F = [n \in Nat |-> F[n]]
    OBVIOUS
  <2> HIDE DEF F
  <2> QED BY <1>2, <2>1, Zenon
<1>4. Decimal = [n \in Nat |->
                   IF n < 10 THEN <<Digit(n)>> ELSE Append(Decimal[n \div 10], Digit(n % 10))]
  <2> HIDE DEF F
  <2> QED BY <1>3, Zenon DEF Decimal
<1>5. \A n \in Nat : Writes(Decimal, n)
  BY <1>4, Zenon DEF Writes
<1> DEFINE S == {k \in Nat : \A i \in 0 .. k : Decimal[i] \in Seq(Numerals)}
<1>6. 0 \in S
  <2>1. 0 \in Nat /\ 0 < 10 /\ Digit(0) \in Numerals
    BY DigitIsNumeral
  <2>2. Decimal[0] = <<Digit(0)>>
    BY <1>5, <2>1, Zenon DEF Writes
  <2>3. \A i \in 0 .. 0 : i = 0
    OBVIOUS
  <2>4. <<Digit(0)>> \in Seq(Numerals)
    BY <2>1
  <2> QED BY <2>1, <2>2, <2>3, <2>4, Zenon
<1>7. ASSUME NEW k \in Nat, k \in S PROVE k + 1 \in S
  <2>1. Decimal[k + 1] \in Seq(Numerals)
    <3>1. k + 1 \in Nat
      OBVIOUS
    <3>2. CASE k + 1 < 10
      <4>1. Decimal[k + 1] = <<Digit(k + 1)>>
        BY <1>5, <3>1, <3>2, Zenon DEF Writes
      <4>2. Digit(k + 1) \in Numerals
        BY <3>2, DigitIsNumeral
      <4> QED BY <4>1, <4>2
    <3>3. CASE ~(k + 1 < 10)
      <4>1. (k + 1) \div 10 \in 0 .. k /\ (k + 1) % 10 \in 0 .. 9
        BY <3>3, Shorter
      <4>2. Decimal[k + 1] = Append(Decimal[(k + 1) \div 10], Digit((k + 1) % 10))
        BY <1>5, <3>1, <3>3, Zenon DEF Writes
      <4>3. Decimal[(k + 1) \div 10] \in Seq(Numerals) /\ Digit((k + 1) % 10) \in Numerals
        BY <1>7, <4>1, DigitIsNumeral
      <4> QED BY <4>2, <4>3, AppendProperties
    <3> QED BY <3>2, <3>3
  <2>2. \A i \in 0 .. k + 1 : i \in 0 .. k \/ i = k + 1
    OBVIOUS
  <2>3. \A i \in 0 .. k : Decimal[i] \in Seq(Numerals)
    BY <1>7
  <2>4. k + 1 \in Nat
    OBVIOUS
  <2> QED BY <2>1, <2>2, <2>3, <2>4, Zenon
<1>8. Nat \subseteq S
  <2> HIDE DEF S
  <2> QED BY <1>6, <1>7, InductionForSets
<1>9. \A n \in Nat : Decimal[n] \in Seq(Numerals)
  BY <1>8
<1>10. Decimal = [n \in Nat |-> Decimal[n]]
  BY <1>4
<1> QED BY <1>9, <1>10, Zenon

Digits == Numerals \cup {"-"}

\* A number, with its sign, is text of digits.
LEMMA SignedTyped ==
  ASSUME NEW n \in Int
  PROVE  Signed(n) \in Seq(Digits)
<1>1. \A k \in Nat : Decimal[k] \in Seq(Digits)
  <2>1. \A k \in Nat : Decimal[k] \in Seq(Numerals)
    BY DecimalTyped
  <2> QED BY <2>1 DEF Digits
<1>2. <<"-">> \in Seq(Digits)
  BY DEF Digits
<1>3. n < 0 => -n \in Nat
  OBVIOUS
<1>4. n >= 0 => n \in Nat
  OBVIOUS
<1>5. CASE n < 0
  <2>1. Signed(n) = <<"-">> \o Decimal[-n]
    BY <1>5, Zenon DEF Signed
  <2> QED BY <1>1, <1>2, <1>3, <1>5, <2>1, ConcatProperties
<1>6. CASE ~(n < 0)
  <2>1. Signed(n) = Decimal[n]
    BY <1>6, Zenon DEF Signed
  <2>2. n \in Nat
    BY <1>6
  <2> QED BY <1>1, <2>1, <2>2
<1> QED BY <1>5, <1>6

-----------------------------------------------------------------------------
(* Prefixes *)

\* A prefix, mark by mark.
LEMMA PrefixByMark ==
  ASSUME NEW T, NEW s \in Seq(T), NEW t \in Seq(T)
  PROVE  IsPrefix(s, t) <=> Len(s) <= Len(t) /\ \A i \in 1 .. Len(s) : s[i] = t[i]
<1>1. CASE Len(s) <= Len(t)
  <2>1. /\ SubSeq(s, 1, Len(s)) \in Seq(T) /\ Len(SubSeq(s, 1, Len(s))) = Len(s)
        /\ \A i \in 1 .. Len(s) : SubSeq(s, 1, Len(s))[i] = s[i]
    BY <1>1
  <2>2. /\ SubSeq(t, 1, Len(s)) \in Seq(T) /\ Len(SubSeq(t, 1, Len(s))) = Len(s)
        /\ \A i \in 1 .. Len(s) : SubSeq(t, 1, Len(s))[i] = t[i]
    BY <1>1
  <2>3. SubSeq(s, 1, Len(s)) = SubSeq(t, 1, Len(s)) <=> \A i \in 1 .. Len(s) : s[i] = t[i]
    <3>1. ASSUME \A i \in 1 .. Len(s) : s[i] = t[i]
          PROVE  SubSeq(s, 1, Len(s)) = SubSeq(t, 1, Len(s))
      BY <2>1, <2>2, <3>1, SeqEqual
    <3> QED BY <2>1, <2>2, <3>1, Zenon
  <2> QED BY <1>1, <2>3 DEF IsPrefix
<1>2. CASE ~(Len(s) <= Len(t))
  BY <1>2 DEF IsPrefix
<1> QED BY <1>1, <1>2

\* A sequence starts with what it was made from first.
LEMMA ConcatHasPrefix ==
  ASSUME NEW T, NEW s \in Seq(T), NEW t \in Seq(T)
  PROVE  IsPrefix(s, s \o t)
<1>1. s \o t \in Seq(T) /\ Len(s) <= Len(s \o t) /\ \A i \in 1 .. Len(s) : s[i] = (s \o t)[i]
  <2>1. /\ s \o t \in Seq(T) /\ Len(s \o t) = Len(s) + Len(t)
        /\ \A i \in 1 .. Len(s) + Len(t) :
             (s \o t)[i] = IF i <= Len(s) THEN s[i] ELSE t[i - Len(s)]
    BY ConcatProperties
  <2>2. Len(s) \in Nat /\ Len(t) \in Nat
    OBVIOUS
  <2> QED BY <2>1, <2>2
<1> QED BY <1>1, PrefixByMark

\* As many marks are read on either side: they are the same, and so is what follows.
LEMMA ReadSame ==
  ASSUME NEW T, NEW u \in Seq(T), NEW v \in Seq(T), NEW s \in Seq(T), NEW t \in Seq(T),
         Len(u) = Len(v), IsPrefix(u \o s, v \o t)
  PROVE  u = v /\ IsPrefix(s, t)
<1>1. /\ u \o s \in Seq(T) /\ Len(u \o s) = Len(u) + Len(s)
      /\ v \o t \in Seq(T) /\ Len(v \o t) = Len(v) + Len(t)
      /\ Len(u) \in Nat /\ Len(s) \in Nat /\ Len(t) \in Nat
  OBVIOUS
<1>2. /\ Len(u) + Len(s) <= Len(v) + Len(t)
      /\ \A i \in 1 .. Len(u) + Len(s) : (u \o s)[i] = (v \o t)[i]
  BY <1>1, PrefixByMark
<1>3. \A i \in 1 .. Len(u) : u[i] = v[i]
  <2>1. ASSUME NEW i \in 1 .. Len(u) PROVE u[i] = v[i]
    <3>1. (u \o s)[i] = u[i] /\ (v \o t)[i] = v[i] /\ i \in 1 .. Len(u) + Len(s)
      BY <1>1
    <3> QED BY <1>2, <3>1, Zenon
  <2> QED BY <2>1
<1>4. \A i \in 1 .. Len(s) : s[i] = t[i]
  <2>1. ASSUME NEW i \in 1 .. Len(s) PROVE s[i] = t[i]
    <3>1. Len(u) + i \in 1 .. Len(u) + Len(s)
      BY <1>1
    <3>2. (u \o s)[Len(u) + i] = s[i] /\ (v \o t)[Len(u) + i] = t[i]
      BY <1>1, <1>2
    <3> QED BY <1>2, <3>1, <3>2, Zenon
  <2> QED BY <2>1
<1>5. Len(s) <= Len(t)
  BY <1>1, <1>2
<1> QED BY <1>3, <1>4, <1>5, PrefixByMark, SeqEqual

\* Both sides are read up to the first mark of D.
LEMMA ReadDelimited ==
  ASSUME NEW T, NEW D, NEW u \in Seq(T), NEW v \in Seq(T), NEW s \in Seq(T), NEW t \in Seq(T),
         NEW d \in T, NEW e \in T, d \in D, e \in D,
         \A i \in 1 .. Len(u) : u[i] \notin D, \A i \in 1 .. Len(v) : v[i] \notin D,
         IsPrefix(u \o (<<d>> \o s), v \o (<<e>> \o t))
  PROVE  u = v /\ d = e /\ IsPrefix(s, t)
<1> DEFINE x == <<d>> \o s
           y == <<e>> \o t
<1>1. /\ x \in Seq(T) /\ y \in Seq(T) /\ Len(x) \in Nat \ {0} /\ Len(y) \in Nat \ {0}
      /\ x[1] = d /\ y[1] = e
  OBVIOUS
<1> HIDE DEF x, y
<1>2. /\ u \o x \in Seq(T) /\ Len(u \o x) = Len(u) + Len(x)
      /\ v \o y \in Seq(T) /\ Len(v \o y) = Len(v) + Len(y)
      /\ Len(u) \in Nat /\ Len(v) \in Nat
  BY <1>1, ConcatProperties
<1>3. /\ Len(u) + Len(x) <= Len(v) + Len(y)
      /\ \A i \in 1 .. Len(u) + Len(x) : (u \o x)[i] = (v \o y)[i]
  <2>1. IsPrefix(u \o x, v \o y)
    BY DEF x, y
  <2> QED BY <1>2, <2>1, PrefixByMark
<1>4. ASSUME Len(u) < Len(v) PROVE FALSE
  <2>1. Len(u) + 1 \in 1 .. Len(u) + Len(x) /\ Len(u) + 1 \in 1 .. Len(v)
    BY <1>1, <1>2, <1>4
  <2>2. (u \o x)[Len(u) + 1] = d /\ (v \o y)[Len(u) + 1] = v[Len(u) + 1]
    BY <1>1, <1>2, <2>1
  <2> QED BY <1>3, <2>1, <2>2
<1>5. ASSUME Len(v) < Len(u) PROVE FALSE
  <2>1. Len(v) + 1 \in 1 .. Len(u) + Len(x) /\ Len(v) + 1 \in 1 .. Len(u)
    BY <1>1, <1>2, <1>5
  <2>2. (u \o x)[Len(v) + 1] = u[Len(v) + 1] /\ (v \o y)[Len(v) + 1] = e
    BY <1>1, <1>2, <2>1
  <2> QED BY <1>3, <2>1, <2>2
<1>6. Len(u) = Len(v)
  BY <1>2, <1>4, <1>5
<1>7. u = v /\ IsPrefix(x, y)
  <2>1. IsPrefix(u \o x, v \o y)
    BY DEF x, y
  <2> QED BY <1>1, <1>6, <2>1, ReadSame
<1>8. <<d>> = <<e>> /\ IsPrefix(s, t)
  <2>1. <<d>> \in Seq(T) /\ <<e>> \in Seq(T) /\ Len(<<d>>) = Len(<<e>>)
    OBVIOUS
  <2>2. IsPrefix(<<d>> \o s, <<e>> \o t)
    BY <1>7 DEF x, y
  <2> QED BY <2>1, <2>2, ReadSame
<1>9. d = e
  BY <1>8
<1> QED BY <1>7, <1>8, <1>9

-----------------------------------------------------------------------------
(* The text of a status line *)

\* What it is made of, but for its end.
Plain ==
  {"DATA:", "{", "}", "n", ":", ",", "true", "false", "null"} \cup Digits \cup Id \cup Property

\* The end of a line is not in it.
LEMMA PlainHas ==
  /\ {"DATA:", "{", "}", "n", ":", ",", "true", "false", "null"} \subseteq Plain
  /\ Digits \subseteq Plain /\ Id \subseteq Plain /\ Property \subseteq Plain
  /\ "\n" \notin Plain
<1>1. "\n" \notin Id \cup Property
  BY StatusTextAssumption, Zenon
<1> QED BY <1>1 DEF Plain, Digits, Numerals

\* Pieces of it, one after the other.
LEMMA PlainJoin ==
  /\ \A a, b \in Seq(Plain) : a \o b \in Seq(Plain)
  /\ \A a, b, c \in Seq(Plain) : (a \o b) \o c = a \o (b \o c)
  /\ \A a \in Plain : <<a>> \in Seq(Plain)
  /\ \A a, b \in Plain : <<a, b>> \in Seq(Plain)
<1>1. \A a, b \in Seq(Plain) : a \o b \in Seq(Plain)
  BY ConcatProperties
<1>2. \A a, b, c \in Seq(Plain) : (a \o b) \o c = a \o (b \o c)
  BY ConcatAssociative
<1> QED BY <1>1, <1>2

\* A value.
LEMMA PlainValue ==
  ASSUME NEW v \in Values
  PROVE  ValueText(v) \in Seq(Plain)
<1>1. v.type \in {"BOOLEAN", "INTEGER", "NONE"} /\ v.data \in Int
  BY StatusTextAssumption, Zenon
<1>2. <<"true">> \in Seq(Plain) /\ <<"false">> \in Seq(Plain) /\ <<"null">> \in Seq(Plain)
  <2>1. "true" \in Plain /\ "false" \in Plain /\ "null" \in Plain
    BY DEF Plain
  <2> QED BY <2>1, PlainJoin, Zenon
<1>3. CASE v.type = "BOOLEAN"
  BY <1>2, <1>3 DEF ValueText
<1>4. CASE v.type = "INTEGER"
  <2>1. ValueText(v) = Signed(v.data)
    BY <1>4 DEF ValueText
  <2>2. Signed(v.data) \in Seq(Digits)
    BY <1>1, SignedTyped
  <2> QED BY <2>1, <2>2, PlainHas, SeqMonotonic, Zenon
<1>5. CASE v.type = "NONE"
  BY <1>2, <1>5 DEF ValueText
<1> QED BY <1>1, <1>3, <1>4, <1>5

\* An object, which begins with its bracket.
LEMMA PlainObject ==
  ASSUME NEW members, DOMAIN members \in {1 .. k : k \in Nat},
         \A i \in DOMAIN members : members[i] \in Seq(Plain)
  PROVE  /\ Object(members) \in Seq(Plain)
         /\ \E s \in Seq(Plain) : Object(members) = <<"{">> \o s
<1> DEFINE all == [i \in DOMAIN members |-> IF i = 1 THEN members[i] ELSE <<",">> \o members[i]]
           f == FlattenSeq(all)
           a == <<"{">>
           b == <<"}">>
<1>1. PICK k \in Nat : DOMAIN members = 1 .. k
  OBVIOUS
<1>2. \A i \in DOMAIN members :
        (IF i = 1 THEN members[i] ELSE <<",">> \o members[i]) \in Seq(Plain)
  <2>1. <<",">> \in Seq(Plain)
    <3>1. "," \in Plain
      BY DEF Plain
    <3> QED BY <3>1, PlainJoin, Zenon
  <2> QED BY <2>1, PlainJoin, Zenon
<1>3. all \in [1 .. k -> Seq(Plain)]
  BY <1>1, <1>2, Zenon
<1>4. all \in Seq(Seq(Plain))
  <2> HIDE DEF all
  <2> QED BY <1>3
<1>5. f \in Seq(Plain)
  <2> HIDE DEF all
  <2> QED BY <1>4, FlattenIsFirst
<1>6. a \in Seq(Plain) /\ b \in Seq(Plain)
  <2>1. "{" \in Plain /\ "}" \in Plain
    BY DEF Plain
  <2> QED BY <2>1, PlainJoin, Zenon
<1>7. Object(members) = (a \o f) \o b
  BY Zenon DEF Object
<1> HIDE DEF a, f, b
<1>8. (a \o f) \o b = a \o (f \o b) /\ f \o b \in Seq(Plain) /\ a \o (f \o b) \in Seq(Plain)
  BY <1>5, <1>6, PlainJoin
<1> QED BY <1>7, <1>8, Zenon DEF a

\* A member of one.
LEMMA PlainMember ==
  ASSUME NEW name \in Plain, NEW value \in Seq(Plain)
  PROVE  Member(name, value) \in Seq(Plain)
<1>1. <<name, ":">> \in Seq(Plain)
  BY PlainHas, PlainJoin
<1> QED BY <1>1, PlainJoin, Zenon DEF Member

\* The object of all Nodes is on one line.
LEMMA PlainNodes ==
  ASSUME NEW nodes \in Registered
  PROVE  /\ NodesObject(nodes) \in Seq(Plain)
         /\ \E s \in Seq(Plain) : NodesObject(nodes) = <<"{">> \o s
<1> DEFINE object(n) ==
             [i \in DOMAIN n.properties |->
                Member(n.properties[i][1], ValueText(n.properties[i][2]))]
           members == [i \in DOMAIN nodes |-> Member(nodes[i].id, NodeObject(nodes[i]))]
           member == Member("n", Object(members))
           one == <<member>>
<1>1. PICK k \in Nat : nodes \in [1 .. k -> Nodes]
  <2>1. PICK k \in 0 .. MAX_NODES : nodes \in [1 .. k -> Nodes]
    BY DEF Registered
  <2> QED BY <2>1
<1>2. ASSUME NEW n \in Nodes PROVE n.id \in Plain /\ NodeObject(n) \in Seq(Plain)
  <2>1. n.id \in Id /\ n.properties \in Pairs
    BY DEF Nodes
  <2>2. PICK j \in Nat : n.properties \in [1 .. j -> Property \X Values]
    <3>1. PICK j \in 0 .. MaxProperties : n.properties \in [1 .. j -> Property \X Values]
      BY <2>1 DEF Pairs
    <3> QED BY <3>1
  <2>3. \A i \in 1 .. j : n.properties[i][1] \in Plain /\ n.properties[i][2] \in Values
    BY <2>2, PlainHas
  <2>4. \A i \in 1 .. j : Member(n.properties[i][1], ValueText(n.properties[i][2])) \in Seq(Plain)
    BY <2>3, PlainValue, PlainMember, Zenon
  <2>5. DOMAIN n.properties = 1 .. j
    BY <2>2
  <2>6. DOMAIN object(n) = 1 .. j /\ \A i \in 1 .. j : object(n)[i] \in Seq(Plain)
    BY <2>4, <2>5, Zenon
  <2>7. NodeObject(n) = Object(object(n))
    BY Zenon DEF NodeObject
  <2> HIDE DEF object
  <2>8. DOMAIN object(n) \in {1 .. i : i \in Nat}
    BY <2>2, <2>6
  <2> QED BY <2>1, <2>6, <2>7, <2>8, PlainObject, PlainHas
<1>3. DOMAIN nodes = 1 .. k /\ \A i \in 1 .. k : nodes[i] \in Nodes
  BY <1>1
<1>4. \A i \in 1 .. k : Member(nodes[i].id, NodeObject(nodes[i])) \in Seq(Plain)
  BY <1>2, <1>3, PlainMember, Zenon
<1>5. DOMAIN members = 1 .. k /\ \A i \in 1 .. k : members[i] \in Seq(Plain)
  BY <1>3, <1>4, Zenon
<1>6. NodesObject(nodes) = Object(one)
  BY Zenon DEF NodesObject
<1> HIDE DEF members
<1>7. Object(members) \in Seq(Plain)
  <2>1. DOMAIN members \in {1 .. i : i \in Nat}
    BY <1>5
  <2> QED BY <1>5, <2>1, PlainObject
<1>8. member \in Seq(Plain)
  <2>1. "n" \in Plain
    BY PlainHas
  <2> QED BY <1>7, <2>1, PlainMember, Zenon
<1> HIDE DEF member
<1>9. DOMAIN one \in {1 .. i : i \in Nat} /\ \A i \in DOMAIN one : one[i] \in Seq(Plain)
  <2>1. DOMAIN one = 1 .. 1 /\ one[1] = member /\ 1 .. 1 = {1}
    OBVIOUS
  <2> HIDE DEF one
  <2> QED BY <1>8, <2>1
<1> HIDE DEF one
<1> QED BY <1>6, <1>9, PlainObject, Zenon

-----------------------------------------------------------------------------
(* The texts of the messages *)

\* What texts are made of.
Mark ==
  {"UP", "CFG", "RUN", "IDLE", "DIS", "HB", "CFG:", "CMD_ACK:", "CMD_RESPONSE:", "CMD_ERROR:",
   "DATA:", "TRIGGER:", "NODE_ERROR:", "/", ":", "\n", "NUL"}
    \cup Digits \cup Char \cup Errors \cup NodeErrors \cup Plain
    \cup UNION {ToSet(t) : t \in NodePaths \cup Payloads \cup Configs}

Marks == Seq(Mark)
EndOfLine == <<"\n">>

\* Whatever a message is given is made of marks.
LEMMA MarkHas ==
  /\ {"UP", "CFG", "RUN", "IDLE", "DIS", "HB", "CFG:", "CMD_ACK:", "CMD_RESPONSE:", "CMD_ERROR:",
      "DATA:", "TRIGGER:", "NODE_ERROR:", "/", ":", "\n", "NUL"} \subseteq Mark
  /\ Digits \subseteq Mark /\ Char \subseteq Mark /\ Errors \subseteq Mark /\ NodeErrors \subseteq Mark
  /\ Plain \subseteq Mark
  /\ \A t \in NodePaths \cup Payloads \cup Configs : t \in Marks
<1>1. ASSUME NEW t \in NodePaths \cup Payloads \cup Configs PROVE t \in Marks
  <2>1. ToSet(t) \subseteq Mark
    BY DEF Mark
  <2>2. t \in Seq(ToSet(t))
    BY LineWriterAssumption, Zenon
  <2> QED BY <2>1, <2>2, SeqMonotonic DEF Marks
<1> QED BY <1>1 DEF Mark

\* ProtocolHandler::writeValue writes digits, or nothing.
LEMMA ValueTextTyped ==
  ASSUME NEW v \in ReplyValues
  PROVE  ReplyValueText(v) \in Seq(Digits)
<1>1. v.type \in {"BOOLEAN", "INTEGER", "NONE"} /\ v.data \in Int
      /\ (v.type = "BOOLEAN" => v.data \in {0, 1})
  BY LineWriterAssumption, Zenon
<1>2. CASE v.type = "BOOLEAN"
  <2>1. Digit(v.data) \in Digits
    BY <1>1, <1>2, DigitIsNumeral DEF Digits
  <2>2. ReplyValueText(v) = <<Digit(v.data)>>
    BY <1>2 DEF ReplyValueText
  <2> QED BY <2>1, <2>2
<1>3. CASE v.type = "INTEGER"
  <2>1. ReplyValueText(v) = Signed(v.data)
    BY <1>3 DEF ReplyValueText
  <2> QED BY <1>1, <2>1, SignedTyped
<1>4. CASE v.type = "NONE"
  <2>1. ReplyValueText(v) = << >>
    BY <1>4 DEF ReplyValueText
  <2> QED BY <2>1
<1> QED BY <1>1, <1>2, <1>3, <1>4

\* A value has no separator in it.
LEMMA ValueTextPlain ==
  ASSUME NEW v \in ReplyValues
  PROVE  /\ ReplyValueText(v) \in Marks
         /\ \A i \in 1 .. Len(ReplyValueText(v)) : ReplyValueText(v)[i] \notin {":", "\n"}
<1>1. Digits \subseteq Mark /\ ":" \notin Digits /\ "\n" \notin Digits
  BY MarkHas DEF Digits, Numerals
<1>2. ReplyValueText(v) \in Seq(Digits)
  BY ValueTextTyped
<1>3. ReplyValueText(v) \in Marks
  BY <1>1, <1>2, SeqMonotonic DEF Marks
<1>4. \A i \in 1 .. Len(ReplyValueText(v)) : ReplyValueText(v)[i] \in Digits
  BY <1>2, ElementOfSeq
<1> QED BY <1>1, <1>3, <1>4

\* Nor have paths and payloads of events.
LEMMA EventTextPlain ==
  /\ \A t \in NodePaths \cup Payloads :
       t \in Marks /\ \A i \in 1 .. Len(t) : t[i] # "\n"
  /\ \A t \in NodePaths : \A i \in 1 .. Len(t) : t[i] \notin {":", "\n"}
<1>1. ASSUME NEW t \in NodePaths \cup Payloads
      PROVE  t \in Marks /\ \A i \in 1 .. Len(t) : t[i] # "\n"
  <2>1. t \in Marks /\ "\n" \notin ToSet(t)
    BY LineWriterAssumption, MarkHas, Zenon
  <2>2. \A i \in DOMAIN t : t[i] \in ToSet(t)
    BY DEF ToSet
  <2>3. DOMAIN t = 1 .. Len(t)
    BY <2>1 DEF Marks
  <2> QED BY <2>1, <2>2, <2>3
<1>2. ASSUME NEW t \in NodePaths, NEW i \in 1 .. Len(t) PROVE t[i] \notin {":", "\n"}
  <2>1. t \in Marks /\ ":" \notin ToSet(t)
    BY LineWriterAssumption, MarkHas, Zenon
  <2>2. \A j \in DOMAIN t : t[j] \in ToSet(t)
    BY DEF ToSet
  <2>3. DOMAIN t = 1 .. Len(t)
    BY <2>1 DEF Marks
  <2> QED BY <1>1, <2>1, <2>2, <2>3
<1> QED BY <1>1, <1>2

PropertyText(p) == IF p.propertyId = "NUL" THEN << >> ELSE <<p.propertyId>>

\* The path of a command, and the property in it, are text.
LEMMA PathTyped ==
  ASSUME NEW p \in Paths
  PROVE  /\ PathText(p) = <<"/", p.nodeId, "/">> \o PropertyText(p)
         /\ PathText(p) \in Marks /\ PropertyText(p) \in Marks
         /\ <<"/", p.nodeId, "/">> \in Marks
         /\ \A i \in 1 .. Len(PropertyText(p)) : PropertyText(p)[i] # "\n"
<1>1. p.nodeId \in Mark /\ p.propertyId \in Mark /\ p.propertyId # "\n" /\ "/" \in Mark
  <2>1. p.nodeId \in Char /\ p.propertyId \in Char \cup {"NUL"}
    BY DEF Paths
  <2>2. Char \subseteq Mark /\ "\n" \notin Char /\ "NUL" \in Mark /\ "/" \in Mark
    BY MarkHas, LineWriterAssumption
  <2> QED BY <2>1, <2>2
<1>2. PropertyText(p) \in Marks /\ \A i \in 1 .. Len(PropertyText(p)) : PropertyText(p)[i] # "\n"
  BY <1>1 DEF PropertyText, Marks
<1>3. <<"/", p.nodeId, "/">> \in Marks
  BY <1>1 DEF Marks
<1>4. PathText(p) = <<"/", p.nodeId, "/">> \o PropertyText(p)
  BY DEF PathText, PropertyText
<1> QED BY <1>2, <1>3, <1>4 DEF Marks

\* What follows the path of an event.
AfterPath(m) ==
  IF m.payload = << >> THEN EndOfLine ELSE <<":">> \o (m.payload \o EndOfLine)

\* What a message starts with, and the rest of it.
Opening(m) ==
  CASE m.kind \in {"UP", "CFG", "RUN", "IDLE", "DIS", "HB"} -> m.kind
    [] m.kind = "CONFIG"     -> "CFG:"
    [] m.kind = "ACK"        -> "CMD_ACK:"
    [] m.kind = "RESPONSE"   -> "CMD_RESPONSE:"
    [] m.kind = "ERROR"      -> "CMD_ERROR:"
    [] m.kind = "DATA"       -> "DATA:"
    [] m.kind = "TRIGGER"    -> "TRIGGER:"
    [] m.kind = "NODE_ERROR" -> "NODE_ERROR:"
    [] m.kind = "STATUS"     -> "DATA:"

Remainder(m) ==
  CASE m.kind \in {"UP", "CFG", "RUN", "IDLE", "DIS", "HB"} -> EndOfLine
    [] m.kind = "CONFIG"     -> m.config \o EndOfLine
    [] m.kind = "ACK"        -> PathText(m.path) \o EndOfLine
    [] m.kind = "RESPONSE"   -> PathText(m.path) \o (<<":">> \o (ReplyValueText(m.value) \o EndOfLine))
    [] m.kind = "ERROR"      -> <<m.error, ":">> \o (PathText(m.path) \o EndOfLine)
    [] m.kind \in {"DATA", "TRIGGER"} -> m.path \o AfterPath(m)
    [] m.kind = "NODE_ERROR" -> <<m.error, ":">> \o (m.path \o AfterPath(m))
    [] m.kind = "STATUS"     -> NodesObject(m.nodes) \o EndOfLine

\* The kinds of messages.
LEMMA Kinds ==
  ASSUME NEW m \in Message
  PROVE  \/ m \in Word /\ m.kind \in {"UP", "CFG", "RUN", "IDLE", "DIS", "HB"}
         \/ m \in Config /\ m.kind = "CONFIG"
         \/ m \in Reply /\ m.kind \in {"ACK", "RESPONSE", "ERROR"}
         \/ m \in NodeEvent /\ m.kind \in {"DATA", "TRIGGER", "NODE_ERROR"}
         \/ m \in Status /\ m.kind = "STATUS"
<1>1. m \in Word => m.kind \in {"UP", "CFG", "RUN", "IDLE", "DIS", "HB"}
  BY DEF Word
<1>2. m \in Config => m.kind = "CONFIG"
  BY DEF Config
<1>3. m \in Reply => m.kind \in {"ACK", "RESPONSE", "ERROR"}
  BY DEF Reply
<1>4. m \in NodeEvent => m.kind \in {"DATA", "TRIGGER", "NODE_ERROR"}
  BY DEF NodeEvent
<1>5. m \in Status => m.kind = "STATUS"
  BY DEF Status
<1> QED BY <1>1, <1>2, <1>3, <1>4, <1>5, Zenon DEF Message

\* What each kind of message holds.
LEMMA ConfigFields ==
  ASSUME NEW m \in Config
  PROVE  m = [kind |-> "CONFIG", config |-> m.config] /\ m.config \in Configs
BY DEF Config

\* A reply.
LEMMA ReplyFields ==
  ASSUME NEW m \in Reply
  PROVE  /\ m.path \in Paths
         /\ m.kind = "ACK" => m = [kind |-> "ACK", path |-> m.path]
         /\ m.kind = "RESPONSE" =>
              m = [kind |-> "RESPONSE", path |-> m.path, value |-> m.value] /\ m.value \in ReplyValues
         /\ m.kind = "ERROR" =>
              m = [kind |-> "ERROR", path |-> m.path, error |-> m.error] /\ m.error \in Errors
BY DEF Reply

\* An event of a Node.
LEMMA EventFields ==
  ASSUME NEW m \in NodeEvent
  PROVE  /\ m.path \in NodePaths /\ m.payload \in Payloads
         /\ m.kind \in {"DATA", "TRIGGER"} =>
              m = [kind |-> m.kind, path |-> m.path, payload |-> m.payload]
         /\ m.kind = "NODE_ERROR" =>
              /\ m = [kind |-> m.kind, path |-> m.path, payload |-> m.payload, error |-> m.error]
              /\ m.error \in NodeErrors
BY DEF NodeEvent

\* The status.
LEMMA StatusFields ==
  ASSUME NEW m \in Status
  PROVE  /\ m = [kind |-> "STATUS", nodes |-> m.nodes] /\ m.nodes \in Registered
         /\ NodesObject(m.nodes) \in Marks
         /\ \A i \in 1 .. Len(NodesObject(m.nodes)) : NodesObject(m.nodes)[i] # "\n"
         /\ \E s \in Marks : NodesObject(m.nodes) = <<"{">> \o s
<1> DEFINE o == NodesObject(m.nodes)
<1>1. m = [kind |-> "STATUS", nodes |-> m.nodes] /\ m.nodes \in Registered
  BY DEF Status
<1>2. PICK s \in Seq(Plain) : o = <<"{">> \o s
  BY <1>1, PlainNodes
<1>3. o \in Seq(Plain)
  BY <1>1, PlainNodes
<1> HIDE DEF o
<1>4. o \in Marks /\ s \in Marks
  BY <1>2, <1>3, MarkHas, SeqMonotonic DEF Marks
<1>5. \A i \in 1 .. Len(o) : o[i] # "\n"
  BY <1>3, PlainHas, ElementOfSeq
<1> QED BY <1>1, <1>2, <1>4, <1>5, Zenon DEF o

\* Pieces of text make a text, however they are put together.
LEMMA Joining ==
  /\ \A a, b \in Marks : a \o b \in Marks
  /\ \A a, b, c \in Marks : (a \o b) \o c = a \o (b \o c)
  /\ EndOfLine \in Marks /\ <<":">> \in Marks
  /\ \A e \in Errors \cup NodeErrors : <<e, ":">> \in Marks
<1>1. \A a, b \in Marks : a \o b \in Marks
  BY ConcatProperties DEF Marks
<1>2. \A a, b, c \in Marks : (a \o b) \o c = a \o (b \o c)
  BY ConcatAssociative DEF Marks
<1>3. /\ "\n" \in Mark /\ ":" \in Mark
      /\ \A e \in Errors \cup NodeErrors : e \in Mark
  BY MarkHas
<1>4. EndOfLine \in Marks /\ <<":">> \in Marks
  BY <1>3 DEF EndOfLine, Marks
<1>5. \A e \in Errors \cup NodeErrors : <<e, ":">> \in Marks
  BY <1>3 DEF Marks
<1> QED BY <1>1, <1>2, <1>4, <1>5, Zenon

\* It does not matter how pieces are put together.
LEMMA Regroup == \A a, b, c \in Marks : (a \o b) \o c = a \o (b \o c)
BY Joining, Zenon

\* endLine() ends a text.
LEMMA AppendEnd ==
  ASSUME NEW t \in Marks
  PROVE  Append(t, "\n") = t \o EndOfLine
<1>1. "\n" \in Mark
  BY MarkHas
<1> QED BY <1>1, AppendIsConcat DEF EndOfLine, Marks

\* What follows the path of an event is text.
LEMMA AfterPathTyped ==
  ASSUME NEW m \in NodeEvent
  PROVE  AfterPath(m) \in Marks
<1>1. m.payload \in Marks
  BY EventFields, MarkHas
<1>2. <<":">> \o (m.payload \o EndOfLine) \in Marks
  BY <1>1, Joining, Zenon
<1> QED BY <1>2, Joining DEF AfterPath

\* A one-word message is its opening and the end of the line.
LEMMA WordWhole ==
  ASSUME NEW m \in Word
  PROVE  Whole(m) = <<Opening(m)>> \o Remainder(m)
<1>1. m.kind \in {"UP", "CFG", "RUN", "IDLE", "DIS", "HB"}
  BY DEF Word
<1>2. Text(m) = <<m.kind>>
  <2>1. m \notin Config /\ m \notin Reply /\ m \notin NodeEvent /\ m \notin Status
    BY <1>1 DEF Config, Reply, NodeEvent, Status
  <2> QED BY <2>1, Zenon DEF Text
<1>3. <<m.kind>> \in Marks
  BY <1>1, MarkHas DEF Marks
<1>4. Opening(m) = m.kind /\ Remainder(m) = EndOfLine
  BY <1>1 DEF Opening, Remainder
<1> QED BY <1>2, <1>3, <1>4, AppendEnd, Zenon DEF Whole

\* So with a configuration,
LEMMA ConfigWhole ==
  ASSUME NEW m \in Config
  PROVE  Whole(m) = <<Opening(m)>> \o Remainder(m)
<1>1. m.kind = "CONFIG" /\ m.config \in Marks /\ <<"CFG:">> \in Marks
  <2>1. m.kind = "CONFIG" /\ m.config \in Configs
    BY DEF Config
  <2>2. m.config \in Marks /\ "CFG:" \in Mark
    BY <2>1, MarkHas
  <2> QED BY <2>1, <2>2 DEF Marks
<1>2. m \notin Word /\ m \notin Reply /\ m \notin NodeEvent /\ m \notin Status
  BY <1>1 DEF Word, Reply, NodeEvent, Status
<1>3. Text(m) = <<"CFG:">> \o m.config
  BY <1>2, Zenon DEF Text, ConfigText
<1>4. Opening(m) = "CFG:" /\ Remainder(m) = m.config \o EndOfLine
  BY <1>1 DEF Opening, Remainder
<1>5. Whole(m) = (<<"CFG:">> \o m.config) \o EndOfLine
  BY <1>1, <1>3, AppendEnd, Joining, Zenon DEF Whole
<1> DEFINE h == <<"CFG:">>
<1>6. Whole(m) = (h \o m.config) \o EndOfLine /\ h \in Marks
  BY <1>1, <1>5
<1>7. Whole(m) = h \o (m.config \o EndOfLine)
  <2> HIDE DEF h
  <2> QED BY <1>1, <1>6, Joining
<1> QED BY <1>4, <1>7, Zenon

\* with a reply,
LEMMA ReplyWhole ==
  ASSUME NEW m \in Reply
  PROVE  Whole(m) = <<Opening(m)>> \o Remainder(m)
<1>1. /\ m.kind \in {"ACK", "RESPONSE", "ERROR"}
      /\ m \notin Word /\ m \notin Config /\ m \notin NodeEvent /\ m \notin Status
  <2>1. m.kind \in {"ACK", "RESPONSE", "ERROR"}
    BY DEF Reply
  <2> QED BY <2>1 DEF Word, Config, NodeEvent, Status
<1>2. Text(m) = ReplyText(m)
  BY <1>1 DEF Text
<1>3. m.path \in Paths /\ PathText(m.path) \in Marks
  BY ReplyFields, PathTyped
<1> DEFINE p == PathText(m.path)
           v == ReplyValueText(m.value)
<1>4. CASE m.kind = "ACK"
  <2>1. Text(m) = <<"CMD_ACK:">> \o p
    BY <1>2, <1>4, Zenon DEF ReplyText
  <2>2. Opening(m) = "CMD_ACK:" /\ Remainder(m) = p \o EndOfLine
    BY <1>4 DEF Opening, Remainder
  <2>3. <<"CMD_ACK:">> \in Marks
    BY MarkHas DEF Marks
  <2> HIDE DEF p
  <2>4. Whole(m) = (<<"CMD_ACK:">> \o p) \o EndOfLine
    BY <1>3, <2>1, <2>3, AppendEnd, Joining, Zenon DEF Whole, p
  <2> QED BY <1>3, <2>2, <2>3, <2>4, Joining DEF p
<1>5. CASE m.kind = "RESPONSE"
  <2>1. Text(m) = ((<<"CMD_RESPONSE:">> \o p) \o <<":">>) \o v
    BY <1>2, <1>5, Zenon DEF ReplyText
  <2>2. Opening(m) = "CMD_RESPONSE:" /\ Remainder(m) = p \o (<<":">> \o (v \o EndOfLine))
    BY <1>5 DEF Opening, Remainder
  <2>3. <<"CMD_RESPONSE:">> \in Marks /\ v \in Marks /\ p \in Marks
    <3>1. m.value \in ReplyValues
      BY <1>5, ReplyFields
    <3> QED BY <1>3, <3>1, ValueTextPlain, MarkHas DEF Marks
  <2> HIDE DEF p, v
  <2>4. Whole(m) = (((<<"CMD_RESPONSE:">> \o p) \o <<":">>) \o v) \o EndOfLine
    <3>1. ((<<"CMD_RESPONSE:">> \o p) \o <<":">>) \o v \in Marks
      BY <2>3, Joining, Zenon
    <3> QED BY <2>1, <3>1, AppendEnd, Zenon DEF Whole
  <2>5. Whole(m) = ((<<"CMD_RESPONSE:">> \o p) \o <<":">>) \o (v \o EndOfLine)
    BY <2>3, <2>4, Joining
  <2>6. Whole(m) = (<<"CMD_RESPONSE:">> \o p) \o (<<":">> \o (v \o EndOfLine))
    BY <2>3, <2>5, Joining
  <2>7. <<":">> \o (v \o EndOfLine) \in Marks
    BY <2>3, Joining, Zenon
  <2> QED BY <2>2, <2>3, <2>6, <2>7, Joining
<1>6. CASE m.kind = "ERROR"
  <2>1. Text(m) = <<"CMD_ERROR:", m.error, ":">> \o p
    BY <1>2, <1>6, Zenon DEF ReplyText
  <2>2. Opening(m) = "CMD_ERROR:" /\ Remainder(m) = <<m.error, ":">> \o (p \o EndOfLine)
    BY <1>6 DEF Opening, Remainder
  <2>3. /\ <<"CMD_ERROR:">> \in Marks /\ <<m.error, ":">> \in Marks /\ p \in Marks
        /\ <<"CMD_ERROR:", m.error, ":">> = <<"CMD_ERROR:">> \o <<m.error, ":">>
    <3>1. m.error \in Errors /\ "CMD_ERROR:" \in Mark /\ m.error \in Mark /\ ":" \in Mark
      BY <1>6, ReplyFields, MarkHas
    <3> QED BY <1>3, <3>1 DEF Marks
  <2> HIDE DEF p
  <2>4. Text(m) = <<"CMD_ERROR:">> \o (<<m.error, ":">> \o p)
    <3> DEFINE h == <<"CMD_ERROR:">>
               e == <<m.error, ":">>
    <3>1. Text(m) = (h \o e) \o p /\ h \in Marks /\ e \in Marks
      BY <2>1, <2>3, Zenon
    <3>2. Text(m) = h \o (e \o p)
      <4> HIDE DEF h, e
      <4> QED BY <2>3, <3>1, Joining
    <3> QED BY <3>2
  <2>5. Whole(m) = (<<"CMD_ERROR:">> \o (<<m.error, ":">> \o p)) \o EndOfLine
    <3>1. <<"CMD_ERROR:">> \o (<<m.error, ":">> \o p) \in Marks
      BY <2>3, Joining, Zenon
    <3> QED BY <2>4, <3>1, AppendEnd, Zenon DEF Whole
  <2>6. Whole(m) = <<"CMD_ERROR:">> \o ((<<m.error, ":">> \o p) \o EndOfLine)
    BY <2>3, <2>5, Joining
  <2> QED BY <2>2, <2>3, <2>6, Joining, Zenon
<1> QED BY <1>1, <1>4, <1>5, <1>6

\* with a status,
LEMMA StatusWhole ==
  ASSUME NEW m \in Status
  PROVE  Whole(m) = <<Opening(m)>> \o Remainder(m)
<1> DEFINE h == <<"DATA:">>
           o == NodesObject(m.nodes)
<1>1. m.kind = "STATUS" /\ o \in Marks /\ h \in Marks
  <2>1. m.kind = "STATUS"
    BY DEF Status
  <2>2. h \in Marks
    BY MarkHas DEF Marks
  <2> QED BY <2>1, <2>2, StatusFields
<1>2. m \notin Word /\ m \notin Config /\ m \notin Reply /\ m \notin NodeEvent
  BY <1>1 DEF Word, Config, Reply, NodeEvent
<1>3. Text(m) = h \o o
  BY <1>2, Zenon DEF Text, StatusLine
<1>4. Opening(m) = "DATA:" /\ Remainder(m) = o \o EndOfLine
  BY <1>1 DEF Opening, Remainder
<1> HIDE DEF o
<1>5. Whole(m) = (h \o o) \o EndOfLine
  BY <1>1, <1>3, AppendEnd, Joining, Zenon DEF Whole
<1>6. <<Opening(m)>> = h
  BY <1>4
<1> HIDE DEF h
<1>7. Whole(m) = h \o (o \o EndOfLine)
  BY <1>1, <1>5, Joining
<1> QED BY <1>4, <1>6, <1>7, Zenon

\* and with an event.
LEMMA EventWhole ==
  ASSUME NEW m \in NodeEvent
  PROVE  Whole(m) = <<Opening(m)>> \o Remainder(m)
<1> DEFINE tail == IF m.payload = << >> THEN << >> ELSE <<":">> \o m.payload
           start == CASE m.kind = "DATA"       -> <<"DATA:">>
                      [] m.kind = "TRIGGER"    -> <<"TRIGGER:">>
                      [] m.kind = "NODE_ERROR" -> <<"NODE_ERROR:", m.error, ":">>
<1>1. /\ m.kind \in {"DATA", "TRIGGER", "NODE_ERROR"}
      /\ m \notin Word /\ m \notin Config /\ m \notin Reply /\ m \notin Status
  <2>1. m.kind \in {"DATA", "TRIGGER", "NODE_ERROR"}
    BY DEF NodeEvent
  <2> QED BY <2>1 DEF Word, Config, Reply, Status
<1>2. m.path \in Marks /\ m.payload \in Marks
  BY EventFields, MarkHas
<1>3. tail \in Marks /\ tail \o EndOfLine = AfterPath(m)
  <2>1. CASE m.payload = << >>
    <3>1. << >> \in Marks /\ << >> \o EndOfLine = EndOfLine
      BY Joining, ConcatEmptySeq, EmptySeq DEF Marks
    <3> QED BY <2>1, <3>1 DEF AfterPath
  <2>2. CASE m.payload # << >>
    <3> DEFINE c == <<":">>
    <3>1. tail = c \o m.payload /\ AfterPath(m) = c \o (m.payload \o EndOfLine) /\ c \in Marks
      BY <2>2, Joining DEF AfterPath
    <3> HIDE DEF c, tail
    <3> QED BY <1>2, <3>1, Joining
  <2> QED BY <2>1, <2>2
<1>4. Text(m) = (start \o m.path) \o tail
  <2>1. Text(m) = NodeEventText(m)
    BY <1>1, Zenon DEF Text
  <2> QED BY <2>1, Zenon DEF NodeEventText
<1> HIDE DEF tail
<1>5. ASSUME NEW h \in Marks, start = h
      PROVE  Whole(m) = h \o (m.path \o AfterPath(m))
  <2>1. Text(m) = (h \o m.path) \o tail
    BY <1>4, <1>5, Zenon
  <2> HIDE DEF start
  <2>2. Text(m) \in Marks
    BY <1>2, <1>3, <2>1, Joining
  <2>3. Whole(m) = ((h \o m.path) \o tail) \o EndOfLine
    BY <2>1, <2>2, AppendEnd, Zenon DEF Whole
  <2>4. Whole(m) = (h \o m.path) \o AfterPath(m)
    <3>1. h \o m.path \in Marks
      BY <1>2, Joining
    <3>2. ((h \o m.path) \o tail) \o EndOfLine = (h \o m.path) \o (tail \o EndOfLine)
      BY <1>3, <3>1, Joining
    <3> QED BY <1>3, <2>3, <3>2, Zenon
  <2> QED BY <1>2, <2>4, Joining, AfterPathTyped
<1>6. CASE m.kind = "DATA"
  <2>1. <<"DATA:">> \in Marks
    BY MarkHas DEF Marks
  <2>2. start = <<"DATA:">>
    BY <1>6, Zenon
  <2>3. Opening(m) = "DATA:" /\ Remainder(m) = m.path \o AfterPath(m)
    BY <1>6 DEF Opening, Remainder
  <2> HIDE DEF start
  <2> QED BY <1>5, <2>1, <2>2, <2>3, Zenon
<1>7. CASE m.kind = "TRIGGER"
  <2>1. <<"TRIGGER:">> \in Marks
    BY MarkHas DEF Marks
  <2>2. start = <<"TRIGGER:">>
    BY <1>7, Zenon
  <2>3. Opening(m) = "TRIGGER:" /\ Remainder(m) = m.path \o AfterPath(m)
    BY <1>7 DEF Opening, Remainder
  <2> HIDE DEF start
  <2> QED BY <1>5, <2>1, <2>2, <2>3, Zenon
<1>8. CASE m.kind = "NODE_ERROR"
  <2> DEFINE h == <<"NODE_ERROR:">>
             e == <<m.error, ":">>
  <2>1. <<"NODE_ERROR:", m.error, ":">> = h \o e /\ h \in Marks /\ e \in Marks
    <3>1. m.error \in NodeErrors /\ m.error \in Mark /\ "NODE_ERROR:" \in Mark /\ ":" \in Mark
      BY <1>8, EventFields, MarkHas
    <3> QED BY <3>1 DEF Marks
  <2>2. start = h \o e
    BY <1>8, <2>1, Zenon
  <2>3. Opening(m) = "NODE_ERROR:" /\ Remainder(m) = e \o (m.path \o AfterPath(m))
    BY <1>8 DEF Opening, Remainder
  <2>4. <<Opening(m)>> = h
    BY <2>3
  <2> HIDE DEF start, h, e
  <2>5. Whole(m) = (h \o e) \o (m.path \o AfterPath(m))
    BY <1>5, <2>1, <2>2, Joining
  <2>6. Whole(m) = h \o (e \o (m.path \o AfterPath(m)))
    <3>1. m.path \o AfterPath(m) \in Marks
      BY <1>2, Joining, AfterPathTyped
    <3> QED BY <2>1, <2>5, <3>1, Joining
  <2> QED BY <2>3, <2>4, <2>6, Zenon
<1> QED BY <1>1, <1>6, <1>7, <1>8

\* The parts of a message are text.
LEMMA RemainderTyped ==
  ASSUME NEW m \in Message
  PROVE  Remainder(m) \in Marks /\ Opening(m) \in Mark
<1>1. CASE m \in Word /\ m.kind \in {"UP", "CFG", "RUN", "IDLE", "DIS", "HB"}
  BY <1>1, Joining, MarkHas DEF Remainder, Opening
<1>2. CASE m \in Config /\ m.kind = "CONFIG"
  <2>1. m.config \in Marks
    BY <1>2, ConfigFields, MarkHas
  <2>2. m.config \o EndOfLine \in Marks
    BY <2>1, Joining
  <2> QED BY <1>2, <2>2, MarkHas DEF Remainder, Opening
<1>3. CASE m \in Reply /\ m.kind \in {"ACK", "RESPONSE", "ERROR"}
  <2>1. PathText(m.path) \in Marks
    BY <1>3, ReplyFields, PathTyped
  <2>2. CASE m.kind = "ACK"
    <3>1. PathText(m.path) \o EndOfLine \in Marks
      BY <2>1, Joining
    <3> QED BY <2>2, <3>1, MarkHas DEF Remainder, Opening
  <2>3. CASE m.kind = "RESPONSE"
    <3>1. m.value \in ReplyValues
      BY <1>3, <2>3, ReplyFields
    <3>2. ReplyValueText(m.value) \in Marks
      BY <3>1, ValueTextPlain
    <3>3. PathText(m.path) \o (<<":">> \o (ReplyValueText(m.value) \o EndOfLine)) \in Marks
      BY <2>1, <3>2, Joining, Zenon
    <3> QED BY <2>3, <3>3, MarkHas DEF Remainder, Opening
  <2>4. CASE m.kind = "ERROR"
    <3>1. m.error \in Errors
      BY <1>3, <2>4, ReplyFields
    <3>2. <<m.error, ":">> \o (PathText(m.path) \o EndOfLine) \in Marks
      BY <2>1, <3>1, Joining, Zenon
    <3> QED BY <2>4, <3>2, MarkHas DEF Remainder, Opening
  <2> QED BY <1>3, <2>2, <2>3, <2>4
<1>4. CASE m \in NodeEvent /\ m.kind \in {"DATA", "TRIGGER", "NODE_ERROR"}
  <2>1. m.path \o AfterPath(m) \in Marks
    <3>1. m.path \in Marks
      BY <1>4, EventFields, MarkHas
    <3> QED BY <1>4, <3>1, AfterPathTyped, Joining
  <2>2. CASE m.kind = "DATA"
    BY <2>1, <2>2, MarkHas DEF Remainder, Opening
  <2>3. CASE m.kind = "TRIGGER"
    BY <2>1, <2>3, MarkHas DEF Remainder, Opening
  <2>4. CASE m.kind = "NODE_ERROR"
    <3>1. m.error \in NodeErrors
      BY <1>4, <2>4, EventFields
    <3>2. <<m.error, ":">> \o (m.path \o AfterPath(m)) \in Marks
      BY <2>1, <3>1, Joining, Zenon
    <3> QED BY <2>4, <3>2, MarkHas DEF Remainder, Opening
  <2> QED BY <1>4, <2>2, <2>3, <2>4
<1>5. CASE m \in Status /\ m.kind = "STATUS"
  <2>1. NodesObject(m.nodes) \o EndOfLine \in Marks
    BY <1>5, StatusFields, Joining, Zenon
  <2> QED BY <1>5, <2>1, MarkHas DEF Remainder, Opening
<1> QED BY <1>1, <1>2, <1>3, <1>4, <1>5, Kinds

\* Each message is its opening and its remainder.
LEMMA WholeParts ==
  ASSUME NEW m \in Message
  PROVE  Whole(m) = <<Opening(m)>> \o Remainder(m) /\ Whole(m) \in Marks
<1>1. Whole(m) = <<Opening(m)>> \o Remainder(m)
  BY WordWhole, ConfigWhole, ReplyWhole, EventWhole, StatusWhole, Zenon DEF Message
<1>2. <<Opening(m)>> \in Marks
  BY RemainderTyped DEF Marks
<1> QED BY <1>1, <1>2, RemainderTyped, Joining

\* The first mark of a message tells its kind, but for the status and the data of a Node.
LEMMA OpeningTellsKind ==
  ASSUME NEW m \in Message, NEW x \in Message, Opening(m) = Opening(x)
  PROVE  \/ m.kind = x.kind
         \/ m.kind = "DATA" /\ x.kind = "STATUS"
         \/ m.kind = "STATUS" /\ x.kind = "DATA"
BY Kinds DEF Opening

-----------------------------------------------------------------------------
(* Reading them back *)

\* The host reads the first mark.
LEMMA ReadOpening ==
  ASSUME NEW x \in Message, NEW m \in Message, NEW r \in Marks, IsPrefix(Whole(x), Whole(m) \o r)
  PROVE  /\ Opening(x) = Opening(m)
         /\ IsPrefix(Remainder(x), Remainder(m) \o r) /\ Remainder(m) \o r \in Marks
<1> DEFINE hx == <<Opening(x)>>
           hm == <<Opening(m)>>
<1>1. hx \in Marks /\ hm \in Marks /\ Len(hx) = Len(hm)
  BY RemainderTyped DEF Marks
<1>2. hx = hm => Opening(x) = Opening(m)
  OBVIOUS
<1>3. Whole(x) = hx \o Remainder(x) /\ Whole(m) = hm \o Remainder(m)
  BY WholeParts
<1> HIDE DEF hx, hm
<1>4. Whole(m) \o r = hm \o (Remainder(m) \o r) /\ Remainder(m) \o r \in Marks
  <2>1. Remainder(m) \in Marks
    BY RemainderTyped
  <2>2. (hm \o Remainder(m)) \o r = hm \o (Remainder(m) \o r) /\ Remainder(m) \o r \in Marks
    BY <1>1, <2>1, Joining
  <2> QED BY <1>3, <2>2, Zenon
<1>5. IsPrefix(hx \o Remainder(x), hm \o (Remainder(m) \o r))
  BY <1>3, <1>4, Zenon
<1>6. hx = hm /\ IsPrefix(Remainder(x), Remainder(m) \o r)
  BY <1>1, <1>4, <1>5, RemainderTyped, ReadSame DEF Marks
<1> QED BY <1>2, <1>4, <1>6

\* And then a text without a line break, up to the end of the line.
LEMMA ReadToEnd ==
  ASSUME NEW a \in Marks, NEW b \in Marks, NEW r \in Marks,
         \A i \in 1 .. Len(a) : a[i] # "\n", \A i \in 1 .. Len(b) : b[i] # "\n",
         IsPrefix(a \o EndOfLine, (b \o EndOfLine) \o r)
  PROVE  a = b
<1>1. "\n" \in Mark /\ << >> \in Marks /\ EndOfLine \in Marks /\ <<"\n">> \o << >> = EndOfLine
  <2>1. "\n" \in Mark
    BY MarkHas
  <2>2. <<"\n">> \in Seq(Mark)
    BY <2>1
  <2> QED BY <2>1, <2>2, EmptySeq, ConcatEmptySeq DEF Marks, EndOfLine
<1>2. (b \o EndOfLine) \o r = b \o (<<"\n">> \o r)
  <2>1. (b \o EndOfLine) \o r = b \o (EndOfLine \o r)
    BY <1>1, Joining
  <2> QED BY <2>1 DEF EndOfLine
<1>3. IsPrefix(a \o (<<"\n">> \o << >>), b \o (<<"\n">> \o r))
  BY <1>1, <1>2, Zenon
<1>4. /\ \A i \in 1 .. Len(a) : a[i] \notin {"\n"}
      /\ \A i \in 1 .. Len(b) : b[i] \notin {"\n"}
      /\ "\n" \in {"\n"}
  OBVIOUS
<1> HIDE DEF EndOfLine
<1> QED BY <1>1, <1>3, <1>4, ReadDelimited, Zenon DEF Marks

\* The Node a reply names.
LEMMA ReadNode ==
  ASSUME NEW p \in Paths, NEW q \in Paths, NEW s \in Marks, NEW t \in Marks,
         IsPrefix(PathText(p) \o s, PathText(q) \o t)
  PROVE  p.nodeId = q.nodeId /\ IsPrefix(PropertyText(p) \o s, PropertyText(q) \o t)
<1> DEFINE hp == <<"/", p.nodeId, "/">>
           hq == <<"/", q.nodeId, "/">>
<1>1. /\ hp \in Marks /\ hq \in Marks /\ Len(hp) = Len(hq)
      /\ PropertyText(p) \in Marks /\ PropertyText(q) \in Marks
      /\ PathText(p) = hp \o PropertyText(p) /\ PathText(q) = hq \o PropertyText(q)
  BY PathTyped
<1>2. hp = hq => p.nodeId = q.nodeId
  OBVIOUS
<1> HIDE DEF hp, hq
<1>3. /\ PathText(p) \o s = hp \o (PropertyText(p) \o s)
      /\ PathText(q) \o t = hq \o (PropertyText(q) \o t)
      /\ PropertyText(p) \o s \in Marks /\ PropertyText(q) \o t \in Marks
  <2>1. /\ (hp \o PropertyText(p)) \o s = hp \o (PropertyText(p) \o s)
        /\ PropertyText(p) \o s \in Marks
    BY <1>1, Joining
  <2>2. /\ (hq \o PropertyText(q)) \o t = hq \o (PropertyText(q) \o t)
        /\ PropertyText(q) \o t \in Marks
    BY <1>1, Joining
  <2> QED BY <1>1, <2>1, <2>2, Zenon
<1>4. IsPrefix(hp \o (PropertyText(p) \o s), hq \o (PropertyText(q) \o t))
  BY <1>3, Zenon
<1> QED BY <1>1, <1>2, <1>3, <1>4, ReadSame DEF Marks

\* A path is its Node and its property.
LEMMA PathExtensional ==
  ASSUME NEW p \in Paths, NEW q \in Paths, p.nodeId = q.nodeId,
         PropertyText(p) = PropertyText(q)
  PROVE  p = q
<1>1. /\ p = [nodeId |-> p.nodeId, propertyId |-> p.propertyId]
      /\ q = [nodeId |-> q.nodeId, propertyId |-> q.propertyId]
  BY DEF Paths
<1>2. p.propertyId = q.propertyId
  <2>1. \A a : <<a>> # << >>
    OBVIOUS
  <2>2. \A a, b : <<a>> = <<b>> => a = b
    OBVIOUS
  <2> QED BY <2>1, <2>2, Zenon DEF PropertyText
<1> QED BY <1>1, <1>2

\* The path a reply ends with.
LEMMA ReadPath ==
  ASSUME NEW p \in Paths, NEW q \in Paths, NEW r \in Marks,
         IsPrefix(PathText(p) \o EndOfLine, (PathText(q) \o EndOfLine) \o r)
  PROVE  p = q
<1>1. (PathText(q) \o EndOfLine) \o r = PathText(q) \o (EndOfLine \o r) /\ EndOfLine \o r \in Marks
  BY PathTyped, Joining
<1>2. p.nodeId = q.nodeId /\ IsPrefix(PropertyText(p) \o EndOfLine, PropertyText(q) \o (EndOfLine \o r))
  BY <1>1, Joining, ReadNode
<1>3. PropertyText(q) \o (EndOfLine \o r) = (PropertyText(q) \o EndOfLine) \o r
  BY PathTyped, Joining
<1>4. PropertyText(p) = PropertyText(q)
  BY <1>2, <1>3, PathTyped, ReadToEnd
<1> QED BY <1>2, <1>4, PathExtensional

\* The same for the text of a message, one delimiter being the end of its line.
LEMMA ReadUntil ==
  ASSUME NEW u \in Marks, NEW v \in Marks, NEW s \in Marks, NEW t \in Marks,
         NEW d \in {":", "\n"}, NEW e \in {":", "\n"}, NEW w,
         \A i \in 1 .. Len(u) : u[i] \notin {":", "\n"},
         \A i \in 1 .. Len(v) : v[i] \notin {":", "\n"},
         w = v \o (<<e>> \o t), IsPrefix(u \o (<<d>> \o s), w)
  PROVE  u = v /\ d = e /\ IsPrefix(s, t)
<1>1. d \in Mark /\ e \in Mark
  BY MarkHas
<1>2. IsPrefix(u \o (<<d>> \o s), v \o (<<e>> \o t))
  BY Zenon
<1> DEFINE D == {":", "\n"}
<1>3. /\ d \in D /\ e \in D
      /\ \A i \in 1 .. Len(u) : u[i] \notin D
      /\ \A i \in 1 .. Len(v) : v[i] \notin D
  OBVIOUS
<1>4. u \in Seq(Mark) /\ v \in Seq(Mark) /\ s \in Seq(Mark) /\ t \in Seq(Mark)
  BY DEF Marks
<1> HIDE DEF D
<1> QED BY <1>1, <1>2, <1>3, <1>4, ReadDelimited

\* The value a response ends with, and the path before it, although ":" may be what the
\* command gave for a property.
LEMMA ReadResponse ==
  ASSUME NEW p \in Paths, NEW q \in Paths, NEW a \in Marks, NEW b \in Marks, NEW r \in Marks,
         \A i \in 1 .. Len(a) : a[i] \notin {":", "\n"},
         \A i \in 1 .. Len(b) : b[i] \notin {":", "\n"},
         IsPrefix(PathText(p) \o (<<":">> \o (a \o EndOfLine)),
                  (PathText(q) \o (<<":">> \o (b \o EndOfLine))) \o r)
  PROVE  p = q /\ a = b
<1> DEFINE C == <<":">>
           s == a \o EndOfLine
           t == (b \o EndOfLine) \o r
<1>1. /\ C \in Marks /\ s \in Marks /\ t \in Marks /\ C \o s \in Marks /\ C \o t \in Marks
      /\ t = b \o (EndOfLine \o r) /\ EndOfLine \o r \in Marks
  <2> HIDE DEF C
  <2>1. C \in Marks
    BY Joining DEF C
  <2> QED BY <2>1, Joining
<1>2. Len(C) = 1 /\ C[1] = ":" /\ \A e : C = <<e>> => e = ":"
  OBVIOUS
<1>3. (PathText(q) \o (C \o (b \o EndOfLine))) \o r = PathText(q) \o (C \o t)
  <2> DEFINE B == b \o EndOfLine
             P == PathText(q)
  <2>1. C \in Marks /\ B \in Marks /\ P \in Marks
    BY <1>1, Joining, PathTyped
  <2> HIDE DEF C, B, P
  <2> DEFINE K == C \o B
  <2>2. K \in Marks
    BY <2>1, Joining
  <2>3. K \o r = C \o (B \o r)
    BY <2>1, Regroup
  <2> HIDE DEF K
  <2>4. (P \o K) \o r = P \o (K \o r)
    BY <2>1, <2>2, Regroup
  <2> QED BY <2>3, <2>4, Zenon DEF B, P, K
<1>4. IsPrefix(PathText(p) \o (C \o s), PathText(q) \o (C \o t))
  BY <1>3, Zenon
<1>5. ":" \in Mark /\ "\n" \in Mark /\ << >> \in Marks
      /\ EndOfLine = <<"\n">> \o << >>
  <2>1. ":" \in Mark /\ "\n" \in Mark
    BY MarkHas
  <2>2. <<"\n">> \in Seq(Mark)
    BY <2>1
  <2> QED BY <2>1, <2>2, EmptySeq, ConcatEmptySeq DEF Marks, EndOfLine
<1>6. EndOfLine \o r = <<"\n">> \o r
  BY DEF EndOfLine
<1> HIDE DEF s, t, C
<1>7. p.nodeId = q.nodeId /\ IsPrefix(PropertyText(p) \o (C \o s), PropertyText(q) \o (C \o t))
  BY <1>1, <1>4, ReadNode
<1>8. IsPrefix(s, t) => a = b
  <2>1. /\ \A i \in 1 .. Len(a) : a[i] # "\n"
        /\ \A i \in 1 .. Len(b) : b[i] # "\n"
    OBVIOUS
  <2> QED BY <2>1, ReadToEnd, Zenon DEF s, t
<1>9. /\ \A u \in Marks : << >> \o u = u
      /\ \A i \in 1 .. Len(<< >>) : << >>[i] \notin {":", "\n"}
  BY ConcatEmptySeq DEF Marks
<1>10. PropertyText(p) \in Marks /\ PropertyText(q) \in Marks
  BY PathTyped
<1>11. ASSUME NEW u \in Marks, NEW v \in Marks, Len(u) = Len(v),
              IsPrefix(u \o (C \o s), v \o (C \o t))
       PROVE  u = v /\ IsPrefix(s, t)
  <2>1. u = v /\ IsPrefix(C \o s, C \o t)
    BY <1>1, <1>11, ReadSame DEF Marks
  <2>2. IsPrefix(s, t)
    BY <1>1, <2>1, ReadSame DEF Marks
  <2> QED BY <2>1, <2>2
<1>12. CASE p.propertyId = "NUL" <=> q.propertyId = "NUL"
  <2>1. Len(PropertyText(p)) = Len(PropertyText(q))
    BY <1>12 DEF PropertyText
  <2>2. PropertyText(p) = PropertyText(q) /\ IsPrefix(s, t)
    BY <1>7, <1>10, <1>11, <2>1
  <2> QED BY <1>7, <1>8, <2>2, PathExtensional
<1>13. CASE p.propertyId = "NUL" /\ q.propertyId # "NUL"
  <2>1. PropertyText(p) = << >> /\ PropertyText(q) = <<q.propertyId>>
    BY <1>13 DEF PropertyText
  <2>2. IsPrefix(C \o s, <<q.propertyId>> \o (C \o t))
    BY <1>1, <1>7, <1>9, <2>1, Zenon
  <2>3. <<q.propertyId>> \in Marks /\ Len(<<q.propertyId>>) = 1
    BY <1>10, <2>1
  <2>4. IsPrefix(s, C \o t)
    BY <1>1, <1>2, <2>2, <2>3, ReadSame DEF Marks
  <2>5. IsPrefix(a \o (<<"\n">> \o << >>), C \o t)
    BY <1>5, <2>4, Zenon DEF s
  <2>6. C \o t = << >> \o (<<":">> \o t)
    BY <1>1, <1>9, Zenon DEF C
  <2>7. "\n" = ":"
    <3> DEFINE N == << >>
    <3>1. "\n" \in {":", "\n"} /\ ":" \in {":", "\n"}
      OBVIOUS
    <3>2. /\ N \in Marks /\ \A i \in 1 .. Len(N) : N[i] \notin {":", "\n"}
          /\ IsPrefix(a \o (<<"\n">> \o N), C \o t) /\ C \o t = N \o (<<":">> \o t)
      BY <1>5, <1>9, <2>5, <2>6, Zenon
    <3> HIDE DEF N
    <3> QED BY <1>1, <3>1, <3>2, ReadUntil
  <2> QED BY <2>7
<1>14. CASE p.propertyId # "NUL" /\ q.propertyId = "NUL"
  <2>1. PropertyText(q) = << >> /\ PropertyText(p) = <<p.propertyId>>
    BY <1>14 DEF PropertyText
  <2>2. IsPrefix(<<p.propertyId>> \o (C \o s), C \o t)
    BY <1>1, <1>7, <1>9, <2>1, Zenon
  <2>3. <<p.propertyId>> \in Marks /\ Len(<<p.propertyId>>) = 1
    BY <1>10, <2>1
  <2>4. IsPrefix(C \o s, t)
    BY <1>1, <1>2, <2>2, <2>3, ReadSame DEF Marks
  <2>5. IsPrefix(<< >> \o (<<":">> \o s), b \o (<<"\n">> \o r))
    BY <1>1, <1>6, <1>9, <2>4, Zenon DEF C
  <2>6. ":" = "\n"
    <3>1. "\n" \in {":", "\n"} /\ ":" \in {":", "\n"}
      OBVIOUS
    <3> QED BY <1>1, <1>5, <1>9, <2>5, <3>1, ReadDelimited, Zenon DEF Marks
  <2> QED BY <2>6
<1> QED BY <1>12, <1>13, <1>14

\* What follows the path of an event starts with a mark the path does not have.
LEMMA AfterPathStarts ==
  ASSUME NEW m \in NodeEvent
  PROVE  \E d \in {":", "\n"}, s \in Marks :
           /\ AfterPath(m) = <<d>> \o s
           /\ d = "\n" <=> m.payload = << >>
           /\ d = ":" => s = m.payload \o EndOfLine
<1>1. m.payload \in Marks /\ << >> \in Marks /\ EndOfLine = <<"\n">> \o << >>
  <2>1. m.payload \in Marks
    BY EventFields, MarkHas
  <2>2. <<"\n">> \in Seq(Mark)
    BY MarkHas
  <2> QED BY <2>1, <2>2, EmptySeq, ConcatEmptySeq DEF Marks, EndOfLine
<1>2. CASE m.payload = << >>
  <2>1. AfterPath(m) = <<"\n">> \o << >>
    BY <1>1, <1>2, Zenon DEF AfterPath
  <2>2. "\n" \in {":", "\n"} /\ "\n" # ":"
    OBVIOUS
  <2> QED BY <1>1, <1>2, <2>1, <2>2, Zenon
<1>3. CASE m.payload # << >>
  <2>1. AfterPath(m) = <<":">> \o (m.payload \o EndOfLine)
    BY <1>3, Zenon DEF AfterPath
  <2>2. m.payload \o EndOfLine \in Marks
    BY <1>1, Joining
  <2>3. ":" \in {":", "\n"} /\ "\n" # ":"
    OBVIOUS
  <2> QED BY <1>1, <1>3, <2>1, <2>2, <2>3, Zenon
<1> QED BY <1>2, <1>3, Zenon

\* No event's path is an object, as the status is.
LEMMA EventStarts ==
  ASSUME NEW m \in NodeEvent
  PROVE  \E a \in Mark, s \in Marks : a # "{" /\ m.path \o AfterPath(m) = <<a>> \o s
<1> DEFINE p == m.path
<1>1. p \in Marks /\ m.path \in NodePaths
  BY EventFields, MarkHas
<1>2. CASE p = << >>
  <2>1. AfterPath(m) \in Marks
    BY AfterPathTyped
  <2>2. p \o AfterPath(m) = AfterPath(m)
    BY <1>2, <2>1, ConcatEmptySeq DEF Marks
  <2>3. PICK d \in {":", "\n"}, s \in Marks : AfterPath(m) = <<d>> \o s
    BY AfterPathStarts, Zenon
  <2>4. d \in Mark /\ d # "{"
    BY MarkHas
  <2> QED BY <2>2, <2>3, <2>4, Zenon
<1>3. CASE p # << >>
  <2>1. p[1] # "{"
    BY <1>1, <1>3, LineWriterAssumption, Zenon
  <2> DEFINE a == Head(p)
             t == Tail(p)
             u == <<a>>
  <2>2. p \in Seq(Mark) /\ Len(p) \in Nat \ {0} /\ a = p[1]
    BY <1>1, <1>3 DEF Marks
  <2>3. a \in Mark /\ t \in Marks /\ u \in Marks /\ p = u \o t
    <3> HIDE DEF p
    <3>1. a \in Mark /\ t \in Seq(Mark) /\ u \in Seq(Mark) /\ Len(u) = 1 /\ u[1] = p[1]
          /\ Len(t) = Len(p) - 1 /\ \A i \in 1 .. Len(t) : t[i] = p[i + 1]
      BY <1>3, <2>2
    <3> HIDE DEF t, u
    <3>2. /\ u \o t \in Seq(Mark) /\ Len(u \o t) = Len(p)
          /\ \A i \in 1 .. Len(p) : (u \o t)[i] = IF i <= 1 THEN u[i] ELSE t[i - 1]
      <4> DEFINE w == u \o t
      <4>1. /\ w \in Seq(Mark) /\ Len(w) = Len(u) + Len(t)
            /\ \A i \in 1 .. Len(u) + Len(t) : w[i] = IF i <= Len(u) THEN u[i] ELSE t[i - Len(u)]
        <5>1. u \in Seq(Mark) /\ t \in Seq(Mark)
          BY <3>1
        <5> QED BY <5>1, ConcatProperties, Zenon
      <4> HIDE DEF w
      <4>2. Len(u) + Len(t) = Len(p) /\ Len(u) = 1
        BY <2>2, <3>1
      <4>3. \A i \in 1 .. Len(p) : w[i] = IF i <= 1 THEN u[i] ELSE t[i - 1]
        BY <4>1, <4>2, Zenon
      <4> QED BY <4>1, <4>2, <4>3, Zenon DEF w
    <3>3. \A i \in 1 .. Len(p) : (u \o t)[i] = p[i]
      BY <2>2, <3>1, <3>2
    <3>4. p = u \o t
      BY <2>2, <3>2, <3>3, SeqEqual
    <3> QED BY <3>1, <3>4 DEF Marks
  <2>4. AfterPath(m) \in Marks
    BY AfterPathTyped
  <2> HIDE DEF p, t, u
  <2>5. (u \o t) \o AfterPath(m) = u \o (t \o AfterPath(m)) /\ t \o AfterPath(m) \in Marks
    BY <2>3, <2>4, Joining
  <2>6. p \o AfterPath(m) = u \o (t \o AfterPath(m))
    BY <2>3, <2>5, Zenon
  <2> QED BY <2>1, <2>2, <2>3, <2>5, <2>6, Zenon DEF p, u
<1> QED BY <1>2, <1>3

\* Texts that start with different marks are not one the start of the other.
LEMMA DifferentStarts ==
  ASSUME NEW a \in Mark, NEW b \in Mark, NEW s \in Marks, NEW t \in Marks, NEW r \in Marks,
         IsPrefix(<<a>> \o s, (<<b>> \o t) \o r)
  PROVE  a = b
<1> DEFINE u == <<a>>
           v == <<b>>
<1>1. u \in Marks /\ v \in Marks /\ Len(u) = Len(v) /\ (u = v => a = b)
  BY DEF Marks
<1> HIDE DEF u, v
<1>2. (v \o t) \o r = v \o (t \o r) /\ t \o r \in Marks
  BY <1>1, Joining
<1>3. IsPrefix(u \o s, v \o (t \o r))
  BY <1>2, Zenon DEF u, v
<1> QED BY <1>1, <1>2, <1>3, ReadSame DEF Marks

\* So the host reads one kind of message.
LEMMA ReadKind ==
  ASSUME NEW x \in Message, NEW m \in Message, NEW r \in Marks, IsPrefix(Whole(x), Whole(m) \o r)
  PROVE  x.kind = m.kind /\ IsPrefix(Remainder(x), Remainder(m) \o r)
<1>1. Opening(x) = Opening(m) /\ IsPrefix(Remainder(x), Remainder(m) \o r)
  BY ReadOpening
<1>2. ASSUME NEW e \in Message, e.kind = "DATA"
      PROVE  \E a \in Mark, s \in Marks : a # "{" /\ Remainder(e) = <<a>> \o s
  <2>1. e \in NodeEvent
    BY <1>2, Kinds
  <2>2. Remainder(e) = e.path \o AfterPath(e)
    BY <1>2 DEF Remainder
  <2> QED BY <2>1, <2>2, EventStarts, Zenon
<1>3. ASSUME NEW e \in Message, e.kind = "STATUS"
      PROVE  \E s \in Marks : Remainder(e) = <<"{">> \o s
  <2>1. e \in Status
    BY <1>3, Kinds
  <2>2. Remainder(e) = NodesObject(e.nodes) \o EndOfLine
    BY <1>3 DEF Remainder
  <2> DEFINE b == <<"{">>
  <2>3. PICK s \in Marks : NodesObject(e.nodes) = b \o s
    BY <2>1, StatusFields
  <2>4. b \in Marks
    <3>1. "{" \in Plain
      BY DEF Plain
    <3>2. "{" \in Mark
      BY <3>1 DEF Mark
    <3>3. \A c \in Mark : <<c>> \in Marks
      BY DEF Marks
    <3> QED BY <3>2, <3>3, Zenon
  <2> HIDE DEF b
  <2>5. (b \o s) \o EndOfLine = b \o (s \o EndOfLine) /\ s \o EndOfLine \in Marks
    BY <2>4, Joining
  <2>6. Remainder(e) = b \o (s \o EndOfLine)
    BY <2>2, <2>3, <2>5, Zenon
  <2> QED BY <2>5, <2>6, Zenon DEF b
<1>4. "{" \in Mark
  BY MarkHas, PlainHas
<1>5. ~(x.kind = "DATA" /\ m.kind = "STATUS")
  <2> SUFFICES ASSUME x.kind = "DATA", m.kind = "STATUS" PROVE FALSE
    OBVIOUS
  <2>1. PICK a \in Mark, s \in Marks : a # "{" /\ Remainder(x) = <<a>> \o s
    BY <1>2
  <2>2. PICK t \in Marks : Remainder(m) = <<"{">> \o t
    BY <1>3
  <2>3. IsPrefix(<<a>> \o s, (<<"{">> \o t) \o r)
    BY <1>1, <2>1, <2>2, Zenon
  <2> QED BY <1>4, <2>1, <2>3, DifferentStarts
<1>6. ~(x.kind = "STATUS" /\ m.kind = "DATA")
  <2> SUFFICES ASSUME x.kind = "STATUS", m.kind = "DATA" PROVE FALSE
    OBVIOUS
  <2>1. PICK a \in Mark, s \in Marks : a # "{" /\ Remainder(m) = <<a>> \o s
    BY <1>2
  <2>2. PICK t \in Marks : Remainder(x) = <<"{">> \o t
    BY <1>3
  <2>3. IsPrefix(<<"{">> \o t, (<<a>> \o s) \o r)
    BY <1>1, <2>1, <2>2, Zenon
  <2> QED BY <1>4, <2>1, <2>3, DifferentStarts
<1> QED BY <1>1, <1>5, <1>6, OpeningTellsKind, Zenon

\* The path and the payload of an event.
LEMMA ReadEvent ==
  ASSUME NEW x \in NodeEvent, NEW m \in NodeEvent, NEW r \in Marks,
         IsPrefix(x.path \o AfterPath(x), (m.path \o AfterPath(m)) \o r)
  PROVE  x.path = m.path /\ x.payload = m.payload
<1>1. /\ x.path \in Marks /\ m.path \in Marks /\ x.payload \in Marks /\ m.payload \in Marks
      /\ \A i \in 1 .. Len(x.path) : x.path[i] \notin {":", "\n"}
      /\ \A i \in 1 .. Len(m.path) : m.path[i] \notin {":", "\n"}
      /\ \A i \in 1 .. Len(x.payload) : x.payload[i] # "\n"
      /\ \A i \in 1 .. Len(m.payload) : m.payload[i] # "\n"
  BY EventFields, EventTextPlain
<1>2. PICK d \in {":", "\n"}, s \in Marks :
        /\ AfterPath(x) = <<d>> \o s
        /\ d = "\n" <=> x.payload = << >>
        /\ d = ":" => s = x.payload \o EndOfLine
  BY AfterPathStarts, Zenon
<1>3. PICK e \in {":", "\n"}, t \in Marks :
        /\ AfterPath(m) = <<e>> \o t
        /\ e = "\n" <=> m.payload = << >>
        /\ e = ":" => t = m.payload \o EndOfLine
  BY AfterPathStarts, Zenon
<1>4. d \in Mark /\ e \in Mark
  BY MarkHas
<1>5. (m.path \o AfterPath(m)) \o r = m.path \o (<<e>> \o (t \o r)) /\ t \o r \in Marks
  <2> DEFINE E == <<e>>
  <2>1. E \in Marks /\ AfterPath(m) = E \o t
    BY <1>3, <1>4 DEF Marks
  <2> HIDE DEF E
  <2>2. t \o r \in Marks
    BY <1>3, Joining
  <2> DEFINE K == E \o t
  <2>3. K \in Marks
    BY <2>1, Joining
  <2>4. K \o r = E \o (t \o r)
    BY <2>1, Regroup
  <2> DEFINE P == m.path
  <2>5. P \in Marks
    BY <1>1
  <2> HIDE DEF K, P
  <2>6. (P \o K) \o r = P \o (K \o r)
    BY <2>3, <2>5, Regroup
  <2> QED BY <2>1, <2>2, <2>4, <2>6, Zenon DEF E, K, P
<1>6. IsPrefix(x.path \o (<<d>> \o s), m.path \o (<<e>> \o (t \o r)))
  BY <1>2, <1>5, Zenon
<1>7. x.path = m.path /\ d = e /\ IsPrefix(s, t \o r)
  <2> DEFINE u == x.path
             v == m.path
             z == t \o r
             D == {":", "\n"}
  <2>1. /\ \A i \in 1 .. Len(u) : u[i] \notin D
        /\ \A i \in 1 .. Len(v) : v[i] \notin D
    BY <1>1
  <2>2. u \in Seq(Mark) /\ v \in Seq(Mark) /\ s \in Seq(Mark) /\ z \in Seq(Mark)
    BY <1>1, <1>5 DEF Marks
  <2>3. d \in D /\ e \in D
    OBVIOUS
  <2>4. IsPrefix(u \o (<<d>> \o s), v \o (<<e>> \o z))
    BY <1>6, Zenon
  <2> HIDE DEF u, v, z, D
  <2>5. u = v /\ d = e /\ IsPrefix(s, z)
    BY <1>4, <2>1, <2>2, <2>3, <2>4, ReadDelimited
  <2> QED BY <2>5, Zenon DEF u, v, z
<1>8. CASE d = "\n"
  BY <1>2, <1>3, <1>7, <1>8
<1>9. CASE d = ":"
  <2>1. IsPrefix(x.payload \o EndOfLine, (m.payload \o EndOfLine) \o r)
    BY <1>2, <1>3, <1>7, <1>9, Zenon
  <2> QED BY <1>1, <1>7, <2>1, ReadToEnd, Zenon
<1> QED BY <1>8, <1>9

\* A configuration, which is over at the end of a line.
LEMMA ReadConfig ==
  ASSUME NEW c \in Configs, NEW d \in Configs, NEW r \in Marks,
         IsPrefix(c \o EndOfLine, (d \o EndOfLine) \o r)
  PROVE  c = d
<1> DEFINE u == c \o EndOfLine
           v == d \o EndOfLine
<1>1. /\ u \in Marks /\ v \in Marks /\ v \o r \in Marks
      /\ Append(c, "\n") = u /\ Append(d, "\n") = v
  <2>1. c \in Marks /\ d \in Marks
    BY MarkHas
  <2> QED BY <2>1, Joining, AppendEnd
<1>2. \A a, b \in Configs : IsPrefix(Append(a, "\n"), Append(b, "\n")) => a = b
  BY LineWriterAssumption, Zenon
<1>3. (IsPrefix(u, v) \/ IsPrefix(v, u)) => c = d
  BY <1>1, <1>2
<1>4. IsPrefix(u, v \o r) /\ IsPrefix(v, v \o r)
  BY <1>1, ConcatHasPrefix DEF Marks
<1> HIDE DEF u, v
<1>5. Len(u) \in Nat /\ Len(v) \in Nat
  BY <1>1 DEF Marks
<1>6. /\ \A i \in 1 .. Len(u) : u[i] = (v \o r)[i]
      /\ \A i \in 1 .. Len(v) : v[i] = (v \o r)[i]
  <2> DEFINE w == v \o r
  <2>1. w \in Marks /\ IsPrefix(u, w) /\ IsPrefix(v, w)
    BY <1>1, <1>4
  <2> HIDE DEF w
  <2>2. /\ \A i \in 1 .. Len(u) : u[i] = w[i]
        /\ \A i \in 1 .. Len(v) : v[i] = w[i]
    BY <1>1, <2>1, PrefixByMark DEF Marks
  <2> QED BY <2>2, Zenon DEF w
<1>7. CASE Len(u) <= Len(v)
  <2>1. \A i \in 1 .. Len(u) : u[i] = v[i]
    BY <1>5, <1>6, <1>7
  <2> QED BY <1>1, <1>3, <1>7, <2>1, PrefixByMark DEF Marks
<1>8. CASE Len(v) <= Len(u)
  <2>1. \A i \in 1 .. Len(v) : v[i] = u[i]
    BY <1>5, <1>6, <1>8
  <2> QED BY <1>1, <1>3, <1>8, <2>1, PrefixByMark DEF Marks
<1> QED BY <1>5, <1>7, <1>8

\* The error a message starts with.
LEMMA ReadError ==
  ASSUME NEW e \in Errors \cup NodeErrors, NEW f \in Errors \cup NodeErrors,
         NEW a \in Marks, NEW b \in Marks, NEW r \in Marks,
         IsPrefix(<<e, ":">> \o a, (<<f, ":">> \o b) \o r)
  PROVE  e = f /\ IsPrefix(a, b \o r) /\ b \o r \in Marks
<1> DEFINE E == <<e, ":">>
           F == <<f, ":">>
           z == b \o r
<1>1. E \in Marks /\ F \in Marks /\ z \in Marks
  BY Joining, Zenon
<1>2. Len(E) = Len(F) /\ (E = F => e = f)
  OBVIOUS
<1> HIDE DEF E, F
<1>3. (F \o b) \o r = F \o z
  BY <1>1, Regroup
<1>4. IsPrefix(E \o a, F \o z)
  BY <1>3, Zenon DEF E, F
<1> HIDE DEF z
<1>5. E = F /\ IsPrefix(a, z)
  BY <1>1, <1>2, <1>4, ReadSame DEF Marks
<1> QED BY <1>1, <1>2, <1>5, Zenon DEF z

\* What a reply says.
LEMMA ReadReply ==
  ASSUME NEW x \in Reply, NEW m \in Reply, NEW r \in Marks, x.kind = m.kind,
         m.kind \in {"ACK", "RESPONSE", "ERROR"}, IsPrefix(Remainder(x), Remainder(m) \o r)
  PROVE  Meaning(x) = Meaning(m)
<1>1. x.path \in Paths /\ m.path \in Paths
  BY ReplyFields
<1>2. CASE m.kind = "ACK"
  <2>1. Remainder(x) = PathText(x.path) \o EndOfLine /\ Remainder(m) = PathText(m.path) \o EndOfLine
    BY <1>2 DEF Remainder
  <2>2. IsPrefix(PathText(x.path) \o EndOfLine, (PathText(m.path) \o EndOfLine) \o r)
    BY <2>1, Zenon
  <2>3. x.path = m.path
    BY <1>1, <2>2, ReadPath
  <2>4. x = [kind |-> "ACK", path |-> x.path] /\ m = [kind |-> "ACK", path |-> m.path]
    BY <1>2, ReplyFields
  <2>5. x = m
    BY <2>3, <2>4, Zenon
  <2> QED BY <2>5
<1>3. CASE m.kind = "RESPONSE"
  <2> DEFINE a == ReplyValueText(x.value)
             b == ReplyValueText(m.value)
  <2>1. /\ Remainder(x) = PathText(x.path) \o (<<":">> \o (a \o EndOfLine))
        /\ Remainder(m) = PathText(m.path) \o (<<":">> \o (b \o EndOfLine))
    BY <1>3 DEF Remainder
  <2>2. IsPrefix(PathText(x.path) \o (<<":">> \o (a \o EndOfLine)),
                 (PathText(m.path) \o (<<":">> \o (b \o EndOfLine))) \o r)
    BY <2>1, Zenon
  <2>3. x.value \in ReplyValues /\ m.value \in ReplyValues
    BY <1>3, ReplyFields
  <2>4. /\ a \in Marks /\ \A i \in 1 .. Len(a) : a[i] \notin {":", "\n"}
        /\ b \in Marks /\ \A i \in 1 .. Len(b) : b[i] \notin {":", "\n"}
    BY <2>3, ValueTextPlain, Zenon
  <2>5. x.path = m.path /\ a = b
    <3> HIDE DEF a, b
    <3> QED BY <1>1, <2>2, <2>4, ReadResponse, Zenon
  <2>6. /\ x = [kind |-> "RESPONSE", path |-> x.path, value |-> x.value]
        /\ m = [kind |-> "RESPONSE", path |-> m.path, value |-> m.value]
    BY <1>3, ReplyFields
  <2>7. /\ Meaning(x) = [kind |-> "RESPONSE", path |-> x.path, value |-> a]
        /\ Meaning(m) = [kind |-> "RESPONSE", path |-> m.path, value |-> b]
    <3>1. /\ Meaning(x) = [x EXCEPT !.value = a]
          /\ Meaning(m) = [m EXCEPT !.value = b]
      BY <1>3 DEF Meaning
    <3> HIDE DEF a, b
    <3> QED BY <2>6, <3>1
  <2> QED BY <2>5, <2>7, Zenon
<1>4. CASE m.kind = "ERROR"
  <2> DEFINE a == PathText(x.path) \o EndOfLine
             b == PathText(m.path) \o EndOfLine
  <2>1. Remainder(x) = <<x.error, ":">> \o a /\ Remainder(m) = <<m.error, ":">> \o b
    BY <1>4 DEF Remainder
  <2>2. IsPrefix(<<x.error, ":">> \o a, (<<m.error, ":">> \o b) \o r)
    BY <2>1, Zenon
  <2>3. x.error \in Errors /\ m.error \in Errors
    BY <1>4, ReplyFields
  <2>4. a \in Marks /\ b \in Marks
    BY <1>1, PathTyped, Joining
  <2>5. x.error = m.error /\ IsPrefix(a, b \o r)
    <3> HIDE DEF a, b
    <3> QED BY <2>2, <2>3, <2>4, ReadError
  <2>6. x.path = m.path
    BY <1>1, <2>5, ReadPath
  <2>7. /\ x = [kind |-> "ERROR", path |-> x.path, error |-> x.error]
        /\ m = [kind |-> "ERROR", path |-> m.path, error |-> m.error]
    BY <1>4, ReplyFields
  <2>8. x = m
    BY <2>5, <2>6, <2>7, Zenon
  <2> QED BY <2>8
<1> QED BY <1>2, <1>3, <1>4

\* What an event says.
LEMMA ReadNodeEvent ==
  ASSUME NEW x \in NodeEvent, NEW m \in NodeEvent, NEW r \in Marks, x.kind = m.kind,
         m.kind \in {"DATA", "TRIGGER", "NODE_ERROR"}, IsPrefix(Remainder(x), Remainder(m) \o r)
  PROVE  x = m
<1> DEFINE a == x.path \o AfterPath(x)
           b == m.path \o AfterPath(m)
<1>1. a \in Marks /\ b \in Marks
  <2>1. x.path \in Marks /\ m.path \in Marks
    BY EventFields, MarkHas
  <2> QED BY <2>1, AfterPathTyped, Joining
<1>2. CASE m.kind \in {"DATA", "TRIGGER"}
  <2>1. Remainder(x) = a /\ Remainder(m) = b
    BY <1>2 DEF Remainder
  <2>2. IsPrefix(a, b \o r)
    BY <2>1, Zenon
  <2>3. x.path = m.path /\ x.payload = m.payload
    BY <2>2, ReadEvent
  <2>4. /\ x = [kind |-> x.kind, path |-> x.path, payload |-> x.payload]
        /\ m = [kind |-> m.kind, path |-> m.path, payload |-> m.payload]
    BY <1>2, EventFields
  <2> QED BY <2>3, <2>4, Zenon
<1>3. CASE m.kind = "NODE_ERROR"
  <2>1. Remainder(x) = <<x.error, ":">> \o a /\ Remainder(m) = <<m.error, ":">> \o b
    BY <1>3 DEF Remainder
  <2>2. IsPrefix(<<x.error, ":">> \o a, (<<m.error, ":">> \o b) \o r)
    BY <2>1, Zenon
  <2>3. x.error \in NodeErrors /\ m.error \in NodeErrors
    BY <1>3, EventFields
  <2>4. x.error = m.error /\ IsPrefix(a, b \o r)
    <3> HIDE DEF a, b
    <3> QED BY <1>1, <2>2, <2>3, ReadError
  <2>5. x.path = m.path /\ x.payload = m.payload
    BY <2>4, ReadEvent
  <2>6. /\ x = [kind |-> x.kind, path |-> x.path, payload |-> x.payload, error |-> x.error]
        /\ m = [kind |-> m.kind, path |-> m.path, payload |-> m.payload, error |-> m.error]
    BY <1>3, EventFields
  <2> QED BY <2>4, <2>5, <2>6, Zenon
<1> QED BY <1>2, <1>3

\* A host that has a message and more can read no other message.
LEMMA ReadMessage ==
  ASSUME NEW x \in Message, NEW m \in Message, NEW r \in Marks, IsPrefix(Whole(x), Whole(m) \o r)
  PROVE  Meaning(x) = Meaning(m)
<1>1. x.kind = m.kind /\ IsPrefix(Remainder(x), Remainder(m) \o r)
  BY ReadKind
<1>2. CASE m \in Word /\ m.kind \in {"UP", "CFG", "RUN", "IDLE", "DIS", "HB"}
  <2>1. x \in Word
    BY <1>1, <1>2, Kinds
  <2>2. x = m
    BY <1>1, <1>2, <2>1 DEF Word
  <2> QED BY <2>2
<1>3. CASE m \in Config /\ m.kind = "CONFIG"
  <2>1. x \in Config
    BY <1>1, <1>3, Kinds
  <2>2. Remainder(x) = x.config \o EndOfLine /\ Remainder(m) = m.config \o EndOfLine
    BY <1>1, <1>3 DEF Remainder
  <2>3. IsPrefix(x.config \o EndOfLine, (m.config \o EndOfLine) \o r)
    BY <1>1, <2>2, Zenon
  <2>4. x.config \in Configs /\ m.config \in Configs
    BY <1>3, <2>1, ConfigFields
  <2>5. x.config = m.config
    BY <2>3, <2>4, ReadConfig
  <2>6. x = [kind |-> "CONFIG", config |-> x.config] /\ m = [kind |-> "CONFIG", config |-> m.config]
    BY <1>3, <2>1, ConfigFields
  <2>7. x = m
    BY <2>5, <2>6, Zenon
  <2> QED BY <2>7
<1>4. CASE m \in Reply /\ m.kind \in {"ACK", "RESPONSE", "ERROR"}
  <2>1. x \in Reply
    BY <1>1, <1>4, Kinds
  <2> QED BY <1>1, <1>4, <2>1, ReadReply, Zenon
<1>5. CASE m \in NodeEvent /\ m.kind \in {"DATA", "TRIGGER", "NODE_ERROR"}
  <2>1. x \in NodeEvent
    BY <1>1, <1>5, Kinds
  <2>2. x = m
    BY <1>1, <1>5, <2>1, ReadNodeEvent, Zenon
  <2> QED BY <2>2
<1>6. CASE m \in Status /\ m.kind = "STATUS"
  <2> DEFINE a == NodesObject(x.nodes)
             b == NodesObject(m.nodes)
  <2>1. x \in Status /\ x.kind = "STATUS"
    BY <1>1, <1>6, Kinds
  <2>2. /\ a \in Marks /\ \A i \in 1 .. Len(a) : a[i] # "\n"
        /\ b \in Marks /\ \A i \in 1 .. Len(b) : b[i] # "\n"
    BY <1>6, <2>1, StatusFields, Zenon
  <2>3. Remainder(x) = a \o EndOfLine /\ Remainder(m) = b \o EndOfLine
    BY <1>6, <2>1 DEF Remainder
  <2>4. IsPrefix(a \o EndOfLine, (b \o EndOfLine) \o r)
    BY <1>1, <2>3, Zenon
  <2>5. a = b
    <3> HIDE DEF a, b
    <3> QED BY <2>2, <2>4, ReadToEnd
  <2>6. /\ x = [kind |-> "STATUS", nodes |-> x.nodes]
        /\ m = [kind |-> "STATUS", nodes |-> m.nodes]
    BY <1>6, <2>1, StatusFields
  <2>7. Meaning(x) = [x EXCEPT !.nodes = a] /\ Meaning(m) = [m EXCEPT !.nodes = b]
    BY <1>6, <2>1 DEF Meaning
  <2>8. /\ Meaning(x) = [kind |-> "STATUS", nodes |-> a]
        /\ Meaning(m) = [kind |-> "STATUS", nodes |-> b]
    <3> HIDE DEF a, b
    <3> QED BY <2>6, <2>7
  <2> QED BY <2>5, <2>8, Zenon
<1> QED BY <1>2, <1>3, <1>4, <1>5, <1>6, Kinds

-----------------------------------------------------------------------------
(* The stream *)

Texts(messages) == [j \in 1 .. Len(messages) |-> Whole(messages[j])]

StreamInv == sent \in Seq(Message) /\ stream = FlattenSeq(Texts(sent))

\* The texts of some messages, one for each.
LEMMA TextsTyped ==
  ASSUME NEW messages \in Seq(Message)
  PROVE  /\ Texts(messages) \in Seq(Seq(Mark)) /\ Len(Texts(messages)) = Len(messages)
         /\ \A j \in 1 .. Len(messages) :
              /\ Texts(messages)[j] = Whole(messages[j])
              /\ messages[j] \in Message /\ Whole(messages[j]) \in Marks
<1>1. Len(messages) \in Nat /\ \A j \in 1 .. Len(messages) : messages[j] \in Message
  OBVIOUS
<1>2. \A j \in 1 .. Len(messages) : Whole(messages[j]) \in Seq(Mark)
  BY <1>1, WholeParts, Zenon DEF Marks
<1>3. Texts(messages) \in Seq(Seq(Mark)) /\ Len(Texts(messages)) = Len(messages)
  BY <1>1, <1>2 DEF Texts
<1>4. \A j \in 1 .. Len(messages) : Texts(messages)[j] = Whole(messages[j])
  BY DEF Texts
<1> QED BY <1>1, <1>2, <1>3, <1>4, Zenon DEF Marks

\* A message more.
LEMMA TextsGrow ==
  ASSUME NEW messages \in Seq(Message), NEW m \in Message
  PROVE  FlattenSeq(Texts(Append(messages, m))) = FlattenSeq(Texts(messages)) \o Whole(m)
<1> DEFINE more == Append(messages, m)
           n == Len(messages)
           s == Texts(messages)
           t == Texts(more)
<1>1. /\ more \in Seq(Message) /\ Len(more) = n + 1 /\ n \in Nat
      /\ more[n + 1] = m /\ \A j \in 1 .. n : more[j] = messages[j]
  OBVIOUS
<1> HIDE DEF more
<1>2. /\ s \in Seq(Seq(Mark)) /\ Len(s) = n /\ t \in Seq(Seq(Mark)) /\ Len(t) = n + 1
  BY <1>1, TextsTyped
<1>3. /\ \A j \in 1 .. n : s[j] = Whole(messages[j])
      /\ \A j \in 1 .. n + 1 : t[j] = Whole(more[j])
  BY <1>1, TextsTyped
<1> HIDE DEF n, s, t
<1>4. \A j \in 1 .. n : s[j] = t[j]
  BY <1>1, <1>3
<1>5. t[n + 1] = Whole(m)
  BY <1>1, <1>3
<1>6. FlattenSeq(s) = First(s, n) /\ FlattenSeq(t) = First(t, n + 1)
  BY <1>2, FlattenIsFirst
<1>7. First(s, n) = First(t, n)
  <2>1. n \in 0 .. Len(s) /\ n <= Len(t)
    BY <1>1, <1>2
  <2> QED BY <1>2, <1>4, <2>1, FirstAgrees
<1>8. First(t, n + 1) = First(t, n) \o t[n + 1]
  <2>1. n \in 0 .. Len(t) - 1
    BY <1>1, <1>2
  <2> QED BY <1>2, <2>1, FirstStep
<1> QED BY <1>5, <1>6, <1>7, <1>8, Zenon DEF s, t, more

\* Nothing sent makes no text.
LEMMA NoTexts == FlattenSeq(Texts(<< >>)) = << >>
<1>1. << >> \in Seq(Message) /\ Len(<< >>) = 0
  OBVIOUS
<1>2. Texts(<< >>) \in Seq(Seq(Mark)) /\ Len(Texts(<< >>)) = 0
  BY <1>1, TextsTyped
<1> QED BY <1>2, FlattenIsFirst, FirstStep

\* What is read from the i-th message on: that message and what follows it.
LEMMA StreamFromMessage ==
  ASSUME StreamInv, NEW i \in DOMAIN sent
  PROVE  \E r \in Marks : StreamFrom(i) = Whole(sent[i]) \o r
<1> DEFINE s == Texts(sent)
           n == Len(sent)
           before == [j \in 1 .. i - 1 |-> Whole(sent[j])]
           a == First(s, i - 1)
           b == Whole(sent[i])
<1>1. /\ s \in Seq(Seq(Mark)) /\ Len(s) = n /\ n \in Nat /\ i \in 1 .. n
      /\ \A j \in 1 .. n : s[j] = Whole(sent[j]) /\ Whole(sent[j]) \in Seq(Mark)
  BY TextsTyped DEF StreamInv, Marks
<1>2. before \in Seq(Seq(Mark)) /\ Len(before) = i - 1
  <2>1. i - 1 \in Nat /\ \A j \in 1 .. i - 1 : j \in 1 .. n
    BY <1>1
  <2>2. \A j \in 1 .. i - 1 : Whole(sent[j]) \in Seq(Mark)
    BY <1>1, <2>1, Zenon
  <2> HIDE DEF n
  <2> QED BY <2>1, <2>2
<1>3. \A j \in 1 .. i - 1 : before[j] = s[j]
  BY <1>1
<1> HIDE DEF s, n, before
<1>4. i - 1 \in 0 .. n - 1 /\ i - 1 \in 0 .. n /\ (i - 1) + 1 = i /\ i \in 0 .. n
  BY <1>1
<1>5. FlattenSeq(before) = a
  <2>1. FlattenSeq(before) = First(before, i - 1)
    BY <1>2, FlattenIsFirst
  <2>2. First(before, i - 1) = First(s, i - 1)
    <3> DEFINE k == i - 1
    <3>1. k \in 0 .. Len(before) /\ k <= Len(s) /\ \A j \in 1 .. k : before[j] = s[j]
      BY <1>1, <1>2, <1>3, <1>4
    <3> HIDE DEF k
    <3>2. First(before, k) = First(s, k)
      BY <1>1, <1>2, <3>1, FirstAgrees
    <3> QED BY <3>2, Zenon DEF k
  <2> QED BY <2>1, <2>2, Zenon
<1>6. First(s, i) = a \o b /\ a \in Seq(Mark) /\ b \in Seq(Mark)
  <2>1. First(s, i) = a \o s[i] /\ a \in Seq(Mark)
    BY <1>1, <1>4, FirstStep
  <2> QED BY <1>1, <2>1
<1>7. PICK r \in Seq(Mark) : FlattenSeq(s) = First(s, i) \o r
  BY <1>1, <1>4, FirstIsPrefix
<1>8. stream = (a \o b) \o r
  BY <1>6, <1>7 DEF StreamInv, s
<1> HIDE DEF a, b
<1>9. stream = a \o (b \o r)
  BY <1>6, <1>8, Regroup DEF Marks
<1>10. StreamFrom(i) = SubSeq(stream, 1 + Len(a), Len(stream))
  BY <1>5 DEF StreamFrom, before
<1>11. b \o r \in Seq(Mark)
  BY <1>6, <1>7, ConcatProperties
<1>12. StreamFrom(i) = b \o r
  <2> DEFINE c == b \o r
  <2>1. c \in Seq(Mark) /\ stream = a \o c
    BY <1>9, <1>11
  <2> HIDE DEF c
  <2>2. /\ a \o c \in Seq(Mark) /\ Len(a \o c) = Len(a) + Len(c)
        /\ \A j \in 1 .. Len(c) : (a \o c)[Len(a) + j] = c[j]
        /\ Len(a) \in Nat /\ Len(c) \in Nat
    BY <1>6, <2>1
  <2> DEFINE w == a \o c
             v == SubSeq(w, 1 + Len(a), Len(w))
  <2>3. /\ v \in Seq(Mark) /\ Len(v) = Len(c)
        /\ \A j \in 1 .. Len(c) : v[j] = w[Len(a) + j]
    <3> HIDE DEF w
    <3>1. w \in Seq(Mark) /\ Len(w) = Len(a) + Len(c)
      BY <2>2 DEF w
    <3> QED BY <2>2, <3>1
  <2>4. \A j \in 1 .. Len(c) : v[j] = c[j]
    <3> HIDE DEF v
    <3> QED BY <2>2, <2>3
  <2>5. v = c
    <3> HIDE DEF v
    <3> QED BY <2>1, <2>3, <2>4, SeqEqual
  <2> QED BY <1>10, <2>1, <2>5, Zenon DEF c
<1> QED BY <1>7, <1>12, Zenon DEF b, Marks

\* A host that reads the stream from its start gets the messages that were sent, however
\* many they are, whatever characters the commands were made of and however long the values,
\* the payloads and the configurations; a status line, of any number of Nodes, is told from
\* the data of a Node.
THEOREM StreamIsUnderstood == Spec => []StreamUnderstood
<1>1. Init => StreamInv
  BY NoTexts, EmptySeq DEF Init, StreamInv
<1>2. StreamInv /\ [Next]_<<sent, stream>> => StreamInv'
  <2> SUFFICES ASSUME StreamInv, [Next]_<<sent, stream>> PROVE StreamInv'
    OBVIOUS
  <2>1. CASE UNCHANGED <<sent, stream>>
    BY <2>1, Zenon DEF StreamInv
  <2>2. ASSUME NEW m \in Message, Send(m) PROVE StreamInv'
    <3>1. sent' = Append(sent, m) /\ stream' = stream \o Whole(m)
      BY <2>2 DEF Send, Whole
    <3>2. sent' \in Seq(Message)
      BY <3>1 DEF StreamInv
    <3>3. stream' = FlattenSeq(Texts(sent'))
      BY <3>1, TextsGrow, Zenon DEF StreamInv
    <3> QED BY <3>2, <3>3, Zenon DEF StreamInv
  <2> QED BY <2>1, <2>2 DEF Next
<1>3. StreamInv => StreamUnderstood
  <2> SUFFICES ASSUME StreamInv, NEW i \in DOMAIN sent
               PROVE  {Meaning(m) : m \in {x \in Message : IsPrefix(Whole(x), StreamFrom(i))}}
                        = {Meaning(sent[i])}
    BY Zenon DEF StreamUnderstood
  <2>1. PICK r \in Marks : StreamFrom(i) = Whole(sent[i]) \o r
    BY StreamFromMessage
  <2>2. sent[i] \in Message /\ Whole(sent[i]) \in Marks
    <3>1. sent \in Seq(Message) /\ i \in 1 .. Len(sent)
      BY DEF StreamInv
    <3> QED BY <3>1, TextsTyped
  <2>3. IsPrefix(Whole(sent[i]), StreamFrom(i))
    BY <2>1, <2>2, ConcatHasPrefix DEF Marks
  <2>4. ASSUME NEW x \in Message, IsPrefix(Whole(x), StreamFrom(i))
        PROVE  Meaning(x) = Meaning(sent[i])
    BY <2>1, <2>2, <2>4, ReadMessage
  <2> QED BY <2>2, <2>3, <2>4, Zenon
<1> QED BY <1>1, <1>2, <1>3, PTL DEF Spec

-----------------------------------------------------------------------------
(* The status line *)

StatusMark ==
  {"DATA:", "{", "}", "n", ":", ",", "\n", "true", "false", "null"} \cup Digits \cup Id \cup Property
StatusMarks == Seq(StatusMark)

\* What the line starts with, what opens and closes an object, and what ends the line.
Heading == <<"DATA:", "{", "n", ":", "{">>
Brace == <<"{">>
Unbrace == <<"}">>
Ending == <<"}", "}", "\n">>

\* Whatever the status line is given is made of its marks.
LEMMA StatusMarkHas ==
  /\ {"DATA:", "{", "}", "n", ":", ",", "\n", "true", "false", "null"} \subseteq StatusMark
  /\ Digits \subseteq StatusMark /\ Id \subseteq StatusMark /\ Property \subseteq StatusMark
BY DEF StatusMark

\* The pieces that are the same in each line are text.
LEMMA StatusPieces ==
  /\ Heading \in StatusMarks /\ Brace \in StatusMarks /\ Unbrace \in StatusMarks
  /\ Ending \in StatusMarks /\ <<",">> \in StatusMarks /\ << >> \in StatusMarks
  /\ \A first \in BOOLEAN : Comma(first) \in StatusMarks
<1>1. /\ Heading \in StatusMarks /\ Brace \in StatusMarks /\ Unbrace \in StatusMarks
      /\ Ending \in StatusMarks /\ <<",">> \in StatusMarks /\ << >> \in StatusMarks
  <2>1. /\ "DATA:" \in StatusMark /\ "{" \in StatusMark /\ "}" \in StatusMark /\ "n" \in StatusMark
        /\ ":" \in StatusMark /\ "," \in StatusMark /\ "\n" \in StatusMark
    BY DEF StatusMark
  <2>2. /\ << >> \in StatusMarks
        /\ \A a \in StatusMark : <<a>> \in StatusMarks
    BY DEF StatusMarks
  <2>3. \A a, b, c \in StatusMark : <<a, b, c>> \in StatusMarks
    BY DEF StatusMarks
  <2>4. \A a, b, c, d, e \in StatusMark : <<a, b, c, d, e>> \in StatusMarks
    BY DEF StatusMarks
  <2>5. Heading \in StatusMarks
    BY <2>1, <2>4, Zenon DEF Heading
  <2>6. Brace \in StatusMarks /\ Unbrace \in StatusMarks /\ <<",">> \in StatusMarks
    BY <2>1, <2>2, Zenon DEF Brace, Unbrace
  <2>7. Ending \in StatusMarks
    BY <2>1, <2>3, Zenon DEF Ending
  <2> QED BY <2>2, <2>5, <2>6, <2>7, Zenon
<1>2. \A first \in BOOLEAN : Comma(first) \in StatusMarks
  BY <1>1 DEF Comma
<1> QED BY <1>1, <1>2, Zenon

\* It does not matter how pieces of the line are put together.
LEMMA StatusRegroup ==
  \A a, b, c : a \in StatusMarks /\ b \in StatusMarks /\ c \in StatusMarks
                 => (a \o b) \o c = a \o (b \o c)
BY ConcatAssociative DEF StatusMarks

\* Together they are text.
LEMMA StatusJoin == \A a, b : a \in StatusMarks /\ b \in StatusMarks => a \o b \in StatusMarks
BY ConcatProperties DEF StatusMarks

\* The same, for the provers that take an operator for what its laws say.
Cat(a, b) == a \o b

\* What is known of writing one text after another.
LEMMA CatLaws ==
  /\ \A a, b \in StatusMarks : Cat(a, b) \in StatusMarks
  /\ \A a, b, c \in StatusMarks : Cat(Cat(a, b), c) = Cat(a, Cat(b, c))
<1>1. \A a, b \in StatusMarks : Cat(a, b) \in StatusMarks
  BY StatusJoin, Zenon DEF Cat
<1>2. ASSUME NEW a \in StatusMarks, NEW b \in StatusMarks, NEW c \in StatusMarks
      PROVE  Cat(Cat(a, b), c) = Cat(a, Cat(b, c))
  <2>1. (a \o b) \o c = a \o (b \o c)
    BY StatusRegroup
  <2> QED BY <2>1, Zenon DEF Cat
<1> QED BY <1>1, <1>2, Zenon

\* JSONStatusWriter::writeValue writes text.
LEMMA StatusValueTyped ==
  ASSUME NEW v \in Values
  PROVE  ValueText(v) \in StatusMarks
<1>1. v.type \in {"BOOLEAN", "INTEGER", "NONE"} /\ v.data \in Int
  BY StatusTextAssumption, Zenon
<1>2. CASE v.type = "BOOLEAN"
  <2>1. <<"true">> \in StatusMarks /\ <<"false">> \in StatusMarks
    <3>1. "true" \in StatusMark /\ "false" \in StatusMark
      BY DEF StatusMark
    <3> QED BY <3>1 DEF StatusMarks
  <2>2. ValueText(v) = IF v.data = 1 THEN <<"true">> ELSE <<"false">>
    BY <1>2 DEF ValueText
  <2> QED BY <2>1, <2>2
<1>3. CASE v.type = "INTEGER"
  <2>1. Decimal = Decimal
    BY Zenon DEF Decimal, Decimal, Digit, Digit
  <2>2. Signed(v.data) = Signed(v.data)
    BY <2>1, Zenon DEF Signed, Signed
  <2>3. ValueText(v) = Signed(v.data)
    BY <1>3 DEF ValueText
  <2>4. Signed(v.data) \in Seq(Digits)
    BY <1>1, SignedTyped
  <2> QED BY <2>2, <2>3, <2>4, StatusMarkHas, SeqMonotonic, Zenon DEF StatusMarks
<1>4. CASE v.type = "NONE"
  <2>1. <<"null">> \in StatusMarks
    <3>1. "null" \in StatusMark
      BY DEF StatusMark
    <3> QED BY <3>1 DEF StatusMarks
  <2>2. ValueText(v) = <<"null">>
    BY <1>4 DEF ValueText
  <2> QED BY <2>1, <2>2
<1> QED BY <1>1, <1>2, <1>3, <1>4

\* The members of an object with the commas between them.
Separated(members) ==
  [i \in 1 .. Len(members) |-> IF i = 1 THEN members[i] ELSE <<",">> \o members[i]]

\* An object of members: its brackets and the members with their commas between them.
LEMMA ObjectText ==
  ASSUME NEW members \in Seq(StatusMarks)
  PROVE  /\ Separated(members) \in Seq(StatusMarks) /\ Len(Separated(members)) = Len(members)
         /\ \A i \in 1 .. Len(members) :
              Separated(members)[i] = Comma(i = 1) \o members[i]
         /\ Object(members) = Brace \o (FlattenSeq(Separated(members)) \o Unbrace)
         /\ FlattenSeq(Separated(members)) \in StatusMarks
<1>1. Len(members) \in Nat /\ \A i \in 1 .. Len(members) : members[i] \in StatusMarks
  OBVIOUS
<1>2. \A i \in 1 .. Len(members) : <<",">> \o members[i] \in StatusMarks
  BY <1>1, StatusPieces, StatusJoin, Zenon
<1>3. Separated(members) \in Seq(StatusMarks) /\ Len(Separated(members)) = Len(members)
  <2>1. \A i \in 1 .. Len(members) :
          (IF i = 1 THEN members[i] ELSE <<",">> \o members[i]) \in StatusMarks
    BY <1>1, <1>2, Zenon
  <2>2. Separated(members) \in [1 .. Len(members) -> StatusMarks]
    BY <2>1, Zenon DEF Separated
  <2> QED BY <1>1, <2>2
<1>4. \A i \in 1 .. Len(members) : Separated(members)[i] = Comma(i = 1) \o members[i]
  <2>1. ASSUME NEW i \in 1 .. Len(members)
        PROVE  Separated(members)[i] = Comma(i = 1) \o members[i]
    <3>1. Separated(members)[i] = IF i = 1 THEN members[i] ELSE <<",">> \o members[i]
      BY DEF Separated
    <3>2. << >> \o members[i] = members[i]
      BY <1>1 DEF StatusMarks
    <3>3. CASE i = 1
      BY <3>1, <3>2, <3>3 DEF Comma
    <3>4. CASE i # 1
      BY <3>1, <3>4, Zenon DEF Comma
    <3> QED BY <3>3, <3>4
  <2> QED BY <2>1
<1>5. FlattenSeq(Separated(members)) \in StatusMarks
  BY <1>3, FlattenIsFirst DEF StatusMarks
<1>6. Object(members) = (Brace \o FlattenSeq(Separated(members))) \o Unbrace
  <2>1. DOMAIN members = 1 .. Len(members)
    OBVIOUS
  <2> QED BY <2>1, Zenon DEF Object, Separated, Brace, Unbrace
<1>7. (Brace \o FlattenSeq(Separated(members))) \o Unbrace
        = Brace \o (FlattenSeq(Separated(members)) \o Unbrace)
  <2> DEFINE f == FlattenSeq(Separated(members))
  <2>1. f \in StatusMarks /\ Brace \in StatusMarks /\ Unbrace \in StatusMarks
    BY <1>5, StatusPieces
  <2> HIDE DEF f
  <2>2. (Brace \o f) \o Unbrace = Brace \o (f \o Unbrace)
    BY <2>1, StatusRegroup
  <2> QED BY <2>2, Zenon DEF f
<1> QED BY <1>3, <1>4, <1>5, <1>6, <1>7, Zenon

PropertyMembers(n) ==
  [i \in 1 .. Len(n.properties) |->
     Member(n.properties[i][1], ValueText(n.properties[i][2]))]
PropertyTexts(n) == Separated(PropertyMembers(n))

NodeMembers(nodes) == [i \in 1 .. Len(nodes) |-> Member(nodes[i].id, NodeObject(nodes[i]))]
NodeTexts(nodes) == Separated(NodeMembers(nodes))

\* What beginNode writes after the comma, and writeProperty before the value.
NodeHead(id) == <<id, ":", "{">>
PropertyHead(id) == <<id, ":">>

\* The names are text, and a Node's opens an object.
LEMMA HeadsTyped ==
  /\ \A id \in Id \cup {"n"} : PropertyHead(id) \in StatusMarks /\ NodeHead(id) \in StatusMarks
  /\ \A id \in Property : PropertyHead(id) \in StatusMarks
  /\ \A id \in Id \cup {"n"} : PropertyHead(id) \o Brace = NodeHead(id)
<1>1. /\ \A a, b \in StatusMark : <<a, b>> \in StatusMarks
      /\ \A a, b, c \in StatusMark : <<a, b, c>> \in StatusMarks
  BY DEF StatusMarks
<1>2. /\ ":" \in StatusMark /\ "{" \in StatusMark /\ "n" \in StatusMark
      /\ Id \subseteq StatusMark /\ Property \subseteq StatusMark
  BY DEF StatusMark
<1>3. ASSUME NEW a \in StatusMark, NEW b \in StatusMark, NEW c \in StatusMark
      PROVE  <<a, b>> \o <<c>> = <<a, b, c>>
  <2> DEFINE s == <<a, b>>
             u == <<c>>
             t == <<a, b, c>>
  <2>1. s \in Seq(StatusMark) /\ Len(s) = 2 /\ s[1] = a /\ s[2] = b
    OBVIOUS
  <2>2. u \in Seq(StatusMark) /\ Len(u) = 1 /\ u[1] = c
    OBVIOUS
  <2>3. t \in Seq(StatusMark) /\ Len(t) = 3 /\ t[1] = a /\ t[2] = b /\ t[3] = c
    OBVIOUS
  <2> HIDE DEF s, u, t
  <2>4. /\ s \o u \in Seq(StatusMark) /\ Len(s \o u) = 3
        /\ (s \o u)[1] = s[1] /\ (s \o u)[2] = s[2] /\ (s \o u)[3] = u[1]
    <3> DEFINE w == s \o u
    <3>1. /\ w \in Seq(StatusMark) /\ Len(w) = Len(s) + Len(u)
          /\ \A i \in 1 .. Len(s) + Len(u) :
               w[i] = IF i <= Len(s) THEN s[i] ELSE u[i - Len(s)]
      BY <2>1, <2>2, ConcatProperties
    <3> HIDE DEF w
    <3>2. /\ w \in Seq(StatusMark) /\ Len(w) = 3
          /\ \A i \in 1 .. 3 : w[i] = IF i <= 2 THEN s[i] ELSE u[i - 2]
      BY <2>1, <2>2, <3>1
    <3>3. w[1] = s[1] /\ w[2] = s[2] /\ w[3] = u[1]
      BY <3>2
    <3> QED BY <3>2, <3>3, Zenon DEF w
  <2>5. \A i \in 1 .. 3 : (s \o u)[i] = t[i]
    <3>1. \A i \in 1 .. 3 : i = 1 \/ i = 2 \/ i = 3
      OBVIOUS
    <3> QED BY <2>1, <2>2, <2>3, <2>4, <3>1, Zenon
  <2>6. s \o u = t
    BY <2>3, <2>4, <2>5, SeqEqual
  <2> QED BY <2>6, Zenon DEF s, u, t
<1>4. \A id \in StatusMark : PropertyHead(id) \o Brace = NodeHead(id)
  BY <1>2, <1>3, Zenon DEF PropertyHead, NodeHead, Brace
<1>5. \A id \in StatusMark : PropertyHead(id) \in StatusMarks /\ NodeHead(id) \in StatusMarks
  BY <1>1, <1>2, Zenon DEF PropertyHead, NodeHead
<1> QED BY <1>2, <1>4, <1>5

\* A Node has a name and a sequence of properties.
LEMMA NodeTyped ==
  ASSUME NEW n \in Nodes
  PROVE  n.id \in Id /\ n.properties \in Seq(Property \X Values)
<1>1. n.id \in Id /\ n.properties \in Pairs
  BY DEF Nodes
<1>2. PICK k \in 0 .. MaxProperties : n.properties \in [1 .. k -> Property \X Values]
  BY <1>1 DEF Pairs
<1>3. k \in Nat
  BY <1>2
<1> QED BY <1>1, <1>2, <1>3, SeqDef

\* The members of a Node's object: a name and a value for each property.
LEMMA PropertyMembersTyped ==
  ASSUME NEW n \in Nodes
  PROVE  /\ PropertyMembers(n) \in Seq(StatusMarks)
         /\ Len(PropertyMembers(n)) = Len(n.properties)
         /\ \A i \in 1 .. Len(n.properties) :
              /\ PropertyMembers(n)[i]
                   = PropertyHead(n.properties[i][1]) \o ValueText(n.properties[i][2])
              /\ PropertyHead(n.properties[i][1]) \in StatusMarks
              /\ ValueText(n.properties[i][2]) \in StatusMarks
<1> DEFINE member(i) == PropertyHead(n.properties[i][1]) \o ValueText(n.properties[i][2])
<1>1. n.properties \in Seq(Property \X Values) /\ Len(n.properties) \in Nat
  BY NodeTyped
<1>2. \A i \in 1 .. Len(n.properties) :
        n.properties[i][1] \in Property /\ n.properties[i][2] \in Values
  BY <1>1
<1>3. \A i \in 1 .. Len(n.properties) :
        /\ PropertyHead(n.properties[i][1]) \in StatusMarks
        /\ ValueText(n.properties[i][2]) \in StatusMarks
  BY <1>2, HeadsTyped, StatusValueTyped, Zenon
<1>4. \A i \in 1 .. Len(n.properties) : member(i) \in StatusMarks
  BY <1>3, StatusJoin, Zenon
<1>5. PropertyMembers(n) = [i \in 1 .. Len(n.properties) |-> member(i)]
  BY Zenon DEF PropertyMembers, Member, PropertyHead
<1> HIDE DEF member
<1>6. /\ PropertyMembers(n) \in [1 .. Len(n.properties) -> StatusMarks]
      /\ \A i \in 1 .. Len(n.properties) : PropertyMembers(n)[i] = member(i)
  BY <1>4, <1>5
<1>7. PropertyMembers(n) \in Seq(StatusMarks) /\ Len(PropertyMembers(n)) = Len(n.properties)
  BY <1>1, <1>6
<1> QED BY <1>3, <1>6, <1>7, Zenon DEF member

\* A Node's object, and with its name.
LEMMA NodeText ==
  ASSUME NEW n \in Nodes
  PROVE  /\ FlattenSeq(PropertyTexts(n)) \in StatusMarks
         /\ Member(n.id, NodeObject(n))
              = NodeHead(n.id) \o (FlattenSeq(PropertyTexts(n)) \o Unbrace)
         /\ Member(n.id, NodeObject(n)) \in StatusMarks
<1> DEFINE f == FlattenSeq(PropertyTexts(n))
           h == PropertyHead(n.id)
           w == f \o Unbrace
<1>1. f \in StatusMarks /\ Object(PropertyMembers(n)) = Brace \o w
  BY PropertyMembersTyped, ObjectText, Zenon DEF PropertyTexts
<1>2. NodeObject(n) = Object(PropertyMembers(n))
  <2>1. DOMAIN n.properties = 1 .. Len(n.properties)
    BY NodeTyped
  <2> QED BY <2>1, Zenon DEF NodeObject, PropertyMembers
<1>3. Member(n.id, NodeObject(n)) = h \o (Brace \o w)
  BY <1>1, <1>2, Zenon DEF Member, PropertyHead
<1>4. h \in StatusMarks /\ h \o Brace = NodeHead(n.id) /\ NodeHead(n.id) \in StatusMarks
  BY NodeTyped, HeadsTyped
<1>5. w \in StatusMarks /\ Brace \in StatusMarks
  BY <1>1, StatusPieces, StatusJoin
<1> HIDE DEF f, h, w
<1>6. (h \o Brace) \o w = h \o (Brace \o w)
  <2>1. Cat(Cat(h, Brace), w) = Cat(h, Cat(Brace, w))
    BY <1>4, <1>5, CatLaws
  <2> QED BY <2>1, Zenon DEF Cat
<1>7. Member(n.id, NodeObject(n)) = NodeHead(n.id) \o w
  BY <1>3, <1>4, <1>6, Zenon
<1>8. NodeHead(n.id) \o w \in StatusMarks
  BY <1>4, <1>5, StatusJoin
<1> QED BY <1>1, <1>7, <1>8, Zenon DEF f, w

\* The members of the object of all Nodes.
LEMMA NodeMembersTyped ==
  ASSUME NEW nodes \in Seq(Nodes)
  PROVE  /\ NodeMembers(nodes) \in Seq(StatusMarks) /\ Len(NodeMembers(nodes)) = Len(nodes)
         /\ \A i \in 1 .. Len(nodes) :
              /\ nodes[i] \in Nodes
              /\ NodeMembers(nodes)[i]
                   = NodeHead(nodes[i].id) \o (FlattenSeq(PropertyTexts(nodes[i])) \o Unbrace)
<1> DEFINE member(i) == Member(nodes[i].id, NodeObject(nodes[i]))
<1>1. Len(nodes) \in Nat /\ \A i \in 1 .. Len(nodes) : nodes[i] \in Nodes
  OBVIOUS
<1>2. \A i \in 1 .. Len(nodes) :
        /\ member(i) \in StatusMarks
        /\ member(i) = NodeHead(nodes[i].id) \o (FlattenSeq(PropertyTexts(nodes[i])) \o Unbrace)
  BY <1>1, NodeText, Zenon
<1>3. NodeMembers(nodes) = [i \in 1 .. Len(nodes) |-> member(i)]
  BY Zenon DEF NodeMembers
<1> HIDE DEF member
<1>4. /\ NodeMembers(nodes) \in [1 .. Len(nodes) -> StatusMarks]
      /\ \A i \in 1 .. Len(nodes) : NodeMembers(nodes)[i] = member(i)
  BY <1>2, <1>3
<1>5. NodeMembers(nodes) \in Seq(StatusMarks) /\ Len(NodeMembers(nodes)) = Len(nodes)
  BY <1>1, <1>4
<1> QED BY <1>1, <1>2, <1>4, <1>5, Zenon

\* A mark before others.
LEMMA MarkBefore ==
  ASSUME NEW a \in StatusMark, NEW s \in StatusMarks
  PROVE  /\ <<a>> \o s \in StatusMarks /\ Len(<<a>> \o s) = Len(s) + 1
         /\ (<<a>> \o s)[1] = a /\ \A i \in 1 .. Len(s) : (<<a>> \o s)[i + 1] = s[i]
<1> DEFINE u == <<a>>
           w == u \o s
<1>1. u \in Seq(StatusMark) /\ Len(u) = 1 /\ u[1] = a
  OBVIOUS
<1> HIDE DEF u
<1>2. s \in Seq(StatusMark) /\ Len(s) \in Nat
  BY DEF StatusMarks
<1>3. /\ w \in Seq(StatusMark) /\ Len(w) = Len(u) + Len(s)
      /\ \A i \in 1 .. Len(u) + Len(s) : w[i] = IF i <= Len(u) THEN u[i] ELSE s[i - Len(u)]
  BY <1>1, <1>2, ConcatProperties
<1> HIDE DEF w
<1>4. Len(w) = Len(s) + 1 /\ w[1] = a
  BY <1>1, <1>2, <1>3
<1>5. \A i \in 1 .. Len(s) : w[i + 1] = s[i]
  BY <1>1, <1>2, <1>3
<1> QED BY <1>3, <1>4, <1>5, Zenon DEF w, u, StatusMarks

\* What the line starts with, in the pieces it is made of,
LEMMA HeadingParts == Heading = <<"DATA:">> \o (Brace \o NodeHead("n"))
<1> DEFINE a == "DATA:"
           b == "{"
           c == "n"
           d == ":"
           e == "{"
<1>1. /\ a \in StatusMark /\ b \in StatusMark /\ c \in StatusMark
      /\ d \in StatusMark /\ e \in StatusMark
  BY DEF StatusMark
<1> HIDE DEF a, b, c, d, e
<1>2. <<a>> \o (<<b>> \o <<c, d, e>>) = <<a, b, c, d, e>>
  <2> DEFINE r == <<c, d, e>>
             q == <<b>> \o r
             p == <<a>> \o q
             t == <<a, b, c, d, e>>
  <2>1. r \in StatusMarks /\ Len(r) = 3 /\ r[1] = c /\ r[2] = d /\ r[3] = e
    BY <1>1 DEF StatusMarks
  <2>2. /\ t \in StatusMarks /\ Len(t) = 5
        /\ t[1] = a /\ t[2] = b /\ t[3] = c /\ t[4] = d /\ t[5] = e
    BY <1>1 DEF StatusMarks
  <2> HIDE DEF r, t
  <2>3. /\ q \in StatusMarks /\ Len(q) = Len(r) + 1
        /\ q[1] = b /\ \A i \in 1 .. Len(r) : q[i + 1] = r[i]
    BY <1>1, <2>1, MarkBefore
  <2> HIDE DEF q
  <2>4. /\ p \in StatusMarks /\ Len(p) = Len(q) + 1
        /\ p[1] = a /\ \A i \in 1 .. Len(q) : p[i + 1] = q[i]
    BY <1>1, <2>3, MarkBefore
  <2> HIDE DEF p
  <2>5. Len(q) = 4 /\ q[1] = b /\ q[2] = c /\ q[3] = d /\ q[4] = e
    <3>1. q[1 + 1] = r[1] /\ q[2 + 1] = r[2] /\ q[3 + 1] = r[3]
      BY <2>1, <2>3
    <3> QED BY <2>1, <2>3, <3>1
  <2>6. Len(p) = 5 /\ p[1] = a /\ p[2] = b /\ p[3] = c /\ p[4] = d /\ p[5] = e
    <3>1. p[1 + 1] = q[1] /\ p[2 + 1] = q[2] /\ p[3 + 1] = q[3] /\ p[4 + 1] = q[4]
      BY <2>4, <2>5
    <3> QED BY <2>4, <2>5, <3>1
  <2>7. \A i \in 1 .. 5 : p[i] = t[i]
    <3>1. \A i \in 1 .. 5 : i = 1 \/ i = 2 \/ i = 3 \/ i = 4 \/ i = 5
      OBVIOUS
    <3> QED BY <2>2, <2>6, <3>1, Zenon
  <2>8. p = t
    BY <2>2, <2>4, <2>6, <2>7, SeqEqual DEF StatusMarks
  <2> QED BY <2>8, Zenon DEF p, q, r, t
<1> QED BY <1>2, Zenon DEF Heading, Brace, NodeHead, a, b, c, d, e

\* and its end.
LEMMA EndingParts == Ending = Unbrace \o (Unbrace \o <<"\n">>)
<1>1. ASSUME NEW a \in StatusMark, NEW b \in StatusMark, NEW c \in StatusMark
      PROVE  <<a>> \o (<<b>> \o <<c>>) = <<a, b, c>>
  <2> DEFINE r == <<c>>
             q == <<b>> \o r
             p == <<a>> \o q
             t == <<a, b, c>>
  <2>1. r \in StatusMarks /\ Len(r) = 1 /\ r[1] = c
    BY DEF StatusMarks
  <2>2. t \in StatusMarks /\ Len(t) = 3 /\ t[1] = a /\ t[2] = b /\ t[3] = c
    BY DEF StatusMarks
  <2> HIDE DEF r, t
  <2>3. /\ q \in StatusMarks /\ Len(q) = Len(r) + 1
        /\ q[1] = b /\ \A i \in 1 .. Len(r) : q[i + 1] = r[i]
    BY <2>1, MarkBefore
  <2> HIDE DEF q
  <2>4. /\ p \in StatusMarks /\ Len(p) = Len(q) + 1
        /\ p[1] = a /\ \A i \in 1 .. Len(q) : p[i + 1] = q[i]
    BY <2>3, MarkBefore
  <2> HIDE DEF p
  <2>5. Len(q) = 2 /\ q[1] = b /\ q[2] = c
    <3>1. q[1 + 1] = r[1]
      BY <2>1, <2>3
    <3> QED BY <2>1, <2>3, <3>1
  <2>6. Len(p) = 3 /\ p[1] = a /\ p[2] = b /\ p[3] = c
    <3>1. p[1 + 1] = q[1] /\ p[2 + 1] = q[2]
      BY <2>4, <2>5
    <3> QED BY <2>4, <2>5, <3>1
  <2>7. \A i \in 1 .. 3 : p[i] = t[i]
    <3>1. \A i \in 1 .. 3 : i = 1 \/ i = 2 \/ i = 3
      OBVIOUS
    <3> QED BY <2>2, <2>6, <3>1, Zenon
  <2>8. p = t
    BY <2>2, <2>4, <2>6, <2>7, SeqEqual DEF StatusMarks
  <2> QED BY <2>8, Zenon DEF p, q, r, t
<1>2. "}" \in StatusMark /\ "\n" \in StatusMark
  BY DEF StatusMark
<1> QED BY <1>1, <1>2, Zenon DEF Ending, Unbrace

\* The line for given Nodes, between what it starts and ends with.
LEMMA ReportText ==
  ASSUME NEW nodes \in Seq(Nodes)
  PROVE  /\ FlattenSeq(NodeTexts(nodes)) \in StatusMarks
         /\ Report(nodes) = Heading \o (FlattenSeq(NodeTexts(nodes)) \o Ending)
<1> DEFINE f == FlattenSeq(NodeTexts(nodes))
           n == PropertyHead("n")
           d == <<"DATA:">>
           e == <<"\n">>
           members == NodeMembers(nodes)
           object == Brace \o (f \o Unbrace)
           member == n \o object
<1>1. members \in Seq(StatusMarks)
  BY NodeMembersTyped
<1>2. f \in StatusMarks /\ Object(members) = object
  BY <1>1, ObjectText, Zenon DEF NodeTexts
<1>3. /\ d \in StatusMarks /\ e \in StatusMarks /\ n \in StatusMarks
      /\ Brace \in StatusMarks /\ Unbrace \in StatusMarks
  <2>1. \A a \in StatusMark : <<a>> \in StatusMarks
    BY DEF StatusMarks
  <2>2. "DATA:" \in StatusMark /\ "\n" \in StatusMark
    BY DEF StatusMark
  <2>3. "n" \in Id \cup {"n"}
    OBVIOUS
  <2> QED BY <2>1, <2>2, <2>3, HeadsTyped, StatusPieces, Zenon
<1>4. object \in StatusMarks /\ member \in StatusMarks
  BY <1>2, <1>3, StatusJoin, Zenon
<1>5. Object(<<member>>) = Brace \o (member \o Unbrace)
  <2> HIDE DEF member
  <2> DEFINE ms == <<member>>
  <2>1. ms \in Seq(StatusMarks) /\ Len(ms) = 1 /\ ms[1] = member
    BY <1>4
  <2> HIDE DEF ms
  <2> DEFINE separated == Separated(ms)
  <2>2. /\ separated \in Seq(Seq(StatusMark)) /\ Len(separated) = 1
        /\ separated[1] = Comma(TRUE) \o member
        /\ Object(ms) = Brace \o (FlattenSeq(separated) \o Unbrace)
    <3>1. /\ separated \in Seq(StatusMarks) /\ Len(separated) = Len(ms)
          /\ \A i \in 1 .. Len(ms) : separated[i] = Comma(i = 1) \o ms[i]
          /\ Object(ms) = Brace \o (FlattenSeq(separated) \o Unbrace)
      BY <2>1, ObjectText, Zenon
    <3>2. 1 \in 1 .. Len(ms) /\ (1 = 1) = TRUE
      BY <2>1
    <3>3. separated[1] = Comma(TRUE) \o member
      BY <2>1, <3>1, <3>2, Zenon
    <3> QED BY <2>1, <3>1, <3>3, Zenon DEF StatusMarks
  <2> HIDE DEF separated
  <2>3. Comma(TRUE) = << >> /\ << >> \o member = member
    BY <1>4, ConcatEmptySeq DEF Comma, StatusMarks
  <2>4. FlattenSeq(separated) = First(separated, 1)
    BY <2>2, FlattenIsFirst
  <2>5. 0 \in 0 .. Len(separated) - 1
    BY <2>2
  <2>6. First(separated, 0 + 1) = First(separated, 0) \o separated[0 + 1]
        /\ First(separated, 0) = << >>
    BY <2>2, <2>5, FirstStep
  <2>7. First(separated, 1) = member
    <3>1. 0 + 1 = 1
      OBVIOUS
    <3>2. First(separated, 1) = << >> \o separated[1]
      BY <2>6, <3>1, Zenon
    <3> QED BY <2>2, <2>3, <3>2, Zenon
  <2> QED BY <2>2, <2>4, <2>7, Zenon DEF ms
<1>6. Report(nodes) = (d \o (Brace \o (member \o Unbrace))) \o e
  <2>1. DOMAIN nodes = 1 .. Len(nodes)
    OBVIOUS
  <2>2. Member("n", Object(members)) = member
    BY <1>2, Zenon DEF Member, PropertyHead
  <2>3. Report(nodes) = (d \o Object(<<Member("n", Object(members))>>)) \o e
    BY <2>1, Zenon DEF Report, StatusLine, NodesObject, NodeMembers
  <2> QED BY <1>5, <2>2, <2>3, Zenon
<1>8. n \o Brace = NodeHead("n")
  BY HeadsTyped
<1>9. Report(nodes) = (d \o (Brace \o (n \o Brace))) \o (f \o (Unbrace \o (Unbrace \o e)))
  <2> HIDE DEF d, n, e, f
  <2>1. Cat(Cat(d, Cat(Brace, Cat(Cat(n, Cat(Brace, Cat(f, Unbrace))), Unbrace))), e)
          = Cat(Cat(d, Cat(Brace, Cat(n, Brace))), Cat(f, Cat(Unbrace, Cat(Unbrace, e))))
    <3> DEFINE fu == Cat(f, Unbrace)
               bfu == Cat(Brace, fu)
               nbfu == Cat(n, bfu)
               nbfuu == Cat(nbfu, Unbrace)
               rest == Cat(Brace, nbfuu)
               ue == Cat(Unbrace, e)
               uue == Cat(Unbrace, ue)
               fuue == Cat(f, uue)
               nb == Cat(n, Brace)
    <3>1. /\ fu \in StatusMarks /\ bfu \in StatusMarks /\ nbfu \in StatusMarks
          /\ nbfuu \in StatusMarks /\ rest \in StatusMarks
          /\ ue \in StatusMarks /\ uue \in StatusMarks /\ fuue \in StatusMarks
          /\ nb \in StatusMarks /\ Cat(Brace, nb) \in StatusMarks
      BY <1>2, <1>3, CatLaws
    <3>2. Cat(Cat(d, rest), e) = Cat(d, Cat(rest, e)) /\ Cat(rest, e) = Cat(Brace, Cat(nbfuu, e))
      BY <1>3, <3>1, CatLaws
    <3>3. Cat(nbfuu, e) = Cat(nbfu, ue) /\ Cat(nbfu, ue) = Cat(n, Cat(bfu, ue))
      BY <1>3, <3>1, CatLaws
    <3>4. Cat(bfu, ue) = Cat(Brace, Cat(fu, ue)) /\ Cat(fu, ue) = fuue
      BY <1>2, <1>3, <3>1, CatLaws
    <3>5. /\ Cat(Cat(d, Cat(Brace, nb)), fuue) = Cat(d, Cat(Cat(Brace, nb), fuue))
          /\ Cat(Cat(Brace, nb), fuue) = Cat(Brace, Cat(nb, fuue))
          /\ Cat(nb, fuue) = Cat(n, Cat(Brace, fuue))
      BY <1>3, <3>1, CatLaws
    <3> QED BY <3>2, <3>3, <3>4, <3>5, Zenon
  <2> QED BY <1>6, <2>1, Zenon DEF Cat
<1> QED BY <1>2, <1>8, <1>9, HeadingParts, EndingParts, Zenon

\* Writing nothing changes no text.
LEMMA CatNothing ==
  ASSUME NEW a \in StatusMarks
  PROVE  Cat(a, << >>) = a /\ Cat(<< >>, a) = a
<1>1. a \o << >> = a /\ << >> \o a = a
  BY ConcatEmptySeq DEF StatusMarks
<1> QED BY <1>1, Zenon DEF Cat

\* A Node more.
LEMMA NextNodeText ==
  ASSUME NEW nodes \in Seq(Nodes), NEW k \in 1 .. Len(nodes)
  PROVE  /\ First(NodeTexts(nodes), k - 1) \in StatusMarks
         /\ First(NodeTexts(nodes), k)
              = Cat(First(NodeTexts(nodes), k - 1),
                    Cat(Cat(Comma(k = 1), NodeHead(nodes[k].id)),
                        Cat(FlattenSeq(PropertyTexts(nodes[k])), Unbrace)))
<1> DEFINE s == NodeTexts(nodes)
           c == Comma(k = 1)
           h == NodeHead(nodes[k].id)
           w == Cat(FlattenSeq(PropertyTexts(nodes[k])), Unbrace)
<1>1. /\ s \in Seq(StatusMarks) /\ Len(s) = Len(nodes)
      /\ \A i \in 1 .. Len(nodes) : s[i] = Comma(i = 1) \o NodeMembers(nodes)[i]
  <2> DEFINE members == NodeMembers(nodes)
  <2>1. members \in Seq(StatusMarks) /\ Len(members) = Len(nodes)
    BY NodeMembersTyped
  <2> HIDE DEF members
  <2>2. /\ Separated(members) \in Seq(StatusMarks) /\ Len(Separated(members)) = Len(members)
        /\ \A i \in 1 .. Len(members) : Separated(members)[i] = Comma(i = 1) \o members[i]
    BY <2>1, ObjectText, Zenon
  <2>3. s = Separated(members)
    BY Zenon DEF NodeTexts, members
  <2> QED BY <2>1, <2>2, <2>3, Zenon DEF members
<1>2. NodeMembers(nodes)[k] = h \o w /\ nodes[k] \in Nodes
  BY NodeMembersTyped, Zenon DEF Cat
<1>3. /\ c \in StatusMarks /\ h \in StatusMarks /\ w \in StatusMarks
  <2>1. (k = 1) \in BOOLEAN
    OBVIOUS
  <2>2. c \in StatusMarks
    BY <2>1, StatusPieces, Zenon
  <2>3. h \in StatusMarks
    BY <1>2, NodeTyped, HeadsTyped
  <2>4. FlattenSeq(PropertyTexts(nodes[k])) \in StatusMarks
    BY <1>2, NodeText
  <2> QED BY <2>2, <2>3, <2>4, StatusPieces, CatLaws, Zenon
<1>4. s[k] = Cat(c, Cat(h, w))
  BY <1>1, <1>2, Zenon DEF Cat
<1>5. s \in Seq(Seq(StatusMark)) /\ k \in 1 .. Len(s)
  BY <1>1 DEF StatusMarks
<1> HIDE DEF s, c, h, w
<1>6. k - 1 \in 0 .. Len(s) - 1 /\ k - 1 \in 0 .. Len(s) /\ (k - 1) + 1 = k
  BY <1>5
<1>7. First(s, k) = First(s, k - 1) \o s[k] /\ First(s, k - 1) \in StatusMarks
  BY <1>5, <1>6, FirstStep DEF StatusMarks
<1>8. Cat(c, Cat(h, w)) = Cat(Cat(c, h), w)
  BY <1>3, CatLaws
<1>9. First(s, k) = Cat(First(s, k - 1), Cat(Cat(c, h), w))
  BY <1>4, <1>7, <1>8, Zenon DEF Cat
<1> QED BY <1>7, <1>9, Zenon DEF s, c, h, w

\* A property more.
LEMMA NextPropertyText ==
  ASSUME NEW n \in Nodes
  PROVE  /\ First(PropertyTexts(n), 0) = << >>
         /\ First(PropertyTexts(n), Len(n.properties)) = FlattenSeq(PropertyTexts(n))
         /\ \A j \in 0 .. Len(n.properties) :
              /\ First(PropertyTexts(n), j) \in StatusMarks
              /\ \E r \in StatusMarks : FlattenSeq(PropertyTexts(n)) = Cat(First(PropertyTexts(n), j), r)
         /\ \A j \in 0 .. Len(n.properties) - 1 :
              First(PropertyTexts(n), j + 1)
                = Cat(First(PropertyTexts(n), j),
                      Cat(Cat(Comma(j = 0), PropertyHead(n.properties[j + 1][1])),
                          ValueText(n.properties[j + 1][2])))
<1> DEFINE s == PropertyTexts(n)
           l == Len(n.properties)
<1>1. /\ s \in Seq(StatusMarks) /\ Len(s) = l
      /\ \A i \in 1 .. l : s[i] = Comma(i = 1) \o PropertyMembers(n)[i]
  <2> DEFINE members == PropertyMembers(n)
  <2>1. members \in Seq(StatusMarks) /\ Len(members) = Len(n.properties)
    BY PropertyMembersTyped
  <2> HIDE DEF members
  <2>2. /\ Separated(members) \in Seq(StatusMarks) /\ Len(Separated(members)) = Len(members)
        /\ \A i \in 1 .. Len(members) : Separated(members)[i] = Comma(i = 1) \o members[i]
    BY <2>1, ObjectText, Zenon
  <2>3. s = Separated(members)
    BY Zenon DEF PropertyTexts, members
  <2> QED BY <2>1, <2>2, <2>3, Zenon DEF members
<1>2. l \in Nat
  BY NodeTyped
<1>3. s \in Seq(Seq(StatusMark))
  BY <1>1 DEF StatusMarks
<1>4. ASSUME NEW j \in 0 .. l - 1
      PROVE  First(s, j + 1) = Cat(First(s, j), Cat(Cat(Comma(j = 0),
                                                        PropertyHead(n.properties[j + 1][1])),
                                                    ValueText(n.properties[j + 1][2])))
  <2> DEFINE c == Comma(j = 0)
             h == PropertyHead(n.properties[j + 1][1])
             v == ValueText(n.properties[j + 1][2])
  <2>1. j + 1 \in 1 .. l /\ (j + 1 = 1) = (j = 0) /\ j \in 0 .. Len(s) - 1
    BY <1>1, <1>2
  <2>2. PropertyMembers(n)[j + 1] = h \o v /\ h \in StatusMarks /\ v \in StatusMarks
    BY <2>1, PropertyMembersTyped
  <2>3. s[j + 1] = Comma(j + 1 = 1) \o PropertyMembers(n)[j + 1]
    BY <1>1, <2>1, Zenon
  <2>4. s[j + 1] = Cat(c, Cat(h, v))
    BY <2>1, <2>2, <2>3, Zenon DEF Cat
  <2>5. c \in StatusMarks
    <3>1. (j = 0) \in BOOLEAN
      OBVIOUS
    <3> QED BY <3>1, StatusPieces, Zenon
  <2> HIDE DEF s, c, h, v
  <2>6. First(s, j + 1) = First(s, j) \o s[j + 1]
    BY <1>3, <2>1, FirstStep
  <2>7. Cat(c, Cat(h, v)) = Cat(Cat(c, h), v)
    BY <2>2, <2>5, CatLaws
  <2>8. First(s, j + 1) = Cat(First(s, j), Cat(Cat(c, h), v))
    BY <2>4, <2>6, <2>7, Zenon DEF Cat
  <2> QED BY <2>8, Zenon DEF c, h, v
<1>5. ASSUME NEW j \in 0 .. l
      PROVE  /\ First(s, j) \in StatusMarks
             /\ \E r \in StatusMarks : FlattenSeq(s) = Cat(First(s, j), r)
  <2> HIDE DEF s
  <2>1. j \in 0 .. Len(s)
    BY <1>1
  <2>2. First(s, j) \in StatusMarks
    BY <1>3, <2>1, FirstStep DEF StatusMarks
  <2>3. \E r \in StatusMarks : FlattenSeq(s) = First(s, j) \o r
    BY <1>3, <2>1, FirstIsPrefix DEF StatusMarks
  <2> QED BY <2>2, <2>3, Zenon DEF Cat
<1>6. First(s, 0) = << >> /\ First(s, l) = FlattenSeq(s)
  <2> HIDE DEF s
  <2> QED BY <1>1, <1>3, FirstStep, FlattenIsFirst
<1> QED BY <1>4, <1>5, <1>6, Zenon

-----------------------------------------------------------------------------
(* Writing the status line *)

\* What has been written up to a Node, and of that Node so far.
Before(nodes, k) == Cat(Heading, First(NodeTexts(nodes), k - 1))
SoFar(nodes, k, j) ==
  Cat(Cat(Comma(k = 1), NodeHead(nodes[k].id)), First(PropertyTexts(nodes[k]), j))

ReportInv ==
  /\ registered \in Seq(Nodes)
  /\ \/ phase = "begin" /\ position = 1 /\ text = << >>
     \/ /\ phase = "nodes" /\ position \in 1 .. Len(registered) + 1
        /\ firstNode = (position = 1)
        /\ text = Before(registered, position)
     \/ /\ phase = "properties" /\ position \in 1 .. Len(registered)
        /\ written \in 0 .. Len(registered[position].properties)
        /\ firstNode = FALSE /\ firstProperty = (written = 0)
        /\ text = Cat(Before(registered, position), SoFar(registered, position, written))
     \/ phase = "done" /\ text = Report(registered)

\* What has been written before each Node, and what a Node's object starts with.
LEMMA PieceTyped ==
  ASSUME NEW nodes \in Seq(Nodes)
  PROVE  /\ \A k \in 1 .. Len(nodes) + 1 :
              First(NodeTexts(nodes), k - 1) \in StatusMarks /\ Before(nodes, k) \in StatusMarks
         /\ Before(nodes, 1) = Heading
         /\ \A k \in 1 .. Len(nodes) :
              /\ nodes[k] \in Nodes
              /\ Comma(k = 1) \in StatusMarks /\ NodeHead(nodes[k].id) \in StatusMarks
         /\ First(NodeTexts(nodes), Len(nodes)) = FlattenSeq(NodeTexts(nodes))
         /\ \A k \in 1 .. Len(nodes) + 1 :
              \E r \in StatusMarks : FlattenSeq(NodeTexts(nodes)) = Cat(First(NodeTexts(nodes), k - 1), r)
<1> DEFINE s == NodeTexts(nodes)
<1>1. s \in Seq(Seq(StatusMark)) /\ Len(s) = Len(nodes) /\ Len(nodes) \in Nat
  <2> DEFINE members == NodeMembers(nodes)
  <2>1. members \in Seq(StatusMarks) /\ Len(members) = Len(nodes)
    BY NodeMembersTyped
  <2> HIDE DEF members
  <2>2. Separated(members) \in Seq(StatusMarks) /\ Len(Separated(members)) = Len(members)
    BY <2>1, ObjectText, Zenon
  <2>3. s = Separated(members)
    BY Zenon DEF NodeTexts, members
  <2> QED BY <2>1, <2>2, <2>3 DEF StatusMarks
<1> HIDE DEF s
<1>2. ASSUME NEW k \in 1 .. Len(nodes) + 1
      PROVE  /\ First(s, k - 1) \in StatusMarks
             /\ \E r \in StatusMarks : FlattenSeq(s) = Cat(First(s, k - 1), r)
  <2>1. k - 1 \in 0 .. Len(s)
    BY <1>1
  <2>2. First(s, k - 1) \in StatusMarks
    BY <1>1, <2>1, FirstStep DEF StatusMarks
  <2>3. \E r \in StatusMarks : FlattenSeq(s) = First(s, k - 1) \o r
    BY <1>1, <2>1, FirstIsPrefix DEF StatusMarks
  <2> QED BY <2>2, <2>3, Zenon DEF Cat
<1>3. \A k \in 1 .. Len(nodes) + 1 : Cat(Heading, First(s, k - 1)) \in StatusMarks
  BY <1>2, StatusPieces, CatLaws, Zenon
<1>4. First(s, 1 - 1) = << >> /\ First(s, Len(nodes)) = FlattenSeq(s)
  <2>1. 1 - 1 = 0
    OBVIOUS
  <2> QED BY <1>1, <2>1, FirstStep, FlattenIsFirst
<1>5. Cat(Heading, First(s, 1 - 1)) = Heading
  BY <1>4, StatusPieces, CatNothing, Zenon
<1>6. ASSUME NEW k \in 1 .. Len(nodes)
      PROVE  /\ nodes[k] \in Nodes
             /\ Comma(k = 1) \in StatusMarks /\ NodeHead(nodes[k].id) \in StatusMarks
  <2>1. nodes[k] \in Nodes /\ (k = 1) \in BOOLEAN
    OBVIOUS
  <2>2. Comma(k = 1) \in StatusMarks
    BY <2>1, StatusPieces, Zenon
  <2>3. NodeHead(nodes[k].id) \in StatusMarks
    BY <2>1, NodeTyped, HeadsTyped
  <2> QED BY <2>1, <2>2, <2>3
<1> QED BY <1>2, <1>3, <1>4, <1>5, <1>6, Zenon DEF s, Before

\* What has been written of a Node.
LEMMA SoFarTyped ==
  ASSUME NEW nodes \in Seq(Nodes),
         NEW k \in 1 .. Len(nodes), NEW j \in 0 .. Len(nodes[k].properties)
  PROVE  /\ SoFar(nodes, k, j) \in StatusMarks
         /\ First(PropertyTexts(nodes[k]), j) \in StatusMarks
         /\ Cat(Comma(k = 1), NodeHead(nodes[k].id)) \in StatusMarks
         /\ Before(nodes, k) \in StatusMarks /\ nodes[k] \in Nodes
<1>1. nodes[k] \in Nodes /\ k \in 1 .. Len(nodes) + 1
  OBVIOUS
<1>2. First(PropertyTexts(nodes[k]), j) \in StatusMarks
  BY <1>1, NextPropertyText
<1>3. Comma(k = 1) \in StatusMarks /\ NodeHead(nodes[k].id) \in StatusMarks
      /\ Before(nodes, k) \in StatusMarks
  BY <1>1, PieceTyped, Zenon
<1>4. Cat(Comma(k = 1), NodeHead(nodes[k].id)) \in StatusMarks
  BY <1>3, CatLaws, Zenon
<1> QED BY <1>1, <1>2, <1>3, <1>4, CatLaws, Zenon DEF SoFar

\* After its properties and the bracket, the next Node's turn.
LEMMA NodeIsWritten ==
  ASSUME NEW nodes \in Seq(Nodes), NEW k \in 1 .. Len(nodes)
  PROVE  Cat(Cat(Before(nodes, k), SoFar(nodes, k, Len(nodes[k].properties))), Unbrace)
           = Before(nodes, k + 1)
<1> DEFINE f == First(NodeTexts(nodes), k - 1)
           ch == Cat(Comma(k = 1), NodeHead(nodes[k].id))
           p == FlattenSeq(PropertyTexts(nodes[k]))
           l == Len(nodes[k].properties)
<1>1. nodes[k] \in Nodes /\ k \in 1 .. Len(nodes) + 1 /\ (k + 1) - 1 = k
  OBVIOUS
<1>2. l \in 0 .. l
  BY <1>1, NodeTyped
<1>3. First(PropertyTexts(nodes[k]), l) = p
  BY <1>1, NextPropertyText
<1>4. p \in StatusMarks
  BY <1>1, NodeText
<1>5. f \in StatusMarks
  BY <1>1, PieceTyped
<1>6. ch \in StatusMarks
  BY <1>2, SoFarTyped
<1>7. First(NodeTexts(nodes), k) = Cat(f, Cat(ch, Cat(p, Unbrace)))
  BY NextNodeText, Zenon
<1>8. Before(nodes, k) = Cat(Heading, f) /\ Before(nodes, k + 1) = Cat(Heading, Cat(f, Cat(ch, Cat(p, Unbrace))))
  BY <1>1, <1>7, Zenon DEF Before
<1>9. SoFar(nodes, k, l) = Cat(ch, p)
  BY <1>3, Zenon DEF SoFar
<1> HIDE DEF f, ch, p
<1>10. Cat(Cat(Cat(Heading, f), Cat(ch, p)), Unbrace) = Cat(Heading, Cat(f, Cat(ch, Cat(p, Unbrace))))
  <2> DEFINE cp == Cat(ch, p)
             pu == Cat(p, Unbrace)
             hf == Cat(Heading, f)
  <2>1. /\ Heading \in StatusMarks /\ Unbrace \in StatusMarks /\ cp \in StatusMarks
        /\ pu \in StatusMarks /\ hf \in StatusMarks /\ Cat(cp, Unbrace) \in StatusMarks
    BY <1>4, <1>5, <1>6, StatusPieces, CatLaws
  <2>2. Cat(Cat(hf, cp), Unbrace) = Cat(hf, Cat(cp, Unbrace))
    BY <2>1, CatLaws
  <2>3. Cat(cp, Unbrace) = Cat(ch, pu)
    BY <1>4, <1>6, <2>1, CatLaws
  <2>4. Cat(hf, Cat(cp, Unbrace)) = Cat(Heading, Cat(f, Cat(cp, Unbrace)))
    BY <1>5, <2>1, CatLaws
  <2> QED BY <2>2, <2>3, <2>4, Zenon
<1> QED BY <1>8, <1>9, <1>10, Zenon

\* What has been written is the start of the line.
LEMMA WrittenIsStart ==
  ASSUME ReportInv
  PROVE  \E r \in StatusMarks : Report(registered) = Cat(text, r) /\ text \in StatusMarks
<1> DEFINE all == FlattenSeq(NodeTexts(registered))
           f == First(NodeTexts(registered), position - 1)
<1>1. registered \in Seq(Nodes)
  BY DEF ReportInv
<1>2. all \in StatusMarks /\ Report(registered) = Cat(Heading, Cat(all, Ending))
  BY <1>1, ReportText, Zenon DEF Cat
<1>3. Heading \in StatusMarks /\ Ending \in StatusMarks /\ Unbrace \in StatusMarks /\ << >> \in StatusMarks
  BY StatusPieces
<1>4. Report(registered) \in StatusMarks
  <2> HIDE DEF all
  <2> QED BY <1>2, <1>3, CatLaws
<1>5. CASE phase = "begin" /\ text = << >>
  BY <1>3, <1>4, <1>5, CatNothing, Zenon
<1>6. CASE phase = "nodes" /\ position \in 1 .. Len(registered) + 1
           /\ text = Before(registered, position)
  <2>1. f \in StatusMarks /\ \E r \in StatusMarks : all = Cat(f, r)
    BY <1>1, <1>6, PieceTyped, Zenon
  <2>2. PICK r \in StatusMarks : all = Cat(f, r)
    BY <2>1
  <2>3. text = Cat(Heading, f)
    BY <1>6, Zenon DEF Before
  <2> HIDE DEF f, all
  <2>4. Cat(r, Ending) \in StatusMarks /\ Cat(Heading, f) \in StatusMarks
    BY <1>3, <2>1, CatLaws
  <2>5. /\ Cat(Cat(f, r), Ending) = Cat(f, Cat(r, Ending))
        /\ Cat(Heading, Cat(f, Cat(r, Ending))) = Cat(Cat(Heading, f), Cat(r, Ending))
    BY <1>3, <2>1, <2>4, CatLaws
  <2>6. Report(registered) = Cat(text, Cat(r, Ending)) /\ text \in StatusMarks
    BY <1>2, <2>2, <2>3, <2>4, <2>5, Zenon
  <2> QED BY <2>4, <2>6, Zenon
<1>7. CASE /\ phase = "properties" /\ position \in 1 .. Len(registered)
           /\ written \in 0 .. Len(registered[position].properties)
           /\ text = Cat(Before(registered, position), SoFar(registered, position, written))
  <2> DEFINE n == registered[position]
             ch == Cat(Comma(position = 1), NodeHead(n.id))
             q == First(PropertyTexts(n), written)
             full == FlattenSeq(PropertyTexts(n))
  <2>1. /\ position \in 1 .. Len(registered) + 1 /\ position + 1 \in 1 .. Len(registered) + 1
        /\ (position + 1) - 1 = position
    BY <1>7
  <2>2. f \in StatusMarks
    BY <1>1, <2>1, PieceTyped, Zenon
  <2>3. q \in StatusMarks /\ ch \in StatusMarks /\ n \in Nodes
    BY <1>1, <1>7, SoFarTyped, Zenon
  <2>4. \E r \in StatusMarks : full = Cat(q, r)
    BY <1>7, <2>3, NextPropertyText, Zenon
  <2>5. PICK r \in StatusMarks : full = Cat(q, r)
    BY <2>4
  <2>6. \E t \in StatusMarks : all = Cat(First(NodeTexts(registered), (position + 1) - 1), t)
    BY <1>1, <2>1, PieceTyped, Zenon
  <2>7. PICK t \in StatusMarks : all = Cat(First(NodeTexts(registered), position), t)
    BY <2>1, <2>6
  <2>8. First(NodeTexts(registered), position) = Cat(f, Cat(ch, Cat(full, Unbrace)))
    BY <1>1, <1>7, NextNodeText, Zenon
  <2>9. text = Cat(Cat(Heading, f), Cat(ch, q))
    BY <1>7, Zenon DEF Before, SoFar
  <2>10. Report(registered)
           = Cat(Heading, Cat(Cat(Cat(f, Cat(ch, Cat(Cat(q, r), Unbrace))), t), Ending))
    BY <1>2, <2>5, <2>7, <2>8, Zenon
  <2> HIDE DEF f, all, n, ch, q, full
  <2> DEFINE m == Cat(r, Unbrace)
             cq == Cat(ch, q)
             fcq == Cat(f, cq)
             mt == Cat(m, t)
             rest == Cat(mt, Ending)
  <2>11. /\ m \in StatusMarks /\ cq \in StatusMarks /\ fcq \in StatusMarks
         /\ mt \in StatusMarks /\ rest \in StatusMarks
         /\ Cat(Heading, f) \in StatusMarks /\ Cat(Cat(Heading, f), cq) \in StatusMarks
    BY <1>3, <2>2, <2>3, CatLaws
  <2>12. Cat(Cat(q, r), Unbrace) = Cat(q, m) /\ Cat(ch, Cat(q, m)) = Cat(cq, m)
    BY <1>3, <2>3, <2>11, CatLaws
  <2>13. Cat(f, Cat(cq, m)) = Cat(fcq, m) /\ Cat(Cat(fcq, m), t) = Cat(fcq, mt)
    BY <2>2, <2>11, CatLaws
  <2>14. Cat(Cat(fcq, mt), Ending) = Cat(fcq, rest) /\ Cat(Heading, Cat(fcq, rest)) = Cat(Cat(Heading, fcq), rest)
    BY <1>3, <2>11, CatLaws
  <2>15. Cat(Heading, fcq) = Cat(Cat(Heading, f), cq)
    BY <1>3, <2>2, <2>11, CatLaws
  <2>16. Report(registered) = Cat(text, rest) /\ text \in StatusMarks
    BY <2>9, <2>10, <2>11, <2>12, <2>13, <2>14, <2>15, Zenon
  <2> QED BY <2>11, <2>16, Zenon
<1>8. CASE phase = "done" /\ text = Report(registered)
  BY <1>3, <1>4, <1>8, CatNothing, Zenon
<1> QED BY <1>5, <1>6, <1>7, <1>8 DEF ReportInv

\* However many Nodes there are and however many properties each of them writes, of whatever
\* value, the status line is one JSON object, written from its start to its end.
THEOREM StatusIsJSON == ReportSpec => []ReportIsJSON
<1>1. ReportInit => ReportInv
  <2> SUFFICES ASSUME ReportInit PROVE ReportInv
    OBVIOUS
  <2>1. PICK k \in 0 .. MAX_NODES : registered \in [1 .. k -> Nodes]
    BY DEF ReportInit, Registered
  <2>2. registered \in Seq(Nodes)
    BY <2>1, SeqDef
  <2>3. phase = "begin" /\ position = 1 /\ text = << >>
    BY DEF ReportInit
  <2> QED BY <2>2, <2>3, Zenon DEF ReportInv
<1>2. ReportInv /\ [ReportNext]_vars => ReportInv'
  <2> SUFFICES ASSUME ReportInv, [ReportNext]_vars PROVE ReportInv'
    OBVIOUS
  <2>1. registered \in Seq(Nodes)
    BY DEF ReportInv
  <2>2. CASE BeginReport
    <3>1. position = 1
      BY <2>2 DEF ReportInv, BeginReport
    <3>2. /\ phase' = "nodes" /\ registered' = registered /\ position' = position
          /\ text' = Heading /\ firstNode' = TRUE
      BY <2>2, Zenon DEF BeginReport, Begin, Heading
    <3>3. 1 \in 1 .. Len(registered) + 1 /\ (1 = 1) = TRUE
      BY <2>1
    <3>4. Before(registered, 1) = Heading
      BY <2>1, PieceTyped, Zenon
    <3> QED BY <2>1, <3>1, <3>2, <3>3, <3>4, Zenon DEF ReportInv
  <2>3. CASE BeginNextNode
    <3> DEFINE n == registered[position]
    <3>1. /\ position \in 1 .. Len(registered) /\ firstNode = (position = 1)
          /\ text = Before(registered, position)
      BY <2>1, <2>3 DEF ReportInv, BeginNextNode
    <3>2. /\ phase' = "properties" /\ registered' = registered /\ position' = position
          /\ written' = 0 /\ firstNode' = FALSE /\ firstProperty' = TRUE
          /\ text' = (text \o Comma(firstNode)) \o NodeHead(n.id)
      BY <2>3, Zenon DEF BeginNextNode, BeginNode, Current, NodeHead
    <3>3. text' = Cat(Cat(Before(registered, position), Comma(position = 1)), NodeHead(n.id))
      BY <3>1, <3>2, Zenon DEF Cat
    <3>4. /\ Before(registered, position) \in StatusMarks
          /\ Comma(position = 1) \in StatusMarks /\ NodeHead(n.id) \in StatusMarks
          /\ n \in Nodes
      <4>1. position \in 1 .. Len(registered) + 1
        BY <2>1, <3>1
      <4> QED BY <2>1, <3>1, <4>1, PieceTyped, Zenon
    <3>5. SoFar(registered, position, 0) = Cat(Comma(position = 1), NodeHead(n.id))
      <4>1. First(PropertyTexts(n), 0) = << >>
        BY <3>4, NextPropertyText, Zenon
      <4>2. Cat(Comma(position = 1), NodeHead(n.id)) \in StatusMarks
        BY <3>4, CatLaws, Zenon
      <4> QED BY <4>1, <4>2, CatNothing, Zenon DEF SoFar
    <3>6. text' = Cat(Before(registered, position), SoFar(registered, position, 0))
      <4> DEFINE b == Before(registered, position)
                 c == Comma(position = 1)
                 h == NodeHead(n.id)
      <4>1. b \in StatusMarks /\ c \in StatusMarks /\ h \in StatusMarks
        BY <3>4, Zenon
      <4> HIDE DEF b, c, h
      <4>2. Cat(Cat(b, c), h) = Cat(b, Cat(c, h))
        BY <4>1, CatLaws
      <4> QED BY <3>3, <3>5, <4>2, Zenon DEF b, c, h
    <3>7. 0 \in 0 .. Len(n.properties) /\ (0 = 0) = TRUE
      BY <3>4, NodeTyped
    <3> QED BY <2>1, <3>1, <3>2, <3>6, <3>7, Zenon DEF ReportInv
  <2>4. CASE WriteNextProperty
    <3> DEFINE n == registered[position]
               l == Len(n.properties)
               p == n.properties[written + 1]
    <3>1. /\ position \in 1 .. Len(registered) /\ written \in 0 .. l /\ written < l
          /\ firstNode = FALSE /\ firstProperty = (written = 0) /\ phase = "properties"
          /\ text = Cat(Before(registered, position), SoFar(registered, position, written))
      BY <2>4 DEF ReportInv, WriteNextProperty, Current
    <3>2. /\ phase' = phase /\ registered' = registered /\ position' = position
          /\ written' = written + 1 /\ firstNode' = firstNode /\ firstProperty' = FALSE
          /\ text' = ((text \o Comma(firstProperty)) \o PropertyHead(p[1])) \o ValueText(p[2])
      BY <2>4, Zenon DEF WriteNextProperty, WriteProperty, Current, PropertyHead
    <3>3. /\ n \in Nodes /\ l \in Nat
      BY <2>1, <3>1, NodeTyped
    <3>4. written \in 0 .. l - 1 /\ written + 1 \in 0 .. l /\ (written + 1 = 0) = FALSE
          /\ written + 1 \in 1 .. l
      BY <3>1, <3>3
    <3> DEFINE c == Comma(written = 0)
               h == PropertyHead(p[1])
               v == ValueText(p[2])
               b == Before(registered, position)
               ch == Cat(Comma(position = 1), NodeHead(n.id))
               q == First(PropertyTexts(n), written)
    <3>5. c \in StatusMarks /\ h \in StatusMarks /\ v \in StatusMarks
      <4>1. (written = 0) \in BOOLEAN
        OBVIOUS
      <4>2. c \in StatusMarks
        BY <4>1, StatusPieces, Zenon
      <4> QED BY <3>3, <3>4, <4>2, PropertyMembersTyped, Zenon
    <3>6. b \in StatusMarks /\ ch \in StatusMarks /\ q \in StatusMarks
      BY <2>1, <3>1, SoFarTyped, Zenon
    <3>7. First(PropertyTexts(n), written + 1) = Cat(q, Cat(Cat(c, h), v))
      BY <3>3, <3>4, NextPropertyText, Zenon
    <3>8. /\ text' = Cat(Cat(Cat(Cat(b, Cat(ch, q)), c), h), v)
          /\ SoFar(registered, position, written + 1) = Cat(ch, Cat(q, Cat(Cat(c, h), v)))
      BY <3>1, <3>2, <3>7, Zenon DEF SoFar, Cat
    <3>9. Cat(Cat(Cat(Cat(b, Cat(ch, q)), c), h), v) = Cat(b, Cat(ch, Cat(q, Cat(Cat(c, h), v))))
      <4> HIDE DEF c, h, v, b, ch, q
      <4> DEFINE cq == Cat(ch, q)
                 bcq == Cat(b, cq)
                 hv == Cat(h, v)
                 chv == Cat(c, hv)
      <4>1. cq \in StatusMarks /\ bcq \in StatusMarks /\ hv \in StatusMarks /\ chv \in StatusMarks
            /\ Cat(bcq, c) \in StatusMarks
        BY <3>5, <3>6, CatLaws
      <4>2. Cat(Cat(Cat(bcq, c), h), v) = Cat(Cat(bcq, c), hv) /\ Cat(Cat(bcq, c), hv) = Cat(bcq, chv)
        BY <3>5, <4>1, CatLaws
      <4>3. Cat(bcq, chv) = Cat(b, Cat(cq, chv)) /\ Cat(cq, chv) = Cat(ch, Cat(q, chv))
        BY <3>6, <4>1, CatLaws
      <4>4. Cat(Cat(c, h), v) = chv
        BY <3>5, CatLaws
      <4> QED BY <4>2, <4>3, <4>4, Zenon
    <3>10. text' = Cat(b, SoFar(registered, position, written + 1))
      BY <3>8, <3>9, Zenon
    <3> QED BY <2>1, <3>1, <3>2, <3>4, <3>10, Zenon DEF ReportInv
  <2>5. CASE EndCurrentNode
    <3> DEFINE n == registered[position]
               l == Len(n.properties)
    <3>1. /\ position \in 1 .. Len(registered) /\ firstNode = FALSE
          /\ text = Cat(Before(registered, position), SoFar(registered, position, l))
      BY <2>5 DEF ReportInv, EndCurrentNode, Current
    <3>2. /\ phase' = "nodes" /\ registered' = registered /\ position' = position + 1
          /\ firstNode' = firstNode /\ text' = Append(text, "}")
      BY <2>5, Zenon DEF EndCurrentNode, EndNode
    <3>3. text \in StatusMarks
      BY <2>1, WrittenIsStart, Zenon
    <3>4. text' = Cat(text, Unbrace)
      <4>1. "}" \in StatusMark
        BY DEF StatusMark
      <4>2. Append(text, "}") = text \o <<"}">>
        BY <3>3, <4>1, AppendIsConcat DEF StatusMarks
      <4> QED BY <3>2, <4>2, Zenon DEF Cat, Unbrace
    <3>5. text' = Before(registered, position + 1)
      BY <2>1, <3>1, <3>4, NodeIsWritten, Zenon
    <3>6. position + 1 \in 1 .. Len(registered) + 1 /\ (position + 1 = 1) = FALSE
      BY <2>1, <3>1
    <3> QED BY <2>1, <3>1, <3>2, <3>5, <3>6, Zenon DEF ReportInv
  <2>6. CASE EndReport
    <3>1. /\ position = Len(registered) + 1
          /\ text = Before(registered, position)
      BY <2>1, <2>6 DEF ReportInv, EndReport
    <3>2. phase' = "done" /\ registered' = registered /\ text' = text \o Ending
      BY <2>6, Zenon DEF EndReport, End, Ending
    <3> DEFINE all == FlattenSeq(NodeTexts(registered))
    <3>3. Report(registered) = Cat(Heading, Cat(all, Ending)) /\ all \in StatusMarks
      BY <2>1, ReportText, Zenon DEF Cat
    <3>4. text = Cat(Heading, all)
      <4>1. (Len(registered) + 1) - 1 = Len(registered)
        BY <2>1
      <4>2. First(NodeTexts(registered), Len(registered)) = all
        BY <2>1, PieceTyped, Zenon
      <4> QED BY <3>1, <4>1, <4>2, Zenon DEF Before
    <3>5. text' = Cat(Cat(Heading, all), Ending)
      BY <3>2, <3>4, Zenon DEF Cat
    <3>6. text' = Report(registered)
      BY <3>3, <3>5, StatusPieces, CatLaws, Zenon
    <3> QED BY <2>1, <3>2, <3>6, Zenon DEF ReportInv
  <2>7. CASE UNCHANGED vars
    <3>1. /\ registered' = registered /\ phase' = phase /\ position' = position
          /\ text' = text /\ firstNode' = firstNode /\ firstProperty' = firstProperty
          /\ written' = written
      BY <2>7 DEF vars, writer
    <3> QED BY <3>1, Zenon DEF ReportInv
  <2> QED BY <2>2, <2>3, <2>4, <2>5, <2>6, <2>7, Zenon DEF ReportNext
<1>3. ReportInv => ReportIsJSON
  <2> SUFFICES ASSUME ReportInv PROVE ReportIsJSON
    OBVIOUS
  <2>1. PICK r \in StatusMarks : Report(registered) = Cat(text, r) /\ text \in StatusMarks
    BY WrittenIsStart, Zenon
  <2>2. IsPrefix(text, text \o r)
    BY <2>1, ConcatHasPrefix DEF StatusMarks
  <2>3. IsPrefix(text, Report(registered))
    BY <2>1, <2>2, Zenon DEF Cat
  <2>4. phase = "done" => text = Report(registered)
    BY DEF ReportInv
  <2> QED BY <2>3, <2>4, Zenon DEF ReportIsJSON
<1> QED BY <1>1, <1>2, <1>3, PTL DEF ReportSpec

===============================================================================
