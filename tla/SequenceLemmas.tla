--------------------------- MODULE SequenceLemmas ---------------------------
(***************************************************************************)
(* What the proofs about data need and the library does not have: a set of *)
(* numbers with 0 and with k + 1 whenever it has k has all of them; a      *)
(* function that is defined step by step exists; what FlattenSeq makes of  *)
(* a sequence of sequences, and filtering of one; and what FoldLeft does   *)
(* one after the other, a fold over sets of positions.                     *)
(***************************************************************************)
EXTENDS Integers, Lists, FiniteSetTheorems, SequenceTheorems, TLAPS

\* A set of positions has a least one, which Min chooses.
LEMMA LeastIsThere ==
  ASSUME NEW n \in Nat, NEW S \in SUBSET (1..n), S # {}
  PROVE  Min(S) \in S /\ \A y \in S : Min(S) <= y
<1> DEFINE Below(x) == {y \in S : y < x}
           Belows == {Below(x) : x \in S}
<1>1. IsFiniteSet(S)
  <2>1. IsFiniteSet(1..n)
    BY FS_Interval
  <2> QED BY <2>1, FS_Subset
<1>2. Belows \subseteq FiniteSubsetsOf(S) /\ Belows # {}
  <2>1. \A x \in S : IsFiniteSet(Below(x))
    BY <1>1, FS_Subset
  <2> QED BY <2>1 DEF FiniteSubsetsOf
<1>3. \E B \in Belows : \A C \in Belows : <<C, B>> \notin StrictSubsetOrdering(S)
  <2>1. IsWellFoundedOn(StrictSubsetOrdering(S), FiniteSubsetsOf(S))
    BY <1>1, FS_StrictSubsetOrderingWellFounded
  <2> HIDE DEF Belows
  <2> QED BY <1>2, <2>1, WFMin, Zenon
<1>4. PICK x \in S : \A y \in S : <<Below(y), Below(x)>> \notin StrictSubsetOrdering(S)
  BY <1>3
<1>5. ASSUME NEW y \in S PROVE x <= y
  <2> SUFFICES ASSUME y < x PROVE FALSE
    OBVIOUS
  <2>1. Below(y) \subseteq Below(x) /\ y \in Below(x) /\ y \notin Below(y)
    <3>1. \A z \in S : z \in Int
      OBVIOUS
    <3>2. ~(y < y) /\ \A z \in S : z < y => z < x
      BY <3>1
    <3> QED BY <3>2, Zenon
  <2>2. <<Below(y), Below(x)>> \in StrictSubsetOrdering(S)
    BY <2>1 DEF StrictSubsetOrdering
  <2> QED BY <2>2, <1>4
<1> QED BY <1>5 DEF Min

\* Induction, for a set of numbers.
LEMMA UpTo ==
  ASSUME NEW n \in Nat, NEW S, 0 \in S, \A k \in 0..(n - 1) : k \in S => k + 1 \in S
  PROVE  \A k \in 0..n : k \in S
<1> SUFFICES ASSUME NEW j \in 0..n, j \notin S PROVE FALSE
  OBVIOUS
<1> DEFINE Not == {k \in 1..n : k \notin S}
           m == Min(Not)
<1>1. j \in Not
  OBVIOUS
<1>2. m \in Not /\ \A k \in Not : m <= k
  <2>1. Not \in SUBSET (1..n) /\ Not # {}
    BY <1>1
  <2> HIDE DEF Not
  <2> QED
    BY <2>1, LeastIsThere
<1> HIDE DEF m
<1>3. m \in 1..n /\ m \notin S
  BY <1>2
<1>4. m - 1 \in 0..(n - 1) /\ m - 1 + 1 = m
  BY <1>3
<1>5. m - 1 \in S
  <2>1. CASE m = 1
    BY <2>1
  <2>2. CASE m # 1
    <3>1. m - 1 \in 1..n /\ ~(m <= m - 1)
      BY <1>3, <2>2
    <3> QED
      BY <1>2, <3>1
  <2> QED
    BY <2>1, <2>2
<1> QED
  BY <1>3, <1>4, <1>5
\* Recursion: the values of a sequence of steps.
StepsOn(T, n) == [1..n -> [T -> T]]
FollowsSteps(f, T, n, a, step) ==
    f \in [0..n -> T] /\ f[0] = a /\ \A i \in 1..n : f[i] = step[i][f[i - 1]]

LEMMA StepByStep ==
  ASSUME NEW n \in Nat, NEW T, NEW a \in T, NEW step \in StepsOn(T, n)
  PROVE  \E f : FollowsSteps(f, T, n, a, step)
<1> DEFINE Steps(m, f) == f[0] = a /\ \A i \in 1..m : f[i] = step[i][f[i - 1]]
           S == {m \in 0..n : \E f \in [0..m -> T] : Steps(m, f)}
<1>1. 0 \in S
  <2>1. [k \in 0..0 |-> a] \in [0..0 -> T] /\ Steps(0, [k \in 0..0 |-> a])
    OBVIOUS
  <2>2. 0 \in 0..n
    OBVIOUS
  <2> HIDE DEF Steps
  <2> QED
    BY <2>1, <2>2
<1>2. ASSUME NEW m \in 0..(n - 1), m \in S PROVE m + 1 \in S
  <2>1. PICK f \in [0..m -> T] : Steps(m, f)
    BY <1>2
  <2> DEFINE g == [k \in 0..(m + 1) |-> IF k = m + 1 THEN step[m + 1][f[m]] ELSE f[k]]
  <2>2. m + 1 \in 1..n /\ m \in 0..m /\ step[m + 1] \in [T -> T] /\ f[m] \in T
    <3>1. m + 1 \in 1..n /\ m \in 0..m
      OBVIOUS
    <3> QED
      BY <3>1 DEF StepsOn
  <2>3. g \in [0..(m + 1) -> T]
    BY <2>2
  <2>4. \A i \in 1..(m + 1) : g[i] = step[i][g[i - 1]]
    <3> SUFFICES ASSUME NEW i \in 1..(m + 1) PROVE g[i] = step[i][g[i - 1]]
      OBVIOUS
    <3>1. i \in 0..(m + 1) /\ i - 1 \in 0..(m + 1) /\ i - 1 # m + 1
      OBVIOUS
    <3>2. g[i - 1] = f[i - 1]
      BY <3>1
    <3>3. CASE i = m + 1
      BY <3>1, <3>2, <3>3
    <3>4. CASE i # m + 1
      <4>1. i \in 1..m
        BY <3>4
      <4> QED
        BY <2>1, <3>1, <3>2, <3>4, <4>1
    <3> QED
      BY <3>3, <3>4
  <2>5. g[0] = a
    BY <2>1, 0 # m + 1
  <2> HIDE DEF g
  <2>6. Steps(m + 1, g) /\ m + 1 \in 0..n
    BY <2>4, <2>5
  <2> HIDE DEF Steps
  <2> QED
    BY <2>3, <2>6
<1>3. n \in S
  <2> HIDE DEF S
  <2>1. \A k \in 0..(n - 1) : k \in S => k + 1 \in S
    BY <1>2
  <2>2. \A k \in 0..n : k \in S
    BY <1>1, <2>1, UpTo
  <2> QED
    BY <2>2
<1> QED
  BY <1>3 DEF FollowsSteps

\* FlattenSeq joins one sequence after the other.
Joins(f, A, seqs) ==
    /\ f \in [0..Len(seqs) -> Seq(A)]
    /\ f[0] = <<>> /\ \A i \in 1..Len(seqs) : f[i] = f[i - 1] \o seqs[i]
    /\ FlattenSeq(seqs) = f[Len(seqs)]

LEMMA Flattened ==
  ASSUME NEW A, NEW seqs \in Seq(Seq(A))
  PROVE  \E f : Joins(f, A, seqs)
<1> DEFINE n == Len(seqs)
           step == [i \in 1..n |-> [s \in Seq(A) |-> s \o seqs[i]]]
           IsFlat(g) == g = [i \in 1..n |-> IF i = 1 THEN seqs[i] ELSE g[i - 1] \o seqs[i]]
<1>1. n \in Nat /\ \A i \in 1..n : seqs[i] \in Seq(A)
  OBVIOUS
<1>2. step \in [1..n -> [Seq(A) -> Seq(A)]] /\ <<>> \in Seq(A)
  BY <1>1, ConcatProperties
<1>3. PICK f \in [0..n -> Seq(A)] : f[0] = <<>> /\ \A i \in 1..n : f[i] = step[i][f[i - 1]]
  <2> HIDE DEF step, n
  <2>1. n \in Nat /\ <<>> \in Seq(A) /\ step \in StepsOn(Seq(A), n)
    BY <1>1, <1>2 DEF StepsOn
  <2>2. PICK f : FollowsSteps(f, Seq(A), n, <<>>, step)
    BY <2>1, StepByStep, Zenon
  <2> QED
    BY <2>2 DEF FollowsSteps
<1> HIDE DEF n
<1>4. \A i \in 1..n : f[i] = f[i - 1] \o seqs[i]
  <2> SUFFICES ASSUME NEW i \in 1..n PROVE f[i] = f[i - 1] \o seqs[i]
    OBVIOUS
  <2>1. i - 1 \in 0..n
    BY <1>1
  <2>2. f[i - 1] \in Seq(A)
    BY <2>1
  <2> QED
    BY <1>3, <2>2
<1> HIDE DEF step
<1>5. CASE n = 0
  <2>1. seqs = <<>>
    BY <1>5 DEF n
  <2> QED
    BY <1>3, <1>4, <1>5, <2>1 DEF Joins, FlattenSeq, n
<1>6. CASE n # 0
  <2> DEFINE g == [i \in 1..n |-> f[i]]
             h == CHOOSE x : IsFlat(x)
  <2>1. IsFlat(g)
    <3> SUFFICES ASSUME NEW i \in 1..n
                 PROVE  g[i] = IF i = 1 THEN seqs[i] ELSE g[i - 1] \o seqs[i]
      OBVIOUS
    <3>1. CASE i = 1
      <4>1. f[1] = <<>> \o seqs[1]
        <5>1. 1 - 1 = 0 /\ 1 \in 1..n
          BY <3>1
        <5> QED
          BY <1>3, <1>4, <5>1
      <4> QED
        BY <1>1, <3>1, <4>1, ConcatEmptySeq
    <3>2. CASE i # 1
      <4>1. i - 1 \in 1..n
        BY <1>1, <3>2
      <4> QED
        BY <1>4, <3>2, <4>1
    <3> QED
      BY <3>1, <3>2
  <2>2. IsFlat(h)
    <3> HIDE DEF IsFlat, g
    <3> QED
      BY <2>1, Zenon
  <2> HIDE DEF h
  <2>3. \A i \in 1..n : h[i] = IF i = 1 THEN seqs[i] ELSE h[i - 1] \o seqs[i]
    BY <2>2
  <2> DEFINE S == {k \in 0..n : k = 0 \/ h[k] = f[k]}
  <2>4. \A k \in 0..n : k \in S
    <3>1. ASSUME NEW k \in 0..(n - 1), k \in S PROVE k + 1 \in S
      <4>1. k + 1 \in 1..n /\ k + 1 - 1 = k
        BY <1>1
      <4> DEFINE i == k + 1
      <4> HIDE DEF i
      <4>5. i \in 1..n /\ i - 1 = k
        BY <4>1 DEF i
      <4>2. f[i] = f[k] \o seqs[i]
        BY <1>4, <4>5
      <4>6. h[i] = IF i = 1 THEN seqs[i] ELSE h[k] \o seqs[i]
        BY <2>3, <4>5
      <4>3. CASE k = 0
        <5>1. i = 1 /\ f[k] = <<>> /\ seqs[i] \in Seq(A)
          BY <1>1, <1>3, <4>3, <4>5 DEF i
        <5>2. h[i] = f[i]
          BY <4>2, <4>6, <5>1, ConcatEmptySeq
        <5> QED
          BY <4>5, <5>2 DEF i
      <4>4. CASE k # 0
        <5>1. k + 1 # 1 /\ h[k] = f[k]
          BY <3>1, <4>4
        <5>2. h[i] = f[i]
          BY <4>2, <4>6, <5>1 DEF i
        <5> QED
          BY <4>5, <5>2 DEF i
      <4> QED
        BY <4>3, <4>4
    <3>2. 0 \in S
      BY <1>1
    <3> HIDE DEF S
    <3> QED
      BY <1>1, <3>1, <3>2, UpTo
  <2>5. h[n] = f[n]
    BY <1>1, <1>6, <2>4
  <2>6. FlattenSeq(seqs) = h[n]
    BY <1>6 DEF FlattenSeq, h, n
  <2> QED
    BY <1>3, <1>4, <2>5, <2>6 DEF Joins, n
<1> QED
  BY <1>5, <1>6

\* One more sequence is joined at the end.
LEMMA JoinsLast ==
  ASSUME NEW A, NEW seqs \in Seq(Seq(A)), NEW last \in Seq(A)
  PROVE  FlattenSeq(Append(seqs, last)) = FlattenSeq(seqs) \o last /\ FlattenSeq(seqs) \in Seq(A)
<1> DEFINE n == Len(seqs)
           longer == Append(seqs, last)
<1>1. /\ longer \in Seq(Seq(A)) /\ Len(longer) = n + 1 /\ longer[n + 1] = last
      /\ \A i \in 1..n : longer[i] = seqs[i]
  OBVIOUS
<1>2. n \in Nat /\ n + 1 \in Nat
  OBVIOUS
<1> HIDE DEF longer
<1>3. PICK f : Joins(f, A, seqs)
  BY Flattened
<1>4. PICK g : Joins(g, A, longer)
  BY <1>1, Flattened
<1>5. /\ f \in [0..n -> Seq(A)] /\ f[0] = <<>> /\ FlattenSeq(seqs) = f[n]
      /\ \A i \in 1..n : f[i] = f[i - 1] \o seqs[i]
  BY <1>3 DEF Joins
<1>6. /\ g[0] = <<>> /\ FlattenSeq(longer) = g[n + 1]
      /\ \A i \in 1..(n + 1) : g[i] = g[i - 1] \o longer[i]
  BY <1>1, <1>4 DEF Joins
<1> HIDE DEF n
<1> DEFINE S == {k \in 0..n : f[k] = g[k]}
<1>7. 0 \in S
  BY <1>2, <1>5, <1>6
<1>8. ASSUME NEW k \in 0..(n - 1), k \in S PROVE k + 1 \in S
  <2> DEFINE i == k + 1
  <2>1. i \in 1..n /\ i \in 1..(n + 1) /\ i \in 0..n /\ i - 1 = k
    BY <1>2
  <2> HIDE DEF i
  <2>2. f[i] = f[k] \o seqs[i] /\ g[i] = g[k] \o seqs[i]
    BY <1>1, <1>5, <1>6, <2>1
  <2>3. f[k] = g[k]
    BY <1>8
  <2> QED
    BY <2>1, <2>2, <2>3 DEF i
<1>9. n \in S
  <2> HIDE DEF S
  <2>1. \A k \in 0..(n - 1) : k \in S => k + 1 \in S
    BY <1>8
  <2>2. \A k \in 0..n : k \in S
    BY <1>2, <1>7, <2>1, UpTo
  <2> QED
    BY <1>2, <2>2
<1>10. g[n + 1] = g[n] \o last
  <2> DEFINE i == n + 1
  <2>1. i \in 1..(n + 1) /\ i - 1 = n
    BY <1>2
  <2>2. longer[i] = last
    BY <1>1
  <2> HIDE DEF i
  <2>3. g[i] = g[n] \o last
    BY <1>6, <2>1, <2>2
  <2> QED
    BY <2>3 DEF i
<1>11. f[n] = g[n] /\ f[n] \in Seq(A)
  BY <1>2, <1>5, <1>9
<1> QED
  BY <1>5, <1>6, <1>10, <1>11 DEF longer

\* The last sequence may as well be longer.
LEMMA JoinsLonger ==
  ASSUME NEW A, NEW seqs \in Seq(Seq(A)), NEW more \in Seq(A), NEW n, n = Len(seqs), n > 0
  PROVE  FlattenSeq([seqs EXCEPT ![n] = seqs[n] \o more]) = FlattenSeq(seqs) \o more
<1> DEFINE front == SubSeq(seqs, 1, n - 1)
           last == seqs[n]
           longer == [seqs EXCEPT ![n] = last \o more]
<1>1. n \in Nat /\ DOMAIN seqs = 1..n /\ last \in Seq(A)
  OBVIOUS
<1>2. last \o more \in Seq(A)
  BY <1>1, ConcatProperties
<1>3. front \in Seq(Seq(A)) /\ Len(front) = n - 1 /\ \A i \in 1..(n - 1) : front[i] = seqs[i]
  BY <1>1, SubSeqProperties
<1> HIDE DEF front, last
<1>4. seqs = Append(front, last)
  <2>1. Append(front, last) \in Seq(Seq(A)) /\ Len(Append(front, last)) = n
    BY <1>1, <1>3
  <2>2. \A i \in 1..n : seqs[i] = Append(front, last)[i]
    BY <1>1, <1>3 DEF last
  <2> QED
    BY <2>1, <2>2, SeqEqual
<1>5. longer = Append(front, last \o more)
  <2>1. /\ longer \in Seq(Seq(A)) /\ Len(longer) = n
        /\ \A i \in 1..n : longer[i] = IF i = n THEN last \o more ELSE seqs[i]
    BY <1>1, <1>2, ExceptSeq
  <2> DEFINE end == last \o more
  <2>2. end \in Seq(A)
    BY <1>2
  <2> HIDE DEF end, longer
  <2>3. Append(front, end) \in Seq(Seq(A)) /\ Len(Append(front, end)) = n
    <3>1. n - 1 + 1 = n
      BY <1>1
    <3> QED
      BY <1>3, <2>2, <3>1, AppendProperties
  <2>4. \A i \in 1..n : Append(front, end)[i] = IF i = n THEN end ELSE seqs[i]
    BY <1>1, <1>3, <2>2
  <2>5. \A i \in 1..n : longer[i] = Append(front, end)[i]
    BY <2>1, <2>4 DEF end
  <2>6. longer = Append(front, end)
    BY <2>1, <2>3, <2>5, SeqEqual
  <2> QED
    BY <2>6 DEF end
<1>6. FlattenSeq(seqs) = FlattenSeq(front) \o last /\ FlattenSeq(front) \in Seq(A)
  BY <1>1, <1>3, <1>4, JoinsLast
<1>7. FlattenSeq(longer) = FlattenSeq(front) \o (last \o more)
  <2> DEFINE end == last \o more
  <2>1. end \in Seq(A) /\ longer = Append(front, end)
    BY <1>2, <1>5
  <2> HIDE DEF end, longer
  <2>2. FlattenSeq(Append(front, end)) = FlattenSeq(front) \o end
    BY <1>3, <2>1, JoinsLast
  <2> QED
    BY <2>1, <2>2 DEF end
<1>8. FlattenSeq(front) \o (last \o more) = (FlattenSeq(front) \o last) \o more
  <2> DEFINE first == FlattenSeq(front)
  <2>1. first \in Seq(A) /\ last \in Seq(A)
    BY <1>1, <1>6 DEF last
  <2> HIDE DEF first
  <2>2. (first \o last) \o more = first \o (last \o more)
    BY <2>1, ConcatAssociative
  <2> QED
    BY <2>2 DEF first
<1> QED
  BY <1>6, <1>7, <1>8 DEF longer, last

\* A sequence is how another one starts.
Starts(s, t) == Len(s) <= Len(t) /\ \A p \in 1..Len(s) : t[p] = s[p]

\* What was joined stays as more is joined.
LEMMA JoinsPrefix ==
  ASSUME NEW A, NEW seqs \in Seq(Seq(A)), NEW f, Joins(f, A, seqs), NEW n, n = Len(seqs), NEW i \in 0..n
  PROVE  Starts(f[i], f[n])
<1>1. /\ n \in Nat /\ f \in [0..n -> Seq(A)] /\ \A k \in 1..n : seqs[k] \in Seq(A)
      /\ \A k \in 1..n : f[k] = f[k - 1] \o seqs[k]
  BY DEF Joins
<1>2. f[i] \in Seq(A) /\ Len(f[i]) \in Nat
  BY <1>1
<1> DEFINE Keeps(m) == Len(f[i]) <= Len(f[m]) /\ \A p \in 1..Len(f[i]) : f[m][p] = f[i][p]
           S == {m \in 0..n : i <= m => Keeps(m)}
<1>3. 0 \in S
  <2>1. 0 \in 0..n /\ (i <= 0 => i = 0)
    BY <1>1
  <2> QED
    BY <1>2, <2>1
<1>4. ASSUME NEW m \in 0..(n - 1), m \in S PROVE m + 1 \in S
  <2> DEFINE k == m + 1
  <2>1. k \in 1..n /\ k \in 0..n /\ k - 1 = m /\ m \in 0..n
    BY <1>1
  <2> SUFFICES ASSUME i <= k PROVE Keeps(k)
    BY <2>1
  <2>2. CASE i = k
    BY <1>2, <2>2
  <2>3. CASE i # k
    <3>1. i <= m
      BY <1>1, <2>3
    <3> HIDE DEF k
    <3> DEFINE s == f[m]
               t == seqs[k]
    <3>2. f[k] = s \o t /\ s \in Seq(A) /\ t \in Seq(A)
      BY <1>1, <2>1
    <3>3. Len(f[i]) <= Len(s) /\ \A p \in 1..Len(f[i]) : s[p] = f[i][p]
      BY <1>4, <3>1
    <3> HIDE DEF s, t
    <3>4. /\ Len(s) \in Nat /\ Len(t) \in Nat /\ Len(s \o t) = Len(s) + Len(t)
          /\ \A p \in 1..(Len(s) + Len(t)) : (s \o t)[p] = IF p <= Len(s) THEN s[p] ELSE t[p - Len(s)]
      BY <3>2, ConcatProperties
    <3>5. \A p \in 1..Len(f[i]) : p \in 1..(Len(s) + Len(t)) /\ p <= Len(s)
      BY <1>2, <3>3, <3>4
    <3>6. \A p \in 1..Len(f[i]) : (s \o t)[p] = f[i][p]
      BY <3>3, <3>4, <3>5
    <3>7. Len(f[i]) <= Len(s \o t)
      BY <1>2, <3>3, <3>4
    <3> QED
      BY <3>2, <3>6, <3>7
  <2> QED
    BY <2>2, <2>3
<1>5. n \in S
  <2> HIDE DEF S
  <2>1. \A m \in 0..(n - 1) : m \in S => m + 1 \in S
    BY <1>4
  <2>2. \A m \in 0..n : m \in S
    BY <1>1, <1>3, <2>1, UpTo
  <2> QED
    BY <1>1, <2>2
<1> QED
  BY <1>5 DEF Starts

\* Where the sequences are that were joined.
IsAt(f, s, n, i) ==
    /\ Len(f[i - 1]) \in Nat /\ Len(f[i]) = Len(f[i - 1]) + Len(s) /\ Len(f[i]) <= Len(f[n])
    /\ \A p \in 1..Len(s) : f[n][Len(f[i - 1]) + p] = s[p]

LEMMA JoinsAt ==
  ASSUME NEW A, NEW seqs \in Seq(Seq(A)), NEW f, Joins(f, A, seqs), NEW n, n = Len(seqs), NEW i \in 1..n
  PROVE  IsAt(f, seqs[i], n, i)
<1> DEFINE s == f[i - 1]
           t == seqs[i]
<1>1. s \in Seq(A) /\ t \in Seq(A) /\ f[i] = s \o t /\ i \in 0..n
  <2>1. n \in Nat
    OBVIOUS
  <2>2. i \in 0..n /\ i - 1 \in 0..n
    BY <2>1
  <2>3. /\ f \in [0..n -> Seq(A)] /\ \A k \in 1..n : f[k] = f[k - 1] \o seqs[k]
    BY DEF Joins
  <2>4. seqs[i] \in Seq(A)
    OBVIOUS
  <2>5. f[i - 1] \in Seq(A) /\ f[i] = f[i - 1] \o seqs[i]
    BY <2>2, <2>3
  <2> QED
    BY <2>2, <2>4, <2>5
<1>2. Len(f[i]) <= Len(f[n]) /\ \A p \in 1..Len(f[i]) : f[n][p] = f[i][p]
  <2>1. Starts(f[i], f[n])
    BY <1>1, JoinsPrefix
  <2> QED
    BY <2>1 DEF Starts
<1> HIDE DEF s, t
<1>3. /\ Len(s) \in Nat /\ Len(t) \in Nat /\ Len(s \o t) = Len(s) + Len(t)
      /\ \A p \in 1..(Len(s) + Len(t)) : (s \o t)[p] = IF p <= Len(s) THEN s[p] ELSE t[p - Len(s)]
  BY <1>1, ConcatProperties
<1>4. ASSUME NEW p \in 1..Len(t) PROVE f[n][Len(s) + p] = t[p]
  <2> DEFINE q == Len(s) + p
  <2>1. q \in 1..(Len(s) + Len(t)) /\ ~(q <= Len(s)) /\ q - Len(s) = p
    BY <1>3
  <2> HIDE DEF q
  <2>2. f[n][q] = (s \o t)[q]
    BY <1>1, <1>2, <1>3, <2>1
  <2>3. (s \o t)[q] = t[p]
    BY <1>3, <2>1
  <2> QED
    BY <2>2, <2>3 DEF q
<1> QED
  BY <1>1, <1>2, <1>3, <1>4 DEF s, t, IsAt

-----------------------------------------------------------------------------
\* Every position of what was joined is one of a sequence that was joined.
ComesFrom(f, seqs, n, p) ==
    \E i \in 1..n : \E q \in 1..Len(seqs[i]) : p = Len(f[i - 1]) + q /\ f[n][p] = seqs[i][q]

LEMMA JoinsEvery ==
  ASSUME NEW A, NEW seqs \in Seq(Seq(A)), NEW f, Joins(f, A, seqs), NEW n, n = Len(seqs),
         NEW p \in 1..Len(f[n])
  PROVE  ComesFrom(f, seqs, n, p)
<1>0. n \in Nat /\ \A k \in 1..n : seqs[k] \in Seq(A)
  OBVIOUS
<1>1. f \in [0..n -> Seq(A)] /\ f[0] = <<>> /\ \A k \in 1..n : f[k] = f[k - 1] \o seqs[k]
  BY DEF Joins
<1> DEFINE S == {m \in 0..n : p > Len(f[m])}
<1>2. ASSUME \A i \in 1..n : ~(Len(f[i - 1]) < p /\ p <= Len(f[i])) PROVE FALSE
  <2>1. 0 \in S
    <3>1. Len(f[0]) = 0 /\ p > 0 /\ 0 \in 0..n
      BY <1>0, <1>1
    <3> QED
      BY <3>1
  <2>2. ASSUME NEW m \in 0..(n - 1), m \in S PROVE m + 1 \in S
    <3> DEFINE i == m + 1
    <3>1. i \in 1..n /\ i \in 0..n /\ i - 1 = m
      BY <1>0, <1>1
    <3> HIDE DEF i
    <3>2. Len(f[m]) < p
      BY <2>2
    <3>3. ~(p <= Len(f[i]))
      BY <1>2, <3>1, <3>2
    <3>4. Len(f[i]) \in Nat /\ p \in Int
      BY <1>0, <1>1, <3>1
    <3>5. p > Len(f[i])
      BY <3>3, <3>4
    <3> QED
      BY <3>1, <3>5 DEF i
  <2>3. n \in S
    <3> HIDE DEF S
    <3>1. \A k \in 0..(n - 1) : k \in S => k + 1 \in S
      BY <2>2
    <3>2. \A k \in 0..n : k \in S
      BY <1>0, <1>1, <2>1, <3>1, UpTo
    <3> QED
      BY <1>0, <1>1, <3>2
  <2>4. Len(f[n]) \in Nat /\ p \in 1..Len(f[n])
    BY <1>0, <1>1
  <2> QED
    BY <2>3, <2>4
<1>3. PICK i \in 1..n : Len(f[i - 1]) < p /\ p <= Len(f[i])
  BY <1>2
<1>4. IsAt(f, seqs[i], n, i)
  BY JoinsAt
<1> DEFINE a == Len(f[i - 1])
           b == Len(seqs[i])
           q == p - a
<1>5. a \in Nat /\ Len(f[i]) = a + b /\ \A r \in 1..b : f[n][a + r] = seqs[i][r]
  BY <1>4 DEF IsAt
<1>6. b \in Nat /\ p \in Nat
  BY <1>0, <1>1
<1>7. q \in 1..b /\ p = a + q
  <2> HIDE DEF a, b
  <2> QED
    BY <1>3, <1>5, <1>6 DEF a
<1> HIDE DEF q
<1>8. f[n][p] = seqs[i][q]
  BY <1>5, <1>7
<1> QED
  BY <1>7, <1>8 DEF ComesFrom

\* The elements of what was joined.
ElementsJoin(s, seqs) == ToSet(s) = UNION {ToSet(seqs[i]) : i \in 1..Len(seqs)}

LEMMA FlattenElements ==
  ASSUME NEW A, NEW seqs \in Seq(Seq(A))
  PROVE  FlattenSeq(seqs) \in Seq(A) /\ ElementsJoin(FlattenSeq(seqs), seqs)
<1> DEFINE n == Len(seqs)
<1>1. PICK f : Joins(f, A, seqs)
  BY Flattened
<1>0. n \in Nat /\ \A i \in 1..n : seqs[i] \in Seq(A)
  OBVIOUS
<1>2. f[n] = FlattenSeq(seqs) /\ f[n] \in Seq(A) /\ n \in Nat /\ \A i \in 1..n : seqs[i] \in Seq(A)
  <2>1. f \in [0..n -> Seq(A)] /\ f[n] = FlattenSeq(seqs)
    BY <1>1 DEF Joins
  <2> HIDE DEF n
  <2>2. n \in 0..n
    BY <1>0
  <2> QED
    BY <1>0, <2>1, <2>2
<1>3. \A i \in 1..n : DOMAIN seqs[i] = 1..Len(seqs[i])
  BY <1>2
<1>4. DOMAIN f[n] = 1..Len(f[n])
  BY <1>2
<1> HIDE DEF n
<1>5. n = Len(seqs)
  BY DEF n
<1>6. ASSUME NEW p \in DOMAIN f[n] PROVE \E i \in 1..n : f[n][p] \in ToSet(seqs[i])
  <2>1. ComesFrom(f, seqs, n, p)
    BY <1>1, <1>4, <1>5, JoinsEvery
  <2> QED
    BY <1>3, <2>1 DEF ComesFrom, ToSet
<1>7. ASSUME NEW i \in 1..n, NEW q \in DOMAIN seqs[i] PROVE seqs[i][q] \in ToSet(f[n])
  <2>1. IsAt(f, seqs[i], n, i)
    BY <1>1, <1>5, JoinsAt
  <2> DEFINE p == Len(f[i - 1]) + q
  <2>2. q \in 1..Len(seqs[i]) /\ Len(seqs[i]) \in Nat /\ Len(f[n]) \in Nat
    BY <1>2, <1>3
  <2>5. Len(f[i - 1]) \in Nat /\ Len(f[i]) = Len(f[i - 1]) + Len(seqs[i]) /\ Len(f[i]) <= Len(f[n])
    BY <2>1 DEF IsAt
  <2>3. p \in 1..Len(f[n])
    <3> DEFINE a == Len(f[i - 1])
               b == Len(seqs[i])
               c == Len(f[n])
               d == Len(f[i])
    <3>1. a \in Nat /\ b \in Nat /\ c \in Nat /\ d = a + b /\ d <= c /\ q \in 1..b /\ p = a + q
      BY <2>2, <2>5
    <3> HIDE DEF a, b, c, d, p
    <3>2. p \in 1..c
      BY <3>1
    <3> QED
      BY <3>2 DEF c
  <2>4. f[n][p] = seqs[i][q]
    BY <2>1, <2>2 DEF IsAt
  <2> QED
    BY <1>4, <2>3, <2>4 DEF ToSet
<1>8. ToSet(f[n]) = UNION {ToSet(seqs[i]) : i \in 1..n}
  BY <1>6, <1>7 DEF ToSet
<1> QED
  BY <1>2, <1>5, <1>8 DEF ElementsJoin

\* Sequences without repetitions that have nothing in common are joined without repetitions.
Disjoint(seqs) ==
    /\ \A i \in 1..Len(seqs) : IsInjective(seqs[i])
    /\ \A i, j \in 1..Len(seqs) : i # j => ToSet(seqs[i]) \cap ToSet(seqs[j]) = {}

LEMMA FlattenInjective ==
  ASSUME NEW A, NEW seqs \in Seq(Seq(A)), Disjoint(seqs)
  PROVE  IsInjective(FlattenSeq(seqs))
<1> DEFINE n == Len(seqs)
<1>1. PICK f : Joins(f, A, seqs)
  BY Flattened
<1>0. n \in Nat /\ \A i \in 1..n : seqs[i] \in Seq(A)
  OBVIOUS
<1>2. f[n] = FlattenSeq(seqs) /\ f[n] \in Seq(A) /\ n \in Nat /\ \A i \in 1..n : seqs[i] \in Seq(A)
  <2>1. f \in [0..n -> Seq(A)] /\ f[n] = FlattenSeq(seqs)
    BY <1>1 DEF Joins
  <2> HIDE DEF n
  <2>2. n \in 0..n
    BY <1>0
  <2> QED
    BY <1>0, <2>1, <2>2
<1>3. DOMAIN f[n] = 1..Len(f[n]) /\ \A i \in 1..n : DOMAIN seqs[i] = 1..Len(seqs[i])
  BY <1>2
<1>4. /\ \A i \in 1..n : IsInjective(seqs[i])
      /\ \A i, j \in 1..n : i # j => ToSet(seqs[i]) \cap ToSet(seqs[j]) = {}
  BY DEF Disjoint
<1> HIDE DEF n
<1>5. n = Len(seqs)
  BY DEF n
<1> SUFFICES ASSUME NEW p \in DOMAIN f[n], NEW r \in DOMAIN f[n], f[n][p] = f[n][r] PROVE p = r
  BY <1>2 DEF IsInjective
<1>6. PICK i \in 1..n : \E q \in 1..Len(seqs[i]) : p = Len(f[i - 1]) + q /\ f[n][p] = seqs[i][q]
  <2>1. ComesFrom(f, seqs, n, p)
    BY <1>1, <1>3, <1>5, JoinsEvery
  <2> QED
    BY <2>1 DEF ComesFrom
<1>7. PICK j \in 1..n : \E t \in 1..Len(seqs[j]) : r = Len(f[j - 1]) + t /\ f[n][r] = seqs[j][t]
  <2>1. ComesFrom(f, seqs, n, r)
    BY <1>1, <1>3, <1>5, JoinsEvery
  <2> QED
    BY <2>1 DEF ComesFrom
<1>8. PICK q \in 1..Len(seqs[i]) : p = Len(f[i - 1]) + q /\ f[n][p] = seqs[i][q]
  BY <1>6
<1>9. PICK t \in 1..Len(seqs[j]) : r = Len(f[j - 1]) + t /\ f[n][r] = seqs[j][t]
  BY <1>7
<1>10. i = j
  <2>1. seqs[i][q] \in ToSet(seqs[i]) /\ seqs[j][t] \in ToSet(seqs[j])
    BY <1>3 DEF ToSet
  <2> QED
    BY <1>4, <1>8, <1>9, <2>1
<1>11. q = t
  BY <1>3, <1>4, <1>8, <1>9, <1>10 DEF IsInjective
<1> QED
  BY <1>8, <1>9, <1>10, <1>11

-----------------------------------------------------------------------------
\* A sequence that has each element of a set once, and no other.
Enumerates(s, S) == ToSet(s) = S /\ IsInjective(s)

LEMMA OneOrNone ==
  ASSUME NEW x
  PROVE  Enumerates(<<x>>, {x}) /\ Enumerates(<<>>, {})
<1>1. DOMAIN <<x>> = {1} /\ <<x>>[1] = x
  OBVIOUS
<1> DEFINE t == <<x>>
<1> HIDE DEF t
<1>2. DOMAIN t = {1} /\ t[1] = x
  BY <1>1 DEF t
<1>3. Enumerates(t, {x})
  BY <1>2 DEF Enumerates, ToSet, IsInjective
<1>4. DOMAIN <<>> = {}
  OBVIOUS
<1> DEFINE e == <<>>
<1> HIDE DEF e
<1>5. DOMAIN e = {}
  BY <1>4 DEF e
<1>6. Enumerates(e, {})
  BY <1>5 DEF Enumerates, ToSet, IsInjective
<1> QED
  BY <1>3, <1>6 DEF t, e

Joint(sets, n) == UNION {sets[i] : i \in 1..n}
EachEnumerates(seqs, sets) ==
    /\ \A i \in 1..Len(seqs) : Enumerates(seqs[i], sets[i])
    /\ \A i, j \in 1..Len(seqs) : i # j => sets[i] \cap sets[j] = {}

LEMMA FlattenIs ==
  ASSUME NEW A, NEW seqs \in Seq(Seq(A)), NEW sets, EachEnumerates(seqs, sets)
  PROVE  /\ FlattenSeq(seqs) \in Seq(A)
         /\ Enumerates(FlattenSeq(seqs), Joint(sets, Len(seqs)))
<1>0. \A i, j \in 1..Len(seqs) : i # j => sets[i] \cap sets[j] = {}
  BY DEF EachEnumerates
<1>1. FlattenSeq(seqs) \in Seq(A) /\ ToSet(FlattenSeq(seqs)) = UNION {ToSet(seqs[i]) : i \in 1..Len(seqs)}
  BY FlattenElements DEF ElementsJoin
<1>2. \A i \in 1..Len(seqs) : ToSet(seqs[i]) = sets[i] /\ IsInjective(seqs[i])
  BY DEF EachEnumerates, Enumerates
<1>3. UNION {ToSet(seqs[i]) : i \in 1..Len(seqs)} = Joint(sets, Len(seqs))
  BY <1>2 DEF Joint
<1>4. Disjoint(seqs)
  BY <1>0, <1>2 DEF Disjoint
<1>5. IsInjective(FlattenSeq(seqs))
  BY <1>4, FlattenInjective
<1> QED
  BY <1>1, <1>3, <1>5 DEF Enumerates

LEMMA JoinIs ==
  ASSUME NEW A, NEW s \in Seq(A), NEW t \in Seq(A), NEW S, NEW T,
         Enumerates(s, S), Enumerates(t, T), S \cap T = {}
  PROVE  s \o t \in Seq(A) /\ Enumerates(s \o t, S \cup T)
<1> DEFINE a == Len(s)
           b == Len(t)
           r == s \o t
<1>1. /\ r \in Seq(A) /\ a \in Nat /\ b \in Nat /\ Len(r) = a + b
      /\ \A p \in 1..(a + b) : r[p] = IF p <= a THEN s[p] ELSE t[p - a]
  BY ConcatProperties
<1>2. DOMAIN s = 1..a /\ DOMAIN t = 1..b /\ DOMAIN r = 1..(a + b)
  BY <1>1
<1>3. /\ S = {s[p] : p \in 1..a} /\ \A p, q \in 1..a : s[p] = s[q] => p = q
      /\ T = {t[p] : p \in 1..b} /\ \A p, q \in 1..b : t[p] = t[q] => p = q
  BY <1>2 DEF Enumerates, ToSet, IsInjective
<1> HIDE DEF a, b, r
<1>4. \A p \in 1..a : p \in 1..(a + b) /\ r[p] = s[p]
  BY <1>1
<1>5. ASSUME NEW p \in 1..b PROVE a + p \in 1..(a + b) /\ r[a + p] = t[p]
  <2> DEFINE q == a + p
  <2>1. q \in 1..(a + b) /\ ~(q <= a) /\ q - a = p
    BY <1>1
  <2> HIDE DEF q
  <2>2. r[q] = t[p]
    BY <1>1, <2>1
  <2> QED
    BY <2>1, <2>2 DEF q
<1>6. ASSUME NEW p \in 1..(a + b) PROVE p \in 1..a \/ \E q \in 1..b : p = a + q
  <2>1. CASE p <= a
    BY <1>1, <2>1
  <2>2. CASE ~(p <= a)
    <3>1. p - a \in 1..b /\ p = a + (p - a)
      BY <1>1, <2>2
    <3> QED
      BY <3>1
  <2> QED
    BY <2>1, <2>2
<1>7. {r[p] : p \in 1..(a + b)} = S \cup T
  BY <1>3, <1>4, <1>5, <1>6
<1>8. ASSUME NEW p \in 1..(a + b), NEW q \in 1..(a + b), r[p] = r[q] PROVE p = q
  <2>1. CASE p \in 1..a /\ q \in 1..a
    BY <1>3, <1>4, <1>8, <2>1
  <2>2. CASE p \in 1..a /\ q \notin 1..a
    <3>1. PICK u \in 1..b : q = a + u
      BY <1>6, <2>2
    <3>2. r[p] \in S /\ r[q] \in T
      BY <1>3, <1>4, <1>5, <2>2, <3>1
    <3> QED
      BY <1>8, <3>2
  <2>3. CASE p \notin 1..a /\ q \in 1..a
    <3>1. PICK u \in 1..b : p = a + u
      BY <1>6, <2>3
    <3>2. r[q] \in S /\ r[p] \in T
      BY <1>3, <1>4, <1>5, <2>3, <3>1
    <3> QED
      BY <1>8, <3>2
  <2>4. CASE p \notin 1..a /\ q \notin 1..a
    <3>1. PICK u \in 1..b : p = a + u
      BY <1>6, <2>4
    <3>2. PICK v \in 1..b : q = a + v
      BY <1>6, <2>4
    <3>3. t[u] = t[v]
      BY <1>5, <1>8, <3>1, <3>2
    <3> QED
      BY <1>3, <3>1, <3>2, <3>3
  <2> QED
    BY <2>1, <2>2, <2>3, <2>4
<1>9. DOMAIN r = 1..(a + b)
  BY <1>2 DEF a, b, r
<1>10. Enumerates(r, S \cup T)
  BY <1>7, <1>8, <1>9 DEF Enumerates, ToSet, IsInjective
<1> QED
  BY <1>1, <1>10 DEF r

\* Elements that are kept.
KeptIn(s, A, S, r) ==
    /\ r \in Seq(A) /\ ToSet(r) = ToSet(s) \cap S
    /\ IsInjective(s) => IsInjective(r)

LEMMA KeptIs ==
  ASSUME NEW A, NEW s \in Seq(A), NEW S
  PROVE  KeptIn(s, A, S, Filtered(s, S))
<1> DEFINE n == Len(s)
           seqs == [i \in DOMAIN s |-> IF s[i] \in S THEN <<s[i]>> ELSE <<>>]
<1>1. n \in Nat /\ DOMAIN s = 1..n /\ \A i \in 1..n : s[i] \in A
  OBVIOUS
<1>2. seqs \in Seq(Seq(A)) /\ Len(seqs) = n /\ DOMAIN seqs = 1..n
  <2>1. \A i \in 1..n : <<s[i]>> \in Seq(A) /\ <<>> \in Seq(A)
    BY <1>1
  <2>2. seqs \in [1..n -> Seq(A)]
    BY <1>1, <2>1
  <2> QED
    BY <1>1, <2>2, SeqDef
<1>3. \A i \in 1..n : seqs[i] = IF s[i] \in S THEN <<s[i]>> ELSE <<>>
  BY <1>1
<1> HIDE DEF seqs, n
<1>4. ASSUME NEW i \in 1..n PROVE Enumerates(seqs[i], {s[i]} \cap S)
  <2>1. CASE s[i] \in S
    <3>1. seqs[i] = <<s[i]>> /\ {s[i]} \cap S = {s[i]}
      BY <1>3, <2>1
    <3> QED
      BY <3>1, OneOrNone
  <2>2. CASE s[i] \notin S
    <3>1. seqs[i] = <<>> /\ {s[i]} \cap S = {}
      BY <1>3, <2>2
    <3> QED
      BY <3>1, OneOrNone
  <2> QED
    BY <2>1, <2>2
<1>5. Filtered(s, S) = FlattenSeq(seqs)
  BY DEF Filtered, seqs
<1>6. FlattenSeq(seqs) \in Seq(A) /\ ElementsJoin(FlattenSeq(seqs), seqs)
  BY <1>2, FlattenElements
<1>7. ToSet(FlattenSeq(seqs)) = ToSet(s) \cap S
  <2>1. ToSet(FlattenSeq(seqs)) = UNION {ToSet(seqs[i]) : i \in 1..n}
    BY <1>2, <1>6 DEF ElementsJoin
  <2>2. ToSet(s) = {s[i] : i \in 1..n}
    BY <1>1 DEF ToSet
  <2>3. \A i \in 1..n : ToSet(seqs[i]) = {s[i]} \cap S
    BY <1>4 DEF Enumerates
  <2> QED
    BY <2>1, <2>2, <2>3
<1>8. ASSUME IsInjective(s) PROVE IsInjective(FlattenSeq(seqs))
  <2>1. \A i \in 1..n : IsInjective(seqs[i])
    BY <1>4 DEF Enumerates
  <2>2. \A i, j \in 1..n : i # j => ToSet(seqs[i]) \cap ToSet(seqs[j]) = {}
    <3>1. \A i \in 1..n : ToSet(seqs[i]) \subseteq {s[i]}
      BY <1>4 DEF Enumerates
    <3>2. \A i, j \in 1..n : i # j => s[i] # s[j]
      BY <1>1, <1>8 DEF IsInjective
    <3> QED
      BY <3>1, <3>2
  <2>3. Disjoint(seqs)
    BY <1>2, <2>1, <2>2 DEF Disjoint
  <2> QED
    BY <1>2, <2>3, FlattenInjective
<1> QED
  BY <1>5, <1>6, <1>7, <1>8 DEF KeptIn

-----------------------------------------------------------------------------
\* Folds, as the community modules define them: by a function over sets of positions.
FoldsTo(h, T, n, a, step) ==
    /\ h \in [SUBSET (1..n) -> T]
    /\ \A P \in SUBSET (1..n) : h[P] = IF P = {} THEN a ELSE step[Max(P)][h[P \ {Max(P)}]]

\* A set of positions has a greatest one, which Max chooses.
LEMMA GreatestIsThere ==
  ASSUME NEW n \in Nat, NEW S \in SUBSET (1..n), S # {}
  PROVE  Max(S) \in S /\ \A y \in S : y <= Max(S)
<1> DEFINE T == {n + 1 - x : x \in S}
<1>1. T \in SUBSET (1..n) /\ T # {}
  <2>1. \A x \in S : n + 1 - x \in 1..n
    OBVIOUS
  <2>2. \A y \in T : y \in 1..n
    BY <2>1
  <2>3. PICK x \in S : TRUE
    OBVIOUS
  <2>4. n + 1 - x \in T
    OBVIOUS
  <2> QED
    BY <2>2, <2>4
<1>2. Min(T) \in T /\ \A y \in T : Min(T) <= y
  <2> HIDE DEF T
  <2> QED
    BY <1>1, LeastIsThere
<1>3. PICK x \in S : Min(T) = n + 1 - x
  BY <1>2
<1>4. \A y \in S : y <= x
  <2> SUFFICES ASSUME NEW y \in S
               PROVE  y <= x
    OBVIOUS
  <2>1. n + 1 - y \in T
    OBVIOUS
  <2>2. n + 1 - x <= n + 1 - y
    BY <1>2, <1>3, <2>1
  <2> QED
    BY <2>2
<1> QED
  BY <1>4 DEF Max

LEMMA GreatestIs ==
  ASSUME NEW n \in Nat, NEW P \in SUBSET (1..n), NEW x \in P, \A y \in P : x >= y
  PROVE  Max(P) = x
<1>1. Max(P) \in P /\ \A y \in P : y <= Max(P)
  BY GreatestIsThere
<1> DEFINE y == Max(P)
<1> HIDE DEF y
<1>3. y \in P /\ \A z \in P : z <= y
  BY <1>1 DEF y
<1>2. y >= x /\ x >= y /\ y \in Int /\ x \in Int
  BY <1>3
<1> QED
  BY <1>2 DEF y

LEMMA FoldIs ==
  ASSUME NEW n \in Nat, NEW T, NEW a \in T, NEW step \in StepsOn(T, n)
  PROVE  \E h : FoldsTo(h, T, n, a, step)
<1> DEFINE Folds(m, h) == \A P \in SUBSET (1..m) : h[P] = IF P = {} THEN a ELSE step[Max(P)][h[P \ {Max(P)}]]
           S == {m \in 0..n : \E h \in [SUBSET (1..m) -> T] : Folds(m, h)}
<1>1. 0 \in S
  <2> DEFINE h == [P \in SUBSET (1..0) |-> a]
  <2>1. h \in [SUBSET (1..0) -> T] /\ \A P \in SUBSET (1..0) : P = {} /\ h[P] = a
    OBVIOUS
  <2>2. Folds(0, h) /\ 0 \in 0..n
    BY <2>1
  <2> HIDE DEF Folds, h
  <2> QED
    BY <2>1, <2>2
<1>2. ASSUME NEW m \in 0..(n - 1), m \in S PROVE m + 1 \in S
  <2>1. PICK g \in [SUBSET (1..m) -> T] : Folds(m, g)
    BY <1>2
  <2> DEFINE i == m + 1
  <2>2. i \in 1..n /\ i \in 0..n /\ i \in Nat /\ m \in Nat /\ i = m + 1
    OBVIOUS
  <2> HIDE DEF i
  <2>3. /\ \A P \in SUBSET (1..i) : P \ {i} \in SUBSET (1..m)
        /\ \A P \in SUBSET (1..i) : i \notin P => P \in SUBSET (1..m)
    <3>1. \A x \in 1..i : x # i => x \in 1..m
      BY <2>2
    <3> QED
      BY <3>1
  <2>4. step[i] \in [T -> T]
    BY <2>2 DEF StepsOn
  <2> DEFINE h == [P \in SUBSET (1..i) |-> IF i \in P THEN step[i][g[P \ {i}]] ELSE g[P]]
  <2>5. h \in [SUBSET (1..i) -> T]
    BY <2>1, <2>3, <2>4
  <2>6. ASSUME NEW P \in SUBSET (1..i)
        PROVE  h[P] = IF P = {} THEN a ELSE step[Max(P)][h[P \ {Max(P)}]]
    <3>1. CASE i \in P
      <4>1. \A y \in P : i >= y
        BY <2>2
      <4>2. Max(P) = i
        BY <2>2, <3>1, <4>1, GreatestIs
      <4>3. h[P] = step[i][g[P \ {i}]]
        BY <3>1
      <4>4. h[P \ {i}] = g[P \ {i}]
        OBVIOUS
      <4> HIDE DEF h
      <4> QED
        BY <3>1, <4>2, <4>3, <4>4
    <3>2. CASE i \notin P /\ P # {}
      <4>1. P \in SUBSET (1..m)
        BY <2>3, <3>2
      <4>2. Max(P) \in P
        BY <2>2, <3>2, GreatestIsThere
      <4>3. h[P] = g[P] /\ h[P \ {Max(P)}] = g[P \ {Max(P)}]
        BY <3>2
      <4>4. g[P] = step[Max(P)][g[P \ {Max(P)}]]
        BY <2>1, <3>2, <4>1
      <4> HIDE DEF h
      <4> QED
        BY <3>2, <4>3, <4>4
    <3>3. CASE P = {}
      <4>1. h[P] = g[P] /\ P \in SUBSET (1..m)
        BY <3>3
      <4>2. g[P] = a
        BY <2>1, <3>3, <4>1
      <4> HIDE DEF h
      <4> QED
        BY <3>3, <4>1, <4>2
    <3> QED
      BY <3>1, <3>2, <3>3
  <2> HIDE DEF h
  <2>7. Folds(i, h)
    BY <2>6
  <2> HIDE DEF Folds
  <2> QED
    BY <2>2, <2>5, <2>7
<1>3. n \in S
  <2> HIDE DEF S
  <2>1. \A k \in 0..(n - 1) : k \in S => k + 1 \in S
    BY <1>2
  <2>2. \A k \in 0..n : k \in S
    BY <1>1, <2>1, UpTo
  <2> QED
    BY <2>2
<1> QED
  BY <1>3 DEF FoldsTo

\* The sets of positions a fold is about.
FirstOnes(k) == Max(1..k) = k /\ (1..k) \ {k} = 1..(k - 1) /\ 1..k # {}

LEMMA FirstPositions ==
  ASSUME NEW n \in Nat, NEW k \in 1..n
  PROVE  FirstOnes(k) /\ 1..k \in SUBSET (1..n) /\ 1..(k - 1) \in SUBSET (1..n)
<1>1. 1..k \in SUBSET (1..n) /\ k \in 1..k /\ \A y \in 1..k : k >= y
  OBVIOUS
<1>2. Max(1..k) = k
  BY <1>1, GreatestIs
<1>3. (1..k) \ {k} = 1..(k - 1)
  OBVIOUS
<1> QED
  BY <1>1, <1>2, <1>3 DEF FirstOnes

-----------------------------------------------------------------------------
\* Prefixes, name by name.
LEMMA PrefixIs ==
  ASSUME NEW A, NEW s \in Seq(A), NEW t \in Seq(A)
  PROVE  /\ IsPrefix(s, t) <=> Starts(s, t)
         /\ IsStrictPrefix(s, t) <=> Starts(s, t) /\ Len(s) < Len(t)
<1> DEFINE m == Len(s)
           n == Len(t)
           u == SubSeq(t, 1, m)
<1>1. m \in Nat /\ n \in Nat
  OBVIOUS
<1>2. SubSeq(s, 1, m) = s
  OBVIOUS
<1>3. ASSUME m <= n PROVE u \in Seq(A) /\ Len(u) = m /\ \A p \in 1..m : u[p] = t[p]
  BY <1>1, <1>3, SubSeqProperties
<1>4. ASSUME m <= n PROVE s = u <=> \A p \in 1..m : t[p] = s[p]
  <2> HIDE DEF u
  <2>1. ASSUME \A p \in 1..m : t[p] = s[p] PROVE s = u
    <3>1. \A p \in 1..Len(s) : s[p] = u[p]
      BY <1>3, <1>4, <2>1
    <3>2. Len(s) = Len(u) /\ u \in Seq(A)
      BY <1>3, <1>4
    <3> QED
      BY <3>1, <3>2, SeqEqual
  <2> QED
    BY <1>3, <1>4, <2>1
<1>5. IsPrefix(s, t) <=> Starts(s, t)
  <2> HIDE DEF u
  <2>1. IsPrefix(s, t) <=> m <= n /\ s = u
    BY <1>2 DEF IsPrefix, u
  <2> QED
    BY <1>4, <2>1 DEF Starts
<1>6. Starts(s, t) => (s # t <=> m < n)
  <2> SUFFICES ASSUME Starts(s, t) PROVE s # t <=> m < n
    OBVIOUS
  <2>1. m <= n /\ \A p \in 1..m : t[p] = s[p]
    BY DEF Starts
  <2>2. CASE m = n
    <3>1. s = t
      BY <2>1, <2>2, SeqEqual
    <3> QED
      BY <1>1, <2>2, <3>1
  <2>3. CASE m # n
    BY <1>1, <2>1, <2>3
  <2> QED
    BY <2>2, <2>3
<1> QED
  BY <1>5, <1>6 DEF IsStrictPrefix

\* Of two ways one sequence starts, the shorter is how the longer one starts.
LEMMA BothStart ==
  ASSUME NEW A, NEW s \in Seq(A), NEW t \in Seq(A), NEW u, Starts(s, u), Starts(t, u), Len(s) <= Len(t)
  PROVE  Starts(s, t)
<1>1. Len(s) \in Nat /\ Len(t) \in Nat
  OBVIOUS
<1>2. \A p \in 1..Len(s) : p \in 1..Len(t)
  BY <1>1
<1> QED
  BY <1>1, <1>2 DEF Starts

LEMMA StartsOn ==
  ASSUME NEW A, NEW s \in Seq(A), NEW t \in Seq(A), NEW u \in Seq(A), Starts(s, t), Starts(t, u)
  PROVE  Starts(s, u)
<1>1. Len(s) \in Nat /\ Len(t) \in Nat /\ Len(u) \in Nat
  OBVIOUS
<1>2. \A p \in 1..Len(s) : p \in 1..Len(t)
  BY <1>1 DEF Starts
<1> QED
  BY <1>1, <1>2 DEF Starts

\* The first elements of a sequence, and the rest.
LEMMA FirstAndRest ==
  ASSUME NEW A, NEW s \in Seq(A), NEW n \in 0..Len(s)
  PROVE  /\ SubSeq(s, 1, n) \in Seq(A) /\ Len(SubSeq(s, 1, n)) = n /\ Starts(SubSeq(s, 1, n), s)
         /\ SubSeq(s, n + 1, Len(s)) \in Seq(A) /\ Len(SubSeq(s, n + 1, Len(s))) = Len(s) - n
         /\ \A p \in 1..(Len(s) - n) : SubSeq(s, n + 1, Len(s))[p] = s[n + p]
<1> DEFINE m == Len(s)
           u == SubSeq(s, 1, n)
           v == SubSeq(s, n + 1, m)
<1>1. m \in Nat /\ n \in Nat /\ n <= m
  OBVIOUS
<1>2. u \in Seq(A) /\ Len(u) = n /\ \A p \in 1..n : u[p] = s[p]
  BY <1>1, SubSeqProperties
<1>3. v \in Seq(A) /\ Len(v) = m - n /\ \A p \in 1..(m - n) : v[p] = s[n + p]
  <2> DEFINE a == n + 1
  <2>1. a \in 1..(m + 1) /\ m \in (a - 1)..m /\ m - a + 1 = m - n
    BY <1>1
  <2> HIDE DEF m
  <2>4. m = Len(s)
    BY DEF m
  <2> HIDE DEF a
  <2> DEFINE w == SubSeq(s, a, m)
  <2>2. /\ w \in Seq(A) /\ Len(w) = (IF a <= m THEN m - a + 1 ELSE 0)
        /\ \A p \in 1..(m - a + 1) : w[p] = s[a + p - 1]
    BY <1>1, <2>1, <2>4, SubSeqProperties
  <2> HIDE DEF w
  <2>3. (IF a <= m THEN m - a + 1 ELSE 0) = m - n /\ \A p \in 1..(m - n) : a + p - 1 = n + p
    BY <1>1, <2>1 DEF a
  <2> QED
    BY <2>1, <2>2, <2>3 DEF w, a
<1>4. Starts(u, s)
  <2> HIDE DEF u
  <2> QED
    BY <1>1, <1>2 DEF Starts
<1> QED
  BY <1>2, <1>3, <1>4

\* s \o t starts u, if s does and t starts the rest.
LEMMA JoinedStarts ==
  ASSUME NEW A, NEW s \in Seq(A), NEW t \in Seq(A), NEW u \in Seq(A)
  PROVE  Starts(s \o t, u) <=> Starts(s, u) /\ Starts(t, SubSeq(u, Len(s) + 1, Len(u)))
<1> DEFINE a == Len(s)
           b == Len(t)
           c == Len(u)
           r == s \o t
           v == SubSeq(u, a + 1, c)
<1>1. a \in Nat /\ b \in Nat /\ c \in Nat
  OBVIOUS
<1>2. r \in Seq(A) /\ Len(r) = a + b /\ \A p \in 1..(a + b) : r[p] = IF p <= a THEN s[p] ELSE t[p - a]
  BY ConcatProperties
<1>3. ASSUME a <= c PROVE Len(v) = c - a /\ \A p \in 1..(c - a) : v[p] = u[a + p]
  <2>1. a \in 0..c
    BY <1>1, <1>3
  <2> QED
    BY <2>1, FirstAndRest
<1> HIDE DEF r, v
<1>4. ASSUME Starts(r, u) PROVE Starts(s, u) /\ Starts(t, v)
  <2>1. a + b <= c /\ \A p \in 1..(a + b) : u[p] = r[p]
    BY <1>2, <1>4 DEF Starts
  <2>2. a <= c /\ b <= c - a
    BY <1>1, <2>1
  <2> HIDE DEF a, b, c
  <2>3. \A p \in 1..a : p \in 1..(a + b) /\ p <= a
    BY <1>1
  <2>4. \A p \in 1..a : u[p] = s[p]
    BY <1>2, <2>1, <2>3
  <2>5. ASSUME NEW p \in 1..b PROVE v[p] = t[p]
    <3> DEFINE q == a + p
    <3>1. q \in 1..(a + b) /\ ~(q <= a) /\ q - a = p /\ p \in 1..(c - a)
      BY <1>1, <2>2
    <3> HIDE DEF q
    <3>2. r[q] = t[p] /\ u[q] = r[q]
      BY <1>2, <2>1, <3>1
    <3> QED
      BY <1>3, <2>2, <3>1, <3>2 DEF q
  <2>6. a = Len(s) /\ b = Len(t) /\ c = Len(u)
    BY DEF a, b, c
  <2> QED
    BY <1>3, <2>2, <2>4, <2>5, <2>6 DEF Starts
<1>5. ASSUME Starts(s, u), Starts(t, v) PROVE Starts(r, u)
  <2>1. a <= c /\ \A p \in 1..a : u[p] = s[p]
    BY <1>5 DEF Starts
  <2>2. b <= c - a /\ \A p \in 1..b : v[p] = t[p]
    BY <1>3, <1>5, <2>1 DEF Starts
  <2>6. a = Len(s) /\ b = Len(t) /\ c = Len(u) /\ Len(r) = a + b
    BY <1>2
  <2> HIDE DEF a, b, c
  <2>3. ASSUME NEW p \in 1..(a + b) PROVE u[p] = r[p]
    <3>1. CASE p <= a
      <4>1. p \in 1..a
        BY <1>1, <3>1
      <4> QED
        BY <1>2, <2>1, <3>1, <4>1
    <3>2. CASE ~(p <= a)
      <4> DEFINE q == p - a
      <4>1. q \in 1..b /\ q \in 1..(c - a) /\ a + q = p
        BY <1>1, <2>2, <3>2
      <4> HIDE DEF q
      <4>2. u[a + q] = v[q]
        BY <1>3, <2>1, <4>1
      <4>3. r[p] = t[q]
        BY <1>2, <3>2 DEF q
      <4> QED
        BY <2>2, <4>1, <4>2, <4>3
    <3> QED
      BY <3>1, <3>2
  <2>4. a + b <= c
    BY <1>1, <2>1, <2>2
  <2> QED
    BY <2>3, <2>4, <2>6 DEF Starts
<1> QED
  BY <1>4, <1>5 DEF r, v

-----------------------------------------------------------------------------
\* A sequence with an element of N and, after it, only elements of H.
EndsOut(s, N, H) == \E i \in 1..Len(s) : s[i] \in N /\ \A j \in (i + 1)..Len(s) : s[j] \in H

LEMMA EndsOutJoined ==
  ASSUME NEW A, NEW s \in Seq(A), NEW t \in Seq(A), NEW N, NEW H
  PROVE  /\ s \o t \in Seq(A)
         /\ EndsOut(t, N, H) => EndsOut(s \o t, N, H)
         /\ EndsOut(s, N, H) /\ t \in Seq(H) => EndsOut(s \o t, N, H)
<1> DEFINE a == Len(s)
           b == Len(t)
           r == s \o t
<1>1. a \in Nat /\ b \in Nat /\ Len(s) = a /\ Len(t) = b
  OBVIOUS
<1>2. r \in Seq(A) /\ Len(r) = a + b /\ \A p \in 1..(a + b) : r[p] = IF p <= a THEN s[p] ELSE t[p - a]
  BY ConcatProperties
<1> HIDE DEF a, b, r
<1>3. ASSUME EndsOut(t, N, H) PROVE EndsOut(r, N, H)
  <2>1. PICK i \in 1..b : t[i] \in N /\ \A j \in (i + 1)..b : t[j] \in H
    BY <1>1, <1>3 DEF EndsOut
  <2> DEFINE k == a + i
  <2>2. k \in 1..(a + b) /\ ~(k <= a) /\ k - a = i
    BY <1>1
  <2>3. ASSUME NEW j \in (k + 1)..(a + b) PROVE r[j] \in H
    <3>1. j \in 1..(a + b) /\ ~(j <= a) /\ j - a \in (i + 1)..b
      BY <1>1
    <3> QED
      BY <1>2, <2>1, <3>1
  <2> HIDE DEF k
  <2>4. r[k] \in N
    BY <1>2, <2>1, <2>2
  <2> QED
    BY <1>2, <2>2, <2>3, <2>4 DEF EndsOut
<1>4. ASSUME EndsOut(s, N, H), t \in Seq(H) PROVE EndsOut(r, N, H)
  <2>1. PICK i \in 1..a : s[i] \in N /\ \A j \in (i + 1)..a : s[j] \in H
    BY <1>1, <1>4 DEF EndsOut
  <2>2. \A j \in 1..b : t[j] \in H
    BY <1>1, <1>4
  <2>3. i \in 1..(a + b) /\ i <= a
    BY <1>1
  <2>4. ASSUME NEW j \in (i + 1)..(a + b) PROVE r[j] \in H
    <3>1. j \in 1..(a + b) /\ (j <= a => j \in (i + 1)..a) /\ (~(j <= a) => j - a \in 1..b)
      BY <1>1
    <3> QED
      BY <1>2, <2>1, <2>2, <3>1
  <2>5. r[i] \in N
    BY <1>2, <2>1, <2>3
  <2> QED
    BY <1>2, <2>3, <2>4, <2>5 DEF EndsOut
<1> QED
  BY <1>2, <1>3, <1>4 DEF r

LEMMA EndsOutFlattened ==
  ASSUME NEW A, NEW seqs \in Seq(Seq(A)), NEW N, NEW H, NEW i \in 1..Len(seqs),
         EndsOut(seqs[i], N, H), \A j \in (i + 1)..Len(seqs) : seqs[j] \in Seq(H)
  PROVE  EndsOut(FlattenSeq(seqs), N, H)
<1> DEFINE n == Len(seqs)
<1>1. PICK f : Joins(f, A, seqs)
  BY Flattened
<1>2. /\ f \in [0..n -> Seq(A)] /\ FlattenSeq(seqs) = f[n]
      /\ \A k \in 1..n : f[k] = f[k - 1] \o seqs[k]
  BY <1>1 DEF Joins
<1>3. n \in Nat /\ \A k \in 1..n : seqs[k] \in Seq(A)
  OBVIOUS
<1>4. i \in 1..n /\ \A j \in (i + 1)..n : seqs[j] \in Seq(H)
  OBVIOUS
<1> HIDE DEF n
<1> DEFINE S == {k \in 0..n : k >= i => EndsOut(f[k], N, H)}
<1>5. 0 \in S
  BY <1>3, <1>4
<1>6. ASSUME NEW m \in 0..(n - 1), m \in S PROVE m + 1 \in S
  <2> DEFINE k == m + 1
  <2>1. k \in 1..n /\ k \in 0..n /\ k - 1 = m /\ m \in 0..n
    BY <1>3
  <2>2. (k >= i => k = i \/ (m >= i /\ k \in (i + 1)..n))
    BY <1>3, <1>4
  <2> HIDE DEF k
  <2>3. f[k] = f[m] \o seqs[k] /\ f[m] \in Seq(A) /\ seqs[k] \in Seq(A)
    BY <1>2, <1>3, <2>1
  <2> SUFFICES ASSUME k >= i PROVE EndsOut(f[k], N, H)
    BY <2>1 DEF k
  <2>4. CASE k = i
    BY <2>3, <2>4, EndsOutJoined
  <2>5. CASE m >= i /\ k \in (i + 1)..n
    <3>1. EndsOut(f[m], N, H) /\ seqs[k] \in Seq(H)
      BY <1>4, <1>6, <2>5
    <3> QED
      BY <2>3, <3>1, EndsOutJoined
  <2> QED
    BY <2>2, <2>4, <2>5
<1>7. n \in S
  <2> HIDE DEF S
  <2>1. \A k \in 0..(n - 1) : k \in S => k + 1 \in S
    BY <1>6
  <2>2. \A k \in 0..n : k \in S
    BY <1>3, <1>5, <2>1, UpTo
  <2> QED
    BY <1>3, <2>2
<1>8. n >= i
  BY <1>3, <1>4
<1> QED
  BY <1>2, <1>7, <1>8

-----------------------------------------------------------------------------
\* The elements of two sequences one after the other.
LEMMA JoinElements ==
  ASSUME NEW A, NEW s \in Seq(A), NEW t \in Seq(A)
  PROVE  s \o t \in Seq(A) /\ ToSet(s \o t) = ToSet(s) \union ToSet(t)
<1> DEFINE a == Len(s)
           b == Len(t)
           r == s \o t
<1>1. /\ a \in Nat /\ b \in Nat /\ DOMAIN s = 1..a /\ DOMAIN t = 1..b
      /\ r \in Seq(A) /\ Len(r) = a + b /\ DOMAIN r = 1..(a + b)
      /\ \A p \in 1..(a + b) : r[p] = IF p <= a THEN s[p] ELSE t[p - a]
  BY ConcatProperties
<1> HIDE DEF a, b, r
<1>2. ToSet(r) = {r[p] : p \in 1..(a + b)} /\ ToSet(s) = {s[p] : p \in 1..a} /\ ToSet(t) = {t[p] : p \in 1..b}
  BY <1>1 DEF ToSet
<1>3. ASSUME NEW p \in 1..(a + b) PROVE r[p] \in ToSet(s) \union ToSet(t)
  <2>1. CASE p <= a
    <3>1. p \in 1..a
      BY <1>1, <2>1
    <3> QED
      BY <1>1, <1>2, <2>1, <3>1
  <2>2. CASE ~(p <= a)
    <3>1. p - a \in 1..b
      BY <1>1, <2>2
    <3> QED
      BY <1>1, <1>2, <2>2, <3>1
  <2> QED
    BY <2>1, <2>2
<1>4. ASSUME NEW p \in 1..a PROVE s[p] \in ToSet(r)
  <2>1. p \in 1..(a + b) /\ p <= a
    BY <1>1
  <2> QED
    BY <1>1, <1>2, <2>1
<1>5. ASSUME NEW p \in 1..b PROVE t[p] \in ToSet(r)
  <2> DEFINE q == a + p
  <2>1. q \in 1..(a + b) /\ ~(q <= a) /\ q - a = p
    BY <1>1
  <2> HIDE DEF q
  <2> QED
    BY <1>1, <1>2, <2>1
<1>6. ToSet(r) \subseteq ToSet(s) \union ToSet(t)
  BY <1>2, <1>3
<1>7. ToSet(s) \subseteq ToSet(r) /\ ToSet(t) \subseteq ToSet(r)
  BY <1>2, <1>4, <1>5
<1> QED
  BY <1>1, <1>6, <1>7 DEF r

\* A sequence without elements is empty.
LEMMA NoElements ==
  ASSUME NEW A, NEW s \in Seq(A)
  PROVE  s = <<>> <=> ToSet(s) = {}
<1>1. ASSUME s # <<>> PROVE ToSet(s) # {}
  <2>1. 1 \in DOMAIN s
    BY <1>1, EmptySeq
  <2> QED
    BY <2>1 DEF ToSet
<1>2. ASSUME s = <<>> PROVE ToSet(s) = {}
  <2>1. Enumerates(<<>>, {})
    BY OneOrNone
  <2> QED
    BY <1>2, <2>1 DEF Enumerates
<1> QED
  BY <1>1, <1>2

\* The positions and the elements of a sequence.
LEMMA ElementsAre ==
  ASSUME NEW A, NEW s \in Seq(A)
  PROVE  /\ DOMAIN s = 1..Len(s) /\ Len(s) \in Nat
         /\ ToSet(s) = {s[i] : i \in 1..Len(s)} /\ ToSet(s) \subseteq A
<1>1. DOMAIN s = 1..Len(s) /\ Len(s) \in Nat /\ \A i \in 1..Len(s) : s[i] \in A
  OBVIOUS
<1> QED
  BY <1>1 DEF ToSet

\* A name that is pushed unless it is there.
Pushed(s, e) == IF Contains(s, e) THEN s ELSE Append(s, e)
LEMMA PushedIs ==
  ASSUME NEW A, NEW s \in Seq(A), IsInjective(s), NEW e \in A
  PROVE  Pushed(s, e) \in Seq(A) /\ IsInjective(Pushed(s, e)) /\ ToSet(Pushed(s, e)) = ToSet(s) \union {e}
<1> DEFINE n == Len(s)
           t == Append(s, e)
<1>1. n \in Nat /\ DOMAIN s = 1..n /\ ToSet(s) = {s[i] : i \in 1..n}
  BY DEF ToSet
<1>2. CASE Contains(s, e)
  <2>1. e \in ToSet(s)
    BY <1>1, <1>2 DEF Contains
  <2> QED
    BY <1>2, <2>1 DEF Pushed
<1>3. CASE ~Contains(s, e)
  <2>1. e \notin ToSet(s)
    BY <1>1, <1>3 DEF Contains
  <2>2. /\ t \in Seq(A) /\ DOMAIN t = 1..(n + 1) /\ t[n + 1] = e
        /\ \A i \in 1..n : t[i] = s[i]
    OBVIOUS
  <2> HIDE DEF t, n
  <2>3. \A i \in 1..(n + 1) : i = n + 1 \/ i \in 1..n
    BY <1>1
  <2>4. ToSet(t) = {t[i] : i \in 1..(n + 1)}
    BY <2>2 DEF ToSet
  <2>5. n + 1 \in 1..(n + 1) /\ 1..n \subseteq 1..(n + 1)
    BY <1>1
  <2>6. ToSet(t) = ToSet(s) \union {e}
    BY <1>1, <2>2, <2>3, <2>4, <2>5
  <2>7. IsInjective(t)
    <3> SUFFICES ASSUME NEW i \in 1..(n + 1), NEW j \in 1..(n + 1), t[i] = t[j] PROVE i = j
      BY <2>2 DEF IsInjective
    <3>1. CASE i \in 1..n /\ j \in 1..n
      BY <1>1, <2>2, <3>1 DEF IsInjective
    <3>2. CASE i = n + 1 /\ j \in 1..n
      BY <1>1, <2>1, <2>2, <3>2
    <3>3. CASE i \in 1..n /\ j = n + 1
      BY <1>1, <2>1, <2>2, <3>3
    <3> QED
      BY <2>3, <3>1, <3>2, <3>3
  <2> QED
    BY <1>3, <2>2, <2>6, <2>7 DEF Pushed, t
<1> QED
  BY <1>2, <1>3
=============================================================================
