---------------------------- MODULE SplitterProofs ----------------------------
(***************************************************************************)
(* What is proved of DataSplitter, for task lists, boundaries and headers  *)
(* of any length and a response that arrives in any chunks: it writes the  *)
(* new file and nothing else, and is done when the response is.  The one   *)
(* assumption is that no chunk ends between the halves of a CRLFCRLF; the  *)
(* run splitter_split_header shows what happens when one does.             *)
(*                                                                         *)
(* The argument has three parts.  Where the parts of a response and their  *)
(* data begin, and how much of the file is to be written by then, is one   *)
(* layout (IsLaidOut), which exists for every task list.  The invariant    *)
(* says where in this layout what was received ends: in the boundary       *)
(* before a part, in its header, in its data, or in a chunk that is still  *)
(* in work; what was written is in each case that much of the file.  A     *)
(* chunk (AfterBoundary, AfterHeader, AfterData) or a turn of the loop     *)
(* (AtNextPart, AtPartData) leads from one of these cases to another.      *)
(***************************************************************************)
EXTENDS DataSplitter, SequenceLemmas

-----------------------------------------------------------------------------
\* The parts that are asked for

Tasks == [kind : {"copy", "download"}, size : Nat \ {0}]

\* The parts are tasks, in the order of the tasks.
Ascending(s) == \A i, j \in 1..Len(s) : i < j => s[i] < s[j]

\* The loop of doExecuteTasks numbers the tasks to download in their order.
LEMMA DownloadsAre ==
  ASSUME taskList \in TaskLists, NEW n, n = Len(taskList)
  PROVE  n \in Nat /\ Downloads \in Seq(1..n) /\ Ascending(Downloads)
<1> DEFINE wanted(t) == taskList[t].kind = "download"
           step == [t \in 1..n |-> [s \in Seq(Nat) |-> IF wanted(t) THEN Append(s, t) ELSE s]]
           Fills(g) == g = [t \in 0..n |-> IF t = 0 THEN <<>>
                                           ELSE IF wanted(t) THEN Append(g[t - 1], t) ELSE g[t - 1]]
           h == CHOOSE g : Fills(g)
<1>1. n \in Nat
  BY SplitterAssumption
<1> HIDE DEF wanted
<1>2. step \in StepsOn(Seq(Nat), n) /\ <<>> \in Seq(Nat)
  BY <1>1 DEF StepsOn
<1> HIDE DEF step
<1>3. PICK f : FollowsSteps(f, Seq(Nat), n, <<>>, step)
  BY <1>1, <1>2, StepByStep
<1>4. f \in [0..n -> Seq(Nat)] /\ f[0] = <<>> /\ \A t \in 1..n : f[t] = step[t][f[t - 1]]
  BY <1>3 DEF FollowsSteps
<1>5. Fills(f)
  <2> SUFFICES ASSUME NEW t \in 0..n
               PROVE  f[t] = IF t = 0 THEN <<>>
                             ELSE IF wanted(t) THEN Append(f[t - 1], t) ELSE f[t - 1]
    BY <1>4
  <2>1. CASE t = 0
    BY <1>4, <2>1
  <2>2. CASE t # 0
    <3>1. t \in 1..n /\ t - 1 \in 0..n
      BY <1>1, <2>2
    <3>2. f[t - 1] \in Seq(Nat)
      BY <1>4, <3>1
    <3> QED
      BY <1>4, <2>2, <3>1, <3>2 DEF step
  <2> QED
    BY <2>1, <2>2
<1>6. Fills(h)
  <2> HIDE DEF Fills
  <2> QED
    BY <1>5, Zenon
<1>7. Downloads = h[n]
  BY DEF Downloads, h, wanted
<1> HIDE DEF h
<1>8. \A t \in 0..n : h[t] = IF t = 0 THEN <<>>
                             ELSE IF wanted(t) THEN Append(h[t - 1], t) ELSE h[t - 1]
  BY <1>6
<1> DEFINE S == {t \in 0..n : h[t] \in Seq(1..t) /\ Ascending(h[t])}
<1>9. 0 \in S
  <2>1. h[0] = <<>> /\ 0 \in 0..n
    BY <1>1, <1>8
  <2>2. <<>> \in Seq(1..0) /\ Ascending(<<>>)
    BY DEF Ascending
  <2> QED
    BY <2>1, <2>2
<1>10. ASSUME NEW k \in 0..(n - 1), k \in S PROVE k + 1 \in S
  <2> DEFINE t == k + 1
             s == h[k]
  <2>1. t \in 1..n /\ t \in 0..n /\ t - 1 = k /\ t # 0 /\ t \in 1..t /\ k < t /\ t \in Nat /\ k \in Nat
    BY <1>1
  <2>2. s \in Seq(1..k) /\ Ascending(s)
    BY <1>10
  <2> HIDE DEF t
  <2>3. h[t] = IF wanted(t) THEN Append(s, t) ELSE s
    BY <1>8, <2>1
  <2> HIDE DEF s
  <2>4. s \in Seq(1..t)
    <3>1. 1..k \subseteq 1..t
      BY <2>1
    <3>2. \A X, Y : X \subseteq Y => Seq(X) \subseteq Seq(Y)
      BY SeqDef
    <3> QED
      BY <2>2, <3>1, <3>2
  <2>5. \A i \in 1..Len(s) : s[i] < t
    BY <2>1, <2>2
  <2>6. Append(s, t) \in Seq(1..t) /\ Ascending(Append(s, t))
    <3>1. /\ Append(s, t) \in Seq(1..t) /\ Len(Append(s, t)) = Len(s) + 1 /\ Len(s) \in Nat
          /\ (\A i \in 1..Len(s) : Append(s, t)[i] = s[i]) /\ Append(s, t)[Len(s) + 1] = t
      BY <2>1, <2>4, AppendProperties
    <3>2. \A i, j \in 1..(Len(s) + 1) : i < j => i \in 1..Len(s) /\ (j \in 1..Len(s) \/ j = Len(s) + 1)
      BY <3>1
    <3> QED
      BY <2>2, <2>5, <3>1, <3>2 DEF Ascending
  <2>7. h[t] \in Seq(1..t) /\ Ascending(h[t])
    BY <2>2, <2>3, <2>4, <2>6
  <2> QED
    BY <2>1, <2>7 DEF t
<1>11. n \in S
  <2> HIDE DEF S
  <2>1. \A k \in 0..(n - 1) : k \in S => k + 1 \in S
    BY <1>10
  <2>2. \A k \in 0..n : k \in S
    BY <1>1, <1>9, <2>1, UpTo
  <2> QED
    BY <1>1, <2>2
<1> QED
  BY <1>1, <1>7, <1>11

-----------------------------------------------------------------------------
\* The response

\* What a byte may be, and the length of the boundary before a part.
Alphabet == {Sep, Hdr, Dash, End1, End2} \cup ({"copy", "download"} \X Nat \X Nat)

Edge(k) == IF k = 0 THEN BoundaryLength - 2 ELSE BoundaryLength

\* The bytes of a task are as many as its size.
LEMMA BytesAre ==
  ASSUME taskList \in TaskLists, NEW t \in 1..Len(taskList), NEW size, size = taskList[t].size
  PROVE  /\ size \in Nat \ {0} /\ Bytes(t) \in Seq(Alphabet) /\ Len(Bytes(t)) = size
<1>1. taskList[t] \in Tasks
  <2>1. taskList \in Seq(Tasks)
    BY SplitterAssumption DEF Tasks
  <2> QED
    BY <2>1
<1>2. size \in Nat \ {0} /\ taskList[t].kind \in {"copy", "download"} /\ t \in Nat
  BY <1>1 DEF Tasks
<1>3. Bytes(t) \in [1..size -> Alphabet]
  BY <1>2 DEF Bytes, Alphabet
<1> QED
  BY <1>2, <1>3, SeqDef

\* A repeated byte.
LEMMA RepeatIs ==
  ASSUME NEW A, NEW x \in A, NEW n \in Nat
  PROVE  Repeat(x, n) \in Seq(A) /\ Len(Repeat(x, n)) = n /\ \A k \in 1..n : Repeat(x, n)[k] = x
<1>1. Repeat(x, n) \in [1..n -> A]
  BY DEF Repeat
<1> QED
  BY <1>1, SeqDef DEF Repeat

\* Every part belongs to a task and is not empty.
LEMMA PartsAre ==
  ASSUME taskList \in TaskLists, NEW k \in 0..(PartCount - 1)
  PROVE  /\ PartCount \in Nat /\ TaskOf(k) \in 1..Len(taskList) /\ PartLength(k) \in Nat \ {0}
         /\ Edge(k) \in Nat /\ HeaderLength \in Nat
<1> DEFINE n == Len(taskList)
<1>1. n = Len(taskList)
  OBVIOUS
<1> HIDE DEF n
<1>2. n \in Nat /\ Downloads \in Seq(1..n)
  BY <1>1, DownloadsAre
<1>3. PartCount \in Nat /\ k + 1 \in 1..Len(Downloads)
  BY <1>2 DEF PartCount
<1>4. TaskOf(k) \in 1..n
  BY <1>2, <1>3 DEF TaskOf
<1>5. PartLength(k) \in Nat \ {0}
  BY <1>1, <1>4, BytesAre DEF PartLength
<1> QED
  BY <1>1, <1>3, <1>4, <1>5, SplitterAssumption DEF Edge

\* A part: a boundary and a header, the end of the header, the data.
LEMMA PartIs ==
  ASSUME taskList \in TaskLists, NEW k \in 0..(PartCount - 1), NEW d, d = Edge(k) + HeaderLength + 2
  PROVE  /\ Part(k) \in Seq(Alphabet) /\ d \in Nat /\ Len(Part(k)) = d + PartLength(k)
         /\ \A p \in 1..(d - 2) : Part(k)[p] # End1
         /\ Part(k)[d - 1] = End1 /\ Part(k)[d] = End2
         /\ \A p \in 1..PartLength(k) : Part(k)[d + p] = Bytes(TaskOf(k))[p]
<1> DEFINE a == Repeat(Sep, Edge(k))
           b == Repeat(Hdr, HeaderLength)
           c == <<End1, End2>>
           e == Bytes(TaskOf(k))
           m == Edge(k)
           n == HeaderLength
           l == PartLength(k)
<1>1. m \in Nat /\ n \in Nat /\ l \in Nat
  BY PartsAre
<1>2. Sep \in Alphabet /\ Hdr \in Alphabet /\ End1 \in Alphabet /\ End2 \in Alphabet
      /\ Sep # End1 /\ Hdr # End1
  BY DEF Alphabet, Sep, Hdr, End1, End2
<1>3. a \in Seq(Alphabet) /\ Len(a) = m /\ \A p \in 1..m : a[p] = Sep
  BY <1>1, <1>2, RepeatIs
<1>4. b \in Seq(Alphabet) /\ Len(b) = n /\ \A p \in 1..n : b[p] = Hdr
  BY <1>1, <1>2, RepeatIs
<1>5. c \in Seq(Alphabet) /\ Len(c) = 2 /\ c[1] = End1 /\ c[2] = End2
  BY <1>2
<1>6. e \in Seq(Alphabet) /\ Len(e) = l
  BY PartsAre, BytesAre DEF PartLength
<1>7. Part(k) = ((a \o b) \o c) \o e
  BY DEF Part, Edge
<1> HIDE DEF a, b, c, e, m, n, l
<1> DEFINE ab == a \o b
<1>8. /\ ab \in Seq(Alphabet) /\ Len(ab) = m + n
      /\ \A p \in 1..(m + n) : ab[p] = IF p <= m THEN a[p] ELSE b[p - m]
  BY <1>3, <1>4, ConcatProperties
<1>9. \A p \in 1..(m + n) : ab[p] # End1
  <2> SUFFICES ASSUME NEW p \in 1..(m + n) PROVE ab[p] # End1
    OBVIOUS
  <2>1. CASE p <= m
    <3>1. p \in 1..m
      BY <1>1, <2>1
    <3> QED
      BY <1>2, <1>3, <1>8, <2>1, <3>1
  <2>2. CASE ~(p <= m)
    <3> DEFINE q == p - m
    <3>1. q \in 1..n /\ ab[p] = b[q]
      BY <1>1, <1>8, <2>2
    <3> HIDE DEF q, ab
    <3> QED
      BY <1>2, <1>4, <3>1
  <2> QED
    BY <2>1, <2>2
<1> HIDE DEF ab
<1> DEFINE abc == ab \o c
<1>10. /\ abc \in Seq(Alphabet) /\ Len(abc) = m + n + 2
       /\ \A p \in 1..(m + n) : abc[p] = ab[p]
       /\ abc[m + n + 1] = c[1] /\ abc[m + n + 2] = c[2]
  <2> DEFINE s == m + n
             x == s + 1
             y == s + 2
  <2>1. s \in Nat /\ Len(ab) = s
    BY <1>1, <1>8
  <2> HIDE DEF s
  <2>2. /\ abc \in Seq(Alphabet) /\ Len(abc) = s + 2
        /\ \A p \in 1..(s + 2) : abc[p] = IF p <= s THEN ab[p] ELSE c[p - s]
    <3>1. /\ abc \in Seq(Alphabet) /\ Len(abc) = Len(ab) + Len(c)
          /\ \A p \in 1..(Len(ab) + Len(c)) : abc[p] = IF p <= Len(ab) THEN ab[p] ELSE c[p - Len(ab)]
      BY <1>5, <1>8, ConcatProperties
    <3> HIDE DEF abc
    <3> QED
      BY <1>5, <2>1, <3>1
  <2>3. \A p \in 1..s : p \in 1..(s + 2) /\ p <= s
    BY <2>1
  <2>4. /\ x \in 1..(s + 2) /\ ~(x <= s) /\ x - s = 1
        /\ y \in 1..(s + 2) /\ ~(y <= s) /\ y - s = 2
    BY <2>1
  <2> HIDE DEF abc, x, y
  <2>5. abc[x] = c[1] /\ abc[y] = c[2] /\ \A p \in 1..s : abc[p] = ab[p]
    BY <2>2, <2>3, <2>4
  <2> QED
    BY <2>2, <2>5 DEF s, x, y
<1>11. /\ \A p \in 1..(m + n) : abc[p] # End1
       /\ abc[m + n + 1] = End1 /\ abc[m + n + 2] = End2
  BY <1>5, <1>9, <1>10
<1> HIDE DEF abc
<1>12. d = m + n + 2 /\ d \in Nat /\ d - 2 = m + n /\ d - 1 = m + n + 1
  BY <1>1 DEF m, n
<1>13. /\ Part(k) \in Seq(Alphabet) /\ Len(Part(k)) = d + l
       /\ \A p \in 1..(d + l) : Part(k)[p] = IF p <= d THEN abc[p] ELSE e[p - d]
  <2>1. Part(k) = abc \o e
    BY <1>7 DEF abc, ab
  <2> QED
    BY <1>6, <1>10, <1>12, <2>1, ConcatProperties
<1>14. \A p \in 1..d : Part(k)[p] = abc[p]
  BY <1>1, <1>12, <1>13
<1>15. \A p \in 1..(d - 2) : Part(k)[p] # End1
  <2>1. \A p \in 1..(d - 2) : p \in 1..d /\ p \in 1..(m + n)
    BY <1>12
  <2> QED
    BY <1>11, <1>14, <2>1
<1>16. Part(k)[d - 1] = End1 /\ Part(k)[d] = End2
  <2>1. d - 1 \in 1..d /\ d \in 1..d
    BY <1>1, <1>12
  <2> QED
    BY <1>11, <1>12, <1>14, <2>1
<1>17. \A p \in 1..l : Part(k)[d + p] = e[p]
  <2> TAKE p \in 1..l
  <2> DEFINE q == d + p
  <2>1. q \in 1..(d + l) /\ ~(q <= d) /\ q - d = p
    BY <1>1, <1>12
  <2> HIDE DEF q
  <2>2. Part(k)[q] = e[p]
    BY <1>13, <2>1
  <2> QED
    BY <2>2 DEF q
<1> QED
  BY <1>12, <1>13, <1>15, <1>16, <1>17 DEF e, l

\* Where the parts begin in the body, and where their data does.
DataAt(S, k) == S[k] + Edge(k) + HeaderLength + 2

\* Part k of the body: no CRLFCRLF up to the one that ends its header, then its data.
PartAt(S, k) ==
    /\ DataAt(S, k) \in Nat /\ S[k + 1] = DataAt(S, k) + PartLength(k)
    /\ \A p \in (S[k] + 1)..(DataAt(S, k) - 2) : Body[p] # End1
    /\ Body[DataAt(S, k) - 1] = End1 /\ Body[DataAt(S, k)] = End2
    /\ \A p \in 1..PartLength(k) : Body[DataAt(S, k) + p] = Bytes(TaskOf(k))[p]

\* S[k] is where part k begins, and the last of them where the closing boundary does.
LaidOut(S) ==
    /\ PartCount \in Nat /\ S \in [0..PartCount -> Nat] /\ S[0] = 0
    /\ Body \in Seq(Alphabet) /\ Len(Body) = S[PartCount] + BoundaryLength + 2
    /\ \A k \in 0..PartCount : S[k] <= S[PartCount]
    /\ \A k \in 0..(PartCount - 1) : PartAt(S, k)

\* Every response is laid out in this way.
LEMMA ResponseIsLaidOut ==
  ASSUME taskList \in TaskLists
  PROVE  \E S : LaidOut(S)
<1> DEFINE n == PartCount
           seqs == [i \in 1..n |-> Part(i - 1)]
<1>1. n \in Nat
  <2> DEFINE m == Len(taskList)
  <2>1. m = Len(taskList)
    OBVIOUS
  <2> HIDE DEF m
  <2> QED
    BY <2>1, DownloadsAre DEF PartCount
<1>2. seqs \in Seq(Seq(Alphabet)) /\ Len(seqs) = n /\ \A i \in 1..n : seqs[i] = Part(i - 1)
  <2>1. ASSUME NEW i \in 1..n PROVE Part(i - 1) \in Seq(Alphabet)
    <3> DEFINE k == i - 1
               d == Edge(k) + HeaderLength + 2
    <3>1. k \in 0..(PartCount - 1) /\ d = Edge(k) + HeaderLength + 2
      BY <1>1
    <3> HIDE DEF k, d
    <3>2. Part(k) \in Seq(Alphabet)
      BY <3>1, PartIs
    <3> QED
      BY <3>2 DEF k
  <2>2. seqs \in [1..n -> Seq(Alphabet)]
    BY <2>1
  <2> QED
    BY <1>1, <2>2, SeqDef
<1>3. PICK f : Joins(f, Alphabet, seqs)
  <2> HIDE DEF seqs
  <2> QED
    BY <1>2, Flattened
<1>4. f \in [0..n -> Seq(Alphabet)] /\ f[0] = <<>> /\ FlattenSeq(seqs) = f[n]
  BY <1>2, <1>3 DEF Joins
<1> DEFINE S == [k \in 0..n |-> Len(f[k])]
<1>5. S \in [0..n -> Nat] /\ S[0] = 0 /\ S[n] = Len(f[n]) /\ f[n] \in Seq(Alphabet)
      /\ \A k \in 0..n : S[k] = Len(f[k]) /\ Len(f[k]) \in Nat
  <2>1. \A k \in 0..n : f[k] \in Seq(Alphabet) /\ Len(f[k]) \in Nat
    BY <1>4
  <2>2. 0 \in 0..n /\ n \in 0..n
    BY <1>1
  <2> QED
    BY <1>4, <2>1, <2>2
<1> DEFINE s == f[n]
           b == Repeat(Sep, BoundaryLength)
           c == <<Dash, Dash>>
<1>6. /\ Body \in Seq(Alphabet) /\ Len(Body) = S[n] + BoundaryLength + 2
      /\ \A p \in 1..S[n] : Body[p] = f[n][p]
  <2>1. BoundaryLength \in Nat /\ Sep \in Alphabet /\ Dash \in Alphabet
    BY SplitterAssumption DEF Alphabet
  <2>2. b \in Seq(Alphabet) /\ Len(b) = BoundaryLength
    BY <2>1, RepeatIs
  <2>3. c \in Seq(Alphabet) /\ Len(c) = 2
    BY <2>1
  <2>4. Body = (s \o b) \o c
    BY <1>4 DEF Body
  <2>5. s \in Seq(Alphabet) /\ Len(s) = S[n] /\ S[n] \in Nat
    BY <1>1, <1>5
  <2> HIDE DEF s, b, c, S
  <2> DEFINE t == s \o b
  <2>6. /\ t \in Seq(Alphabet) /\ Len(t) = Len(s) + Len(b)
        /\ \A p \in 1..(Len(s) + Len(b)) : t[p] = IF p <= Len(s) THEN s[p] ELSE b[p - Len(s)]
    BY <2>2, <2>5, ConcatProperties
  <2> HIDE DEF t
  <2>7. /\ t \o c \in Seq(Alphabet) /\ Len(t \o c) = Len(t) + Len(c)
        /\ \A p \in 1..(Len(t) + Len(c)) : (t \o c)[p] = IF p <= Len(t) THEN t[p] ELSE c[p - Len(t)]
    <3>1. t \in Seq(Alphabet)
      BY <2>6
    <3> QED
      BY <2>3, <3>1, ConcatProperties
  <2>8. Body = t \o c
    BY <2>4 DEF t
  <2>9. Len(Body) = S[n] + BoundaryLength + 2
    BY <2>1, <2>2, <2>3, <2>5, <2>6, <2>7, <2>8
  <2>10. \A p \in 1..S[n] : Body[p] = s[p]
    <3>1. \A p \in 1..S[n] : /\ p \in 1..(Len(s) + Len(b)) /\ p <= Len(s)
                             /\ p \in 1..(Len(t) + Len(c)) /\ p <= Len(t)
      BY <2>1, <2>2, <2>3, <2>5, <2>6
    <3> QED
      BY <2>6, <2>7, <2>8, <3>1
  <2> QED
    BY <2>7, <2>8, <2>9, <2>10 DEF s
<1>7. \A k \in 0..n : S[k] <= S[n]
  <2> TAKE k \in 0..n
  <2> HIDE DEF seqs, S
  <2>1. Starts(f[k], f[n])
    BY <1>2, <1>3, JoinsPrefix
  <2> QED
    BY <1>5, <2>1 DEF Starts
<1>8. ASSUME NEW k \in 0..(n - 1) PROVE PartAt(S, k)
  <2> DEFINE i == k + 1
             d == Edge(k) + HeaderLength + 2
             l == PartLength(k)
  <2>1. i \in 1..n /\ i \in 0..n /\ i - 1 = k /\ k \in 0..n /\ d = Edge(k) + HeaderLength + 2
    BY <1>1
  <2> HIDE DEF i, d
  <2>2. /\ d \in Nat /\ Len(Part(k)) = d + l
        /\ \A p \in 1..(d - 2) : Part(k)[p] # End1
        /\ Part(k)[d - 1] = End1 /\ Part(k)[d] = End2
        /\ \A p \in 1..l : Part(k)[d + p] = Bytes(TaskOf(k))[p]
    BY <2>1, PartIs
  <2>3. l \in Nat /\ Edge(k) \in Nat /\ HeaderLength \in Nat
    BY PartsAre
  <2> HIDE DEF l, seqs
  <2>4. /\ Len(f[i]) = Len(f[k]) + Len(Part(k))
        /\ \A p \in 1..Len(Part(k)) : f[n][Len(f[k]) + p] = Part(k)[p]
    <3>1. /\ Len(f[i]) = Len(f[i - 1]) + Len(seqs[i])
          /\ \A p \in 1..Len(seqs[i]) : f[n][Len(f[i - 1]) + p] = seqs[i][p]
      <4>1. IsAt(f, seqs[i], n, i)
        BY <1>2, <1>3, <2>1, JoinsAt
      <4> QED
        BY <4>1 DEF IsAt
    <3>2. seqs[i] = Part(k)
      BY <1>2, <2>1
    <3> QED
      BY <2>1, <3>1, <3>2
  <2> HIDE DEF S
  <2> DEFINE at == S[k]
             data == at + d
  <2>13. S[i] = Len(f[i]) /\ S[i] <= S[n] /\ at = Len(f[k]) /\ at \in Nat /\ S[n] \in Nat
    BY <1>1, <1>5, <1>7, <2>1
  <2> HIDE DEF at
  <2>14. at \in Nat /\ d \in Nat /\ l \in Nat
    BY <2>2, <2>3, <2>13
  <2>5. S[i] = data + l /\ S[i] <= S[n] /\ at \in Nat /\ at = Len(f[k]) /\ S[n] \in Nat
    <3>1. Len(f[i]) = at + (d + l)
      BY <2>2, <2>4, <2>13
    <3>2. at + (d + l) = data + l
      BY <2>14
    <3> QED
      BY <2>13, <3>1, <3>2
  <2> HIDE DEF at
  <2>6. \A p \in 1..(d + l) : Body[at + p] = Part(k)[p]
    <3> TAKE p \in 1..(d + l)
    <3> DEFINE q == at + p
    <3>1. q \in 1..S[n]
      BY <2>2, <2>3, <2>5
    <3>2. f[n][q] = Part(k)[p]
      BY <2>2, <2>4, <2>5
    <3> HIDE DEF q
    <3>3. Body[q] = Part(k)[p]
      BY <1>6, <3>1, <3>2
    <3> QED
      BY <3>3 DEF q
  <2>7. \A p \in (at + 1)..(data - 2) : Body[p] # End1
    <3> TAKE p \in (at + 1)..(data - 2)
    <3> DEFINE q == p - at
    <3>1. q \in 1..(d - 2) /\ q \in 1..(d + l) /\ at + q = p
      BY <2>2, <2>3, <2>5
    <3> HIDE DEF q
    <3>2. Body[at + q] = Part(k)[q]
      BY <2>6, <3>1
    <3> QED
      BY <2>2, <3>1, <3>2
  <2>8. Body[data - 1] = End1 /\ Body[data] = End2
    <3> DEFINE q == d - 1
    <3>1. d >= 2
      BY <2>1, <2>3
    <3>2. q \in 1..(d + l) /\ d \in 1..(d + l) /\ at + q = data - 1
      BY <2>14, <3>1
    <3> HIDE DEF q
    <3>3. Body[at + q] = Part(k)[q] /\ Body[at + d] = Part(k)[d]
      BY <2>6, <3>2
    <3>4. Part(k)[q] = End1
      BY <2>2 DEF q
    <3> QED
      BY <2>2, <3>2, <3>3, <3>4
  <2>9. \A p \in 1..l : Body[data + p] = Bytes(TaskOf(k))[p]
    <3> TAKE p \in 1..l
    <3> DEFINE q == d + p
    <3>1. q \in 1..(d + l) /\ at + q = data + p
      BY <2>14
    <3>2. Part(k)[q] = Bytes(TaskOf(k))[p]
      BY <2>2
    <3> HIDE DEF q, data
    <3>3. Body[at + q] = Part(k)[q]
      BY <2>6, <3>1
    <3> QED
      BY <3>1, <3>2, <3>3
  <2>10. DataAt(S, k) = data /\ data \in Nat
    <3>1. DataAt(S, k) = at + Edge(k) + HeaderLength + 2
      BY DEF DataAt, at
    <3> QED
      BY <2>1, <2>3, <2>14, <3>1
  <2> HIDE DEF data
  <2>11. S[k + 1] = DataAt(S, k) + PartLength(k)
    BY <2>5, <2>10 DEF i, l
  <2> QED
    BY <2>7, <2>8, <2>9, <2>10, <2>11 DEF PartAt, at, l
<1> HIDE DEF S
<1>9. LaidOut(S)
  BY <1>1, <1>5, <1>6, <1>7, <1>8 DEF LaidOut
<1> QED
  BY <1>9

-----------------------------------------------------------------------------
\* What is written

\* What the tasks make, up to each of them.
TasksJoined(R) ==
    /\ Len(taskList) \in Nat /\ R \in [0..Len(taskList) -> Seq(Alphabet)] /\ R[0] = <<>>
    /\ \A t \in 1..Len(taskList) : R[t] = R[t - 1] \o Bytes(t)
    /\ R[Len(taskList)] = Rebuilt
    /\ \A t \in 0..Len(taskList) : Starts(R[t], Rebuilt)

\* There is such a sequence of what the tasks make.
LEMMA TasksAreJoined ==
  ASSUME taskList \in TaskLists
  PROVE  \E R : TasksJoined(R)
<1> DEFINE n == Len(taskList)
           seqs == [t \in 1..n |-> Bytes(t)]
<1>1. n \in Nat /\ DOMAIN taskList = 1..n
  BY SplitterAssumption
<1>2. \A t \in 1..n : Bytes(t) \in Seq(Alphabet)
  BY BytesAre
<1> HIDE DEF n
<1>3. seqs \in Seq(Seq(Alphabet)) /\ Len(seqs) = n /\ \A t \in 1..n : seqs[t] = Bytes(t)
  <2>1. seqs \in [1..n -> Seq(Alphabet)]
    BY <1>2
  <2> QED
    BY <1>1, <2>1, SeqDef
<1>4. Rebuilt = FlattenSeq(seqs)
  BY <1>1 DEF Rebuilt
<1> HIDE DEF seqs
<1>5. PICK R : Joins(R, Alphabet, seqs)
  BY <1>3, Flattened
<1>6. /\ R \in [0..n -> Seq(Alphabet)] /\ R[0] = <<>> /\ R[n] = Rebuilt
      /\ \A t \in 1..n : R[t] = R[t - 1] \o Bytes(t)
  BY <1>3, <1>4, <1>5 DEF Joins
<1>7. \A t \in 0..n : Starts(R[t], R[n])
  BY <1>3, <1>5, JoinsPrefix
<1> QED
  BY <1>1, <1>6, <1>7 DEF TasksJoined, n

\* Copying tasks goes on to the end of the last of them.
LEMMA CopiesGoOn ==
  ASSUME taskList \in TaskLists, NEW R, TasksJoined(R), NEW n, n = Len(taskList),
         NEW a \in 1..(n + 1), NEW to \in a..(n + 1)
  PROVE  R[a - 1] \o Copies(a, to) = R[to - 1] /\ Copies(a, to) \in Seq(Alphabet)
<1>1. n \in Nat /\ R \in [0..n -> Seq(Alphabet)] /\ \A t \in 1..n : R[t] = R[t - 1] \o Bytes(t)
  BY DEF TasksJoined
<1>2. \A t \in 1..n : Bytes(t) \in Seq(Alphabet)
  BY BytesAre
<1> DEFINE m == n + 1 - a
           C(j) == [q \in 1..j |-> Bytes(a + q - 1)]
           S == {j \in 0..m : R[a - 1] \o FlattenSeq(C(j)) = R[a + j - 1]}
<1>3. m \in Nat /\ a \in Nat /\ to - a \in 0..m /\ a - 1 \in 0..n
  BY <1>1
<1>4. ASSUME NEW j \in 0..m
      PROVE  C(j) \in Seq(Seq(Alphabet)) /\ Len(C(j)) = j /\ \A q \in 1..j : C(j)[q] = Bytes(a + q - 1)
  <2>1. ASSUME NEW q \in 1..j PROVE Bytes(a + q - 1) \in Seq(Alphabet)
    <3>1. a + q - 1 \in 1..n
      BY <1>1, <1>3
    <3> QED
      BY <1>2, <3>1
  <2>2. C(j) \in [1..j -> Seq(Alphabet)]
    BY <2>1
  <2>3. j \in Nat /\ \A q \in 1..j : C(j)[q] = Bytes(a + q - 1)
    BY <1>3
  <2> HIDE DEF C
  <2>4. C(j) \in Seq(Seq(Alphabet)) /\ Len(C(j)) = j
    BY <2>2, <2>3, SeqDef
  <2> QED
    BY <2>3, <2>4
<1>5. 0 \in S
  <2>1. C(0) = <<>> /\ FlattenSeq(<<>>) = <<>>
    <3>1. C(0) = <<>>
      OBVIOUS
    <3>2. FlattenSeq(<<>>) = <<>>
      BY DEF FlattenSeq
    <3> QED
      BY <3>1, <3>2
  <2>4. a + 0 - 1 = a - 1 /\ 0 \in 0..m
    BY <1>3
  <2>2. R[a - 1] \in Seq(Alphabet)
    BY <1>1, <1>3
  <2>3. R[a - 1] \o <<>> = R[a - 1]
    BY <2>2, ConcatEmptySeq
  <2> QED
    BY <2>1, <2>3, <2>4
<1> HIDE DEF m
<1>6. ASSUME NEW j \in 0..(m - 1), j \in S PROVE j + 1 \in S
  <2> DEFINE i == j + 1
             t == a + j
             pre == R[a - 1]
             old == FlattenSeq(C(j))
             more == Bytes(t)
  <2>1. i \in 0..m /\ i \in 1..i /\ i - 1 = j /\ j \in 0..m /\ j \in Nat /\ i \in Nat
    BY <1>3
  <2>2. t \in 1..n /\ t - 1 \in 0..n /\ t - 1 = a + j - 1 /\ t = a + i - 1
    BY <1>1, <1>3 DEF m
  <2> HIDE DEF i
  <2>3. /\ C(j) \in Seq(Seq(Alphabet)) /\ Len(C(j)) = j /\ \A q \in 1..j : C(j)[q] = Bytes(a + q - 1)
        /\ C(i) \in Seq(Seq(Alphabet)) /\ Len(C(i)) = i /\ \A q \in 1..i : C(i)[q] = Bytes(a + q - 1)
    BY <1>4, <2>1
  <2> HIDE DEF t
  <2>4. more \in Seq(Alphabet) /\ pre \in Seq(Alphabet)
    BY <1>1, <1>2, <1>3, <2>2
  <2>5. C(i) = Append(C(j), more)
    <3> DEFINE s == C(j)
               u == C(i)
    <3>1. /\ s \in Seq(Seq(Alphabet)) /\ Len(s) = j /\ u \in Seq(Seq(Alphabet)) /\ Len(u) = j + 1
          /\ (\A q \in 1..j : u[q] = s[q]) /\ u[j + 1] = more
      <4>1. \A q \in 1..j : q \in 1..i
        BY <2>1
      <4> QED
        BY <2>1, <2>2, <2>3, <4>1 DEF i
    <3> HIDE DEF s, u, more
    <3>2. /\ Append(s, more) \in Seq(Seq(Alphabet)) /\ Len(Append(s, more)) = j + 1
          /\ (\A q \in 1..j : Append(s, more)[q] = s[q]) /\ Append(s, more)[j + 1] = more
      BY <2>4, <3>1, AppendProperties
    <3>3. \A q \in 1..(j + 1) : q \in 1..j \/ q = j + 1
      BY <2>1
    <3>4. \A q \in 1..(j + 1) : u[q] = Append(s, more)[q]
      BY <3>1, <3>2, <3>3
    <3>5. u = Append(s, more)
      BY <3>1, <3>2, <3>4, SeqEqual
    <3> QED
      BY <3>5 DEF s, u, more
  <2>6. FlattenSeq(C(i)) = old \o more /\ old \in Seq(Alphabet)
    <3> HIDE DEF C, more
    <3>1. FlattenSeq(Append(C(j), more)) = FlattenSeq(C(j)) \o more /\ FlattenSeq(C(j)) \in Seq(Alphabet)
      BY <2>3, <2>4, JoinsLast
    <3> QED
      BY <2>5, <3>1
  <2>7. (pre \o old) \o more = pre \o (old \o more)
    <3>1. pre \in Seq(Alphabet) /\ old \in Seq(Alphabet) /\ more \in Seq(Alphabet)
      BY <2>4, <2>6
    <3> HIDE DEF pre, old, more, C, S
    <3> QED
      BY <3>1, ConcatAssociative, Z3T(60)
  <2>8. R[t] = R[t - 1] \o more
    BY <1>1, <2>2
  <2>9. pre \o old = R[t - 1]
    BY <1>6, <2>2
  <2>10. R[a - 1] \o FlattenSeq(C(i)) = R[a + i - 1]
    <3> HIDE DEF C, more
    <3> QED
      BY <2>2, <2>6, <2>7, <2>8, <2>9
  <2> QED
    BY <2>1, <2>10 DEF i
<1>7. to - a \in S
  <2> HIDE DEF S
  <2>1. \A j \in 0..(m - 1) : j \in S => j + 1 \in S
    BY <1>6
  <2>2. \A j \in 0..m : j \in S
    BY <1>3, <1>5, <2>1, UpTo
  <2> QED
    BY <1>3, <2>2
<1>8. a + (to - a) - 1 = to - 1 /\ to - 1 \in 0..n
  BY <1>1, <1>3
<1>9. Copies(a, to) = FlattenSeq(C(to - a))
  BY DEF Copies
<1>10. FlattenSeq(C(to - a)) \in Seq(Alphabet)
  <2>1. <<>> \in Seq(Alphabet)
    OBVIOUS
  <2>2. C(to - a) \in Seq(Seq(Alphabet))
    <3> HIDE DEF C
    <3> QED
      BY <1>3, <1>4
  <2> HIDE DEF C
  <2> QED
    BY <2>1, <2>2, JoinsLast
<1> HIDE DEF C
<1> QED
  BY <1>7, <1>8, <1>9, <1>10

-----------------------------------------------------------------------------
\* Sequences that are the beginning of another

First(s, w) == SubSeq(s, 1, w)

\* The first w elements are w elements.
LEMMA FirstIs ==
  ASSUME NEW A, NEW s \in Seq(A), NEW w \in 0..Len(s)
  PROVE  First(s, w) \in Seq(A) /\ Len(First(s, w)) = w /\ \A p \in 1..w : First(s, w)[p] = s[p]
<1>1. w \in Int /\ 1 \in Int /\ w - 1 + 1 = w /\ \A p \in 1..w : s[p] \in A /\ 1 + p - 1 = p
  OBVIOUS
<1> DEFINE f == SubSeq(s, 1, w)
<1>2. f \in Seq(A) /\ Len(f) = (IF 1 <= w THEN w - 1 + 1 ELSE 0) /\ \A p \in 1..(w - 1 + 1) : f[p] = s[1 + p - 1]
  BY <1>1, SubSeqProperties
<1> HIDE DEF f
<1>3. f \in Seq(A) /\ Len(f) = w /\ \A p \in 1..w : f[p] = s[p]
  BY <1>1, <1>2
<1> QED
  BY <1>3 DEF f, First

\* What another sequence starts with is its first elements.
LEMMA StartIsFirst ==
  ASSUME NEW A, NEW s \in Seq(A), NEW r \in Seq(A), Starts(r, s), NEW w, w = Len(r)
  PROVE  w \in 0..Len(s) /\ r = First(s, w)
<1>1. w \in 0..Len(s) /\ \A p \in 1..w : s[p] = r[p]
  BY DEF Starts
<1>2. First(s, w) \in Seq(A) /\ Len(First(s, w)) = w /\ \A p \in 1..w : First(s, w)[p] = s[p]
  BY <1>1, FirstIs
<1>3. r = First(s, w)
  BY <1>1, <1>2, SeqEqual
<1> QED
  BY <1>1, <1>3

\* A sequence that is what comes next in another one.
GoesOnAt(s, t, w) == w + Len(s) <= Len(t) /\ \A p \in 1..Len(s) : t[w + p] = s[p]
GoesOn(s, t, w, l) == First(t, w) \o s = First(t, w + l)

\* The first elements and what comes next are more of the first elements.
LEMMA FirstGoesOn ==
  ASSUME NEW A, NEW t \in Seq(A), NEW s \in Seq(A), NEW w \in Nat, GoesOnAt(s, t, w), NEW l, l = Len(s)
  PROVE  GoesOn(s, t, w, l)
<1>1. w + l <= Len(t) /\ (\A p \in 1..l : t[w + p] = s[p]) /\ l \in Nat /\ w \in 0..Len(t) /\ w + l \in 0..Len(t)
  BY DEF GoesOnAt
<1> DEFINE a == First(t, w)
           v == w + l
           b == First(t, v)
<1>2. a \in Seq(A) /\ Len(a) = w /\ \A p \in 1..w : a[p] = t[p]
  BY <1>1, FirstIs
<1>3. b \in Seq(A) /\ Len(b) = v /\ \A p \in 1..v : b[p] = t[p]
  BY <1>1, FirstIs
<1> HIDE DEF a, b
<1>4. /\ a \o s \in Seq(A) /\ Len(a \o s) = Len(a) + Len(s)
      /\ \A p \in 1..(Len(a) + Len(s)) : (a \o s)[p] = IF p <= Len(a) THEN a[p] ELSE s[p - Len(a)]
  BY <1>2, ConcatProperties
<1>5. Len(a \o s) = v /\ \A p \in 1..v : (a \o s)[p] = IF p <= w THEN a[p] ELSE s[p - w]
  BY <1>2, <1>4
<1>6. ASSUME NEW p \in 1..v PROVE (a \o s)[p] = b[p]
  <2>1. CASE p <= w
    <3>1. p \in 1..w
      BY <1>1, <2>1
    <3> QED
      BY <1>2, <1>3, <1>5, <2>1, <3>1
  <2>2. CASE ~(p <= w)
    <3> DEFINE q == p - w
    <3>1. q \in 1..l /\ w + q = p
      BY <1>1, <2>2
    <3> HIDE DEF q
    <3>2. t[p] = s[q]
      BY <1>1, <3>1
    <3>3. (a \o s)[p] = s[q]
      BY <1>5, <2>2 DEF q
    <3> QED
      BY <1>3, <3>2, <3>3
  <2> QED
    BY <2>1, <2>2
<1>7. a \o s = b
  BY <1>3, <1>4, <1>5, <1>6, SeqEqual
<1> QED
  BY <1>7 DEF a, b, GoesOn

\* A piece of a sequence.
IsPiece(s, t, at) == at + Len(s) <= Len(t) /\ \A p \in 1..Len(s) : s[p] = t[at + p]

\* SubSeq cuts a piece out.
IsCut(A, t, i, j, s) == s \in Seq(A) /\ Len(s) = j - i /\ IsPiece(s, t, i)

LEMMA PieceIs ==
  ASSUME NEW A, NEW t \in Seq(A), NEW i \in Nat, NEW j \in i..Len(t), NEW s, s = SubSeq(t, i + 1, j)
  PROVE  IsCut(A, t, i, j, s)
<1>1. i + 1 \in Int /\ j \in Int /\ \A p \in (i + 1)..j : t[p] \in A
  OBVIOUS
<1> DEFINE from == i + 1
<1> HIDE DEF from
<1>2. SubSeq(t, from, j) \in Seq(A) /\ Len(SubSeq(t, from, j)) = (IF from <= j THEN j - from + 1 ELSE 0)
      /\ \A p \in 1..(j - from + 1) : SubSeq(t, from, j)[p] = t[from + p - 1]
  BY <1>1, SubSeqProperties DEF from
<1>3. s = SubSeq(t, from, j)
  BY DEF from
<1>4. s \in Seq(A) /\ Len(s) = j - i
  BY <1>2, <1>3 DEF from
<1>5. \A p \in 1..(j - i) : p \in 1..(j - from + 1) /\ from + p - 1 = i + p
  BY DEF from
<1>6. \A p \in 1..(j - i) : s[p] = t[i + p]
  BY <1>2, <1>3, <1>5
<1> QED
  BY <1>4, <1>6 DEF IsPiece, IsCut
-----------------------------------------------------------------------------
\* The layout of a response: from[k] and data[k] are where part k and its data begin in
\* the body, before[k] and at[k] what is written when part k begins and when its data does,
\* length[k] is the length of the data of the part before.
Layouts == [from : [0..PartCount -> Nat], data : [0..PartCount -> Nat], length : [0..PartCount -> Nat],
            before : [0..PartCount -> Nat], at : [0..PartCount -> Nat]]

\* What is copied before part k, from the old file.
CopiesBefore(k) == Copies(IF k = 0 THEN 1 ELSE TaskOf(k - 1) + 1,
                          IF k = PartCount THEN Len(taskList) + 1 ELSE TaskOf(k))

\* Part k is where the layout says, and what is copied before it.
CopiedIn(m, k) ==
    /\ m.before[k] <= m.at[k] /\ m.at[k] <= Len(Rebuilt) /\ m.from[k] <= m.from[PartCount]
    /\ First(Rebuilt, m.before[k]) \o CopiesBefore(k) = First(Rebuilt, m.at[k])

\* How part k and what is written of it follow each other,
NumbersIn(m, k) ==
    /\ m.data[k] = m.from[k] + Edge(k) + HeaderLength + 2
    /\ m.length[k + 1] = PartLength(k) /\ PartLength(k) > 0
    /\ m.from[k + 1] = m.data[k] + PartLength(k)
    /\ m.before[k + 1] = m.at[k] + PartLength(k)
    /\ m.before[k + 1] <= Len(Rebuilt) /\ m.from[k + 1] <= m.from[PartCount]

\* and that the body has the data of the file there.
BytesIn(m, k) ==
    /\ \A p \in (m.from[k] + 1)..(m.data[k] - 2) : Body[p] # End1
    /\ Body[m.data[k] - 1] = End1 /\ Body[m.data[k]] = End2
    /\ \A p \in 1..PartLength(k) : Body[m.data[k] + p] = Rebuilt[m.at[k] + p]

IsLaidOut(m) ==
    /\ PartCount \in Nat /\ m \in Layouts
    /\ Body \in Seq(Alphabet) /\ Len(Body) = m.from[PartCount] + BoundaryLength + 2
    /\ Rebuilt \in Seq(Alphabet) /\ m.at[PartCount] = Len(Rebuilt)
    /\ m.from[0] = 0 /\ m.length[0] = 0 /\ m.before[0] = 0
    /\ \A k \in 0..PartCount : CopiedIn(m, k)
    /\ \A k \in 0..(PartCount - 1) : NumbersIn(m, k) /\ BytesIn(m, k)

\* Every task list has a layout: the one of the response with what the tasks make.
LEMMA LayoutIs ==
  ASSUME taskList \in TaskLists
  PROVE  \E m : IsLaidOut(m)
<1> DEFINE n == Len(taskList)
           P == PartCount
<1>1. /\ n \in Nat /\ P \in Nat /\ \A k \in 0..(P - 1) : TaskOf(k) \in 1..n
      /\ \A j, k \in 0..(P - 1) : j < k => TaskOf(j) < TaskOf(k)
  <2> DEFINE l == n
  <2>0. l = Len(taskList)
    OBVIOUS
  <2> HIDE DEF l
  <2>1. l \in Nat /\ Downloads \in Seq(1..l) /\ Ascending(Downloads)
    BY <2>0, DownloadsAre
  <2>2. P \in Nat /\ P = Len(Downloads)
    BY <2>1 DEF PartCount
  <2>3. \A k \in 0..(P - 1) : k + 1 \in 1..Len(Downloads)
    BY <2>2
  <2> HIDE DEF P
  <2>4. \A k \in 0..(P - 1) : TaskOf(k) \in 1..l
    BY <2>1, <2>3 DEF TaskOf
  <2>5. \A j, k \in 0..(P - 1) : j < k => TaskOf(j) < TaskOf(k)
    <3> TAKE j, k \in 0..(P - 1)
    <3> HAVE j < k
    <3>1. j + 1 \in 1..Len(Downloads) /\ k + 1 \in 1..Len(Downloads) /\ j + 1 < k + 1
      BY <2>3
    <3> QED
      BY <2>1, <3>1 DEF TaskOf, Ascending
  <2> QED
    BY <2>0, <2>1, <2>2, <2>4, <2>5
<1>2. PICK S : LaidOut(S)
  BY ResponseIsLaidOut
<1>3. PICK R : TasksJoined(R)
  BY TasksAreJoined
<1>4. /\ S \in [0..P -> Nat] /\ S[0] = 0 /\ Body \in Seq(Alphabet) /\ Len(Body) = S[P] + BoundaryLength + 2
      /\ (\A k \in 0..P : S[k] <= S[P]) /\ \A k \in 0..(P - 1) : PartAt(S, k)
  BY <1>2 DEF LaidOut
<1>5. /\ R \in [0..n -> Seq(Alphabet)] /\ R[0] = <<>> /\ R[n] = Rebuilt
      /\ (\A t \in 1..n : R[t] = R[t - 1] \o Bytes(t)) /\ \A t \in 0..n : Starts(R[t], Rebuilt)
  BY <1>3 DEF TasksJoined
<1> HIDE DEF n, P
<1>6. Rebuilt \in Seq(Alphabet)
  BY <1>1, <1>5
<1> DEFINE W == [t \in 0..n |-> Len(R[t])]
<1>7. \A t \in 0..n : W[t] \in 0..Len(Rebuilt) /\ R[t] \in Seq(Alphabet) /\ R[t] = First(Rebuilt, W[t]) /\ W[t] = Len(R[t])
  <2> TAKE t \in 0..n
  <2> DEFINE w == W[t]
             r == R[t]
  <2>1. w = Len(r) /\ r \in Seq(Alphabet) /\ Starts(r, Rebuilt)
    BY <1>5
  <2> HIDE DEF w, r
  <2>2. w \in 0..Len(Rebuilt) /\ r = First(Rebuilt, w)
    BY <1>6, <2>1, StartIsFirst
  <2> QED
    BY <2>1, <2>2 DEF w, r
<1>8. W \in [0..n -> Nat] /\ W[0] = 0 /\ W[n] = Len(Rebuilt)
  <2>1. \A t \in 0..n : Len(R[t]) \in Nat
    BY <1>7
  <2>2. 0 \in 0..n /\ n \in 0..n
    BY <1>1
  <2> QED
    BY <1>5, <2>1, <2>2
<1> HIDE DEF W
<1> DEFINE Done(k) == IF k = 0 THEN 0 ELSE TaskOf(k - 1)
           Next(k) == IF k = P THEN n + 1 ELSE TaskOf(k)
           m == [from |-> S,
                 data |-> [k \in 0..P |-> IF k = P THEN 0 ELSE DataAt(S, k)],
                 length |-> [k \in 0..P |-> IF k = 0 THEN 0 ELSE PartLength(k - 1)],
                 before |-> [k \in 0..P |-> W[Done(k)]],
                 at |-> [k \in 0..P |-> W[Next(k) - 1]]]
<1>9. \A k \in 0..P : Done(k) \in 0..n /\ Next(k) - 1 \in 0..n /\ Done(k) + 1 <= Next(k)
  <2> TAKE k \in 0..P
  <2>1. Done(k) \in 0..n
    <3>1. CASE k = 0
      BY <1>1, <3>1
    <3>2. CASE k # 0
      <4>1. k - 1 \in 0..(P - 1)
        BY <1>1, <3>2
      <4>2. TaskOf(k - 1) \in 1..n
        BY <1>1, <4>1
      <4> QED
        BY <1>1, <3>2, <4>2
    <3> QED
      BY <3>1, <3>2
  <2>2. Next(k) \in 1..(n + 1)
    <3>1. CASE k = P
      BY <1>1, <3>1
    <3>2. CASE k # P
      <4>1. k \in 0..(P - 1)
        BY <1>1, <3>2
      <4>2. TaskOf(k) \in 1..n
        BY <1>1, <4>1
      <4> QED
        BY <1>1, <3>2, <4>2
    <3> QED
      BY <3>1, <3>2
  <2>3. Done(k) + 1 <= Next(k)
    <3>1. CASE k = 0 \/ k = P
      BY <1>1, <2>1, <2>2, <3>1
    <3>2. CASE k # 0 /\ k # P
      <4>1. k - 1 \in 0..(P - 1) /\ k \in 0..(P - 1) /\ k - 1 < k
        BY <1>1, <3>2
      <4>2. TaskOf(k - 1) < TaskOf(k) /\ TaskOf(k - 1) \in 1..n /\ TaskOf(k) \in 1..n
        BY <1>1, <4>1
      <4> QED
        BY <1>1, <3>2, <4>2
    <3> QED
      BY <3>1, <3>2
  <2> HIDE DEF Done, Next
  <2> QED
    BY <1>1, <2>1, <2>2, <2>3
<1>10. \A k \in 0..(P - 1) : DataAt(S, k) \in Nat /\ PartLength(k) \in Nat \ {0}
  BY <1>4, PartsAre DEF PartAt, P
<1>11. m \in Layouts
  <2>1. \A k \in 0..P : k # P => k \in 0..(P - 1)
    BY <1>1
  <2>2. \A k \in 0..P : k # 0 => k - 1 \in 0..(P - 1)
    BY <1>1
  <2>3. m.data \in [0..P -> Nat]
    <3>1. \A k \in 0..P : (IF k = P THEN 0 ELSE DataAt(S, k)) \in Nat
      BY <1>10, <2>1
    <3> QED
      BY <3>1
  <2>4. m.length \in [0..P -> Nat]
    <3>1. \A k \in 0..P : (IF k = 0 THEN 0 ELSE PartLength(k - 1)) \in Nat
      BY <1>10, <2>2
    <3> QED
      BY <3>1
  <2>5. m.before \in [0..P -> Nat] /\ m.at \in [0..P -> Nat]
    <3> HIDE DEF Done, Next
    <3>1. \A k \in 0..P : W[Done(k)] \in Nat /\ W[Next(k) - 1] \in Nat
      BY <1>8, <1>9
    <3> QED
      BY <3>1
  <2> HIDE DEF Done, Next
  <2> QED
    BY <1>4, <2>3, <2>4, <2>5 DEF Layouts, P
<1>12. /\ m.from = S
       /\ \A k \in 0..P : /\ m.before[k] = W[Done(k)] /\ m.at[k] = W[Next(k) - 1]
                          /\ m.data[k] = IF k = P THEN 0 ELSE DataAt(S, k)
                          /\ m.length[k] = IF k = 0 THEN 0 ELSE PartLength(k - 1)
  <2> HIDE DEF Done, Next
  <2> QED
    OBVIOUS
<1> HIDE DEF m
<1>13. m.at[P] = Len(Rebuilt) /\ m.length[0] = 0 /\ m.before[0] = 0
  <2>1. P \in 0..P /\ 0 \in 0..P /\ Done(0) = 0 /\ Next(P) - 1 = n
    BY <1>1
  <2> QED
    BY <1>8, <1>12, <2>1
<1>14. ASSUME NEW k \in 0..P PROVE CopiedIn(m, k)
  <2> DEFINE a == Done(k) + 1
             to == Next(k)
  <2>1. a \in 1..(n + 1) /\ to \in a..(n + 1) /\ a - 1 = Done(k) /\ to - 1 = Next(k) - 1
    <3> DEFINE d == Done(k)
               x == Next(k)
    <3>1. d \in 0..n /\ x - 1 \in 0..n /\ d + 1 <= x /\ n \in Nat
      <4> HIDE DEF Done, Next
      <4> QED
        BY <1>1, <1>9
    <3>2. x \in Int
      <4>1. CASE k = P
        BY <1>1, <4>1
      <4>2. CASE k # P
        <5>1. k \in 0..(P - 1)
          BY <1>1, <4>2
        <5>2. TaskOf(k) \in 1..n
          BY <1>1, <5>1
        <5> QED
          BY <4>2, <5>2
      <4> QED
        BY <4>1, <4>2
    <3> HIDE DEF d, x
    <3>3. d + 1 \in 1..(n + 1) /\ x \in (d + 1)..(n + 1) /\ d + 1 - 1 = d
      BY <3>1, <3>2
    <3>4. a = d + 1 /\ to = x /\ Done(k) = d /\ Next(k) = x
      BY DEF d, x
    <3> HIDE DEF a, to, Done, Next
    <3> QED
      BY <3>1, <3>3, <3>4
  <2>2. CopiesBefore(k) = Copies(a, to)
    <3>1. (IF k = 0 THEN 1 ELSE TaskOf(k - 1) + 1) = a
      OBVIOUS
    <3>2. (IF k = PartCount THEN Len(taskList) + 1 ELSE TaskOf(k)) = to
      BY DEF P, n
    <3> QED
      BY <3>1, <3>2 DEF CopiesBefore
  <2>3. m.before[k] = W[a - 1] /\ m.at[k] = W[to - 1]
    BY <1>12, <2>1
  <2>4. m.from[k] <= m.from[P]
    BY <1>4, <1>12
  <2> HIDE DEF a, to
  <2>5. a - 1 \in 0..n /\ to - 1 \in 0..n
    BY <1>1, <2>1
  <2>6. R[a - 1] \o Copies(a, to) = R[to - 1] /\ Copies(a, to) \in Seq(Alphabet)
    BY <1>1, <1>3, <2>1, CopiesGoOn DEF n
  <2>7. First(Rebuilt, m.before[k]) \o CopiesBefore(k) = First(Rebuilt, m.at[k])
    BY <1>7, <2>2, <2>3, <2>5, <2>6
  <2>8. W[a - 1] <= W[to - 1] /\ W[to - 1] <= Len(Rebuilt)
    <3>1. W[to - 1] \in 0..Len(Rebuilt)
      BY <1>7, <2>5
    <3>2. W[a - 1] <= W[to - 1]
      <4>1. /\ R[a - 1] \in Seq(Alphabet) /\ W[a - 1] = Len(R[a - 1]) /\ W[to - 1] = Len(R[to - 1])
        BY <1>7, <2>5
      <4> DEFINE c == Copies(a, to)
      <4>5. c \in Seq(Alphabet)
        BY <2>6
      <4> HIDE DEF c
      <4>2. Len(R[a - 1] \o c) = Len(R[a - 1]) + Len(c) /\ Len(c) \in Nat
        BY <4>1, <4>5, ConcatProperties
      <4>3. Len(R[a - 1]) \in Nat
        BY <4>1
      <4> QED
        BY <2>6, <4>1, <4>2, <4>3 DEF c
    <3> QED
      BY <3>1, <3>2
  <2> QED
    BY <2>3, <2>4, <2>7, <2>8 DEF CopiedIn, P
<1>15. ASSUME NEW k \in 0..(P - 1) PROVE NumbersIn(m, k)
  <2> DEFINE i == k + 1
             t == TaskOf(k)
             l == PartLength(k)
             d == DataAt(S, k)
  <2>1. i \in 0..P /\ i \in 1..P /\ i - 1 = k /\ k \in 0..P /\ k # P /\ i # 0
    BY <1>1
  <2>2. t \in 1..n /\ t \in 0..n /\ t - 1 \in 0..n /\ l \in Nat \ {0} /\ d \in Nat
    BY <1>1, <1>10
  <2>3. S[k + 1] = d + l
    BY <1>4 DEF PartAt
  <2>4. S[i] <= S[P] /\ m.from[P] = S[P] /\ m.from[i] = S[i] /\ m.from[k] = S[k]
    BY <1>4, <1>12, <2>1
  <2>5. m.data[k] = d /\ d = S[k] + Edge(k) + HeaderLength + 2
    BY <1>12, <2>1 DEF DataAt
  <2>6. m.length[i] = l
    <3> HIDE DEF i
    <3> QED
      BY <1>12, <2>1
  <2>7. Done(i) = t /\ Next(k) = t
    <3> HIDE DEF i
    <3> QED
      BY <2>1
  <2>8. m.before[i] = W[t] /\ m.at[k] = W[t - 1]
    <3> HIDE DEF i, t, Done, Next
    <3> QED
      BY <1>12, <2>1, <2>7
  <2> HIDE DEF t, l, d
  <2>9. W[t] = W[t - 1] + l
    <3>1. R[t] = R[t - 1] \o Bytes(t)
      BY <1>5, <2>2
    <3>2. Bytes(t) \in Seq(Alphabet) /\ Len(Bytes(t)) = l
      <4> DEFINE size == taskList[t].size
      <4>1. size = taskList[t].size /\ size = l
        BY DEF l, t, PartLength
      <4> HIDE DEF size
      <4> QED
        BY <2>2, <4>1, BytesAre DEF n
    <3>3. /\ R[t - 1] \in Seq(Alphabet) /\ W[t - 1] = Len(R[t - 1]) /\ W[t] = Len(R[t])
      BY <1>7, <2>2
    <3>4. Len(R[t - 1] \o Bytes(t)) = Len(R[t - 1]) + Len(Bytes(t))
      BY <3>2, <3>3, ConcatProperties
    <3> QED
      BY <3>1, <3>2, <3>3, <3>4
  <2>10. W[t] \in 0..Len(Rebuilt)
    BY <1>7, <2>2
  <2>11. /\ m.data[k] = m.from[k] + Edge(k) + HeaderLength + 2
         /\ m.length[k + 1] = l /\ l > 0
         /\ m.from[k + 1] = m.data[k] + l
         /\ m.before[k + 1] = m.at[k] + l
         /\ m.before[k + 1] <= Len(Rebuilt) /\ m.from[k + 1] <= m.from[P]
    <3>1. k + 1 = i
      OBVIOUS
    <3>2. W[t] <= Len(Rebuilt) /\ l > 0
      BY <1>6, <2>2, <2>10
    <3> HIDE DEF i
    <3> QED
      BY <2>3, <2>4, <2>5, <2>6, <2>8, <2>9, <3>1, <3>2
  <2> QED
    BY <2>11 DEF NumbersIn, P, l
<1>16. ASSUME NEW k \in 0..(P - 1) PROVE BytesIn(m, k)
  <2> DEFINE t == TaskOf(k)
             l == PartLength(k)
             d == DataAt(S, k)
             w == m.at[k]
  <2>1. k \in 0..P /\ k # P /\ t \in 1..n /\ t \in 0..n /\ t - 1 \in 0..n /\ l \in Nat \ {0} /\ d \in Nat
    BY <1>1, <1>10
  <2>2. m.from[k] = S[k] /\ m.data[k] = d
    BY <1>12, <2>1
  <2>3. w = W[t - 1]
    <3>1. Next(k) = t
      BY <2>1
    <3> HIDE DEF t, Done, Next
    <3> QED
      BY <1>12, <2>1, <3>1
  <2>4. \A p \in (S[k] + 1)..(d - 2) : Body[p] # End1
    BY <1>4 DEF PartAt
  <2>5. Body[d - 1] = End1 /\ Body[d] = End2
    BY <1>4 DEF PartAt
  <2>6. \A p \in 1..l : Body[d + p] = Bytes(t)[p]
    BY <1>4 DEF PartAt
  <2>7. \A p \in 1..l : Rebuilt[w + p] = Bytes(t)[p]
    <3> DEFINE r == R[t - 1]
               b == Bytes(t)
    <3>1. b \in Seq(Alphabet) /\ Len(b) = l
      <4> DEFINE size == taskList[t].size
      <4>1. size = taskList[t].size /\ size = l
        BY DEF PartLength
      <4> HIDE DEF size, t
      <4> QED
        BY <2>1, <4>1, BytesAre DEF n
    <3>2. r \in Seq(Alphabet) /\ w = Len(r) /\ Starts(R[t], Rebuilt)
      <4> HIDE DEF t, w
      <4> QED
        BY <1>5, <1>7, <2>1, <2>3
    <3>3. R[t] = r \o b
      <4> HIDE DEF t
      <4> QED
        BY <1>5, <2>1
    <3> HIDE DEF r, b, t, l, w
    <3>4. /\ Len(r \o b) = w + l
          /\ \A p \in 1..(w + l) : (r \o b)[p] = IF p <= w THEN r[p] ELSE b[p - w]
      <4>1. /\ Len(r \o b) = Len(r) + Len(b)
            /\ \A p \in 1..(Len(r) + Len(b)) : (r \o b)[p] = IF p <= Len(r) THEN r[p] ELSE b[p - Len(r)]
        BY <3>1, <3>2, ConcatProperties
      <4> QED
        BY <3>1, <3>2, <4>1
    <3>5. \A p \in 1..(w + l) : Rebuilt[p] = (r \o b)[p]
      BY <3>2, <3>3, <3>4 DEF Starts
    <3>6. w \in Nat
      BY <3>2
    <3> TAKE p \in 1..l
    <3> DEFINE q == w + p
    <3>7. q \in 1..(w + l) /\ ~(q <= w) /\ q - w = p
      BY <2>1, <3>6
    <3> HIDE DEF q
    <3>8. Rebuilt[q] = b[p]
      BY <3>4, <3>5, <3>7
    <3> QED
      BY <3>8 DEF q, b
  <2> HIDE DEF t, l, d, w
  <2>8. /\ \A p \in (m.from[k] + 1)..(m.data[k] - 2) : Body[p] # End1
        /\ Body[m.data[k] - 1] = End1 /\ Body[m.data[k]] = End2
        /\ \A p \in 1..l : Body[m.data[k] + p] = Rebuilt[m.at[k] + p]
    BY <2>2, <2>4, <2>5, <2>6, <2>7 DEF w
  <2> QED
    BY <2>8 DEF BytesIn, l
<1>17. IsLaidOut(m)
  <2>1. m.from[P] = S[P] /\ m.from[0] = 0
    BY <1>4, <1>12
  <2> QED
    BY <1>1, <1>4, <1>6, <1>11, <1>13, <1>14, <1>15, <1>16, <2>1 DEF IsLaidOut, P
<1> QED
  BY <1>17

\* The splitter is before part k: it has seen the parts before, and written them.
BeforePart(m, k) ==
    /\ partIndex = k - 1 /\ headerPending = FALSE /\ remainingPartDataCount = 0
    /\ actualPartLength = m.length[k] /\ out = First(Rebuilt, m.before[k])

\* It has copied what is before the data of part k.
BeforeData(m, k) ==
    /\ partIndex = k /\ remainingPartDataCount = 0 /\ ignoreByteCount = 0
    /\ actualPartLength = m.length[k] /\ out = First(Rebuilt, m.at[k])

\* The chunk in work.
Chunk ==
    /\ chunk \in Seq(Alphabet) /\ Len(chunk) <= received
    /\ IsPiece(chunk, Body, received - Len(chunk)) /\ start \in 0..Len(chunk)
\* Where the work is in the body.
Position == received - Len(chunk) + start

\* What was received ends within the boundary before part k,
EndsInBoundary(m, k) ==
    /\ splitterAt = "wait" /\ BeforePart(m, k)
    /\ m.from[k] <= received /\ received <= m.from[k] + Edge(k)
    /\ ignoreByteCount \in Nat
    /\ ignoreByteCount = 0 \/ received + ignoreByteCount = m.from[k] + Edge(k)

\* or within its header,
EndsInHeader(m, k) ==
    /\ splitterAt = "wait" /\ headerPending = TRUE /\ BeforeData(m, k)
    /\ m.from[k] <= received /\ received <= m.data[k] - 2

\* or within its data;
EndsInData(m, k) ==
    /\ splitterAt = "wait" /\ headerPending = FALSE /\ partIndex = k /\ ignoreByteCount = 0
    /\ remainingPartDataCount \in Nat \ {0} /\ actualPartLength \in Nat
    /\ received = m.data[k] + actualPartLength
    /\ actualPartLength + remainingPartDataCount = PartLength(k)
    /\ out = First(Rebuilt, m.at[k] + actualPartLength)

\* or a chunk is in work that goes on, at the part or at its data.
AtPart(m, k) ==
    /\ splitterAt = "next" /\ BeforePart(m, k) /\ ignoreByteCount = 0
    /\ Chunk /\ m.from[k] <= Position /\ Position <= m.from[k] + Edge(k) /\ start < Len(chunk)

AtData(m, k) ==
    /\ splitterAt = "body" /\ headerPending = FALSE /\ BeforeData(m, k)
    /\ Chunk /\ Position = m.data[k]

\* The cases together.
Where(m) ==
    \/ \E k \in 0..PartCount : EndsInBoundary(m, k) \/ AtPart(m, k)
    \/ \E k \in 0..(PartCount - 1) : EndsInHeader(m, k) \/ EndsInData(m, k) \/ AtData(m, k)

\* The inductive invariant.
SplitterInv ==
    /\ taskList \in TaskLists /\ PartCount >= 2
    /\ received \in 0..Len(Body) /\ (received > 0 => Body[received] # End1)
    /\ \E m : /\ IsLaidOut(m)
              /\ \/ result = "pending" /\ Where(m)
                 \/ result = "resolved" /\ splitterAt = "wait" /\ out = Rebuilt

-----------------------------------------------------------------------------
\* The response and the file are those of the tasks, which no step changes.
LEMMA Fixed ==
  ASSUME taskList' = taskList
  PROVE  /\ Body' = Body /\ Rebuilt' = Rebuilt /\ PartCount' = PartCount
         /\ \A m : IsLaidOut(m) => IsLaidOut(m)'
         /\ \A k : PartLength(k)' = PartLength(k)
<1>1. /\ Downloads' = Downloads /\ PartCount' = PartCount /\ Rebuilt' = Rebuilt
  BY DEF Downloads, PartCount, Rebuilt, Bytes
<1>2. Body' = Body
  BY <1>1 DEF Body, Part, Bytes, TaskOf, Downloads, PartCount
<1>3. \A k : PartLength(k)' = PartLength(k)
  BY <1>1 DEF PartLength, TaskOf
<1>4. ASSUME NEW m, IsLaidOut(m) PROVE IsLaidOut(m)'
  <2>1. (m \in Layouts)' <=> m \in Layouts
    BY <1>1 DEF Layouts
  <2>2. ASSUME NEW k PROVE CopiesBefore(k)' = CopiesBefore(k)
    BY <1>1 DEF CopiesBefore, Copies, Bytes, TaskOf
  <2>3. ASSUME NEW k PROVE CopiedIn(m, k)' <=> CopiedIn(m, k)
    BY <1>1, <2>2 DEF CopiedIn
  <2>4. ASSUME NEW k PROVE NumbersIn(m, k)' <=> NumbersIn(m, k)
    BY <1>1, <1>3 DEF NumbersIn
  <2>5. ASSUME NEW k PROVE BytesIn(m, k)' <=> BytesIn(m, k)
    BY <1>1, <1>2, <1>3 DEF BytesIn
  <2>6. /\ PartCount' \in Nat /\ (m \in Layouts)'
        /\ Body' \in Seq(Alphabet) /\ Len(Body') = m.from[PartCount'] + BoundaryLength + 2
        /\ Rebuilt' \in Seq(Alphabet) /\ m.at[PartCount'] = Len(Rebuilt')
        /\ m.from[0] = 0 /\ m.length[0] = 0 /\ m.before[0] = 0
    BY <1>1, <1>2, <1>4, <2>1 DEF IsLaidOut
  <2>7. \A k \in 0..PartCount' : CopiedIn(m, k)'
    BY <1>1, <1>4, <2>3 DEF IsLaidOut
  <2>8. \A k \in 0..(PartCount' - 1) : NumbersIn(m, k)' /\ BytesIn(m, k)'
    BY <1>1, <1>4, <2>4, <2>5 DEF IsLaidOut
  <2> QED
    BY <2>6, <2>7, <2>8 DEF IsLaidOut
<1> QED
  BY <1>1, <1>2, <1>3, <1>4

\* Where the header of part k ends in a chunk, if it does.
LEMMA HeaderEnds ==
  ASSUME NEW m, IsLaidOut(m), NEW k \in 0..(PartCount - 1), NEW c \in Seq(Alphabet), NEW base \in Nat,
         IsPiece(c, Body, base), NEW from \in Nat, m.from[k] <= base + from, base + from <= m.data[k] - 2,
         base + Len(c) # m.data[k] - 1
  PROVE  HeaderListEnd(c, from) = IF m.data[k] <= base + Len(c) THEN m.data[k] - base ELSE -1
<1> DEFINE d == m.data[k]
           s == m.from[k]
           l == Len(c)
           e == d - 2 - base
           found == {q \in from..(l - 2) : c[q + 1] = End1 /\ c[q + 2] = End2}
<1>1. /\ d \in Nat /\ s \in Nat /\ l \in Nat
      /\ \A p \in (s + 1)..(d - 2) : Body[p] # End1
      /\ Body[d - 1] = End1 /\ Body[d] = End2
  <2>1. k \in 0..PartCount /\ m \in Layouts /\ BytesIn(m, k)
    BY DEF IsLaidOut
  <2>2. d \in Nat /\ s \in Nat
    BY <2>1 DEF Layouts
  <2> QED
    BY <2>1, <2>2 DEF BytesIn
<1>2. \A p \in 1..l : c[p] = Body[base + p]
  BY DEF IsPiece
<1>3. s <= base + from /\ base + from <= d - 2 /\ base + l # d - 1
  OBVIOUS
<1> HIDE DEF d, s, l
<1>4. ASSUME NEW q \in from..(l - 2), q < e PROVE q \notin found
  <2> DEFINE p == q + 1
  <2>1. p \in 1..l /\ base + p \in (s + 1)..(d - 2)
    BY <1>1, <1>3, <1>4
  <2> HIDE DEF p
  <2>2. c[p] # End1
    BY <1>1, <1>2, <2>1
  <2> QED
    BY <2>2 DEF p
<1>5. CASE d <= base + l
  <2>1. e \in found
    <3> DEFINE p == e + 1
               r == e + 2
    <3>1. e \in from..(l - 2) /\ p \in 1..l /\ r \in 1..l /\ base + p = d - 1 /\ base + r = d
      BY <1>1, <1>3, <1>5
    <3> HIDE DEF p, r
    <3>2. c[p] = End1 /\ c[r] = End2
      BY <1>1, <1>2, <3>1
    <3> QED
      BY <3>1, <3>2 DEF p, r
  <2>2. \A q \in found : e <= q
    <3> TAKE q \in found
    <3>1. q \in from..(l - 2) /\ ~(q < e)
      BY <1>4
    <3> QED
      BY <1>1, <3>1
  <2>3. Min(found) = e
    <3> DEFINE Lowest(x) == x \in found /\ \A y \in found : x <= y
               x0 == CHOOSE x : Lowest(x)
    <3>1. Lowest(e)
      BY <2>1, <2>2
    <3>2. Min(found) \in found /\ \A y \in found : Min(found) <= y
      <4>1. \E x \in found : \A y \in found : x <= y
        BY <2>1, <2>2
      <4> HIDE DEF found
      <4> QED
        BY <4>1 DEF Min
    <3>3. Min(found) \in Int /\ e \in Int
      BY <1>1, <3>2
    <3> HIDE DEF found, e
    <3> QED
      BY <2>1, <2>2, <3>2, <3>3
  <2>4. HeaderListEnd(c, from) = Min(found) + 2
    BY <2>1 DEF HeaderListEnd, l
  <2> HIDE DEF found
  <2> QED
    BY <1>1, <1>5, <2>3, <2>4 DEF d, l
<1>6. CASE ~(d <= base + l)
  <2>1. found = {}
    <3> SUFFICES ASSUME NEW q \in found PROVE FALSE
      OBVIOUS
    <3>1. q \in from..(l - 2)
      OBVIOUS
    <3>2. q < e
      BY <1>1, <1>3, <1>6, <3>1
    <3> QED
      BY <1>4, <3>1, <3>2
  <2> QED
    BY <1>6, <2>1 DEF HeaderListEnd, d, l
<1> QED
  BY <1>5, <1>6

\* What the layout says of the numbers of part k,
PartFits(m, k) ==
    /\ m.from[k] \in Nat /\ m.data[k] \in Nat /\ m.length[k] \in Nat /\ m.before[k] \in Nat /\ m.at[k] \in Nat
    /\ m.before[k] <= m.at[k] /\ m.at[k] <= Len(Rebuilt)
    /\ m.from[k] + Edge(k) < Len(Body) /\ Edge(k) \in Nat /\ Edge(k) > 0
    /\ Len(Rebuilt) \in Nat /\ Len(Body) \in Nat

\* The numbers of a part, as the steps below use them,
LEMMA PartNumbers ==
  ASSUME NEW m, IsLaidOut(m), NEW k \in 0..PartCount
  PROVE  PartFits(m, k)
<1>1. /\ m \in Layouts /\ CopiedIn(m, k) /\ Len(Body) = m.from[PartCount] + BoundaryLength + 2
      /\ PartCount \in Nat /\ Body \in Seq(Alphabet) /\ Rebuilt \in Seq(Alphabet) /\ PartCount \in 0..PartCount
  BY DEF IsLaidOut
<1>2. /\ m.from[k] \in Nat /\ m.data[k] \in Nat /\ m.length[k] \in Nat /\ m.before[k] \in Nat /\ m.at[k] \in Nat
      /\ m.from[PartCount] \in Nat
  BY <1>1 DEF Layouts
<1>3. Edge(k) \in Nat /\ Edge(k) > 0 /\ Edge(k) <= BoundaryLength /\ BoundaryLength \in Nat
  BY SplitterAssumption DEF Edge
<1>4. m.before[k] <= m.at[k] /\ m.at[k] <= Len(Rebuilt) /\ m.from[k] <= m.from[PartCount]
  BY <1>1 DEF CopiedIn
<1>5. m.from[k] + Edge(k) < Len(Body)
  BY <1>1, <1>2, <1>3, <1>4
<1> QED
  BY <1>1, <1>2, <1>3, <1>4, <1>5 DEF PartFits

\* and of part k with its data and the part i that comes next.
DataFits(m, k, i) ==
    /\ k \in 0..PartCount /\ i \in 0..PartCount /\ i - 1 = k /\ k \in Nat /\ k # PartCount
    /\ PartLength(k) \in Nat /\ PartLength(k) > 0 /\ Edge(i) = BoundaryLength
    /\ m.data[k] \in Nat /\ m.from[k] \in Nat /\ m.at[k] \in Nat
    /\ m.from[k] + Edge(k) <= m.data[k] - 2
    /\ m.length[i] = PartLength(k) /\ m.from[i] = m.data[k] + PartLength(k)
    /\ m.before[i] = m.at[k] + PartLength(k) /\ m.before[i] <= Len(Rebuilt)
    /\ m.from[i] + BoundaryLength < Len(Body)

\* and those of a part and the one after it.
LEMMA MorePartNumbers ==
  ASSUME NEW m, IsLaidOut(m), NEW k \in 0..(PartCount - 1), NEW i, i = k + 1
  PROVE  DataFits(m, k, i)
<1>1. PartCount \in Nat /\ NumbersIn(m, k) /\ m \in Layouts
  BY DEF IsLaidOut
<1>2. k \in 0..PartCount /\ i \in 0..PartCount /\ i - 1 = k /\ k \in Nat /\ i # 0 /\ k # PartCount
  BY <1>1
<1>3. m.from[k] \in Nat /\ m.data[k] \in Nat /\ m.at[k] \in Nat /\ Edge(k) \in Nat
  BY <1>2, PartNumbers DEF PartFits
<1>4. m.from[i] \in Nat /\ m.from[i] + Edge(i) < Len(Body)
  BY <1>2, PartNumbers DEF PartFits
<1>5. Edge(i) = BoundaryLength
  BY <1>2 DEF Edge
<1>6. m.length[i] \in Nat /\ m.length[i] = PartLength(k)
  BY <1>1, <1>2 DEF NumbersIn, Layouts
<1>7. HeaderLength \in Nat
  BY SplitterAssumption
<1>8. /\ m.data[k] = m.from[k] + Edge(k) + HeaderLength + 2 /\ PartLength(k) > 0
      /\ m.from[i] = m.data[k] + PartLength(k)
      /\ m.before[i] = m.at[k] + PartLength(k) /\ m.before[i] <= Len(Rebuilt)
  BY <1>1 DEF NumbersIn
<1>9. m.from[k] + Edge(k) <= m.data[k] - 2
  BY <1>3, <1>7, <1>8
<1> QED
  BY <1>2, <1>3, <1>4, <1>5, <1>6, <1>8, <1>9 DEF DataFits

\* Bytes of a part that were taken from the body go on in the file.
Writes(w, s, l) == First(Rebuilt, w) \o s = First(Rebuilt, w + l)

\* Data of part k is what comes next in the file.
LEMMA DataGoesOn ==
  ASSUME NEW m, IsLaidOut(m), NEW k \in 0..(PartCount - 1), NEW a \in Nat, NEW s \in Seq(Alphabet),
         NEW f, f = m.data[k] + a, IsPiece(s, Body, f), NEW l, l = Len(s), a + l <= PartLength(k),
         NEW w, w = m.at[k] + a
  PROVE  Writes(w, s, l)
<1>1. /\ m.data[k] \in Nat /\ m.at[k] \in Nat /\ PartLength(k) \in Nat /\ Len(Rebuilt) \in Nat
      /\ m.at[k] + PartLength(k) <= Len(Rebuilt)
  <2> DEFINE i == k + 1
  <2>1. i = k + 1
    OBVIOUS
  <2> HIDE DEF i
  <2>2. k \in 0..PartCount
    BY DEF IsLaidOut
  <2>3. Len(Rebuilt) \in Nat
    BY <2>2, PartNumbers DEF PartFits
  <2>4. /\ m.data[k] \in Nat /\ m.at[k] \in Nat /\ PartLength(k) \in Nat
        /\ m.before[i] = m.at[k] + PartLength(k) /\ m.before[i] <= Len(Rebuilt)
    BY <2>1, MorePartNumbers DEF DataFits
  <2> QED
    BY <2>3, <2>4
<1>2. (\A p \in 1..PartLength(k) : Body[m.data[k] + p] = Rebuilt[m.at[k] + p]) /\ Rebuilt \in Seq(Alphabet)
  BY DEF IsLaidOut, BytesIn
<1> DEFINE d == m.data[k]
           v == m.at[k]
<1>3. \A p \in 1..l : s[p] = Body[f + p]
  BY DEF IsPiece
<1>4. l \in Nat /\ w \in Nat
  BY <1>1
<1>5. ASSUME NEW p \in 1..l PROVE Rebuilt[w + p] = s[p]
  <2> DEFINE q == a + p
  <2>1. q \in 1..PartLength(k) /\ d + q = f + p /\ v + q = w + p
    <3>1. d \in Nat /\ v \in Nat /\ w = v + a /\ PartLength(k) \in Nat /\ f = d + a
      BY <1>1
    <3> HIDE DEF d, v
    <3>2. q \in 1..PartLength(k)
      BY <1>4, <3>1
    <3> QED
      BY <1>4, <3>1, <3>2
  <2> HIDE DEF q, d, v
  <2>2. Body[d + q] = Rebuilt[v + q]
    BY <1>2, <2>1 DEF d, v
  <2>3. s[p] = Body[f + p]
    BY <1>3
  <2> QED
    BY <2>1, <2>2, <2>3
<1>6. GoesOnAt(s, Rebuilt, w)
  <2>1. w + l <= Len(Rebuilt)
    <3> DEFINE x == PartLength(k)
               r == Len(Rebuilt)
    <3>1. /\ v \in Nat /\ x \in Nat /\ r \in Nat /\ l \in Nat
          /\ v + x <= r /\ a + l <= x /\ w = v + a
      BY <1>1, <1>4
    <3> HIDE DEF v, x, r
    <3>2. w + l <= r
      BY <3>1
    <3> QED
      BY <3>2 DEF r
  <2>2. w + Len(s) <= Len(Rebuilt)
    BY <2>1, Zenon
  <2>3. \A p \in 1..Len(s) : Rebuilt[w + p] = s[p]
    BY <1>5, Zenon
  <2> QED
    BY <2>2, <2>3, Zenon DEF GoesOnAt
<1>7. First(Rebuilt, w) \o s = First(Rebuilt, w + l)
  <2> DEFINE file == Rebuilt
  <2>1. file \in Seq(Alphabet)
    BY <1>2
  <2>2. w \in Nat /\ l = Len(s) /\ GoesOnAt(s, file, w)
    BY <1>4, <1>6
  <2> HIDE DEF file
  <2>3. s \in Seq(Alphabet)
    OBVIOUS
  <2>4. GoesOn(s, file, w, l)
    BY <2>1, <2>2, <2>3, FirstGoesOn
  <2> QED
    BY <2>4 DEF file, GoesOn
<1> QED
  BY <1>7 DEF Writes

-----------------------------------------------------------------------------
\* A chunk arrives

\* What handleData skips of a chunk, and what it reads of a part that goes on.
ToIgnore(n) == Least(ignoreByteCount, n)
ToRead(n) == IF ignoreByteCount > 0 THEN 0 ELSE Least(remainingPartDataCount, n)

\* A chunk of n bytes is the next piece of the body.
Received(n) ==
    /\ chunk' \in Seq(Alphabet) /\ Len(chunk') = n /\ IsPiece(chunk', Body, received)
    /\ received' = received + n /\ received' \in 0..Len(Body) /\ Body[received'] # End1
    /\ taskList' = taskList /\ partIndex' = partIndex /\ result' = result
    /\ Body' = Body /\ Rebuilt' = Rebuilt /\ PartCount' = PartCount

\* So it is with every chunk that handleData is called with.
LEMMA ReceivedIs ==
  ASSUME ~SplitHeaders, Body \in Seq(Alphabet), received \in 0..Len(Body), NEW n \in 1..Len(Body), Receive(n)
  PROVE  Received(n)
<1> DEFINE c == SubSeq(Body, received + 1, received + n)
<1>1. /\ received + n <= Len(Body) /\ Last(c) # End1 /\ received' = received + n /\ chunk' = c
      /\ taskList' = taskList /\ partIndex' = partIndex /\ result' = result
  BY DEF Receive
<1>2. received \in Nat /\ received + n \in received..Len(Body) /\ received + n - received = n
  BY <1>1
<1>3. c \in Seq(Alphabet) /\ Len(c) = n /\ IsPiece(c, Body, received)
  <2> DEFINE j == received + n
  <2>1. j \in received..Len(Body) /\ c = SubSeq(Body, received + 1, j) /\ j - received = n
    BY <1>2
  <2> HIDE DEF c, j
  <2> DEFINE i == received
  <2>2. i \in Nat /\ j \in i..Len(Body) /\ c = SubSeq(Body, i + 1, j)
    BY <1>2, <2>1
  <2> HIDE DEF i
  <2>4. IsCut(Alphabet, Body, i, j, c)
    BY <2>2, PieceIs
  <2>3. c \in Seq(Alphabet) /\ Len(c) = j - i /\ IsPiece(c, Body, i)
    BY <2>4 DEF IsCut
  <2> QED
    BY <2>1, <2>3 DEF i
<1> HIDE DEF c
<1>4. Body[received'] # End1
  <2>1. c[n] = Body[received + n]
    BY <1>3 DEF IsPiece
  <2> QED
    BY <1>1, <1>3, <2>1 DEF Last
<1>5. Body' = Body /\ Rebuilt' = Rebuilt /\ PartCount' = PartCount
  BY <1>1, Fixed
<1> QED
  BY <1>1, <1>2, <1>3, <1>4, <1>5 DEF Received

\* What handleData does first with a chunk: it skips, reads on, and looks for the end
\* of a header it has seen the beginning of.
LEMMA ReceivedRead ==
  ASSUME NEW n \in Nat, Receive(n)
  PROVE  /\ ignoreByteCount' = ignoreByteCount - ToIgnore(n)
         /\ remainingPartDataCount' = remainingPartDataCount - ToRead(n)
         /\ actualPartLength' = actualPartLength + ToRead(n)
         /\ out' = out \o SubSeq(chunk', 1, ToRead(n))
         /\ \/ /\ ToIgnore(n) + ToRead(n) = n /\ splitterAt' = "wait" /\ headerPending' = headerPending
            \/ /\ ToIgnore(n) + ToRead(n) < n /\ headerPending = FALSE
               /\ splitterAt' = "next" /\ start' = ToIgnore(n) + ToRead(n) /\ headerPending' = headerPending
            \/ /\ ToIgnore(n) + ToRead(n) < n /\ headerPending
               /\ LET e == HeaderListEnd(chunk', ToIgnore(n) + ToRead(n))
                  IN IF e = -1
                     THEN splitterAt' = "wait" /\ headerPending' = headerPending
                     ELSE splitterAt' = "body" /\ start' = e /\ headerPending' = FALSE
  BY DEF Receive, ToIgnore, ToRead

\* Reading nothing writes nothing.
LEMMA NothingRead ==
  ASSUME NEW A, NEW c \in Seq(A), NEW r, r = 0
  PROVE  SubSeq(c, 1, r) = <<>>
<1>1. 0 \in 0..Len(c)
  OBVIOUS
<1>2. First(c, 0) \in Seq(A) /\ Len(First(c, 0)) = 0
  BY <1>1, FirstIs
<1> QED
  BY <1>2 DEF First

\* A chunk after one that ended in the boundary before a part.
LEMMA AfterBoundary ==
  ASSUME ~SplitHeaders, NEW m, IsLaidOut(m), NEW k \in 0..PartCount, received \in 0..Len(Body),
         EndsInBoundary(m, k), NEW n \in 1..Len(Body), Receive(n)
  PROVE  Received(n) /\ (EndsInBoundary(m, k)' \/ AtPart(m, k)')
<1>1. Received(n) /\ n \in Nat /\ n > 0 /\ received \in Nat /\ Body \in Seq(Alphabet)
  <2>1. Body \in Seq(Alphabet) /\ received \in Nat
    BY DEF IsLaidOut
  <2> QED
    BY <2>1, ReceivedIs
<1>2. /\ m.from[k] \in Nat /\ Edge(k) \in Nat /\ m.before[k] \in Nat /\ m.before[k] <= Len(Rebuilt)
      /\ Rebuilt \in Seq(Alphabet) /\ m.length[k] \in Nat
  <2>1. PartFits(m, k) /\ Rebuilt \in Seq(Alphabet)
    BY PartNumbers DEF IsLaidOut
  <2>2. m.before[k] \in Nat /\ m.at[k] \in Nat /\ m.before[k] <= m.at[k] /\ m.at[k] <= Len(Rebuilt) /\ Len(Rebuilt) \in Nat
    BY <2>1 DEF PartFits
  <2>3. m.from[k] \in Nat /\ Edge(k) \in Nat /\ m.length[k] \in Nat
    BY <2>1 DEF PartFits
  <2> QED
    BY <2>1, <2>2, <2>3
<1>3. /\ partIndex = k - 1 /\ headerPending = FALSE /\ remainingPartDataCount = 0
      /\ actualPartLength = m.length[k] /\ out = First(Rebuilt, m.before[k])
      /\ m.from[k] <= received /\ received <= m.from[k] + Edge(k)
      /\ ignoreByteCount \in Nat
      /\ ignoreByteCount = 0 \/ received + ignoreByteCount = m.from[k] + Edge(k)
  BY DEF EndsInBoundary, BeforePart
<1> DEFINE ignore == ToIgnore(n)
           read == ToRead(n)
           at == m.from[k] + Edge(k)
<1>5. ignoreByteCount \in Nat /\ ignore \in Nat /\ ignore <= n /\ ignore <= ignoreByteCount /\ read = 0
      /\ (ignore < n => ignore = ignoreByteCount)
  BY <1>1, <1>2, <1>3 DEF ToIgnore, ToRead, Least
<1> HIDE DEF ignore, read
<1>6. /\ ignoreByteCount' = ignoreByteCount - ignore
      /\ remainingPartDataCount' = remainingPartDataCount - read
      /\ actualPartLength' = actualPartLength + read
      /\ out' = out \o SubSeq(chunk', 1, read)
      /\ \/ /\ ignore + read = n /\ splitterAt' = "wait" /\ headerPending' = headerPending
         \/ /\ ignore + read < n
            /\ splitterAt' = "next" /\ start' = ignore + read /\ headerPending' = headerPending
  BY <1>1, <1>3, ReceivedRead DEF ignore, read
<1>7. out' = out
  <2>1. out \in Seq(Alphabet)
    <3>1. m.before[k] \in 0..Len(Rebuilt)
      BY <1>2
    <3> QED
      BY <1>2, <1>3, <3>1, FirstIs
  <2>2. SubSeq(chunk', 1, read) = <<>>
    BY <1>1, <1>5, NothingRead DEF Received
  <2> QED
    BY <1>6, <2>1, <2>2, ConcatEmptySeq
<1>8. /\ received' = received + n /\ partIndex' = partIndex /\ Rebuilt' = Rebuilt
      /\ chunk' \in Seq(Alphabet) /\ Len(chunk') = n /\ IsPiece(chunk', Body, received) /\ Body' = Body
  BY <1>1 DEF Received
<1>9. /\ partIndex' = k - 1 /\ headerPending' = FALSE /\ remainingPartDataCount' = 0
      /\ actualPartLength' = m.length[k] /\ out' = First(Rebuilt', m.before[k])
  <2>1. actualPartLength' = actualPartLength + 0 /\ remainingPartDataCount' = 0 - 0
    BY <1>3, <1>5, <1>6
  <2>2. actualPartLength' = m.length[k] /\ remainingPartDataCount' = 0
    BY <1>2, <1>3, <2>1
  <2>3. headerPending' = FALSE
    BY <1>3, <1>6
  <2>4. partIndex' = k - 1 /\ out' = First(Rebuilt', m.before[k])
    BY <1>3, <1>7, <1>8
  <2> QED
    BY <2>2, <2>3, <2>4
<1>10. CASE splitterAt' = "wait"
  <2>1. ignore = n
    BY <1>5, <1>6, <1>10
  <2>6. ignoreByteCount' \in Nat
    BY <1>1, <1>5, <1>6
  <2>2. ignoreByteCount' = 0 \/ received' + ignoreByteCount' = m.from[k] + Edge(k)
    <3>1. at = m.from[k] + Edge(k) /\ (ignoreByteCount = 0 \/ received + ignoreByteCount = at)
      BY <1>3
    <3>2. ignoreByteCount' = ignoreByteCount - n /\ n <= ignoreByteCount /\ received' = received + n
      BY <1>5, <1>6, <1>8, <2>1
    <3>3. n \in Nat /\ n > 0 /\ received \in Nat /\ ignoreByteCount \in Nat
      BY <1>1, <1>5
    <3> HIDE DEF at
    <3> QED
      BY <3>1, <3>2, <3>3
  <2>3. m.from[k] <= received' /\ received' <= m.from[k] + Edge(k)
    BY <1>1, <1>2, <1>3, <1>5, <1>8, <2>1
  <2>4. BeforePart(m, k)'
    BY <1>9 DEF BeforePart
  <2>5. EndsInBoundary(m, k)'
    BY <1>10, <2>2, <2>3, <2>4, <2>6 DEF EndsInBoundary
  <2> QED
    BY <1>1, <2>5
<1>11. CASE splitterAt' # "wait"
  <2>1. ignore < n /\ splitterAt' = "next" /\ start' = ignore
    BY <1>5, <1>6, <1>11
  <2>2. ignore = ignoreByteCount /\ ignoreByteCount' = 0
    BY <1>5, <1>6, <2>1
  <2>3. received' - Len(chunk') = received /\ Len(chunk') <= received' /\ start' \in 0..Len(chunk')
    BY <1>1, <1>5, <1>8, <2>1
  <2>4. Chunk'
    BY <1>8, <2>3 DEF Chunk
  <2>5. Position' = received + ignore
    BY <2>1, <2>3 DEF Position
  <2>6. m.from[k] <= Position' /\ Position' <= m.from[k] + Edge(k) /\ start' < Len(chunk')
    BY <1>1, <1>2, <1>3, <1>5, <1>8, <2>1, <2>2, <2>5
  <2>7. BeforePart(m, k)'
    BY <1>9 DEF BeforePart
  <2>8. AtPart(m, k)'
    BY <2>1, <2>2, <2>4, <2>6, <2>7 DEF AtPart
  <2> QED
    BY <1>1, <2>8
<1> QED
  BY <1>10, <1>11

\* A chunk after one that ended in the header of a part.
LEMMA AfterHeader ==
  ASSUME ~SplitHeaders, NEW m, IsLaidOut(m), NEW k \in 0..(PartCount - 1), received \in 0..Len(Body),
         EndsInHeader(m, k), NEW n \in 1..Len(Body), Receive(n)
  PROVE  Received(n) /\ (EndsInHeader(m, k)' \/ AtData(m, k)')
<1>1. Received(n) /\ n \in Nat /\ n > 0 /\ received \in Nat /\ Body \in Seq(Alphabet)
  <2>1. Body \in Seq(Alphabet) /\ received \in Nat
    BY DEF IsLaidOut
  <2> QED
    BY <2>1, ReceivedIs
<1>2. /\ m.from[k] \in Nat /\ m.data[k] \in Nat /\ m.at[k] \in Nat /\ m.at[k] \in 0..Len(Rebuilt)
      /\ Rebuilt \in Seq(Alphabet) /\ m.length[k] \in Nat
  <2>1. PartFits(m, k) /\ Rebuilt \in Seq(Alphabet)
    <3>1. k \in 0..PartCount
      BY DEF IsLaidOut
    <3> QED
      BY <3>1, PartNumbers DEF IsLaidOut
  <2>2. m.at[k] \in Nat /\ m.at[k] <= Len(Rebuilt) /\ Len(Rebuilt) \in Nat
    BY <2>1 DEF PartFits
  <2>3. m.from[k] \in Nat /\ m.data[k] \in Nat /\ m.length[k] \in Nat
    BY <2>1 DEF PartFits
  <2> QED
    BY <2>1, <2>2, <2>3
<1>3. /\ headerPending = TRUE /\ partIndex = k /\ remainingPartDataCount = 0 /\ ignoreByteCount = 0
      /\ actualPartLength = m.length[k] /\ out = First(Rebuilt, m.at[k])
      /\ m.from[k] <= received /\ received <= m.data[k] - 2
  BY DEF EndsInHeader, BeforeData
<1>4. ToIgnore(n) = 0 /\ ToRead(n) = 0 /\ ToIgnore(n) + ToRead(n) = 0
  BY <1>1, <1>3 DEF ToIgnore, ToRead, Least
<1> DEFINE e == HeaderListEnd(chunk', 0)
<1>5. /\ ignoreByteCount' = ignoreByteCount - 0 /\ remainingPartDataCount' = remainingPartDataCount - 0
      /\ actualPartLength' = actualPartLength + 0 /\ out' = out \o SubSeq(chunk', 1, 0)
      /\ \/ e = -1 /\ splitterAt' = "wait" /\ headerPending' = headerPending
         \/ e # -1 /\ splitterAt' = "body" /\ start' = e /\ headerPending' = FALSE
  <2>1. ~(0 = n) /\ 0 < n
    BY <1>1
  <2> HIDE DEF e
  <2> QED
    BY <1>1, <1>3, <1>4, <2>1, ReceivedRead DEF e
<1> HIDE DEF e
<1>6. /\ received' = received + n /\ partIndex' = partIndex /\ Rebuilt' = Rebuilt /\ Body[received'] # End1
      /\ chunk' \in Seq(Alphabet) /\ Len(chunk') = n /\ IsPiece(chunk', Body, received) /\ Body' = Body
  BY <1>1 DEF Received
<1>7. out' = out
  <2>1. out \in Seq(Alphabet)
    BY <1>2, <1>3, FirstIs
  <2>2. SubSeq(chunk', 1, 0) = <<>>
    BY <1>6, NothingRead
  <2> QED
    BY <1>5, <2>1, <2>2, ConcatEmptySeq
<1>8. /\ partIndex' = k /\ remainingPartDataCount' = 0 /\ ignoreByteCount' = 0
      /\ actualPartLength' = m.length[k] /\ out' = First(Rebuilt', m.at[k])
  BY <1>2, <1>3, <1>5, <1>6, <1>7
<1>9. BeforeData(m, k)'
  BY <1>8 DEF BeforeData
<1>10. Body[m.data[k] - 1] = End1
  BY DEF IsLaidOut, BytesIn
<1>11. e = IF m.data[k] <= received + n THEN m.data[k] - received ELSE -1
  <2>1. received + n # m.data[k] - 1
    BY <1>6, <1>10
  <2> DEFINE c == chunk'
             r == received
             z == 0
  <2>2. c \in Seq(Alphabet) /\ r \in Nat /\ IsPiece(c, Body, r) /\ z \in Nat /\ r + Len(c) = received + n
    BY <1>1, <1>6
  <2>3. m.from[k] <= r + z /\ r + z <= m.data[k] - 2 /\ r + Len(c) # m.data[k] - 1
    BY <1>1, <1>3, <2>1, <2>2
  <2> HIDE DEF c, r, z
  <2>4. HeaderListEnd(c, z) = IF m.data[k] <= r + Len(c) THEN m.data[k] - r ELSE -1
    BY <2>2, <2>3, HeaderEnds
  <2> QED
    BY <2>2, <2>4 DEF c, r, z, e
<1>12. CASE m.data[k] <= received + n
  <2>1. e = m.data[k] - received /\ e # -1
    BY <1>1, <1>2, <1>3, <1>11, <1>12
  <2>2. splitterAt' = "body" /\ start' = e /\ headerPending' = FALSE
    BY <1>5, <2>1
  <2>3. received' - Len(chunk') = received /\ Len(chunk') <= received' /\ start' \in 0..Len(chunk')
    <3> DEFINE d == m.data[k]
    <3>1. d \in Nat /\ received \in Nat /\ n \in Nat /\ received <= d - 2 /\ d <= received + n /\ e = d - received
      BY <1>1, <1>2, <1>3, <1>12, <2>1
    <3> HIDE DEF d
    <3>2. e \in 0..n /\ received + n - n = received /\ n <= received + n
      BY <3>1
    <3> QED
      BY <1>6, <2>2, <3>2
  <2>4. Chunk'
    BY <1>6, <2>3 DEF Chunk
  <2>5. Position' = received + e
    BY <2>2, <2>3 DEF Position
  <2>6. Position' = m.data[k]
    BY <1>1, <1>2, <2>1, <2>5
  <2>7. AtData(m, k)'
    BY <1>9, <2>2, <2>4, <2>6 DEF AtData
  <2> QED
    BY <1>1, <2>7
<1>13. CASE ~(m.data[k] <= received + n)
  <2>1. e = -1
    BY <1>11, <1>13
  <2>2. splitterAt' = "wait" /\ headerPending' = TRUE
    BY <1>3, <1>5, <2>1
  <2>3. m.from[k] <= received' /\ received' <= m.data[k] - 2
    <3>1. received + n # m.data[k] - 1
      BY <1>6, <1>10
    <3> DEFINE d == m.data[k]
               f == m.from[k]
    <3>2. d \in Nat /\ f \in Nat /\ f <= received /\ received + n # d - 1 /\ ~(d <= received + n)
      BY <1>2, <1>3, <1>13, <3>1
    <3> HIDE DEF d, f
    <3>3. f <= received + n /\ received + n <= d - 2
      BY <1>1, <3>2
    <3> QED
      BY <1>6, <3>3 DEF d, f
  <2>4. EndsInHeader(m, k)'
    BY <1>9, <2>2, <2>3 DEF EndsInHeader
  <2> QED
    BY <1>1, <2>4
<1> QED
  BY <1>12, <1>13

\* A chunk after one that ended in the data of a part.
LEMMA AfterData ==
  ASSUME ~SplitHeaders, NEW m, IsLaidOut(m), NEW k \in 0..(PartCount - 1), received \in 0..Len(Body),
         EndsInData(m, k), NEW n \in 1..Len(Body), Receive(n), NEW i, i = k + 1
  PROVE  Received(n) /\ (EndsInData(m, k)' \/ EndsInBoundary(m, i)' \/ AtPart(m, i)')
<1>1. Received(n) /\ n \in Nat /\ n > 0 /\ received \in Nat /\ Body \in Seq(Alphabet)
  <2>1. Body \in Seq(Alphabet) /\ received \in Nat
    BY DEF IsLaidOut
  <2> QED
    BY <2>1, ReceivedIs
<1>2. /\ i \in 0..PartCount /\ i - 1 = k /\ PartLength(k) \in Nat /\ Edge(i) = BoundaryLength
      /\ m.data[k] \in Nat /\ m.at[k] \in Nat
      /\ m.length[i] = PartLength(k) /\ m.from[i] = m.data[k] + PartLength(k)
      /\ m.before[i] = m.at[k] + PartLength(k) /\ BoundaryLength \in Nat
  <2>1. DataFits(m, k, i)
    BY MorePartNumbers
  <2> QED
    BY <2>1, SplitterAssumption DEF DataFits
<1> DEFINE a == actualPartLength
           rest == remainingPartDataCount
           read == ToRead(n)
           s == SubSeq(chunk', 1, read)
<1>3. /\ headerPending = FALSE /\ partIndex = k /\ ignoreByteCount = 0
      /\ rest \in Nat /\ rest > 0 /\ a \in Nat
      /\ received = m.data[k] + a /\ a + rest = PartLength(k)
      /\ out = First(Rebuilt, m.at[k] + a)
  BY DEF EndsInData
<1>4. ToIgnore(n) = 0 /\ read = Least(rest, n) /\ read \in Nat /\ read <= n /\ read <= rest
      /\ (read # n => read = rest)
  BY <1>1, <1>3 DEF ToIgnore, ToRead, Least
<1> HIDE DEF read, a, rest
<1>5. /\ ignoreByteCount' = ignoreByteCount - 0 /\ remainingPartDataCount' = rest - read
      /\ actualPartLength' = a + read /\ out' = out \o s
      /\ \/ 0 + read = n /\ splitterAt' = "wait" /\ headerPending' = headerPending
         \/ 0 + read < n /\ splitterAt' = "next" /\ start' = 0 + read /\ headerPending' = headerPending
  BY <1>1, <1>3, <1>4, ReceivedRead DEF read, a, rest
<1>6. /\ received' = received + n /\ partIndex' = partIndex /\ Rebuilt' = Rebuilt
      /\ chunk' \in Seq(Alphabet) /\ Len(chunk') = n /\ IsPiece(chunk', Body, received) /\ Body' = Body
      /\ PartCount' = PartCount /\ taskList' = taskList
  BY <1>1 DEF Received
<1>7. PartLength(k)' = PartLength(k)
  BY <1>6, Fixed
<1>8. s \in Seq(Alphabet) /\ Len(s) = read /\ IsPiece(s, Body, m.data[k] + a)
  <2> DEFINE c == chunk'
             z == 0
  <2>1. c \in Seq(Alphabet) /\ z \in Nat /\ read \in z..Len(c) /\ s = SubSeq(c, z + 1, read)
    BY <1>4, <1>6
  <2>6. Len(c) = n /\ IsPiece(c, Body, received)
    BY <1>6
  <2> HIDE DEF c, z, s
  <2>2. IsCut(Alphabet, c, z, read, s)
    BY <2>1, PieceIs
  <2>3. s \in Seq(Alphabet) /\ Len(s) = read - 0 /\ \A p \in 1..Len(s) : s[p] = c[0 + p]
    BY <2>2 DEF IsCut, IsPiece, z
  <2>4. IsPiece(s, Body, received)
    <3>1. Len(s) = read /\ received + n <= Len(Body) /\ \A p \in 1..n : c[p] = Body[received + p]
      BY <1>4, <2>3, <2>6 DEF IsPiece
    <3>2. received + Len(s) <= Len(Body)
      <4>1. Len(Body) \in Nat
        BY <1>1
      <4> QED
        BY <1>1, <1>4, <3>1, <4>1
    <3>3. \A p \in 1..Len(s) : p \in 1..n /\ 0 + p = p
      BY <1>1, <1>4, <3>1
    <3> QED
      BY <2>3, <3>1, <3>2, <3>3 DEF IsPiece
  <2> QED
    BY <1>3, <1>4, <2>3, <2>4
<1> HIDE DEF s
<1>9. out' = First(Rebuilt', m.at[k] + a + read)
  <2> DEFINE w == m.at[k] + a
             l == read
             t == a
             f == m.data[k] + a
  <2>1. l = Len(s) /\ t + l <= PartLength(k) /\ w = m.at[k] + t /\ t \in Nat /\ w + l = m.at[k] + a + read
    BY <1>2, <1>3, <1>4, <1>8
  <2>2. out = First(Rebuilt, w) /\ IsPiece(s, Body, f) /\ f = m.data[k] + t
    BY <1>3, <1>8
  <2> HIDE DEF w, l, t, f
  <2>3. Writes(w, s, l)
    <3>1. s \in Seq(Alphabet) /\ l = Len(s) /\ IsPiece(s, Body, f) /\ t \in Nat /\ f = m.data[k] + t
      BY <1>8, <2>1, <2>2
    <3>2. t + l <= PartLength(k) /\ w = m.at[k] + t
      BY <2>1
    <3> QED
      BY <3>1, <3>2, DataGoesOn
  <2> QED
    BY <1>5, <1>6, <2>1, <2>2, <2>3 DEF Writes
<1>10. headerPending' = FALSE /\ partIndex' = k /\ ignoreByteCount' = 0 /\ partIndex' = i - 1
  <2>1. headerPending' = headerPending
    BY <1>5
  <2> QED
    BY <1>2, <1>3, <1>5, <1>6, <2>1
<1>11. CASE read < rest
  <2>1. read = n /\ splitterAt' = "wait"
    BY <1>1, <1>4, <1>5, <1>11
  <2>2. remainingPartDataCount' \in Nat \ {0} /\ actualPartLength' \in Nat
    BY <1>3, <1>4, <1>5, <1>11
  <2>3. received' = m.data[k] + actualPartLength'
    <3> DEFINE d == m.data[k]
    <3>1. d \in Nat /\ received = d + a /\ a \in Nat /\ actualPartLength' = a + n /\ received' = received + n
      BY <1>2, <1>3, <1>5, <1>6, <2>1
    <3> HIDE DEF d
    <3>2. received' = d + actualPartLength'
      BY <1>1, <3>1
    <3> QED
      BY <3>2 DEF d
  <2>4. actualPartLength' + remainingPartDataCount' = PartLength(k)'
    BY <1>2, <1>3, <1>4, <1>5, <1>7
  <2>5. out' = First(Rebuilt', m.at[k] + actualPartLength')
    <3>1. m.at[k] + a + read = m.at[k] + actualPartLength'
      <4> DEFINE f == m.at[k]
      <4>1. f \in Nat /\ a \in Nat /\ read \in Nat /\ actualPartLength' = a + read
        BY <1>2, <1>3, <1>4, <1>5
      <4> HIDE DEF f
      <4>2. f + a + read = f + actualPartLength'
        BY <4>1
      <4> QED
        BY <4>2 DEF f
    <3> QED
      BY <1>9, <3>1
  <2>6. EndsInData(m, k)'
    BY <1>10, <2>1, <2>2, <2>3, <2>4, <2>5 DEF EndsInData
  <2> QED
    BY <1>1, <2>6
<1>12. CASE ~(read < rest)
  <2>1. read = rest
    BY <1>3, <1>4, <1>12
  <2>2. remainingPartDataCount' = 0 /\ actualPartLength' = m.length[i]
    BY <1>2, <1>3, <1>4, <1>5, <2>1
  <2>3. out' = First(Rebuilt', m.before[i])
    <3>1. m.at[k] + a + read = m.before[i]
      BY <1>2, <1>3, <1>4, <2>1
    <3> QED
      BY <1>9, <3>1
  <2>4. BeforePart(m, i)'
    BY <1>10, <2>2, <2>3 DEF BeforePart
  <2>5. received + read = m.from[i] /\ m.from[i] \in Nat
    <3> DEFINE d == m.data[k]
               l == PartLength(k)
    <3>1. d \in Nat /\ l \in Nat /\ received = d + a /\ a + rest = l /\ a \in Nat /\ rest \in Nat /\ m.from[i] = d + l
      BY <1>2, <1>3
    <3> HIDE DEF d, l
    <3>2. received + rest = d + l /\ d + l \in Nat
      BY <3>1
    <3> QED
      BY <2>1, <3>1, <3>2
  <2>6. CASE read = n
    <3>1. splitterAt' = "wait"
      BY <1>1, <1>4, <1>5, <2>6
    <3>2. m.from[i] <= received' /\ received' <= m.from[i] + Edge(i)
      BY <1>2, <1>6, <2>5, <2>6
    <3>3. EndsInBoundary(m, i)'
      BY <1>10, <2>4, <3>1, <3>2 DEF EndsInBoundary
    <3> QED
      BY <1>1, <3>3
  <2>7. CASE read # n
    <3>1. splitterAt' = "next" /\ start' = read /\ read < n
      BY <1>1, <1>4, <1>5, <2>7
    <3>2. received' - Len(chunk') = received /\ Len(chunk') <= received' /\ start' \in 0..Len(chunk')
      BY <1>1, <1>4, <1>6, <3>1
    <3>3. Chunk'
      BY <1>6, <3>2 DEF Chunk
    <3>4. Position' = m.from[i]
      BY <2>5, <3>1, <3>2 DEF Position
    <3>5. m.from[i] <= Position' /\ Position' <= m.from[i] + Edge(i) /\ start' < Len(chunk')
      BY <1>2, <1>6, <2>5, <3>1, <3>4
    <3>6. AtPart(m, i)'
      BY <1>10, <2>4, <3>1, <3>3, <3>5 DEF AtPart
    <3> QED
      BY <1>1, <3>6
  <2> QED
    BY <2>6, <2>7
<1> QED
  BY <1>11, <1>12

-----------------------------------------------------------------------------
\* The loop

\* A turn of the loop stays in the chunk.
Kept ==
    /\ taskList' = taskList /\ received' = received /\ chunk' = chunk
    /\ Body' = Body /\ Rebuilt' = Rebuilt /\ PartCount' = PartCount

\* What was counted of the part before is all of it.
LEMMA LengthsMatch ==
  ASSUME NEW m, IsLaidOut(m), NEW k \in 1..PartCount, actualPartLength = m.length[k]
  PROVE  LengthMatches(k - 1)
<1> DEFINE j == k - 1
<1>1. j \in 0..(PartCount - 1) /\ j + 1 = k
  BY DEF IsLaidOut
<1> HIDE DEF j
<1>2. k = j + 1
  BY <1>1
<1>3. DataFits(m, j, k)
  BY <1>1, <1>2, MorePartNumbers
<1> QED
  BY <1>3 DEF DataFits, LengthMatches, j

\* A new part.
LEMMA AtNextPart ==
  ASSUME taskList \in TaskLists, NEW m, IsLaidOut(m), NEW k \in 0..PartCount, PartCount >= 2, received \in 0..Len(Body),
         received > 0 => Body[received] # End1, result = "pending", AtPart(m, k), NextPart
  PROVE  /\ Kept
         /\ \/ result' = "pending" /\ k # PartCount /\ (EndsInHeader(m, k)' \/ AtData(m, k)')
            \/ result' = "resolved" /\ splitterAt' = "wait" /\ out' = Rebuilt
<1>1. Kept
  <2>1. taskList' = taskList /\ received' = received /\ chunk' = chunk
    BY DEF NextPart
  <2> QED
    BY <2>1, Fixed DEF Kept
<1>2. /\ partIndex = k - 1 /\ headerPending = FALSE /\ remainingPartDataCount = 0 /\ ignoreByteCount = 0
      /\ actualPartLength = m.length[k] /\ out = First(Rebuilt, m.before[k])
      /\ m.from[k] <= Position /\ Position <= m.from[k] + Edge(k) /\ start < Len(chunk)
      /\ chunk \in Seq(Alphabet) /\ Len(chunk) <= received
      /\ IsPiece(chunk, Body, received - Len(chunk)) /\ start \in 0..Len(chunk)
  BY DEF AtPart, BeforePart, Chunk
<1>3. PartCount \in Nat /\ Body \in Seq(Alphabet) /\ Rebuilt \in Seq(Alphabet) /\ m.at[PartCount] = Len(Rebuilt)
  BY DEF IsLaidOut
<1>4. partIndex' = k /\ out' = First(Rebuilt, m.at[k])
  <2>1. partIndex' = partIndex + 1 /\ out' = out \o Copies(FirstCopy, NextTask)
    BY DEF NextPart
  <2>2. FirstCopy = IF k = 0 THEN 1 ELSE TaskOf(k - 1) + 1
    BY <1>2 DEF FirstCopy
  <2>3. NextTask = IF k = PartCount THEN Len(taskList) + 1 ELSE TaskOf(k)
    <3>1. partIndex + 1 = k
      BY <1>2, <1>3
    <3> QED
      BY <3>1 DEF NextTask
  <2>4. Copies(FirstCopy, NextTask) = CopiesBefore(k)
    BY <2>2, <2>3 DEF CopiesBefore
  <2>5. First(Rebuilt, m.before[k]) \o CopiesBefore(k) = First(Rebuilt, m.at[k])
    BY DEF IsLaidOut, CopiedIn
  <2> QED
    BY <1>2, <1>3, <2>1, <2>4, <2>5
<1>5. CASE k = PartCount
  <2>1. splitterAt' = "wait" /\ result' = IF LengthMatches(partIndex) THEN "resolved" ELSE "rejected"
    BY <1>1, <1>4, <1>5 DEF NextPart, Finish, Kept
  <2>2. LengthMatches(k - 1)
    <3>1. k \in 1..PartCount
      BY <1>3, <1>5
    <3> QED
      BY <1>2, <3>1, LengthsMatch
  <2>3. result' = "resolved"
    BY <1>2, <2>1, <2>2
  <2>4. out' = Rebuilt
    <3>1. out' = First(Rebuilt, Len(Rebuilt))
      BY <1>3, <1>4, <1>5
    <3> DEFINE n == Len(Rebuilt)
    <3>2. n \in 0..Len(Rebuilt)
      BY <1>3
    <3>3. First(Rebuilt, n) \in Seq(Alphabet) /\ Len(First(Rebuilt, n)) = n
          /\ \A p \in 1..n : First(Rebuilt, n)[p] = Rebuilt[p]
      <4> HIDE DEF n
      <4> QED
        BY <1>3, <3>2, FirstIs
    <3> DEFINE f == First(Rebuilt, n)
    <3>4. f \in Seq(Alphabet) /\ Len(f) = Len(Rebuilt) /\ \A p \in 1..Len(f) : f[p] = Rebuilt[p]
      BY <3>3
    <3> HIDE DEF f
    <3>5. f = Rebuilt
      BY <1>3, <3>4, SeqEqual
    <3> QED
      BY <3>1, <3>5 DEF f
  <2> QED
    BY <1>1, <2>1, <2>3, <2>4
<1>6. CASE k # PartCount
  <2> DEFINE e == HeaderListEnd(chunk, start)
             base == received - Len(chunk)
  <2>1. k \in 0..(PartCount - 1)
    BY <1>3, <1>6
  <2>2. /\ actualPartLength' = actualPartLength /\ result' = result
        /\ ignoreByteCount' = ignoreByteCount /\ remainingPartDataCount' = remainingPartDataCount
        /\ \/ e = -1 /\ splitterAt' = "wait" /\ headerPending' = TRUE
           \/ e # -1 /\ splitterAt' = "body" /\ start' = e /\ headerPending' = headerPending
    BY <1>1, <1>4, <1>6 DEF NextPart, Kept
  <2>3. BeforeData(m, k)'
    BY <1>1, <1>2, <1>4, <2>2 DEF BeforeData, Kept
  <2>4. base \in Nat /\ Len(chunk) \in Nat /\ received \in Nat /\ start \in Nat
        /\ base + Len(chunk) = received /\ base + start = Position
    <3>1. Len(chunk) \in Nat /\ received \in Nat /\ start \in Nat /\ Len(chunk) <= received
      BY <1>2, <1>3
    <3> QED
      BY <3>1 DEF Position
  <2>5. m.from[k] \in Nat /\ m.data[k] \in Nat /\ m.from[k] + Edge(k) <= m.data[k] - 2 /\ Edge(k) \in Nat
    <3> DEFINE i == k + 1
    <3>1. i = k + 1
      OBVIOUS
    <3> HIDE DEF i
    <3>2. DataFits(m, k, i)
      BY <2>1, <3>1, MorePartNumbers
    <3>3. PartFits(m, k)
      BY PartNumbers
    <3> QED
      BY <3>2, <3>3 DEF DataFits, PartFits
  <2>6. received > 0 /\ received # m.data[k] - 1
    <3>1. Body[m.data[k] - 1] = End1
      BY <2>1 DEF IsLaidOut, BytesIn
    <3>2. received > 0
      BY <1>2, <2>4
    <3> QED
      BY <3>1, <3>2
  <2>7. m.from[k] <= base + start /\ base + start <= m.data[k] - 2
    <3> HIDE DEF base
    <3> DEFINE p == base + start
               f == m.from[k]
               d == m.data[k]
               w == Edge(k)
    <3>1. p = Position /\ p \in Nat /\ f \in Nat /\ d \in Nat /\ w \in Nat /\ f + w <= d - 2
      BY <2>4, <2>5
    <3>2. f <= Position /\ Position <= f + w
      BY <1>2
    <3> HIDE DEF p, f, d, w
    <3>3. f <= p /\ p <= d - 2
      BY <3>1, <3>2
    <3> QED
      BY <3>3 DEF p, f, d
  <2>8. e = IF m.data[k] <= received THEN m.data[k] - base ELSE -1
    <3>1. IsPiece(chunk, Body, base)
      BY <1>2
    <3> HIDE DEF base, e
    <3>2. base + Len(chunk) # m.data[k] - 1
      BY <2>4, <2>6
    <3>3. HeaderListEnd(chunk, start) = IF m.data[k] <= base + Len(chunk) THEN m.data[k] - base ELSE -1
      BY <1>2, <2>1, <2>4, <2>7, <3>1, <3>2, HeaderEnds
    <3> QED
      BY <2>4, <3>3 DEF e
  <2> HIDE DEF base, e
  <2>9. CASE m.data[k] <= received
    <3> DEFINE d == m.data[k]
    <3>1. d \in Nat /\ e = d - base /\ base + start <= d - 2 /\ d <= received
      BY <2>5, <2>7, <2>8, <2>9
    <3> HIDE DEF d
    <3>2. e # -1 /\ e \in 0..Len(chunk) /\ base + e = d
      BY <2>4, <3>1
    <3>3. splitterAt' = "body" /\ start' = e /\ headerPending' = FALSE
      BY <1>2, <2>2, <3>2
    <3>4. Chunk'
      BY <1>1, <1>2, <3>2, <3>3 DEF Chunk, Kept
    <3>5. Position' = m.data[k]
      BY <1>1, <3>2, <3>3 DEF Position, Kept, base, d
    <3>6. AtData(m, k)'
      BY <2>3, <3>3, <3>4, <3>5 DEF AtData
    <3> QED
      BY <1>1, <1>6, <2>2, <3>6
  <2>10. CASE ~(m.data[k] <= received)
    <3>1. e = -1
      BY <2>8, <2>10
    <3>2. splitterAt' = "wait" /\ headerPending' = TRUE
      BY <2>2, <3>1
    <3>3. m.from[k] <= received /\ received <= m.data[k] - 2
      <4> DEFINE d == m.data[k]
                 f == m.from[k]
      <4>1. d \in Nat /\ f \in Nat /\ ~(d <= received) /\ received # d - 1 /\ f <= base + start
        BY <2>5, <2>6, <2>7, <2>10
      <4>2. start <= Len(chunk)
        BY <1>2
      <4> HIDE DEF d, f
      <4>3. f <= received /\ received <= d - 2
        BY <2>4, <4>1, <4>2
      <4> QED
        BY <4>3 DEF d, f
    <3>4. EndsInHeader(m, k)'
      BY <1>1, <2>3, <3>2, <3>3 DEF EndsInHeader, Kept
    <3> QED
      BY <1>1, <1>6, <2>2, <3>4
  <2> QED
    BY <2>9, <2>10
<1> QED
  BY <1>5, <1>6

\* The data of a part.
LEMMA AtPartData ==
  ASSUME taskList \in TaskLists, NEW m, IsLaidOut(m), NEW k \in 0..(PartCount - 1), received \in 0..Len(Body),
         result = "pending", AtData(m, k), PartData, NEW i, i = k + 1
  PROVE  /\ Kept /\ result' = "pending"
         /\ EndsInData(m, k)' \/ EndsInBoundary(m, i)' \/ AtPart(m, i)'
<1>1. Kept /\ partIndex' = partIndex /\ headerPending' = headerPending
  <2>1. taskList' = taskList /\ received' = received /\ chunk' = chunk
        /\ partIndex' = partIndex /\ headerPending' = headerPending
    BY DEF PartData
  <2> QED
    BY <2>1, Fixed DEF Kept
<1>2. /\ partIndex = k /\ headerPending = FALSE /\ remainingPartDataCount = 0 /\ ignoreByteCount = 0
      /\ actualPartLength = m.length[k] /\ out = First(Rebuilt, m.at[k]) /\ Position = m.data[k]
      /\ chunk \in Seq(Alphabet) /\ Len(chunk) <= received
      /\ IsPiece(chunk, Body, received - Len(chunk)) /\ start \in 0..Len(chunk)
  BY DEF AtData, BeforeData, Chunk
<1>3. PartCount \in Nat /\ Body \in Seq(Alphabet) /\ Rebuilt \in Seq(Alphabet) /\ m.length[0] = 0
  BY DEF IsLaidOut
<1>4. /\ i \in 0..PartCount /\ i - 1 = k /\ PartLength(k) \in Nat /\ PartLength(k) > 0 /\ Edge(i) = BoundaryLength
      /\ m.data[k] \in Nat /\ m.at[k] \in Nat /\ m.length[i] = PartLength(k)
      /\ m.from[i] = m.data[k] + PartLength(k) /\ m.before[i] = m.at[k] + PartLength(k) /\ BoundaryLength \in Nat
  <2>1. DataFits(m, k, i)
    BY MorePartNumbers
  <2> QED
    BY <2>1, SplitterAssumption DEF DataFits
<1>5. ~(partIndex # 0 /\ ~LengthMatches(partIndex - 1))
  <2> SUFFICES ASSUME k # 0 PROVE LengthMatches(k - 1)
    BY <1>2
  <2>1. k \in 1..PartCount
    BY <1>3
  <2> QED
    BY <1>2, <2>1, LengthsMatch
<1> DEFINE length == PartLength(k)
           end == start + length
           size == Len(chunk)
           effectiveEnd == Least(end, size)
           a == effectiveEnd - start
           base == received - size
           d == m.data[k]
<1>6. /\ size \in Nat /\ start \in Nat /\ start <= size /\ received \in Nat /\ base \in Nat /\ base + size = received
      /\ base + start = d /\ length \in Nat /\ length > 0 /\ d \in Nat
  <2>1. size \in Nat /\ start \in Nat /\ start <= size /\ received \in Nat /\ size <= received
    BY <1>2, <1>3
  <2>2. Position = base + start
    <3> HIDE DEF size
    <3> QED
      BY <2>1 DEF Position, size
  <2>3. base \in Nat /\ base + size = received
    <3> HIDE DEF size
    <3> QED
      BY <2>1
  <2> QED
    BY <1>2, <1>4, <2>1, <2>2, <2>3
<1>7. /\ actualPartLength' = (IF partIndex = 0 THEN actualPartLength ELSE 0) + a
      /\ out' = out \o Slice(start, effectiveEnd)
      /\ remainingPartDataCount' = length - a /\ result' = result
      /\ \/ length - a > 0 /\ splitterAt' = "wait" /\ ignoreByteCount' = ignoreByteCount
         \/ /\ length - a = 0 /\ end + BoundaryLength >= size
            /\ ignoreByteCount' = BoundaryLength - (size - end) /\ splitterAt' = "wait"
         \/ /\ length - a = 0 /\ end + BoundaryLength < size
            /\ start' = end + BoundaryLength /\ splitterAt' = "next" /\ ignoreByteCount' = ignoreByteCount
  BY <1>2, <1>5 DEF PartData, BytesToIgnore
<1> HIDE DEF length, size, base, d
<1>8. /\ end \in Nat /\ effectiveEnd \in start..size /\ effectiveEnd \in Nat
      /\ ((effectiveEnd = end /\ end <= size) \/ (effectiveEnd = size /\ size < end))
      /\ a \in Nat /\ a <= length
  <2> HIDE DEF effectiveEnd
  <2>1. end \in Nat /\ end >= start /\ end - start = length
    BY <1>6
  <2> HIDE DEF end
  <2>2. effectiveEnd = IF end < size THEN end ELSE size
    BY DEF effectiveEnd, Least
  <2>3. effectiveEnd \in start..size /\ effectiveEnd <= end
        /\ ((effectiveEnd = end /\ end <= size) \/ (effectiveEnd = size /\ size < end))
    <3>1. CASE end < size
      <4>1. effectiveEnd = end
        BY <2>2, <3>1
      <4> QED
        BY <1>6, <2>1, <3>1, <4>1
    <3>2. CASE ~(end < size)
      <4>1. effectiveEnd = size
        BY <2>2, <3>2
      <4>2. end = size \/ size < end
        BY <1>6, <2>1, <3>2
      <4> QED
        BY <1>6, <2>1, <4>1, <4>2
    <3> QED
      BY <3>1, <3>2
  <2>4. a \in Nat /\ a <= length
    BY <1>6, <2>1, <2>3
  <2> QED
    BY <1>6, <2>1, <2>3, <2>4
<1>9. actualPartLength' = a
  <2>1. CASE partIndex = 0
    BY <1>2, <1>3, <1>7, <1>8, <2>1
  <2>2. CASE partIndex # 0
    BY <1>7, <1>8, <2>2
  <2> QED
    BY <2>1, <2>2
<1> DEFINE s == Slice(start, effectiveEnd)
<1>10. s \in Seq(Alphabet) /\ Len(s) = a /\ IsPiece(s, Body, d)
  <2> DEFINE c == chunk
             x == start
             y == effectiveEnd
  <2>1. c \in Seq(Alphabet) /\ x \in Nat /\ y \in x..Len(c) /\ s = SubSeq(c, x + 1, y)
    BY <1>2, <1>6, <1>8 DEF Slice, size
  <2>2. y - x = a
    OBVIOUS
  <2> HIDE DEF c, x, y, s
  <2>3. IsCut(Alphabet, c, x, y, s)
    BY <2>1, PieceIs
  <2>4. s \in Seq(Alphabet) /\ Len(s) = a /\ \A p \in 1..Len(s) : s[p] = c[x + p]
    BY <2>2, <2>3 DEF IsCut, IsPiece
  <2>5. base + size <= Len(Body) /\ \A p \in 1..size : c[p] = Body[base + p]
    BY <1>2 DEF IsPiece, c, size, base
  <2>6. Len(Body) \in Nat
    BY <1>3
  <2>7. d + Len(s) <= Len(Body)
    <3> DEFINE bodySize == Len(Body)
               to == effectiveEnd
    <3>1. a = to - start /\ to <= size /\ to \in Nat
      BY <1>6, <1>8
    <3>2. bodySize \in Nat /\ base + size <= bodySize /\ Len(s) = a
      BY <2>4, <2>5, <2>6
    <3> HIDE DEF bodySize, to
    <3>3. d + (to - start) <= bodySize
      BY <1>6, <3>1, <3>2
    <3> QED
      BY <3>1, <3>2, <3>3 DEF bodySize
  <2>8. \A p \in 1..Len(s) : s[p] = Body[d + p]
    <3> TAKE p \in 1..Len(s)
    <3> DEFINE q == x + p
    <3>1. q \in 1..size /\ base + q = d + p
      BY <1>6, <1>8, <2>4 DEF x
    <3> HIDE DEF q
    <3>2. c[q] = Body[base + q]
      BY <2>5, <3>1
    <3> QED
      BY <2>4, <3>1, <3>2 DEF q
  <2> QED
    BY <2>4, <2>7, <2>8 DEF IsPiece
<1> HIDE DEF s
<1>11. out' = First(Rebuilt', m.at[k] + a)
  <2> DEFINE w == m.at[k]
             l == a
             t == 0
             f == d
  <2>1. l = Len(s) /\ t + l <= PartLength(k) /\ w = m.at[k] + t /\ t \in Nat
    BY <1>4, <1>8, <1>10 DEF length
  <2>2. out = First(Rebuilt, w) /\ IsPiece(s, Body, f) /\ f = m.data[k] + t
    BY <1>2, <1>4, <1>10 DEF d
  <2>3. w + l = m.at[k] + a
    OBVIOUS
  <2> HIDE DEF w, l, t, f
  <2>4. Writes(w, s, l)
    <3>1. s \in Seq(Alphabet) /\ l = Len(s) /\ IsPiece(s, Body, f) /\ t \in Nat /\ f = m.data[k] + t
      BY <1>10, <2>1, <2>2
    <3>2. t + l <= PartLength(k) /\ w = m.at[k] + t
      BY <2>1
    <3> QED
      BY <3>1, <3>2, DataGoesOn
  <2> QED
    BY <1>1, <1>7, <2>2, <2>3, <2>4 DEF Writes, Kept, s
<1>12. result' = "pending" /\ received' = received /\ Len(chunk') = size
  BY <1>1, <1>7 DEF Kept, size
<1>13. headerPending' = FALSE /\ partIndex' = k /\ partIndex' = i - 1
  BY <1>1, <1>2, <1>4
<1> HIDE DEF a, end, effectiveEnd
<1>14. CASE length - a > 0
  <2>1. splitterAt' = "wait" /\ ignoreByteCount' = 0
    BY <1>2, <1>7, <1>14
  <2>2. remainingPartDataCount' \in Nat \ {0} /\ actualPartLength' \in Nat
    BY <1>6, <1>7, <1>8, <1>9, <1>14
  <2>3. received' = m.data[k] + actualPartLength'
    <3>1. effectiveEnd = size
      BY <1>6, <1>8, <1>14 DEF a, end
    <3>2. received = d + a
      BY <1>6, <3>1 DEF a
    <3> QED
      BY <1>9, <1>12, <3>2 DEF d
  <2>4. actualPartLength' + remainingPartDataCount' = PartLength(k)'
    <3>1. PartLength(k)' = length
      BY <1>1, Fixed DEF length, Kept
    <3> QED
      BY <1>6, <1>7, <1>8, <1>9, <3>1
  <2>5. EndsInData(m, k)'
    BY <1>9, <1>11, <1>13, <2>1, <2>2, <2>3, <2>4 DEF EndsInData
  <2> QED
    BY <1>1, <1>12, <2>5
<1>15. CASE ~(length - a > 0)
  <2>1. a = length /\ end <= size /\ effectiveEnd = end
    BY <1>6, <1>8, <1>15 DEF a, end
  <2>2. BeforePart(m, i)'
    <3>1. remainingPartDataCount' = 0 /\ actualPartLength' = m.length[i]
      BY <1>4, <1>6, <1>7, <1>9, <2>1 DEF length
    <3>2. out' = First(Rebuilt', m.before[i])
      BY <1>4, <1>11, <2>1 DEF length
    <3> QED
      BY <1>13, <3>1, <3>2 DEF BeforePart
  <2>3. base + end = m.from[i] /\ m.from[i] \in Nat
    <3>1. m.from[i] = d + length
      BY <1>4 DEF d, length
    <3> QED
      BY <1>6, <3>1 DEF end
  <2>4. CASE splitterAt' = "wait"
    <3>1. end + BoundaryLength >= size /\ ignoreByteCount' = BoundaryLength - (size - end)
      BY <1>7, <1>15, <2>4
    <3>2. ignoreByteCount' \in Nat /\ received + ignoreByteCount' = base + end + BoundaryLength
          /\ base + end <= received /\ received <= base + end + BoundaryLength
      BY <1>4, <1>6, <1>8, <2>1, <3>1
    <3>3. EndsInBoundary(m, i)'
      BY <1>4, <1>12, <2>2, <2>3, <2>4, <3>2 DEF EndsInBoundary
    <3> QED
      BY <1>1, <1>12, <3>3
  <2>5. CASE splitterAt' # "wait"
    <3>1. /\ end + BoundaryLength < size /\ start' = end + BoundaryLength /\ splitterAt' = "next"
          /\ ignoreByteCount' = 0
      BY <1>2, <1>7, <1>15, <2>5
    <3>2. start' \in 0..size /\ start' < size /\ base + start' = base + end + BoundaryLength
      BY <1>4, <1>6, <1>8, <3>1
    <3>3. Chunk'
      BY <1>1, <1>2, <3>2 DEF Chunk, Kept, size
    <3>4. Position' = m.from[i] + Edge(i)
      <4>1. Position' = base + start'
        BY <1>1, <1>12 DEF Position, Kept, base
      <4> QED
        BY <1>4, <2>3, <3>2, <4>1
    <3>5. m.from[i] <= Position' /\ Position' <= m.from[i] + Edge(i) /\ start' < Len(chunk')
      BY <1>4, <1>12, <2>3, <3>2, <3>4
    <3>6. AtPart(m, i)'
      BY <2>2, <3>1, <3>3, <3>5 DEF AtPart
    <3> QED
      BY <1>1, <1>12, <3>6
  <2> QED
    BY <2>4, <2>5
<1> QED
  BY <1>14, <1>15

\* The invariant holds before the first chunk,
LEMMA StartsRight == SplitterInit => SplitterInv
<1> SUFFICES ASSUME SplitterInit PROVE SplitterInv
  OBVIOUS
<1>1. /\ taskList \in TaskLists /\ PartCount >= 2 /\ received = 0 /\ splitterAt = "wait" /\ partIndex = -1
      /\ headerPending = FALSE /\ ignoreByteCount = BoundaryLength - 2
      /\ remainingPartDataCount = 0 /\ actualPartLength = 0 /\ out = <<>> /\ result = "pending"
  BY DEF SplitterInit
<1>2. PICK m : IsLaidOut(m)
  BY <1>1, LayoutIs
<1>3. /\ PartCount \in Nat /\ Body \in Seq(Alphabet) /\ Rebuilt \in Seq(Alphabet)
      /\ m.from[0] = 0 /\ m.length[0] = 0 /\ m.before[0] = 0
  BY <1>2 DEF IsLaidOut
<1>4. First(Rebuilt, 0) = <<>>
  <2>1. 0 = 0
    OBVIOUS
  <2> QED
    BY <1>3, NothingRead DEF First
<1>5. received \in 0..Len(Body)
  BY <1>1, <1>3
<1>6. BeforePart(m, 0)
  BY <1>1, <1>3, <1>4 DEF BeforePart
<1>7. BoundaryLength - 2 \in Nat /\ Edge(0) = BoundaryLength - 2
  BY SplitterAssumption DEF Edge
<1>8. EndsInBoundary(m, 0)
  BY <1>1, <1>3, <1>6, <1>7 DEF EndsInBoundary
<1>9. Where(m)
  <2>1. 0 \in 0..PartCount
    BY <1>3
  <2> QED
    BY <1>8, <2>1 DEF Where
<1> QED
  BY <1>1, <1>2, <1>5, <1>9 DEF SplitterInv

\* and every chunk and every turn of the loop keeps it.
LEMMA GoesOnRight == ~SplitHeaders /\ SplitterInv /\ [SplitterNext]_splitterVars => SplitterInv'
<1> SUFFICES ASSUME ~SplitHeaders, SplitterInv, [SplitterNext]_splitterVars PROVE SplitterInv'
  OBVIOUS
<1>1. PICK m : /\ IsLaidOut(m)
               /\ \/ result = "pending" /\ Where(m)
                  \/ result = "resolved" /\ splitterAt = "wait" /\ out = Rebuilt
  BY DEF SplitterInv
<1>2. /\ taskList \in TaskLists /\ PartCount >= 2
      /\ received \in 0..Len(Body) /\ (received > 0 => Body[received] # End1)
  BY DEF SplitterInv
<1>3. PartCount \in Nat
  BY <1>1 DEF IsLaidOut
\* What is left to show of a step that stays where the layout says.
<1>4. ASSUME taskList' = taskList, received' \in 0..Len(Body), received' > 0 => Body[received'] # End1,
             \/ result' = "pending" /\ Where(m)'
             \/ result' = "resolved" /\ splitterAt' = "wait" /\ out' = Rebuilt
      PROVE  SplitterInv'
  <2>1. Body' = Body /\ Rebuilt' = Rebuilt /\ PartCount' = PartCount /\ IsLaidOut(m)'
    BY <1>1, <1>4, Fixed
  <2> QED
    BY <1>2, <1>4, <2>1 DEF SplitterInv
<1>5. ASSUME NEW n \in 1..Len(Body), Receive(n) PROVE SplitterInv'
  <2>1. result = "pending" /\ splitterAt = "wait"
    BY <1>5 DEF Receive
  <2>2. PICK k \in 0..PartCount : EndsInBoundary(m, k)
                                  \/ (k # PartCount /\ (EndsInHeader(m, k) \/ EndsInData(m, k)))
    <3>1. Where(m)
      BY <1>1, <2>1
    <3>2. \A k : ~AtPart(m, k) /\ ~AtData(m, k)
      BY <2>1 DEF AtPart, AtData
    <3>3. \A k \in 0..(PartCount - 1) : k \in 0..PartCount /\ k # PartCount
      BY <1>3
    <3> QED
      BY <3>1, <3>2, <3>3 DEF Where
  <2>3. Received(n) /\ Where(m)'
    <3>1. CASE EndsInBoundary(m, k)
      <4>1. Received(n) /\ (EndsInBoundary(m, k)' \/ AtPart(m, k)')
        BY <1>1, <1>2, <1>5, <2>2, <3>1, AfterBoundary
      <4>2. PartCount' = PartCount
        BY <4>1 DEF Received
      <4> QED
        BY <2>2, <4>1, <4>2 DEF Where
    <3>2. CASE k # PartCount /\ EndsInHeader(m, k)
      <4>1. k \in 0..(PartCount - 1)
        BY <1>3, <2>2, <3>2
      <4>2. Received(n) /\ (EndsInHeader(m, k)' \/ AtData(m, k)')
        BY <1>1, <1>2, <1>5, <3>2, <4>1, AfterHeader
      <4>3. PartCount' = PartCount
        BY <4>2 DEF Received
      <4> QED
        BY <4>1, <4>2, <4>3 DEF Where
    <3>3. CASE k # PartCount /\ EndsInData(m, k)
      <4> DEFINE i == k + 1
      <4>1. k \in 0..(PartCount - 1) /\ i \in 0..PartCount /\ i = k + 1
        BY <1>3, <2>2, <3>3
      <4> HIDE DEF i
      <4>2. Received(n) /\ (EndsInData(m, k)' \/ EndsInBoundary(m, i)' \/ AtPart(m, i)')
        BY <1>1, <1>2, <1>5, <3>3, <4>1, AfterData
      <4>3. PartCount' = PartCount
        BY <4>2 DEF Received
      <4> QED
        BY <4>1, <4>2, <4>3 DEF Where
    <3> QED
      BY <2>2, <3>1, <3>2, <3>3
  <2>4. taskList' = taskList /\ received' \in 0..Len(Body) /\ Body[received'] # End1 /\ result' = "pending"
    BY <2>1, <2>3 DEF Received
  <2> QED
    BY <1>4, <2>3, <2>4
<1>6. ASSUME NextPart PROVE SplitterInv'
  <2>1. splitterAt = "next"
    BY <1>6 DEF NextPart
  <2>2. PICK k \in 0..PartCount : AtPart(m, k) /\ result = "pending"
    <3>1. result = "pending" /\ Where(m)
      BY <1>1, <2>1
    <3>2. \A k : ~EndsInBoundary(m, k) /\ ~EndsInHeader(m, k) /\ ~EndsInData(m, k) /\ ~AtData(m, k)
      BY <2>1 DEF EndsInBoundary, EndsInHeader, EndsInData, AtData
    <3> QED
      BY <3>1, <3>2 DEF Where
  <2>3. /\ Kept
        /\ \/ result' = "pending" /\ k # PartCount /\ (EndsInHeader(m, k)' \/ AtData(m, k)')
           \/ result' = "resolved" /\ splitterAt' = "wait" /\ out' = Rebuilt
    BY <1>1, <1>2, <1>6, <2>2, AtNextPart
  <2>4. /\ taskList' = taskList /\ received' \in 0..Len(Body) /\ (received' > 0 => Body[received'] # End1)
        /\ PartCount' = PartCount
    BY <1>2, <2>3 DEF Kept
  <2>5. CASE result' = "pending"
    <3>1. k \in 0..(PartCount - 1)
      BY <1>3, <2>3, <2>5
    <3>2. Where(m)'
      BY <2>3, <2>4, <2>5, <3>1 DEF Where
    <3> QED
      BY <1>4, <2>4, <2>5, <3>2
  <2>6. CASE result' # "pending"
    BY <1>4, <2>3, <2>4, <2>6
  <2> QED
    BY <2>5, <2>6
<1>7. ASSUME PartData PROVE SplitterInv'
  <2>1. splitterAt = "body"
    BY <1>7 DEF PartData
  <2>2. PICK k \in 0..(PartCount - 1) : AtData(m, k) /\ result = "pending"
    <3>1. result = "pending" /\ Where(m)
      BY <1>1, <2>1
    <3>2. \A k : ~EndsInBoundary(m, k) /\ ~EndsInHeader(m, k) /\ ~EndsInData(m, k) /\ ~AtPart(m, k)
      BY <2>1 DEF EndsInBoundary, EndsInHeader, EndsInData, AtPart
    <3> QED
      BY <3>1, <3>2 DEF Where
  <2> DEFINE i == k + 1
  <2>3. i \in 0..PartCount /\ i = k + 1
    BY <1>3
  <2> HIDE DEF i
  <2>4. /\ Kept /\ result' = "pending"
        /\ EndsInData(m, k)' \/ EndsInBoundary(m, i)' \/ AtPart(m, i)'
    BY <1>1, <1>2, <1>7, <2>2, <2>3, AtPartData
  <2>5. /\ taskList' = taskList /\ received' \in 0..Len(Body) /\ (received' > 0 => Body[received'] # End1)
        /\ PartCount' = PartCount
    BY <1>2, <2>4 DEF Kept
  <2>6. Where(m)'
    BY <2>3, <2>4, <2>5 DEF Where
  <2> QED
    BY <1>4, <2>4, <2>5, <2>6
<1>8. ASSUME UNCHANGED splitterVars PROVE SplitterInv'
  <2>1. /\ taskList' = taskList /\ received' = received /\ chunk' = chunk /\ start' = start /\ splitterAt' = splitterAt
        /\ out' = out /\ result' = result /\ partIndex' = partIndex /\ headerPending' = headerPending
        /\ ignoreByteCount' = ignoreByteCount /\ remainingPartDataCount' = remainingPartDataCount
        /\ actualPartLength' = actualPartLength
    BY <1>8 DEF splitterVars, parserVars
  <2>2. Body' = Body /\ Rebuilt' = Rebuilt /\ PartCount' = PartCount /\ \A k : PartLength(k)' = PartLength(k)
    BY <2>1, Fixed
  <2>3. Where(m) => Where(m)'
    BY <2>1, <2>2 DEF Where, EndsInBoundary, EndsInHeader, EndsInData, AtPart, AtData, BeforePart, BeforeData,
       Chunk, Position
  <2> QED
    BY <1>1, <1>2, <1>4, <2>1, <2>3
<1> QED
  BY <1>5, <1>6, <1>7, <1>8 DEF SplitterNext

\* It is an invariant of the splitter.
LEMMA SplitterKeepsRight == ~SplitHeaders => (SplitterSpec => []SplitterInv)
<1> SUFFICES ASSUME ~SplitHeaders PROVE SplitterSpec => []SplitterInv
  OBVIOUS
<1>1. SplitterInit => SplitterInv
  BY StartsRight
<1>2. SplitterInv /\ [SplitterNext]_splitterVars => SplitterInv'
  BY GoesOnRight
<1> QED
  BY <1>1, <1>2, PTL DEF SplitterSpec

\* In each of its cases what was written is the beginning of the file,
LEMMA RightMeansWritten == SplitterInv => WritesTheTasks
<1> SUFFICES ASSUME SplitterInv PROVE WritesTheTasks
  OBVIOUS
<1>1. PICK m : /\ IsLaidOut(m)
               /\ \/ result = "pending" /\ Where(m)
                  \/ result = "resolved" /\ splitterAt = "wait" /\ out = Rebuilt
  BY DEF SplitterInv
<1>2. Rebuilt \in Seq(Alphabet) /\ PartCount \in Nat
  BY <1>1 DEF IsLaidOut
<1>3. \E w \in 0..Len(Rebuilt) : out = First(Rebuilt, w)
  <2>1. CASE result = "resolved"
    <3> DEFINE n == Len(Rebuilt)
               f == First(Rebuilt, n)
    <3>1. n \in 0..Len(Rebuilt)
      BY <1>2
    <3>2. f \in Seq(Alphabet) /\ Len(f) = n /\ \A p \in 1..n : f[p] = Rebuilt[p]
      <4> HIDE DEF n
      <4> QED
        BY <1>2, <3>1, FirstIs
    <3> HIDE DEF f
    <3>3. f = Rebuilt
      BY <1>2, <3>2, SeqEqual
    <3> QED
      BY <1>1, <2>1, <3>1, <3>3 DEF f
  <2>2. CASE result = "pending"
    <3>1. PICK k \in 0..PartCount :
              \/ EndsInBoundary(m, k) \/ AtPart(m, k)
              \/ k \in 0..(PartCount - 1) /\ (EndsInHeader(m, k) \/ EndsInData(m, k) \/ AtData(m, k))
      <4>1. Where(m)
        BY <1>1, <2>2
      <4>2. \A k \in 0..(PartCount - 1) : k \in 0..PartCount
        BY <1>2
      <4> QED
        BY <4>1, <4>2 DEF Where
    <3>2. m.before[k] \in 0..Len(Rebuilt) /\ m.at[k] \in 0..Len(Rebuilt)
      <4>1. PartFits(m, k)
        BY <1>1, <3>1, PartNumbers
      <4>2. m.before[k] \in Nat /\ m.at[k] \in Nat /\ m.before[k] <= m.at[k] /\ m.at[k] <= Len(Rebuilt) /\ Len(Rebuilt) \in Nat
        BY <4>1 DEF PartFits
      <4> QED
        BY <4>2
    <3>3. CASE EndsInBoundary(m, k) \/ AtPart(m, k)
      BY <3>2, <3>3 DEF EndsInBoundary, AtPart, BeforePart
    <3>4. CASE EndsInHeader(m, k) \/ AtData(m, k)
      BY <3>2, <3>4 DEF EndsInHeader, AtData, BeforeData
    <3>5. CASE k \in 0..(PartCount - 1) /\ EndsInData(m, k)
      <4> DEFINE i == k + 1
      <4>1. i = k + 1
        OBVIOUS
      <4> HIDE DEF i
      <4>2. DataFits(m, k, i)
        BY <1>1, <3>5, <4>1, MorePartNumbers
      <4>3. /\ m.at[k] \in Nat /\ PartLength(k) \in Nat /\ m.before[i] = m.at[k] + PartLength(k)
            /\ m.before[i] <= Len(Rebuilt)
        BY <4>2 DEF DataFits
      <4>4. /\ actualPartLength \in Nat /\ remainingPartDataCount \in Nat
            /\ actualPartLength + remainingPartDataCount = PartLength(k)
            /\ out = First(Rebuilt, m.at[k] + actualPartLength)
        BY <3>5 DEF EndsInData
      <4> DEFINE w == m.at[k] + actualPartLength
      <4>5. w \in 0..Len(Rebuilt)
        <5>1. Len(Rebuilt) \in Nat
          BY <1>2
        <5> QED
          BY <4>3, <4>4, <5>1
      <4> HIDE DEF w
      <4> QED
        BY <4>4, <4>5 DEF w
    <3> QED
      BY <3>1, <3>3, <3>4, <3>5
  <2> QED
    BY <1>1, <2>1, <2>2
<1>4. PICK w \in 0..Len(Rebuilt) : out = First(Rebuilt, w)
  BY <1>3
<1>5. Len(out) = w /\ out \in Seq(Alphabet)
  BY <1>2, <1>4, FirstIs
<1>6. IsPrefix(out, Rebuilt)
  <2>1. First(out, w) = out
    <3> DEFINE f == First(out, w)
    <3>1. w \in 0..Len(out) /\ w \in Nat
      BY <1>4, <1>5
    <3>2. f \in Seq(Alphabet) /\ Len(f) = w /\ \A p \in 1..w : f[p] = out[p]
      BY <1>5, <3>1, FirstIs
    <3> HIDE DEF f
    <3>3. f = out
      BY <1>5, <3>2, SeqEqual
    <3> QED
      BY <3>3 DEF f
  <2>2. SubSeq(out, 1, Len(out)) = SubSeq(Rebuilt, 1, Len(out))
    BY <1>4, <1>5, <2>1 DEF First
  <2>3. Len(out) <= Len(Rebuilt)
    BY <1>2, <1>4, <1>5
  <2> QED
    BY <2>2, <2>3 DEF IsPrefix
<1> QED
  BY <1>1, <1>6 DEF WritesTheTasks

\* and once the closing boundary is there, the splitter is done.
LEMMA RightMeansComplete == SplitterInv => CompletesAtEnd
<1> SUFFICES ASSUME SplitterInv PROVE CompletesAtEnd
  OBVIOUS
<1>1. PICK m : /\ IsLaidOut(m)
               /\ \/ result = "pending" /\ Where(m)
                  \/ result = "resolved" /\ splitterAt = "wait" /\ out = Rebuilt
  BY DEF SplitterInv
<1>2. Body \in Seq(Alphabet) /\ PartCount \in Nat /\ Len(Body) \in Nat
  BY <1>1 DEF IsLaidOut
<1>3. ASSUME result = "pending", splitterAt = "wait" PROVE received # Len(Body)
  <2>1. PICK k \in 0..PartCount :
            EndsInBoundary(m, k) \/ (k \in 0..(PartCount - 1) /\ (EndsInHeader(m, k) \/ EndsInData(m, k)))
    <3>1. Where(m)
      BY <1>1, <1>3
    <3>2. \A k : ~AtPart(m, k) /\ ~AtData(m, k)
      BY <1>3 DEF AtPart, AtData
    <3>3. \A k \in 0..(PartCount - 1) : k \in 0..PartCount
      BY <1>2
    <3> QED
      BY <3>1, <3>2, <3>3 DEF Where
  <2>2. CASE EndsInBoundary(m, k)
    <3>1. PartFits(m, k)
      BY <1>1, PartNumbers
    <3>2. received <= m.from[k] + Edge(k) /\ m.from[k] <= received
      BY <2>2 DEF EndsInBoundary
    <3> QED
      BY <3>1, <3>2 DEF PartFits
  <2>3. CASE k \in 0..(PartCount - 1) /\ (EndsInHeader(m, k) \/ EndsInData(m, k))
    <3> DEFINE i == k + 1
    <3>1. i = k + 1
      OBVIOUS
    <3> HIDE DEF i
    <3>2. DataFits(m, k, i)
      BY <1>1, <2>3, <3>1, MorePartNumbers
    <3> DEFINE d == m.data[k]
               l == PartLength(k)
    <3>3. d \in Nat /\ l \in Nat /\ d + l < Len(Body)
      <4>1. d \in Nat /\ l \in Nat /\ m.from[i] = d + l /\ m.from[i] + BoundaryLength < Len(Body) /\ BoundaryLength \in Nat
        BY <3>2, SplitterAssumption DEF DataFits
      <4> HIDE DEF d, l
      <4> QED
        BY <1>2, <4>1
    <3>4. \/ received <= d - 2
          \/ /\ received = d + actualPartLength /\ actualPartLength \in Nat /\ remainingPartDataCount \in Nat
             /\ actualPartLength + remainingPartDataCount = l
      BY <2>3 DEF EndsInHeader, EndsInData
    <3> HIDE DEF d, l
    <3> QED
      BY <1>2, <3>3, <3>4
  <2> QED
    BY <2>1, <2>2, <2>3
<1> QED
  BY <1>1, <1>3 DEF CompletesAtEnd

\* However a response is cut into chunks, what DataSplitter has written is how the new
\* file begins, no byte of it twice or in another order, and all of it once it has resolved.
THEOREM SplitterWritesTheFile == ~SplitHeaders => (SplitterSpec => []WritesTheTasks)
<1> SUFFICES ASSUME ~SplitHeaders PROVE SplitterSpec => []WritesTheTasks
  OBVIOUS
<1>1. SplitterSpec => []SplitterInv
  BY SplitterKeepsRight
<1>2. SplitterInv => WritesTheTasks
  BY RightMeansWritten
<1> QED
  BY <1>1, <1>2, PTL

\* A DataSplitter that has handled the whole response is not left pending: it has called
\* its finish handler, so the download does not wait for parts that have come.
THEOREM SplitterFinishes == ~SplitHeaders => (SplitterSpec => []CompletesAtEnd)
<1> SUFFICES ASSUME ~SplitHeaders PROVE SplitterSpec => []CompletesAtEnd
  OBVIOUS
<1>1. SplitterSpec => []SplitterInv
  BY SplitterKeepsRight
<1>2. SplitterInv => CompletesAtEnd
  BY RightMeansComplete
<1> QED
  BY <1>1, <1>2, PTL

=============================================================================
