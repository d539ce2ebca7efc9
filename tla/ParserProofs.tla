---------------------------- MODULE ParserProofs ----------------------------
(***************************************************************************)
(* Proofs about HttpResponse and IoctlCodec, for any streams, texts, limits*)
(* and sizes of the buffer: the types of both, and of the codec that what  *)
(* one side writes is what the other one reads.                            *)
(*                                                                         *)
(* Both cut texts at separators, and some of their definitions are         *)
(* recursive functions.  What holds of every place of a text is proved by  *)
(* the least place of which it does not hold (Induction); that a recursive *)
(* function exists, by the longest part of it that does (Recursion,        *)
(* JumpsExist).  The codec rests on lemmas about lines: put together and   *)
(* cut again they are what they were, by the client with SplitLines        *)
(* (ReadsReply) and by the module with get_until (RequestRead, NameRead).  *)
(***************************************************************************)
EXTENDS HttpResponse, IoctlCodec, TLAPS, WellFoundedInduction, FiniteSetTheorems, SequenceTheorems

-----------------------------------------------------------------------------
(***************************************************************************)
(* Induction: the least of the numbers for which something does not hold.  *)
(***************************************************************************)
\* A set of numbers that is not empty has a least one.
LEMMA LeastNatural ==
  ASSUME NEW T, T \subseteq Nat, T # {}
  PROVE  \E x \in T : \A y \in T : x <= y
<1>1. \E x \in T : \A y \in T : ~ (<<y, x>> \in OpToRel(<, Nat))
  BY NatLessThanWellFounded, WFMin, Zenon
<1>2. PICK x \in T : \A y \in T : ~ (<<y, x>> \in OpToRel(<, Nat))
  BY <1>1
<1>3. ASSUME NEW y \in T PROVE x <= y
  <2>1. x \in Nat /\ y \in Nat
    OBVIOUS
  <2>2. ~ (y < x)
    BY <1>2, <2>1 DEF OpToRel
  <2> QED
    BY <2>1, <2>2
<1> QED
  BY <1>3

\* What holds of 1 and passes from a number to the next one holds of all: G is
\* the set of the numbers of which it holds.
LEMMA Induction ==
  ASSUME NEW n \in Nat, NEW G,
         n > 0 => 1 \in G,
         \A i \in 2..n : i - 1 \in G => i \in G
  PROVE  1..n \subseteq G
<1> DEFINE Missing == {i \in 1..n : i \notin G}
<1>1. Missing \subseteq Nat
  OBVIOUS
<1> SUFFICES ASSUME Missing # {} PROVE FALSE
  OBVIOUS
<1>2. PICK i \in Missing : \A j \in Missing : i <= j
  <2> HIDE DEF Missing
  <2> QED BY <1>1, LeastNatural, Zenon
<1>3. i \in 1..n /\ i \notin G
  OBVIOUS
<1>4. i \in 2..n /\ i - 1 \in 1..n
  BY <1>3
<1>5. i - 1 \notin Missing
  <2>1. ~(i <= i - 1)
    BY <1>3
  <2> HIDE DEF Missing
  <2> QED BY <1>2, <2>1
<1> QED
  BY <1>3, <1>4, <1>5

\* f has a first value, and each other one follows from the one before it.
Follows(n, V, a, step, f) ==
  /\ f \in [1..n -> V]
  /\ f[1] = a
  /\ \A i \in 2..n : f[i] = step[i][f[i - 1]]

\* There is a function that is defined so.
LEMMA Recursion ==
  ASSUME NEW n \in Nat, n > 0, NEW V, NEW a \in V, NEW step \in [2..n -> [V -> V]]
  PROVE  \E f : Follows(n, V, a, step, f)
<1> USE DEF Follows
<1> DEFINE Good == {m \in 1..n : \E f : Follows(m, V, a, step, f)}
<1>1. 1 \in Good
  <2> DEFINE g == [i \in 1..1 |-> a]
  <2>1. g \in [1..1 -> V] /\ g[1] = a
    OBVIOUS
  <2>2. 2..1 = {} /\ 1 \in 1..n
    OBVIOUS
  <2> HIDE DEF g
  <2>3. Follows(1, V, a, step, g)
    BY <2>1, <2>2
  <2> QED BY <2>2, <2>3, Zenon
<1>2. ASSUME NEW m \in 2..n, m - 1 \in Good PROVE m \in Good
  <2>1. PICK f : Follows(m - 1, V, a, step, f)
    BY <1>2, Zenon
  <2>2. m - 1 \in 1..(m - 1) /\ m \in 1..m /\ m \in 1..n /\ 1 \in 1..(m - 1) /\ 1 # m
    BY <1>2
  <2> DEFINE v == step[m][f[m - 1]]
             g == [i \in 1..m |-> IF i = m THEN v ELSE f[i]]
  <2>3. f[m - 1] \in V
    BY <2>1, <2>2
  <2>4. v \in V
    BY <2>3
  <2> HIDE DEF v
  <2>5. \A i \in 1..m : i # m => i \in 1..(m - 1) /\ f[i] \in V /\ g[i] = f[i]
    BY <2>1, <2>2
  <2>6. g \in [1..m -> V] /\ g[m] = v
    BY <2>2, <2>4, <2>5
  <2> HIDE DEF g
  <2>7. ASSUME NEW i \in 2..m PROVE g[i] = step[i][g[i - 1]]
    <3>1. i - 1 \in 1..m /\ i - 1 # m /\ i \in 1..m
      BY <2>7
    <3>2. g[i - 1] = f[i - 1]
      BY <2>5, <3>1
    <3>3. CASE i = m
      BY <2>6, <3>2, <3>3 DEF v
    <3>4. CASE i # m
      <4>1. i \in 2..(m - 1) /\ g[i] = f[i]
        BY <2>5, <2>7, <3>1, <3>4
      <4> QED BY <2>1, <3>2, <4>1
    <3> QED BY <3>3, <3>4
  <2>8. g[1] = a
    BY <2>1, <2>2, <2>5
  <2>9. Follows(m, V, a, step, g)
    BY <2>6, <2>7, <2>8
  <2> QED BY <2>2, <2>9, Zenon
<1>3. 1..n \subseteq Good
  <2> HIDE DEF Good
  <2> QED BY <1>1, <1>2, Induction
<1>4. n \in Good
  <2>1. n \in 1..n
    OBVIOUS
  <2> HIDE DEF Good
  <2> QED BY <1>3, <2>1
<1> QED
  BY <1>4, Zenon

\* f goes on from i to next[i], which is further on, until it comes to a number
\* where it stops.
Jumps(V, stops, value, next, f) ==
  f = [i \in Nat |-> IF i \in stops THEN value[i] ELSE f[next[i]]]

\* There is a function that is defined so, if it stops before n.
LEMMA JumpsExist ==
  ASSUME NEW n \in Nat, NEW V, NEW stops \in SUBSET Nat,
         NEW value \in [Nat -> V], NEW next \in [Nat -> Nat],
         \A i \in Nat \ stops : i < next[i] /\ next[i] < n
  PROVE  \E f : Jumps(V, stops, value, next, f)
<1> DEFINE Right(f, i) == f[i] = IF i \in stops THEN value[i] ELSE f[next[i]]
           From(m, f) == f \in [Nat -> V] /\ \A i \in Nat : i >= n + 1 - m => Right(f, i)
           Good == {m \in 1..(n + 1) : \E f : From(m, f)}
<1>1. 1 \in Good
  <2>1. \A i \in Nat : i >= n + 1 - 1 => i \in stops
    OBVIOUS
  <2>2. From(1, value)
    BY <2>1
  <2> HIDE DEF From
  <2> QED BY <2>2
<1>2. ASSUME NEW m \in 2..(n + 1), m - 1 \in Good PROVE m \in Good
  <2>1. PICK f : From(m - 1, f)
    BY <1>2, Zenon
  <2>2. m \in 1..(n + 1) /\ n + 1 - m \in Nat
    BY <1>2
  <2> DEFINE k == n + 1 - m
             v == IF k \in stops THEN value[k] ELSE f[next[k]]
             g == [i \in Nat |-> IF i = k THEN v ELSE f[i]]
  <2>3. v \in V
    BY <2>1, <2>2
  <2> HIDE DEF v
  <2>4. g \in [Nat -> V] /\ g[k] = v /\ \A i \in Nat : i # k => g[i] = f[i]
    BY <2>1, <2>2, <2>3
  <2> HIDE DEF g
  <2>5. ASSUME NEW i \in Nat, i >= n + 1 - m PROVE Right(g, i)
    <3>1. i \notin stops => next[i] \in Nat /\ next[i] # k
      BY <2>2, <2>5
    <3>2. CASE i = k
      BY <2>2, <2>4, <3>1, <3>2 DEF v
    <3>3. CASE i # k
      <4>1. i >= n + 1 - (m - 1)
        BY <1>2, <2>5, <3>3
      <4>2. Right(f, i)
        BY <2>1, <4>1
      <4> QED BY <2>4, <3>1, <3>3, <4>2
    <3> QED BY <3>2, <3>3
  <2>6. From(m, g)
    BY <2>4, <2>5
  <2> HIDE DEF From
  <2> QED BY <2>2, <2>6
<1>3. 1..(n + 1) \subseteq Good
  <2>1. n + 1 \in Nat
    OBVIOUS
  <2> HIDE DEF Good
  <2> QED BY <1>1, <1>2, <2>1, Induction
<1>4. n + 1 \in Good
  <2>1. n + 1 \in 1..(n + 1)
    OBVIOUS
  <2> HIDE DEF Good
  <2> QED BY <1>3, <2>1
<1>5. PICK f : From(n + 1, f)
  BY <1>4, Zenon
<1>6. Jumps(V, stops, value, next, f)
  BY <1>5 DEF Jumps
<1> QED
  BY <1>6

\* Its values are of the type of those it stops with.
LEMMA JumpsType ==
  ASSUME NEW n \in Nat, NEW V, NEW stops \in SUBSET Nat,
         NEW value \in [Nat -> V], NEW next \in [Nat -> Nat],
         \A i \in Nat \ stops : i < next[i] /\ next[i] < n,
         NEW f, Jumps(V, stops, value, next, f),
         NEW i \in Nat
  PROVE  f[i] \in V
<1> DEFINE Good == {m \in 1..(n + 1) : \A j \in Nat : j >= n + 1 - m => f[j] \in V}
<1>1. 1 \in Good
  <2>1. \A j \in Nat : j >= n + 1 - 1 => j \in stops
    OBVIOUS
  <2> QED BY <2>1 DEF Jumps
<1>2. ASSUME NEW m \in 2..(n + 1), m - 1 \in Good PROVE m \in Good
  <2>1. \A j \in Nat : j >= n + 1 - (m - 1) => f[j] \in V
    BY <1>2
  <2>2. ASSUME NEW j \in Nat, j >= n + 1 - m PROVE f[j] \in V
    <3>1. CASE j \in stops
      BY <3>1 DEF Jumps
    <3>2. CASE j \notin stops
      <4>1. next[j] \in Nat /\ next[j] >= n + 1 - (m - 1)
        BY <1>2, <2>2, <3>2
      <4>2. f[j] = f[next[j]]
        BY <3>2 DEF Jumps
      <4> QED BY <2>1, <4>1, <4>2
    <3> QED BY <3>1, <3>2
  <2> QED BY <1>2, <2>2
<1>3. 1..(n + 1) \subseteq Good
  <2>1. n + 1 \in Nat
    OBVIOUS
  <2> HIDE DEF Good
  <2> QED BY <1>1, <1>2, <2>1, Induction
<1>4. n + 1 \in Good
  <2>1. n + 1 \in 1..(n + 1)
    OBVIOUS
  <2> HIDE DEF Good
  <2> QED BY <1>3, <2>1
<1>5. i >= n + 1 - (n + 1)
  OBVIOUS
<1> QED
  BY <1>4, <1>5

-----------------------------------------------------------------------------
(***************************************************************************)
(* Sequences.                                                              *)
(***************************************************************************)
\* FlattenSeq() adds one sequence after the other.
LEMMA FlattenSteps ==
  ASSUME NEW S, NEW s \in Seq(Seq(S)), Len(s) > 0
  PROVE  \E f \in [1..Len(s) -> Seq(S)] :
            /\ f[1] = s[1]
            /\ \A i \in 2..Len(s) : f[i] = f[i - 1] \o s[i]
            /\ FlattenSeq(s) = f[Len(s)]
<1> DEFINE n == Len(s)
           step == [i \in 2..n |-> [v \in Seq(S) |-> v \o s[i]]]
           Adds(f) == f = [i \in 1..Len(s) |-> IF i = 1 THEN s[i] ELSE f[i - 1] \o s[i]]
           h == CHOOSE f : Adds(f)
           G == {i \in 1..n : h[i] \in Seq(S)}
<1>1. n \in Nat /\ n > 0 /\ n \in 1..n /\ \A i \in 1..n : s[i] \in Seq(S)
  OBVIOUS
<1>2. \E f : Adds(f)
  <2>1. ASSUME NEW i \in 2..n, NEW v \in Seq(S) PROVE v \o s[i] \in Seq(S)
    <3>1. s[i] \in Seq(S)
      BY <1>1
    <3> QED BY <3>1
  <2>2. step \in [2..n -> [Seq(S) -> Seq(S)]] /\ \A i \in 2..n, v \in Seq(S) : step[i][v] = v \o s[i]
    BY <2>1
  <2>3. s[1] \in Seq(S)
    BY <1>1
  <2> HIDE DEF step, n
  <2>4. PICK f : Follows(n, Seq(S), s[1], step, f)
        BY <1>1, <2>2, <2>3, Recursion, Zenon
  <2>5. ASSUME NEW i \in 1..n PROVE f[i] = IF i = 1 THEN s[i] ELSE f[i - 1] \o s[i]
    <3>1. CASE i = 1
      BY <2>4, <3>1 DEF Follows
    <3>2. CASE i # 1
      <4>1. i \in 2..n /\ i - 1 \in 1..n
        BY <1>1, <3>2
      <4>2. f[i - 1] \in Seq(S)
        BY <2>4, <4>1 DEF Follows
      <4> QED BY <2>2, <2>4, <4>1, <4>2, <3>2 DEF Follows
    <3> QED BY <3>1, <3>2
  <2>6. Adds(f)
    BY <2>4, <2>5 DEF n, Follows
  <2> HIDE DEF Adds
  <2> QED BY <2>6
<1>3. Adds(h)
  <2> HIDE DEF Adds
  <2> QED BY <1>2, Zenon
<1>4. FlattenSeq(s) = h[n]
  BY <1>1 DEF FlattenSeq
<1> HIDE DEF h
<1>5. \A i \in 1..n : h[i] = IF i = 1 THEN s[i] ELSE h[i - 1] \o s[i]
  BY <1>3
<1>6. h[1] = s[1] /\ \A i \in 2..n : h[i] = h[i - 1] \o s[i]
  <2>1. 1 \in 1..n /\ \A i \in 2..n : i \in 1..n /\ i # 1
    BY <1>1
  <2> QED BY <1>5, <2>1
<1>7. 1..n \subseteq G
  <2>1. 1 \in G
    BY <1>1, <1>6
  <2>2. ASSUME NEW i \in 2..n, i - 1 \in G PROVE i \in G
    <3>1. i \in 1..n /\ s[i] \in Seq(S) /\ h[i - 1] \in Seq(S)
      BY <1>1, <2>2
    <3>2. h[i - 1] \o s[i] \in Seq(S)
      BY <3>1
    <3> QED BY <1>6, <3>1, <3>2
  <2> HIDE DEF G
  <2> QED BY <1>1, <2>1, <2>2, Induction
<1>8. h \in [1..n -> Seq(S)]
  BY <1>3, <1>7
<1> QED
  BY <1>4, <1>6, <1>8

\* What is flattened is a sequence.
LEMMA FlattenType ==
  ASSUME NEW S, NEW s \in Seq(Seq(S))
  PROVE  FlattenSeq(s) \in Seq(S)
<1>1. CASE Len(s) = 0
  BY <1>1 DEF FlattenSeq
<1>2. CASE Len(s) # 0
  <2>1. Len(s) > 0 /\ Len(s) \in 1..Len(s)
    BY <1>2
  <2>2. PICK f \in [1..Len(s) -> Seq(S)] : FlattenSeq(s) = f[Len(s)]
    BY <2>1, FlattenSteps
  <2> QED BY <2>1, <2>2
<1> QED
  BY <1>1, <1>2

\* until stands at i, in what was written to buf.
Found(buf, i, until) == i < Len(buf) /\ StandsAt(buf, i, until)

\* Where get_until() finds what it looks for: the first place, when all of it
\* is among the next max cells.
LEMMA GetUntil ==
  ASSUME NEW S, NEW buf \in Seq(S), NEW from \in Nat, NEW until, Len(until) \in Nat \ {0},
         NEW max \in Nat
  PROVE  LET cut == get_until(buf, from, until, max) IN
         \/ cut = -1 /\ \A i \in from..(from + max - Len(until)) : ~ Found(buf, i, until)
         \/ /\ cut \in 0..(max - Len(until))
            /\ Found(buf, from + cut, until)
            /\ \A i \in from..(from + cut - 1) : ~ Found(buf, i, until)
<1> DEFINE places == {i \in from..(from + max - Len(until)) : Found(buf, i, until)}
           first == CHOOSE i \in places : \A j \in places : i <= j
<1>1. get_until(buf, from, until, max) = IF places = {} THEN -1 ELSE first - from
  BY Zenon DEF get_until, Found
<1>2. CASE places = {}
  BY <1>1, <1>2
<1>3. CASE places # {}
  <2>1. places \subseteq from..(from + max - Len(until))
    OBVIOUS
  <2>2. places \subseteq Nat
    BY <2>1
  <2> HIDE DEF places
  <2>3. \E i \in places : \A j \in places : i <= j
    BY <1>3, <2>2, LeastNatural, Zenon
  <2>4. first \in places /\ \A j \in places : first <= j
    BY <2>3, Zenon
  <2> HIDE DEF first
  <2>5. first \in from..(from + max - Len(until)) /\ Found(buf, first, until)
    BY <2>4 DEF places
  <2>6. ASSUME NEW i \in from..(first - 1) PROVE ~ Found(buf, i, until)
    <3>1. i \in from..(from + max - Len(until)) /\ ~(first <= i)
      BY <2>5
    <3>2. i \notin places
      BY <2>4, <3>1
    <3> QED BY <3>1, <3>2 DEF places
  <2>7. from + (first - from) = first /\ first - from \in 0..(max - Len(until))
    BY <2>5
  <2> DEFINE cut == get_until(buf, from, until, max)
  <2>8. cut = first - from
    BY <1>1, <1>3
  <2>9. cut \in 0..(max - Len(until)) /\ from + cut = first
    BY <2>7, <2>8
  <2> HIDE DEF cut
  <2>10. Found(buf, from + cut, until) /\ \A i \in from..(from + cut - 1) : ~ Found(buf, i, until)
    BY <2>5, <2>6, <2>9
  <2> QED
    BY <2>9, <2>10 DEF cut
<1> QED
  BY <1>2, <1>3

\* The end of a text.
LEMMA StrLenType ==
  ASSUME NEW S, NEW buf \in Seq(S)
  PROVE  StrLen(buf) \in 0..Len(buf)
<1> DEFINE zeros == {i \in 0..Len(buf) : At(buf, i) = "nul"}
<1>1. Len(buf) \in zeros
  BY DEF At
<1>2. zeros \subseteq 0..Len(buf)
  OBVIOUS
<1>3. zeros \subseteq Nat
  BY <1>2
<1>4. StrLen(buf) = CHOOSE i \in zeros : \A j \in zeros : i <= j
  BY Zenon DEF StrLen
<1> HIDE DEF zeros
<1>5. \E i \in zeros : \A j \in zeros : i <= j
  BY <1>1, <1>3, LeastNatural, Zenon
<1> QED
  BY <1>2, <1>4, <1>5, Zenon

-----------------------------------------------------------------------------
(***************************************************************************)
(* The parser of the server's answers.                                     *)
(***************************************************************************)
\* The digits from a place on stand for a number, or there are none.
LEMMA NumberAtType ==
  ASSUME NEW S, NEW text \in Seq(S), NEW first \in 2..Len(text)
  PROVE  NumberAt(text, first) \in Nat \cup {-1}
<1> DEFINE n == Len(text)
           digits == {i \in first..n : \A j \in first..i : text[j] \in DOMAIN Value}
           last == CHOOSE i \in digits : \A j \in digits : i >= j
           Counts(f) == f = [k \in 1..last |-> IF k < first THEN 0
                                               ELSE 10 * f[k - 1] + Value[text[k]]]
           number == CHOOSE f : Counts(f)
<1>2. NumberAt(text, first) = IF digits = {} THEN -1 ELSE number[last]
  BY DEF NumberAt
<1>3. SUFFICES ASSUME digits # {} PROVE number[last] \in Nat
  BY <1>2
<1>0. digits # {}
  BY <1>3
<1>1. n \in Nat
  OBVIOUS
<1> HIDE DEF n
<1>4. first \in 2..n
  BY DEF n
<1>5. last \in digits
  <2> DEFINE T == {n - i : i \in digits}
  <2>1. T \subseteq Nat
    BY <1>1, <1>4
  <2>2. digits \subseteq Nat
    BY <1>1, <1>4
  <2> HIDE DEF digits
  <2>3. T # {}
    BY <1>0
  <2>4. PICK x \in T : \A y \in T : x <= y
    <3> HIDE DEF T
    <3> QED BY <2>1, <2>3, LeastNatural, Zenon
  <2>5. PICK i \in digits : x = n - i
    OBVIOUS
  <2>6. ASSUME NEW j \in digits PROVE i >= j
    <3>1. x <= n - j
      BY <2>4
    <3> QED BY <1>1, <2>2, <2>5, <3>1
  <2> QED BY <2>6, Zenon
<1>6. last \in 2..n /\ \A j \in first..last : text[j] \in DOMAIN Value
  <2> HIDE DEF last
  <2> QED BY <1>1, <1>4, <1>5
<1> HIDE DEF digits, last
<1>7. last \in Nat /\ last > 0 /\ last \in 1..last
  BY <1>6
<1> DEFINE step == [i \in 2..last |-> [v \in Nat |-> IF i < first THEN 0 ELSE 10 * v + Value[text[i]]]]
<1>8. \A i \in 2..last : i >= first => Value[text[i]] \in Nat
  BY <1>4, <1>6, HttpParametersAssumption
<1>9. step \in [2..last -> [Nat -> Nat]]
  BY <1>4, <1>6, <1>8
<1>10. \A i \in 2..last, v \in Nat : step[i][v] = IF i < first THEN 0 ELSE 10 * v + Value[text[i]]
  OBVIOUS
<1> HIDE DEF step
<1>11. PICK f : Follows(last, Nat, 0, step, f)
  BY <1>7, <1>9, Recursion, Zenon
<1>12. Counts(f)
  <2>1. ASSUME NEW k \in 1..last
        PROVE  f[k] = IF k < first THEN 0 ELSE 10 * f[k - 1] + Value[text[k]]
    <3>1. CASE k = 1
      BY <1>4, <1>11, <3>1 DEF Follows
    <3>2. CASE k # 1
      <4>1. k \in 2..last /\ k - 1 \in 1..last
        BY <1>7, <3>2
      <4>2. f[k - 1] \in Nat /\ f[k] = step[k][f[k - 1]]
        BY <1>11, <4>1 DEF Follows
      <4> QED BY <1>10, <4>1, <4>2
    <3> QED BY <3>1, <3>2
  <2> QED BY <1>11, <2>1 DEF Follows
<1>13. Counts(number)
  <2> HIDE DEF Counts
  <2> QED BY <1>12, Zenon
<1> HIDE DEF number
<1> DEFINE G == {k \in 1..last : number[k] \in Nat}
<1>14. \A k \in 1..last : number[k] = IF k < first THEN 0 ELSE 10 * number[k - 1] + Value[text[k]]
  BY <1>13
<1> HIDE DEF Counts
<1>15. 1 \in G
  <2>1. 1 \in 1..last /\ 1 < first
    BY <1>4, <1>6
  <2>2. number[1] = 0
    BY <1>14, <2>1
  <2> QED BY <2>1, <2>2
<1>16. ASSUME NEW i \in 2..last, i - 1 \in G PROVE i \in G
  <2>1. i \in 1..last /\ number[i - 1] \in Nat
    BY <1>16, <1>7
  <2>2. number[i] = IF i < first THEN 0 ELSE 10 * number[i - 1] + Value[text[i]]
    BY <1>14, <2>1
  <2>3. number[i] \in Nat
    <3>1. CASE i < first
      BY <2>2, <3>1
    <3>2. CASE ~ (i < first)
      <4>1. Value[text[i]] \in Nat
        BY <1>4, <1>8, <3>2, <2>1
      <4> QED BY <2>1, <2>2, <3>2, <4>1
    <3> QED BY <3>1, <3>2
  <2> QED BY <2>1, <2>3
<1>17. 1..last \subseteq G
  <2> HIDE DEF G
  <2> QED BY <1>7, <1>15, <1>16, Induction
<1>18. number[last] \in Nat
  BY <1>7, <1>17
<1> QED
  BY <1>18

\* sscanf() finds a number or nothing.
LEMMA SecondWordType ==
  ASSUME NEW S, NEW line \in Seq(S)
  PROVE  SecondWord(line) \in Nat \cup {-1}
<1> DEFINE text == SubSeq(line, 1, StrLen(line))
           second == LaterWords(text)
           first == CHOOSE i \in second : \A j \in second : i <= j
<1>1. SecondWord(line) = IF second = {} THEN -1 ELSE NumberAt(text, first)
  BY DEF SecondWord
<1>2. text \in Seq(S)
  BY StrLenType
<1> HIDE DEF text
<1>3. second \subseteq 2..Len(text)
  <2>1. ASSUME NEW i \in second PROVE i \in 2..Len(text)
    <3>1. i \in 1..Len(text) /\ \E j \in 1..(i - 1) : TRUE
      BY <1>2 DEF LaterWords
    <3> QED BY <1>2, <3>1
  <2> QED BY <2>1
<1> HIDE DEF second
<1>4. ASSUME second # {} PROVE first \in 2..Len(text)
  <2>1. second \subseteq Nat
    BY <1>2, <1>3
  <2>2. \E i \in second : \A j \in second : i <= j
    BY <1>4, <2>1, LeastNatural, Zenon
  <2>3. first \in second
    BY <2>2, Zenon
  <2> QED BY <1>3, <2>3
<1> HIDE DEF first
<1> QED
  BY <1>1, <1>2, <1>4, NumberAtType

\* How far a line goes on, and what it is.
LEMMA CutOfLine ==
  ASSUME NEW S, NEW buf \in Seq(S), NEW i \in Nat, NEW max \in Nat
  PROVE  LET cut == get_until(buf, i, CRLF, max) IN
         /\ cut \in Nat \cup {-1}
         /\ i + cut + 2 \in Nat /\ i < i + cut + 2
         /\ Line(buf, i, cut) \in Seq(S)
<1> DEFINE cut == get_until(buf, i, CRLF, max)
<1>1. Len(CRLF) = 2 /\ Len(CRLF) \in Nat \ {0}
  BY DEF CRLF
<1>2. cut = -1 \/ (cut \in 0..(max - 2) /\ i + cut < Len(buf))
  <2>1. \/ cut = -1
        \/ cut \in 0..(max - Len(CRLF)) /\ Found(buf, i + cut, CRLF)
    BY <1>1, GetUntil, Zenon
  <2> QED BY <1>1, <2>1 DEF Found
<1> HIDE DEF cut
<1>3. Line(buf, i, cut) \in Seq(S)
  BY <1>2 DEF Line
<1> QED
  BY <1>2, <1>3 DEF cut

\* The loops leave an http_response, wherever they start.
LEMMA FindContentLengthType ==
  ASSUME NEW S, NEW buf \in Seq(S), NEW r \in Response
  PROVE  FindContentLength(buf, r) \in Response
<1> DEFINE cut(i) == get_until(buf, i, CRLF, LineRoom)
           line(i) == Line(buf, i, cut(i))
           read(i) == IF HasName(line(i), Len(line(i))) THEN SecondWord(line(i)) ELSE -1
           length(i) == IF read(i) = -1 THEN r.content_length ELSE read(i)
           next == [i \in Nat |-> i + cut(i) + 2]
           stops == {i \in Nat : length(i) # -1 \/ next[i] >= StrLen(buf)}
           value == [i \in Nat |-> [r EXCEPT !.content_length = length(i), !.idx = next[i]]]
           Goes(f) == f = [i \in Nat |-> IF length(i) # -1 \/ i + cut(i) + 2 >= StrLen(buf)
                             THEN [r EXCEPT !.content_length = length(i), !.idx = i + cut(i) + 2]
                             ELSE f[i + cut(i) + 2]]
           from == CHOOSE f : Goes(f)
<1>1. FindContentLength(buf, r) = IF r.idx >= StrLen(buf) THEN r ELSE from[r.idx]
  BY DEF FindContentLength
<1>2. ASSUME NEW i \in Nat
      PROVE  i + cut(i) + 2 \in Nat /\ i < i + cut(i) + 2 /\ length(i) \in Int
  <2>1. i + cut(i) + 2 \in Nat /\ i < i + cut(i) + 2 /\ line(i) \in Seq(S)
    BY CutOfLine, HttpParametersAssumption
  <2>2. SecondWord(line(i)) \in Int
    <3> HIDE DEF line
    <3> QED BY <2>1, SecondWordType
  <2> HIDE DEF line, cut
  <2>3. r.content_length \in Int
    BY DEF Response
  <2> QED BY <2>1, <2>2, <2>3
<1> HIDE DEF cut, length
<1>3. next \in [Nat -> Nat] /\ \A i \in Nat : next[i] = i + cut(i) + 2
  BY <1>2
<1>4. value \in [Nat -> Response]
  BY <1>2, <1>3 DEF Response
<1>5. stops \in SUBSET Nat
  OBVIOUS
<1>6. StrLen(buf) \in Nat
  BY StrLenType
<1>7. \A i \in Nat \ stops : i < next[i] /\ next[i] < StrLen(buf)
  BY <1>2, <1>3, <1>6
<1>8. ASSUME NEW f PROVE Goes(f) <=> Jumps(Response, stops, value, next, f)
  <2>1. ASSUME NEW i \in Nat
        PROVE  (IF length(i) # -1 \/ i + cut(i) + 2 >= StrLen(buf)
                  THEN [r EXCEPT !.content_length = length(i), !.idx = i + cut(i) + 2]
                  ELSE f[i + cut(i) + 2])
               = (IF i \in stops THEN value[i] ELSE f[next[i]])
    BY <1>2, <1>3
  <2> HIDE DEF stops, value, next
  <2> QED BY <2>1 DEF Jumps
<1> HIDE DEF Goes, stops, value, next
<1>9. \E f : Jumps(Response, stops, value, next, f)
  BY <1>3, <1>4, <1>5, <1>6, <1>7, JumpsExist, Zenon
<1>10. Jumps(Response, stops, value, next, from)
  BY <1>8, <1>9, Zenon
<1> HIDE DEF from
<1>11. \A i \in Nat : from[i] \in Response
  BY <1>3, <1>4, <1>5, <1>6, <1>7, <1>10, JumpsType, Zenon
<1>12. r.idx \in Nat
  BY DEF Response
<1> QED
  BY <1>1, <1>11, <1>12

\* The search for the body leaves an http_response.
LEMMA FindBodyType ==
  ASSUME NEW S, NEW buf \in Seq(S), NEW r \in Response
  PROVE  FindBody(buf, r) \in Response
<1> DEFINE cut(i) == get_until(buf, i, CRLF, LineRoom)
           next == [i \in Nat |-> i + cut(i) + 2]
           stops == {i \in Nat : cut(i) = 0 \/ next[i] >= StrLen(buf)}
           value == [i \in Nat |-> IF cut(i) = 0 THEN [r EXCEPT !.body = next[i], !.idx = next[i]]
                                   ELSE [r EXCEPT !.idx = next[i]]]
           Goes(f) == f = [i \in Nat |-> IF cut(i) = 0
                             THEN [r EXCEPT !.body = i + cut(i) + 2, !.idx = i + cut(i) + 2]
                             ELSE IF i + cut(i) + 2 >= StrLen(buf)
                               THEN [r EXCEPT !.idx = i + cut(i) + 2]
                               ELSE f[i + cut(i) + 2]]
           from == CHOOSE f : Goes(f)
<1>1. FindBody(buf, r) = IF r.idx >= StrLen(buf) THEN r ELSE from[r.idx]
  BY DEF FindBody
<1>2. ASSUME NEW i \in Nat PROVE i + cut(i) + 2 \in Nat /\ i < i + cut(i) + 2
  BY CutOfLine, HttpParametersAssumption
<1> HIDE DEF cut
<1>3. next \in [Nat -> Nat] /\ \A i \in Nat : next[i] = i + cut(i) + 2
  BY <1>2
<1>4. value \in [Nat -> Response]
  <2>1. ASSUME NEW k \in Nat
        PROVE  [r EXCEPT !.body = k, !.idx = k] \in Response /\ [r EXCEPT !.idx = k] \in Response
    <3>1. k \in Int
      OBVIOUS
    <3>2. [r EXCEPT !.body = k, !.idx = k] \in Response
      BY <3>1 DEF Response
    <3>3. [r EXCEPT !.idx = k] \in Response
      BY DEF Response
    <3> QED BY <3>2, <3>3
  <2>2. \A i \in Nat : value[i] \in Response
    BY <1>3, <2>1
  <2> QED BY <2>2
<1>5. stops \in SUBSET Nat
  OBVIOUS
<1>6. StrLen(buf) \in Nat
  BY StrLenType
<1>7. \A i \in Nat \ stops : i < next[i] /\ next[i] < StrLen(buf)
  BY <1>2, <1>3, <1>6
<1>8. ASSUME NEW f PROVE Goes(f) <=> Jumps(Response, stops, value, next, f)
  <2>1. ASSUME NEW i \in Nat
        PROVE  (IF cut(i) = 0
                  THEN [r EXCEPT !.body = i + cut(i) + 2, !.idx = i + cut(i) + 2]
                  ELSE IF i + cut(i) + 2 >= StrLen(buf) THEN [r EXCEPT !.idx = i + cut(i) + 2]
                  ELSE f[i + cut(i) + 2])
               = (IF i \in stops THEN value[i] ELSE f[next[i]])
    BY <1>2, <1>3
  <2> HIDE DEF stops, value, next
  <2> QED BY <2>1 DEF Jumps
<1> HIDE DEF Goes, stops, value, next
<1>9. \E f : Jumps(Response, stops, value, next, f)
  BY <1>3, <1>4, <1>5, <1>6, <1>7, JumpsExist, Zenon
<1>10. Jumps(Response, stops, value, next, from)
  BY <1>8, <1>9, Zenon
<1> HIDE DEF from
<1>11. \A i \in Nat : from[i] \in Response
  BY <1>3, <1>4, <1>5, <1>6, <1>7, <1>10, JumpsType, Zenon
<1>12. r.idx \in Nat
  BY DEF Response
<1> QED
  BY <1>1, <1>11, <1>12

\* So does the parser, on whatever has arrived.
LEMMA ProcessResponseType ==
  ASSUME NEW S, NEW buf \in Seq(S), NEW r \in Response
  PROVE  process_response(buf, r) \in Response
<1> DEFINE cut == get_until(buf, 0, CRLF, LineRoom + 2)
           code == SecondWord(Line(buf, 0, cut))
           status == IF r.status_code = 0 THEN StatusLine(buf, r) ELSE r
           scanned == IF Len(buf) > HeaderRoom THEN HeaderRoom ELSE Len(buf)
           header == IF status.status_code # 0 /\ HasName(buf, scanned)
                       THEN FindContentLength(buf, status) ELSE status
<1>1. cut \in Nat \cup {-1} /\ cut + 2 \in Nat /\ Line(buf, 0, cut) \in Seq(S)
  <2>1. LineRoom + 2 \in Nat /\ 0 \in Nat
    BY HttpParametersAssumption
  <2>2. cut \in Nat \cup {-1} /\ Line(buf, 0, cut) \in Seq(S)
    BY <2>1, CutOfLine
  <2> QED BY <2>2
<1>2. code \in Nat \cup {-1}
  BY <1>1, SecondWordType
<1>3. StatusLine(buf, r) = [r EXCEPT !.status_code = IF code = -1 THEN r.status_code ELSE code,
                                     !.idx = r.idx + cut + 2]
  BY DEF StatusLine, Response
<1> HIDE DEF code, cut
<1>4. StatusLine(buf, r) \in Response
  <2>1. r.status_code \in Nat /\ r.idx + cut + 2 \in Nat
    BY <1>1 DEF Response
  <2>2. (IF code = -1 THEN r.status_code ELSE code) \in Nat
    BY <1>2, <2>1
  <2> QED BY <1>3, <2>1, <2>2 DEF Response
<1>5. status \in Response
  BY <1>4
<1> HIDE DEF status
<1>6. header \in Response
  BY <1>5, FindContentLengthType
<1>7. process_response(buf, r) \in {r, header, FindBody(buf, header)}
  BY DEF process_response, header, status, cut
<1> HIDE DEF header
<1> QED
  BY <1>6, <1>7, FindBodyType

\* What holds of the parser in every state.
HttpInv == HttpTypeOK /\ stream \in Stream

\* It holds at first, is kept, and gives the types.
LEMMA HttpInitially == Init => HttpInv
BY HttpParametersAssumption DEF Init, HttpInv, HttpTypeOK, Blank, Response, BufferSize, Stream

\* Each fragment that arrives keeps it.
LEMMA HttpStep == HttpInv /\ [Next]_vars => HttpInv'
<1> SUFFICES ASSUME HttpInv, [Next]_vars PROVE HttpInv'
  OBVIOUS
<1> USE DEF HttpInv
<1>1. Sent \in Seq(STRING) /\ Len(Sent) \in Nat
  BY DEF Sent, Stream
<1>2. ASSUME NEW n \in 1..Len(Sent), Receive(n) PROVE HttpInv'
  <2>1. stream' = stream /\ arrived' = arrived + n /\ arrived' <= Len(Sent) /\ n <= RoomLeft
    BY <1>2 DEF Receive
  <2>2. BufferSize' = BufferSize /\ BufferSize \in Nat
    BY <2>1, HttpParametersAssumption DEF BufferSize, Stream
  <2>3. arrived' \in 0..BufferSize'
    BY <1>1, <2>1, <2>2 DEF HttpTypeOK, RoomLeft
  <2>4. SubSeq(Sent, 1, arrived') \in Seq(STRING)
    BY <1>1, <2>1, <2>2, <2>3
  <2>5. res' \in Response
    <3>1. CASE res' = res
      BY <3>1 DEF HttpTypeOK
    <3>2. CASE res' = process_response(SubSeq(Sent, 1, arrived'), res)
      BY <2>4, <3>2, ProcessResponseType DEF HttpTypeOK
    <3> QED BY <1>2, <3>1, <3>2 DEF Receive
  <2>6. outcome' \in {"reading", "done", "throttle", "catastrophe", "dropped", "overrun"}
    BY <1>2 DEF Receive, Verdict
  <2>7. safe' \in BOOLEAN
    BY <1>2 DEF Receive, HttpTypeOK, SafeEnd
  <2> QED BY <2>1, <2>3, <2>5, <2>6, <2>7 DEF HttpTypeOK
<1>3. CASE Dropped
  BY <1>3 DEF Dropped, HttpTypeOK, BufferSize
<1>4. CASE UNCHANGED vars
  BY <1>4 DEF vars, HttpTypeOK, BufferSize
<1> QED BY <1>2, <1>3, <1>4 DEF Next

\* The types are a part of it.
LEMMA HttpTypes == HttpInv => HttpTypeOK
BY DEF HttpInv

\* The types of the parser, and no more received than there is room for
\* (__receive_az_response).
THEOREM HttpTypeCorrect == Spec => []HttpTypeOK
BY HttpInitially, HttpStep, HttpTypes, PTL DEF Spec

-----------------------------------------------------------------------------
(***************************************************************************)
(* The codec: lines.                                                       *)
(***************************************************************************)
\* What the texts are made of: any strings, and those the codec writes.
Cell == STRING \cup {"nl", "nul", "OK", "ERR", "Cannot", "Failed", "mount", "errno", "to", "no",
                     "such", "No", "memory", "R", "W", "9", "-", "type", "name", "sectors",
                     "account", "sas", "path", "host", "ip", "lease", "vhd", "major", "minor"}

\* A text, of the cells either side writes.
CText == Seq(Cell)

\* A text without a line feed.
Unbroken(t) == \A i \in DOMAIN t : t[i] # "nl"

\* A finite set of numbers has a k-th one.
LEMMA Ranks ==
  ASSUME NEW n \in Nat, NEW T \in SUBSET (1..n)
  PROVE  /\ IsFiniteSet(T) /\ Cardinality(T) \in Nat
         /\ \A k \in 1..Cardinality(T) :
              \E i \in T : Cardinality({j \in T : j < i}) = k - 1
<1> DEFINE Below(m) == {j \in T : j < m}
           Good == {m \in 1..(n + 1) : \A k \in 1..Cardinality(Below(m)) :
                      \E i \in T : i < m /\ Cardinality(Below(i)) = k - 1}
<1>0. \A j \in T : j \in 1..n /\ j \in Nat /\ j < n + 1 /\ ~ (j < 1)
  OBVIOUS
<1>1. ASSUME NEW m PROVE IsFiniteSet(Below(m)) /\ Cardinality(Below(m)) \in Nat
  <2>1. IsFiniteSet(1..n)
    BY FS_Interval
  <2>a. Below(m) \in SUBSET (1..n)
    BY <1>0
  <2>2. IsFiniteSet(Below(m))
    BY <2>1, <2>a, FS_Subset
  <2> QED BY <2>2, FS_CardinalityType
<1>2. 1 \in Good
  <2>1. Below(1) = {}
    BY <1>0
  <2>2. 1..Cardinality(Below(1)) = {} /\ 1 \in 1..(n + 1)
    BY <2>1, FS_EmptySet
  <2> HIDE DEF Below
  <2> QED BY <2>2
<1>3. ASSUME NEW m \in 2..(n + 1), m - 1 \in Good PROVE m \in Good
  <2>1. m \in 1..(n + 1)
    BY <1>3
  <2>2. CASE m - 1 \notin T
    <3>1. Below(m) = Below(m - 1)
      <4>1. \A j \in T : j < m <=> j < m - 1
        BY <1>0, <2>2, <1>3
      <4> QED BY <4>1
    <3>2. \A k \in 1..Cardinality(Below(m - 1)) :
            \E i \in T : i < m - 1 /\ Cardinality(Below(i)) = k - 1
      BY <1>3
    <3> HIDE DEF Below
    <3>3. \A i \in T : i < m - 1 => i < m
      BY <1>3
    <3> QED BY <2>1, <3>1, <3>2, <3>3
  <2>3. CASE m - 1 \in T
    <3>1. Below(m) = Below(m - 1) \cup {m - 1} /\ m - 1 \notin Below(m - 1)
      <4>1. \A j \in T : j < m <=> (j < m - 1 \/ j = m - 1)
        BY <1>0, <1>3
      <4>2. ~(m - 1 < m - 1)
        BY <1>3
      <4> QED BY <2>3, <4>1, <4>2
    <3>2. \A k \in 1..Cardinality(Below(m - 1)) :
            \E i \in T : i < m - 1 /\ Cardinality(Below(i)) = k - 1
      BY <1>3
    <3> HIDE DEF Below
    <3>3. Cardinality(Below(m)) = Cardinality(Below(m - 1)) + 1
      BY <1>1, <3>1, FS_AddElement
    <3>4. ASSUME NEW k \in 1..Cardinality(Below(m))
          PROVE  \E i \in T : i < m /\ Cardinality(Below(i)) = k - 1
      <4>1. CASE k = Cardinality(Below(m))
        <5>1. m - 1 < m /\ Cardinality(Below(m - 1)) = k - 1
          BY <1>1, <1>3, <3>3, <4>1
        <5> QED BY <2>3, <5>1
      <4>2. CASE k # Cardinality(Below(m))
        <5>1. k \in 1..Cardinality(Below(m - 1))
          BY <1>1, <3>3, <4>2
        <5>2. PICK i \in T : i < m - 1 /\ Cardinality(Below(i)) = k - 1
          BY <3>2, <5>1
        <5>3. i < m
          BY <1>3, <5>2
        <5> QED BY <5>2, <5>3
      <4> QED BY <4>1, <4>2
    <3> QED BY <2>1, <3>4
  <2> QED BY <2>2, <2>3
<1>4. 1..(n + 1) \subseteq Good
  <2>1. n + 1 \in Nat
    OBVIOUS
  <2> HIDE DEF Good
  <2> QED BY <1>2, <1>3, <2>1, Induction
<1>5. n + 1 \in Good
  <2>1. n + 1 \in 1..(n + 1)
    OBVIOUS
  <2> HIDE DEF Good
  <2> QED BY <1>4, <2>1
<1>6. Below(n + 1) = T
  BY <1>0
<1>7. \A k \in 1..Cardinality(T) : \E i \in T : Cardinality(Below(i)) = k - 1
  <2>1. \A k \in 1..Cardinality(Below(n + 1)) :
          \E i \in T : i < n + 1 /\ Cardinality(Below(i)) = k - 1
    BY <1>5
  <2> HIDE DEF Below, Good
  <2> QED BY <1>6, <2>1
<1>8. IsFiniteSet(T) /\ Cardinality(T) \in Nat
  <2>1. IsFiniteSet(Below(n + 1)) /\ Cardinality(Below(n + 1)) \in Nat
    BY <1>1
  <2> HIDE DEF Below
  <2> QED BY <1>6, <2>1
<1> QED
  BY <1>7, <1>8

\* The pieces strings.Split() makes of a text.
LEMMA SplitLinesType ==
  ASSUME NEW text \in CText
  PROVE  /\ SplitLines(text) \in Seq(CText) /\ Len(SplitLines(text)) > 0
         /\ \A k \in DOMAIN SplitLines(text) :
              Len(SplitLines(text)[k]) <= Len(text) /\ Unbroken(SplitLines(text)[k])
<1> DEFINE breaks == {i \in DOMAIN text : text[i] = "nl"}
           starts == {1} \cup {i + 1 : i \in breaks}
           nth(k) == CHOOSE i \in starts : Cardinality({j \in starts : j < i}) = k - 1
           ends == {j - 1 : j \in breaks} \cup {Len(text)}
           IsLast(i, e) == e >= i - 1 /\ \A j \in breaks : j >= i => e < j
           last(i) == CHOOSE e \in ends : IsLast(i, e)
           n == Cardinality(starts)
<1>1. SplitLines(text) = [k \in 1..n |-> SubSeq(text, nth(k), last(nth(k)))]
  BY DEF SplitLines
<1>2. Len(text) \in Nat /\ breaks \subseteq 1..Len(text) /\ DOMAIN text = 1..Len(text)
  BY DEF CText
<1>3. starts \in SUBSET (1..(Len(text) + 1)) /\ ends \subseteq 0..Len(text)
  BY <1>2
<1>4. n \in Nat /\ n > 0 /\ \A k \in 1..n : nth(k) \in starts
  <2>1. 1 \in starts /\ Len(text) + 1 \in Nat
    BY <1>2
  <2> HIDE DEF starts
  <2>2. IsFiniteSet(starts) /\ n \in Nat
        /\ \A k \in 1..n : \E i \in starts : Cardinality({j \in starts : j < i}) = k - 1
    BY <1>3, <2>1, Ranks
  <2>3. n # 0
    BY <2>1, <2>2, FS_EmptySet
  <2>4. ASSUME NEW k \in 1..n PROVE nth(k) \in starts
    BY <2>2, Zenon
  <2> HIDE DEF n, nth
  <2> QED BY <2>2, <2>3, <2>4
<1>5. ASSUME NEW i \in starts PROVE last(i) \in ends /\ IsLast(i, last(i))
  <2> DEFINE after == {j \in breaks : j >= i}
  <2>0. i \in 1..(Len(text) + 1)
    BY <1>3
  <2>1. \E e \in ends : IsLast(i, e)
    <3>1. CASE after = {}
      <4>1. IsLast(i, Len(text)) /\ Len(text) \in ends
        BY <3>1, <2>0, <1>2
      <4> HIDE DEF IsLast, ends
      <4> QED BY <4>1
    <3>2. CASE after # {}
      <4>1. after \subseteq Nat
        BY <1>2
      <4>2. PICK b \in after : \A j \in after : b <= j
        <5> HIDE DEF after
        <5> QED BY <3>2, <4>1, LeastNatural, Zenon
      <4>3. b \in breaks /\ b >= i /\ b \in Nat
        BY <4>1
      <4>4. b - 1 \in ends
        BY <4>3
      <4>5. IsLast(i, b - 1)
        <5>1. ASSUME NEW j \in breaks, j >= i PROVE b - 1 < j
          <6>1. b <= j /\ j \in Nat
            BY <4>2, <5>1, <1>2
          <6> QED BY <4>3, <6>1
        <5>2. b - 1 >= i - 1
          BY <4>3, <2>0
        <5> HIDE DEF breaks
        <5> QED BY <5>1, <5>2
      <4> HIDE DEF IsLast, ends
      <4> QED BY <4>4, <4>5
    <3> QED BY <3>1, <3>2
  <2> HIDE DEF IsLast, ends
  <2> QED BY <2>1, Zenon
<1> HIDE DEF nth, last, starts, ends, n
<1>6. ASSUME NEW k \in 1..n
      PROVE  /\ SubSeq(text, nth(k), last(nth(k))) \in CText
             /\ Len(SubSeq(text, nth(k), last(nth(k)))) <= Len(text)
             /\ Unbroken(SubSeq(text, nth(k), last(nth(k))))
  <2> DEFINE a == nth(k)
             b == last(nth(k))
             u == SubSeq(text, a, b)
  <2>1. a \in 1..(Len(text) + 1) /\ b \in 0..Len(text) /\ IsLast(a, b)
    BY <1>3, <1>4, <1>5
  <2>2. \A j \in a..b : text[j] # "nl"
    <3> SUFFICES ASSUME NEW j \in a..b, text[j] = "nl" PROVE FALSE
      OBVIOUS
    <3> HIDE DEF a, b
    <3>1. j \in Nat /\ j >= a /\ j <= b /\ j \in 1..Len(text)
      BY <1>2, <2>1
    <3>2. j \in breaks
      BY <1>2, <3>1
    <3> QED BY <1>2, <2>1, <3>1, <3>2
  <2> HIDE DEF a, b
  <2>3. /\ u \in Seq(Cell) /\ Len(u) = IF a <= b THEN b - a + 1 ELSE 0
        /\ \A i \in 1..(b - a + 1) : u[i] = text[a + i - 1]
    <3>1. a \in Int /\ b \in Int /\ \A j \in a..b : text[j] \in Cell
      <4>1. \A j \in a..b : j \in 1..Len(text)
        BY <1>2, <2>1
      <4> QED BY <1>2, <2>1, <4>1 DEF CText
    <3> QED BY <3>1, SubSeqProperties
  <2>4. \A i \in DOMAIN u : u[i] # "nl"
    <3> SUFFICES ASSUME NEW i \in DOMAIN u PROVE u[i] # "nl"
      OBVIOUS
    <3>1. i \in 1..Len(u)
      BY <2>3
    <3>2. i \in 1..(b - a + 1) /\ a + i - 1 \in a..b
      BY <2>1, <2>3, <3>1
    <3> QED BY <2>2, <2>3, <3>2
  <2>5. Len(u) <= Len(text)
    BY <1>2, <2>1, <2>3
  <2> QED BY <2>3, <2>4, <2>5 DEF CText, Unbroken, a, b
<1>7. Len(SplitLines(text)) = n /\ DOMAIN SplitLines(text) = 1..n
  BY <1>1, <1>4
<1>8. SplitLines(text) \in Seq(CText)
  BY <1>1, <1>4, <1>6
<1> QED
  BY <1>1, <1>4, <1>6, <1>7, <1>8

\* The twelve fields of a reply in the order dysk2string() writes them: nine of
\* the request, the device's numbers, and vhd.
LEMMA ReplyFieldsAre ==
  ReplyFields = <<"type", "name", "sectors", "account", "sas", "path", "host", "ip", "lease",
                  "major", "minor", "vhd">>
<1> DEFINE R == <<"type", "name", "sectors", "account", "sas", "path", "host", "ip", "lease", "vhd">>
           Q == <<"type", "name", "sectors", "account", "sas", "path", "host", "ip", "lease">>
           N == <<"major", "minor", "vhd">>
           P == <<"type", "name", "sectors", "account", "sas", "path", "host", "ip", "lease",
                  "major", "minor", "vhd">>
           F == {"type", "name", "sectors", "account", "sas", "path", "host", "ip", "lease", "vhd",
                 "major", "minor"}
<1>a. R \in Seq(F) /\ Q \in Seq(F) /\ N \in Seq(F) /\ P \in Seq(F)
  OBVIOUS
<1>b. Len(R) = 10 /\ Len(Q) = 9 /\ Len(N) = 3 /\ Len(P) = 12
  OBVIOUS
<1>1. RequestFields = R
  BY DEF RequestFields
<1>2. ReplyFields = P
  <2>1. \A i \in 1..9 : R[i] = Q[i]
    OBVIOUS
  <2>2. \A i \in 1..12 : P[i] = IF i <= 9 THEN Q[i] ELSE N[i - 9]
    OBVIOUS
  <2>0. \A i \in 1..9 : R[i] \in F
    OBVIOUS
  <2> HIDE DEF R, Q, N, P, F
  <2>3. SubSeq(R, 1, 9) \in Seq(F) /\ Len(SubSeq(R, 1, 9)) = 9
        /\ \A i \in 1..9 : SubSeq(R, 1, 9)[i] = R[i]
    <3>1. 9 \in 0..Len(R) /\ 1 \in 1..(Len(R) + 1)
      BY <1>b
    <3>a. SubSeq(R, 1, 9) \in Seq(F)
      <4>1. \A i \in 1..9 : R[i] \in F
        BY <2>0
      <4>2. 1 \in Int /\ 9 \in Int
        OBVIOUS
      <4> QED BY <4>1, <4>2, SubSeqProperties, Zenon
    <3>b. Len(SubSeq(R, 1, 9)) = 9
      BY <1>a, <1>b
    <3>2. SubSeq(R, 1, 9) \in Seq(F) /\ Len(SubSeq(R, 1, 9)) = 9
      BY <3>a, <3>b
    <3>3. \A i \in 1..9 : SubSeq(R, 1, 9)[i] = R[i]
      BY <1>a, <1>b, <3>1
    <3> QED BY <3>2, <3>3
  <2>4. SubSeq(R, 1, 9) = Q
    BY <1>a, <1>b, <2>1, <2>3, SeqEqual
  <2>5. Q \o N \in Seq(F) /\ Len(Q \o N) = 12
        /\ \A i \in 1..12 : (Q \o N)[i] = IF i <= 9 THEN Q[i] ELSE N[i - 9]
    <3>1. Q \o N \in Seq(F) /\ Len(Q \o N) = Len(Q) + Len(N)
          /\ \A i \in 1..Len(Q) + Len(N) : (Q \o N)[i] = IF i <= Len(Q) THEN Q[i] ELSE N[i - Len(Q)]
      BY <1>a, ConcatProperties, Zenon
    <3>2. Len(Q) + Len(N) = 12
      BY <1>b
    <3> QED BY <1>b, <3>1, <3>2
  <2>6. Q \o N = P
    <3> DEFINE M == Q \o N
    <3>1. M \in Seq(F) /\ Len(M) = Len(P) /\ \A i \in 1..Len(M) : M[i] = P[i]
      BY <1>b, <2>2, <2>5
    <3> HIDE DEF M
    <3>2. M = P
      BY <1>a, <3>1, SeqEqual
    <3> QED BY <3>2 DEF M
  <2> QED BY <1>1, <2>4, <2>6 DEF ReplyFields, N
<1> QED
  BY <1>2

\* The lists of fields.
LEMMA Fields ==
  /\ ToSet(RequestFields) = {"type", "name", "sectors", "account", "sas", "path", "host", "ip",
                             "lease", "vhd"}
  /\ ToSet(ReplyFields) = ToSet(RequestFields) \cup {"major", "minor"}
  /\ Len(RequestFields) = 10 /\ RequestFields \in Seq(Cell)
  /\ Len(ReplyFields) = 12 /\ ReplyFields \in Seq(Cell)
  /\ \A f \in ToSet(RequestFields) : \E i \in 1..10 : RequestFields[i] = f
  /\ \A i \in 1..10 : RequestFields[i] \in ToSet(RequestFields)
  /\ \A i \in 1..12 : ReplyFields[i] \in ToSet(ReplyFields)
<1> DEFINE R == <<"type", "name", "sectors", "account", "sas", "path", "host", "ip", "lease", "vhd">>
           P == <<"type", "name", "sectors", "account", "sas", "path", "host", "ip", "lease",
                  "major", "minor", "vhd">>
           F == {"type", "name", "sectors", "account", "sas", "path", "host", "ip", "lease", "vhd",
                 "major", "minor"}
<1>0. \A g \in F : g \in Cell
  BY DEF Cell
<1>a. R \in Seq(F) /\ P \in Seq(F)
  OBVIOUS
<1>b. Len(R) = 10 /\ Len(P) = 12
  OBVIOUS
<1>c. DOMAIN R = 1..10 /\ DOMAIN P = 1..12
  BY <1>a, <1>b
<1>1. RequestFields = R
  BY DEF RequestFields
<1>2. ReplyFields = P
  BY ReplyFieldsAre
<1>3. R \in Seq(Cell) /\ P \in Seq(Cell)
  <2> HIDE DEF R, P, F
  <2> QED BY <1>0, <1>a
<1>4. ToSet(RequestFields) = {R[i] : i \in 1..10} /\ ToSet(ReplyFields) = {P[i] : i \in 1..12}
  BY <1>1, <1>2, <1>c DEF ToSet
<1>5. {R[i] : i \in 1..10} = {"type", "name", "sectors", "account", "sas", "path", "host", "ip",
                             "lease", "vhd"}
  OBVIOUS
<1>6. {P[i] : i \in 1..12} = {"type", "name", "sectors", "account", "sas", "path", "host", "ip",
                             "lease", "vhd", "major", "minor"}
  OBVIOUS
<1>d. \A i \in 1..10 : R[i] \in {R[k] : k \in 1..10}
  OBVIOUS
<1>e. \A i \in 1..12 : P[i] \in {P[k] : k \in 1..12}
  OBVIOUS
<1>f. \A g \in {R[k] : k \in 1..10} : \E i \in 1..10 : R[i] = g
  OBVIOUS
<1> HIDE DEF R, P
<1>7. ToSet(ReplyFields) = ToSet(RequestFields) \cup {"major", "minor"}
  BY <1>4, <1>5, <1>6
<1> QED
  BY <1>1, <1>2, <1>3, <1>b, <1>4, <1>5, <1>7, <1>d, <1>e, <1>f

\* A text made of lines is a text.
LEMMA LinesType ==
  ASSUME NEW fields \in Seq(Cell), NEW d, \A i \in 1..Len(fields) : d[fields[i]] \in CText
  PROVE  Lines(fields, d) \in CText
<1> DEFINE s == [i \in 1..Len(fields) |-> d[fields[i]] \o NL]
<1>1. \A i \in 1..Len(fields) : d[fields[i]] \o NL \in CText
  <2>1. NL \in Seq(Cell)
    BY DEF NL, Cell
  <2> QED BY <2>1 DEF CText
<1>2. s \in Seq(Seq(Cell))
  BY <1>1 DEF CText
<1> HIDE DEF s
<1>3. FlattenSeq(s) \in CText
  BY <1>2, FlattenType DEF CText
<1> QED
  BY <1>3 DEF Lines, s

\* Where the fields of a request start.
LEMMA StartsSteps ==
  ASSUME NEW buf \in CText
  PROVE  LET st == Starts(buf)
             cut(i) == get_until(buf, st[i], NL, Room[RequestFields[i]])
         IN
         /\ st \in [1..11 -> Nat \cup {-1}]
         /\ st[1] = 0
         /\ \A i \in 1..10 : st[i] # -1 =>
              \/ cut(i) = -1 /\ st[i + 1] = -1
              \/ /\ cut(i) \in 0..(Room[RequestFields[i]] - 1)
                 /\ st[i] + cut(i) < Len(buf)
                 /\ st[i + 1] = st[i] + cut(i) + 1
<1> DEFINE V == Nat \cup {-1}
           cut(i, from) == get_until(buf, from, NL, Room[RequestFields[i - 1]])
           then(i, from) == IF from = -1 \/ cut(i, from) = -1 THEN -1 ELSE from + cut(i, from) + 1
           step == [i \in 2..11 |-> [from \in V |-> then(i, from)]]
           Goes(f) == f = [i \in 1..11 |-> IF i = 1 THEN 0 ELSE
                             IF f[i - 1] = -1 \/ cut(i, f[i - 1]) = -1 THEN -1
                             ELSE f[i - 1] + cut(i, f[i - 1]) + 1]
           st == CHOOSE f : Goes(f)
<1>1. Starts(buf) = st
  BY DEF Starts
<1>2. ASSUME NEW i \in 2..11, NEW from \in Nat
      PROVE  \/ cut(i, from) = -1
             \/ /\ cut(i, from) \in 0..(Room[RequestFields[i - 1]] - 1)
                /\ cut(i, from) \in Nat
                /\ from + cut(i, from) < Len(buf)
  <2>1. i - 1 \in 1..10 /\ Len(NL) = 1 /\ Len(NL) \in Nat \ {0}
    BY DEF NL
  <2>2. Room[RequestFields[i - 1]] \in Nat
    BY <2>1, Fields, CodecParametersAssumption
  <2>3. \/ cut(i, from) = -1
        \/ /\ cut(i, from) \in 0..(Room[RequestFields[i - 1]] - Len(NL))
           /\ Found(buf, from + cut(i, from), NL)
    BY <2>1, <2>2, GetUntil, Zenon DEF CText
  <2> QED BY <2>1, <2>2, <2>3 DEF Found
<1> HIDE DEF cut
<1>3. ASSUME NEW i \in 2..11, NEW from \in V PROVE then(i, from) \in V
  <2>1. CASE from = -1 \/ cut(i, from) = -1
    BY <2>1
  <2>2. CASE from # -1 /\ cut(i, from) # -1
    <3>1. from \in Nat
      BY <2>2
    <3>2. cut(i, from) \in Nat
      BY <1>2, <2>2, <3>1
    <3> QED BY <2>2, <3>1, <3>2
  <2> QED BY <2>1, <2>2
<1>4. step \in [2..11 -> [V -> V]] /\ \A i \in 2..11, v \in V : step[i][v] = then(i, v)
  BY <1>3
<1> HIDE DEF step
<1>5. PICK f : Follows(11, V, 0, step, f)
  <2>1. 11 \in Nat /\ 11 > 0 /\ 0 \in V
    OBVIOUS
  <2> HIDE DEF V
  <2> QED BY <1>4, <2>1, Recursion, Zenon
<1>6. Goes(f)
  <2>1. ASSUME NEW i \in 1..11 PROVE f[i] = IF i = 1 THEN 0 ELSE then(i, f[i - 1])
    <3>1. CASE i = 1
      BY <1>5, <3>1 DEF Follows
    <3>2. CASE i # 1
      <4>1. i \in 2..11 /\ i - 1 \in 1..11
        BY <3>2
      <4> HIDE DEF then, V
      <4> QED BY <1>4, <1>5, <3>2, <4>1 DEF Follows
    <3> QED BY <3>1, <3>2
  <2> QED BY <1>5, <2>1 DEF Follows
<1>7. Goes(st)
  <2> HIDE DEF Goes
  <2> QED BY <1>6, Zenon
<1> HIDE DEF st
<1>8. DOMAIN st = 1..11 /\ \A i \in 1..11 : st[i] = IF i = 1 THEN 0 ELSE then(i, st[i - 1])
  BY <1>7
<1> DEFINE G == {i \in 1..11 : st[i] \in V}
<1>9. 1..11 \subseteq G
  <2>1. 1 \in G
    BY <1>8
  <2>2. ASSUME NEW i \in 2..11, i - 1 \in G PROVE i \in G
    <3>1. i \in 1..11 /\ i # 1 /\ st[i - 1] \in V
      BY <2>2
    <3> HIDE DEF V, then
    <3>2. st[i] = then(i, st[i - 1])
      BY <1>8, <3>1
    <3> QED BY <1>3, <3>1, <3>2
  <2>3. 11 \in Nat
    OBVIOUS
  <2> HIDE DEF G
  <2> QED BY <2>1, <2>2, <2>3, Induction
<1>10. st \in [1..11 -> V] /\ st[1] = 0
  BY <1>7, <1>8, <1>9
<1>11. ASSUME NEW i \in 1..10, st[i] # -1
       PROVE  LET c == get_until(buf, st[i], NL, Room[RequestFields[i]]) IN
              \/ c = -1 /\ st[i + 1] = -1
              \/ /\ c \in 0..(Room[RequestFields[i]] - 1)
                 /\ st[i] + c < Len(buf)
                 /\ st[i + 1] = st[i] + c + 1
  <2>1. i + 1 \in 2..11 /\ (i + 1) - 1 = i /\ i + 1 \in 1..11 /\ i + 1 # 1 /\ i \in 1..11
    OBVIOUS
  <2>2. st[i] \in Nat
    BY <1>10, <1>11
  <2>3. cut(i + 1, st[i]) = get_until(buf, st[i], NL, Room[RequestFields[i]])
    BY <2>1 DEF cut
  <2>4. st[i + 1] = then(i + 1, st[i])
    BY <1>8, <2>1
  <2>5. \/ cut(i + 1, st[i]) = -1
        \/ /\ cut(i + 1, st[i]) \in 0..(Room[RequestFields[i]] - 1)
           /\ st[i] + cut(i + 1, st[i]) < Len(buf)
    BY <1>2, <2>1, <2>2
  <2> QED BY <1>11, <2>2, <2>3, <2>4, <2>5
<1> QED
  BY <1>1, <1>10, <1>11

-----------------------------------------------------------------------------
(***************************************************************************)
(* The codec: its types.                                                   *)
(***************************************************************************)
LEMMA WiderSeq ==
  ASSUME NEW S, NEW T, S \subseteq T, NEW s \in Seq(S)
  PROVE  s \in Seq(T)
OBVIOUS

\* What a user writes is such a text.
LEMMA TextIsCText == \A x \in Text : x \in CText
<1>1. STRING \subseteq Cell
  BY DEF Cell
<1> QED
  BY <1>1, WiderSeq, Zenon DEF Text, CText

\* A reply's first line says whether it is an error.
Opens(out) ==
  /\ out \in CText
  /\ Len(out) >= 2
  /\ out[1] \in {"OK", "ERR"} /\ out[2] = "nl"

\* OK and ERR open a reply, whatever follows.
LEMMA OpensWith ==
  /\ Opens(OK) /\ Opens(ERR)
  /\ \A a, x : Opens(a) /\ x \in CText => Opens(a \o x)
<1>1. Opens(OK) /\ Opens(ERR)
  <2>1. OK \in Seq(Cell) /\ ERR \in Seq(Cell)
    BY DEF OK, ERR, Cell
  <2> QED BY <2>1 DEF Opens, OK, ERR, CText
<1>2. ASSUME NEW a, NEW x, Opens(a), x \in CText PROVE Opens(a \o x)
  <2>1. a \in Seq(Cell) /\ x \in Seq(Cell) /\ Len(a) >= 2 /\ 1 \in 1..Len(a) /\ 2 \in 1..Len(a)
    BY <1>2 DEF Opens, CText
  <2>2. a \o x \in Seq(Cell) /\ Len(a \o x) >= 2
    BY <2>1
  <2>3. (a \o x)[1] = a[1] /\ (a \o x)[2] = a[2]
    BY <2>1
  <2> QED BY <1>2, <2>2, <2>3 DEF Opens, CText
<1> QED
  BY <1>1, <1>2

\* What is read of a text is one.
LEMMA LineType ==
  ASSUME NEW buf \in CText, NEW from \in Nat, NEW cut \in Nat \cup {-1},
         cut # -1 => from + cut <= Len(buf)
  PROVE  /\ Line(buf, from, cut) \in CText
         /\ cut # -1 => Len(Line(buf, from, cut)) = cut
<1>1. CASE cut <= 0
  <2>1. Line(buf, from, cut) = <<>>
    BY <1>1 DEF Line
  <2> QED BY <1>1, <2>1 DEF CText
<1>2. CASE ~ (cut <= 0)
  <2>1. Line(buf, from, cut) = SubSeq(buf, from + 1, from + cut) /\ cut \in Nat /\ cut > 0
    BY <1>2 DEF Line
  <2>2. from + 1 \in Int /\ from + cut \in Int /\ \A i \in (from + 1)..(from + cut) : buf[i] \in Cell
    BY <1>2 DEF CText
  <2>3. /\ SubSeq(buf, from + 1, from + cut) \in Seq(Cell)
        /\ Len(SubSeq(buf, from + 1, from + cut)) =
             IF from + 1 <= from + cut THEN from + cut - (from + 1) + 1 ELSE 0
    BY <2>2, SubSeqProperties
  <2>4. Len(SubSeq(buf, from + 1, from + cut)) = cut
    BY <2>1, <2>3
  <2> QED BY <2>1, <2>3, <2>4 DEF CText
<1> QED
  BY <1>1, <1>2

\* Where a line feed is found.
LEMMA FoundBreak ==
  \A buf : \A x \in Nat : Found(buf, x, NL) <=> x < Len(buf) /\ buf[x + 1] = "nl"
<1> SUFFICES ASSUME NEW buf, NEW x \in Nat
             PROVE  Found(buf, x, NL) <=> x < Len(buf) /\ buf[x + 1] = "nl"
  OBVIOUS
<1>1. Len(NL) = 1 /\ NL[1] = "nl" /\ x + 1 - 1 = x
  BY DEF NL
<1>2. StandsAt(buf, x, NL) <=> At(buf, x + 1 - 1) = NL[1]
  <2>1. 1..Len(NL) = {1}
    BY <1>1
  <2> QED BY <2>1 DEF StandsAt
<1>3. x < Len(buf) => At(buf, x) = buf[x + 1]
  BY DEF At
<1> QED
  BY <1>1, <1>2, <1>3 DEF Found

\* What get_until() cuts at a line feed has none.
LEMMA LineUnbroken ==
  ASSUME NEW buf \in CText, NEW from \in Nat, NEW max \in Nat
  PROVE  Unbroken(Line(buf, from, get_until(buf, from, NL, max)))
<1> DEFINE cut == get_until(buf, from, NL, max)
<1>1. CASE cut <= 0
  <2>1. Line(buf, from, cut) = <<>>
    BY <1>1 DEF Line
  <2> QED BY <2>1 DEF Unbroken
<1>2. CASE ~(cut <= 0)
  <2>1. Len(NL) = 1 /\ Len(NL) \in Nat \ {0}
    BY DEF NL
  <2>2. \/ cut = -1
        \/ /\ cut \in 0..(max - Len(NL))
           /\ Found(buf, from + cut, NL)
           /\ \A i \in from..(from + cut - 1) : ~ Found(buf, i, NL)
    BY <2>1, GetUntil, Zenon DEF CText
  <2> HIDE DEF cut
  <2>3. /\ cut \in Nat /\ cut > 0 /\ from + cut < Len(buf)
        /\ \A i \in from..(from + cut - 1) : ~ Found(buf, i, NL)
    BY <1>2, <2>1, <2>2 DEF Found
  <2> DEFINE u == SubSeq(buf, from + 1, from + cut)
             a == from + 1
             b == from + cut
  <2>4. Line(buf, from, cut) = u
    BY <1>2 DEF Line
  <2>5. /\ Len(buf) \in Nat /\ a \in Int /\ b \in Int /\ a <= b /\ b - a + 1 = cut
        /\ \A j \in 1..cut : a + j - 1 = from + j
        /\ \A j \in a..b : j \in 1..Len(buf)
    BY <2>3 DEF CText
  <2>6. Len(u) = cut /\ DOMAIN u = 1..cut /\ \A j \in 1..cut : u[j] = buf[from + j]
    <3>1. \A j \in a..b : buf[j] \in Cell
      BY <2>5 DEF CText
    <3> HIDE DEF a, b
    <3>2. /\ SubSeq(buf, a, b) \in Seq(Cell)
          /\ Len(SubSeq(buf, a, b)) = IF a <= b THEN b - a + 1 ELSE 0
          /\ \A j \in 1..(b - a + 1) : SubSeq(buf, a, b)[j] = buf[a + j - 1]
      BY <2>5, <3>1, SubSeqProperties
    <3>3. /\ Len(SubSeq(buf, a, b)) = cut /\ DOMAIN SubSeq(buf, a, b) = 1..cut
          /\ \A j \in 1..cut : SubSeq(buf, a, b)[j] = buf[from + j]
      BY <2>5, <3>2
    <3> QED BY <3>3 DEF a, b
  <2> HIDE DEF u
  <2>7. ASSUME NEW j \in 1..cut PROVE u[j] # "nl"
    <3> DEFINE x == from + j - 1
    <3>1. x \in from..(from + cut - 1) /\ x \in Nat /\ x + 1 = from + j /\ x < Len(buf)
      BY <2>3, <2>5
    <3> HIDE DEF x
    <3>2. ~ Found(buf, x, NL)
      BY <2>3, <3>1
    <3>3. buf[x + 1] # "nl"
      BY <3>1, <3>2, FoundBreak
    <3> QED BY <2>6, <3>1, <3>3
  <2>8. Unbroken(u)
    BY <2>6, <2>7 DEF Unbroken
  <2> QED BY <2>4, <2>8 DEF cut
<1> QED
  BY <1>1, <1>2

\* A request of which every field was determined has them all, and each leaves
\* room for the zero behind it.
LEMMA FieldsDetermined ==
  ASSUME NEW buf \in CText, Undetermined(buf) = {}
  PROVE  /\ \A i \in 1..11 : Starts(buf)[i] \in Nat
         /\ \A i \in 1..10 :
              /\ Field(buf, i) \in CText
              /\ Len(Field(buf, i)) < Room[RequestFields[i]]
              /\ Unbroken(Field(buf, i))
              /\ RequestFields[i] \in {"sectors", "vhd"} => IsDigits(Field(buf, i))
<1> DEFINE st == Starts(buf)
           cut(i) == get_until(buf, st[i], NL, Room[RequestFields[i]])
           G == {i \in 1..11 : st[i] # -1}
<1>1. /\ st \in [1..11 -> Nat \cup {-1}]
      /\ st[1] = 0
      /\ \A i \in 1..10 : st[i] # -1 =>
           \/ cut(i) = -1 /\ st[i + 1] = -1
           \/ /\ cut(i) \in 0..(Room[RequestFields[i]] - 1)
              /\ st[i] + cut(i) < Len(buf)
              /\ st[i + 1] = st[i] + cut(i) + 1
  BY StartsSteps
<1>2. ASSUME NEW i \in 1..10, st[i] # -1 PROVE st[i + 1] # -1
  <2>1. i \notin Undetermined(buf)
    OBVIOUS
  <2> HIDE DEF st
  <2> QED BY <1>2, <2>1 DEF Undetermined, st
<1>3. ASSUME NEW i \in 1..10, st[i + 1] # -1, RequestFields[i] \in {"sectors", "vhd"}
      PROVE  IsDigits(Field(buf, i))
  <2>1. i \notin Undetermined(buf)
    OBVIOUS
  <2> HIDE DEF st
  <2> QED BY <1>3, <2>1 DEF Undetermined, st
<1> HIDE DEF st, cut
<1>4. 1..11 \subseteq G
  <2>1. 1 \in G
    BY <1>1
  <2>2. ASSUME NEW i \in 2..11, i - 1 \in G PROVE i \in G
    <3>1. i - 1 \in 1..10 /\ st[i - 1] # -1 /\ (i - 1) + 1 = i /\ i \in 1..11
      BY <2>2
    <3>2. st[(i - 1) + 1] # -1
      BY <1>2, <3>1
    <3> QED BY <3>1, <3>2
  <2>3. 11 \in Nat
    OBVIOUS
  <2> HIDE DEF G
  <2> QED BY <2>1, <2>2, <2>3, Induction
<1>5. \A i \in 1..11 : st[i] \in Nat /\ st[i] # -1
  BY <1>1, <1>4
<1>6. ASSUME NEW i \in 1..10
      PROVE  /\ Field(buf, i) \in CText
             /\ Len(Field(buf, i)) < Room[RequestFields[i]]
             /\ Unbroken(Field(buf, i))
             /\ RequestFields[i] \in {"sectors", "vhd"} => IsDigits(Field(buf, i))
  <2>1. i \in 1..11 /\ i + 1 \in 1..11
    OBVIOUS
  <2>2. st[i] \in Nat /\ st[i + 1] \in Nat /\ st[i] # -1 /\ st[i + 1] # -1
    BY <1>5, <2>1
  <2>3. Room[RequestFields[i]] \in Nat
    BY Fields, CodecParametersAssumption
  <2>4. /\ cut(i) \in 0..(Room[RequestFields[i]] - 1)
        /\ st[i] + cut(i) < Len(buf)
        /\ st[i + 1] - st[i] - 1 = cut(i)
    <3>1. /\ cut(i) \in 0..(Room[RequestFields[i]] - 1)
          /\ st[i] + cut(i) < Len(buf)
          /\ st[i + 1] = st[i] + cut(i) + 1
      BY <1>1, <2>2
    <3>2. cut(i) \in Int
      BY <2>3, <3>1
    <3> QED BY <2>2, <3>1, <3>2
  <2>5. Field(buf, i) = Line(buf, st[i], cut(i))
    BY <2>4 DEF Field, st
  <2>6. cut(i) \in Nat /\ cut(i) < Room[RequestFields[i]] /\ st[i] + cut(i) <= Len(buf) /\ cut(i) # -1
    <3> DEFINE c == cut(i)
               x == st[i]
               r == Room[RequestFields[i]]
    <3>1. c \in 0..(r - 1) /\ x + c < Len(buf) /\ x \in Nat /\ r \in Nat /\ Len(buf) \in Nat
      BY <2>2, <2>3, <2>4 DEF CText
    <3> HIDE DEF c, x, r
    <3>2. c \in Nat /\ c < r /\ x + c <= Len(buf) /\ c # -1
      BY <3>1
    <3> QED BY <3>2 DEF c, x, r
  <2>7. Field(buf, i) \in CText /\ Len(Field(buf, i)) = cut(i)
    BY <2>2, <2>5, <2>6, LineType
  <2>8. Unbroken(Field(buf, i))
    <3>1. Unbroken(Line(buf, st[i], get_until(buf, st[i], NL, Room[RequestFields[i]])))
      BY <2>2, <2>3, LineUnbroken
    <3> QED BY <2>5, <3>1 DEF cut
  <2> QED BY <1>3, <2>2, <2>6, <2>7, <2>8
<1> QED
  BY <1>5, <1>6 DEF st

\* A dysk_def that was determined: every text of it ends inside its array, and
\* no line feed is in its name.
LEMMA DefFromBuffer ==
  ASSUME NEW buf \in CText, Undetermined(buf) = {}
  PROVE  /\ dysk_def_from_buffer(buf) \in [ToSet(RequestFields) -> CText]
         /\ \A f \in ToSet(RequestFields) : Len(dysk_def_from_buffer(buf)[f]) < Room[f]
         /\ Unbroken(dysk_def_from_buffer(buf)["name"])
<1> DEFINE dd == dysk_def_from_buffer(buf)
           at(f) == CHOOSE i \in 1..10 : RequestFields[i] = f
           text(f) == Field(buf, at(f))
<1>1. dd = [f \in ToSet(RequestFields) |->
              CASE f = "type" -> IF IsPrefix(<<"R", "W">>, text(f)) THEN <<"R", "W">> ELSE <<"R">>
                [] f = "vhd"  -> SubSeq(text(f), 1, 1)
                [] OTHER      -> text(f)]
  BY DEF dysk_def_from_buffer
<1>2. ASSUME NEW f \in ToSet(RequestFields)
      PROVE  /\ text(f) \in CText /\ Len(text(f)) < Room[f] /\ Unbroken(text(f))
             /\ f = "vhd" => IsDigits(text(f))
  <2>1. at(f) \in 1..10 /\ RequestFields[at(f)] = f
    BY Fields, Zenon
  <2> HIDE DEF at
  <2> QED BY <2>1, FieldsDetermined
<1> HIDE DEF text
<1>3. ASSUME NEW f \in ToSet(RequestFields)
      PROVE  dd[f] \in CText /\ Len(dd[f]) < Room[f]
  <2>0. Room[f] \in Nat /\ Len(text(f)) \in Nat
    BY <1>2, CodecParametersAssumption DEF CText
  <2>1. CASE f = "type"
    <3>1. <<"R", "W">> \in CText /\ <<"R">> \in CText /\ Len(<<"R", "W">>) = 2 /\ Len(<<"R">>) = 1
      BY DEF CText, Cell
    <3>2. IsPrefix(<<"R", "W">>, text(f)) => 2 <= Len(text(f))
      BY <3>1 DEF IsPrefix
    <3>3. dd[f] = IF IsPrefix(<<"R", "W">>, text(f)) THEN <<"R", "W">> ELSE <<"R">>
      BY <1>1, <2>1
    <3>4. 1 < Room[f]
      BY <2>1, CodecParametersAssumption
    <3> QED BY <1>2, <2>0, <3>1, <3>2, <3>3, <3>4
  <2>2. CASE f = "vhd"
    <3>1. dd[f] = SubSeq(text(f), 1, 1)
      BY <1>1, <2>2
    <3>2. text(f) \in Seq(Cell) /\ text(f) # <<>>
      BY <1>2, <2>2 DEF IsDigits, CText
    <3>3. Len(text(f)) >= 1
      BY <3>2
    <3>4. \A i \in 1..1 : text(f)[i] \in Cell
      BY <3>2, <3>3
    <3>5. SubSeq(text(f), 1, 1) \in Seq(Cell) /\ Len(SubSeq(text(f), 1, 1)) = 1
      BY <3>4, SubSeqProperties
    <3> QED BY <1>2, <2>0, <3>1, <3>3, <3>5 DEF CText
  <2>3. CASE f \notin {"type", "vhd"}
    <3>1. dd[f] = text(f)
      BY <1>1, <2>3
    <3> QED BY <1>2, <3>1
  <2> QED BY <2>1, <2>2, <2>3
<1>4. dd = [f \in ToSet(RequestFields) |-> dd[f]]
  BY <1>1
<1>5. Unbroken(dd["name"])
  <2>1. "name" \in ToSet(RequestFields) /\ "name" \notin {"type", "vhd"}
    BY Fields
  <2>2. dd["name"] = text("name")
    BY <1>1, <2>1
  <2> QED BY <1>2, <2>1, <2>2
<1> HIDE DEF dd
<1> QED
  BY <1>3, <1>4, <1>5 DEF dd

\* The dysks the module may have.
Listing == [def : [ToSet(ReplyFields) -> CText], asked : Wanted]

\* Every text of a dysk has room for its zero.
WellDefined(l) == \A f \in ToSet(RequestFields) : Len(l.def[f]) < Room[f]

\* The calls the module answers.
Asks == {"mount", "unmount", "get", "list"}

\* The module's list has dysks of these kinds.
DysksInv ==
  /\ dysks \in Seq(Listing)
  /\ Len(dysks) <= MaxListed
  /\ \A i \in DOMAIN dysks : WellDefined(dysks[i])

\* The buffer is full, with zeros when not with text.
BufferInv == buffer \in CText /\ Len(buffer) = MAX_IN_OUT

\* A name that List is to ask for came out of a buffer.
NamesInv ==
  /\ names \in Seq(CText)
  /\ \A i \in DOMAIN names : Fits(names[i] \o NL)

\* A call that came back has a reply; a mount knows its dysk; a get that is due
\* has a name.
CallInv ==
  /\ call \in [op : Asks \cup {"idle", "next"}, of : CText \cup Wanted,
               at : {"client", "module", "overrun"}]
  /\ call.op = "mount" => call.of \in Wanted
  /\ call.op = "next" => names # <<>>
  /\ (call.op \in Asks /\ call.at = "client") => Opens(buffer)

\* What the client ends with.
AnswerInv == answer.kind \in {"nothing", "done", "error", "errno"}

\* What holds of the codec in every state.
CodecInv == DysksInv /\ BufferInv /\ NamesInv /\ CallInv /\ AnswerInv

\* What the client puts into the buffer.
LEMMA BufferizeType ==
  ASSUME NEW text \in CText, Fits(text)
  PROVE  bufferize(text) \in CText /\ Len(bufferize(text)) = MAX_IN_OUT
<1> DEFINE pad == [i \in 1..(MAX_IN_OUT - Len(text)) |-> "nul"]
<1>1. Len(text) \in Nat /\ MAX_IN_OUT \in Nat /\ MAX_IN_OUT - Len(text) \in Nat
  BY CodecParametersAssumption DEF CText, Fits
<1>2. "nul" \in Cell
  BY DEF Cell
<1>3. pad \in Seq(Cell) /\ Len(pad) = MAX_IN_OUT - Len(text)
  BY <1>1, <1>2
<1> HIDE DEF pad
<1>4. text \o pad \in Seq(Cell) /\ Len(text \o pad) = Len(text) + Len(pad)
  BY <1>3 DEF CText
<1>5. Len(text \o pad) = MAX_IN_OUT
  BY <1>1, <1>3, <1>4
<1> QED
  BY <1>4, <1>5 DEF bufferize, pad, CText

\* A reply that comes to the client fitted into the buffer.
LEMMA ReplyFits ==
  ASSUME CodecInv, NEW out, Reply(out), call'.at = "client"
  PROVE  /\ FitsWithZero(out)
         /\ buffer' = out \o SubSeq(buffer, Len(out) + 1, MAX_IN_OUT)
         /\ said' = SubSeq(out, FirstBreak(out) + 1, Len(out))
<1>1. call' # [call EXCEPT !.at = "overrun"]
  BY DEF CodecInv, CallInv
<1> QED
  BY <1>1 DEF Reply

\* Room for the zero is room for the text.
LEMMA RoomForZero ==
  ASSUME NEW out \in CText, FitsWithZero(out)
  PROVE  Fits(out) /\ Len(out) <= MAX_IN_OUT
<1>1. Len(out) \in Nat /\ MAX_IN_OUT \in Nat
  BY CodecParametersAssumption DEF CText
<1> QED
  BY <1>1 DEF FitsWithZero, Fits

\* What a reply leaves.
LEMMA ReplyKeeps ==
  ASSUME CodecInv, NEW out, Opens(out), Reply(out), call.op \in Asks
  PROVE  BufferInv' /\ NamesInv' /\ CallInv' /\ AnswerInv'
<1>1. NamesInv' /\ AnswerInv' /\ names' = names
  BY DEF Reply, CodecInv, NamesInv, AnswerInv, Fits
<1>2. CASE FitsWithZero(out)
  <2> DEFINE rest == SubSeq(buffer, Len(out) + 1, MAX_IN_OUT)
  <2>1. /\ buffer \in Seq(Cell) /\ Len(buffer) = MAX_IN_OUT /\ MAX_IN_OUT \in Nat
        /\ out \in Seq(Cell) /\ Len(out) \in Nat /\ Len(out) <= MAX_IN_OUT
    BY <1>2, RoomForZero, CodecParametersAssumption DEF CodecInv, BufferInv, CText, Opens
  <2>2. rest \in Seq(Cell) /\ Len(rest) = MAX_IN_OUT - Len(out)
    <3>1. \A i \in (Len(out) + 1)..MAX_IN_OUT : buffer[i] \in Cell
      BY <2>1
    <3>2. rest \in Seq(Cell) /\ Len(rest) = IF Len(out) + 1 <= MAX_IN_OUT
                                              THEN MAX_IN_OUT - (Len(out) + 1) + 1 ELSE 0
      BY <2>1, <3>1, SubSeqProperties
    <3> QED BY <2>1, <3>2
  <2>3. buffer' = out \o rest /\ call' = [call EXCEPT !.at = "client"]
    BY <1>2 DEF Reply
  <2> HIDE DEF rest
  <2>4. buffer' \in CText /\ Opens(buffer')
    BY <2>2, <2>3, OpensWith DEF CText, Opens
  <2>5. Len(buffer') = MAX_IN_OUT
    <3>1. Len(out \o rest) = Len(out) + Len(rest)
      BY <2>1, <2>2
    <3> QED BY <2>1, <2>2, <2>3, <3>1
  <2>6. CallInv'
    BY <1>1, <2>3, <2>4 DEF CodecInv, CallInv, Asks
  <2> QED BY <1>1, <2>4, <2>5, <2>6 DEF BufferInv
<1>3. CASE ~ FitsWithZero(out)
  <2>1. UNCHANGED buffer /\ call' = [call EXCEPT !.at = "overrun"]
    BY <1>3 DEF Reply
  <2>2. BufferInv' /\ CallInv'
    BY <1>1, <2>1 DEF CodecInv, BufferInv, CallInv, Asks
  <2> QED BY <1>1, <2>2
<1> QED
  BY <1>2, <1>3

\* The definition a mounted dysk has.
LEMMA MountedType ==
  ASSUME CodecInv, Undetermined(buffer) = {}, FreeMinors # {}
  PROVE  /\ Mounted \in [ToSet(ReplyFields) -> CText]
         /\ \A f \in ToSet(RequestFields) : Mounted[f] = dysk_def_from_buffer(buffer)[f]
<1> DEFINE k == CHOOSE k \in FreeMinors : \A j \in FreeMinors : k <= j
           dd == dysk_def_from_buffer(buffer)
<1>1. k \in FreeMinors
  <2>1. FreeMinors \subseteq Nat
    BY CodecParametersAssumption DEF FreeMinors
  <2>2. \E x \in FreeMinors : \A j \in FreeMinors : x <= j
    BY <2>1, LeastNatural, Zenon
  <2> QED BY <2>2, Zenon
<1>2. Minors[k] \in CText
  <2>1. k \in DOMAIN Minors
    BY <1>1 DEF FreeMinors
  <2> HIDE DEF k
  <2> QED BY <2>1, CodecParametersAssumption, TextIsCText
<1>3. dd \in [ToSet(RequestFields) -> CText]
  BY DefFromBuffer DEF CodecInv, BufferInv
<1>4. Mounted = [f \in ToSet(ReplyFields) |->
         CASE f = "major" -> <<"9">> [] f = "minor" -> Minors[k] [] OTHER -> dd[f]]
  BY DEF Mounted
<1>5. <<"9">> \in CText
  BY DEF CText, Cell
<1> HIDE DEF k, dd
<1>6. ASSUME NEW f \in ToSet(ReplyFields) PROVE Mounted[f] \in CText
  <2>1. CASE f = "major"
    BY <1>4, <1>5, <2>1
  <2>2. CASE f = "minor"
    BY <1>2, <1>4, <2>2
  <2>3. CASE f \notin {"major", "minor"}
    <3>1. f \in ToSet(RequestFields) /\ Mounted[f] = dd[f]
      BY <1>4, <2>3, Fields
    <3> QED BY <1>3, <3>1
  <2> QED BY <2>1, <2>2, <2>3
<1>7. ASSUME NEW f \in ToSet(RequestFields) PROVE Mounted[f] = dd[f]
  <2>1. f \in ToSet(ReplyFields) /\ f # "major" /\ f # "minor"
    BY Fields
  <2> QED BY <1>4, <2>1
<1>8. Mounted = [f \in ToSet(ReplyFields) |-> Mounted[f]]
  BY <1>4
<1> QED
  BY <1>6, <1>7, <1>8 DEF dd

\* What the module says of a dysk.
LEMMA ToBufferType ==
  ASSUME NEW d \in [ToSet(ReplyFields) -> CText]
  PROVE  dysk_def_to_buffer(d) \in CText
<1>1. \A i \in 1..Len(ReplyFields) : d[ReplyFields[i]] \in CText
  BY Fields
<1> QED
  BY <1>1, Fields, LinesType DEF dysk_def_to_buffer

\* The name the module reads is a text.
LEMMA NameOfType ==
  ASSUME NEW buf \in CText
  PROVE  NameOf(buf) \in CText
<1> DEFINE cut == get_until(buf, 0, NL, Room["name"])
<1>1. Len(NL) = 1 /\ Len(NL) \in Nat \ {0} /\ Room["name"] \in Nat /\ 0 \in Nat
  BY Fields, CodecParametersAssumption DEF NL
<1>2. \/ cut = -1
      \/ cut \in 0..(Room["name"] - Len(NL)) /\ Found(buf, 0 + cut, NL)
  BY <1>1, GetUntil, Zenon DEF CText
<1> HIDE DEF cut
<1>3. cut \in Nat \cup {-1} /\ (cut # -1 => 0 + cut <= Len(buf))
  BY <1>1, <1>2 DEF Found, CText
<1>4. Line(buf, 0, cut) \in CText
  BY <1>3, LineType
<1> QED
  BY <1>4 DEF NameOf, cut

\* A line.
LEMMA WithBreak ==
  ASSUME NEW a \in CText
  PROVE  a \o NL \in CText /\ Len(a \o NL) = Len(a) + 1
<1>1. a \in Seq(Cell) /\ NL \in Seq(Cell) /\ Len(NL) = 1
  BY DEF CText, NL, Cell
<1>2. a \o NL \in Seq(Cell) /\ Len(a \o NL) = Len(a) + Len(NL)
  BY <1>1, ConcatProperties
<1> QED
  BY <1>1, <1>2 DEF CText

\* What the module says of its dysks.
LEMMA ListedType ==
  ASSUME DysksInv
  PROVE  /\ \A k \in 0..Len(dysks) : NamesOf(k) \in CText
         /\ Listed \in CText
         /\ \E m \in 0..Len(dysks) :
              /\ Listed = NamesOf(m)
              /\ Len(OK \o NamesOf(m)) <= MAX_IN_OUT - 1
              /\ \A k \in 0..Len(dysks) : Len(OK \o NamesOf(k)) <= MAX_IN_OUT - 1 => k <= m
<1> DEFINE S == {k \in 0..Len(dysks) : Len(OK \o NamesOf(k)) <= MAX_IN_OUT - 1}
<1>1. dysks \in Seq(Listing) /\ Len(dysks) \in Nat
  BY DEF DysksInv
<1>2. ASSUME NEW k \in 0..Len(dysks) PROVE NamesOf(k) \in CText
  <2> DEFINE s == [i \in 1..k |-> dysks[i].def.name \o NL]
  <2>1. ASSUME NEW i \in 1..k PROVE dysks[i].def.name \o NL \in Seq(Cell)
    <3>1. dysks[i] \in Listing /\ "name" \in ToSet(ReplyFields)
      BY <1>1, Fields
    <3>2. dysks[i].def.name \in Seq(Cell) /\ NL \in Seq(Cell)
      BY <3>1 DEF Listing, CText, NL, Cell
    <3> QED BY <3>2
  <2>2. s \in Seq(Seq(Cell))
    BY <2>1
  <2> HIDE DEF s
  <2>3. FlattenSeq(s) \in CText
    BY <2>2, FlattenType DEF CText
  <2> QED BY <2>3 DEF NamesOf, s
<1>3. 0 \in S
  <2>1. NamesOf(0) = <<>>
    <3> DEFINE s == [i \in 1..0 |-> dysks[i].def.name \o NL]
    <3>1. s = <<>>
      OBVIOUS
    <3>2. FlattenSeq(<<>>) = <<>>
      BY DEF FlattenSeq
    <3> QED BY <3>1, <3>2 DEF NamesOf
  <2>2. Len(OK \o <<>>) = 2
    BY DEF OK
  <2>3. Len(OK \o NamesOf(0)) <= MAX_IN_OUT - 1
    <3>1. Len(OK \o NamesOf(0)) = 2
      BY <2>1, <2>2
    <3>2. MAX_IN_OUT \in Nat /\ MAX_IN_OUT > 2
      BY CodecParametersAssumption
    <3> QED BY <3>1, <3>2
  <2>4. 0 \in 0..Len(dysks)
    BY <1>1
  <2> QED BY <2>3, <2>4
<1>4. Max(S) \in S /\ \A k \in S : Max(S) >= k
  <2> DEFINE T == {Len(dysks) - k : k \in S}
  <2>0. \A k \in S : k \in 0..Len(dysks)
    OBVIOUS
  <2> HIDE DEF S
  <2>1. T \subseteq Nat /\ T # {}
    BY <1>1, <1>3, <2>0
  <2>2. PICK x \in T : \A y \in T : x <= y
    <3> HIDE DEF T
    <3> QED BY <2>1, LeastNatural, Zenon
  <2>3. PICK m \in S : x = Len(dysks) - m
    OBVIOUS
  <2>4. ASSUME NEW k \in S PROVE m >= k
    <3>1. x <= Len(dysks) - k
      BY <2>2
    <3> QED BY <1>1, <2>0, <2>3, <3>1
  <2>5. Max(S) = CHOOSE y \in S : \A k \in S : y >= k
    BY DEF Max
  <2> QED BY <2>4, <2>5, Zenon
<1>5. Listed = NamesOf(Max(S))
  BY DEF Listed
<1>6. Max(S) \in 0..Len(dysks)
  BY <1>4
<1>7. ASSUME NEW k \in 0..Len(dysks), Len(OK \o NamesOf(k)) <= MAX_IN_OUT - 1 PROVE k <= Max(S)
  <2>1. k \in S /\ k \in Nat /\ Max(S) \in Nat
    BY <1>1, <1>6, <1>7
  <2>2. Max(S) >= k
    BY <1>4, <2>1
  <2> HIDE DEF S
  <2> QED BY <2>1, <2>2
<1>8. Len(OK \o NamesOf(Max(S))) <= MAX_IN_OUT - 1
  BY <1>4
<1> HIDE DEF S
<1> QED
  BY <1>2, <1>5, <1>6, <1>7, <1>8

\* The client finds the first line of a reply.
LEMMA ParsedReply ==
  ASSUME NEW buf, Opens(buf)
  PROVE  /\ FirstBreak(buf) = 2
         /\ parseResponse(buf).is_error <=> buf[1] = "ERR"
         /\ parseResponse(buf).response = SubSeq(buf, 3, Len(buf))
         /\ parseResponse(buf).response \in CText
         /\ Len(parseResponse(buf).response) = Len(buf) - 2
<1>1. buf \in Seq(Cell) /\ Len(buf) \in Nat /\ Len(buf) >= 2 /\ DOMAIN buf = 1..Len(buf)
  BY DEF Opens, CText
<1>2. buf[2] = "nl" /\ buf[1] # "nl" /\ buf[1] \in {"OK", "ERR"}
  BY DEF Opens
<1>3. FirstBreak(buf) = 2
  <2> DEFINE Is(i) == buf[i] = "nl" /\ \A j \in 1..(i - 1) : buf[j] # "nl"
  <2>1. 2 \in DOMAIN buf /\ Is(2)
    BY <1>1, <1>2
  <2>2. ASSUME NEW i \in DOMAIN buf, Is(i) PROVE i = 2
    <3>1. ~ (2 \in 1..(i - 1))
      BY <1>2, <2>2
    <3> QED BY <1>1, <1>2, <2>2, <3>1
  <2>3. FirstBreak(buf) = CHOOSE i \in DOMAIN buf : Is(i)
    BY DEF FirstBreak
  <2> HIDE DEF Is
  <2> QED BY <2>1, <2>2, <2>3
<1>4. SubSeq(buf, 1, 2) = ERR <=> buf[1] = "ERR"
  <2> DEFINE line == SubSeq(buf, 1, 2)
  <2>1. line \in Seq(Cell) /\ Len(line) = 2 /\ line[1] = buf[1] /\ line[2] = "nl"
    BY <1>1, <1>2
  <2>2. ERR \in Seq(Cell) /\ Len(ERR) = 2 /\ ERR[1] = "ERR" /\ ERR[2] = "nl"
    BY DEF ERR, Cell
  <2> HIDE DEF line
  <2>3. \A i \in 1..2 : i = 1 \/ i = 2
    OBVIOUS
  <2>4. buf[1] = "ERR" => line = ERR
    BY <2>1, <2>2, <2>3, SeqEqual
  <2> QED BY <2>1, <2>2, <2>4 DEF line
<1>5. SubSeq(buf, 3, Len(buf)) \in CText /\ Len(SubSeq(buf, 3, Len(buf))) = Len(buf) - 2
  <2>1. \A i \in 3..Len(buf) : buf[i] \in Cell
    BY <1>1
  <2>2. /\ SubSeq(buf, 3, Len(buf)) \in Seq(Cell)
        /\ Len(SubSeq(buf, 3, Len(buf))) = IF 3 <= Len(buf) THEN Len(buf) - 3 + 1 ELSE 0
    BY <1>1, <2>1, SubSeqProperties
  <2> QED BY <1>1, <2>2 DEF CText
<1>6. parseResponse(buf) = [is_error |-> SubSeq(buf, 1, 2) = ERR,
                            response |-> SubSeq(buf, 3, Len(buf))]
  BY <1>3 DEF parseResponse
<1>7. parseResponse(buf).is_error <=> buf[1] = "ERR"
  <2> DEFINE e == SubSeq(buf, 1, 2) = ERR
             t == SubSeq(buf, 3, Len(buf))
  <2>1. parseResponse(buf) = [is_error |-> e, response |-> t]
    BY <1>6
  <2>2. e <=> buf[1] = "ERR"
    BY <1>4
  <2> HIDE DEF e, t
  <2>3. parseResponse(buf).is_error <=> e
    BY <2>1
  <2> QED BY <2>2, <2>3
<1>8. parseResponse(buf).response = SubSeq(buf, 3, Len(buf))
  BY <1>6
<1> QED
  BY <1>3, <1>5, <1>7, <1>8

\* The elements of two sequences put together.
LEMMA ConcatAt ==
  ASSUME NEW S, NEW a \in Seq(S), NEW b \in Seq(S)
  PROVE  /\ a \o b \in Seq(S) /\ Len(a \o b) = Len(a) + Len(b)
         /\ \A j \in 1..Len(a) : (a \o b)[j] = a[j]
         /\ \A j \in 1..Len(b) : (a \o b)[Len(a) + j] = b[j]
<1>1. a \o b \in Seq(S) /\ Len(a \o b) = Len(a) + Len(b)
  OBVIOUS
<1>2. \A j \in 1..Len(a) : (a \o b)[j] = a[j]
  OBVIOUS
<1>3. \A j \in 1..Len(b) : (a \o b)[Len(a) + j] = b[j]
  OBVIOUS
<1> QED
  BY <1>1, <1>2, <1>3

\* The elements of r are those of s but for one place.
OneLess(S, s, r) ==
  /\ r \in Seq(S) /\ Len(r) = Len(s) - 1
  /\ \A i \in 1..Len(r) : \E j \in 1..Len(s) : r[i] = s[j]

\* What is left of a sequence when one of its elements is taken out.
LEMMA RemoveAtType ==
  ASSUME NEW S, NEW s \in Seq(S), NEW k \in 1..Len(s)
  PROVE  OneLess(S, s, RemoveAt(s, k))
<1> DEFINE n == Len(s)
           a == SubSeq(s, 1, k - 1)
           b == SubSeq(s, k + 1, n)
           r == RemoveAt(s, k)
<1>1. n \in Nat /\ k \in 1..n
  OBVIOUS
<1>2. /\ a \in Seq(S) /\ Len(a) = k - 1 /\ \A i \in 1..(k - 1) : a[i] = s[i]
      /\ b \in Seq(S) /\ Len(b) = n - k /\ \A i \in 1..(n - k) : b[i] = s[k + i]
  OBVIOUS
<1>3. r = a \o b
  BY DEF RemoveAt
<1> HIDE DEF a, b, r
<1>4. /\ r \in Seq(S) /\ Len(r) = Len(a) + Len(b)
      /\ \A j \in 1..Len(a) : r[j] = a[j]
      /\ \A j \in 1..Len(b) : r[Len(a) + j] = b[j]
  <2> DEFINE c == a \o b
  <2>1. /\ c \in Seq(S) /\ Len(c) = Len(a) + Len(b)
        /\ \A j \in 1..Len(a) : c[j] = a[j]
        /\ \A j \in 1..Len(b) : c[Len(a) + j] = b[j]
    <3>1. a \in Seq(S) /\ b \in Seq(S)
      BY <1>2
    <3> QED BY <3>1, ConcatAt
  <2> HIDE DEF c
  <2>2. r = c
    BY <1>3 DEF c
  <2> QED BY <2>1, <2>2, Zenon
<1>5. r \in Seq(S) /\ Len(r) = n - 1
  BY <1>1, <1>2, <1>4
<1>6. ASSUME NEW i \in 1..(n - 1) PROVE \E j \in 1..n : r[i] = s[j]
  <2> HIDE DEF n
  <2>1. CASE i <= k - 1
    <3>1. i \in 1..(k - 1) /\ i \in 1..n
      BY <1>1, <2>1
    <3> QED BY <1>2, <1>4, <3>1
  <2>2. CASE ~ (i <= k - 1)
    <3> DEFINE d == i - (k - 1)
    <3>1. d \in 1..(n - k) /\ (k - 1) + d = i /\ k + d \in 1..n
      BY <1>1, <2>2
    <3> HIDE DEF d
    <3>2. r[(k - 1) + d] = b[d] /\ b[d] = s[k + d]
      BY <1>2, <1>4, <3>1
    <3> QED BY <3>1, <3>2
  <2> QED BY <2>1, <2>2
<1> QED
  BY <1>5, <1>6 DEF OneLess, r

\* Every step keeps the types.
LEMMA CodecStep == CodecInv /\ [CodecNext]_codecVars => CodecInv'
<1> SUFFICES ASSUME CodecInv, [CodecNext]_codecVars PROVE CodecInv'
  OBVIOUS
<1> USE DEF CodecInv
<1>0. buffer \in CText /\ Len(buffer) = MAX_IN_OUT /\ NameOf(buffer) \in CText
      /\ \A w \in {"OK", "ERR", "Cannot", "Failed", "mount", "errno", "to", "no", "such", "No", "memory"} :
           <<w>> \in CText
  BY NameOfType DEF BufferInv, CText, Cell
<1>1. CASE CallMount
  <2>1. PICK d \in Wanted : Fits(dysk2string(d)) /\ Call("mount", d, dysk2string(d))
    BY <1>1 DEF CallMount
  <2>2. dysk2string(d) \in CText
    <3>1. \A i \in 1..Len(RequestFields) : d[RequestFields[i]] \in CText
      <4>1. d \in [ToSet(RequestFields) -> Text]
        BY CodecParametersAssumption
      <4>2. \A i \in 1..Len(RequestFields) : RequestFields[i] \in ToSet(RequestFields)
        BY Fields
      <4> QED BY <4>1, <4>2, TextIsCText
    <3> QED BY <3>1, Fields, LinesType DEF dysk2string
  <2>3. BufferInv'
    BY <2>1, <2>2, BufferizeType DEF Call, BufferInv
  <2>4. CallInv'
    BY <1>1, <2>1 DEF CallMount, Call, CallInv, Asks
  <2> QED BY <1>1, <2>3, <2>4 DEF CallMount, DysksInv, NamesInv, AnswerInv, Nothing, Fits
<1>2. CASE CallByName
  <2>1. PICK op \in {"unmount", "get"}, name \in Names :
          Fits(name \o NL) /\ Call(op, name, name \o NL)
    BY <1>2 DEF CallByName
  <2>2. name \in CText /\ name \o NL \in CText
    <3>1. name \in Seq(Cell) /\ NL \in Seq(Cell)
      BY CodecParametersAssumption, TextIsCText DEF CText, NL, Cell
    <3> QED BY <3>1 DEF CText
  <2>3. BufferInv'
    BY <2>1, <2>2, BufferizeType DEF Call, BufferInv
  <2>4. CallInv'
    BY <1>2, <2>1, <2>2 DEF CallByName, Call, CallInv, Asks
  <2>5. NamesInv'
    BY <1>2 DEF CallByName, NamesInv
  <2> QED BY <1>2, <2>3, <2>4, <2>5 DEF CallByName, DysksInv, AnswerInv, Nothing
<1>3. CASE CallList
  <2>1. Call("list", <<>>, <<"-">>)
    BY <1>3 DEF CallList
  <2>2. <<"-">> \in CText /\ <<>> \in CText /\ Fits(<<"-">>)
    BY CodecParametersAssumption DEF CText, Cell, Fits
  <2>3. BufferInv'
    BY <2>1, <2>2, BufferizeType DEF Call, BufferInv
  <2>4. CallInv'
    BY <1>3, <2>1, <2>2 DEF CallList, Call, CallInv, Asks
  <2> QED BY <1>3, <2>3, <2>4 DEF CallList, DysksInv, NamesInv, AnswerInv, Nothing, Fits
<1>4. CASE GetNext
  <2>1. names # <<>> /\ names \in Seq(CText)
    BY <1>4 DEF GetNext, CallInv, NamesInv
  <2>2. 1 \in DOMAIN names /\ Head(names) = names[1] /\ Tail(names) \in Seq(CText)
        /\ \A i \in DOMAIN Tail(names) : i + 1 \in DOMAIN names /\ Tail(names)[i] = names[i + 1]
    BY <2>1
  <2>3. Head(names) \in CText /\ Fits(Head(names) \o NL)
    BY <2>1, <2>2 DEF NamesInv
  <2>4. Head(names) \o NL \in CText
    <3>1. Head(names) \in Seq(Cell) /\ NL \in Seq(Cell)
      BY <2>3 DEF CText, NL, Cell
    <3> QED BY <3>1 DEF CText
  <2>5. BufferInv'
    BY <1>4, <2>3, <2>4, BufferizeType DEF GetNext, Call, BufferInv
  <2>6. CallInv'
    BY <1>4, <2>3 DEF GetNext, Call, CallInv, Asks
  <2>7. NamesInv'
    BY <1>4, <2>2 DEF GetNext, NamesInv, Fits
  <2> QED BY <1>4, <2>5, <2>6, <2>7 DEF GetNext, DysksInv, AnswerInv
<1> DEFINE Empty == bufferize(<<>>)
<1>5. Empty \in CText /\ Len(Empty) = MAX_IN_OUT
  <2>1. <<>> \in CText /\ Fits(<<>>)
    BY CodecParametersAssumption DEF CText, Fits
  <2> QED BY <2>1, BufferizeType
<1> HIDE DEF Empty
<1>6. ASSUME NEW op, Returns(op) PROVE DysksInv' /\ BufferInv'
  BY <1>5, <1>6 DEF Returns, DysksInv, BufferInv, Empty
<1>7. CASE CallFails
  <2>1. DysksInv' /\ BufferInv'
    BY <1>6, <1>7 DEF CallFails
  <2>2. call' = Idle /\ names' = <<>> /\ answer'.kind = "error"
    BY <1>7 DEF CallFails, Failed
  <2>3. <<>> \in CText
    BY DEF CText
  <2> QED BY <2>1, <2>2, <2>3 DEF CallInv, NamesInv, AnswerInv, Idle, Asks
<1>8. CASE DyskReturns
  <2>1. DysksInv' /\ BufferInv'
    BY <1>6, <1>8 DEF DyskReturns
  <2>2. names' = names /\ answer' = Done /\ call' = IF names = <<>> THEN Idle ELSE NextGet
    BY <1>8 DEF DyskReturns
  <2>3. <<>> \in CText
    BY DEF CText
  <2> QED BY <2>1, <2>2, <2>3 DEF CallInv, NamesInv, AnswerInv, Idle, NextGet, Done, Asks, Fits
<1>9. CASE UnmountReturns
  <2>1. DysksInv' /\ BufferInv'
    BY <1>6, <1>9 DEF UnmountReturns
  <2>2. names' = names /\ answer' = Done /\ call' = Idle
    BY <1>9 DEF UnmountReturns
  <2>3. <<>> \in CText
    BY DEF CText
  <2> QED BY <2>1, <2>2, <2>3 DEF CallInv, NamesInv, AnswerInv, Idle, Done, Asks, Fits
<1>10. CASE ListReturns
  <2> DEFINE text == parseResponse(buffer).response
             split == SplitLines(text)
  <2>1. DysksInv' /\ BufferInv'
    BY <1>6, <1>10 DEF ListReturns
  <2>2. /\ names' = Front(split) /\ answer' = Done
        /\ call' = IF names' = <<>> THEN Idle ELSE NextGet
    BY <1>10 DEF ListReturns
  <2>3. Opens(buffer)
    BY <1>10 DEF ListReturns, Returns, CallInv, Asks
  <2>4. text \in CText /\ Len(text) = MAX_IN_OUT - 2
    BY <1>0, <2>3, ParsedReply
  <2> HIDE DEF text
  <2>5. /\ split \in Seq(CText) /\ Len(split) > 0
        /\ \A k \in DOMAIN split : Len(split[k]) <= Len(text)
    BY <2>4, SplitLinesType
  <2> HIDE DEF split
  <2>6. names' \in Seq(CText) /\ \A i \in DOMAIN names' : i \in DOMAIN split /\ names'[i] = split[i]
    <3>1. Front(split) = SubSeq(split, 1, Len(split) - 1)
      BY DEF Front
    <3>2. \A i \in 1..(Len(split) - 1) : split[i] \in CText
      BY <2>5
    <3>3. /\ Front(split) \in Seq(CText)
          /\ Len(Front(split)) = IF 1 <= Len(split) - 1 THEN Len(split) - 1 - 1 + 1 ELSE 0
          /\ \A i \in 1..(Len(split) - 1 - 1 + 1) : Front(split)[i] = split[1 + i - 1]
      BY <2>5, <3>1, <3>2, SubSeqProperties
    <3>4. DOMAIN Front(split) = 1..(Len(split) - 1) /\ \A i \in 1..(Len(split) - 1) : Front(split)[i] = split[i]
      BY <2>5, <3>3
    <3> QED BY <2>2, <2>5, <3>3, <3>4
  <2>7. ASSUME NEW i \in DOMAIN names' PROVE Fits(names'[i] \o NL)
    <3>1. names'[i] \in Seq(Cell) /\ Len(names'[i]) <= MAX_IN_OUT - 2
      BY <2>4, <2>5, <2>6 DEF CText
    <3>3. Len(names'[i] \o NL) = Len(names'[i]) + 1
      BY <3>1, WithBreak DEF CText
    <3>4. MAX_IN_OUT \in Nat
      BY CodecParametersAssumption
    <3> QED BY <3>1, <3>3, <3>4 DEF Fits
  <2>8. NamesInv'
    BY <2>6, <2>7 DEF NamesInv, Fits
  <2>9. <<>> \in CText
    BY DEF CText
  <2>10. CallInv' /\ AnswerInv'
    BY <2>2, <2>9 DEF CallInv, AnswerInv, Idle, NextGet, Done, Asks
  <2> QED BY <2>1, <2>8, <2>10
<1>11. ASSUME NEW out, Opens(out), Reply(out), call.op \in Asks, UNCHANGED dysks PROVE CodecInv'
  <2>1. BufferInv' /\ NamesInv' /\ CallInv' /\ AnswerInv'
    BY <1>11, ReplyKeeps
  <2> QED BY <1>11, <2>1 DEF DysksInv
<1>12. \A a \in CText : Opens(OK \o a) /\ Opens(ERR \o a)
  BY OpensWith
<1>13. CASE MountRefused
  <2>1. call.op \in Asks /\ UNCHANGED dysks
    BY <1>13 DEF MountRefused, InModule, Asks
  <2>2. CASE Undetermined(buffer) # {}
    <3> DEFINE i == CHOOSE i \in Undetermined(buffer) : \A j \in Undetermined(buffer) : i <= j
    <3>1. i \in 1..10
      <4>1. Undetermined(buffer) \subseteq 1..10
        BY DEF Undetermined
      <4>2. Undetermined(buffer) \subseteq Nat
        BY <4>1
      <4>3. \E k \in Undetermined(buffer) : \A j \in Undetermined(buffer) : k <= j
        BY <2>2, <4>2, LeastNatural, Zenon
      <4> QED BY <4>1, <4>3, Zenon
    <3>2. Reply(Cannot(i))
      BY <1>13, <2>2 DEF MountRefused
    <3> HIDE DEF i
    <3>3. <<"Cannot", RequestFields[i]>> \in CText
      <4>1. RequestFields[i] \in Cell /\ "Cannot" \in Cell
        BY <3>1, Fields DEF Cell
      <4> QED BY <4>1 DEF CText
    <3>4. Opens(Cannot(i))
      BY <1>12, <3>3 DEF Cannot
    <3> QED BY <1>11, <2>1, <3>2, <3>4
  <2>3. CASE Undetermined(buffer) = {}
    <3> DEFINE name == dysk_def_from_buffer(buffer).name
    <3>1. Reply(Exists(name))
      BY <1>13, <2>3 DEF MountRefused
    <3>2. name \in CText
      BY <1>0, <2>3, DefFromBuffer, Fields
    <3>3. <<"Failed", "mount">> \in CText
      BY DEF CText, Cell
    <3> HIDE DEF name
    <3>4. Opens(Exists(name))
      BY <1>12, <3>2, <3>3, OpensWith DEF Exists
    <3> QED BY <1>11, <2>1, <3>1, <3>4
  <2> QED BY <2>2, <2>3
<1>14. CASE MountFails
  <2> DEFINE name == dysk_def_from_buffer(buffer).name
  <2>1. call.op \in Asks /\ UNCHANGED dysks /\ Undetermined(buffer) = {} /\ Reply(NotAdded(name))
    BY <1>14 DEF MountFails, InModule, Asks
  <2>2. name \in CText
    BY <1>0, <2>1, DefFromBuffer, Fields
  <2>3. <<"Failed", "mount">> \in CText /\ <<"errno">> \in CText
    BY DEF CText, Cell
  <2> HIDE DEF name
  <2>4. Opens(NotAdded(name))
    BY <1>12, <2>2, <2>3, OpensWith DEF NotAdded
  <2> QED BY <1>11, <2>1, <2>4
<1>15. CASE MountAccepted
  <2> DEFINE new == [def |-> Mounted, asked |-> call.of]
  <2>1. /\ call.op = "mount" /\ Undetermined(buffer) = {} /\ FreeMinors # {}
        /\ Len(dysks) < MaxListed
        /\ Reply(OK \o dysk_def_to_buffer(Mounted)) /\ dysks' = <<new>> \o dysks
    BY <1>15 DEF MountAccepted, InModule
  <2>2. /\ Mounted \in [ToSet(ReplyFields) -> CText]
        /\ \A f \in ToSet(RequestFields) : Mounted[f] = dysk_def_from_buffer(buffer)[f]
    BY <2>1, MountedType
  <2>3. Opens(OK \o dysk_def_to_buffer(Mounted))
    BY <1>12, <2>2, ToBufferType
  <2>4. BufferInv' /\ NamesInv' /\ CallInv' /\ AnswerInv'
    BY <2>1, <2>3, ReplyKeeps DEF Asks
  <2>5. new \in Listing /\ WellDefined(new)
    BY <1>0, <2>1, <2>2, DefFromBuffer DEF Listing, WellDefined, CallInv
  <2>6. DysksInv'
    <3> HIDE DEF new
    <3>1. dysks \in Seq(Listing) /\ <<new>> \in Seq(Listing) /\ Len(<<new>>) = 1 /\ <<new>>[1] = new
      BY <2>5 DEF DysksInv
    <3>2. /\ dysks' \in Seq(Listing) /\ Len(dysks') = 1 + Len(dysks)
          /\ \A i \in 1..Len(<<new>>) + Len(dysks) :
               dysks'[i] = IF i <= Len(<<new>>) THEN <<new>>[i] ELSE dysks[i - Len(<<new>>)]
      BY <2>1, <3>1, ConcatProperties
    <3>3. ASSUME NEW i \in DOMAIN dysks' PROVE WellDefined(dysks'[i])
      <4>1. i \in 1..(1 + Len(dysks)) /\ Len(dysks) \in Nat
        BY <3>1, <3>2
      <4>2. CASE i = 1
        BY <2>5, <3>1, <3>2, <4>1, <4>2
      <4>3. CASE i # 1
        <5>1. i - 1 \in DOMAIN dysks /\ dysks'[i] = dysks[i - 1]
          BY <3>1, <3>2, <4>1, <4>3
        <5> QED BY <5>1 DEF DysksInv
      <4> QED BY <4>2, <4>3
    <3>4. Len(dysks') <= MaxListed
      BY <2>1, <3>1, <3>2, CodecParametersAssumption
    <3> QED BY <3>2, <3>3, <3>4 DEF DysksInv, WellDefined
  <2> QED BY <2>4, <2>6
<1>17. CASE NoMemory \/ NameTooLong
  <2>1. Errno
    BY <1>17 DEF NoMemory, NameTooLong
  <2>2. /\ answer'.kind = "errno" /\ call' = Idle /\ buffer' = Empty /\ names' = <<>>
        /\ UNCHANGED dysks
    BY <2>1 DEF Errno, Empty, Nothing
  <2>3. <<>> \in CText
    BY DEF CText
  <2>4. CallInv' /\ NamesInv' /\ AnswerInv'
    BY <2>2, <2>3 DEF CallInv, NamesInv, AnswerInv, Idle, Asks
  <2> QED BY <1>5, <2>2, <2>4 DEF BufferInv, DysksInv, WellDefined
<1>18. CASE NoSuchDysk
  <2>1. call.op \in Asks /\ UNCHANGED dysks /\ Reply(Unknown(NameOf(buffer)))
    BY <1>18 DEF NoSuchDysk, InModule, Asks
  <2>2. <<"Failed", "to">> \in CText /\ <<"no", "such">> \in CText
    BY DEF CText, Cell
  <2>3. Opens(Unknown(NameOf(buffer)))
    BY <1>0, <1>12, <2>2, OpensWith DEF Unknown
  <2> QED BY <1>11, <2>1, <2>3
<1>19. CASE NotDeleted
  <2>1. call.op \in Asks /\ UNCHANGED dysks /\ Reply(NoMemoryFor(NameOf(buffer)))
    BY <1>19 DEF NotDeleted, InModule, Asks
  <2>2. <<"No", "memory">> \in CText
    BY DEF CText, Cell
  <2>3. Opens(NoMemoryFor(NameOf(buffer)))
    BY <1>0, <1>12, <2>2, OpensWith DEF NoMemoryFor
  <2> QED BY <1>11, <2>1, <2>3
<1>20. ASSUME NEW k \in DOMAIN dysks, dysks' = RemoveAt(dysks, k) PROVE DysksInv'
  <2>1. dysks \in Seq(Listing) /\ k \in 1..Len(dysks) /\ Len(dysks) \in Nat
    BY DEF DysksInv
  <2>2. OneLess(Listing, dysks, RemoveAt(dysks, k))
    BY <2>1, RemoveAtType, Zenon
  <2>3. OneLess(Listing, dysks, dysks')
    BY <1>20, <2>2, Zenon
  <2>4. /\ dysks' \in Seq(Listing) /\ Len(dysks') = Len(dysks) - 1
        /\ \A i \in 1..Len(dysks') : \E j \in 1..Len(dysks) : dysks'[i] = dysks[j]
    BY <2>3 DEF OneLess
  <2>5. DOMAIN dysks = 1..Len(dysks) /\ DOMAIN dysks' = 1..Len(dysks')
    BY <2>1, <2>4
  <2>6. \A i \in DOMAIN dysks' : \E j \in DOMAIN dysks : dysks'[i] = dysks[j]
    BY <2>4, <2>5, Zenon
  <2>7. Len(dysks') <= MaxListed
    BY <2>1, <2>4, CodecParametersAssumption DEF DysksInv
  <2> QED BY <2>4, <2>6, <2>7 DEF DysksInv, WellDefined
<1>21. CASE DyskUnmount
  <2>1. DysksInv'
    BY <1>20, <1>21 DEF DyskUnmount, dysk_exist
  <2>2. call.op \in Asks /\ Reply(OK) /\ Opens(OK)
    BY <1>21, OpensWith DEF DyskUnmount, InModule, Asks
  <2> QED BY <2>1, <2>2, ReplyKeeps
<1>22. CASE DyskGet
  <2>1. PICK i \in DOMAIN dysks : Reply(OK \o dysk_def_to_buffer(dysks[i].def))
    BY <1>22 DEF DyskGet, dysk_exist
  <2>2. dysks[i].def \in [ToSet(ReplyFields) -> CText]
    <3>1. dysks[i] \in Listing
      BY DEF DysksInv
    <3> QED BY <3>1 DEF Listing
  <2>3. Opens(OK \o dysk_def_to_buffer(dysks[i].def))
    BY <1>12, <2>2, ToBufferType
  <2> QED BY <1>11, <1>22, <2>1, <2>3 DEF DyskGet, InModule, Asks
<1>23. CASE DyskList
  <2>1. Opens(OK \o Listed)
    BY <1>12, ListedType
  <2> QED BY <1>11, <1>23, <2>1 DEF DyskList, InModule, Asks
<1>24. CASE Catastrophe
  <2>1. DysksInv'
    BY <1>20, <1>24 DEF Catastrophe
  <2> QED BY <1>24, <2>1 DEF Catastrophe, BufferInv, NamesInv, CallInv, AnswerInv, Fits
<1>25. CASE UNCHANGED codecVars
  BY <1>25 DEF codecVars, DysksInv, BufferInv, NamesInv, CallInv, AnswerInv, WellDefined, Fits
<1> QED
  BY <1>1, <1>2, <1>3, <1>4, <1>7, <1>8, <1>9, <1>10, <1>13, <1>14, <1>15, <1>17, <1>18,
     <1>19, <1>21, <1>22, <1>23, <1>24, <1>25
  DEF CodecNext, ClientStep, ModuleStep

\* It holds at first.
LEMMA CodecInitially == CodecInit => CodecInv
<1> SUFFICES ASSUME CodecInit PROVE CodecInv
  OBVIOUS
<1>1. <<>> \in CText /\ Fits(<<>>)
  BY CodecParametersAssumption DEF CText, Fits
<1>2. BufferInv
  BY <1>1, BufferizeType DEF CodecInit, BufferInv
<1>3. DysksInv
  BY CodecParametersAssumption DEF CodecInit, DysksInv
<1> QED
  BY <1>1, <1>2, <1>3
  DEF CodecInit, CodecInv, NamesInv, CallInv, AnswerInv, Idle, Nothing, Asks

-----------------------------------------------------------------------------
(***************************************************************************)
(* The codec: what is written is what is read.                             *)
(***************************************************************************)
WithBreaks(s) == FlattenSeq([i \in 1..Len(s) |-> s[i] \o NL])

\* p[i] is where the line s[i] of a text ends.
EndsAt(s, p, text) ==
  /\ p \in [0..Len(s) -> Nat]
  /\ p[0] = 0
  /\ \A i \in 1..Len(s) :
       /\ p[i] = p[i - 1] + Len(s[i]) + 1
       /\ text[p[i]] = "nl"
       /\ \A j \in 1..Len(s[i]) : text[p[i - 1] + j] = s[i][j]

\* The same of two texts.
LEMMA ConcatText ==
  \A a, b \in CText :
    /\ a \o b \in CText /\ Len(a \o b) = Len(a) + Len(b)
    /\ Len(a) \in Nat /\ Len(b) \in Nat
    /\ \A j \in 1..Len(a) : (a \o b)[j] = a[j]
    /\ \A j \in 1..Len(b) : (a \o b)[Len(a) + j] = b[j]
<1> SUFFICES ASSUME NEW a \in Seq(Cell), NEW b \in Seq(Cell)
             PROVE  /\ a \o b \in Seq(Cell) /\ Len(a \o b) = Len(a) + Len(b)
                    /\ Len(a) \in Nat /\ Len(b) \in Nat
                    /\ \A j \in 1..Len(a) : (a \o b)[j] = a[j]
                    /\ \A j \in 1..Len(b) : (a \o b)[Len(a) + j] = b[j]
  BY DEF CText
<1>1. Len(a) \in Nat /\ Len(b) \in Nat
  OBVIOUS
<1> QED
  BY <1>1, ConcatAt

\* Arithmetic that Zenon does not do.
LEMMA OneMore == \A x, y \in Nat : x + (y + 1) = x + y + 1
OBVIOUS

\* Lines put together have their line feeds at such places, and end at the last.
LEMMA PlacesOfLines ==
  ASSUME NEW s \in Seq(CText)
  PROVE  /\ WithBreaks(s) \in CText
         /\ \E p : EndsAt(s, p, WithBreaks(s)) /\ p[Len(s)] = Len(WithBreaks(s))
<1> DEFINE n == Len(s)
           lines == [i \in 1..n |-> s[i] \o NL]
<1>1. n \in Nat /\ \A i \in 1..n : s[i] \in CText
  OBVIOUS
<1>2. \A i \in 1..n : lines[i] \in Seq(Cell) /\ Len(lines[i]) = Len(s[i]) + 1
  BY <1>1, WithBreak DEF CText
<1>3. lines \in Seq(Seq(Cell)) /\ Len(lines) = n
  BY <1>1, <1>2
<1>4. WithBreaks(s) = FlattenSeq(lines)
  BY DEF WithBreaks
<1>5. ASSUME NEW i \in 1..n
      PROVE  /\ lines[i][Len(s[i]) + 1] = "nl"
             /\ \A j \in 1..Len(s[i]) : lines[i][j] = s[i][j]
  <2>1. s[i] \in Seq(Cell) /\ NL \in Seq(Cell) /\ Len(NL) = 1 /\ NL[1] = "nl" /\ Len(s[i]) \in Nat
    BY <1>1 DEF CText, NL, Cell
  <2>2. /\ \A j \in 1..Len(s[i]) : (s[i] \o NL)[j] = s[i][j]
        /\ \A j \in 1..Len(NL) : (s[i] \o NL)[Len(s[i]) + j] = NL[j]
    <3> DEFINE a == s[i]
               b == NL
    <3>1. a \in Seq(Cell) /\ b \in Seq(Cell)
      BY <2>1
    <3> HIDE DEF a, b
    <3>2. /\ \A j \in 1..Len(a) : (a \o b)[j] = a[j]
          /\ \A j \in 1..Len(b) : (a \o b)[Len(a) + j] = b[j]
      BY <3>1, ConcatAt
    <3> QED BY <3>2 DEF a, b
  <2>3. lines[i] = s[i] \o NL /\ 1 \in 1..Len(NL)
    BY <2>1
  <2> HIDE DEF lines
  <2> QED BY <2>1, <2>2, <2>3
<1> HIDE DEF lines
<1>6. CASE n = 0
  <2>1. FlattenSeq(lines) = <<>>
    BY <1>3, <1>6 DEF FlattenSeq
  <2> DEFINE p == [i \in 0..0 |-> 0]
  <2>2. EndsAt(s, p, WithBreaks(s)) /\ p[Len(s)] = Len(WithBreaks(s))
    BY <1>4, <1>6, <2>1 DEF EndsAt
  <2> HIDE DEF p
  <2> QED BY <1>4, <2>1, <2>2 DEF CText
<1>7. CASE n # 0
  <2>1. PICK f \in [1..n -> Seq(Cell)] :
          /\ f[1] = lines[1]
          /\ \A i \in 2..n : f[i] = f[i - 1] \o lines[i]
          /\ FlattenSeq(lines) = f[n]
    <3>1. Len(lines) > 0
      BY <1>1, <1>3, <1>7
    <3> HIDE DEF n
    <3>2. \E f \in [1..Len(lines) -> Seq(Cell)] :
            /\ f[1] = lines[1]
            /\ \A i \in 2..Len(lines) : f[i] = f[i - 1] \o lines[i]
            /\ FlattenSeq(lines) = f[Len(lines)]
      BY <1>3, <3>1, FlattenSteps
    <3> QED BY <1>3, <3>2
  <2> DEFINE p == [i \in 0..n |-> IF i = 0 THEN 0 ELSE Len(f[i])]
  <2>2. p \in [0..n -> Nat] /\ p[0] = 0 /\ \A i \in 1..n : p[i] = Len(f[i])
    BY <1>1
  <2> HIDE DEF p
  <2>3. ASSUME NEW i \in 1..n
        PROVE  /\ p[i] = p[i - 1] + Len(s[i]) + 1
               /\ \A j \in 1..(Len(s[i]) + 1) : f[i][p[i - 1] + j] = lines[i][j]
               /\ \A j \in 1..p[i - 1] : f[i][j] = f[i - 1][j]
    <3>0. Len(s[i]) \in Nat /\ Len(lines[i]) = Len(s[i]) + 1 /\ lines[i] \in Seq(Cell)
      BY <1>1, <1>2 DEF CText
    <3>1. CASE i = 1
      BY <2>1, <2>2, <3>0, <3>1
    <3>2. CASE i # 1
      <4>1. i \in 2..n /\ i - 1 \in 1..n
        BY <1>1, <3>2
      <4>2. f[i] = f[i - 1] \o lines[i] /\ f[i - 1] \in Seq(Cell)
        BY <2>1, <4>1
      <4>3. /\ Len(f[i]) = Len(f[i - 1]) + Len(lines[i])
            /\ \A j \in 1..Len(f[i - 1]) : f[i][j] = f[i - 1][j]
            /\ \A j \in 1..Len(lines[i]) : f[i][Len(f[i - 1]) + j] = lines[i][j]
        <5> DEFINE a == f[i - 1]
                   b == lines[i]
        <5>1. a \in Seq(Cell) /\ b \in Seq(Cell) /\ f[i] = a \o b
          BY <3>0, <4>2
        <5> HIDE DEF a, b
        <5>2. /\ Len(f[i]) = Len(a) + Len(b)
              /\ \A j \in 1..Len(a) : f[i][j] = a[j]
              /\ \A j \in 1..Len(b) : f[i][Len(a) + j] = b[j]
          BY <5>1, ConcatAt
        <5> QED BY <5>2 DEF a, b
      <4>4. p[i - 1] = Len(f[i - 1]) /\ p[i] = Len(f[i]) /\ p[i - 1] \in Nat
        BY <2>2, <4>1
      <4>5. p[i] = p[i - 1] + (Len(s[i]) + 1)
        BY <3>0, <4>3, <4>4
      <4>6. p[i - 1] + (Len(s[i]) + 1) = p[i - 1] + Len(s[i]) + 1
        BY <3>0, <4>4, OneMore
      <4> QED BY <3>0, <4>3, <4>4, <4>5, <4>6
    <3> QED BY <3>1, <3>2
  <2> DEFINE Keeps(m) == \A i \in 1..m : p[i] <= p[m] /\ \A j \in 1..p[i] : f[m][j] = f[i][j]
             G == {m \in 1..n : Keeps(m)}
  <2>4. 1..n \subseteq G
    <3>1. 1 \in G
      BY <1>1, <1>7, <2>2
    <3>2. ASSUME NEW m \in 2..n, m - 1 \in G PROVE m \in G
      <4>1. Keeps(m - 1) /\ m \in 1..n /\ m - 1 \in 1..n /\ p[m] \in Nat /\ p[m - 1] \in Nat
        BY <2>2, <3>2
      <4>2. p[m - 1] <= p[m] /\ \A j \in 1..p[m - 1] : f[m][j] = f[m - 1][j]
        <5>1. Len(s[m]) \in Nat
          BY <1>1, <4>1 DEF CText
        <5>2. p[m] = p[m - 1] + Len(s[m]) + 1
          BY <2>3, <4>1
        <5> QED BY <2>3, <4>1, <5>1, <5>2
      <4>3. ASSUME NEW i \in 1..m PROVE p[i] <= p[m] /\ \A j \in 1..p[i] : f[m][j] = f[i][j]
        <5>1. CASE i = m
          BY <4>1, <5>1
        <5>2. CASE i # m
          <6>1. i \in 1..(m - 1) /\ i \in 1..n
            BY <3>2, <5>2
          <6>2. p[i] \in Nat /\ p[i] <= p[m - 1] /\ \A j \in 1..p[i] : f[m - 1][j] = f[i][j]
            BY <2>2, <4>1, <6>1
          <6>3. \A j \in 1..p[i] : j \in 1..p[m - 1]
            BY <4>1, <6>2
          <6> QED BY <4>1, <4>2, <6>2, <6>3
        <5> QED BY <5>1, <5>2
      <4> QED BY <4>1, <4>3
    <3> HIDE DEF G
    <3> QED BY <1>1, <3>1, <3>2, Induction
  <2>5. n \in 1..n
    BY <1>1, <1>7
  <2>6. \A i \in 1..n : \A j \in 1..p[i] : f[n][j] = f[i][j]
    BY <2>4, <2>5
  <2> HIDE DEF G, Keeps
  <2>7. ASSUME NEW i \in 1..n
        PROVE  /\ p[i] = p[i - 1] + Len(s[i]) + 1
               /\ f[n][p[i]] = "nl"
               /\ \A j \in 1..Len(s[i]) : f[n][p[i - 1] + j] = s[i][j]
    <3>1. p[i] = p[i - 1] + Len(s[i]) + 1 /\ Len(s[i]) \in Nat /\ p[i] \in Nat /\ p[i - 1] \in Nat
      BY <1>1, <2>2, <2>3 DEF CText
    <3>2. ASSUME NEW j \in 1..(Len(s[i]) + 1) PROVE f[n][p[i - 1] + j] = lines[i][j]
      <4>1. p[i - 1] + j \in 1..p[i]
        BY <3>1
      <4>2. f[n][p[i - 1] + j] = f[i][p[i - 1] + j]
        BY <2>6, <4>1
      <4> QED BY <2>3, <4>2
    <3>3. f[n][p[i]] = "nl"
      <4>1. p[i] = p[i - 1] + (Len(s[i]) + 1) /\ Len(s[i]) + 1 \in 1..(Len(s[i]) + 1)
        <5> DEFINE v == Len(s[i])
        <5>1. v \in Nat
          BY <3>1
        <5> HIDE DEF v
        <5>2. v + 1 \in 1..(v + 1)
          BY <5>1
        <5> QED BY <3>1, <5>2, OneMore DEF v
      <4> QED BY <1>5, <3>2, <4>1
    <3>4. ASSUME NEW j \in 1..Len(s[i]) PROVE f[n][p[i - 1] + j] = s[i][j]
      <4>1. j \in 1..(Len(s[i]) + 1)
        BY <3>1
      <4> QED BY <1>5, <3>2, <4>1
    <3> QED BY <3>1, <3>3, <3>4
  <2>8. WithBreaks(s) = f[n] /\ f[n] \in CText /\ p[n] = Len(f[n])
    BY <1>4, <2>1, <2>2, <2>5 DEF CText
  <2>9. EndsAt(s, p, WithBreaks(s))
    BY <2>2, <2>7, <2>8 DEF EndsAt
  <2> QED BY <2>8, <2>9
<1> QED
  BY <1>6, <1>7

\* A number's place in a set grows with the number.
LEMMA RanksGrow ==
  ASSUME NEW n \in Nat, NEW T \in SUBSET (1..n), NEW i \in T, NEW k \in T, i < k
  PROVE  Cardinality({j \in T : j < i}) < Cardinality({j \in T : j < k})
<1> DEFINE A == {j \in T : j < i}
           B == {j \in T : j < k}
<1>1. IsFiniteSet(B) /\ IsFiniteSet(A)
  <2>1. IsFiniteSet(T)
    BY Ranks
  <2> QED BY <2>1, FS_Subset
<1>2. A \subseteq B /\ i \in B /\ i \notin A
  <2>1. i \in Nat /\ k \in Nat /\ \A j \in T : j \in Nat
    OBVIOUS
  <2>2. \A j \in T : j < i => j < k
    BY <2>1
  <2>3. ~(i < i)
    BY <2>1
  <2> QED BY <2>2, <2>3
<1> HIDE DEF A, B
<1>3. Cardinality(A) <= Cardinality(B) /\ (Cardinality(A) = Cardinality(B) => A = B)
  BY <1>1, <1>2, FS_Subset
<1>4. Cardinality(A) \in Nat /\ Cardinality(B) \in Nat
  BY <1>1, FS_CardinalityType
<1>5. Cardinality(A) < Cardinality(B)
  BY <1>2, <1>3, <1>4
<1> QED
  BY <1>5 DEF A, B

\* The places where lines without a line feed end, and the line feeds there are.
LEMMA PlacesGrow ==
  ASSUME NEW s \in Seq(CText), \A i \in 1..Len(s) : Unbroken(s[i]), NEW text, NEW p,
         EndsAt(s, p, text)
  PROVE  /\ \A i, m \in 0..Len(s) : i < m => p[i] < p[m]
         /\ \A x \in 1..p[Len(s)] : text[x] = "nl" => \E i \in 1..Len(s) : x = p[i]
<1> DEFINE n == Len(s)
<1>1. n \in Nat /\ \A i \in 1..n : s[i] \in CText /\ Len(s[i]) \in Nat /\ DOMAIN s[i] = 1..Len(s[i])
  BY DEF CText
<1>2. p \in [0..n -> Nat] /\ p[0] = 0
  BY DEF EndsAt
<1>3. \A i \in 1..n : p[i] = p[i - 1] + Len(s[i]) + 1
  BY DEF EndsAt
<1>4. ASSUME NEW i \in 1..n, NEW j \in 1..Len(s[i]) PROVE text[p[i - 1] + j] # "nl"
  <2>1. text[p[i - 1] + j] = s[i][j]
    BY DEF EndsAt
  <2>2. j \in DOMAIN s[i] /\ Unbroken(s[i])
    BY <1>1
  <2> QED BY <2>1, <2>2 DEF Unbroken
<1> HIDE DEF n
<1> DEFINE Grows(m) == \A i \in 0..(m - 1) : p[i] < p[m]
           Only(m)  == \A x \in 1..p[m] : text[x] = "nl" => \E i \in 1..m : x = p[i]
           G == {m \in 1..n : Grows(m) /\ Only(m)}
<1>5. ASSUME NEW m \in 1..n
      PROVE  /\ p[m] \in Nat /\ p[m - 1] \in Nat /\ Len(s[m]) \in Nat /\ p[m - 1] < p[m]
             /\ \A x \in (p[m - 1] + 1)..p[m] : text[x] = "nl" => x = p[m]
  <2>1. p[m] \in Nat /\ p[m - 1] \in Nat /\ Len(s[m]) \in Nat
    BY <1>1, <1>2
  <2>2. p[m] = p[m - 1] + Len(s[m]) + 1
    BY <1>3
  <2>3. ASSUME NEW x \in (p[m - 1] + 1)..p[m], text[x] = "nl", x # p[m] PROVE FALSE
    <3> DEFINE j == x - p[m - 1]
    <3>1. j \in 1..Len(s[m]) /\ p[m - 1] + j = x
      <4> DEFINE u == p[m - 1]
                 v == p[m]
                 l == Len(s[m])
      <4>1. u \in Nat /\ v \in Nat /\ l \in Nat /\ v = u + l + 1 /\ x \in (u + 1)..v /\ x # v
        BY <2>1, <2>2, <2>3
      <4> HIDE DEF u, v, l
      <4>2. x - u \in 1..l /\ u + (x - u) = x
        BY <4>1
      <4> QED BY <4>2 DEF u, l
    <3> HIDE DEF j
    <3>2. text[p[m - 1] + j] # "nl"
      BY <1>4, <3>1
    <3> QED BY <2>3, <3>1, <3>2
  <2> QED BY <2>1, <2>2, <2>3
<1>6. 1..n \subseteq G
  <2>1. n > 0 => 1 \in G
    <3> SUFFICES ASSUME n > 0 PROVE Grows(1) /\ Only(1) /\ 1 \in 1..n
      OBVIOUS
    <3>1. 1 \in 1..n /\ 1 - 1 = 0
      BY <1>1
    <3>2. Grows(1)
      BY <1>5, <3>1
    <3>3. Only(1)
      <4>1. \A x \in 1..p[1] : x \in (p[0] + 1)..p[1]
        BY <1>2
      <4>2. \A x \in 1..p[1] : text[x] = "nl" => x = p[1]
        BY <1>5, <3>1, <4>1
      <4>3. 1 \in 1..1
        OBVIOUS
      <4> QED BY <4>2, <4>3
    <3> QED BY <3>1, <3>2, <3>3
  <2>2. ASSUME NEW m \in 2..n, m - 1 \in G PROVE m \in G
    <3>1. m \in 1..n /\ m - 1 \in 1..n /\ m - 1 \in Nat /\ m \in Nat
      BY <1>1
    <3>2. Grows(m - 1) /\ Only(m - 1)
      BY <2>2
    <3>3. /\ p[m] \in Nat /\ p[m - 1] \in Nat /\ p[m - 1] < p[m]
          /\ \A x \in (p[m - 1] + 1)..p[m] : text[x] = "nl" => x = p[m]
      BY <1>5, <3>1
    <3>4. Grows(m)
      <4> SUFFICES ASSUME NEW i \in 0..(m - 1) PROVE p[i] < p[m]
        OBVIOUS
      <4>1. CASE i = m - 1
        BY <3>3, <4>1
      <4>2. CASE i # m - 1
        <5>1. i \in 0..((m - 1) - 1) /\ i \in 0..n
          BY <1>1, <3>1, <4>2
        <5>2. p[i] < p[m - 1] /\ p[i] \in Nat
          BY <1>2, <3>2, <5>1
        <5> QED BY <3>3, <5>2
      <4> QED BY <4>1, <4>2
    <3>5. Only(m)
      <4> SUFFICES ASSUME NEW x \in 1..p[m], text[x] = "nl" PROVE \E i \in 1..m : x = p[i]
        OBVIOUS
      <4>1. CASE x \in 1..p[m - 1]
        <5>1. PICK i \in 1..(m - 1) : x = p[i]
          BY <3>2, <4>1
        <5>2. i \in 1..m
          BY <3>1
        <5> QED BY <5>1, <5>2
      <4>2. CASE x \notin 1..p[m - 1]
        <5>1. x \in (p[m - 1] + 1)..p[m]
          BY <3>3, <4>2
        <5>2. x = p[m] /\ m \in 1..m
          BY <3>1, <3>3, <5>1
        <5> QED BY <5>2
      <4> QED BY <4>1, <4>2
    <3> HIDE DEF Grows, Only
    <3> QED BY <3>1, <3>4, <3>5
  <2> HIDE DEF G
  <2>3. CASE n = 0
    BY <2>3
  <2>4. CASE n # 0
    <3>1. n > 0
      BY <1>1, <2>4
    <3> QED BY <1>1, <2>1, <2>2, <3>1, Induction
  <2> QED BY <2>3, <2>4
<1>7. \A i, m \in 0..n : i < m => p[i] < p[m]
  <2> SUFFICES ASSUME NEW i \in 0..n, NEW m \in 0..n, i < m PROVE p[i] < p[m]
    OBVIOUS
  <2>1. m \in 1..n /\ i \in 0..(m - 1)
    BY <1>1
  <2> QED BY <1>6, <2>1
<1>8. \A x \in 1..p[n] : text[x] = "nl" => \E i \in 1..n : x = p[i]
  <2>1. CASE n = 0
    BY <1>2, <2>1
  <2>2. CASE n # 0
    <3>1. n \in G
      BY <1>1, <1>6, <2>2
    <3> QED BY <3>1
  <2> QED BY <2>1, <2>2
<1> QED
  BY <1>7, <1>8 DEF n

\* strings.Split() gives the lines back, whatever follows them; and nothing but
\* them and what follows, if that is not broken.
LEMMA SplitOfLines ==
  ASSUME NEW s \in Seq(CText), \A i \in 1..Len(s) : Unbroken(s[i]), NEW t \in CText
  PROVE  LET split == SplitLines(WithBreaks(s) \o t) IN
         /\ split \in Seq(CText)
         /\ Len(split) >= Len(s) + 1
         /\ \A k \in 1..Len(s) : split[k] = s[k]
         /\ Unbroken(t) => Len(split) = Len(s) + 1
<1> DEFINE n == Len(s)
           w == WithBreaks(s)
           text == w \o t
           breaks == {i \in DOMAIN text : text[i] = "nl"}
           starts == {1} \cup {i + 1 : i \in breaks}
           Below(i) == {j \in starts : j < i}
           nth(k) == CHOOSE i \in starts : Cardinality(Below(i)) = k - 1
           ends == {j - 1 : j \in breaks} \cup {Len(text)}
           IsLast(i, e) == e >= i - 1 /\ \A j \in breaks : j >= i => e < j
           last(i) == CHOOSE e \in ends : IsLast(i, e)
<1>1. SplitLines(text) = [k \in 1..Cardinality(starts) |-> SubSeq(text, nth(k), last(nth(k)))]
  BY DEF SplitLines
<1>2. PICK p : EndsAt(s, p, w) /\ p[n] = Len(w)
  BY PlacesOfLines
<1>3. /\ n \in Nat /\ w \in CText /\ Len(w) \in Nat
      /\ \A i \in 1..n : s[i] \in CText /\ Len(s[i]) \in Nat
  BY PlacesOfLines DEF CText
<1>4. /\ text \in CText /\ Len(text) = Len(w) + Len(t) /\ Len(t) \in Nat /\ Len(text) \in Nat
      /\ DOMAIN text = 1..Len(text)
      /\ \A j \in 1..Len(w) : text[j] = w[j]
      /\ \A j \in 1..Len(t) : text[Len(w) + j] = t[j]
  <2>1. w \in Seq(Cell) /\ t \in Seq(Cell)
    BY <1>3 DEF CText
  <2> HIDE DEF w
  <2> QED BY <2>1, ConcatAt DEF CText
<1>5. /\ p \in [0..n -> Nat] /\ p[0] = 0 /\ p[n] = Len(w)
      /\ \A i, m \in 0..n : i < m => p[i] < p[m]
      /\ \A x \in 1..p[n] : w[x] = "nl" => \E i \in 1..n : x = p[i]
  <2>1. p \in [0..n -> Nat] /\ p[0] = 0
    BY <1>2 DEF EndsAt
  <2> HIDE DEF w
  <2> QED BY <1>2, <2>1, PlacesGrow
<1>6. \A i \in 1..n : /\ p[i] = p[i - 1] + Len(s[i]) + 1
                      /\ w[p[i]] = "nl"
                      /\ \A j \in 1..Len(s[i]) : w[p[i - 1] + j] = s[i][j]
  BY <1>2 DEF EndsAt
<1> HIDE DEF n, w, text
<1>7. \A i \in 0..n : p[i] \in 0..Len(w)
  <2> SUFFICES ASSUME NEW i \in 0..n PROVE p[i] \in 0..Len(w)
    OBVIOUS
  <2>1. CASE i = n
    BY <1>3, <1>5, <2>1
  <2>2. CASE i # n
    <3>1. i < n /\ n \in 0..n
      BY <1>3, <2>2
    <3> QED BY <1>3, <1>5, <3>1
  <2> QED BY <2>1, <2>2
\* The line feeds: those behind the lines, and any in what follows.
<1>8. /\ breaks \subseteq 1..Len(text)
      /\ \A i \in 1..n : p[i] \in breaks
      /\ \A j \in breaks : (\E i \in 1..n : j = p[i]) \/ j > p[n]
      /\ Unbroken(t) => \A j \in breaks : j <= p[n]
  <2>1. breaks \subseteq 1..Len(text)
    BY <1>4
  <2>2. ASSUME NEW i \in 1..n PROVE p[i] \in breaks
    <3>1. i \in 0..n /\ 0 \in 0..n /\ 0 < i
      BY <1>3
    <3>2. p[i] \in 1..Len(w)
      BY <1>5, <1>7, <3>1
    <3>3. text[p[i]] = "nl" /\ p[i] \in 1..Len(text)
      BY <1>3, <1>4, <1>6, <3>2
    <3> QED BY <1>4, <3>3
  <2>3. ASSUME NEW j \in breaks PROVE (\E i \in 1..n : j = p[i]) \/ j > p[n]
    <3>1. j \in Nat /\ text[j] = "nl" /\ j \in 1..Len(text)
      BY <1>4
    <3>2. CASE j <= p[n]
      <4>1. j \in 1..Len(w) /\ j \in 1..p[n]
        BY <1>3, <1>5, <3>1, <3>2
      <4>2. w[j] = "nl"
        BY <1>4, <3>1, <4>1
      <4> QED BY <1>5, <4>1, <4>2
    <3> QED BY <1>3, <1>5, <3>1, <3>2
  <2>4. ASSUME Unbroken(t), NEW j \in breaks PROVE j <= p[n]
    <3>1. j \in Nat /\ text[j] = "nl" /\ j \in 1..Len(text)
      BY <1>4
    <3> SUFFICES ASSUME ~(j <= p[n]) PROVE FALSE
      OBVIOUS
    <3> DEFINE d == j - Len(w)
    <3>2. d \in 1..Len(t) /\ Len(w) + d = j
      BY <1>3, <1>4, <1>5, <3>1
    <3> HIDE DEF d
    <3>3. t[d] = "nl" /\ d \in DOMAIN t
      BY <1>4, <3>1, <3>2 DEF CText
    <3> QED BY <2>4, <3>3 DEF Unbroken
  <2> QED BY <2>1, <2>2, <2>3, <2>4
<1> HIDE DEF breaks
\* The starts.
<1>9. /\ starts \in SUBSET (1..(Len(text) + 1)) /\ Len(text) + 1 \in Nat
      /\ \A i \in 0..n : p[i] + 1 \in starts
      /\ \A j \in starts : (\E i \in 0..n : j = p[i] + 1) \/ j > p[n] + 1
      /\ Unbroken(t) => \A j \in starts : j <= p[n] + 1
  <2>0. \A j \in breaks : j \in Nat
    BY <1>8
  <2>a. 0 \in 0..n /\ n \in 0..n /\ p[n] \in Nat /\ p[0] + 1 = 1
    BY <1>3, <1>5
  <2>1. starts \in SUBSET (1..(Len(text) + 1)) /\ Len(text) + 1 \in Nat
    BY <1>4, <1>8
  <2>2. ASSUME NEW i \in 0..n PROVE p[i] + 1 \in starts
    <3>1. CASE i = 0
      BY <2>a, <3>1
    <3>2. CASE i # 0
      <4>1. p[i] \in breaks
        BY <1>8, <3>2
      <4> QED BY <4>1
    <3> QED BY <3>1, <3>2
  <2>3. ASSUME NEW j \in starts PROVE (\E i \in 0..n : j = p[i] + 1) \/ j > p[n] + 1
    <3>1. CASE j = 1
      BY <2>a, <3>1
    <3>2. ASSUME NEW b \in breaks, j = b + 1 PROVE (\E i \in 0..n : j = p[i] + 1) \/ j > p[n] + 1
      <4>1. CASE \E i \in 1..n : b = p[i]
        <5>1. PICK i \in 1..n : b = p[i]
          BY <4>1
        <5>2. i \in 0..n
          OBVIOUS
        <5> QED BY <3>2, <5>1, <5>2
      <4>2. CASE b > p[n]
        BY <2>0, <2>a, <3>2, <4>2
      <4> QED BY <1>8, <4>1, <4>2
    <3> QED BY <3>1, <3>2
  <2>4. ASSUME Unbroken(t), NEW j \in starts PROVE j <= p[n] + 1
    <3>1. CASE j = 1
      BY <2>a, <3>1
    <3>2. ASSUME NEW b \in breaks, j = b + 1 PROVE j <= p[n] + 1
      BY <1>8, <2>0, <2>4, <2>a, <3>2
    <3> QED BY <3>1, <3>2
  <2> QED BY <2>1, <2>2, <2>3, <2>4
<1> HIDE DEF starts
<1>a. \A j \in starts : j \in Nat /\ j >= 1
  <2>1. starts \subseteq 1..(Len(text) + 1) /\ Len(text) + 1 \in Nat
    BY <1>9
  <2> QED BY <2>1
<1>10. /\ IsFiniteSet(starts) /\ Cardinality(starts) \in Nat
       /\ \A k \in 1..Cardinality(starts) : \E i \in starts : Cardinality(Below(i)) = k - 1
       /\ \A i, k \in starts : i < k => Cardinality(Below(i)) < Cardinality(Below(k))
  <2>1. /\ IsFiniteSet(starts) /\ Cardinality(starts) \in Nat
        /\ \A k \in 1..Cardinality(starts) :
             \E i \in starts : Cardinality({j \in starts : j < i}) = k - 1
    BY <1>9, Ranks
  <2>2. ASSUME NEW i \in starts, NEW k \in starts, i < k
        PROVE  Cardinality({j \in starts : j < i}) < Cardinality({j \in starts : j < k})
    BY <1>9, <2>2, RanksGrow
  <2> QED BY <2>1, <2>2
<1>11. \A i : IsFiniteSet(Below(i)) /\ Cardinality(Below(i)) \in Nat
  <2>1. \A i : Below(i) \subseteq starts
    OBVIOUS
  <2> HIDE DEF Below
  <2> QED BY <1>10, <2>1, FS_Subset, FS_CardinalityType
\* The start of a line is the one after the lines before it.
<1>12. \A i \in 0..n : Cardinality(Below(p[i] + 1)) = i
  <2> DEFINE G == {m \in 1..n : Cardinality(Below(p[m] + 1)) = m}
  <2>1. Cardinality(Below(p[0] + 1)) = 0
    <3>1. Below(p[0] + 1) = {}
      <4>1. p[0] + 1 = 1
        BY <1>5
      <4>2. \A j \in starts : ~(j < 1)
        BY <1>a
      <4> QED BY <4>1, <4>2
    <3> HIDE DEF Below
    <3> QED BY <3>1, FS_EmptySet
  <2>2. ASSUME NEW m \in 1..n
        PROVE  Cardinality(Below(p[m] + 1)) = Cardinality(Below(p[m - 1] + 1)) + 1
    <3>1. m \in 0..n /\ m - 1 \in 0..n /\ m - 1 < m /\ p[m] \in Nat /\ p[m - 1] \in Nat
      BY <1>3, <1>5
    <3>2. p[m - 1] < p[m]
      BY <1>5, <3>1
    <3>3. ASSUME NEW j \in starts PROVE j < p[m] + 1 <=> (j < p[m - 1] + 1 \/ j = p[m - 1] + 1)
      <4>1. j \in Nat /\ p[n] \in Nat
        BY <1>3, <1>5, <1>9
      <4>2. CASE j > p[n] + 1
        <5>1. p[m] <= p[n]
          BY <1>5, <1>7, <3>1
        <5> QED BY <3>1, <3>2, <4>1, <4>2, <5>1
      <4>3. CASE \E i \in 0..n : j = p[i] + 1
        <5>1. PICK i \in 0..n : j = p[i] + 1
          BY <4>3
        <5>2. p[i] \in Nat
          BY <1>5
        <5>3. CASE i < m - 1
          <6>1. p[i] < p[m - 1]
            BY <1>5, <3>1, <5>3
          <6> QED BY <3>1, <3>2, <5>1, <5>2, <6>1
        <5>4. CASE i = m - 1
          BY <3>1, <3>2, <5>1, <5>2, <5>4
        <5>5. CASE i = m
          BY <3>1, <3>2, <5>1, <5>2, <5>5
        <5>6. CASE i > m
          <6>1. p[m] < p[i]
            BY <1>5, <3>1, <5>6
          <6> QED BY <3>1, <3>2, <5>1, <5>2, <6>1
        <5> QED BY <1>3, <5>3, <5>4, <5>5, <5>6
      <4> QED BY <1>9, <4>2, <4>3
    <3>4. p[m - 1] + 1 \in starts /\ ~(p[m - 1] + 1 < p[m - 1] + 1)
      BY <1>9, <3>1
    <3>5. Below(p[m] + 1) = Below(p[m - 1] + 1) \cup {p[m - 1] + 1}
          /\ p[m - 1] + 1 \notin Below(p[m - 1] + 1)
      BY <3>3, <3>4
    <3> HIDE DEF Below
    <3> QED BY <1>11, <3>5, FS_AddElement
  <2> HIDE DEF Below
  <2>3. 1..n \subseteq G
    <3>1. n > 0 => 1 \in G
      <4>1. ASSUME n > 0 PROVE 1 \in 1..n /\ 1 - 1 = 0
        BY <1>3, <4>1
      <4> QED BY <2>1, <2>2, <4>1
    <3>2. ASSUME NEW m \in 2..n, m - 1 \in G PROVE m \in G
      <4>1. m \in 1..n /\ Cardinality(Below(p[m - 1] + 1)) = m - 1
        BY <3>2
      <4> QED BY <2>2, <4>1
    <3> HIDE DEF G
    <3> QED BY <1>3, <3>1, <3>2, Induction
  <2>4. ASSUME NEW i \in 0..n, i # 0 PROVE i \in 1..n
    BY <2>4
  <2> QED BY <2>1, <2>3, <2>4
<1>13. /\ Cardinality(starts) >= n + 1
       /\ Unbroken(t) => Cardinality(starts) = n + 1
  <2> DEFINE A == Below(p[n] + 1) \cup {p[n] + 1}
  <2>1. n \in 0..n /\ p[n] \in Nat
    BY <1>3, <1>5
  <2>2. p[n] + 1 \notin Below(p[n] + 1) /\ A \subseteq starts
    BY <1>9, <2>1
  <2>3. Unbroken(t) => A = starts
    <3>1. ASSUME Unbroken(t), NEW j \in starts PROVE j < p[n] + 1 \/ j = p[n] + 1
      BY <1>9, <2>1, <3>1
    <3> QED BY <2>2, <3>1
  <2>4. Cardinality(A) = n + 1
    <3>1. Cardinality(Below(p[n] + 1)) = n
      BY <1>12, <2>1
    <3> HIDE DEF Below
    <3> QED BY <1>11, <2>2, <3>1, FS_AddElement
  <2>5. Cardinality(A) <= Cardinality(starts)
    <3> HIDE DEF A
    <3> QED BY <1>10, <2>2, FS_Subset
  <2> HIDE DEF A
  <2> QED BY <1>3, <1>10, <2>3, <2>4, <2>5
<1>14. ASSUME NEW k \in 1..n
       PROVE  SubSeq(text, nth(k), last(nth(k))) = s[k]
  <2>1. k \in 0..n /\ k - 1 \in 0..n /\ k - 1 < k /\ p[k] \in Nat /\ p[k - 1] \in Nat
        /\ p[k - 1] < p[k] /\ p[k] \in breaks
    BY <1>3, <1>5, <1>8
  <2>2. nth(k) = p[k - 1] + 1
    <3>1. p[k - 1] + 1 \in starts /\ Cardinality(Below(p[k - 1] + 1)) = k - 1
      BY <1>9, <1>12, <2>1
    <3>2. nth(k) \in starts /\ Cardinality(Below(nth(k))) = k - 1
      <4> HIDE DEF Below
      <4> QED BY <3>1, Zenon
    <3> HIDE DEF nth, Below
    <3>3. nth(k) \in Nat /\ p[k - 1] + 1 \in Nat
      BY <1>a, <3>1, <3>2
    <3>4. ~(nth(k) < p[k - 1] + 1) /\ ~(p[k - 1] + 1 < nth(k))
      BY <1>10, <3>1, <3>2
    <3> QED BY <3>3, <3>4
  <2>3. ASSUME NEW j \in breaks, j >= p[k - 1] + 1 PROVE j >= p[k]
    <3>1. j \in Nat /\ p[n] \in Nat /\ p[k] <= p[n]
      BY <1>3, <1>5, <1>7, <1>8, <2>1
    <3>2. CASE j > p[n]
      BY <2>1, <3>1, <3>2
    <3>3. CASE \E i \in 1..n : j = p[i]
      <4>1. PICK i \in 1..n : j = p[i]
        BY <3>3
      <4>2. i \in 0..n /\ p[i] \in Nat
        BY <1>5
      <4>3. CASE i < k
        <5>1. i < k - 1 \/ i = k - 1
          BY <4>3, <1>3
        <5>2. p[i] <= p[k - 1]
          BY <1>5, <2>1, <4>2, <5>1
        <5> QED BY <2>1, <2>3, <4>1, <4>2, <5>2
      <4>4. CASE i = k
        BY <2>1, <4>1, <4>4
      <4>5. CASE i > k
        <5>1. p[k] < p[i]
          BY <1>5, <2>1, <4>2, <4>5
        <5> QED BY <2>1, <4>1, <4>2, <5>1
      <4> QED BY <1>3, <4>3, <4>4, <4>5
    <3> QED BY <1>8, <3>2, <3>3
  <2>4. last(p[k - 1] + 1) = p[k] - 1
    <3> DEFINE i == p[k - 1] + 1
    <3>1. p[k] - 1 \in ends /\ IsLast(i, p[k] - 1)
      <4>1. p[k] - 1 \in ends
        BY <2>1
      <4>2. p[k] - 1 >= i - 1
        BY <2>1
      <4>3. \A j \in breaks : j >= i => p[k] - 1 < j
        BY <1>8, <2>1, <2>3
      <4> QED BY <4>1, <4>2, <4>3
    <3>2. last(i) \in ends /\ IsLast(i, last(i))
      <4> HIDE DEF IsLast, ends, i
      <4> QED BY <3>1, Zenon
    <3> HIDE DEF last
    <3>3. i \in Nat /\ i <= p[k] /\ i - 1 = p[k - 1]
      BY <2>1
    <3>4. last(i) < p[k] /\ last(i) >= i - 1
      BY <2>1, <3>2, <3>3
    <3>5. CASE last(i) = Len(text)
      <4>1. p[k] <= Len(text)
        BY <1>8, <2>1
      <4> QED BY <1>4, <2>1, <3>4, <3>5, <4>1
    <3>6. ASSUME NEW j \in breaks, last(i) = j - 1 PROVE last(i) = p[k] - 1
      <4>1. j \in Nat
        BY <1>8
      <4>2. j >= i
        BY <3>3, <3>4, <3>6, <4>1
      <4>3. j >= p[k]
        BY <2>3, <4>2
      <4> QED BY <2>1, <3>4, <3>6, <4>1, <4>3
    <3>7. last(i) = p[k] - 1
      BY <3>2, <3>5, <3>6
    <3> QED BY <3>7
  <2> HIDE DEF nth, last
  <2> DEFINE u == SubSeq(text, p[k - 1] + 1, p[k] - 1)
             v == s[k]
  <2>5. /\ p[k] = p[k - 1] + Len(v) + 1 /\ v \in Seq(Cell) /\ Len(v) \in Nat
        /\ \A j \in 1..Len(v) : w[p[k - 1] + j] = v[j]
        /\ p[k] <= Len(w) /\ p[k] <= Len(text)
    <3>1. p[k] <= Len(w) /\ p[k] <= Len(text)
      BY <1>3, <1>4, <1>7, <2>1
    <3> QED BY <1>3, <1>6, <3>1 DEF CText
  <2> HIDE DEF v
  <2>6. u \in Seq(Cell) /\ Len(u) = Len(v) /\ \A j \in 1..Len(v) : u[j] = text[p[k - 1] + j]
    <3> DEFINE a == p[k - 1] + 1
               b == p[k] - 1
    <3>0. a \in Nat /\ b \in Nat /\ a >= 1 /\ b <= Len(text)
      <4> DEFINE x == p[k - 1]
                 y == p[k]
                 l == Len(text)
      <4>1. x \in Nat /\ y \in Nat /\ l \in Nat /\ y >= 1 /\ y <= l
        BY <1>4, <2>1, <2>5
      <4> HIDE DEF x, y, l
      <4>2. x + 1 \in Nat /\ y - 1 \in Nat /\ x + 1 >= 1 /\ y - 1 <= l
        BY <4>1
      <4> QED BY <4>2 DEF x, y, l
    <3>1. a \in Int /\ b \in Int /\ \A j \in a..b : text[j] \in Cell
      <4> HIDE DEF a, b
      <4>1. \A j \in a..b : j \in 1..Len(text)
        BY <1>4, <3>0
      <4> QED BY <1>4, <3>0, <4>1 DEF CText
    <3>2. /\ SubSeq(text, a, b) \in Seq(Cell)
          /\ Len(SubSeq(text, a, b)) = IF a <= b THEN b - a + 1 ELSE 0
          /\ \A j \in 1..(b - a + 1) : SubSeq(text, a, b)[j] = text[a + j - 1]
      <4> HIDE DEF a, b
      <4> QED BY <3>1, SubSeqProperties
    <3>3. b - a + 1 = Len(v) /\ \A j \in 1..Len(v) : a + j - 1 = p[k - 1] + j
      <4> DEFINE x == p[k - 1]
                 y == p[k]
                 z == Len(v)
      <4>1. x \in Nat /\ y \in Nat /\ z \in Nat /\ y = x + z + 1 /\ a = x + 1 /\ b = y - 1
        BY <2>1, <2>5
      <4> HIDE DEF a, b, x, y, z
      <4>2. b - a + 1 = z /\ \A j \in 1..z : a + j - 1 = x + j
        BY <4>1
      <4> QED BY <4>2 DEF x, z
    <3>4. (IF a <= b THEN b - a + 1 ELSE 0) = Len(v)
      <4> HIDE DEF a, b
      <4> QED BY <2>5, <3>0, <3>3
    <3> QED BY <3>2, <3>3, <3>4
  <2>7. \A j \in 1..Len(v) : u[j] = v[j]
    <3> SUFFICES ASSUME NEW j \in 1..Len(v) PROVE u[j] = v[j]
      OBVIOUS
    <3>1. p[k - 1] + j \in 1..Len(w)
      <4> DEFINE x == p[k - 1]
                 y == p[k]
                 l == Len(w)
                 z == Len(v)
      <4>1. x \in Nat /\ y = x + z + 1 /\ z \in Nat /\ y <= l /\ l \in Nat /\ j \in 1..z
        BY <1>3, <2>1, <2>5
      <4> HIDE DEF x, y, l, z
      <4>2. x + j \in 1..l
        BY <4>1
      <4> QED BY <4>2 DEF x, l
    <3> HIDE DEF u
    <3> QED BY <1>4, <2>5, <2>6, <3>1
  <2> HIDE DEF u
  <2>8. u = v
    BY <2>5, <2>6, <2>7, SeqEqual
  <2> QED BY <2>2, <2>4, <2>8 DEF u, v
<1> HIDE DEF nth, last
<1>15. SplitLines(text) \in Seq(CText)
  BY <1>4, SplitLinesType
<1>16. /\ Len(SplitLines(text)) = Cardinality(starts)
       /\ \A k \in 1..Cardinality(starts) :
            SplitLines(text)[k] = SubSeq(text, nth(k), last(nth(k)))
  <2> DEFINE piece(k) == SubSeq(text, nth(k), last(nth(k)))
             c == Cardinality(starts)
  <2>1. SplitLines(text) = [k \in 1..c |-> piece(k)] /\ c \in Nat
    BY <1>1, <1>10
  <2> HIDE DEF piece, c
  <2>2. Len(SplitLines(text)) = c /\ \A k \in 1..c : SplitLines(text)[k] = piece(k)
    BY <2>1
  <2> QED BY <2>2 DEF piece, c
<1>17. \A k \in 1..n : k \in 1..Cardinality(starts)
  BY <1>3, <1>10, <1>13
<1>18. \A k \in 1..n : SplitLines(text)[k] = s[k]
  BY <1>14, <1>16, <1>17
<1>19. Len(SplitLines(text)) >= n + 1 /\ (Unbroken(t) => Len(SplitLines(text)) = n + 1)
  BY <1>13, <1>16
<1> QED
  BY <1>15, <1>18, <1>19 DEF text, w, n

\* From there, get_until() finds the end of the line if it leaves room for its
\* zero, and no other one; what it then copied is the line.
Cuts(buf, from, line, max) ==
  /\ get_until(buf, from, NL, max) = IF Len(line) < max THEN Len(line) ELSE -1
  /\ Line(buf, from, Len(line)) = line

\* Each line of a text is cut so.
LEMMA CutAt ==
  ASSUME NEW s \in Seq(CText), \A i \in 1..Len(s) : Unbroken(s[i]),
         NEW w \in CText, NEW p, EndsAt(s, p, w), p[Len(s)] = Len(w),
         NEW t \in CText, NEW i \in 1..Len(s), NEW max \in Nat
  PROVE  /\ p[i - 1] \in Nat /\ p[i] = p[i - 1] + Len(s[i]) + 1
         /\ Cuts(w \o t, p[i - 1], s[i], max)
<1> DEFINE buf == w \o t
           v == s[i]
           a == p[i - 1]
           n == Len(s)
           cut == get_until(buf, a, NL, max)
<1>1. v \in Seq(Cell) /\ Len(v) \in Nat /\ DOMAIN v = 1..Len(v) /\ Unbroken(v) /\ n \in Nat
  BY DEF CText
<1>2. /\ a \in Nat /\ p[i] \in Nat /\ p[i] = a + Len(v) + 1 /\ w[p[i]] = "nl"
      /\ \A j \in 1..Len(v) : w[a + j] = v[j]
  <2>1. i - 1 \in 0..n /\ i \in 0..n
    BY <1>1
  <2> QED BY <2>1 DEF EndsAt
<1>3. p[i] <= Len(w) /\ Len(w) \in Nat
  <2>0. Len(w) \in Nat
    BY DEF CText
  <2>a. \A k, m \in 0..Len(s) : k < m => p[k] < p[m]
    BY PlacesGrow
  <2>1. Len(w) \in Nat /\ \A k, m \in 0..n : k < m => p[k] < p[m]
    BY <2>0, <2>a
  <2>2. CASE i = n
    BY <1>2, <2>1, <2>2
  <2>3. CASE i # n
    <3>1. i \in 0..n /\ n \in 0..n /\ i < n
      BY <1>1, <2>3
    <3>2. p[i] < p[n]
      BY <2>1, <3>1
    <3> QED BY <1>2, <2>1, <3>2
  <2> QED BY <2>2, <2>3
<1>4. /\ buf \in Seq(Cell) /\ Len(buf) = Len(w) + Len(t) /\ Len(t) \in Nat /\ Len(buf) \in Nat
      /\ \A j \in 1..Len(w) : buf[j] = w[j]
  <2>1. w \in Seq(Cell) /\ t \in Seq(Cell)
    BY DEF CText
  <2> QED BY <2>1, ConcatAt
<1> HIDE DEF buf, v, a, n
<1>5. \A x \in Nat : Found(buf, x, NL) <=> x < Len(buf) /\ buf[x + 1] = "nl"
  BY FoundBreak
<1>6. Found(buf, a + Len(v), NL)
  <2>1. a + Len(v) \in Nat /\ a + Len(v) + 1 = p[i] /\ a + Len(v) < Len(buf) /\ p[i] \in 1..Len(w)
    BY <1>1, <1>2, <1>3, <1>4
  <2>2. buf[p[i]] = "nl"
    BY <1>2, <1>4, <2>1
  <2> QED BY <1>5, <2>1, <2>2
<1>7. ASSUME NEW x \in a..(a + Len(v) - 1) PROVE ~ Found(buf, x, NL)
  <2> DEFINE j == x + 1 - a
  <2>1. j \in 1..Len(v) /\ a + j = x + 1 /\ x \in Nat /\ a + j \in 1..Len(w)
    BY <1>1, <1>2, <1>3
  <2> HIDE DEF j
  <2>2. buf[x + 1] = v[j] /\ v[j] # "nl"
    BY <1>1, <1>2, <1>4, <2>1 DEF Unbroken
  <2> QED BY <1>5, <2>1, <2>2
<1>8. \/ cut = -1 /\ \A x \in a..(a + max - 1) : ~ Found(buf, x, NL)
      \/ /\ cut \in 0..(max - 1)
         /\ Found(buf, a + cut, NL)
         /\ \A x \in a..(a + cut - 1) : ~ Found(buf, x, NL)
  <2>1. Len(NL) = 1 /\ Len(NL) \in Nat \ {0}
    BY DEF NL
  <2>2. \/ cut = -1 /\ \A x \in a..(a + max - Len(NL)) : ~ Found(buf, x, NL)
        \/ /\ cut \in 0..(max - Len(NL))
           /\ Found(buf, a + cut, NL)
           /\ \A x \in a..(a + cut - 1) : ~ Found(buf, x, NL)
    BY <1>2, <1>4, <2>1, GetUntil, Zenon
  <2> QED BY <2>1, <2>2
<1> HIDE DEF cut
<1>9. cut = IF Len(v) < max THEN Len(v) ELSE -1
  <2>1. CASE cut = -1 /\ \A x \in a..(a + max - 1) : ~ Found(buf, x, NL)
    <3>1. ~(a + Len(v) \in a..(a + max - 1))
      BY <1>6, <2>1
    <3> QED BY <1>1, <1>2, <2>1, <3>1
  <2>2. CASE /\ cut \in 0..(max - 1)
             /\ Found(buf, a + cut, NL)
             /\ \A x \in a..(a + cut - 1) : ~ Found(buf, x, NL)
    <3>1. cut \in Nat
      BY <2>2
    <3>2. ~(a + Len(v) \in a..(a + cut - 1))
      BY <1>6, <2>2
    <3>3. ~(a + cut \in a..(a + Len(v) - 1))
      BY <1>7, <2>2
    <3>4. ~(Len(v) < cut) /\ ~(cut < Len(v))
      BY <1>1, <1>2, <3>1, <3>2, <3>3
    <3>5. cut = Len(v)
      <4> DEFINE z == Len(v)
      <4>1. z \in Nat
        BY <1>1
      <4> HIDE DEF z
      <4>2. ~(z < cut) /\ ~(cut < z)
        BY <3>4 DEF z
      <4> QED BY <3>1, <4>1, <4>2 DEF z
    <3> QED BY <2>2, <3>5
  <2> QED BY <1>8, <2>1, <2>2
<1>10. Line(buf, a, Len(v)) = v
  <2> DEFINE u == SubSeq(buf, a + 1, a + Len(v))
  <2>1. CASE Len(v) = 0
    <3>1. Line(buf, a, Len(v)) = <<>> /\ v = <<>>
      BY <1>1, <2>1 DEF Line
    <3> QED BY <3>1
  <2>2. CASE Len(v) # 0
    <3>1. Line(buf, a, Len(v)) = u
      <4>1. ~(Len(v) <= 0)
        BY <1>1, <2>2
      <4> QED BY <4>1 DEF Line
    <3>2. u \in Seq(Cell) /\ Len(u) = Len(v) /\ \A j \in 1..Len(v) : u[j] = buf[a + j]
      <4> DEFINE x == a + 1
                 y == a + Len(v)
      <4>1. x \in Int /\ y \in Int /\ x <= y /\ y - x + 1 = Len(v)
            /\ \A j \in 1..Len(v) : x + j - 1 = a + j
        BY <1>1, <1>2, <2>2
      <4>2. \A j \in x..y : buf[j] \in Cell
        <5>1. \A j \in x..y : j \in 1..Len(buf)
          BY <1>1, <1>2, <1>3, <1>4
        <5> QED BY <1>4, <5>1
      <4> HIDE DEF x, y
      <4>3. /\ SubSeq(buf, x, y) \in Seq(Cell)
            /\ Len(SubSeq(buf, x, y)) = IF x <= y THEN y - x + 1 ELSE 0
            /\ \A j \in 1..(y - x + 1) : SubSeq(buf, x, y)[j] = buf[x + j - 1]
        BY <4>1, <4>2, SubSeqProperties
      <4>4. /\ SubSeq(buf, x, y) \in Seq(Cell)
            /\ Len(SubSeq(buf, x, y)) = Len(v)
            /\ \A j \in 1..Len(v) : SubSeq(buf, x, y)[j] = buf[a + j]
        BY <4>1, <4>3
      <4> QED BY <4>4 DEF x, y
    <3> HIDE DEF u
    <3>3. \A j \in 1..Len(v) : u[j] = v[j]
      <4> SUFFICES ASSUME NEW j \in 1..Len(v) PROVE u[j] = v[j]
        OBVIOUS
      <4>1. a + j \in 1..Len(w)
        BY <1>1, <1>2, <1>3
      <4> QED BY <1>2, <1>4, <3>2, <4>1
    <3>4. u = v
      BY <1>1, <3>2, <3>3, SeqEqual
    <3> QED BY <3>1, <3>4
  <2> QED BY <2>1, <2>2
<1>11. Cuts(buf, a, v, max)
  BY <1>9, <1>10 DEF Cuts, cut
<1> QED
  BY <1>2, <1>11 DEF buf, v, a

\* What the client reads of a reply begins with the lines s; is nothing else.
Reads(buf, s) ==
  LET split == SplitLines(parseResponse(buf).response) IN
  /\ ~ parseResponse(buf).is_error
  /\ split \in Seq(CText)
  /\ Len(split) >= Len(s) + 1
  /\ \A k \in 1..Len(s) : split[k] = s[k]

\* It reads these lines and one more, which List drops.
ReadsOnly(buf, s) == Reads(buf, s) /\ Len(SplitLines(parseResponse(buf).response)) = Len(s) + 1

\* The reply: the client reads its lines, and behind them at least what the
\* reply left of the request.
LEMMA ReadsReply ==
  ASSUME NEW old \in CText, Len(old) = MAX_IN_OUT,
         NEW s \in Seq(CText), \A i \in 1..Len(s) : Unbroken(s[i]),
         Fits(OK \o WithBreaks(s)), NEW buf,
         buf = (OK \o WithBreaks(s)) \o SubSeq(old, Len(OK \o WithBreaks(s)) + 1, MAX_IN_OUT)
  PROVE  /\ Reads(buf, s)
         /\ (\A i \in 3..MAX_IN_OUT : old[i] # "nl") => ReadsOnly(buf, s)
<1> DEFINE w == WithBreaks(s)
           out == OK \o w
           rest == SubSeq(old, Len(out) + 1, MAX_IN_OUT)
<1>1. w \in Seq(Cell) /\ Len(w) \in Nat
  BY PlacesOfLines DEF CText
<1>2. OK \in Seq(Cell) /\ Len(OK) = 2 /\ OK[1] = "OK" /\ OK[2] = "nl"
  BY DEF OK, Cell
<1> HIDE DEF w
<1>3. /\ out \in Seq(Cell) /\ Len(out) = 2 + Len(w) /\ out[1] = "OK" /\ out[2] = "nl"
      /\ \A j \in 1..Len(w) : out[2 + j] = w[j]
  <2> DEFINE c == OK
  <2>1. c \in CText /\ w \in CText /\ Len(c) = 2 /\ c[1] = "OK" /\ c[2] = "nl" /\ out = c \o w
    BY <1>1, <1>2 DEF CText
  <2> HIDE DEF c, out
  <2>2. /\ out \in CText /\ Len(out) = Len(c) + Len(w)
        /\ \A j \in 1..Len(c) : out[j] = c[j]
        /\ \A j \in 1..Len(w) : out[Len(c) + j] = w[j]
    <3> DEFINE d == c \o w
    <3>1. /\ d \in CText /\ Len(d) = Len(c) + Len(w)
          /\ \A j \in 1..Len(c) : d[j] = c[j]
          /\ \A j \in 1..Len(w) : d[Len(c) + j] = w[j]
      BY <2>1, ConcatText, Zenon
    <3> HIDE DEF d
    <3>2. out = d
      BY <2>1 DEF d
    <3> QED BY <3>1, <3>2, Zenon
  <2>3. 1 \in 1..Len(c) /\ 2 \in 1..Len(c)
    BY <2>1
  <2> QED BY <2>1, <2>2, <2>3 DEF CText
<1>4. Len(out) <= MAX_IN_OUT /\ MAX_IN_OUT \in Nat /\ buf = out \o rest
  BY CodecParametersAssumption DEF Fits, w
<1> HIDE DEF out
<1>5. /\ rest \in Seq(Cell) /\ Len(rest) = MAX_IN_OUT - Len(out)
      /\ \A j \in 1..Len(rest) : rest[j] = old[Len(out) + j]
  <2> DEFINE x == Len(out) + 1
             y == MAX_IN_OUT
  <2>1. x \in Int /\ y \in Int /\ Len(out) \in Nat /\ x = Len(out) + 1 /\ y = MAX_IN_OUT
        /\ \A j \in 1..(y - x + 1) : x + j - 1 = Len(out) + j
    BY <1>1, <1>3, <1>4
  <2>2. \A j \in x..y : old[j] \in Cell
    <3>1. \A j \in x..y : j \in 1..Len(old)
      BY <1>1, <1>3, <1>4
    <3> QED BY <3>1 DEF CText
  <2> HIDE DEF x, y
  <2>3. /\ SubSeq(old, x, y) \in Seq(Cell)
        /\ Len(SubSeq(old, x, y)) = IF x <= y THEN y - x + 1 ELSE 0
        /\ \A j \in 1..(y - x + 1) : SubSeq(old, x, y)[j] = old[x + j - 1]
    BY <2>1, <2>2, SubSeqProperties
  <2>4. Len(SubSeq(old, x, y)) = MAX_IN_OUT - Len(out) /\ (IF x <= y THEN y - x + 1 ELSE 0) = MAX_IN_OUT - Len(out)
    BY <1>4, <2>1, <2>3
  <2>5. \A j \in 1..Len(SubSeq(old, x, y)) : j \in 1..(y - x + 1)
    BY <1>4, <2>1, <2>4
  <2>6. \A j \in 1..Len(SubSeq(old, x, y)) : SubSeq(old, x, y)[j] = old[Len(out) + j]
    BY <2>1, <2>3, <2>5
  <2> QED BY <2>3, <2>4, <2>6 DEF x, y
<1> HIDE DEF rest
<1>6. /\ buf \in Seq(Cell) /\ Len(buf) = Len(out) + Len(rest)
      /\ \A j \in 1..Len(out) : buf[j] = out[j]
      /\ \A j \in 1..Len(rest) : buf[Len(out) + j] = rest[j]
  <2>1. out \in CText /\ rest \in CText /\ buf = out \o rest
    BY <1>3, <1>4, <1>5 DEF CText
  <2>2. buf \in CText /\ Len(buf) = Len(out) + Len(rest)
    BY <2>1, ConcatText
  <2> DEFINE u == out \o rest
  <2>3. \A j \in 1..Len(out) : u[j] = out[j]
    BY <2>1, ConcatText
  <2>4. \A j \in 1..Len(rest) : u[Len(out) + j] = rest[j]
    BY <2>1, ConcatText
  <2>5. buf = u
    BY <2>1
  <2> HIDE DEF u
  <2> QED BY <2>2, <2>3, <2>4, <2>5 DEF CText
<1>7. buf[1] = "OK" /\ buf[2] = "nl" /\ Len(buf) >= 2
  <2>1. 1 \in 1..Len(out) /\ 2 \in 1..Len(out) /\ Len(rest) \in Nat
    BY <1>1, <1>3, <1>4, <1>5
  <2>2. Len(buf) >= 2
    BY <1>1, <1>3, <1>6, <2>1
  <2> QED BY <1>3, <1>6, <2>1, <2>2
<1>8. Opens(buf)
  BY <1>6, <1>7 DEF Opens, CText
<1> DEFINE response == parseResponse(buf).response
<1>9. /\ ~ parseResponse(buf).is_error
      /\ response = SubSeq(buf, 3, Len(buf)) /\ response \in Seq(Cell)
      /\ Len(response) = Len(buf) - 2
  BY <1>7, <1>8, ParsedReply DEF CText
<1>10. \A j \in 1..(Len(buf) - 2) : response[j] = buf[2 + j]
  <2>0. buf \in Seq(Cell) /\ Len(buf) \in Nat
    BY <1>6
  <2>1. Len(buf) \in Nat /\ \A j \in 3..Len(buf) : buf[j] \in Cell
    BY <2>0
  <2>2. \A j \in 1..(Len(buf) - 3 + 1) : SubSeq(buf, 3, Len(buf))[j] = buf[3 + j - 1]
    <3>1. 3 \in Int /\ Len(buf) \in Int
      BY <2>0
    <3> QED BY <2>1, <3>1, SubSeqProperties, SMTT(30)
  <2>3. \A j \in 1..(Len(buf) - 2) : j \in 1..(Len(buf) - 3 + 1) /\ 3 + j - 1 = 2 + j
    BY <2>1
  <2> HIDE DEF response
  <2> QED BY <1>9, <2>2, <2>3
<1> HIDE DEF response
<1>11. response = w \o rest
  <2> DEFINE u == w \o rest
  <2>1. /\ u \in Seq(Cell) /\ Len(u) = Len(w) + Len(rest)
        /\ \A j \in 1..Len(w) : u[j] = w[j]
        /\ \A j \in 1..Len(rest) : u[Len(w) + j] = rest[j]
    <3>1. w \in CText /\ rest \in CText
      BY <1>1, <1>5 DEF CText
    <3>2. u \in CText /\ Len(u) = Len(w) + Len(rest)
      BY <3>1, ConcatText
    <3>3. \A j \in 1..Len(w) : u[j] = w[j]
      BY <3>1, ConcatText
    <3>4. \A j \in 1..Len(rest) : u[Len(w) + j] = rest[j]
      BY <3>1, ConcatText
    <3> QED BY <3>2, <3>3, <3>4 DEF CText
  <2> HIDE DEF u
  <2>2. Len(response) = Len(u) /\ Len(rest) \in Nat /\ Len(buf) - 2 = Len(u)
    <3>1. Len(rest) \in Nat /\ Len(w) \in Nat
      BY <1>1, <1>5
    <3>2. Len(out) = 2 + Len(w) /\ Len(buf) = Len(out) + Len(rest) /\ Len(response) = Len(buf) - 2
          /\ Len(u) = Len(w) + Len(rest)
      BY <1>3, <1>6, <1>9, <2>1
    <3> DEFINE a == Len(rest)
               b == Len(w)
               c == Len(out)
               d == Len(buf)
    <3>3. a \in Nat /\ b \in Nat /\ c = 2 + b /\ d = c + a
      BY <3>1, <3>2
    <3> HIDE DEF a, b, c, d
    <3>4. d - 2 = b + a
      BY <3>3
    <3> QED BY <3>1, <3>2, <3>4 DEF a, b, d
  <2>3. ASSUME NEW j \in 1..Len(response) PROVE response[j] = u[j]
    <3>1. j \in 1..(Len(buf) - 2) /\ j \in Nat
      BY <2>2
    <3>2. response[j] = buf[2 + j]
      BY <1>10, <3>1
    <3>3. CASE j <= Len(w)
      <4>1. j \in 1..Len(w) /\ 2 + j \in 1..Len(out)
        BY <1>1, <1>3, <3>1, <3>3
      <4> QED BY <1>3, <1>6, <2>1, <3>2, <4>1
    <3>4. CASE ~(j <= Len(w))
      <4> DEFINE d == j - Len(w)
      <4>1. d \in 1..Len(rest) /\ 2 + j = Len(out) + d /\ j = Len(w) + d
        BY <1>1, <1>3, <2>1, <2>2, <3>1, <3>4
      <4> HIDE DEF d
      <4> QED BY <1>6, <2>1, <3>2, <4>1
    <3> QED BY <3>3, <3>4
  <2>4. response = u
    BY <1>9, <2>1, <2>2, <2>3, SeqEqual
  <2> QED BY <2>4 DEF u
<1>12. (\A i \in 3..MAX_IN_OUT : old[i] # "nl") => Unbroken(rest)
  <2> SUFFICES ASSUME \A i \in 3..MAX_IN_OUT : old[i] # "nl", NEW j \in DOMAIN rest
               PROVE  rest[j] # "nl"
    BY DEF Unbroken
  <2>1. j \in 1..Len(rest)
    BY <1>5
  <2>2. Len(out) + j \in 3..MAX_IN_OUT
    BY <1>1, <1>3, <1>4, <1>5, <2>1
  <2> QED BY <1>5, <2>1, <2>2
<1> DEFINE split == SplitLines(response)
<1>13. /\ split \in Seq(CText)
       /\ Len(split) >= Len(s) + 1
       /\ \A k \in 1..Len(s) : split[k] = s[k]
       /\ Unbroken(rest) => Len(split) = Len(s) + 1
  <2>1. rest \in CText /\ response = WithBreaks(s) \o rest
    BY <1>5, <1>11 DEF CText, w
  <2> QED BY <2>1, SplitOfLines
<1> QED
  BY <1>9, <1>12, <1>13 DEF response, Reads, ReadsOnly

-----------------------------------------------------------------------------
(***************************************************************************)
(* What a list says.                                                       *)
(***************************************************************************)
\* A name is one line, and nothing in a request for a list looks like one.
NameInv ==
  /\ \A i \in DOMAIN dysks : Unbroken(dysks[i].def.name)
  /\ (call.op = "list" /\ call.at = "module") => \A i \in 3..MAX_IN_OUT : buffer[i] # "nl"

\* What is behind the text in the client's buffer.
LEMMA BufferizeAt ==
  ASSUME NEW text \in CText, Fits(text)
  PROVE  /\ \A j \in 1..Len(text) : bufferize(text)[j] = text[j]
         /\ \A j \in (Len(text) + 1)..MAX_IN_OUT : bufferize(text)[j] = "nul"
         /\ \E t \in CText : bufferize(text) = text \o t
<1> DEFINE pad == [i \in 1..(MAX_IN_OUT - Len(text)) |-> "nul"]
<1>1. Len(text) \in Nat /\ MAX_IN_OUT \in Nat /\ MAX_IN_OUT - Len(text) \in Nat
  BY CodecParametersAssumption DEF CText, Fits
<1>2. "nul" \in Cell
  BY DEF Cell
<1>3. pad \in CText /\ Len(pad) = MAX_IN_OUT - Len(text) /\ \A j \in 1..Len(pad) : pad[j] = "nul"
  BY <1>1, <1>2 DEF CText
<1>4. bufferize(text) = text \o pad
  BY DEF bufferize
<1> HIDE DEF pad
<1>5. /\ \A j \in 1..Len(text) : (text \o pad)[j] = text[j]
      /\ \A j \in 1..Len(pad) : (text \o pad)[Len(text) + j] = pad[j]
  BY <1>3, ConcatText
<1>6. ASSUME NEW j \in (Len(text) + 1)..MAX_IN_OUT PROVE (text \o pad)[j] = "nul"
  <2> DEFINE d == j - Len(text)
  <2>1. d \in 1..Len(pad) /\ Len(text) + d = j
    BY <1>1, <1>3
  <2> HIDE DEF d
  <2> QED BY <1>3, <1>5, <2>1
<1> QED
  BY <1>3, <1>4, <1>5, <1>6

\* A dysk that goes leaves the others.
LEMMA RemoveAtKeeps ==
  ASSUME NEW k \in DOMAIN dysks, DysksInv, dysks' = RemoveAt(dysks, k)
  PROVE  \A i \in DOMAIN dysks' : \E j \in DOMAIN dysks : dysks'[i] = dysks[j]
<1>1. dysks \in Seq(Listing) /\ k \in 1..Len(dysks) /\ Len(dysks) \in Nat
  BY DEF DysksInv
<1>2. OneLess(Listing, dysks, RemoveAt(dysks, k))
  BY <1>1, RemoveAtType, Zenon
<1>3. OneLess(Listing, dysks, dysks')
  BY <1>2, Zenon
<1>4. dysks' \in Seq(Listing)
  BY <1>3 DEF OneLess
<1>5. DOMAIN dysks = 1..Len(dysks) /\ DOMAIN dysks' = 1..Len(dysks')
  BY <1>1, <1>4
<1> QED
  BY <1>3, <1>5, Zenon DEF OneLess

\* A dysk that is mounted comes before the others.
LEMMA MountedFirst ==
  ASSUME DysksInv, NEW new \in Listing, dysks' = <<new>> \o dysks
  PROVE  \A i \in DOMAIN dysks' : dysks'[i] = new \/ \E j \in DOMAIN dysks : dysks'[i] = dysks[j]
<1>1. dysks \in Seq(Listing) /\ <<new>> \in Seq(Listing) /\ Len(<<new>>) = 1 /\ <<new>>[1] = new
  BY DEF DysksInv
<1>2. /\ dysks' \in Seq(Listing) /\ Len(dysks') = 1 + Len(dysks)
      /\ \A i \in 1..Len(<<new>>) + Len(dysks) :
           dysks'[i] = IF i <= Len(<<new>>) THEN <<new>>[i] ELSE dysks[i - Len(<<new>>)]
  BY <1>1, ConcatProperties
<1>3. ASSUME NEW i \in DOMAIN dysks' PROVE dysks'[i] = new \/ \E j \in DOMAIN dysks : dysks'[i] = dysks[j]
  <2>1. i \in 1..(1 + Len(dysks)) /\ Len(dysks) \in Nat
    BY <1>1, <1>2
  <2>2. CASE i = 1
    BY <1>1, <1>2, <2>1, <2>2
  <2>3. CASE i # 1
    <3>1. i - 1 \in DOMAIN dysks /\ dysks'[i] = dysks[i - 1]
      BY <1>1, <1>2, <2>1, <2>3
    <3> QED BY <3>1
  <2> QED BY <2>2, <2>3
<1> QED
  BY <1>3

\* What a step does to the dysks.
LEMMA DysksChange ==
  ASSUME CodecInv, [CodecNext]_codecVars
  PROVE  \/ UNCHANGED dysks
         \/ \E k \in DOMAIN dysks : dysks' = RemoveAt(dysks, k)
         \/ /\ InModule("mount") /\ Undetermined(buffer) = {} /\ FreeMinors # {}
            /\ dysks' = <<[def |-> Mounted, asked |-> call.of]>> \o dysks
<1>1. CASE UNCHANGED codecVars
  BY <1>1 DEF codecVars
<1>2. CASE CallMount \/ CallByName \/ CallList \/ GetNext
  BY <1>2 DEF CallMount, CallByName, CallList, GetNext
<1>3. CASE CallFails \/ DyskReturns \/ UnmountReturns \/ ListReturns
  BY <1>3 DEF CallFails, DyskReturns, UnmountReturns, ListReturns, Returns
<1>4. CASE MountRefused \/ MountFails \/ NoMemory \/ NameTooLong
  BY <1>4 DEF MountRefused, MountFails, NoMemory, NameTooLong, Errno
<1>5. CASE NoSuchDysk \/ NotDeleted \/ DyskGet \/ DyskList
  BY <1>5 DEF NoSuchDysk, NotDeleted, DyskGet, DyskList
<1>6. CASE MountAccepted
  BY <1>6 DEF MountAccepted
<1>7. CASE DyskUnmount \/ Catastrophe
  BY <1>7 DEF DyskUnmount, Catastrophe, dysk_exist
<1> QED
  BY <1>1, <1>2, <1>3, <1>4, <1>5, <1>6, <1>7 DEF CodecNext, ClientStep, ModuleStep

\* What a step does to a call that the module has when the step is done.
LEMMA CallsChange ==
  ASSUME CodecInv, [CodecNext]_codecVars, call'.at = "module"
  PROVE  \/ call' = call /\ buffer' = buffer
         \/ \E d \in Wanted : Fits(dysk2string(d)) /\ Call("mount", d, dysk2string(d))
         \/ \E op \in {"unmount", "get"}, name \in Names :
              Fits(name \o NL) /\ Call(op, name, name \o NL)
         \/ Call("list", <<>>, <<"-">>)
         \/ names # <<>> /\ Call("get", Head(names), Head(names) \o NL)
<1>1. CASE UNCHANGED codecVars \/ Catastrophe
  BY <1>1 DEF codecVars, Catastrophe
<1>2. CASE CallMount \/ CallByName \/ CallList
  BY <1>2 DEF CallMount, CallByName, CallList
<1>3. CASE GetNext
  BY <1>3 DEF GetNext, CodecInv, CallInv
<1>4. CASE CallFails \/ DyskReturns \/ UnmountReturns \/ ListReturns
  BY <1>4 DEF CallFails, DyskReturns, UnmountReturns, ListReturns, Failed, Idle, NextGet
<1>5. CASE NoMemory \/ NameTooLong
  BY <1>5 DEF NoMemory, NameTooLong, Errno, Idle
<1>6. ASSUME NEW out, Reply(out) PROVE FALSE
  BY <1>6 DEF Reply, CodecInv, CallInv
<1>7. CASE MountRefused \/ MountFails \/ MountAccepted
  BY <1>6, <1>7 DEF MountRefused, MountFails, MountAccepted
<1>9. CASE NoSuchDysk \/ NotDeleted \/ DyskUnmount \/ DyskGet \/ DyskList
  BY <1>6, <1>9 DEF NoSuchDysk, NotDeleted, DyskUnmount, DyskGet, DyskList
<1> QED
  BY <1>1, <1>2, <1>3, <1>4, <1>5, <1>7, <1>9 DEF CodecNext, ClientStep, ModuleStep

\* It holds at first.
LEMMA NameInitially == CodecInit => NameInv
BY DEF CodecInit, NameInv, Idle

\* Each step keeps it.
LEMMA NameStep == CodecInv /\ NameInv /\ [CodecNext]_codecVars => NameInv'
<1> SUFFICES ASSUME CodecInv, NameInv, [CodecNext]_codecVars PROVE NameInv'
  OBVIOUS
<1>1. \A i \in DOMAIN dysks' : Unbroken(dysks'[i].def.name)
  <2>1. CASE UNCHANGED dysks
    BY <2>1 DEF NameInv
  <2>2. CASE \E k \in DOMAIN dysks : dysks' = RemoveAt(dysks, k)
    BY <2>2, RemoveAtKeeps DEF NameInv, CodecInv
  <2>3. CASE /\ InModule("mount") /\ Undetermined(buffer) = {} /\ FreeMinors # {}
             /\ dysks' = <<[def |-> Mounted, asked |-> call.of]>> \o dysks
    <3> DEFINE new == [def |-> Mounted, asked |-> call.of]
    <3>1. /\ Mounted \in [ToSet(ReplyFields) -> CText]
          /\ \A f \in ToSet(RequestFields) : Mounted[f] = dysk_def_from_buffer(buffer)[f]
      BY <2>3, MountedType
    <3>2. new \in Listing
      BY <2>3, <3>1 DEF Listing, InModule, CodecInv, CallInv
    <3>3. Unbroken(new.def.name)
      <4>1. Unbroken(dysk_def_from_buffer(buffer)["name"]) /\ "name" \in ToSet(RequestFields)
        BY <2>3, DefFromBuffer, Fields DEF CodecInv, BufferInv
      <4>2. Unbroken(Mounted["name"])
        BY <3>1, <4>1
      <4> QED BY <4>2
    <3> HIDE DEF new
    <3>4. \A i \in DOMAIN dysks' : dysks'[i] = new \/ \E j \in DOMAIN dysks : dysks'[i] = dysks[j]
      BY <2>3, <3>2, MountedFirst DEF CodecInv, new
    <3> QED BY <3>3, <3>4 DEF NameInv
  <2> QED BY <2>1, <2>2, <2>3, DysksChange
<1>2. ASSUME call'.op = "list", call'.at = "module", NEW i \in 3..MAX_IN_OUT PROVE buffer'[i] # "nl"
  <2>1. CASE call' = call /\ buffer' = buffer
    BY <1>2, <2>1 DEF NameInv
  <2>2. CASE Call("list", <<>>, <<"-">>)
    <3>1. <<"-">> \in CText /\ Len(<<"-">>) = 1 /\ Fits(<<"-">>) /\ MAX_IN_OUT \in Nat
      BY CodecParametersAssumption DEF CText, Cell, Fits
    <3>2. \A j \in (Len(<<"-">>) + 1)..MAX_IN_OUT : bufferize(<<"-">>)[j] = "nul"
      BY <3>1, BufferizeAt
    <3>3. i \in (Len(<<"-">>) + 1)..MAX_IN_OUT
      BY <3>1
    <3> QED BY <2>2, <3>2, <3>3 DEF Call
  <2>4. CASE \/ \E d \in Wanted : Fits(dysk2string(d)) /\ Call("mount", d, dysk2string(d))
             \/ \E op \in {"unmount", "get"}, name \in Names :
                  Fits(name \o NL) /\ Call(op, name, name \o NL)
             \/ names # <<>> /\ Call("get", Head(names), Head(names) \o NL)
    BY <1>2, <2>4 DEF Call
  <2> QED BY <1>2, <2>1, <2>2, <2>4, CallsChange
<1> QED
  BY <1>1, <1>2 DEF NameInv

\* Which step answers a call for a list.
LEMMA ListReplies ==
  ASSUME CodecInv, [CodecNext]_codecVars, Replied("list")
  PROVE  DyskList
<1>1. call.op = "list" /\ call.at = "module" /\ call'.op = "list" /\ call'.at = "client"
  BY DEF Replied, InModule
<1>2. ~ UNCHANGED codecVars /\ ~ Catastrophe
  BY <1>1 DEF codecVars, Catastrophe
<1>3. ~ (CallMount \/ CallByName \/ CallList \/ GetNext)
  BY <1>1 DEF CallMount, CallByName, CallList, GetNext, Idle
<1>4. ~ (CallFails \/ DyskReturns \/ UnmountReturns \/ ListReturns)
  BY <1>1 DEF CallFails, DyskReturns, UnmountReturns, ListReturns, Returns
<1>5. ~ (NoMemory \/ NameTooLong)
  BY <1>1 DEF NoMemory, NameTooLong, Errno, Idle
<1>6. ~ (MountRefused \/ MountFails \/ MountAccepted)
  BY <1>1 DEF MountRefused, MountFails, MountAccepted, InModule
<1>7. ~ (NoSuchDysk \/ NotDeleted \/ DyskUnmount \/ DyskGet)
  BY <1>1 DEF NoSuchDysk, NotDeleted, DyskUnmount, DyskGet, InModule
<1> QED
  BY <1>2, <1>3, <1>4, <1>5, <1>6, <1>7 DEF CodecNext, ClientStep, ModuleStep

\* A reply to a list is read as the names of the newest dysks.
LEMMA ListStep ==
  ASSUME CodecInv, NameInv, [CodecNext]_codecVars, Replied("list")
  PROVE  LET read == Front(SplitLines(parseResponse(buffer').response))
             n == Len(read)
         IN
         /\ n <= Len(dysks) /\ \A i \in 1..n : read[i] = dysks[i].def.name
         /\ FitsWithZero(OK \o NamesOf(Len(dysks))) => n = Len(dysks)
<1>1. DyskList
  BY ListReplies
<1>2. Reply(OK \o Listed)
  BY <1>1 DEF DyskList
<1>3. PICK m \in 0..Len(dysks) :
        /\ Listed = NamesOf(m)
        /\ \A k \in 0..Len(dysks) : Len(OK \o NamesOf(k)) <= MAX_IN_OUT - 1 => k <= m
  BY ListedType DEF CodecInv
<1>4. dysks \in Seq(Listing) /\ Len(dysks) \in Nat
  BY DEF CodecInv, DysksInv
<1> DEFINE s == [i \in 1..m |-> dysks[i].def.name]
<1>5. ASSUME NEW i \in 1..m PROVE dysks[i].def.name \in CText /\ Unbroken(dysks[i].def.name)
  <2>1. i \in DOMAIN dysks /\ dysks[i] \in Listing /\ "name" \in ToSet(ReplyFields)
    BY <1>3, <1>4, Fields
  <2> QED BY <2>1 DEF Listing, NameInv
<1>6. /\ s \in Seq(CText) /\ Len(s) = m
      /\ \A i \in 1..Len(s) : s[i] = dysks[i].def.name /\ Unbroken(s[i])
  BY <1>3, <1>5
<1>7. NamesOf(m) = WithBreaks(s)
  <2>1. [i \in 1..Len(s) |-> s[i] \o NL] = [i \in 1..m |-> dysks[i].def.name \o NL]
    BY <1>6
  <2> QED BY <2>1 DEF NamesOf, WithBreaks
<1> HIDE DEF s
<1> DEFINE out == OK \o WithBreaks(s)
           split == SplitLines(parseResponse(buffer').response)
<1>8. Fits(out) /\ buffer' = out \o SubSeq(buffer, Len(out) + 1, MAX_IN_OUT)
  <2>1. Reply(out) /\ call'.at = "client"
    BY <1>2, <1>3, <1>7 DEF Replied
  <2>2. out \in CText
    <3>1. WithBreaks(s) \in CText /\ OK \in CText
      BY <1>6, PlacesOfLines, OpensWith DEF Opens
    <3> QED BY <3>1, ConcatText
  <2> HIDE DEF out
  <2> QED BY <2>1, <2>2, ReplyFits, RoomForZero
<1>9. buffer \in CText /\ Len(buffer) = MAX_IN_OUT /\ \A i \in 3..MAX_IN_OUT : buffer[i] # "nl"
  BY DEF CodecInv, BufferInv, NameInv, Replied, InModule
<1>10. /\ split \in Seq(CText) /\ Len(split) = Len(s) + 1
       /\ \A k \in 1..Len(s) : split[k] = s[k]
  <2> DEFINE old == buffer
             new == buffer'
  <2>1. /\ old \in CText /\ Len(old) = MAX_IN_OUT /\ \A i \in 3..MAX_IN_OUT : old[i] # "nl"
        /\ new = out \o SubSeq(old, Len(out) + 1, MAX_IN_OUT)
        /\ Fits(out) /\ \A i \in 1..Len(s) : Unbroken(s[i])
    BY <1>6, <1>8, <1>9
  <2> HIDE DEF old, new
  <2>2. ReadsOnly(new, s)
    <3>1. s \in Seq(CText) /\ \A i \in 1..Len(s) : Unbroken(s[i])
      BY <1>6
    <3>2. old \in CText /\ Len(old) = MAX_IN_OUT /\ Fits(OK \o WithBreaks(s))
          /\ \A i \in 3..MAX_IN_OUT : old[i] # "nl"
      BY <2>1
    <3>3. new = (OK \o WithBreaks(s)) \o SubSeq(old, Len(OK \o WithBreaks(s)) + 1, MAX_IN_OUT)
      BY <2>1
    <3> HIDE DEF out
    <3> QED BY <3>1, <3>2, <3>3, ReadsReply
  <2> QED BY <2>1, <2>2 DEF new, ReadsOnly, Reads
<1> HIDE DEF split
<1>11. Len(Front(split)) = m /\ \A i \in 1..m : Front(split)[i] = split[i]
  <2>1. Front(split) = SubSeq(split, 1, Len(split) - 1)
    BY DEF Front
  <2>2. \A i \in 1..(Len(split) - 1) : split[i] \in CText
    BY <1>10
  <2>3. /\ Front(split) \in Seq(CText)
        /\ Len(Front(split)) = IF 1 <= Len(split) - 1 THEN Len(split) - 1 - 1 + 1 ELSE 0
        /\ \A i \in 1..(Len(split) - 1 - 1 + 1) : Front(split)[i] = split[1 + i - 1]
    BY <1>10, <2>1, <2>2, SubSeqProperties
  <2> QED BY <1>6, <1>10, <2>3
<1>12. \A i \in 1..m : Front(split)[i] = dysks[i].def.name
  BY <1>6, <1>10, <1>11
<1>13. ASSUME FitsWithZero(OK \o NamesOf(Len(dysks))) PROVE m = Len(dysks)
  <2>1. Len(dysks) \in 0..Len(dysks)
    BY <1>4
  <2>2. Len(OK \o NamesOf(Len(dysks))) \in Nat
    <3>1. OK \in CText /\ NamesOf(Len(dysks)) \in CText
      BY <2>1, OpensWith, ListedType DEF CodecInv, Opens
    <3> QED BY <3>1, ConcatText
  <2>3. MAX_IN_OUT \in Nat
    BY CodecParametersAssumption
  <2>4. Len(OK \o NamesOf(Len(dysks))) <= MAX_IN_OUT - 1
    BY <1>13, <2>2, <2>3 DEF FitsWithZero
  <2>5. Len(dysks) <= m
    BY <1>3, <2>1, <2>4
  <2> QED BY <1>3, <1>4, <2>5
<1>14. m <= Len(dysks)
  BY <1>3, <1>4
<1> QED
  BY <1>11, <1>12, <1>13, <1>14 DEF split

\* What the client takes for the names of the dysks are those of the newest
\* ones, whole and in order, and of all of them when they fit, whatever the
\* names and the size of the buffer (dysk_list, List).
THEOREM ListCorrect == CodecSpec => ListShowsDysks
<1>1. CodecInit => CodecInv /\ NameInv
  BY CodecInitially, NameInitially
<1>2. CodecInv /\ NameInv /\ [CodecNext]_codecVars => (CodecInv /\ NameInv)'
  BY CodecStep, NameStep
<1> DEFINE A == Replied("list")
                  => LET read == Front(SplitLines(parseResponse(buffer').response))
                         n == Len(read)
                     IN
                     /\ n <= Len(dysks) /\ \A i \in 1..n : read[i] = dysks[i].def.name
                     /\ FitsWithZero(OK \o NamesOf(Len(dysks))) => n = Len(dysks)
<1>3. CodecInv /\ NameInv /\ [CodecNext]_codecVars => A
  BY ListStep
<1>4. ListShowsDysks <=> [][A]_codecVars
  BY DEF ListShowsDysks
<1> HIDE DEF A
<1> QED
  BY <1>1, <1>2, <1>3, <1>4, PTL DEF CodecSpec

-----------------------------------------------------------------------------
(***************************************************************************)
(* What is written is what is read.                                        *)
(***************************************************************************)
LEMMA PlainUnbroken ==
  /\ \A d \in Wanted : /\ d \in [ToSet(RequestFields) -> CText]
                       /\ \A f \in ToSet(RequestFields) : Unbroken(d[f])
  /\ \A text \in Names \cup ToSet(Minors) : text \in CText /\ Unbroken(text)
<1>1. \A x : "nl" \notin ToSet(x) => Unbroken(x)
  BY DEF ToSet, Unbroken
<1>2. ASSUME NEW d \in Wanted
      PROVE  /\ d \in [ToSet(RequestFields) -> CText]
             /\ \A f \in ToSet(RequestFields) : Unbroken(d[f])
  <2>1. d \in [ToSet(RequestFields) -> Text]
    BY CodecParametersAssumption
  <2>2. \A f \in ToSet(RequestFields) : d[f] \in CText
    BY <2>1, TextIsCText
  <2>3. \A f \in ToSet(RequestFields) : Unbroken(d[f])
    BY <1>1, PlainRequestsAssumption
  <2> QED BY <2>1, <2>2, <2>3
<1>3. ASSUME NEW text \in Names \cup ToSet(Minors) PROVE text \in CText /\ Unbroken(text)
  <2>1. text \in Text
    BY CodecParametersAssumption DEF ToSet
  <2> QED BY <1>1, <2>1, TextIsCText, PlainRequestsAssumption
<1> QED
  BY <1>2, <1>3

\* The module reads each field of a request that is all it was asked to read.
LEMMA RequestRead ==
  ASSUME NEW d \in Wanted, Fits(dysk2string(d))
  PROVE  /\ (\A f \in ToSet(RequestFields) : Len(d[f]) < Room[f])
              => Undetermined(bufferize(dysk2string(d))) = {}
         /\ Undetermined(bufferize(dysk2string(d))) = {}
              => dysk_def_from_buffer(bufferize(dysk2string(d))) = d
<1> DEFINE s == [i \in 1..10 |-> d[RequestFields[i]]]
           w == dysk2string(d)
           buf == bufferize(w)
           st == Starts(buf)
           room(i) == Room[RequestFields[i]]
<1>1. /\ Len(s) = 10 /\ s \in Seq(CText)
      /\ \A i \in 1..10 : s[i] = d[RequestFields[i]]
      /\ \A i \in 1..Len(s) : Unbroken(s[i])
  <2>1. \A i \in 1..10 : RequestFields[i] \in ToSet(RequestFields)
    BY Fields
  <2>2. \A i \in 1..10 : d[RequestFields[i]] \in CText /\ Unbroken(d[RequestFields[i]])
    BY <2>1, PlainUnbroken
  <2> QED BY <2>2
<1>2. w = WithBreaks(s)
  <2>1. [i \in 1..Len(RequestFields) |-> d[RequestFields[i]] \o NL] = [i \in 1..Len(s) |-> s[i] \o NL]
    BY <1>1, Fields
  <2> QED BY <2>1 DEF dysk2string, Lines, WithBreaks
<1> HIDE DEF s, w
<1>3. w \in CText /\ \E p : EndsAt(s, p, w) /\ p[Len(s)] = Len(w)
  BY <1>1, <1>2, PlacesOfLines
<1>4. PICK p : EndsAt(s, p, w) /\ p[Len(s)] = Len(w)
  BY <1>3
<1>5. PICK t \in CText : buf = w \o t
  BY <1>3, BufferizeAt DEF w
<1>6. buf \in CText
  BY <1>3, BufferizeType DEF w
<1> HIDE DEF buf
<1>7. ASSUME NEW i \in 1..10
      PROVE  /\ p[i - 1] \in Nat /\ p[i] = p[i - 1] + Len(s[i]) + 1 /\ Len(s[i]) \in Nat
             /\ room(i) \in Nat
             /\ get_until(buf, p[i - 1], NL, room(i)) = IF Len(s[i]) < room(i) THEN Len(s[i]) ELSE -1
             /\ Line(buf, p[i - 1], Len(s[i])) = s[i]
  <2>1. i \in 1..Len(s) /\ Len(s[i]) \in Nat
    BY <1>1 DEF CText
  <2>2. room(i) \in Nat
    BY Fields, CodecParametersAssumption
  <2> HIDE DEF room
  <2>3. p[i - 1] \in Nat /\ p[i] = p[i - 1] + Len(s[i]) + 1 /\ Cuts(w \o t, p[i - 1], s[i], room(i))
    BY <1>1, <1>3, <1>4, <2>1, <2>2, CutAt
  <2> QED BY <1>5, <2>1, <2>2, <2>3 DEF Cuts
<1>8. /\ st \in [1..11 -> Nat \cup {-1}]
      /\ st[1] = 0
      /\ \A i \in 1..10 : st[i] # -1 =>
           \/ get_until(buf, st[i], NL, room(i)) = -1 /\ st[i + 1] = -1
           \/ /\ get_until(buf, st[i], NL, room(i)) \in 0..(room(i) - 1)
              /\ st[i] + get_until(buf, st[i], NL, room(i)) < Len(buf)
              /\ st[i + 1] = st[i] + get_until(buf, st[i], NL, room(i)) + 1
  BY <1>6, StartsSteps
<1> HIDE DEF room
<1>9. Undetermined(buf) = {} => \A i \in 1..11 : st[i] \in Nat
  BY <1>6, FieldsDetermined
<1>10. \A i \in 1..10 : Field(buf, i) = Line(buf, st[i], st[i + 1] - st[i] - 1)
  BY DEF Field
<1> HIDE DEF st
<1> DEFINE G == {i \in 1..11 : st[i] = p[i - 1]}
           Short(i) == Len(s[i]) < room(i)
<1>11. 1 \in G
  BY <1>4, <1>8 DEF EndsAt
<1>12. ASSUME NEW i \in 1..10, i \in G, Short(i) \/ st[i + 1] \in Nat PROVE i + 1 \in G
  <2>0. st[i] = p[i - 1]
    BY <1>12
  <2>a. p[i - 1] \in Nat
    BY <1>7
  <2>b. \A x \in Nat : x # -1
    OBVIOUS
  <2>1. st[i] = p[i - 1] /\ st[i] # -1
    BY <2>0, <2>a, <2>b
  <2>2. get_until(buf, st[i], NL, room(i)) = IF Short(i) THEN Len(s[i]) ELSE -1
    BY <1>7, <2>1
  <2>3. Len(s[i]) # -1
    BY <1>7
  <2> DEFINE c == get_until(buf, st[i], NL, room(i))
             next == st[i + 1]
             len == Len(s[i])
  <2>c. \/ c = -1 /\ next = -1
        \/ c # -1 /\ next = st[i] + c + 1
    <3>1. \/ c = -1 /\ next = -1
          \/ c \in 0..(room(i) - 1) /\ next = st[i] + c + 1
      BY <1>8, <2>1
    <3>2. \A x \in 0..(room(i) - 1) : x # -1
      BY <1>7
    <3> HIDE DEF c, next
    <3> QED BY <3>1, <3>2
  <2>d. Short(i) \/ next # -1
    BY <1>12, <2>b
  <2>e. len # -1 /\ p[i] = p[i - 1] + len + 1
    BY <1>7, <2>b
  <2> HIDE DEF c, next, len
  <2>4. next = st[i] + len + 1
    <3>1. c = IF Short(i) THEN len ELSE -1
      BY <2>2 DEF c, len
    <3> HIDE DEF Short
    <3>2. CASE Short(i)
      BY <2>c, <2>e, <3>1, <3>2
    <3>3. CASE ~ Short(i)
      BY <2>c, <2>d, <3>1, <3>3
    <3> QED BY <3>2, <3>3
  <2>5. st[i + 1] = p[i] /\ (i + 1) - 1 = i /\ i + 1 \in 1..11
    BY <2>1, <2>4, <2>e DEF next
  <2> QED BY <2>5
<1>13. ASSUME \A i \in 1..10 : Short(i) \/ st[i + 1] \in Nat
       PROVE  \A i \in 1..10 : Field(buf, i) = s[i] /\ st[i] # -1 /\ st[i + 1] # -1
  <2>1. 1..11 \subseteq G
    <3>1. ASSUME NEW i \in 2..11, i - 1 \in G PROVE i \in G
      <4>1. i - 1 \in 1..10 /\ (i - 1) + 1 = i
        BY <3>1
      <4>2. Short(i - 1) \/ st[(i - 1) + 1] \in Nat
        BY <1>13, <4>1
      <4> HIDE DEF G, Short
      <4>3. (i - 1) + 1 \in G
        BY <1>12, <3>1, <4>1, <4>2
      <4> QED BY <4>1, <4>3
    <3>2. 11 \in Nat
      OBVIOUS
    <3> HIDE DEF G
    <3> QED BY <1>11, <3>1, <3>2, Induction
  <2> SUFFICES ASSUME NEW i \in 1..10
               PROVE  Field(buf, i) = s[i] /\ st[i] # -1 /\ st[i + 1] # -1
    OBVIOUS
  <2>2. st[i] = p[i - 1] /\ st[i + 1] = p[i]
    <3>1. i \in 1..11 /\ i + 1 \in 1..11 /\ (i + 1) - 1 = i
      OBVIOUS
    <3>2. i \in G /\ i + 1 \in G
      BY <2>1, <3>1
    <3> QED BY <3>1, <3>2
  <2>3. st[i + 1] - st[i] - 1 = Len(s[i]) /\ st[i] # -1 /\ st[i + 1] # -1
    <3> DEFINE x == p[i - 1]
               y == Len(s[i])
               z == p[i]
    <3>1. x \in Nat /\ y \in Nat /\ z = x + y + 1 /\ st[i] = x /\ st[i + 1] = z
      BY <1>7, <2>2
    <3> HIDE DEF x, y, z
    <3>2. st[i + 1] - st[i] - 1 = y /\ st[i] # -1 /\ st[i + 1] # -1
      BY <3>1
    <3> QED BY <3>2 DEF y
  <2> QED BY <1>7, <1>10, <2>2, <2>3
<1>14. ASSUME \A f \in ToSet(RequestFields) : Len(d[f]) < Room[f]
       PROVE  Undetermined(buf) = {}
  <2>1. \A i \in 1..10 : Short(i)
    BY <1>1, <1>14, Fields DEF room
  <2>2. \A i \in 1..10 : Field(buf, i) = s[i] /\ st[i] # -1 /\ st[i + 1] # -1
    BY <1>13, <2>1
  <2>3. \A i \in 1..10 : RequestFields[i] \in {"sectors", "vhd"} => IsDigits(Field(buf, i))
    BY <1>1, <2>2, PlainRequestsAssumption
  <2> QED BY <2>2, <2>3 DEF Undetermined, st
<1>15. ASSUME Undetermined(buf) = {} PROVE dysk_def_from_buffer(buf) = d
  <2>1. \A i \in 1..10 : i + 1 \in 1..11
    OBVIOUS
  <2>2. \A i \in 1..10 : Field(buf, i) = s[i]
    BY <1>9, <1>13, <1>15, <2>1
  <2> DEFINE at(f) == CHOOSE i \in 1..10 : RequestFields[i] = f
             text(f) == Field(buf, at(f))
             dd == dysk_def_from_buffer(buf)
  <2>3. dd = [f \in ToSet(RequestFields) |->
                CASE f = "type" -> IF IsPrefix(<<"R", "W">>, text(f)) THEN <<"R", "W">> ELSE <<"R">>
                  [] f = "vhd"  -> SubSeq(text(f), 1, 1)
                  [] OTHER      -> text(f)]
    BY DEF dysk_def_from_buffer
  <2>4. ASSUME NEW f \in ToSet(RequestFields) PROVE text(f) = d[f]
    <3>1. at(f) \in 1..10 /\ RequestFields[at(f)] = f
      BY Fields, Zenon
    <3> HIDE DEF at
    <3> QED BY <1>1, <2>2, <3>1
  <2> HIDE DEF text
  <2>5. ASSUME NEW f \in ToSet(RequestFields) PROVE dd[f] = d[f]
    <3>1. CASE f = "type"
      <4>1. dd[f] = IF IsPrefix(<<"R", "W">>, text(f)) THEN <<"R", "W">> ELSE <<"R">>
        BY <2>3, <3>1
      <4>2. d[f] \in {<<"R">>, <<"R", "W">>}
        BY <3>1, PlainRequestsAssumption
      <4>3. IsPrefix(<<"R", "W">>, <<"R", "W">>) /\ ~ IsPrefix(<<"R", "W">>, <<"R">>)
        BY DEF IsPrefix
      <4> QED BY <2>4, <4>1, <4>2, <4>3
    <3>2. CASE f = "vhd"
      <4> DEFINE v == d[f]
      <4>1. dd[f] = SubSeq(v, 1, 1)
        BY <2>3, <2>4, <3>2
      <4>2. v \in Seq(Cell) /\ Len(v) = 1
        BY <3>2, PlainRequestsAssumption, PlainUnbroken DEF CText
      <4> HIDE DEF v
      <4>3. SubSeq(v, 1, 1) = v
        <5>2. /\ SubSeq(v, 1, 1) \in Seq(Cell) /\ Len(SubSeq(v, 1, 1)) = 1
              /\ \A j \in 1..1 : SubSeq(v, 1, 1)[j] = v[j]
          BY <4>2
        <5> QED BY <4>2, <5>2, SeqEqual
      <4> QED BY <4>1, <4>3 DEF v
    <3>3. CASE f \notin {"type", "vhd"}
      BY <2>3, <2>4, <3>3
    <3> QED BY <3>1, <3>2, <3>3
  <2>6. dd = [f \in ToSet(RequestFields) |-> dd[f]]
    BY <2>3
  <2>7. d = [f \in ToSet(RequestFields) |-> d[f]]
    BY PlainUnbroken
  <2> HIDE DEF dd
  <2>8. dd = d
    BY <2>5, <2>6, <2>7
  <2> QED BY <2>8 DEF dd
<1> QED
  BY <1>14, <1>15 DEF buf, w

\* The module reads the name it was called with.
LEMMA NameRead ==
  ASSUME NEW name \in CText, Unbroken(name), Fits(name \o NL),
         get_until(bufferize(name \o NL), 0, NL, Room["name"]) # -1
  PROVE  NameOf(bufferize(name \o NL)) = name
<1> DEFINE s == <<name>>
           w == name \o NL
           p == [i \in 0..1 |-> IF i = 0 THEN 0 ELSE Len(name) + 1]
           buf == bufferize(w)
           cut == get_until(buf, 0, NL, Room["name"])
<1>1. s \in Seq(CText) /\ Len(s) = 1 /\ s[1] = name /\ \A i \in 1..Len(s) : Unbroken(s[i])
  OBVIOUS
<1>2. /\ w \in CText /\ Len(w) = Len(name) + 1 /\ Len(name) \in Nat
      /\ \A j \in 1..Len(name) : w[j] = name[j]
      /\ w[Len(name) + 1] = "nl"
  <2> DEFINE b == NL
  <2>1. b \in CText /\ Len(b) = 1 /\ b[1] = "nl"
    BY DEF NL, Cell, CText
  <2> HIDE DEF b
  <2>2. /\ name \o b \in CText /\ Len(name \o b) = Len(name) + Len(b) /\ Len(name) \in Nat
        /\ \A j \in 1..Len(name) : (name \o b)[j] = name[j]
        /\ \A j \in 1..Len(b) : (name \o b)[Len(name) + j] = b[j]
    BY <2>1, ConcatText
  <2>3. (name \o b)[Len(name) + 1] = "nl"
    BY <2>1, <2>2
  <2> QED BY <2>1, <2>2, <2>3 DEF b
<1>3. PICK t \in CText : buf = w \o t
  BY <1>2, BufferizeAt
<1> HIDE DEF w, buf
<1>4. p \in [0..1 -> Nat] /\ p[0] = 0 /\ p[1] = Len(name) + 1
  BY <1>2
<1> HIDE DEF p
<1>5. EndsAt(s, p, w) /\ p[Len(s)] = Len(w)
  <2>1. p \in [0..Len(s) -> Nat] /\ p[Len(s)] = Len(w)
    BY <1>1, <1>2, <1>4
  <2>2. ASSUME NEW i \in 1..Len(s)
        PROVE  /\ p[i] = p[i - 1] + Len(s[i]) + 1
               /\ w[p[i]] = "nl"
               /\ \A j \in 1..Len(s[i]) : w[p[i - 1] + j] = s[i][j]
    <3>1. i = 1 /\ i - 1 = 0 /\ s[i] = name
      BY <1>1
    <3>2. p[i] = Len(name) + 1 /\ p[i - 1] = 0 /\ 0 + Len(name) + 1 = Len(name) + 1
          /\ \A j \in 1..Len(name) : 0 + j = j
      BY <1>2, <1>4, <3>1
    <3> HIDE DEF s
    <3> QED BY <1>2, <3>1, <3>2
  <2> HIDE DEF s
  <2> QED BY <1>4, <2>1, <2>2 DEF EndsAt
<1> HIDE DEF s
<1>6. /\ cut = IF Len(name) < Room["name"] THEN Len(name) ELSE -1
      /\ Line(buf, 0, Len(name)) = name
  <2>1. Room["name"] \in Nat /\ 1 \in 1..Len(s) /\ p[1 - 1] = 0
    BY <1>1, <1>4, Fields, CodecParametersAssumption
  <2>2. Cuts(w \o t, p[1 - 1], s[1], Room["name"])
    BY <1>1, <1>2, <1>5, <2>1, CutAt
  <2> QED BY <1>1, <1>3, <2>1, <2>2 DEF Cuts
<1>7. cut = Len(name)
  <2>1. cut # -1
    BY DEF buf, w
  <2> QED BY <1>6, <2>1
<1>8. NameOf(buf) = Line(buf, 0, cut)
  BY DEF NameOf
<1>9. NameOf(buf) = name
  BY <1>6, <1>7, <1>8
<1> QED
  BY <1>9 DEF buf, w

\* The calls carry what the client was asked, the dysks what was asked for.
PlainInv ==
  /\ \A i \in DOMAIN dysks :
       /\ AsAsked(dysks[i].def) = dysks[i].asked
       /\ \A f \in ToSet(ReplyFields) : Unbroken(dysks[i].def[f])
  /\ \A i \in DOMAIN names : Unbroken(names[i])
  /\ (call.op = "mount" /\ call.at = "module")
       => Fits(dysk2string(call.of)) /\ buffer = bufferize(dysk2string(call.of))
  /\ (call.op = "get" /\ call.at = "module")
       => /\ call.of \in CText /\ Unbroken(call.of) /\ Fits(call.of \o NL)
          /\ buffer = bufferize(call.of \o NL)

\* It holds at first.
LEMMA PlainInitially == CodecInit => PlainInv
BY DEF CodecInit, PlainInv, Idle

\* What is mounted is what was asked for.
LEMMA MountedAsAsked ==
  ASSUME CodecInv, PlainInv, InModule("mount"), Undetermined(buffer) = {}, FreeMinors # {}
  PROVE  /\ call.of \in Wanted
         /\ Mounted \in [ToSet(ReplyFields) -> CText]
         /\ \A f \in ToSet(RequestFields) : Mounted[f] = call.of[f]
         /\ AsAsked(Mounted) = call.of
         /\ \A f \in ToSet(ReplyFields) : Unbroken(Mounted[f])
<1>1. call.of \in Wanted /\ Fits(dysk2string(call.of)) /\ buffer = bufferize(dysk2string(call.of))
  BY DEF CodecInv, CallInv, PlainInv, InModule
<1>2. dysk_def_from_buffer(buffer) = call.of
  BY <1>1, RequestRead
<1>3. /\ Mounted \in [ToSet(ReplyFields) -> CText]
      /\ \A f \in ToSet(RequestFields) : Mounted[f] = call.of[f]
  BY <1>2, MountedType
<1>4. AsAsked(Mounted) = call.of
  <2>1. call.of = [f \in ToSet(RequestFields) |-> call.of[f]]
    BY <1>1, PlainUnbroken
  <2>2. AsAsked(Mounted) = [f \in ToSet(RequestFields) |-> Mounted[f]]
    BY DEF AsAsked
  <2> QED BY <1>3, <2>1, <2>2
<1>5. ASSUME NEW f \in ToSet(ReplyFields) PROVE Unbroken(Mounted[f])
  <2>1. CASE f \in ToSet(RequestFields)
    BY <1>1, <1>3, <2>1, PlainUnbroken
  <2>2. CASE f = "major"
    <3>1. Mounted[f] = <<"9">>
      BY <2>2 DEF Mounted
    <3>2. \A i \in DOMAIN <<"9">> : <<"9">>[i] = "9"
      OBVIOUS
    <3> QED BY <3>1, <3>2 DEF Unbroken
  <2>3. CASE f = "minor"
    <3> DEFINE k == CHOOSE k \in FreeMinors : \A j \in FreeMinors : k <= j
    <3>1. Mounted[f] = Minors[k]
      BY <2>3 DEF Mounted
    <3>2. k \in FreeMinors
      <4>1. FreeMinors \subseteq Nat
        BY CodecParametersAssumption DEF FreeMinors
      <4>2. \E x \in FreeMinors : \A j \in FreeMinors : x <= j
        BY <4>1, LeastNatural, Zenon
      <4> QED BY <4>2, Zenon
    <3> HIDE DEF k
    <3>3. Minors[k] \in ToSet(Minors)
      BY <3>2 DEF FreeMinors, ToSet
    <3> QED BY <3>1, <3>3, PlainUnbroken
  <2> QED BY <2>1, <2>2, <2>3, Fields
<1> QED
  BY <1>1, <1>3, <1>4, <1>5

\* The names List has still to get.
LEMMA NamesChange ==
  ASSUME CodecInv, PlainInv, [CodecNext]_codecVars
  PROVE  \A i \in DOMAIN names' : Unbroken(names'[i])
<1>1. CASE UNCHANGED names \/ names' = <<>>
  BY <1>1 DEF PlainInv
<1>2. CASE GetNext
  <2>1. names # <<>> /\ names \in Seq(CText) /\ names' = Tail(names)
    BY <1>2 DEF GetNext, CodecInv, CallInv, NamesInv
  <2>2. \A i \in DOMAIN names' : i + 1 \in DOMAIN names /\ names'[i] = names[i + 1]
    BY <2>1
  <2> QED BY <2>2 DEF PlainInv
<1>3. CASE ListReturns
  <2> DEFINE text == parseResponse(buffer).response
             split == SplitLines(text)
  <2>1. names' = Front(split) /\ Opens(buffer)
    BY <1>3 DEF ListReturns, Returns, CodecInv, CallInv, Asks
  <2>2. text \in CText
    BY <2>1, ParsedReply
  <2> HIDE DEF text
  <2>3. split \in Seq(CText) /\ Len(split) > 0 /\ \A k \in DOMAIN split : Unbroken(split[k])
    BY <2>2, SplitLinesType
  <2> HIDE DEF split
  <2>4. \A i \in DOMAIN Front(split) : i \in DOMAIN split /\ Front(split)[i] = split[i]
    <3>1. Front(split) = SubSeq(split, 1, Len(split) - 1)
      BY DEF Front
    <3>2. \A i \in 1..(Len(split) - 1) : split[i] \in CText
      BY <2>3
    <3>3. /\ Front(split) \in Seq(CText)
          /\ Len(Front(split)) = IF 1 <= Len(split) - 1 THEN Len(split) - 1 - 1 + 1 ELSE 0
          /\ \A i \in 1..(Len(split) - 1 - 1 + 1) : Front(split)[i] = split[1 + i - 1]
      BY <2>3, <3>1, <3>2, SubSeqProperties
    <3> QED BY <2>3, <3>3
  <2> QED BY <2>1, <2>3, <2>4
<1>4. CASE UNCHANGED codecVars \/ Catastrophe \/ CallMount \/ CallByName \/ CallList
  <2>1. UNCHANGED names \/ names' = <<>>
    BY <1>4 DEF codecVars, Catastrophe, CallMount, CallByName, CallList
  <2> QED BY <1>1, <2>1
<1>5. CASE CallFails \/ DyskReturns \/ UnmountReturns
  <2>1. UNCHANGED names \/ names' = <<>>
    BY <1>5 DEF CallFails, Failed, DyskReturns, UnmountReturns
  <2> QED BY <1>1, <2>1
<1>6. CASE NoMemory \/ NameTooLong
  <2>1. UNCHANGED names \/ names' = <<>>
    BY <1>6 DEF NoMemory, NameTooLong, Errno
  <2> QED BY <1>1, <2>1
<1>7. ASSUME NEW out, Reply(out) PROVE UNCHANGED names
  BY <1>7 DEF Reply
<1>8. CASE MountRefused \/ MountFails \/ MountAccepted
  <2>1. UNCHANGED names
    BY <1>7, <1>8 DEF MountRefused, MountFails, MountAccepted
  <2> QED BY <1>1, <2>1
<1>9. CASE NoSuchDysk \/ NotDeleted \/ DyskUnmount \/ DyskGet \/ DyskList
  <2>1. UNCHANGED names
    BY <1>7, <1>9 DEF NoSuchDysk, NotDeleted, DyskUnmount, DyskGet, DyskList
  <2> QED BY <1>1, <2>1
<1> QED
  BY <1>2, <1>3, <1>4, <1>5, <1>6, <1>8, <1>9 DEF CodecNext, ClientStep, ModuleStep

\* Each step keeps it.
LEMMA PlainStep == CodecInv /\ PlainInv /\ [CodecNext]_codecVars => PlainInv'
<1> SUFFICES ASSUME CodecInv, PlainInv, [CodecNext]_codecVars PROVE PlainInv'
  OBVIOUS
<1> DEFINE Good(l) == /\ AsAsked(l.def) = l.asked
                      /\ \A f \in ToSet(ReplyFields) : Unbroken(l.def[f])
<1>1. \A i \in DOMAIN dysks' : Good(dysks'[i])
  <2>0. \A i \in DOMAIN dysks : Good(dysks[i])
    BY DEF PlainInv
  <2>1. CASE UNCHANGED dysks
    <3> HIDE DEF Good
    <3> QED BY <2>0, <2>1
  <2>2. CASE \E k \in DOMAIN dysks : dysks' = RemoveAt(dysks, k)
    <3>1. \A i \in DOMAIN dysks' : \E j \in DOMAIN dysks : dysks'[i] = dysks[j]
      BY <2>2, RemoveAtKeeps DEF CodecInv
    <3> HIDE DEF Good
    <3> QED BY <2>0, <3>1
  <2>3. CASE /\ InModule("mount") /\ Undetermined(buffer) = {} /\ FreeMinors # {}
             /\ dysks' = <<[def |-> Mounted, asked |-> call.of]>> \o dysks
    <3> DEFINE new == [def |-> Mounted, asked |-> call.of]
    <3>1. /\ call.of \in Wanted /\ Mounted \in [ToSet(ReplyFields) -> CText]
          /\ AsAsked(Mounted) = call.of /\ \A f \in ToSet(ReplyFields) : Unbroken(Mounted[f])
      BY <2>3, MountedAsAsked
    <3>2. new \in Listing /\ Good(new)
      BY <3>1 DEF Listing
    <3> HIDE DEF new, Good
    <3>3. \A i \in DOMAIN dysks' : dysks'[i] = new \/ \E j \in DOMAIN dysks : dysks'[i] = dysks[j]
      BY <2>3, <3>2, MountedFirst DEF CodecInv, new
    <3> QED BY <2>0, <3>2, <3>3
  <2> QED BY <2>1, <2>2, <2>3, DysksChange
<1>2. \A i \in DOMAIN names' : Unbroken(names'[i])
  BY NamesChange
<1>3. ASSUME call'.op = "mount", call'.at = "module"
      PROVE  Fits(dysk2string(call'.of)) /\ buffer' = bufferize(dysk2string(call'.of))
  <2>1. CASE call' = call /\ buffer' = buffer
    BY <1>3, <2>1 DEF PlainInv
  <2>3. CASE \E d \in Wanted : Fits(dysk2string(d)) /\ Call("mount", d, dysk2string(d))
    BY <2>3 DEF Call
  <2>4. CASE \/ \E op \in {"unmount", "get"}, name \in Names :
                  Fits(name \o NL) /\ Call(op, name, name \o NL)
             \/ Call("list", <<>>, <<"-">>)
             \/ names # <<>> /\ Call("get", Head(names), Head(names) \o NL)
    BY <1>3, <2>4 DEF Call
  <2> QED BY <1>3, <2>1, <2>3, <2>4, CallsChange
<1>4. ASSUME call'.op = "get", call'.at = "module"
      PROVE  /\ call'.of \in CText /\ Unbroken(call'.of) /\ Fits(call'.of \o NL)
             /\ buffer' = bufferize(call'.of \o NL)
  <2>1. CASE call' = call /\ buffer' = buffer
    BY <1>4, <2>1 DEF PlainInv
  <2>3. CASE \E d \in Wanted : Fits(dysk2string(d)) /\ Call("mount", d, dysk2string(d))
    BY <1>4, <2>3 DEF Call
  <2>4. CASE \E op \in {"unmount", "get"}, name \in Names :
               Fits(name \o NL) /\ Call(op, name, name \o NL)
    <3>1. PICK op \in {"unmount", "get"}, name \in Names :
            Fits(name \o NL) /\ Call(op, name, name \o NL)
      BY <2>4
    <3>2. name \in CText /\ Unbroken(name)
      BY PlainUnbroken
    <3> QED BY <3>1, <3>2 DEF Call
  <2>5. CASE Call("list", <<>>, <<"-">>)
    BY <1>4, <2>5 DEF Call
  <2>6. CASE names # <<>> /\ Call("get", Head(names), Head(names) \o NL)
    <3>1. names \in Seq(CText) /\ \A i \in DOMAIN names : Fits(names[i] \o NL) /\ Unbroken(names[i])
      BY DEF CodecInv, NamesInv, PlainInv
    <3>2. 1 \in DOMAIN names /\ Head(names) = names[1] /\ names[1] \in CText
      BY <2>6, <3>1
    <3> QED BY <2>6, <3>1, <3>2 DEF Call
  <2> QED BY <1>4, <2>1, <2>3, <2>4, <2>5, <2>6, CallsChange
<1> QED
  BY <1>1, <1>2, <1>3, <1>4 DEF PlainInv

\* The reply that says what a dysk is.
LEMMA DyskRead ==
  ASSUME CodecInv, NEW d \in [ToSet(ReplyFields) -> CText],
         \A f \in ToSet(ReplyFields) : Unbroken(d[f]),
         Reply(OK \o dysk_def_to_buffer(d)), call'.at = "client"
  PROVE  /\ ~ parseResponse(buffer').is_error
         /\ AsAsked(string2dysk(parseResponse(buffer').response)) = AsAsked(d)
<1> DEFINE s == [i \in 1..12 |-> d[ReplyFields[i]]]
<1>1. /\ Len(s) = 12 /\ s \in Seq(CText)
      /\ \A i \in 1..12 : s[i] = d[ReplyFields[i]]
      /\ \A i \in 1..Len(s) : Unbroken(s[i])
  <2>1. \A i \in 1..12 : ReplyFields[i] \in ToSet(ReplyFields)
    BY Fields
  <2>2. \A i \in 1..12 : d[ReplyFields[i]] \in CText /\ Unbroken(d[ReplyFields[i]])
    BY <2>1
  <2> QED BY <2>2
<1>2. dysk_def_to_buffer(d) = WithBreaks(s)
  <2>1. [i \in 1..Len(ReplyFields) |-> d[ReplyFields[i]] \o NL] = [i \in 1..Len(s) |-> s[i] \o NL]
    BY <1>1, Fields
  <2> QED BY <2>1 DEF dysk_def_to_buffer, Lines, WithBreaks
<1> HIDE DEF s
<1> DEFINE old == buffer
           new == buffer'
<1>3. Reads(new, s)
  <2> DEFINE out == OK \o WithBreaks(s)
  <2>1. Reply(out)
    BY <1>2
  <2>2. old \in CText /\ Len(old) = MAX_IN_OUT /\ Fits(out)
        /\ new = out \o SubSeq(old, Len(out) + 1, MAX_IN_OUT)
    <3>1. out \in CText
      <4>1. WithBreaks(s) \in CText /\ OK \in CText
        BY <1>1, PlacesOfLines, OpensWith DEF Opens
      <4> QED BY <4>1, ConcatText
    <3> HIDE DEF out
    <3> QED BY <2>1, <3>1, ReplyFits, RoomForZero DEF CodecInv, BufferInv
  <2> HIDE DEF old, new
  <2> QED BY <1>1, <2>2, ReadsReply
<1> DEFINE split == SplitLines(parseResponse(new).response)
           read == string2dysk(parseResponse(new).response)
<1>4. ~ parseResponse(new).is_error /\ \A k \in 1..12 : split[k] = d[ReplyFields[k]]
  BY <1>1, <1>3 DEF Reads
<1>5. read = [type |-> split[1], name |-> split[2], sectors |-> split[3], account |-> split[4],
              sas |-> split[5], path |-> split[6], host |-> split[7], ip |-> split[8],
              lease |-> split[9], major |-> split[10], minor |-> split[11], vhd |-> split[12]]
  BY DEF string2dysk
<1> HIDE DEF split, read, new
<1>6. /\ split[1] = d["type"] /\ split[2] = d["name"] /\ split[3] = d["sectors"]
      /\ split[4] = d["account"] /\ split[5] = d["sas"] /\ split[6] = d["path"]
      /\ split[7] = d["host"] /\ split[8] = d["ip"] /\ split[9] = d["lease"]
      /\ split[12] = d["vhd"]
  <2>1. /\ ReplyFields[1] = "type" /\ ReplyFields[2] = "name" /\ ReplyFields[3] = "sectors"
        /\ ReplyFields[4] = "account" /\ ReplyFields[5] = "sas" /\ ReplyFields[6] = "path"
        /\ ReplyFields[7] = "host" /\ ReplyFields[8] = "ip" /\ ReplyFields[9] = "lease"
        /\ ReplyFields[12] = "vhd"
    BY ReplyFieldsAre
  <2>2. \A k \in {1, 2, 3, 4, 5, 6, 7, 8, 9, 12} : k \in 1..12
    OBVIOUS
  <2> QED BY <1>4, <2>1, <2>2
<1>7. ASSUME NEW f \in ToSet(RequestFields) PROVE read[f] = d[f]
  <2>1. f \in {"type", "name", "sectors", "account", "sas", "path", "host", "ip", "lease", "vhd"}
    BY Fields
  <2> QED BY <1>5, <1>6, <2>1
<1>8. AsAsked(read) = AsAsked(d)
  BY <1>7 DEF AsAsked
<1> QED
  BY <1>4, <1>8 DEF read, new

\* A reply that is an error.
OpensErr(out) == Opens(out) /\ out[1] = "ERR"

\* ERR opens one, whatever follows.
LEMMA OpensErrWith ==
  /\ OpensErr(ERR)
  /\ \A a, x : OpensErr(a) /\ x \in CText => OpensErr(a \o x)
<1>1. OpensErr(ERR)
  BY OpensWith DEF OpensErr, ERR
<1>2. ASSUME NEW a, NEW x, OpensErr(a), x \in CText PROVE OpensErr(a \o x)
  <2>1. a \in CText /\ Len(a) >= 2 /\ a[1] = "ERR" /\ Opens(a \o x)
    BY <1>2, OpensWith DEF OpensErr, Opens
  <2>2. Len(a) \in Nat /\ \A j \in 1..Len(a) : (a \o x)[j] = a[j]
    BY <1>2, <2>1, ConcatText
  <2>3. 1 \in 1..Len(a)
    BY <2>1, <2>2
  <2> QED BY <2>1, <2>2, <2>3 DEF OpensErr
<1> QED
  BY <1>1, <1>2

\* The client takes it for an error, and the message is what is behind its first line.
LEMMA ErrorRead ==
  ASSUME CodecInv, NEW out, OpensErr(out), Reply(out), call'.at = "client"
  PROVE  /\ parseResponse(buffer').is_error
         /\ said' = SubSeq(out, 3, Len(out))
<1> DEFINE rest == SubSeq(buffer, Len(out) + 1, MAX_IN_OUT)
           new == out \o rest
<1>1. out \in CText /\ Opens(out) /\ Len(out) \in Nat
  BY DEF OpensErr, Opens, CText
<1>2. /\ buffer' = new /\ said' = SubSeq(out, FirstBreak(out) + 1, Len(out))
      /\ Len(out) <= MAX_IN_OUT /\ buffer \in CText /\ Len(buffer) = MAX_IN_OUT
  BY <1>1, ReplyFits, RoomForZero DEF CodecInv, BufferInv
<1>3. rest \in CText
  <2> DEFINE a == Len(out) + 1
             b == MAX_IN_OUT
  <2>1. a \in Int /\ b \in Int /\ \A j \in a..b : buffer[j] \in Cell
    <3>1. a \in Nat /\ a >= 1 /\ b \in Nat /\ b = Len(buffer)
      BY <1>1, <1>2, CodecParametersAssumption
    <3>2. \A j \in a..b : j \in 1..Len(buffer)
      BY <3>1
    <3> HIDE DEF a, b
    <3> QED BY <1>2, <3>1, <3>2 DEF CText
  <2> HIDE DEF a, b
  <2>2. SubSeq(buffer, a, b) \in Seq(Cell)
    BY <2>1, SubSeqProperties
  <2> QED BY <2>2 DEF CText, a, b
<1> HIDE DEF rest
<1>4. OpensErr(new)
  BY <1>3, OpensErrWith
<1> HIDE DEF new
<1>5. parseResponse(new).is_error
  BY <1>4, ParsedReply DEF OpensErr
<1>6. FirstBreak(out) = 2
  BY <1>1, ParsedReply
<1>7. said' = SubSeq(out, 3, Len(out))
  BY <1>2, <1>6
<1>8. parseResponse(buffer').is_error
  BY <1>2, <1>5
<1> QED
  BY <1>7, <1>8

\* Which steps answer a call for a mount, or for a dysk.
LEMMA MountReplies ==
  ASSUME CodecInv, [CodecNext]_codecVars, Replied("mount")
  PROVE  MountRefused \/ MountFails \/ MountAccepted
<1>1. call.op = "mount" /\ call.at = "module" /\ call'.op = "mount" /\ call'.at = "client"
  BY DEF Replied, InModule
<1>2. ~ UNCHANGED codecVars /\ ~ Catastrophe
  BY <1>1 DEF codecVars, Catastrophe
<1>3. ~ (CallMount \/ CallByName \/ CallList \/ GetNext)
  BY <1>1 DEF CallMount, CallByName, CallList, GetNext, Idle
<1>4. ~ (CallFails \/ DyskReturns \/ UnmountReturns \/ ListReturns)
  BY <1>1 DEF CallFails, DyskReturns, UnmountReturns, ListReturns, Returns
<1>5. ~ (NoMemory \/ NameTooLong)
  BY <1>1 DEF NoMemory, NameTooLong, Errno, Idle
<1>7. ~ (NoSuchDysk \/ NotDeleted \/ DyskUnmount \/ DyskGet \/ DyskList)
  BY <1>1 DEF NoSuchDysk, NotDeleted, DyskUnmount, DyskGet, DyskList, InModule
<1> QED
  BY <1>2, <1>3, <1>4, <1>5, <1>7 DEF CodecNext, ClientStep, ModuleStep

\* What answers a get.
LEMMA GetReplies ==
  ASSUME CodecInv, [CodecNext]_codecVars, Replied("get")
  PROVE  NoSuchDysk \/ DyskGet
<1>1. call.op = "get" /\ call.at = "module" /\ call'.op = "get" /\ call'.at = "client"
  BY DEF Replied, InModule
<1>2. ~ UNCHANGED codecVars /\ ~ Catastrophe
  BY <1>1 DEF codecVars, Catastrophe
<1>3. ~ (CallMount \/ CallByName \/ CallList \/ GetNext)
  BY <1>1 DEF CallMount, CallByName, CallList, GetNext, Idle
<1>4. ~ (CallFails \/ DyskReturns \/ UnmountReturns \/ ListReturns)
  BY <1>1 DEF CallFails, DyskReturns, UnmountReturns, ListReturns, Returns
<1>5. ~ (NoMemory \/ NameTooLong)
  BY <1>1 DEF NoMemory, NameTooLong, Errno, Idle
<1>6. ~ (MountRefused \/ MountFails \/ MountAccepted)
  BY <1>1 DEF MountRefused, MountFails, MountAccepted, InModule
<1>7. ~ (NotDeleted \/ DyskUnmount \/ DyskList)
  BY <1>1 DEF NotDeleted, DyskUnmount, DyskList, InModule
<1> QED
  BY <1>2, <1>3, <1>4, <1>5, <1>6, <1>7 DEF CodecNext, ClientStep, ModuleStep

\* What the messages of a refusal add to the first line.
LEMMA Messages ==
  /\ <<"Failed", "mount">> \in CText /\ <<"errno">> \in CText
  /\ <<"Failed", "to">> \in CText /\ <<"no", "such">> \in CText
  /\ \A i \in 1..10 : <<"Cannot", RequestFields[i]>> \in CText
<1>1. <<"Failed", "mount">> \in CText /\ <<"errno">> \in CText
      /\ <<"Failed", "to">> \in CText /\ <<"no", "such">> \in CText
  BY DEF CText, Cell
<1>2. ASSUME NEW i \in 1..10 PROVE <<"Cannot", RequestFields[i]>> \in CText
  <2>1. RequestFields[i] \in Cell /\ "Cannot" \in Cell
    BY Fields DEF Cell
  <2> QED BY <2>1 DEF CText
<1> QED
  BY <1>1, <1>2

\* A refusal is read as one.
LEMMA RefusalRead ==
  ASSUME CodecInv, MountRefused \/ MountFails, call'.at = "client"
  PROVE  parseResponse(buffer').is_error
<1> DEFINE name == dysk_def_from_buffer(buffer).name
<1>1. Undetermined(buffer) = {} => name \in CText
  BY DefFromBuffer, Fields DEF CodecInv, BufferInv
<1>2. ASSUME Undetermined(buffer) = {}, Reply(Exists(name)) PROVE parseResponse(buffer').is_error
  <2> HIDE DEF name
  <2>1. OpensErr(Exists(name))
    BY <1>1, <1>2, OpensErrWith, Messages DEF Exists
  <2> QED BY <1>2, <2>1, ErrorRead
<1>3. ASSUME Undetermined(buffer) = {}, Reply(NotAdded(name)) PROVE parseResponse(buffer').is_error
  <2> HIDE DEF name
  <2>1. OpensErr(NotAdded(name))
    BY <1>1, <1>3, OpensErrWith, Messages DEF NotAdded
  <2> QED BY <1>3, <2>1, ErrorRead
<1>4. CASE MountFails
  BY <1>3, <1>4 DEF MountFails
<1>5. CASE MountRefused
  <2>1. CASE Undetermined(buffer) = {}
    BY <1>2, <1>5, <2>1 DEF MountRefused
  <2>2. CASE Undetermined(buffer) # {}
    <3> DEFINE i == CHOOSE i \in Undetermined(buffer) : \A j \in Undetermined(buffer) : i <= j
    <3>1. i \in 1..10
      <4>1. Undetermined(buffer) \subseteq 1..10
        BY DEF Undetermined
      <4>2. Undetermined(buffer) \subseteq Nat
        BY <4>1
      <4>3. \E k \in Undetermined(buffer) : \A j \in Undetermined(buffer) : k <= j
        BY <2>2, <4>2, LeastNatural, Zenon
      <4> QED BY <4>1, <4>3, Zenon
    <3>2. Reply(Cannot(i))
      BY <1>5, <2>2 DEF MountRefused
    <3> HIDE DEF i
    <3>3. OpensErr(Cannot(i))
      BY <3>1, OpensErrWith, Messages DEF Cannot
    <3> QED BY <3>2, <3>3, ErrorRead
  <2> QED BY <2>1, <2>2
<1> QED
  BY <1>4, <1>5

\* A reply without an error is read as the dysk that was asked for.
LEMMA AnswerStep ==
  ASSUME CodecInv, PlainInv, [CodecNext]_codecVars, Replied("mount") \/ Replied("get"),
         ~ parseResponse(buffer').is_error
  PROVE  LET read == AsAsked(string2dysk(parseResponse(buffer').response)) IN
         IF call.op = "mount" THEN read = call.of
         ELSE \E i \in DOMAIN dysks : dysks[i].asked = read /\ read.name = call.of
<1> DEFINE read == AsAsked(string2dysk(parseResponse(buffer').response))
<1>1. CASE Replied("mount")
  <2>1. MountAccepted
    BY <1>1, MountReplies, RefusalRead DEF Replied
  <2>2. /\ InModule("mount") /\ FreeMinors # {} /\ Undetermined(buffer) = {}
        /\ Reply(OK \o dysk_def_to_buffer(Mounted))
    BY <2>1 DEF MountAccepted
  <2>3. /\ Mounted \in [ToSet(ReplyFields) -> CText] /\ AsAsked(Mounted) = call.of
        /\ \A f \in ToSet(ReplyFields) : Unbroken(Mounted[f])
    BY <2>2, MountedAsAsked
  <2>4. read = AsAsked(Mounted)
    BY <1>1, <2>2, <2>3, DyskRead DEF Replied
  <2> QED BY <2>2, <2>3, <2>4 DEF InModule
<1>2. CASE Replied("get")
  <2>0. NameOf(buffer) \in CText
    BY NameOfType DEF CodecInv, BufferInv
  <2>1. ~ NoSuchDysk
    <3>1. OpensErr(Unknown(NameOf(buffer)))
      BY <2>0, OpensErrWith, Messages DEF Unknown
    <3> QED BY <1>2, <3>1, ErrorRead DEF NoSuchDysk, Replied
  <2>2. DyskGet
    BY <1>2, <2>1, GetReplies
  <2>3. PICK i \in dysk_exist(NameOf(buffer)) : Reply(OK \o dysk_def_to_buffer(dysks[i].def))
    BY <2>2 DEF DyskGet
  <2>4. i \in DOMAIN dysks /\ dysks[i].def.name = NameOf(buffer)
    BY <2>3 DEF dysk_exist
  <2>5. /\ dysks[i].def \in [ToSet(ReplyFields) -> CText]
        /\ AsAsked(dysks[i].def) = dysks[i].asked
        /\ \A f \in ToSet(ReplyFields) : Unbroken(dysks[i].def[f])
    <3>1. dysks[i] \in Listing
      BY <2>4 DEF CodecInv, DysksInv
    <3> QED BY <2>4, <3>1 DEF Listing, PlainInv
  <2>6. read = AsAsked(dysks[i].def)
    BY <1>2, <2>3, <2>5, DyskRead DEF Replied
  <2>7. NameOf(buffer) = call.of
    <3>1. /\ call.of \in CText /\ Unbroken(call.of) /\ Fits(call.of \o NL)
          /\ buffer = bufferize(call.of \o NL)
      BY <1>2 DEF PlainInv, Replied, InModule
    <3>2. get_until(buffer, 0, NL, Room["name"]) # -1
      BY <2>2 DEF DyskGet
    <3> QED BY <3>1, <3>2, NameRead
  <2>8. AsAsked(dysks[i].def).name = dysks[i].def.name
    <3>1. "name" \in ToSet(RequestFields)
      BY Fields
    <3> QED BY <3>1 DEF AsAsked
  <2>9. dysks[i].asked = read /\ read.name = call.of /\ call.op # "mount"
    BY <1>2, <2>4, <2>5, <2>6, <2>7, <2>8 DEF Replied, InModule
  <2> HIDE DEF read
  <2>10. IF call.op = "mount" THEN read = call.of
         ELSE \E k \in DOMAIN dysks : dysks[k].asked = read /\ read.name = call.of
    BY <2>4, <2>9
  <2> QED BY <2>10 DEF read
<1> QED
  BY <1>1, <1>2

\* The text of the kernel's refusal ends with its number.
LEMMA NotAddedSays ==
  ASSUME NEW name \in CText
  PROVE  /\ OpensErr(NotAdded(name))
         /\ "errno" \in ToSet(SubSeq(NotAdded(name), 3, Len(NotAdded(name))))
<1> DEFINE a == ERR \o <<"Failed", "mount">> \o name
           b == <<"errno">>
           out == a \o b
           n == Len(out)
<1>1. OpensErr(a) /\ NotAdded(name) = out
  BY OpensErrWith, Messages DEF NotAdded
<1>2. OpensErr(out)
  BY <1>1, OpensErrWith, Messages
<1>3. a \in CText /\ Len(a) >= 2 /\ b \in CText /\ Len(b) = 1 /\ b[1] = "errno"
  BY <1>1, Messages DEF OpensErr, Opens
<1> HIDE DEF a, b
<1>4. /\ out \in CText /\ n = Len(a) + Len(b) /\ Len(a) \in Nat
      /\ \A j \in 1..Len(b) : out[Len(a) + j] = b[j]
  BY <1>3, ConcatText
<1>5. n \in Nat /\ n >= 3 /\ out[n] = "errno"
  <2>1. 1 \in 1..Len(b) /\ n = Len(a) + 1
    BY <1>3, <1>4
  <2> HIDE DEF n, out
  <2>2. out[Len(a) + 1] = "errno"
    BY <1>3, <1>4, <2>1
  <2> QED BY <1>3, <1>4, <2>1, <2>2
<1> HIDE DEF out
<1>6. SubSeq(out, 3, n)[n - 2] = "errno" /\ n - 2 \in DOMAIN SubSeq(out, 3, n)
  <2>1. \A j \in 3..n : out[j] \in Cell
    BY <1>4, <1>5 DEF CText
  <2>2. /\ SubSeq(out, 3, n) \in Seq(Cell)
        /\ Len(SubSeq(out, 3, n)) = IF 3 <= n THEN n - 3 + 1 ELSE 0
        /\ \A i \in 1..(n - 3 + 1) : SubSeq(out, 3, n)[i] = out[3 + i - 1]
    <3> HIDE DEF n
    <3> QED BY <1>5, <2>1, SubSeqProperties
  <2>3. n - 2 \in 1..(n - 3 + 1) /\ 3 + (n - 2) - 1 = n
    <3> HIDE DEF n
    <3> QED BY <1>5
  <2> HIDE DEF n
  <2>4. SubSeq(out, 3, n)[n - 2] = out[n]
    BY <2>2, <2>3
  <2>5. n - 2 \in 1..Len(SubSeq(out, 3, n))
    BY <1>5, <2>2, <2>3
  <2> QED BY <1>5, <2>2, <2>4, <2>5
<1>7. "errno" \in ToSet(SubSeq(out, 3, n))
  BY <1>6 DEF ToSet
<1> QED
  BY <1>1, <1>2, <1>7 DEF n

\* A reply with an error to a mount has one of the three reasons.
LEMMA RefusalStep ==
  ASSUME CodecInv, PlainInv, [CodecNext]_codecVars, Replied("mount"),
         parseResponse(buffer').is_error
  PROVE  \/ \E i \in DOMAIN dysks : dysks[i].def.name = call.of.name
         \/ "errno" \in ToSet(said')
         \/ \E f \in ToSet(RequestFields) : Len(call.of[f]) >= Room[f]
<1>0. /\ InModule("mount") /\ call.of \in Wanted /\ Fits(dysk2string(call.of))
      /\ buffer = bufferize(dysk2string(call.of))
  BY DEF Replied, InModule, CodecInv, CallInv, PlainInv
<1>1. CASE MountRefused
  <2>1. CASE Undetermined(buffer) # {}
    <3>1. PICK f \in ToSet(RequestFields) : ~ (Len(call.of[f]) < Room[f])
      BY <1>0, <2>1, RequestRead
    <3>2. Len(call.of[f]) \in Nat /\ Room[f] \in Nat
      BY <1>0, PlainUnbroken, CodecParametersAssumption DEF CText
    <3> QED BY <3>1, <3>2
  <2>2. CASE Undetermined(buffer) = {}
    <3>1. dysk_def_from_buffer(buffer) = call.of
      BY <1>0, <2>2, RequestRead
    <3>2. dysk_exist(call.of.name) # {}
      BY <1>1, <2>2, <3>1 DEF MountRefused
    <3> QED BY <3>2 DEF dysk_exist
  <2> QED BY <2>1, <2>2
<1>2. CASE MountFails
  <2> DEFINE name == dysk_def_from_buffer(buffer).name
  <2>1. Undetermined(buffer) = {} /\ Reply(NotAdded(name))
    BY <1>2 DEF MountFails
  <2>2. name \in CText
    BY <2>1, DefFromBuffer, Fields DEF CodecInv, BufferInv
  <2> HIDE DEF name
  <2>3. said' = SubSeq(NotAdded(name), 3, Len(NotAdded(name)))
    BY <2>1, <2>2, NotAddedSays, ErrorRead DEF Replied
  <2> QED BY <2>2, <2>3, NotAddedSays
<1>3. CASE MountAccepted
  <2>1. /\ FreeMinors # {} /\ Undetermined(buffer) = {}
        /\ Reply(OK \o dysk_def_to_buffer(Mounted))
    BY <1>3 DEF MountAccepted
  <2>2. /\ Mounted \in [ToSet(ReplyFields) -> CText]
        /\ \A f \in ToSet(ReplyFields) : Unbroken(Mounted[f])
    BY <1>0, <2>1, MountedAsAsked
  <2> QED BY <2>1, <2>2, DyskRead DEF Replied
<1> QED
  BY <1>1, <1>2, <1>3, MountReplies

\* What the client reads as the dysk it mounted or asked for is in every field
\* the one a user asked for by that name, for all texts without a line feed
\* (dysk2string, dysk_def_from_buffer, dysk_def_to_buffer, string2dysk).
THEOREM AnswersCorrect == CodecSpec => AnswersAsAsked
<1>1. CodecInit => CodecInv /\ PlainInv
  BY CodecInitially, PlainInitially
<1>2. CodecInv /\ PlainInv /\ [CodecNext]_codecVars => (CodecInv /\ PlainInv)'
  BY CodecStep, PlainStep
<1> DEFINE A == ((Replied("mount") \/ Replied("get")) /\ ~parseResponse(buffer').is_error)
                  => LET read == AsAsked(string2dysk(parseResponse(buffer').response)) IN
                     IF call.op = "mount" THEN read = call.of
                     ELSE \E i \in DOMAIN dysks : dysks[i].asked = read /\ read.name = call.of
<1>3. CodecInv /\ PlainInv /\ [CodecNext]_codecVars => A
  BY AnswerStep
<1>4. AnswersAsAsked <=> [][A]_codecVars
  BY DEF AnswersAsAsked
<1> HIDE DEF A
<1> QED
  BY <1>1, <1>2, <1>3, <1>4, PTL DEF CodecSpec

\* A dysk the client found valid is refused only for a name that exists, for a
\* text that leaves no room for its zero, or by the kernel (validateDysk,
\* dysk_def_from_buffer, dysk_add).
THEOREM RefusalsCorrect == CodecSpec => RefusalsExplained
<1>1. CodecInit => CodecInv /\ PlainInv
  BY CodecInitially, PlainInitially
<1>2. CodecInv /\ PlainInv /\ [CodecNext]_codecVars => (CodecInv /\ PlainInv)'
  BY CodecStep, PlainStep
<1> DEFINE A == (Replied("mount") /\ parseResponse(buffer').is_error)
                  => \/ \E i \in DOMAIN dysks : dysks[i].def.name = call.of.name
                     \/ "errno" \in ToSet(said')
                     \/ \E f \in ToSet(RequestFields) : Len(call.of[f]) >= Room[f]
<1>3. CodecInv /\ PlainInv /\ [CodecNext]_codecVars => A
  BY RefusalStep
<1>4. RefusalsExplained <=> [][A]_codecVars
  BY DEF RefusalsExplained
<1> HIDE DEF A
<1> QED
  BY <1>1, <1>2, <1>3, <1>4, PTL DEF CodecSpec

-----------------------------------------------------------------------------
(***************************************************************************)
(* Which replies can be too long.                                          *)
(***************************************************************************)
\* What the module says of a dysk fits into its buffer.
Shows(l) == FitsWithZero(OK \o dysk_def_to_buffer(l.def))

\* Until a reply was too long, every dysk has one that is not.
FitInv ==
  /\ call.at = "overrun" => call.op = "mount"
  /\ call.at # "overrun" => \A i \in DOMAIN dysks : Shows(dysks[i])

\* It holds at first.
LEMMA FitInitially == CodecInit => FitInv
BY DEF CodecInit, FitInv, Idle

\* A name that was read ends inside its array.
LEMMA NameShort ==
  ASSUME NEW buf \in CText, get_until(buf, 0, NL, Room["name"]) # -1
  PROVE  NameOf(buf) \in CText /\ Len(NameOf(buf)) < Room["name"]
<1> DEFINE cut == get_until(buf, 0, NL, Room["name"])
<1>1. Len(NL) = 1 /\ Len(NL) \in Nat \ {0} /\ Room["name"] \in Nat \ {0} /\ 0 \in Nat
  BY Fields, CodecParametersAssumption DEF NL
<1>2. cut \in 0..(Room["name"] - Len(NL)) /\ Found(buf, 0 + cut, NL)
  BY <1>1, GetUntil, Zenon DEF CText
<1>3. NameOf(buf) = IF cut <= 0 THEN <<>> ELSE SubSeq(buf, 0 + 1, 0 + cut)
  BY DEF NameOf, Line
<1> HIDE DEF cut
<1>4. cut \in Nat /\ cut < Room["name"] /\ cut < Len(buf)
  BY <1>1, <1>2 DEF Found
<1>5. CASE cut = 0
  BY <1>1, <1>3, <1>5 DEF CText
<1>6. CASE cut # 0
  <2>1. NameOf(buf) = SubSeq(buf, 1, cut) /\ \A j \in 1..cut : buf[j] \in Cell
    BY <1>3, <1>4, <1>6 DEF CText
  <2>2. NameOf(buf) \in Seq(Cell) /\ Len(NameOf(buf)) = IF 1 <= cut THEN cut - 1 + 1 ELSE 0
    BY <1>4, <2>1, SubSeqProperties
  <2> QED BY <1>4, <1>6, <2>2 DEF CText
<1> QED
  BY <1>5, <1>6

\* The messages of the other calls are short.
LEMMA MessagesFit ==
  ASSUME NEW name \in CText, Len(name) < Room["name"]
  PROVE  FitsWithZero(Unknown(name)) /\ FitsWithZero(NoMemoryFor(name)) /\ FitsWithZero(OK)
<1>1. Room["name"] \in Nat /\ MAX_IN_OUT \in Nat /\ MAX_IN_OUT > Room["name"] + 5 /\ MAX_IN_OUT > 2
  BY Fields, CodecParametersAssumption
<1>2. ERR \in CText /\ Len(ERR) = 2 /\ OK \in CText /\ Len(OK) = 2
  BY DEF ERR, OK, CText, Cell
<1> DEFINE to == <<"Failed", "to">>
           such == <<"no", "such">>
           memory == <<"No", "memory">>
<1>3. /\ to \in CText /\ Len(to) = 2
      /\ such \in CText /\ Len(such) = 2
      /\ memory \in CText /\ Len(memory) = 2
  BY DEF CText, Cell
<1>4. \A a, b \in CText : a \o b \in CText /\ Len(a \o b) = Len(a) + Len(b)
  BY ConcatText
<1>5. Len(name) \in Nat
  BY DEF CText
<1>6. Unknown(name) = ERR \o to \o name \o such /\ NoMemoryFor(name) = ERR \o memory \o name
  BY DEF Unknown, NoMemoryFor
<1> HIDE DEF to, such, memory
<1>7. /\ ERR \o to \in CText /\ Len(ERR \o to) = 4
      /\ ERR \o memory \in CText /\ Len(ERR \o memory) = 4
  <2>1. ERR \o to \in CText /\ Len(ERR \o to) = Len(ERR) + Len(to)
    BY <1>2, <1>3, <1>4, Zenon
  <2>2. ERR \o memory \in CText /\ Len(ERR \o memory) = Len(ERR) + Len(memory)
    BY <1>2, <1>3, <1>4, Zenon
  <2> QED BY <1>2, <1>3, <2>1, <2>2
<1>8. Len(Unknown(name)) = 6 + Len(name)
  <2>1. ERR \o to \o name \in CText /\ Len(ERR \o to \o name) = Len(ERR \o to) + Len(name)
    BY <1>4, <1>7, Zenon
  <2>2. ERR \o to \o name \in CText /\ Len(ERR \o to \o name) = 4 + Len(name)
    BY ONLY <1>7, <2>1
  <2>3. Len(ERR \o to \o name \o such) = Len(ERR \o to \o name) + Len(such)
    BY <1>3, <1>4, <2>2, Zenon
  <2> QED BY ONLY <1>3, <1>5, <1>6, <2>2, <2>3
<1>9. Len(NoMemoryFor(name)) = 4 + Len(name)
  <2>1. Len(ERR \o memory \o name) = Len(ERR \o memory) + Len(name)
    BY <1>4, <1>7, Zenon
  <2> QED BY ONLY <1>6, <1>7, <2>1
<1> QED
  BY <1>1, <1>2, <1>5, <1>8, <1>9 DEF FitsWithZero

\* A list ends before the zero behind it.
LEMMA ListedFits ==
  ASSUME DysksInv
  PROVE  FitsWithZero(OK \o Listed)
<1>1. PICK m \in 0..Len(dysks) : Listed = NamesOf(m) /\ Len(OK \o NamesOf(m)) <= MAX_IN_OUT - 1
  BY ListedType
<1>2. NamesOf(m) \in CText /\ OK \in CText
  BY ListedType, OpensWith DEF Opens
<1>3. Len(OK \o NamesOf(m)) \in Nat /\ MAX_IN_OUT \in Nat
  BY <1>2, ConcatText, CodecParametersAssumption
<1> QED
  BY <1>1, <1>3 DEF FitsWithZero

\* Each step keeps it.
LEMMA FitStep == CodecInv /\ FitInv /\ [CodecNext]_codecVars => FitInv'
<1> SUFFICES ASSUME CodecInv, FitInv, [CodecNext]_codecVars PROVE FitInv'
  OBVIOUS
<1>0. buffer \in CText
  BY DEF CodecInv, BufferInv
<1>1. CASE UNCHANGED codecVars
  BY <1>1 DEF codecVars, FitInv, Shows, FitsWithZero
<1>2. CASE CallMount \/ CallByName \/ CallList \/ GetNext
  <2>1. UNCHANGED dysks /\ call'.at = "module" /\ (call = Idle \/ call.op = "next")
    BY <1>2 DEF CallMount, CallByName, CallList, GetNext, Call
  <2>2. call.at # "overrun"
    BY <2>1 DEF Idle, FitInv
  <2> QED BY <2>1, <2>2 DEF FitInv, Shows, FitsWithZero
<1>3. CASE CallFails \/ DyskReturns \/ UnmountReturns \/ ListReturns
  <2>1. UNCHANGED dysks /\ call'.at = "client" /\ call.at = "client"
    BY <1>3 DEF CallFails, DyskReturns, UnmountReturns, ListReturns, Returns, Failed, Idle, NextGet
  <2> QED BY <2>1 DEF FitInv, Shows, FitsWithZero
<1>4. CASE NoMemory \/ NameTooLong
  <2>1. UNCHANGED dysks /\ call'.at = "client" /\ call.at = "module"
    BY <1>4 DEF NoMemory, NameTooLong, InModule, Errno, Idle
  <2> QED BY <2>1 DEF FitInv, Shows, FitsWithZero
<1>5. CASE Catastrophe
  <2>1. call' = call /\ call.at # "overrun"
    BY <1>5 DEF Catastrophe
  <2>2. \A i \in DOMAIN dysks' : \E j \in DOMAIN dysks : dysks'[i] = dysks[j]
    BY <1>5, RemoveAtKeeps DEF Catastrophe, CodecInv
  <2>3. \A i \in DOMAIN dysks : Shows(dysks[i])
    BY <2>1 DEF FitInv
  <2>4. \A i \in DOMAIN dysks' : Shows(dysks'[i])
    BY <2>2, <2>3
  <2> QED BY <2>1, <2>4 DEF FitInv, Shows, FitsWithZero
<1>6. ASSUME NEW out, Reply(out), call.at = "module", FitsWithZero(out) \/ call.op = "mount",
             FitsWithZero(out) => \A i \in DOMAIN dysks' : Shows(dysks'[i])
      PROVE  FitInv'
  <2>0. call \in [op : Asks \cup {"idle", "next"}, of : CText \cup Wanted,
                  at : {"client", "module", "overrun"}]
    BY DEF CodecInv, CallInv
  <2>1. CASE FitsWithZero(out)
    <3>1. call'.at = "client"
      BY <1>6, <2>0, <2>1 DEF Reply
    <3> QED BY <1>6, <2>1, <3>1 DEF FitInv, Shows, FitsWithZero
  <2>2. CASE ~ FitsWithZero(out)
    <3>1. call'.at = "overrun" /\ call'.op = "mount"
      BY <1>6, <2>0, <2>2 DEF Reply
    <3> QED BY <3>1 DEF FitInv
  <2> QED BY <2>1, <2>2
<1>7. ASSUME NEW out, Reply(out), call.at = "module", FitsWithZero(out) \/ call.op = "mount",
             UNCHANGED dysks
      PROVE  FitInv'
  <2>1. \A i \in DOMAIN dysks : Shows(dysks[i])
    BY <1>7 DEF FitInv
  <2>2. \A i \in DOMAIN dysks' : Shows(dysks'[i])
    BY <1>7, <2>1
  <2> QED BY <1>6, <1>7, <2>2
<1>8. CASE MountRefused \/ MountFails
  <2>1. /\ call.at = "module" /\ call.op = "mount" /\ UNCHANGED dysks
        /\ \E out : Reply(out)
    BY <1>8 DEF MountRefused, MountFails, InModule
  <2> QED BY <1>7, <2>1
<1>9. CASE MountAccepted
  <2> DEFINE new == [def |-> Mounted, asked |-> call.of]
             out == OK \o dysk_def_to_buffer(Mounted)
  <2>1. /\ call.op = "mount" /\ call.at = "module" /\ Undetermined(buffer) = {} /\ FreeMinors # {}
        /\ Reply(out) /\ dysks' = <<new>> \o dysks
    BY <1>9 DEF MountAccepted, InModule
  <2>2. Mounted \in [ToSet(ReplyFields) -> CText]
    BY <2>1, MountedType
  <2>3. new \in Listing
    BY <2>1, <2>2 DEF Listing, CodecInv, CallInv
  <2>4. \A i \in DOMAIN dysks' : dysks'[i] = new \/ \E j \in DOMAIN dysks : dysks'[i] = dysks[j]
    <3> HIDE DEF new
    <3> QED BY <2>1, <2>3, MountedFirst DEF CodecInv
  <2>5. FitsWithZero(out) => Shows(new)
    BY DEF Shows
  <2>6. \A i \in DOMAIN dysks : Shows(dysks[i])
    BY <2>1 DEF FitInv
  <2> HIDE DEF new, out
  <2>7. FitsWithZero(out) => \A i \in DOMAIN dysks' : Shows(dysks'[i])
    BY <2>4, <2>5, <2>6
  <2> QED BY <1>6, <2>1, <2>7
<1>10. CASE NoSuchDysk \/ NotDeleted
  <2>1. /\ call.at = "module" /\ UNCHANGED dysks
        /\ get_until(buffer, 0, NL, Room["name"]) # -1
        /\ Reply(Unknown(NameOf(buffer))) \/ Reply(NoMemoryFor(NameOf(buffer)))
    BY <1>10 DEF NoSuchDysk, NotDeleted, InModule
  <2>2. FitsWithZero(Unknown(NameOf(buffer))) /\ FitsWithZero(NoMemoryFor(NameOf(buffer)))
    BY <1>0, <2>1, NameShort, MessagesFit
  <2> QED BY <1>7, <2>1, <2>2
<1>11. CASE DyskUnmount
  <2>1. /\ call.at = "module" /\ Reply(OK)
        /\ \E k \in DOMAIN dysks : dysks' = RemoveAt(dysks, k)
    BY <1>11 DEF DyskUnmount, InModule, dysk_exist
  <2>2. FitsWithZero(OK)
    <3>1. Len(OK) = 2 /\ MAX_IN_OUT \in Nat /\ MAX_IN_OUT > 2
      BY CodecParametersAssumption DEF OK
    <3> QED BY <3>1 DEF FitsWithZero
  <2>3. \A i \in DOMAIN dysks' : \E j \in DOMAIN dysks : dysks'[i] = dysks[j]
    BY <2>1, RemoveAtKeeps DEF CodecInv
  <2>4. \A i \in DOMAIN dysks : Shows(dysks[i])
    BY <2>1 DEF FitInv
  <2>5. \A i \in DOMAIN dysks' : Shows(dysks'[i])
    BY <2>3, <2>4
  <2> QED BY <1>6, <2>1, <2>2, <2>5
<1>12. CASE DyskGet
  <2>1. PICK i \in DOMAIN dysks : Reply(OK \o dysk_def_to_buffer(dysks[i].def))
    BY <1>12 DEF DyskGet, dysk_exist
  <2>2. call.at = "module" /\ UNCHANGED dysks
    BY <1>12 DEF DyskGet, InModule
  <2>3. FitsWithZero(OK \o dysk_def_to_buffer(dysks[i].def))
    BY <2>2 DEF FitInv, Shows
  <2> QED BY <1>7, <2>1, <2>2, <2>3
<1>13. CASE DyskList
  <2>1. call.at = "module" /\ UNCHANGED dysks /\ Reply(OK \o Listed)
    BY <1>13 DEF DyskList, InModule
  <2>2. FitsWithZero(OK \o Listed)
    BY ListedFits DEF CodecInv
  <2> QED BY <1>7, <2>1, <2>2
<1> QED
  BY <1>1, <1>2, <1>3, <1>4, <1>5, <1>8, <1>9, <1>10, <1>11, <1>12, <1>13
  DEF CodecNext, ClientStep, ModuleStep

\* Both hold of every behaviour.
LEMMA CodecInvariance == CodecSpec => [](CodecInv /\ FitInv)
<1>1. CodecInit => CodecInv /\ FitInv
  BY CodecInitially, FitInitially
<1>2. CodecInv /\ FitInv /\ [CodecNext]_codecVars => (CodecInv /\ FitInv)'
  BY CodecStep, FitStep
<1> QED BY <1>1, <1>2, PTL DEF CodecSpec

\* Only the reply to a mount can overrun the module's buffer, whatever the
\* texts and the size of the buffer (dysk_get, dysk_list, dysk_unmount).
THEOREM OverrunsAreMounts == CodecSpec => []OnlyMountsOverrun
<1>1. FitInv => OnlyMountsOverrun
  BY DEF FitInv, OnlyMountsOverrun
<1> QED BY <1>1, CodecInvariance, PTL

\* The types of the codec; every text of a dysk_def ends inside its array,
\* whatever was written into the buffer, and every reply but that to a mount
\* in the module's buffer (dysk_def_from_buffer, dysk_get, dysk_list).
THEOREM CodecTypeCorrect == CodecSpec => []CodecTypeOK
<1>1. CodecInv /\ OnlyMountsOverrun => CodecTypeOK
  BY DEF CodecInv, CodecTypeOK, DysksInv, WellDefined, BufferInv, AnswerInv
<1> QED BY <1>1, CodecInvariance, OverrunsAreMounts, PTL
=============================================================================
