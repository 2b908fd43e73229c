---------------------------- MODULE SequenceLemmas ----------------------------
(***************************************************************************)
(* Facts about natural numbers, recursive functions and sequences on which *)
(* the proofs of the other modules rest.                                   *)
(*                                                                         *)
(* Induction is stated for sets of numbers: a fact P(n) is proved for      *)
(* every n by showing that the set {n \in Nat : P(n)} contains 0 and, with *)
(* each number, the next one.  It comes from the library's theorem that    *)
(* the order of the natural numbers is well-founded.                       *)
(***************************************************************************)
EXTENDS WellFoundedInduction, SequenceTheorems, FiniteSetTheorems, SequencesExt, TLAPS

LEMMA LeastNumber ==
    ASSUME NEW T, T \subseteq Nat, T # {}
    PROVE  \E x \in T : \A y \in T : x <= y
  <1> DEFINE Less == {ss \in Nat \X Nat : ss[1] < ss[2]}
  <1>1. IsWellFoundedOn(Less, Nat)
    BY NatLessThanWellFounded DEF OpToRel
  <1>2. \E x \in T : \A y \in T : <<y, x>> \notin Less
    <2> HIDE DEF Less
    <2> QED
      BY <1>1, WFMin
  <1>3. PICK x \in T : \A y \in T : <<y, x>> \notin Less
    BY <1>2
  <1>4. ASSUME NEW y \in T
        PROVE  x <= y
    <2>1. <<y, x>> \notin Less
      BY <1>3
    <2> QED
      BY <2>1
  <1> QED
    BY <1>4

LEMMA SetInduction ==
    ASSUME NEW T, 0 \in T, \A n \in Nat : n \in T => n + 1 \in T
    PROVE  \A n \in Nat : n \in T
  <1> SUFFICES ASSUME Nat \ T # {}
               PROVE  FALSE
    OBVIOUS
  <1>1. PICK n \in Nat \ T : \A m \in Nat \ T : n <= m
    BY LeastNumber
  <1>2. n - 1 \in Nat /\ n - 1 \in T
    BY <1>1
  <1> QED
    BY <1>1, <1>2

\* f is defined on 0..n by a first value and, for every i in 1..n, a function
\* from each value to the next.
IsRecursion(f, S, base, step, n) ==
    /\ f \in [0..n -> S]
    /\ f = [i \in 0..n |-> IF i = 0 THEN base ELSE step[i][f[i - 1]]]

\* There is such a function.
LEMMA RecursionExists ==
    ASSUME NEW S, NEW base \in S, NEW step, NEW n \in Nat,
           \A i \in 1..n : \A x \in S : step[i][x] \in S
    PROVE  \E f : IsRecursion(f, S, base, step, n)
  <1> DEFINE T == {k \in Nat : k <= n => \E f : IsRecursion(f, S, base, step, k)}
  <1>1. 0 \in T
    <2> DEFINE f == [i \in 0..0 |-> base]
    <2>1. IsRecursion(f, S, base, step, 0)
      BY DEF IsRecursion
    <2> QED
      BY <2>1
  <1>2. ASSUME NEW k \in Nat, k \in T
        PROVE  k + 1 \in T
    <2> SUFFICES ASSUME k + 1 <= n
                 PROVE  \E f : IsRecursion(f, S, base, step, k + 1)
      OBVIOUS
    <2>1. PICK f : IsRecursion(f, S, base, step, k)
      BY <1>2
    <2> DEFINE g == [i \in 0..(k + 1) |-> IF i <= k THEN f[i] ELSE step[k + 1][f[k]]]
    <2>2. f[k] \in S /\ step[k + 1][f[k]] \in S
      BY <2>1 DEF IsRecursion
    <2>3. g \in [0..(k + 1) -> S]
      BY <2>1, <2>2 DEF IsRecursion
    <2>4. ASSUME NEW i \in 0..(k + 1)
          PROVE  g[i] = IF i = 0 THEN base ELSE step[i][g[i - 1]]
      <3>1. CASE i <= k
        <4>1. f[i] = IF i = 0 THEN base ELSE step[i][f[i - 1]]
          BY <2>1, <3>1 DEF IsRecursion
        <4>2. i # 0 => g[i - 1] = f[i - 1]
          BY <3>1
        <4> QED
          BY <3>1, <4>1, <4>2
      <3>2. CASE i = k + 1
        BY <3>2
      <3> QED
        BY <3>1, <3>2
    <2>5. IsRecursion(g, S, base, step, k + 1)
      <3> HIDE DEF g
      <3> QED
        BY <2>3, <2>4 DEF IsRecursion
    <2> QED
      BY <2>5
  <1>3. n \in T
    <2> HIDE DEF T
    <2> QED
      BY <1>1, <1>2, SetInduction
  <1> QED
    BY <1>3

-----------------------------------------------------------------------------
(* Sequences and their elements. *)

\* Sequences, whatever their elements are.
IsSequence(s) == s \in Seq(ToSet(s))

LEMMA SequenceOfItsElements ==
    ASSUME NEW S, NEW s \in Seq(S)
    PROVE  IsSequence(s)
  BY DEF IsSequence, ToSet

LEMMA AppendToSet ==
    ASSUME NEW s, IsSequence(s), NEW e
    PROVE  IsSequence(Append(s, e)) /\ ToSet(Append(s, e)) = ToSet(s) \cup {e}
  <1>1. s \in Seq(ToSet(s) \cup {e})
    BY DEF IsSequence
  <1>2. /\ Append(s, e) \in Seq(ToSet(s) \cup {e})
        /\ Len(Append(s, e)) = Len(s) + 1
        /\ \A i \in 1..Len(s) : Append(s, e)[i] = s[i]
        /\ Append(s, e)[Len(s) + 1] = e
    BY <1>1, AppendProperties
  <1>3. ToSet(Append(s, e)) = ToSet(s) \cup {e}
    BY <1>1, <1>2 DEF ToSet
  <1> QED
    BY <1>2, <1>3 DEF IsSequence

LEMMA TailToSet ==
    ASSUME NEW s, IsSequence(s), s # <<>>
    PROVE  /\ IsSequence(Tail(s))
           /\ ToSet(Tail(s)) \subseteq ToSet(s)
           /\ Head(s) \in ToSet(s)
  <1>1. s \in Seq(ToSet(s))
    BY DEF IsSequence
  <1>2. /\ Tail(s) \in Seq(ToSet(s))
        /\ Head(s) \in ToSet(s)
        /\ Len(Tail(s)) = Len(s) - 1
        /\ \A i \in 1..Len(Tail(s)) : Tail(s)[i] = s[i + 1]
    BY <1>1, HeadTailProperties
  <1>3. IsSequence(Tail(s))
    BY <1>2, SequenceOfItsElements
  <1>4. ToSet(Tail(s)) \subseteq ToSet(s)
    BY <1>1, <1>2 DEF ToSet
  <1> QED
    BY <1>2, <1>3, <1>4

\* A sequence, or one with another element behind it.
LEMMA ConcatToSet ==
    ASSUME NEW S, NEW s \in Seq(S), NEW e \in S
    PROVE  s \o <<>> = s /\ s \o <<e>> = Append(s, e)
  <1>1. s \o <<>> = s
    BY ConcatEmptySeq
  <1>2. Append(s, e) = s \o <<e>>
    BY AppendIsConcat
  <1> QED
    BY <1>1, <1>2

-----------------------------------------------------------------------------
(* Prefixes. *)

\* What IsPrefix means, element by element.
LEMMA PrefixByIndex ==
    ASSUME NEW S, NEW s \in Seq(S), NEW t \in Seq(S)
    PROVE  IsPrefix(s, t) <=>
              Len(s) <= Len(t) /\ \A i \in 1..Len(s) : s[i] = t[i]
  <1>1. SubSeq(s, 1, Len(s)) = s
    BY SubSeqFull
  <1>2. ASSUME Len(s) <= Len(t)
        PROVE  /\ SubSeq(t, 1, Len(s)) \in Seq(S)
               /\ Len(SubSeq(t, 1, Len(s))) = Len(s)
               /\ \A i \in 1..Len(s) : SubSeq(t, 1, Len(s))[i] = t[i]
    BY <1>2
  <1>3. ASSUME Len(s) <= Len(t), \A i \in 1..Len(s) : s[i] = t[i]
        PROVE  s = SubSeq(t, 1, Len(s))
    BY <1>2, <1>3, SeqEqual
  <1> QED
    BY <1>1, <1>2, <1>3 DEF IsPrefix

LEMMA EmptyIsPrefix ==
    ASSUME NEW S, NEW t \in Seq(S)
    PROVE  IsPrefix(<<>>, t)
  <1>1. Len(<<>>) = 0 /\ Len(t) \in Nat
    BY EmptySeq, LenProperties
  <1>2. SubSeq(<<>>, 1, 0) = <<>> /\ SubSeq(t, 1, 0) = <<>>
    BY SubSeqEmpty
  <1> QED
    BY <1>1, <1>2 DEF IsPrefix

LEMMA PrefixReflexive ==
    ASSUME NEW S, NEW t \in Seq(S)
    PROVE  IsPrefix(t, t)
  BY DEF IsPrefix

LEMMA PrefixTransitive ==
    ASSUME NEW S, NEW s \in Seq(S), NEW t \in Seq(S), NEW u \in Seq(S),
           IsPrefix(s, t), IsPrefix(t, u)
    PROVE  IsPrefix(s, u)
  <1>1. Len(s) <= Len(t) /\ \A i \in 1..Len(s) : s[i] = t[i]
    BY PrefixByIndex
  <1>2. Len(t) <= Len(u) /\ \A i \in 1..Len(t) : t[i] = u[i]
    BY PrefixByIndex
  <1>3. Len(s) <= Len(u) /\ \A i \in 1..Len(s) : s[i] = u[i]
    BY <1>1, <1>2
  <1> QED
    BY <1>3, PrefixByIndex

LEMMA PrefixOfAppend ==
    ASSUME NEW S, NEW t \in Seq(S), NEW e \in S
    PROVE  IsPrefix(t, Append(t, e))
  <1> DEFINE u == Append(t, e)
  <1>1. u \in Seq(S) /\ Len(t) <= Len(u) /\ \A i \in 1..Len(t) : t[i] = u[i]
    BY AppendProperties
  <1>2. IsPrefix(t, u)
    <2> HIDE DEF u
    <2> QED
      BY <1>1, PrefixByIndex
  <1> QED
    BY <1>2

\* The first elements of a longer sequence.
LEMMA InitialOfAppend ==
    ASSUME NEW S, NEW t \in Seq(S), NEW e \in S, NEW i \in 0..Len(t)
    PROVE  SubSeq(Append(t, e), 1, i) = SubSeq(t, 1, i)
  <1>1. /\ Append(t, e) \in Seq(S) /\ Len(Append(t, e)) = Len(t) + 1
        /\ \A j \in 1..Len(t) : Append(t, e)[j] = t[j]
    BY AppendProperties
  <1>2. /\ SubSeq(Append(t, e), 1, i) \in Seq(S) /\ SubSeq(t, 1, i) \in Seq(S)
        /\ Len(SubSeq(Append(t, e), 1, i)) = i /\ Len(SubSeq(t, 1, i)) = i
        /\ \A j \in 1..i : SubSeq(Append(t, e), 1, i)[j] = Append(t, e)[j]
        /\ \A j \in 1..i : SubSeq(t, 1, i)[j] = t[j]
    BY <1>1
  <1> QED
    BY <1>1, <1>2, SeqEqual

\* Sequences of one and two elements.
LEMMA PairByAppend ==
    ASSUME NEW a, NEW b
    PROVE  Append(<<a>>, b) = <<a, b>>
  <1>1. <<a>> \in Seq({a, b}) /\ <<a, b>> \in Seq({a, b}) /\ Len(<<a>>) = 1
    OBVIOUS
  <1> DEFINE s == Append(<<a>>, b)
             p == <<a, b>>
             o == <<a>>
  <1>2. o \in Seq({a, b}) /\ b \in {a, b} /\ Len(o) = 1 /\ o[1] = a
    BY <1>1
  <1>3. p \in Seq({a, b}) /\ Len(p) = 2 /\ p[1] = a /\ p[2] = b
    BY <1>1
  <1>4. s = Append(o, b)
    OBVIOUS
  <1> HIDE DEF s, p, o
  <1>5. s \in Seq({a, b}) /\ Len(s) = 2 /\ s[1] = a /\ s[2] = b
    <2> DEFINE S == {a, b}
    <2>1. o \in Seq(S) /\ b \in S
      BY <1>2
    <2> HIDE DEF S
    <2>2. /\ s \in Seq(S) /\ Len(s) = Len(o) + 1
          /\ \A i \in 1..Len(o) : s[i] = o[i]
          /\ s[Len(o) + 1] = b
      BY <1>4, <2>1, AppendProperties
    <2> QED
      BY <1>2, <2>2 DEF S
  <1>6. s = p
    BY <1>3, <1>5, SeqEqual
  <1> QED
    BY <1>6 DEF s, p

\* Taking the second of two elements away.
LEMMA RemoveSecond ==
    ASSUME NEW a, NEW b
    PROVE  RemoveAt(<<a, b>>, 2) = <<a>>
  <1> DEFINE p == <<a, b>>
             f == SubSeq(p, 1, 1)
             t == SubSeq(p, 3, 2)
             o == <<a>>
  <1>1. p[1] = a /\ Len(p) = 2
    OBVIOUS
  <1>2. o \in Seq({a}) /\ Len(o) = 1 /\ o[1] = a
    OBVIOUS
  <1> HIDE DEF p, o
  <1>3. f \in Seq({a}) /\ Len(f) = 1 /\ f[1] = a
    <2>1. \A i \in 1..1 : p[i] \in {a}
      BY <1>1
    <2> QED
      BY <1>1, <2>1, SubSeqProperties
  <1>4. t = <<>>
    BY SubSeqEmpty
  <1> HIDE DEF f, t
  <1>5. f = o
    BY <1>2, <1>3, SeqEqual
  <1>6. f \o t = o
    BY <1>2, <1>4, <1>5, ConcatEmptySeq
  <1>7. RemoveAt(p, 2) = f \o t
    BY <1>1 DEF RemoveAt, f, t
  <1> QED
    BY <1>6, <1>7 DEF p, o

-----------------------------------------------------------------------------
(* The elements of a sequence of sequences, and their number. *)

IsLists(q) == IsSequence(q) /\ \A i \in 1..Len(q) : IsSequence(q[i])

Total(q) == Len(FlattenSeq(q))

\* f[i] is the number of elements of the first i sequences.
IsSum(f, q) ==
    /\ f \in [0..Len(q) -> Nat]
    /\ f[0] = 0
    /\ \A i \in 1..Len(q) : f[i] = f[i - 1] + Len(q[i])

\* Sequences of sequences, and the lengths of their elements.
LEMMA ListsAreTyped ==
    ASSUME NEW q, IsLists(q)
    PROVE  /\ \E U : q \in Seq(Seq(U))
           /\ Len(q) \in Nat
           /\ \A i \in 1..Len(q) : Len(q[i]) \in Nat
  <1> DEFINE U == UNION {ToSet(q[i]) : i \in 1..Len(q)}
  <1>1. q \in Seq(ToSet(q)) /\ Len(q) \in Nat
    BY DEF IsLists, IsSequence
  <1>2. ASSUME NEW i \in 1..Len(q)
        PROVE  q[i] \in Seq(U) /\ Len(q[i]) \in Nat
    <2>1. q[i] \in Seq(ToSet(q[i]))
      BY DEF IsLists, IsSequence
    <2>2. ToSet(q[i]) \subseteq U
      OBVIOUS
    <2>3. q[i] \in Seq(U)
      BY <2>1, <2>2, SeqMonotonic
    <2> QED
      BY <2>1, <2>3
  <1>3. q \in Seq(Seq(U))
    <2> HIDE DEF U
    <2> QED
      BY <1>1, <1>2
  <1> QED
    BY <1>1, <1>2, <1>3

\* The same, from the type.
LEMMA ListsOf ==
    ASSUME NEW U, NEW q \in Seq(Seq(U))
    PROVE  IsLists(q)
  <1>1. IsSequence(q)
    BY SequenceOfItsElements
  <1>2. ASSUME NEW i \in 1..Len(q)
        PROVE  IsSequence(q[i])
    <2>1. q[i] \in Seq(U)
      OBVIOUS
    <2> QED
      BY <2>1, SequenceOfItsElements
  <1> QED
    BY <1>1, <1>2 DEF IsLists

\* The partial sums of the lengths exist.
LEMMA SumExists ==
    ASSUME NEW q, IsLists(q)
    PROVE  \E f : IsSum(f, q)
  <1> DEFINE step == [i \in 1..Len(q) |-> [x \in Nat |-> x + Len(q[i])]]
  <1>1. Len(q) \in Nat /\ \A i \in 1..Len(q) : Len(q[i]) \in Nat
    BY ListsAreTyped
  <1>2. \A i \in 1..Len(q) : \A x \in Nat : step[i][x] = x + Len(q[i])
    OBVIOUS
  <1> HIDE DEF step
  <1>3. ASSUME NEW i \in 1..Len(q), NEW x \in Nat
        PROVE  step[i][x] \in Nat
    <2>1. step[i][x] = x + Len(q[i]) /\ Len(q[i]) \in Nat
      BY <1>1, <1>2
    <2> QED
      BY <2>1
  <1>4. 0 \in Nat
    OBVIOUS
  <1>5. PICK f : IsRecursion(f, Nat, 0, step, Len(q))
    BY <1>1, <1>3, <1>4, RecursionExists
  <1>6. f \in [0..Len(q) -> Nat] /\ f[0] = 0
    BY <1>1, <1>5 DEF IsRecursion
  <1>7. ASSUME NEW i \in 1..Len(q)
        PROVE  f[i] = f[i - 1] + Len(q[i])
    <2>1. i \in 0..Len(q) /\ i # 0 /\ i - 1 \in 0..Len(q)
      BY <1>1
    <2>2. f[i] = step[i][f[i - 1]]
      BY <1>5, <2>1 DEF IsRecursion
    <2>3. f[i - 1] \in Nat
      BY <1>6, <2>1
    <2> QED
      BY <1>2, <2>2, <2>3
  <1> QED
    BY <1>6, <1>7 DEF IsSum

\* Two functions that grow by the same amounts.
LEMMA SameIncrements ==
    ASSUME NEW n \in Nat, NEW f \in [0..n -> Nat], NEW g \in [0..n -> Nat],
           \A i \in 1..n : f[i] - f[i - 1] = g[i] - g[i - 1]
    PROVE  f[n] - f[0] = g[n] - g[0]
  <1> DEFINE T == {k \in Nat : k <= n => f[k] - f[0] = g[k] - g[0]}
  <1>1. 0 \in T
    OBVIOUS
  <1>2. ASSUME NEW k \in Nat, k \in T
        PROVE  k + 1 \in T
    <2> SUFFICES ASSUME k + 1 <= n
                 PROVE  f[k + 1] - f[0] = g[k + 1] - g[0]
      OBVIOUS
    <2>1. f[k + 1] - f[k] = g[k + 1] - g[k]
      <3>1. k + 1 \in 1..n /\ (k + 1) - 1 = k
        OBVIOUS
      <3> QED
        BY <3>1
    <2>2. f[k] - f[0] = g[k] - g[0]
      BY <1>2
    <2>3. /\ f[0] \in Nat /\ f[k] \in Nat /\ f[k + 1] \in Nat
          /\ g[0] \in Nat /\ g[k] \in Nat /\ g[k + 1] \in Nat
      OBVIOUS
    <2> DEFINE f0 == f[0]
               f1 == f[k]
               f2 == f[k + 1]
               g0 == g[0]
               g1 == g[k]
               g2 == g[k + 1]
    <2>4. /\ f0 \in Nat /\ f1 \in Nat /\ f2 \in Nat
          /\ g0 \in Nat /\ g1 \in Nat /\ g2 \in Nat
          /\ f2 - f1 = g2 - g1 /\ f1 - f0 = g1 - g0
      BY <2>1, <2>2, <2>3
    <2>5. f2 - f0 = g2 - g0
      <3> HIDE DEF f0, f1, f2, g0, g1, g2
      <3> QED
        BY <2>4
    <2> QED
      BY <2>5
  <1>3. n \in T
    <2> HIDE DEF T
    <2> QED
      BY <1>1, <1>2, SetInduction
  <1> QED
    BY <1>3

\* FlattenSeq concatenates, from the first to the last.
LEMMA FlattenRuns ==
    ASSUME NEW U, NEW q \in Seq(Seq(U)), q # <<>>
    PROVE  \E f \in [1..Len(q) -> Seq(U)] :
              /\ \A i \in 1..Len(q) : f[i] = IF i = 1 THEN q[1] ELSE f[i - 1] \o q[i]
              /\ FlattenSeq(q) = f[Len(q)]
  <1> DEFINE n == Len(q)
             step == [i \in 1..n |-> [s \in Seq(U) |-> s \o q[i]]]
             Runs(f) == f = [i \in 1..n |-> IF i = 1 THEN q[1] ELSE f[i - 1] \o q[i]]
             flatten == CHOOSE f : Runs(f)
  <1>1. n \in Nat \ {0} /\ \A i \in 1..n : q[i] \in Seq(U)
    OBVIOUS
  <1>2. <<>> \in Seq(U)
    BY EmptySeq
  <1>3. \A i \in 1..n : \A s \in Seq(U) : step[i][s] = s \o q[i] /\ step[i][s] \in Seq(U)
    BY <1>1, ConcatProperties
  <1>4. PICK g : IsRecursion(g, Seq(U), <<>>, step, n)
    <2> HIDE DEF step, n
    <2> QED
      BY <1>1, <1>2, <1>3, RecursionExists
  <1>5. \E f : Runs(f)
    <2> DEFINE f == [i \in 1..n |-> g[i]]
    <2> HIDE DEF step, n
    <2>1. g[0] = <<>> /\ \A i \in 1..n : g[i] = step[i][g[i - 1]] /\ g[i - 1] \in Seq(U)
      BY <1>1, <1>4 DEF IsRecursion
    <2>2. ASSUME NEW i \in 1..n
          PROVE  f[i] = IF i = 1 THEN q[1] ELSE f[i - 1] \o q[i]
      <3>1. f[i] = g[i - 1] \o q[i]
        BY <1>3, <2>1
      <3>2. CASE i = 1
        <4>1. g[i - 1] = <<>> /\ q[i] \in Seq(U) /\ q[i] = q[1]
          BY <1>1, <2>1, <3>2
        <4>2. <<>> \o q[i] = q[i]
          BY <4>1, ConcatEmptySeq
        <4> QED
          BY <3>1, <3>2, <4>1, <4>2
      <3>3. CASE i # 1
        <4>1. i - 1 \in 1..n
          BY <1>1, <3>3
        <4> QED
          BY <3>1, <3>3, <4>1
      <3> QED
        BY <3>2, <3>3
    <2>3. f = [i \in 1..n |-> f[i]]
      OBVIOUS
    <2>4. Runs(f)
      <3> HIDE DEF f
      <3> QED
        BY <2>2, <2>3
    <2> QED
      BY <2>4
  <1>6. Runs(flatten)
    <2> HIDE DEF Runs
    <2> QED
      BY <1>5
  <1>7. FlattenSeq(q) = flatten[n]
    BY <1>1 DEF FlattenSeq
  <1> HIDE DEF n, flatten
  <1>8. \A i \in 1..n : flatten[i] = IF i = 1 THEN q[1] ELSE flatten[i - 1] \o q[i]
    BY <1>6
  <1>9. \A i \in 1..n : flatten[i] \in Seq(U)
    <2> DEFINE T == {k \in Nat : k + 1 \in 1..n => flatten[k + 1] \in Seq(U)}
    <2>1. 0 \in T
      BY <1>1, <1>8
    <2>2. ASSUME NEW k \in Nat, k \in T
          PROVE  k + 1 \in T
      <3> SUFFICES ASSUME k + 2 \in 1..n
                   PROVE  flatten[k + 2] \in Seq(U)
        OBVIOUS
      <3>1. flatten[k + 1] \in Seq(U) /\ q[k + 2] \in Seq(U)
        BY <1>1, <2>2
      <3>2. flatten[k + 2] = flatten[k + 1] \o q[k + 2]
        <4>1. k + 2 # 1 /\ (k + 2) - 1 = k + 1
          OBVIOUS
        <4> QED
          BY <1>8, <4>1
      <3> QED
        BY <3>1, <3>2, ConcatProperties
    <2>3. \A k \in Nat : k \in T
      <3> HIDE DEF T
      <3> QED
        BY <2>1, <2>2, SetInduction
    <2>4. ASSUME NEW i \in 1..n
          PROVE  flatten[i] \in Seq(U)
      <3>1. i - 1 \in Nat /\ (i - 1) + 1 = i
        BY <1>1
      <3>2. i - 1 \in T
        BY <2>3, <3>1
      <3> QED
        BY <3>1, <3>2
    <2> QED
      BY <2>4
  <1>10. flatten \in [1..n -> Seq(U)]
    BY <1>6, <1>9
  <1> QED
    BY <1>7, <1>8, <1>10 DEF n

\* Flattening yields as many elements as there are in all sequences.
LEMMA FlattenSum ==
    ASSUME NEW q, IsLists(q), NEW f, IsSum(f, q)
    PROVE  IsSequence(FlattenSeq(q)) /\ Total(q) = f[Len(q)]
  <1>1. PICK U : q \in Seq(Seq(U))
    BY ListsAreTyped
  <1>2. CASE q = <<>>
    <2>1. FlattenSeq(q) = <<>> /\ Len(q) = 0
      BY <1>2 DEF FlattenSeq
    <2>2. <<>> \in Seq(U)
      BY EmptySeq
    <2> QED
      BY <2>1, <2>2, SequenceOfItsElements DEF IsSum, Total
  <1>3. CASE q # <<>>
    <2>1. PICK r \in [1..Len(q) -> Seq(U)] :
             /\ \A i \in 1..Len(q) : r[i] = IF i = 1 THEN q[1] ELSE r[i - 1] \o q[i]
             /\ FlattenSeq(q) = r[Len(q)]
      BY <1>1, <1>3, FlattenRuns
    <2> DEFINE n == Len(q)
               T == {k \in Nat : k + 1 \in 1..n => Len(r[k + 1]) = f[k + 1]}
    <2>2. n \in Nat \ {0} /\ \A i \in 1..n : q[i] \in Seq(U) /\ Len(q[i]) \in Nat
      BY <1>1, <1>3
    <2> HIDE DEF n
    <2>3. /\ f \in [0..n -> Nat] /\ f[0] = 0
          /\ \A i \in 1..n : f[i] = f[i - 1] + Len(q[i])
      BY DEF IsSum, n
    <2>4. \A i \in 1..n : r[i] = IF i = 1 THEN q[1] ELSE r[i - 1] \o q[i]
      BY <2>1 DEF n
    <2>5. \A i \in 1..n : r[i] \in Seq(U)
      BY <2>1 DEF n
    <2>6. 0 \in T
      BY <2>2, <2>3, <2>4
    <2>7. ASSUME NEW k \in Nat, k \in T
          PROVE  k + 1 \in T
      <3> SUFFICES ASSUME k + 2 \in 1..n
                   PROVE  Len(r[k + 2]) = f[k + 2]
        OBVIOUS
      <3>1. r[k + 2] = r[k + 1] \o q[k + 2] /\ r[k + 1] \in Seq(U) /\ q[k + 2] \in Seq(U)
        <4>1. k + 2 # 1 /\ (k + 2) - 1 = k + 1 /\ k + 1 \in 1..n
          BY <2>2
        <4> QED
          BY <2>2, <2>4, <2>5, <4>1
      <3>2. Len(r[k + 2]) = Len(r[k + 1]) + Len(q[k + 2])
        BY <3>1, ConcatProperties
      <3>3. Len(r[k + 1]) = f[k + 1]
        BY <2>2, <2>7
      <3>4. f[k + 2] = f[k + 1] + Len(q[k + 2])
        BY <2>2, <2>3
      <3> QED
        BY <3>2, <3>3, <3>4
    <2>8. \A k \in Nat : k \in T
      <3> HIDE DEF T
      <3> QED
        BY <2>6, <2>7, SetInduction
    <2>9. n - 1 \in Nat /\ (n - 1) + 1 = n /\ n \in 1..n
      BY <2>2
    <2>10. Len(r[n]) = f[n]
      <3>1. n - 1 \in T
        BY <2>8, <2>9
      <3> QED
        BY <2>9, <3>1
    <2>11. FlattenSeq(q) = r[n] /\ r[n] \in Seq(U)
      BY <2>1, <2>2, <2>5 DEF n
    <2> QED
      BY <2>10, <2>11, SequenceOfItsElements DEF n, Total
  <1> QED
    BY <1>2, <1>3

\* Flattening yields a sequence.
LEMMA FlattenIsSequence ==
    ASSUME NEW q, IsLists(q)
    PROVE  IsSequence(FlattenSeq(q)) /\ Total(q) \in Nat
  <1>1. PICK f : IsSum(f, q)
    BY SumExists
  <1>2. Len(q) \in Nat
    BY ListsAreTyped
  <1> QED
    BY <1>1, <1>2, FlattenSum DEF IsSum

\* The number of elements only depends on the lengths.
LEMMA TotalOfSameLengths ==
    ASSUME NEW p, IsLists(p), NEW q, IsLists(q), Len(p) = Len(q),
           \A i \in 1..Len(q) : Len(p[i]) = Len(q[i])
    PROVE  Total(p) = Total(q)
  <1>1. PICK f : IsSum(f, p)
    BY SumExists
  <1>2. PICK g : IsSum(g, q)
    BY SumExists
  <1> DEFINE n == Len(q)
  <1>3. n \in Nat /\ \A i \in 1..n : Len(q[i]) \in Nat
    BY ListsAreTyped
  <1>4. /\ f \in [0..n -> Nat] /\ g \in [0..n -> Nat] /\ f[0] = 0 /\ g[0] = 0
        /\ \A i \in 1..n : f[i] = f[i - 1] + Len(q[i]) /\ g[i] = g[i - 1] + Len(q[i])
    BY <1>1, <1>2 DEF IsSum
  <1>5. Total(p) = f[n] /\ Total(q) = g[n]
    BY <1>1, <1>2, FlattenSum
  <1> HIDE DEF n
  <1>6. \A i \in 1..n : f[i] - f[i - 1] = g[i] - g[i - 1]
    <2> SUFFICES ASSUME NEW i \in 1..n
                 PROVE  f[i] - f[i - 1] = g[i] - g[i - 1]
      OBVIOUS
    <2>1. i \in 0..n /\ i - 1 \in 0..n
      BY <1>3
    <2>2. f[i] = f[i - 1] + Len(q[i]) /\ g[i] = g[i - 1] + Len(q[i])
      BY <1>4
    <2>3. {f[i - 1], g[i - 1], Len(q[i])} \subseteq Nat
      BY <1>3, <1>4, <2>1
    <2> QED
      BY <2>2, <2>3
  <1>7. f[n] - f[0] = g[n] - g[0]
    BY <1>3, <1>4, <1>6, SameIncrements
  <1>8. f[n] \in Nat /\ g[n] \in Nat
    BY <1>3, <1>4
  <1> QED
    BY <1>4, <1>5, <1>7, <1>8

\* The elements of two sequences of sequences, one behind the other.
LEMMA TotalOfConcat ==
    ASSUME NEW U, NEW p \in Seq(Seq(U)), NEW q \in Seq(Seq(U))
    PROVE  Total(p \o q) = Total(p) + Total(q)
  <1> DEFINE m == Len(p)
             n == Len(q)
             pq == p \o q
  <1>1. m \in Nat /\ n \in Nat
    OBVIOUS
  <1>2. /\ pq \in Seq(Seq(U)) /\ Len(pq) = m + n
        /\ \A i \in 1..(m + n) : pq[i] = IF i <= m THEN p[i] ELSE q[i - m]
    BY ConcatProperties
  <1>3. IsLists(p) /\ IsLists(q) /\ IsLists(pq)
    BY <1>2, ListsOf
  <1>4. PICK f : IsSum(f, p)
    BY <1>3, SumExists
  <1>5. PICK g : IsSum(g, q)
    BY <1>3, SumExists
  <1> HIDE DEF pq
  <1>6. PICK h : IsSum(h, pq)
    BY <1>3, SumExists
  <1>7. Total(p) = f[m] /\ Total(q) = g[n] /\ Total(pq) = h[m + n]
    BY <1>2, <1>3, <1>4, <1>5, <1>6, FlattenSum
  <1>8. /\ \A i \in 1..m : Len(p[i]) \in Nat
        /\ \A i \in 1..n : Len(q[i]) \in Nat
    BY <1>3, ListsAreTyped
  <1> HIDE DEF m, n
  <1>9. /\ f \in [0..m -> Nat] /\ f[0] = 0
        /\ \A i \in 1..m : f[i] = f[i - 1] + Len(p[i])
    BY <1>4 DEF IsSum, m
  <1>10. /\ g \in [0..n -> Nat] /\ g[0] = 0
         /\ \A i \in 1..n : g[i] = g[i - 1] + Len(q[i])
    BY <1>5 DEF IsSum, n
  <1>11. /\ h \in [0..(m + n) -> Nat] /\ h[0] = 0
         /\ \A i \in 1..(m + n) : h[i] = h[i - 1] + Len(pq[i])
    BY <1>2, <1>6 DEF IsSum
  <1>12. h[m] = f[m]
    <2> DEFINE k == [i \in 0..m |-> h[i]]
    <2>1. k \in [0..m -> Nat]
      BY <1>1, <1>11
    <2>2. ASSUME NEW i \in 1..m
          PROVE  k[i] - k[i - 1] = f[i] - f[i - 1]
      <3>1. k[i] = h[i] /\ k[i - 1] = h[i - 1]
        BY <1>1
      <3>2. h[i] = h[i - 1] + Len(p[i]) /\ f[i] = f[i - 1] + Len(p[i])
        <4>1. i \in 1..(m + n) /\ i <= m
          BY <1>1
        <4>2. pq[i] = p[i]
          BY <1>2, <4>1
        <4> QED
          BY <1>9, <1>11, <4>1, <4>2
      <3>3. {h[i - 1], f[i - 1], Len(p[i])} \subseteq Nat
        BY <1>1, <1>8, <1>9, <1>11
      <3> QED
        BY <3>1, <3>2, <3>3
    <2>3. k[m] = h[m] /\ k[0] = h[0]
      BY <1>1
    <2> HIDE DEF k
    <2>4. k[m] - k[0] = f[m] - f[0]
      BY <1>1, <1>9, <2>1, <2>2, SameIncrements
    <2>5. k[m] \in Nat /\ f[m] \in Nat
      BY <1>1, <1>9, <2>1
    <2> QED
      BY <1>9, <1>11, <2>3, <2>4, <2>5
  <1>13. h[m + n] = h[m] + g[n]
    <2> DEFINE k == [i \in 0..n |-> h[m + i]]
    <2>1. k \in [0..n -> Nat]
      BY <1>1, <1>11
    <2>2. ASSUME NEW i \in 1..n
          PROVE  k[i] - k[i - 1] = g[i] - g[i - 1]
      <3>1. k[i] = h[m + i] /\ k[i - 1] = h[m + i - 1]
        BY <1>1
      <3>2. /\ m + i \in 1..(m + n) /\ m + i - 1 \in 0..(m + n) /\ i - 1 \in 0..n
            /\ ~(m + i <= m) /\ (m + i) - m = i
        BY <1>1
      <3>3. pq[m + i] = q[i]
        BY <1>2, <3>2
      <3>4. h[m + i] = h[m + i - 1] + Len(q[i]) /\ g[i] = g[i - 1] + Len(q[i])
        <4>1. (m + i) - 1 = m + i - 1
          BY <1>1
        <4>2. h[m + i] = h[(m + i) - 1] + Len(pq[m + i])
          BY <1>11, <3>2
        <4> QED
          BY <1>10, <3>3, <4>1, <4>2
      <3>5. {h[m + i - 1], g[i - 1], Len(q[i])} \subseteq Nat
        BY <1>8, <1>10, <1>11, <3>2
      <3> QED
        BY <3>1, <3>4, <3>5
    <2>3. k[n] = h[m + n] /\ k[0] = h[m]
      BY <1>1
    <2> HIDE DEF k
    <2>4. k[n] - k[0] = g[n] - g[0]
      BY <1>1, <1>10, <2>1, <2>2, SameIncrements
    <2>5. k[n] \in Nat /\ k[0] \in Nat /\ g[n] \in Nat
      BY <1>1, <1>10, <2>1
    <2> QED
      BY <1>10, <2>3, <2>4, <2>5
  <1> QED
    BY <1>7, <1>12, <1>13 DEF pq

\* The elements of one sequence.
LEMMA TotalOfOne ==
    ASSUME NEW s, IsSequence(s)
    PROVE  IsLists(<<s>>) /\ Total(<<s>>) = Len(s)
  <1>1. FlattenSeq(<<s>>) = s
    <2> DEFINE f == CHOOSE f : f = [i \in 1..1 |-> IF i = 1 THEN <<s>>[i]
                                                    ELSE f[i - 1] \o <<s>>[i]]
    <2>1. \E f0 : f0 = [i \in 1..1 |-> IF i = 1 THEN <<s>>[i] ELSE f0[i - 1] \o <<s>>[i]]
      <3>1. [i \in 1..1 |-> s] =
               [i \in 1..1 |-> IF i = 1 THEN <<s>>[i] ELSE [j \in 1..1 |-> s][i - 1] \o <<s>>[i]]
        OBVIOUS
      <3> QED
        BY <3>1
    <2>2. f = [i \in 1..1 |-> IF i = 1 THEN <<s>>[i] ELSE f[i - 1] \o <<s>>[i]]
      BY <2>1
    <2>3. FlattenSeq(<<s>>) = f[1]
      BY DEF FlattenSeq
    <2> HIDE DEF f
    <2>4. f[1] = s
      BY <2>2
    <2> QED
      BY <2>3, <2>4
  <1>2. s \in Seq(ToSet(s))
    BY DEF IsSequence
  <1>3. <<s>> \in Seq(Seq(ToSet(s)))
    BY <1>2
  <1> QED
    BY <1>1, <1>3, ListsOf DEF Total

\* More sequences of sequences, and how many elements they have.
LEMMA TotalOfAppend ==
    ASSUME NEW q, IsLists(q), NEW s, IsSequence(s)
    PROVE  /\ IsLists(Append(q, s))
           /\ Total(Append(q, s)) = Total(q) + Len(s)
           /\ Len(Append(q, s)) = Len(q) + 1
  <1>1. PICK V : q \in Seq(Seq(V))
    BY ListsAreTyped
  <1> DEFINE U == V \cup ToSet(s)
  <1>2. s \in Seq(ToSet(s)) /\ ToSet(s) \subseteq U /\ V \subseteq U
    BY DEF IsSequence
  <1> HIDE DEF U
  <1>3. s \in Seq(U) /\ Seq(V) \subseteq Seq(U)
    BY <1>2, SeqMonotonic
  <1>4. q \in Seq(Seq(U)) /\ <<s>> \in Seq(Seq(U))
    BY <1>1, <1>3, SeqMonotonic
  <1>5. /\ Append(q, s) = q \o <<s>> /\ Append(q, s) \in Seq(Seq(U))
        /\ Len(Append(q, s)) = Len(q) + 1
    BY <1>3, <1>4, AppendIsConcat, AppendProperties
  <1>6. Total(q \o <<s>>) = Total(q) + Total(<<s>>)
    BY <1>4, TotalOfConcat
  <1>7. Total(<<s>>) = Len(s)
    BY TotalOfOne
  <1> QED
    BY <1>5, <1>6, <1>7, ListsOf

\* The elements of the first sequence and those of the others.
LEMMA TotalOfTail ==
    ASSUME NEW q, IsLists(q), q # <<>>
    PROVE  /\ IsSequence(Head(q)) /\ Head(q) = q[1] /\ Len(q) \in Nat \ {0}
           /\ IsLists(Tail(q)) /\ Total(Tail(q)) \in Nat /\ Len(Head(q)) \in Nat
           /\ Total(q) = Len(Head(q)) + Total(Tail(q))
  <1>1. PICK U : q \in Seq(Seq(U))
    BY ListsAreTyped
  <1>2. /\ Head(q) \in Seq(U) /\ Tail(q) \in Seq(Seq(U)) /\ Len(Tail(q)) = Len(q) - 1
        /\ \A i \in 1..Len(Tail(q)) : Tail(q)[i] = q[i + 1]
        /\ Len(q) \in Nat \ {0} /\ Head(q) = q[1]
    BY <1>1, HeadTailProperties
  <1> DEFINE h == Head(q)
             t == Tail(q)
             p == <<h>> \o t
  <1>3. h \in Seq(U) /\ t \in Seq(Seq(U)) /\ <<h>> \in Seq(Seq(U)) /\ IsSequence(h)
    BY <1>2, SequenceOfItsElements
  <1>4. q = p
    <2>1. /\ p \in Seq(Seq(U)) /\ Len(p) = 1 + Len(t)
          /\ \A i \in 1..(1 + Len(t)) : p[i] = IF i <= 1 THEN <<h>>[i] ELSE t[i - 1]
      <3>1. Len(<<h>>) = 1
        OBVIOUS
      <3> HIDE DEF h, t
      <3> QED
        BY <1>3, <3>1, ConcatProperties
    <2> HIDE DEF p
    <2>2. Len(p) = Len(q)
      BY <1>2, <2>1
    <2>3. ASSUME NEW i \in 1..Len(q)
          PROVE  p[i] = q[i]
      <3>1. CASE i = 1
        BY <1>2, <2>1, <3>1
      <3>2. CASE i # 1
        <4>1. i - 1 \in 1..Len(t) /\ (i - 1) + 1 = i /\ i \in 1..(1 + Len(t)) /\ ~(i <= 1)
          BY <1>2, <3>2
        <4> QED
          BY <1>2, <2>1, <4>1
      <3> QED
        BY <3>1, <3>2
    <2> QED
      BY <1>1, <2>1, <2>2, <2>3, SeqEqual
  <1>5. Total(p) = Total(<<h>>) + Total(t)
    <2> HIDE DEF h, t
    <2> QED
      BY <1>3, TotalOfConcat
  <1>6. Total(<<h>>) = Len(h)
    BY <1>3, TotalOfOne
  <1>7. IsLists(t) /\ Total(t) \in Nat /\ Len(h) \in Nat
    <2> HIDE DEF h, t
    <2>1. IsLists(t) /\ Len(h) \in Nat
      BY <1>3, ListsOf
    <2> QED
      BY <2>1, FlattenIsSequence
  <1> QED
    BY <1>2, <1>3, <1>4, <1>5, <1>6, <1>7

\* The elements of the last sequence and those before it.
LEMMA FrontAndLast ==
    ASSUME NEW q, IsLists(q), q # <<>>
    PROVE  /\ IsLists(Front(q)) /\ IsSequence(Last(q))
           /\ Len(Front(q)) = Len(q) - 1 /\ Len(q) \in Nat \ {0}
           /\ \A i \in 1..(Len(q) - 1) : Front(q)[i] = q[i]
           /\ Total(q) = Total(Front(q)) + Len(Last(q))
  <1>1. PICK U : q \in Seq(Seq(U))
    BY ListsAreTyped
  <1>2. Len(q) \in Nat \ {0} /\ Last(q) = q[Len(q)] /\ Last(q) \in Seq(U)
    BY <1>1 DEF Last
  <1> DEFINE f == SubSeq(q, 1, Len(q) - 1)
             l == Last(q)
             p == Append(f, l)
  <1>3. Front(q) = f
    BY DEF Front
  <1>4. /\ f \in Seq(Seq(U)) /\ Len(f) = Len(q) - 1
        /\ \A i \in 1..(Len(q) - 1) : f[i] = q[i]
    <2>1. 1 \in Int /\ Len(q) - 1 \in Int /\ \A i \in 1..(Len(q) - 1) : q[i] \in Seq(U)
      BY <1>1, <1>2
    <2>2. /\ f \in Seq(Seq(U)) /\ Len(f) = IF 1 <= Len(q) - 1 THEN Len(q) - 1 - 1 + 1 ELSE 0
          /\ \A i \in 1..(Len(q) - 1 - 1 + 1) : f[i] = q[1 + i - 1]
      BY <2>1, SubSeqProperties
    <2> HIDE DEF f
    <2>3. Len(q) - 1 - 1 + 1 = Len(q) - 1 /\ (~(1 <= Len(q) - 1) => Len(q) - 1 = 0)
      <3> DEFINE n == Len(q)
      <3>1. n \in Nat \ {0}
        BY <1>2
      <3> HIDE DEF n
      <3>2. n - 1 - 1 + 1 = n - 1 /\ (~(1 <= n - 1) => n - 1 = 0)
        BY <3>1
      <3> QED
        BY <3>2 DEF n
    <2>4. Len(f) = Len(q) - 1
      BY <2>2, <2>3
    <2>5. ASSUME NEW i \in 1..(Len(q) - 1)
          PROVE  f[i] = q[i]
      <3>1. 1 + i - 1 = i
        BY <1>2
      <3> QED
        BY <2>2, <2>3, <3>1
    <2> QED
      BY <2>2, <2>4, <2>5
  <1>5. IsLists(f) /\ IsSequence(l)
    BY <1>2, <1>4, ListsOf, SequenceOfItsElements
  <1> HIDE DEF f, l
  <1>6. p = q
    <2>1. /\ p \in Seq(Seq(U)) /\ Len(p) = Len(f) + 1
          /\ \A i \in 1..Len(f) : p[i] = f[i]
          /\ p[Len(f) + 1] = l
      BY <1>2, <1>4, AppendProperties DEF l
    <2> HIDE DEF p
    <2>2. Len(p) = Len(q)
      BY <1>2, <1>4, <2>1
    <2>3. ASSUME NEW i \in 1..Len(q)
          PROVE  p[i] = q[i]
      <3>1. CASE i = Len(q)
        BY <1>2, <1>4, <2>1, <3>1 DEF l
      <3>2. CASE i # Len(q)
        <4>1. i \in 1..(Len(q) - 1)
          BY <1>2, <3>2
        <4> QED
          BY <1>4, <2>1, <4>1
      <3> QED
        BY <3>1, <3>2
    <2> QED
      BY <1>1, <2>1, <2>2, <2>3, SeqEqual
  <1>7. Total(p) = Total(f) + Len(l)
    BY <1>5, TotalOfAppend
  <1> QED
    BY <1>2, <1>3, <1>4, <1>5, <1>6, <1>7 DEF l

\* Sequences of the same lengths, whatever is in them.
SameLengths(p, q) ==
    /\ IsLists(p) /\ IsLists(q) /\ Len(p) = Len(q)
    /\ \A i \in 1..Len(q) : Len(p[i]) = Len(q[i])

\* Sequences of sequences that agree in all lengths.
LEMMA SameLengthsSameTotals ==
    ASSUME NEW p, NEW q, SameLengths(p, q)
    PROVE  /\ Total(p) = Total(q)
           /\ p = <<>> <=> q = <<>>
           /\ q # <<>> => Len(Head(p)) = Len(Head(q)) /\ Total(Tail(p)) = Total(Tail(q))
  <1>1. Total(p) = Total(q)
    BY TotalOfSameLengths DEF SameLengths
  <1>2. p = <<>> <=> q = <<>>
    <2>1. p \in Seq(ToSet(p)) /\ q \in Seq(ToSet(q)) /\ Len(p) = Len(q)
      BY DEF SameLengths, IsLists, IsSequence
    <2> QED
      BY <2>1, EmptySeq
  <1>3. ASSUME q # <<>>
        PROVE  Len(Head(p)) = Len(Head(q)) /\ Total(Tail(p)) = Total(Tail(q))
    <2>1. /\ Head(p) = p[1] /\ Total(Tail(p)) \in Nat /\ Len(Head(p)) \in Nat
          /\ Total(p) = Len(Head(p)) + Total(Tail(p))
      BY <1>2, <1>3, TotalOfTail DEF SameLengths
    <2>2. /\ Head(q) = q[1] /\ Total(Tail(q)) \in Nat /\ Len(Head(q)) \in Nat
          /\ Total(q) = Len(Head(q)) + Total(Tail(q)) /\ Len(q) \in Nat \ {0}
      BY <1>3, TotalOfTail DEF SameLengths
    <2>3. Len(Head(p)) = Len(Head(q))
      BY <2>1, <2>2 DEF SameLengths
    <2> DEFINE h == Len(Head(q))
               m == Total(Tail(p))
               n == Total(Tail(q))
    <2>4. h \in Nat /\ m \in Nat /\ n \in Nat /\ h + m = h + n
      BY <1>1, <2>1, <2>2, <2>3
    <2>5. m = n
      <3> HIDE DEF h, m, n
      <3> QED
        BY <2>4
    <2> QED
      BY <2>3, <2>5
  <1> QED
    BY <1>1, <1>2, <1>3

\* A sequence behind which come k elements x and then e.
Lengthened(s, k, x, e) == s \o [i \in 1..k |-> x] \o <<e>>

\* Its elements, one by one.
LEMMA LengthenedByIndex ==
    ASSUME NEW s, IsSequence(s), NEW x, NEW e, NEW k \in Nat
    PROVE  LET t == Lengthened(s, k, x, e)
           IN  /\ IsSequence(t) /\ Len(s) \in Nat /\ Len(t) = Len(s) + k + 1
               /\ \A i \in 1..Len(t) : t[i] = IF i <= Len(s) THEN s[i]
                                              ELSE IF i <= Len(s) + k THEN x ELSE e
  <1> DEFINE S == ToSet(s) \cup {x, e}
             m == Len(s)
             gap == [i \in 1..k |-> x]
             o == <<e>>
             a == s \o gap
             t == a \o o
  <1>1. s \in Seq(S) /\ m \in Nat
    <2>1. s \in Seq(ToSet(s))
      BY DEF IsSequence
    <2>2. ToSet(s) \subseteq S
      OBVIOUS
    <2> HIDE DEF S
    <2> QED
      BY <2>1, <2>2, SeqMonotonic
  <1>2. gap \in Seq(S) /\ Len(gap) = k /\ \A i \in 1..k : gap[i] = x
    OBVIOUS
  <1>3. o \in Seq(S) /\ Len(o) = 1 /\ o[1] = e
    OBVIOUS
  <1> HIDE DEF S, m, gap, o
  <1>4. /\ a \in Seq(S) /\ Len(a) = m + k
        /\ \A i \in 1..(m + k) : a[i] = IF i <= m THEN s[i] ELSE gap[i - m]
    BY <1>1, <1>2, ConcatProperties DEF m
  <1>5. \A i \in 1..(m + k) : a[i] = IF i <= m THEN s[i] ELSE x
    <2> TAKE i \in 1..(m + k)
    <2>1. ~(i <= m) => i - m \in 1..k
      BY <1>1
    <2> QED
      BY <1>2, <1>4, <2>1
  <1> HIDE DEF a
  <1>6. /\ t \in Seq(S) /\ Len(t) = m + k + 1
        /\ \A i \in 1..(m + k + 1) : t[i] = IF i <= m + k THEN a[i] ELSE o[i - (m + k)]
    <2> DEFINE l == m + k
    <2>1. Len(a) = l
      BY <1>4
    <2> HIDE DEF l
    <2>2. /\ t \in Seq(S) /\ Len(t) = l + 1
          /\ \A i \in 1..(l + 1) : t[i] = IF i <= l THEN a[i] ELSE o[i - l]
      <3>1. /\ t \in Seq(S) /\ Len(t) = Len(a) + Len(o)
            /\ \A i \in 1..(Len(a) + Len(o)) :
                  t[i] = IF i <= Len(a) THEN a[i] ELSE o[i - Len(a)]
        BY <1>3, <1>4, ConcatProperties
      <3> HIDE DEF t
      <3> QED
        BY <1>3, <2>1, <3>1
    <2> QED
      BY <2>2 DEF l
  <1> HIDE DEF t
  <1>7. \A i \in 1..(m + k + 1) : t[i] = IF i <= m THEN s[i] ELSE IF i <= m + k THEN x ELSE e
    <2> TAKE i \in 1..(m + k + 1)
    <2>1. i <= m + k => i \in 1..(m + k)
      BY <1>1
    <2>2. ~(i <= m + k) => i - (m + k) = 1
      BY <1>1
    <2>3. i <= m => i <= m + k
      BY <1>1
    <2> QED
      BY <1>3, <1>5, <1>6, <2>1, <2>2, <2>3
  <1>8. IsSequence(t)
    BY <1>6, SequenceOfItsElements
  <1> QED
    BY <1>1, <1>6, <1>7, <1>8 DEF Lengthened, t, a, m, gap, o

\* Empty sequences and then one more, behind a sequence of sequences.
LEMMA TotalOfLengthened ==
    ASSUME NEW p, IsLists(p), NEW q, IsLists(q), NEW k \in Nat,
           Len(q) = Len(p) + k + 1,
           \A i \in 1..Len(p) : Len(q[i]) = Len(p[i]),
           \A i \in (Len(p) + 1)..(Len(p) + k) : Len(q[i]) = 0
    PROVE  Total(q) = Total(p) + Len(q[Len(p) + k + 1])
  <1> DEFINE m == Len(p)
             l == Len(q[Len(p) + k + 1])
  <1>1. PICK f : IsSum(f, p)
    BY SumExists
  <1>2. /\ m \in Nat /\ \A i \in 1..m : Len(p[i]) \in Nat
        /\ \A i \in 1..(m + k + 1) : Len(q[i]) \in Nat
    BY ListsAreTyped
  <1>3. Total(p) = f[m]
    BY <1>1, FlattenSum
  <1> DEFINE g == [i \in 0..(m + k + 1) |-> IF i <= m THEN f[i]
                                            ELSE IF i <= m + k THEN f[m] ELSE f[m] + l]
  <1> HIDE DEF m
  <1>4. /\ f \in [0..m -> Nat] /\ f[0] = 0
        /\ \A i \in 1..m : f[i] = f[i - 1] + Len(p[i])
    BY <1>1 DEF IsSum, m
  <1>5. l \in Nat
    <2>1. Len(p) + k + 1 = m + k + 1 /\ m + k + 1 \in 1..(m + k + 1)
      BY <1>2 DEF m
    <2> QED
      BY <1>2, <2>1
  <1> HIDE DEF l
  <1>6. g \in [0..(m + k + 1) -> Nat] /\ g[0] = 0 /\ g[m + k + 1] = f[m] + l
    BY <1>2, <1>4, <1>5
  <1>7. ASSUME NEW i \in 1..(m + k + 1)
        PROVE  g[i] = g[i - 1] + Len(q[i])
    <2>1. CASE i <= m
      <3>1. i \in 1..m /\ i - 1 <= m
        BY <1>2, <2>1
      <3>2. g[i] = f[i] /\ g[i - 1] = f[i - 1]
        BY <1>2, <3>1
      <3>3. Len(q[i]) = Len(p[i])
        BY <3>1 DEF m
      <3> HIDE DEF g
      <3> QED
        BY <1>4, <3>1, <3>2, <3>3
    <2>2. CASE i > m /\ i <= m + k
      <3>1. g[i] = f[m] /\ g[i - 1] = f[m]
        <4>1. i - 1 \in 0..(m + k + 1) /\ (i - 1 <= m => i - 1 = m) /\ i - 1 <= m + k
          BY <1>2, <2>2
        <4>2. g[i] = f[m]
          BY <1>2, <2>2
        <4>3. CASE i - 1 <= m
          <5>1. i - 1 = m /\ m \in 0..(m + k + 1) /\ m <= m
            BY <1>2, <4>1, <4>3
          <5>2. g[m] = f[m]
            BY <5>1
          <5> QED
            BY <4>2, <5>1, <5>2
        <4>4. CASE ~(i - 1 <= m)
          BY <4>1, <4>2, <4>4
        <4> QED
          BY <4>3, <4>4
      <3>2. Len(q[i]) = 0
        BY <1>2, <2>2 DEF m
      <3>3. f[m] \in Nat
        BY <1>2, <1>4
      <3> HIDE DEF g
      <3> QED
        BY <3>1, <3>2, <3>3
    <2>3. CASE i = m + k + 1
      <3>1. (m + k + 1) - 1 = m + k
        BY <1>2
      <3>2. g[m + k] = f[m]
        <4>1. m + k \in 0..(m + k + 1) /\ m + k <= m + k /\ (m + k <= m => m + k = m)
          BY <1>2
        <4>2. CASE m + k <= m
          <5>1. m + k = m /\ m \in 0..(m + k + 1) /\ m <= m
            BY <1>2, <4>1, <4>2
          <5>2. g[m] = f[m]
            BY <5>1
          <5> QED
            BY <5>1, <5>2
        <4>3. CASE ~(m + k <= m)
          BY <4>1, <4>3
        <4> QED
          BY <4>2, <4>3
      <3>3. Len(q[i]) = l
        BY <2>3 DEF l, m
      <3> HIDE DEF g
      <3> QED
        BY <1>6, <2>3, <3>1, <3>2, <3>3
    <2> QED
      BY <1>2, <2>1, <2>2, <2>3
  <1> HIDE DEF g
  <1>8. IsSum(g, q)
    BY <1>6, <1>7 DEF IsSum, m
  <1>9. Total(q) = g[Len(q)]
    BY <1>8, FlattenSum
  <1> QED
    BY <1>3, <1>6, <1>9 DEF l, m

\* Taking the only element away.
LEMMA RemoveOnly ==
    ASSUME NEW a
    PROVE  RemoveAt(<<a>>, 1) = <<>>
  <1> DEFINE p == <<a>>
             f == SubSeq(p, 1, 0)
             t == SubSeq(p, 2, 1)
  <1>1. Len(p) = 1
    OBVIOUS
  <1>2. RemoveAt(p, 1) = f \o t
    BY <1>1 DEF RemoveAt
  <1>3. f = <<>> /\ t = <<>>
    BY SubSeqEmpty
  <1>4. <<>> \o <<>> = <<>>
    BY ConcatEmptySeq
  <1> QED
    BY <1>2, <1>3, <1>4

-----------------------------------------------------------------------------
(* Flattening, from either end. *)

\* Three sequences one behind the other.
Associate(a, b, c) == (a \o b) \o c = a \o (b \o c)

LEMMA Associates ==
    ASSUME NEW U, NEW a \in Seq(U), NEW b \in Seq(U), NEW c \in Seq(U)
    PROVE  Associate(a, b, c)
  BY ConcatAssociative DEF Associate

\* The first sequence comes first.
LEMMA FlattenHead ==
    ASSUME NEW U, NEW q \in Seq(Seq(U)), q # <<>>
    PROVE  /\ FlattenSeq(Tail(q)) \in Seq(U)
           /\ FlattenSeq(q) = q[1] \o FlattenSeq(Tail(q))
  <1> DEFINE t == Tail(q)
             n == Len(t)
  <1>1. /\ t \in Seq(Seq(U)) /\ n \in Nat /\ Len(q) = n + 1 /\ q[1] \in Seq(U)
        /\ \A i \in 1..n : t[i] = q[i + 1] /\ t[i] \in Seq(U)
    <2>1. /\ t \in Seq(Seq(U)) /\ n = Len(q) - 1 /\ Len(q) \in Nat \ {0}
          /\ \A i \in 1..n : t[i] = q[i + 1]
      BY HeadTailProperties
    <2> HIDE DEF t
    <2> QED
      BY <2>1
  <1>2. PICK f \in [1..Len(q) -> Seq(U)] :
           /\ \A i \in 1..Len(q) : f[i] = IF i = 1 THEN q[1] ELSE f[i - 1] \o q[i]
           /\ FlattenSeq(q) = f[Len(q)]
    BY FlattenRuns
  <1> HIDE DEF n
  <1>3. CASE t = <<>>
    <2>1. n = 0 /\ FlattenSeq(t) = <<>>
      BY <1>3 DEF n, FlattenSeq
    <2>2. FlattenSeq(q) = q[1]
      BY <1>1, <1>2, <2>1
    <2>3. q[1] \o <<>> = q[1] /\ <<>> \in Seq(U)
      BY <1>1, ConcatEmptySeq, EmptySeq
    <2> QED
      BY <2>1, <2>2, <2>3
  <1>4. CASE t # <<>>
    <2>1. PICK g \in [1..Len(t) -> Seq(U)] :
             /\ \A i \in 1..Len(t) : g[i] = IF i = 1 THEN t[1] ELSE g[i - 1] \o t[i]
             /\ FlattenSeq(t) = g[Len(t)]
      <3> HIDE DEF t
      <3> QED
        BY <1>1, <1>4, FlattenRuns
    <2>2. n \in Nat \ {0}
      <3>1. Len(t) # 0
        <4> HIDE DEF t
        <4> QED
          BY <1>1, <1>4
      <3> QED
        BY <1>1, <3>1 DEF n
    <2>3. /\ \A i \in 1..n : g[i] = IF i = 1 THEN t[1] ELSE g[i - 1] \o t[i]
          /\ \A i \in 1..n : g[i] \in Seq(U)
          /\ FlattenSeq(t) = g[n]
      BY <2>1 DEF n
    <2> HIDE DEF t
    <2> DEFINE T == {k \in Nat : k + 1 \in 1..n => f[k + 2] = q[1] \o g[k + 1]}
    <2>4. 0 \in T
      <3>1. /\ 1 \in 1..n /\ 1 \in 1..Len(q) /\ 2 \in 1..Len(q) /\ 2 # 1
            /\ 2 - 1 = 1 /\ 1 + 1 = 2
        BY <1>1, <2>2
      <3>2. f[1] = q[1]
        BY <1>2, <3>1
      <3>3. f[2] = f[1] \o q[2]
        BY <1>2, <3>1
      <3>4. g[1] = q[2]
        BY <1>1, <2>3, <3>1
      <3>5. f[0 + 2] = q[1] \o g[0 + 1]
        <4>1. 0 + 2 = 2 /\ 0 + 1 = 1
          OBVIOUS
        <4> QED
          BY <3>2, <3>3, <3>4, <4>1, Zenon
      <3> QED
        BY <3>5
    <2>5. ASSUME NEW k \in Nat, k \in T
          PROVE  k + 1 \in T
      <3> SUFFICES ASSUME k + 2 \in 1..n
                   PROVE  f[k + 3] = q[1] \o g[k + 2]
        <4>1. (k + 1) + 2 = k + 3 /\ (k + 1) + 1 = k + 2 /\ k + 1 \in Nat
          OBVIOUS
        <4> QED
          BY <4>1
      <3>1. f[k + 2] = q[1] \o g[k + 1]
        <4>1. k + 1 \in 1..n
          BY <2>2
        <4> QED
          BY <2>5, <4>1
      <3>2. f[k + 3] = f[k + 2] \o q[k + 3]
        <4>1. k + 3 \in 1..Len(q) /\ k + 3 # 1 /\ (k + 3) - 1 = k + 2
          BY <1>1
        <4> QED
          BY <1>2, <4>1
      <3>3. g[k + 2] = g[k + 1] \o t[k + 2]
        <4>1. k + 2 # 1 /\ (k + 2) - 1 = k + 1
          OBVIOUS
        <4> QED
          BY <2>3, <4>1
      <3>4. t[k + 2] = q[k + 3] /\ t[k + 2] \in Seq(U)
        <4>1. (k + 2) + 1 = k + 3
          OBVIOUS
        <4> QED
          BY <1>1, <4>1
      <3>5. g[k + 1] \in Seq(U)
        BY <1>1, <2>3
      <3>6. (q[1] \o g[k + 1]) \o t[k + 2] = q[1] \o (g[k + 1] \o t[k + 2])
        <4>1. q[1] \in Seq(U) /\ g[k + 1] \in Seq(U) /\ t[k + 2] \in Seq(U)
          BY <1>1, <3>4, <3>5
        <4> HIDE DEF T
        <4>2. Associate(q[1], g[k + 1], t[k + 2])
          BY <4>1, Associates
        <4> QED
          BY <4>2 DEF Associate
      <3> QED
        BY <3>1, <3>2, <3>3, <3>4, <3>6
    <2>6. n - 1 \in T
      <3>1. \A k \in Nat : k \in T
        <4> HIDE DEF T
        <4> QED
          BY <2>4, <2>5, SetInduction
      <3>2. n - 1 \in Nat
        BY <2>2
      <3> HIDE DEF T
      <3> QED
        BY <3>1, <3>2
    <2>7. f[n + 1] = q[1] \o g[n]
      <3>1. (n - 1) + 1 = n /\ (n - 1) + 2 = n + 1 /\ n \in 1..n
        BY <2>2
      <3> QED
        BY <2>6, <3>1
    <2>8. FlattenSeq(q) = f[n + 1] /\ g[n] \in Seq(U)
      BY <1>1, <1>2, <2>2, <2>3
    <2> QED
      BY <2>3, <2>7, <2>8 DEF t
  <1> QED
    BY <1>3, <1>4

\* The last sequence comes last.
LEMMA FlattenAppend ==
    ASSUME NEW U, NEW q \in Seq(Seq(U)), NEW x \in Seq(U)
    PROVE  /\ FlattenSeq(q) \in Seq(U)
           /\ FlattenSeq(Append(q, x)) = FlattenSeq(q) \o x
  <1> DEFINE t == Append(q, x)
             n == Len(q)
  <1>1. /\ t \in Seq(Seq(U)) /\ n \in Nat /\ Len(t) = n + 1 /\ t # <<>> /\ t[n + 1] = x
        /\ \A i \in 1..n : t[i] = q[i]
    BY AppendProperties
  <1> HIDE DEF t
  <1>2. PICK f \in [1..Len(t) -> Seq(U)] :
           /\ \A i \in 1..Len(t) : f[i] = IF i = 1 THEN t[1] ELSE f[i - 1] \o t[i]
           /\ FlattenSeq(t) = f[Len(t)]
    BY <1>1, FlattenRuns
  <1>3. CASE q = <<>>
    <2>1. n = 0 /\ FlattenSeq(q) = <<>>
      BY <1>3 DEF FlattenSeq
    <2>2. FlattenSeq(t) = x
      BY <1>1, <1>2, <2>1
    <2>3. <<>> \o x = x /\ <<>> \in Seq(U)
      BY ConcatEmptySeq, EmptySeq
    <2> QED
      BY <2>1, <2>2, <2>3 DEF t
  <1>4. CASE q # <<>>
    <2>1. PICK g \in [1..n -> Seq(U)] :
             /\ \A i \in 1..n : g[i] = IF i = 1 THEN q[1] ELSE g[i - 1] \o q[i]
             /\ FlattenSeq(q) = g[n]
      BY <1>4, FlattenRuns
    <2>2. n \in Nat \ {0}
      BY <1>4
    <2> HIDE DEF n
    <2> DEFINE T == {k \in Nat : k + 1 \in 1..n => f[k + 1] = g[k + 1]}
    <2>3. 0 \in T
      <3>1. 1 \in 1..n /\ 1 \in 1..Len(t)
        BY <1>1, <2>2
      <3>2. f[1] = t[1] /\ g[1] = q[1] /\ t[1] = q[1]
        BY <1>1, <1>2, <2>1, <3>1
      <3>3. f[0 + 1] = g[0 + 1]
        BY <3>2
      <3> QED
        BY <3>3
    <2>4. ASSUME NEW k \in Nat, k \in T
          PROVE  k + 1 \in T
      <3> SUFFICES ASSUME k + 2 \in 1..n
                   PROVE  f[k + 2] = g[k + 2]
        OBVIOUS
      <3>1. f[k + 1] = g[k + 1]
        BY <2>2, <2>4
      <3>2. k + 2 \in 1..Len(t) /\ k + 2 # 1 /\ (k + 2) - 1 = k + 1
        BY <1>1
      <3>3. f[k + 2] = f[k + 1] \o t[k + 2]
        BY <1>2, <3>2
      <3>4. g[k + 2] = g[k + 1] \o q[k + 2]
        BY <2>1, <3>2
      <3> QED
        BY <1>1, <3>1, <3>3, <3>4
    <2>5. n - 1 \in T
      <3>1. \A k \in Nat : k \in T
        <4> HIDE DEF T
        <4> QED
          BY <2>3, <2>4, SetInduction
      <3>2. n - 1 \in Nat
        BY <2>2
      <3> HIDE DEF T
      <3> QED
        BY <3>1, <3>2
    <2>6. f[n] = g[n]
      <3>1. (n - 1) + 1 = n /\ n \in 1..n
        BY <2>2
      <3> QED
        BY <2>5, <3>1
    <2>7. f[n + 1] = f[n] \o x
      <3>1. n + 1 \in 1..Len(t) /\ n + 1 # 1 /\ (n + 1) - 1 = n
        BY <1>1, <2>2
      <3> QED
        BY <1>1, <1>2, <3>1
    <2> QED
      BY <1>1, <1>2, <2>1, <2>2, <2>6, <2>7 DEF t
  <1> QED
    BY <1>3, <1>4

\* A sequence and one that continues it.
LEMMA PrefixSplits ==
    ASSUME NEW S, NEW s \in Seq(S), NEW t \in Seq(S), IsPrefix(s, t)
    PROVE  /\ SubSeq(t, Len(s) + 1, Len(t)) \in Seq(S)
           /\ t = s \o SubSeq(t, Len(s) + 1, Len(t))
  <1>1. Len(s) <= Len(t) /\ s = SubSeq(t, 1, Len(s)) /\ Len(s) \in Nat /\ Len(t) \in Nat
    BY DEF IsPrefix
  <1>2. SubSeq(t, 1, Len(s)) \o SubSeq(t, Len(s) + 1, Len(t)) = SubSeq(t, 1, Len(t))
    <2> DEFINE m == 1
               k == Len(s)
               n == Len(t)
    <2>1. m \in 1..(Len(t) + 1) /\ k \in (m - 1)..Len(t) /\ n \in k..Len(t)
      BY <1>1
    <2> HIDE DEF m, k, n
    <2>2. SubSeq(t, m, k) \o SubSeq(t, k + 1, n) = SubSeq(t, m, n)
      BY <2>1, ConcatAdjacentSubSeq
    <2> QED
      BY <2>2 DEF m, k, n
  <1>3. SubSeq(t, 1, Len(t)) = t
    BY SubSeqFull
  <1>4. SubSeq(t, Len(s) + 1, Len(t)) \in Seq(S)
    BY <1>1
  <1> QED
    BY <1>1, <1>2, <1>3, <1>4

\* The parts of two sequences, one behind the other.
LEMMA ConcatSplits ==
    ASSUME NEW S, NEW s \in Seq(S), NEW t \in Seq(S)
    PROVE  /\ IsPrefix(s, s \o t)
           /\ SubSeq(s \o t, Len(s) + 1, Len(s \o t)) = t
  <1> DEFINE r == s \o t
             m == Len(s)
             rest == SubSeq(r, m + 1, Len(r))
  <1>1. /\ r \in Seq(S) /\ Len(r) = m + Len(t) /\ m \in Nat /\ Len(t) \in Nat
        /\ \A i \in 1..(m + Len(t)) : r[i] = IF i <= m THEN s[i] ELSE t[i - m]
    BY ConcatProperties
  <1> HIDE DEF r
  <1>2. m <= Len(r) /\ \A i \in 1..m : s[i] = r[i]
    BY <1>1
  <1>3. IsPrefix(s, r)
    BY <1>1, <1>2, PrefixByIndex
  <1>4. rest \in Seq(S) /\ r = s \o rest
    BY <1>1, <1>3, PrefixSplits
  <1>5. rest = t
    <2> HIDE DEF rest
    <2>1. s \o rest = s \o t
      BY <1>4 DEF r
    <2> QED
      BY <1>4, <2>1, ConcatSimplifications
  <1> QED
    BY <1>3, <1>5 DEF r

\* How long two sequences are, one behind the other.
LEMMA ConcatLength ==
    ASSUME NEW S, NEW a \in Seq(S), NEW b \in Seq(S)
    PROVE  /\ a \o b \in Seq(S) /\ Len(a \o b) = Len(a) + Len(b)
           /\ Len(a) \in Nat /\ Len(b) \in Nat
  <1>1. Len(a) \in Nat /\ Len(b) \in Nat
    BY LenProperties
  <1> QED
    BY <1>1, ConcatProperties

\* Two sequences that are the same, of which the first parts have one length.
LEMMA ConcatCancels ==
    ASSUME NEW S, NEW a \in Seq(S), NEW b \in Seq(S), NEW c \in Seq(S), NEW d \in Seq(S),
           a \o b = c \o d, Len(a) = Len(c)
    PROVE  a = c /\ b = d
  <1>1. \A i \in 1..Len(a) : (a \o b)[i] = a[i] /\ (c \o d)[i] = c[i]
    BY ConcatProperties
  <1>2. a = c
    BY <1>1, SeqEqual
  <1>3. a \o b = a \o d
    BY <1>2
  <1> QED
    BY <1>2, <1>3, ConcatSimplifications

\* A finite set as a sequence.
LEMMA SetToSeqIsSequence ==
    ASSUME NEW S, IsFiniteSet(S)
    PROVE  SetToSeq(S) \in Seq(S) /\ ToSet(SetToSeq(S)) = S
  <1> DEFINE n == Cardinality(S)
             s == SetToSeq(S)
  <1>1. n \in Nat /\ ExistsBijection(1..n, S)
    BY FS_CardinalityType
  <1>2. PICK b : b \in Bijection(1..n, S)
    BY <1>1 DEF ExistsBijection
  <1>3. b \in [1..n -> S] /\ IsInjective(b)
    BY <1>2 DEF Bijection, Injection, IsInjective
  <1>4. s \in [1..n -> S] /\ IsInjective(s)
    BY <1>3 DEF SetToSeq
  <1>5. s \in Seq(S) /\ Len(s) = n
    <2> HIDE DEF s, n
    <2>1. s \in Seq(S)
      BY <1>1, <1>4, SeqDef
    <2> QED
      BY <1>1, <1>4, <2>1
  <1>6. s \in Injection(1..n, S)
    BY <1>4 DEF Injection, IsInjective
  <1>7. IsFiniteSet(1..n) /\ Cardinality(1..n) = n
    BY <1>1, FS_Interval
  <1>8. s \in Surjection(1..n, S)
    <2> HIDE DEF s
    <2> QED
      BY <1>6, <1>7, FS_Injection
  <1>9. ToSet(s) = S
    <2> HIDE DEF s, n
    <2> QED
      BY <1>4, <1>5, <1>8 DEF ToSet, Surjection
  <1> QED
    BY <1>5, <1>9
===============================================================================
