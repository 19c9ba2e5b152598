--------------------------- MODULE SequenceLemmas ---------------------------
(***************************************************************************)
(* Facts about natural numbers and sequences that several proofs rest on:  *)
(* induction, stated of a set, and what FlattenSeq returns.  The library's *)
(* induction theorems take an operator as a parameter, which the provers   *)
(* cannot instantiate; a set they can.                                     *)
(***************************************************************************)
EXTENDS Integers, Sequences, SequencesExt, SequenceTheorems, WellFoundedInduction, TLAPS

\* Natural numbers have a least one among them.
LEMMA LeastOf ==
  ASSUME NEW places, places \subseteq Nat, places # {}
  PROVE  \E k \in places : \A j \in places : k <= j
<1>1. PICK k \in places : \A j \in places : <<j, k>> \notin OpToRel(<, Nat)
  BY NatLessThanWellFounded, WFMin
<1>2. ASSUME NEW j \in places PROVE k <= j
  <2>1. ~(j < k)
    <3> DEFINE pair == <<j, k>>
    <3>1. pair \in Nat \X Nat /\ pair[1] = j /\ pair[2] = k
      OBVIOUS
    <3>2. pair \notin {ss \in Nat \X Nat : ss[1] < ss[2]}
      BY <1>1 DEF OpToRel
    <3> HIDE DEF pair
    <3> QED
      BY <3>1, <3>2
  <2> QED
    BY <2>1
<1> QED
  BY <1>2

\* Induction over the natural numbers.
LEMMA Induction ==
  ASSUME NEW S, 0 \in S, \A n \in Nat : n \in S => n + 1 \in S
  PROVE  \A n \in Nat : n \in S
<1> SUFFICES ASSUME Nat \ S # {} PROVE FALSE
  OBVIOUS
<1>1. PICK k \in Nat \ S : \A j \in Nat \ S : k <= j
  BY LeastOf, Nat \ S \subseteq Nat
<1>2. k # 0 /\ k - 1 \in Nat /\ (k - 1) + 1 = k
  BY <1>1
<1>3. k - 1 \in S
  BY <1>1, <1>2
<1> QED
  BY <1>1, <1>2, <1>3

\* One sequence behind another.
LEMMA Joined ==
  ASSUME NEW T, NEW a \in Seq(T), NEW b \in Seq(T)
  PROVE  /\ a \o b \in Seq(T) /\ Len(a \o b) = Len(a) + Len(b)
         /\ \A j \in 1..Len(a) : (a \o b)[j] = a[j]
         /\ \A j \in 1..Len(b) : (a \o b)[Len(a) + j] = b[j]
OBVIOUS

-----------------------------------------------------------------------------
(***************************************************************************)
(* FlattenSeq.                                                             *)
(***************************************************************************)
\* The recursive function of its definition, for the first n sequences.
Flattens(f, seqs, n) ==
  f = [k \in 1..n |-> IF k = 1 THEN seqs[k] ELSE f[k - 1] \o seqs[k]]

\* There is such a function.
LEMMA FlattenExists ==
  ASSUME NEW seqs
  PROVE  \A n \in Nat : \E f : Flattens(f, seqs, n)
<1> DEFINE S == {n \in Nat : \E f : Flattens(f, seqs, n)}
<1>1. 0 \in S
  <2> DEFINE f == [k \in 1..0 |-> k]
  <2>1. Flattens(f, seqs, 0)
    BY DEF Flattens
  <2> QED
    BY <2>1
<1>2. ASSUME NEW n \in Nat, n \in S PROVE n + 1 \in S
  <2>1. PICK f : Flattens(f, seqs, n)
    BY <1>2
  <2> DEFINE new == IF n = 0 THEN seqs[1] ELSE f[n] \o seqs[n + 1]
             g == [k \in 1..(n + 1) |-> IF k = n + 1 THEN new ELSE f[k]]
  <2>2. ASSUME NEW k \in 1..(n + 1)
        PROVE  g[k] = IF k = 1 THEN seqs[k] ELSE g[k - 1] \o seqs[k]
    <3>1. CASE k = n + 1
      BY <3>1
    <3>2. CASE k # n + 1
      <4>1. k \in 1..n /\ g[k] = f[k]
        BY <3>2
      <4>2. f[k] = IF k = 1 THEN seqs[k] ELSE f[k - 1] \o seqs[k]
        BY <4>1, <2>1 DEF Flattens
      <4>3. k # 1 => k - 1 \in 1..n /\ g[k - 1] = f[k - 1]
        BY <4>1
      <4> QED
        BY <4>1, <4>2, <4>3
    <3> QED
      BY <3>1, <3>2
  <2>3. Flattens(g, seqs, n + 1)
    <3>1. g = [k \in 1..(n + 1) |-> g[k]]
      OBVIOUS
    <3> HIDE DEF g
    <3> QED
      BY <2>2, <3>1 DEF Flattens
  <2> QED
    BY <2>3
<1> HIDE DEF S
<1>3. \A n \in Nat : n \in S
  BY <1>1, <1>2, Induction
<1> QED
  BY <1>3 DEF S

LEMMA FlattensAt ==
  ASSUME NEW f, NEW seqs, NEW n, Flattens(f, seqs, n), NEW k \in 1..n
  PROVE  f[k] = IF k = 1 THEN seqs[k] ELSE f[k - 1] \o seqs[k]
BY DEF Flattens

\* Two of them agree where they and their sequences overlap.
LEMMA FlattenUnique ==
  ASSUME NEW seqs, NEW more, NEW n \in Nat, NEW m \in Nat, n <= m,
         \A k \in 1..n : seqs[k] = more[k],
         NEW f, Flattens(f, seqs, n), NEW g, Flattens(g, more, m)
  PROVE  \A k \in 1..n : f[k] = g[k]
<1> DEFINE S == {k \in Nat : k \in 1..n => f[k] = g[k]}
<1>1. 0 \in S
  OBVIOUS
<1>2. ASSUME NEW k \in Nat, k \in S PROVE k + 1 \in S
  <2> SUFFICES ASSUME k + 1 \in 1..n PROVE f[k + 1] = g[k + 1]
    OBVIOUS
  <2>1. /\ f[k + 1] = IF k + 1 = 1 THEN seqs[k + 1] ELSE f[k + 1 - 1] \o seqs[k + 1]
        /\ g[k + 1] = IF k + 1 = 1 THEN more[k + 1] ELSE g[k + 1 - 1] \o more[k + 1]
    <3>1. k + 1 \in 1..m
      OBVIOUS
    <3> HIDE DEF S
    <3> QED
      BY <3>1, FlattensAt
  <2>2. k + 1 - 1 = k /\ seqs[k + 1] = more[k + 1]
    OBVIOUS
  <2>3. k + 1 # 1 => f[k] = g[k]
    BY <1>2
  <2> QED
    BY <2>1, <2>2, <2>3
<1>3. \A k \in Nat : k \in S
  <2> HIDE DEF S
  <2> QED
    BY <1>1, <1>2, Induction
<1> QED
  BY <1>3

\* What FlattenSeq is, with that function.
LEMMA FlattenIs ==
  ASSUME NEW seqs, Len(seqs) \in Nat \ {0}
  PROVE  \E f : Flattens(f, seqs, Len(seqs)) /\ FlattenSeq(seqs) = f[Len(seqs)]
<1> DEFINE f == CHOOSE f : Flattens(f, seqs, Len(seqs))
<1>1. Flattens(f, seqs, Len(seqs))
  BY FlattenExists
<1>2. FlattenSeq(seqs) = f[Len(seqs)]
  BY DEF FlattenSeq, Flattens
<1> QED
  BY <1>1, <1>2

LEMMA FlattenNone == FlattenSeq(<<>>) = <<>>
BY DEF FlattenSeq

\* One more sequence is put behind.
LEMMA FlattenAppend ==
  ASSUME NEW S, NEW seqs \in Seq(Seq(S)), NEW s \in Seq(S)
  PROVE  FlattenSeq(Append(seqs, s)) = FlattenSeq(seqs) \o s
<1> DEFINE n == Len(seqs)
           more == Append(seqs, s)
<1>1. n \in Nat /\ Len(more) = n + 1 /\ more[n + 1] = s /\ \A k \in 1..n : seqs[k] = more[k]
  OBVIOUS
<1>2. PICK g : Flattens(g, more, n + 1) /\ FlattenSeq(more) = g[n + 1]
  <2> HIDE DEF n, more
  <2> QED
    BY <1>1, FlattenIs
<1>3. g[n + 1] = IF n + 1 = 1 THEN more[n + 1] ELSE g[n + 1 - 1] \o more[n + 1]
  <2> HIDE DEF n, more
  <2> QED
    BY <1>1, <1>2, FlattensAt
<1>4. CASE n = 0
  <2>1. seqs = <<>> /\ FlattenSeq(seqs) = <<>>
    BY <1>4, FlattenNone
  <2> QED
    BY <1>1, <1>2, <1>3, <1>4, <2>1
<1>5. CASE n # 0
  <2>1. PICK f : Flattens(f, seqs, n) /\ FlattenSeq(seqs) = f[n]
    BY <1>1, <1>5, FlattenIs
  <2>2. f[n] = g[n]
    <3>1. \A k \in 1..n : f[k] = g[k]
      <4> DEFINE m == n + 1
      <4>1. n \in Nat /\ m \in Nat /\ n <= m
        OBVIOUS
      <4>2. (\A k \in 1..n : seqs[k] = more[k]) /\ Flattens(f, seqs, n) /\ Flattens(g, more, m)
        BY <1>1, <1>2, <2>1
      <4> HIDE DEF more, n, m
      <4> QED
        BY ONLY <4>1, <4>2, FlattenUnique
    <3> QED
      BY <1>1, <1>5, <3>1
  <2> QED
    BY <1>1, <1>2, <1>3, <1>5, <2>1, <2>2
<1> QED
  BY <1>4, <1>5

\* The result is a sequence of the same elements.
LEMMA FlattenType ==
  ASSUME NEW S, NEW seqs \in Seq(Seq(S))
  PROVE  FlattenSeq(seqs) \in Seq(S)
<1> DEFINE n == Len(seqs)
<1>1. CASE n = 0
  <2>1. seqs = <<>> /\ <<>> \in Seq(S)
    BY <1>1
  <2>2. FlattenSeq(seqs) = <<>>
    BY <2>1, FlattenNone
  <2> QED
    BY <2>1, <2>2
<1>2. CASE n # 0
  <2>1. PICK f : Flattens(f, seqs, n) /\ FlattenSeq(seqs) = f[n]
    BY <1>2, FlattenIs
  <2> DEFINE T == {k \in Nat : k \in 1..n => f[k] \in Seq(S)}
  <2>2. 0 \in T
    OBVIOUS
  <2>3. ASSUME NEW k \in Nat, k \in T PROVE k + 1 \in T
    <3> SUFFICES ASSUME k + 1 \in 1..n PROVE f[k + 1] \in Seq(S)
      OBVIOUS
    <3>1. f[k + 1] = IF k + 1 = 1 THEN seqs[k + 1] ELSE f[k + 1 - 1] \o seqs[k + 1]
      BY <2>1, FlattensAt
    <3>2. k + 1 - 1 = k /\ seqs[k + 1] \in Seq(S) /\ (k + 1 # 1 => f[k] \in Seq(S))
      BY <2>3
    <3> QED
      BY <3>1, <3>2
  <2>4. \A k \in Nat : k \in T
    <3> HIDE DEF T
    <3> QED
      BY <2>2, <2>3, Induction
  <2> QED
    BY <1>2, <2>1, <2>4
<1> QED
  BY <1>1, <1>2
\* Where the k-th sequence begins in the result.
Offset(seqs, k) == Len(FlattenSeq(SubSeq(seqs, 1, k - 1)))

LEMMA FlattenFirst ==
  ASSUME NEW S, NEW seqs \in Seq(Seq(S)), NEW k \in 1..Len(seqs)
  PROVE  /\ SubSeq(seqs, 1, k - 1) \in Seq(Seq(S))
         /\ FlattenSeq(SubSeq(seqs, 1, k)) = FlattenSeq(SubSeq(seqs, 1, k - 1)) \o seqs[k]
<1> DEFINE first == SubSeq(seqs, 1, k - 1)
<1>1. first \in Seq(Seq(S)) /\ seqs[k] \in Seq(S)
  OBVIOUS
<1>2. SubSeq(seqs, 1, k) = Append(first, seqs[k])
  OBVIOUS
<1> HIDE DEF first
<1>3. FlattenSeq(Append(first, seqs[k])) = FlattenSeq(first) \o seqs[k]
  BY <1>1, FlattenAppend
<1> QED
  BY <1>1, <1>2, <1>3 DEF first

\* Each begins where the one before ends.
LEMMA Offsets ==
  ASSUME NEW S, NEW seqs \in Seq(Seq(S))
  PROVE  /\ Offset(seqs, 1) = 0
         /\ \A k \in 1..(Len(seqs) + 1) : Offset(seqs, k) \in Nat
         /\ \A k \in 1..Len(seqs) : Offset(seqs, k + 1) = Offset(seqs, k) + Len(seqs[k])
         /\ Offset(seqs, Len(seqs) + 1) = Len(FlattenSeq(seqs))
<1>1. Offset(seqs, 1) = 0
  <2>1. SubSeq(seqs, 1, 0) = <<>> /\ 1 - 1 = 0
    OBVIOUS
  <2>2. Offset(seqs, 1) = Len(FlattenSeq(SubSeq(seqs, 1, 0)))
    BY ONLY <2>1 DEF Offset
  <2>3. FlattenSeq(SubSeq(seqs, 1, 0)) = <<>>
    BY <2>1, FlattenNone, Zenon
  <2>4. Offset(seqs, 1) = Len(<<>>)
    BY <2>2, <2>3, Zenon
  <2> QED
    BY ONLY <2>4
<1>2. ASSUME NEW k \in 1..(Len(seqs) + 1) PROVE Offset(seqs, k) \in Nat
  <2>1. SubSeq(seqs, 1, k - 1) \in Seq(Seq(S))
    OBVIOUS
  <2>2. FlattenSeq(SubSeq(seqs, 1, k - 1)) \in Seq(S)
    BY <2>1, FlattenType
  <2> QED
    BY <2>2 DEF Offset
<1>3. ASSUME NEW k \in 1..Len(seqs)
      PROVE  Offset(seqs, k + 1) = Offset(seqs, k) + Len(seqs[k])
  <2>1. /\ SubSeq(seqs, 1, k - 1) \in Seq(Seq(S))
        /\ FlattenSeq(SubSeq(seqs, 1, k)) = FlattenSeq(SubSeq(seqs, 1, k - 1)) \o seqs[k]
    BY FlattenFirst
  <2>2. FlattenSeq(SubSeq(seqs, 1, k - 1)) \in Seq(S)
    BY <2>1, FlattenType
  <2>3. seqs[k] \in Seq(S) /\ k + 1 - 1 = k
    OBVIOUS
  <2>4. Offset(seqs, k + 1) = Len(FlattenSeq(SubSeq(seqs, 1, k)))
    BY ONLY <2>3 DEF Offset
  <2> DEFINE before == FlattenSeq(SubSeq(seqs, 1, k - 1))
             s == seqs[k]
  <2>5. before \in Seq(S) /\ s \in Seq(S) /\ Offset(seqs, k) = Len(before)
    BY <2>2, <2>3 DEF Offset
  <2>6. Offset(seqs, k + 1) = Len(before \o s)
    BY <2>1, <2>4
  <2> HIDE DEF before, s
  <2>7. Len(before \o s) = Len(before) + Len(s)
    BY <2>5
  <2> QED
    BY <2>5, <2>6, <2>7 DEF s
<1>4. Offset(seqs, Len(seqs) + 1) = Len(FlattenSeq(seqs))
  <2>1. SubSeq(seqs, 1, Len(seqs)) = seqs /\ Len(seqs) + 1 - 1 = Len(seqs)
    OBVIOUS
  <2>2. Offset(seqs, Len(seqs) + 1) = Len(FlattenSeq(SubSeq(seqs, 1, Len(seqs))))
    BY ONLY <2>1 DEF Offset
  <2> QED
    BY <2>1, <2>2
<1> QED
  BY <1>1, <1>2, <1>3, <1>4

LEMMA OffsetsAscend ==
  ASSUME NEW S, NEW seqs \in Seq(Seq(S)), NEW j \in 1..Len(seqs)
  PROVE  \A k \in (j + 1)..(Len(seqs) + 1) : Offset(seqs, j) + Len(seqs[j]) <= Offset(seqs, k)
<1> DEFINE at(k) == Offset(seqs, k)
           T == {d \in Nat : j + 1 + d <= Len(seqs) + 1 => at(j) + Len(seqs[j]) <= at(j + 1 + d)}
<1>1. /\ \A k \in 1..(Len(seqs) + 1) : at(k) \in Nat
      /\ \A k \in 1..Len(seqs) : at(k + 1) = at(k) + Len(seqs[k]) /\ Len(seqs[k]) \in Nat
  BY Offsets
<1> HIDE DEF at
<1>2. 0 \in T
  BY <1>1
<1>3. ASSUME NEW d \in Nat, d \in T PROVE d + 1 \in T
  <2> SUFFICES ASSUME j + 1 + (d + 1) <= Len(seqs) + 1
               PROVE  at(j) + Len(seqs[j]) <= at(j + 1 + (d + 1))
    OBVIOUS
  <2>1. j + 1 + d \in 1..Len(seqs) /\ j + 1 + (d + 1) = (j + 1 + d) + 1
    OBVIOUS
  <2>2. at((j + 1 + d) + 1) = at(j + 1 + d) + Len(seqs[j + 1 + d]) /\ Len(seqs[j + 1 + d]) \in Nat
    BY <1>1, <2>1
  <2>3. at(j + 1 + d) \in Nat /\ at(j) \in Nat /\ Len(seqs[j]) \in Nat
    BY <1>1, <2>1
  <2>4. at(j) + Len(seqs[j]) <= at(j + 1 + d)
    BY <1>3, <2>1
  <2> QED
    BY <2>1, <2>2, <2>3, <2>4
<1>4. \A d \in Nat : d \in T
  <2> HIDE DEF T
  <2> QED
    BY <1>2, <1>3, Induction
<1>5. ASSUME NEW k \in (j + 1)..(Len(seqs) + 1) PROVE at(j) + Len(seqs[j]) <= at(k)
  <2>1. k - (j + 1) \in Nat /\ j + 1 + (k - (j + 1)) = k /\ k <= Len(seqs) + 1
    OBVIOUS
  <2> QED
    BY <1>4, <2>1
<1> QED
  BY <1>5 DEF at

\* Each is found from there on, and nothing else is found.
LEMMA FlattenAt ==
  ASSUME NEW S, NEW seqs \in Seq(Seq(S))
  PROVE  /\ \A k \in 1..Len(seqs), p \in Nat :
              p \in 1..Len(seqs[k]) =>
                /\ Offset(seqs, k) + p \in 1..Len(FlattenSeq(seqs))
                /\ FlattenSeq(seqs)[Offset(seqs, k) + p] = seqs[k][p]
         /\ \A q \in 1..Len(FlattenSeq(seqs)) :
              \E k \in 1..Len(seqs) : q - Offset(seqs, k) \in 1..Len(seqs[k])
<1> DEFINE at(k) == Offset(seqs, k)
           flat(n) == FlattenSeq(SubSeq(seqs, 1, n))
           Good(n) ==
             /\ \A k \in 1..n, p \in Nat :
                  p \in 1..Len(seqs[k]) =>
                    at(k) + p \in 1..Len(flat(n)) /\ flat(n)[at(k) + p] = seqs[k][p]
             /\ \A q \in 1..Len(flat(n)) : \E k \in 1..n : q - at(k) \in 1..Len(seqs[k])
           T == {n \in Nat : n <= Len(seqs) => Good(n)}
<1>1. \A k \in 1..(Len(seqs) + 1) : at(k) \in Nat /\ at(k) = Len(flat(k - 1))
  BY Offsets DEF Offset
<1>2. ASSUME NEW n \in 0..Len(seqs) PROVE flat(n) \in Seq(S)
  <2>1. SubSeq(seqs, 1, n) \in Seq(Seq(S))
    OBVIOUS
  <2> QED
    BY <2>1, FlattenType
<1>3. ASSUME NEW n \in Nat, n + 1 <= Len(seqs)
      PROVE  flat(n + 1) = flat(n) \o seqs[n + 1] /\ seqs[n + 1] \in Seq(S)
  <2> DEFINE k == n + 1
  <2>1. k \in 1..Len(seqs) /\ k - 1 = n
    BY <1>3
  <2> HIDE DEF k
  <2>2. FlattenSeq(SubSeq(seqs, 1, k)) = FlattenSeq(SubSeq(seqs, 1, k - 1)) \o seqs[k]
    BY <2>1, FlattenFirst
  <2>3. seqs[k] \in Seq(S)
    BY <2>1
  <2> QED
    BY <2>1, <2>2, <2>3 DEF k
<1>4. flat(0) = <<>>
  <2>1. SubSeq(seqs, 1, 0) = <<>>
    OBVIOUS
  <2> QED
    BY <2>1, FlattenNone
<1>5. flat(Len(seqs)) = FlattenSeq(seqs)
  <2>1. SubSeq(seqs, 1, Len(seqs)) = seqs
    OBVIOUS
  <2> QED
    BY <2>1
<1> HIDE DEF at, flat
<1>6. 0 \in T
  BY <1>4
<1>7. ASSUME NEW n \in Nat, n \in T PROVE n + 1 \in T
  <2> SUFFICES ASSUME n + 1 <= Len(seqs) PROVE Good(n + 1)
    BY DEF T
  <2> DEFINE old == flat(n)
             s == seqs[n + 1]
  <2>1. n + 1 \in 1..Len(seqs) /\ n \in 0..Len(seqs) /\ n + 1 - 1 = n
    OBVIOUS
  <2>2. flat(n + 1) = old \o s /\ s \in Seq(S) /\ old \in Seq(S) /\ at(n + 1) = Len(old)
    <3>1. flat(n + 1) = flat(n) \o seqs[n + 1] /\ seqs[n + 1] \in Seq(S)
      BY <1>3
    <3>2. old \in Seq(S)
      BY <1>2, <2>1
    <3>3. at(n + 1) = Len(flat(n + 1 - 1))
      <4>1. n + 1 \in 1..(Len(seqs) + 1)
        OBVIOUS
      <4> QED
        BY <1>1, <4>1
    <3> HIDE DEF T, Good
    <3> QED
      BY <2>1, <3>1, <3>2, <3>3
  <2>3. Len(flat(n + 1)) = Len(old) + Len(s) /\ Len(old) \in Nat /\ Len(s) \in Nat
    BY <2>2
  <2>4. /\ \A q \in 1..Len(old) : flat(n + 1)[q] = old[q]
        /\ \A p \in 1..Len(s) : flat(n + 1)[Len(old) + p] = s[p]
    BY <2>2
  <2>5. /\ \A k \in 1..n, p \in Nat :
             p \in 1..Len(seqs[k]) => at(k) + p \in 1..Len(old) /\ old[at(k) + p] = seqs[k][p]
        /\ \A q \in 1..Len(old) : \E k \in 1..n : q - at(k) \in 1..Len(seqs[k])
    BY <1>7, <2>1 DEF T
  <2> HIDE DEF T, old
  <2>6. ASSUME NEW k \in 1..(n + 1), NEW p \in Nat, p \in 1..Len(seqs[k])
        PROVE  at(k) + p \in 1..Len(flat(n + 1)) /\ flat(n + 1)[at(k) + p] = seqs[k][p]
    <3>1. CASE k = n + 1
      <4> HIDE DEF s
      <4>1. p \in 1..Len(s) /\ at(k) = Len(old) /\ seqs[k] = s
        BY <2>2, <2>6, <3>1 DEF s
      <4> QED
        BY <4>1, <2>3, <2>4
    <3>2. CASE k # n + 1
      <4>1. k \in 1..n
        BY <3>2
      <4>2. at(k) + p \in 1..Len(old) /\ old[at(k) + p] = seqs[k][p]
        BY <2>5, <2>6, <4>1
      <4> QED
        BY <2>3, <2>4, <4>2
    <3> QED
      BY <3>1, <3>2
  <2>7. ASSUME NEW q \in 1..Len(flat(n + 1))
        PROVE  \E k \in 1..(n + 1) : q - at(k) \in 1..Len(seqs[k])
    <3>1. CASE q \in 1..Len(old)
      BY <2>5, <3>1
    <3>2. CASE q \notin 1..Len(old)
      <4>1. q - Len(old) \in 1..Len(s)
        BY <2>3, <3>2
      <4>2. n + 1 \in 1..(n + 1) /\ at(n + 1) = Len(old)
        BY <2>2
      <4> QED
        BY <4>1, <4>2
    <3> QED
      BY <3>1, <3>2
  <2> QED
    BY <2>6, <2>7
<1>8. Len(seqs) \in T
  <2> HIDE DEF T
  <2> QED
    BY <1>6, <1>7, Induction
<1> QED
  BY <1>5, <1>8 DEF at
=============================================================================
