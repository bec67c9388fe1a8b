------------------------------- MODULE Basics -------------------------------
(***************************************************************************)
(* What the proofs know of numbers, sequences and finite sets in general:  *)
(* a recursive function is defined wherever its rule refers to places of   *)
(* lower rank only, sequences are what they are cell by cell, and a finite *)
(* set is ordered by its keys.                                             *)
(***************************************************************************)
EXTENDS Integers, Sequences, SequencesExt, FiniteSetTheorems, WellFoundedInduction, TLAPS

-----------------------------------------------------------------------------
(* Induction without an operator as a parameter: what is to be proved is a *)
(* set, of the numbers or places at which it holds.                        *)

\* A set of naturals that has 0 and with every number the next has them all.
LEMMA NatInd ==
  ASSUME NEW S, 0 \in S, \A n \in S \cap Nat : n + 1 \in S
  PROVE  Nat \subseteq S
<1>1. SUFFICES ASSUME Nat \ S # {} PROVE FALSE
  OBVIOUS
<1>2. PICK x \in Nat \ S : \A y \in Nat \ S : ~(<<y, x>> \in OpToRel(<, Nat))
  BY <1>1, NatLessThanWellFounded, WFMin
<1>3. PICK y \in Nat : x = y + 1
  <2>1. x \in Nat /\ x # 0
    BY <1>2
  <2>2. x - 1 \in Nat /\ x = (x - 1) + 1
    BY <2>1
  <2>3. QED
    BY <2>2
<1>4. <<y, x>> \in OpToRel(<, Nat)
  BY <1>2, <1>3 DEF OpToRel
<1>5. y \in S
  BY <1>2, <1>3, <1>4
<1>6. QED
  BY <1>2, <1>3, <1>5

\* Induction over a rank: what holds at a place if it holds at all of lower rank holds
\* everywhere.
LEMMA ByRank ==
  ASSUME NEW D, NEW rank \in [D -> Nat], NEW S,
         \A i \in D : (\A j \in D : rank[j] < rank[i] => j \in S) => i \in S
  PROVE  D \subseteq S
<1> DEFINE N == {n \in Nat : \A i \in D : rank[i] < n => i \in S}
<1>1. 0 \in N
  <2>1. \A i \in D : ~(rank[i] < 0)
    OBVIOUS
  <2>2. QED
    BY <2>1
<1>2. ASSUME NEW n \in N \cap Nat PROVE n + 1 \in N
  <2>1. SUFFICES ASSUME NEW i \in D, rank[i] < n + 1 PROVE i \in S
    OBVIOUS
  <2>2. ASSUME NEW j \in D, rank[j] < rank[i] PROVE j \in S
    <3>1. PICK r \in Nat : r = rank[i]
      OBVIOUS
    <3>2. PICK q \in Nat : q = rank[j]
      OBVIOUS
    <3>3. q < n
      BY <2>1, <2>2, <3>1, <3>2
    <3>4. QED
      BY <3>2, <3>3
  <2>3. QED
    BY <2>2
<1>3. Nat \subseteq N
  <2> HIDE DEF N
  <2>1. QED
    BY <1>1, <1>2, NatInd
<1>4. ASSUME NEW i \in D PROVE i \in S
  <2>1. rank[i] + 1 \in N /\ rank[i] < rank[i] + 1
    BY <1>3
  <2>2. QED
    BY <2>1
<1>5. QED
  BY <1>4

\* What holds at a place if it holds at all earlier ones holds at all.
LEMMA ByPlace ==
  ASSUME NEW n \in Nat, NEW S,
         \A p \in 1..n : (\A q \in 1..(p - 1) : q \in S) => p \in S
  PROVE  1..n \subseteq S
<1> DEFINE D == 1..n
           rank == [p \in D |-> p]
<1>1. rank \in [D -> Nat]
  OBVIOUS
<1>2. ASSUME NEW p \in D, \A q \in D : rank[q] < rank[p] => q \in S PROVE p \in S
  <2>1. \A q \in 1..(p - 1) : q \in D /\ rank[q] < rank[p]
    OBVIOUS
  <2>2. QED
    BY <1>2, <2>1
<1>3. QED
  <2> HIDE DEF D, rank
  <2>1. D \subseteq S
    BY <1>1, <1>2, ByRank
  <2>2. QED
    BY <2>1 DEF D

\* step gives the value at a place from the values at places of lower rank.
Agree(D, rank, i, g, h) == \A j \in D : rank[j] < rank[i] => g[j] = h[j]
Ranked(D, rank) == rank \in [D -> Nat] /\ \E bound \in Nat : \A i \in D : rank[i] < bound
LooksBack(D, V, rank, step) ==
  /\ V # {} /\ step \in [D \X [D -> V] -> V]
  /\ \A i \in D : \A g, h \in [D -> V] :
       Agree(D, rank, i, g, h) => step[<<i, g>>] = step[<<i, h>>]

\* A function defined from its values at places of lower rank exists.
LEMMA RecursionDefines ==
  ASSUME NEW D, NEW V, NEW rank, NEW step, Ranked(D, rank), LooksBack(D, V, rank, step)
  PROVE  \E f \in [D -> V] : \A i \in D : f[i] = step[<<i, f>>]
<1> DEFINE Solves(f, n) == \A i \in D : rank[i] < n => f[i] = step[<<i, f>>]
           S == {n \in Nat : \E f \in [D -> V] : Solves(f, n)}
<1>a. /\ V # {} /\ rank \in [D -> Nat] /\ step \in [D \X [D -> V] -> V]
      /\ \A i \in D : \A g, h \in [D -> V] :
           Agree(D, rank, i, g, h) => step[<<i, g>>] = step[<<i, h>>]
  BY DEF Ranked, LooksBack
<1>b. PICK bound \in Nat : \A i \in D : rank[i] < bound
  BY DEF Ranked
<1>1. 0 \in S
  <2>1. PICK v \in V : TRUE
    BY <1>a
  <2>2. [i \in D |-> v] \in [D -> V]
    OBVIOUS
  <2>3. \A i \in D : ~(rank[i] < 0)
    BY <1>a
  <2>4. QED
    BY <2>2, <2>3
<1>2. ASSUME NEW n \in S \cap Nat PROVE n + 1 \in S
  <2>1. PICK f \in [D -> V] : Solves(f, n)
    OBVIOUS
  <2>2. PICK g : g = [i \in D |-> IF rank[i] = n THEN step[<<i, f>>] ELSE f[i]]
    OBVIOUS
  <2>3. g \in [D -> V]
    BY <1>a, <2>2
  <2>4. ASSUME NEW i \in D, rank[i] < n + 1 PROVE g[i] = step[<<i, g>>]
    <3>1. Agree(D, rank, i, f, g)
      BY <1>a, <2>2, <2>4 DEF Agree
    <3>2. step[<<i, f>>] = step[<<i, g>>]
      BY <1>a, <2>3, <3>1
    <3>3. CASE rank[i] = n
      BY <2>2, <3>2, <3>3
    <3>4. CASE rank[i] < n
      BY <2>1, <2>2, <3>2, <3>4
    <3>5. rank[i] = n \/ rank[i] < n
      <4>1. PICK r : r = rank[i]
        OBVIOUS
      <4>2. r \in Nat /\ n \in Nat /\ r < n + 1
        BY <1>a, <2>4, <4>1
      <4>3. r = n \/ r < n
        BY <4>2
      <4>4. QED
        BY <4>1, <4>3
    <3>6. QED
      BY <3>3, <3>4, <3>5
  <2>5. QED
    BY <2>3, <2>4
<1>3. bound \in S
  <2> HIDE DEF S
  <2>1. QED
    BY <1>1, <1>2, NatInd
<1>4. QED
  BY <1>b, <1>3

-----------------------------------------------------------------------------
(* Sequences.                                                              *)

IsSeq(s) == s \in Seq(Range(s))

\* A function on 1..n is a sequence.
LEMMA SeqPointwise ==
  ASSUME NEW s, NEW n \in Nat, DOMAIN s = 1..n, s = [i \in 1..n |-> s[i]]
  PROVE  IsSeq(s) /\ Len(s) = n
<1>1. s \in [1..n -> Range(s)]
  BY DEF Range
<1>. QED
  BY <1>1 DEF IsSeq

\* The elements of a sequence may be taken from any set.
LEMMA SeqOver ==
  ASSUME NEW S, NEW s \in Seq(S)
  PROVE  IsSeq(s)
<1>1. Len(s) \in Nat /\ DOMAIN s = 1..Len(s) /\ s = [i \in 1..Len(s) |-> s[i]]
  OBVIOUS
<1>. QED
  BY <1>1, SeqPointwise

LEMMA SeqFacts ==
  ASSUME NEW s, IsSeq(s)
  PROVE  /\ Len(s) \in Nat /\ DOMAIN s = 1..Len(s)
         /\ s = [i \in 1..Len(s) |-> s[i]]
BY DEF IsSeq

\* Concatenation, cell by cell.
LEMMA ConcatFacts ==
  ASSUME NEW s, NEW t, IsSeq(s), IsSeq(t)
  PROVE  /\ IsSeq(s \o t) /\ Len(s \o t) = Len(s) + Len(t)
         /\ \A i \in 1..Len(s) : (s \o t)[i] = s[i]
         /\ \A i \in 1..Len(t) : (s \o t)[Len(s) + i] = t[i]
<1>. DEFINE S == Range(s) \cup Range(t)
<1>1. s \in Seq(S) /\ t \in Seq(S)
  BY DEF IsSeq, Range
<1>2. s \o t \in Seq(S) /\ Len(s \o t) = Len(s) + Len(t)
  BY <1>1
<1>3. /\ \A i \in 1..Len(s) : (s \o t)[i] = s[i]
      /\ \A i \in 1..Len(t) : (s \o t)[Len(s) + i] = t[i]
  BY <1>1
<1>4. IsSeq(s \o t)
  BY <1>2, SeqOver
<1>. QED
  BY <1>2, <1>3, <1>4

\* u is the concatenation of a, b and c.
Joins(u, a, b, c) ==
  /\ IsSeq(u) /\ Len(u) = Len(a) + Len(b) + Len(c)
  /\ \A i \in 1..Len(a) : u[i] = a[i]
  /\ \A i \in 1..Len(b) : u[Len(a) + i] = b[i]
  /\ \A i \in 1..Len(c) : u[Len(a) + Len(b) + i] = c[i]

LEMMA Concat3Facts ==
  ASSUME NEW a, NEW b, NEW c, NEW u, IsSeq(a), IsSeq(b), IsSeq(c),
         u = (a \o b) \o c
  PROVE  Joins(u, a, b, c)
<1>. DEFINE S == Range(a) \cup Range(b) \cup Range(c)
<1>1. a \in Seq(S) /\ b \in Seq(S) /\ c \in Seq(S)
  BY DEF IsSeq, Range
<1>2. u \in Seq(S) /\ Len(u) = Len(a) + Len(b) + Len(c)
  BY <1>1
<1>3. IsSeq(u)
  BY <1>2, SeqOver
<1>. HIDE DEF S
<1>4. \A i \in 1..Len(a) : u[i] = a[i]
  BY <1>1
<1>5. \A i \in 1..Len(b) : u[Len(a) + i] = b[i]
  BY <1>1
<1>6. \A i \in 1..Len(c) : u[Len(a) + Len(b) + i] = c[i]
  BY <1>1
<1>. QED
  BY <1>2, <1>3, <1>4, <1>5, <1>6 DEF Joins

\* Where a cell of a concatenation comes from.
FromPart(u, i, a, k) == \E j \in 1..Len(a) : i = k + j /\ u[i] = a[j]
LEMMA JoinCases ==
  ASSUME NEW u, NEW a, NEW b, NEW c, Len(a) \in Nat, Len(b) \in Nat, Len(c) \in Nat,
         Joins(u, a, b, c), NEW i \in 1..Len(u)
  PROVE  FromPart(u, i, a, 0) \/ FromPart(u, i, b, Len(a)) \/ FromPart(u, i, c, Len(a) + Len(b))
<1>1. CASE i \in 1..Len(a)
  BY <1>1 DEF Joins, FromPart
<1>2. CASE i \in (Len(a) + 1)..(Len(a) + Len(b))
  <2>1. i - Len(a) \in 1..Len(b) /\ i = Len(a) + (i - Len(a))
    BY <1>2
  <2>2. u[Len(a) + (i - Len(a))] = b[i - Len(a)]
    BY <2>1 DEF Joins
  <2>3. QED
    BY <2>1, <2>2 DEF FromPart
<1>3. CASE i \in (Len(a) + Len(b) + 1)..Len(u)
  <2> DEFINE m == Len(a) + Len(b)
  <2>1. i - m \in 1..Len(c) /\ i = m + (i - m)
    BY <1>3 DEF Joins
  <2>2. u[m + (i - m)] = c[i - m]
    BY <2>1 DEF Joins
  <2>3. QED
    BY <2>1, <2>2 DEF FromPart
<1>4. i \in 1..Len(a) \/ i \in (Len(a) + 1)..(Len(a) + Len(b)) \/ i \in (Len(a) + Len(b) + 1)..Len(u)
  BY DEF Joins
<1>5. QED
  BY <1>1, <1>2, <1>3, <1>4

\* The prefix relation, cell by cell.
LEMMA PrefixFacts ==
  ASSUME NEW s, NEW t, IsSeq(s), IsSeq(t)
  PROVE  IsPrefix(s, t) <=> Len(s) <= Len(t) /\ \A i \in 1..Len(s) : s[i] = t[i]
<1>. DEFINE S == Range(s) \cup Range(t)
<1>1. s \in Seq(S) /\ t \in Seq(S)
  BY DEF IsSeq, Range
<1>. QED
  BY <1>1 DEF IsPrefix

LEMMA PrefixOfConcat ==
  ASSUME NEW s, NEW t, IsSeq(s), IsSeq(t)
  PROVE  IsPrefix(s, s \o t)
<1>. DEFINE u == s \o t
<1>1. /\ IsSeq(u) /\ Len(u) = Len(s) + Len(t)
      /\ \A i \in 1..Len(s) : u[i] = s[i]
  BY ConcatFacts, Zenon
<1>2. Len(s) \in Nat /\ Len(t) \in Nat
  BY SeqFacts
<1>. HIDE DEF u
<1>3. IsPrefix(s, u)
  BY <1>1, <1>2, PrefixFacts
<1>. QED
  BY <1>3 DEF u

LEMMA PrefixTransitive ==
  ASSUME NEW s, NEW t, NEW u, IsSeq(s), IsSeq(t), IsSeq(u),
         IsPrefix(s, t), IsPrefix(t, u)
  PROVE  IsPrefix(s, u)
BY PrefixFacts, SeqFacts

\* A stretch of a sequence.
LEMMA SubSeqFacts ==
  ASSUME NEW s, IsSeq(s), NEW m \in Int, NEW n \in Int, 1 <= m, m <= n, n <= Len(s)
  PROVE  /\ Len(SubSeq(s, m, n)) = n - m + 1
         /\ SubSeq(s, m, n) # << >> /\ SubSeq(s, m, n)[1] = s[m]
BY SeqFacts DEF IsSeq

\* A non-empty slice r of s that begins at m.
Slice(s, m, r, len) == Len(r) = len /\ r # << >> /\ r[1] = s[m]
LEMMA SliceFacts ==
  ASSUME NEW s, IsSeq(s), NEW m \in Int, NEW n \in Int, NEW len, n - m + 1 = len,
         1 <= m, m <= n, n <= Len(s)
  PROVE  Slice(s, m, SubSeq(s, m, n), len)
BY SubSeqFacts DEF Slice

LEMMA PrefixReflexive ==
  ASSUME NEW s, IsSeq(s)
  PROVE  IsPrefix(s, s)
BY PrefixFacts

LEMMA ExtensionNotEmpty ==
  ASSUME NEW s, NEW t, IsSeq(s), IsSeq(t), IsPrefix(s, t), s # << >>
  PROVE  t # << >>
<1>1. Len(s) \in Nat /\ Len(s) # 0
  BY DEF IsSeq
<1>2. Len(s) <= Len(t)
  BY PrefixFacts
<1>. QED
  BY <1>1, <1>2

LEMMA AppendFacts ==
  ASSUME NEW s, NEW t, NEW n \in Nat, IsSeq(s), Len(s) = n, IsSeq(t), Len(t) = n + 1,
         \A i \in 1..n : t[i] = s[i]
  PROVE  t = Append(s, t[n + 1])
<1>. DEFINE x == t[n + 1]
<1>1. s \in Seq(Range(s) \cup {x})
  BY DEF IsSeq, Range
<1>. HIDE DEF x
<1>2. /\ Append(s, x) \in Seq(Range(s) \cup {x}) /\ Len(Append(s, x)) = n + 1
      /\ \A i \in 1..n : Append(s, x)[i] = s[i]
      /\ Append(s, x)[n + 1] = x
  BY <1>1
<1>3. Append(s, x) = [i \in 1..(n + 1) |-> Append(s, x)[i]]
  BY <1>2, SeqOver, SeqFacts
<1>4. t = [i \in 1..(n + 1) |-> t[i]]
  BY SeqFacts
<1>5. \A i \in 1..(n + 1) : t[i] = Append(s, x)[i]
  BY <1>2 DEF x
<1>6. QED
  BY <1>3, <1>4, <1>5 DEF x

\* f is the start of g.
StartOf(f, g) == Len(f) <= Len(g) /\ \A i \in 1..Len(f) : g[i] = f[i]
LEMMA PrefixIs ==
  ASSUME NEW f, NEW b, IsSeq(f), IsSeq(b), StartOf(f, b)
  PROVE  Len(f) \in 0..Len(b) /\ SubSeq(b, 1, Len(f)) = f
<1>1. Len(f) \in Nat /\ Len(b) \in Nat /\ Len(f) <= Len(b)
      /\ \A i \in 1..Len(f) : b[i] = f[i]
  BY SeqFacts DEF StartOf
<1>2. f = [i \in 1..Len(f) |-> f[i]]
  BY SeqFacts
<1>. DEFINE n == Len(f)
            s == SubSeq(b, 1, n)
<1>3. s = [i \in 1..n |-> b[i]]
  <2>1. b \in Seq(Range(b))
    BY DEF IsSeq
  <2>2. SubSeq(b, 1, n) = [i \in 1..(n - 1 + 1) |-> b[i + 1 - 1]]
    BY <1>1, <2>1
  <2>3. n - 1 + 1 = n /\ \A i \in 1..n : i + 1 - 1 = i
    BY <1>1
  <2>4. [i \in 1..n |-> b[i + 1 - 1]] = [i \in 1..n |-> b[i]]
    BY <2>3
  <2>5. QED
    BY <2>2, <2>3, <2>4
<1>4. QED
  BY <1>1, <1>2, <1>3

\* A place in the last of three stretches, shifted by e.
LEMMA Shifted ==
  ASSUME NEW e \in Nat, NEW n \in Nat, NEW c \in Nat, NEW i \in ((e + n) + 2)..((e + n) + 1 + c)
  PROVE  \E j \in (n + 2)..(n + 1 + c) : i = e + j
<1>1. i - e \in (n + 2)..(n + 1 + c) /\ i = e + (i - e)
  OBVIOUS
<1>2. QED
  BY <1>1

-----------------------------------------------------------------------------
(* The least and the greatest element of a set of numbers.                 *)

LEMMA LeastOf ==
  ASSUME NEW S, S \subseteq Nat, S # {}
  PROVE  Min(S) \in S /\ \A y \in S : Min(S) <= y
<1>1. PICK x \in S : \A y \in S : ~(<<y, x>> \in OpToRel(<, Nat))
  BY NatLessThanWellFounded, WFMin
<1>2. ASSUME NEW y \in S PROVE x <= y
  <2>1. y \in Nat /\ x \in Nat
    OBVIOUS
  <2>2. y < x => <<y, x>> \in OpToRel(<, Nat)
    BY <2>1 DEF OpToRel
  <2>3. ~(y < x)
    BY <1>1, <2>2, Zenon
  <2>4. QED
    BY <2>1, <2>3
<1>3. QED
  BY <1>2 DEF Min

LEMMA GreatestOf ==
  ASSUME NEW S, S # {}, NEW n \in Nat, S \subseteq 0..n
  PROVE  Max(S) \in S /\ \A y \in S : y <= Max(S)
<1> DEFINE R == {r \in 0..n : n - r \in S}
<1>1. \A y \in S : y \in 0..n /\ n - y \in 0..n /\ n - (n - y) = y
  OBVIOUS
<1>2. R # {} /\ R \subseteq Nat /\ \A y \in S : n - y \in R
  <2>1. \A y \in S : n - y \in R
    BY <1>1
  <2>2. R \subseteq Nat
    OBVIOUS
  <2>3. QED
    BY <2>1, <2>2
<1>3. PICK m \in R : \A r \in R : m <= r
  <2> HIDE DEF R
  <2>1. QED
    BY <1>2, LeastOf
<1>4. n - m \in S /\ \A y \in S : y <= n - m
  BY <1>1, <1>2, <1>3
<1>5. \E x \in S : \A y \in S : x >= y
  BY <1>1, <1>4
<1>6. QED
  BY <1>5 DEF Max

\* A greatest element is the greatest element.
LEMMA IsGreatest ==
  ASSUME NEW S, S \subseteq Int, NEW x \in S, \A y \in S : y <= x
  PROVE  Max(S) = x
<1>1. \A y \in S : x >= y
  OBVIOUS
<1>2. \A z \in S : (\A y \in S : z >= y) => z = x
  OBVIOUS
<1>3. QED
  BY <1>1, <1>2 DEF Max

LEMMA IsLeast ==
  ASSUME NEW S, S \subseteq Int, NEW x \in S, \A y \in S : x <= y
  PROVE  Min(S) = x
<1>1. \A z \in S : (\A y \in S : z <= y) => z = x
  OBVIOUS
<1>2. QED
  BY <1>1 DEF Min

-----------------------------------------------------------------------------
(* Ranks: the elements of a finite set in the order of their keys.         *)

Upto(S, key, x) == {y \in S : key[y] <= key[x]}
Rank(S, key, x) == Cardinality(Upto(S, key, x))
Keys(S, key) == key \in [S -> Int] /\ \A x, y \in S : key[x] = key[y] => x = y

LEMMA KeyOrder ==
  ASSUME NEW S, NEW key, Keys(S, key), NEW x \in S, NEW y \in S
  PROVE  /\ x \in Upto(S, key, x)
         /\ Upto(S, key, x) \subseteq S
         /\ x # y => key[x] < key[y] \/ key[y] < key[x]
         /\ key[x] < key[y] => /\ Upto(S, key, x) \subseteq Upto(S, key, y)
                               /\ y \notin Upto(S, key, x)
<1>1. PICK m \in Int, n \in Int : m = key[x] /\ n = key[y]
  BY DEF Keys
<1>2. x \in Upto(S, key, x) /\ Upto(S, key, x) \subseteq S
  BY <1>1 DEF Upto
<1>3. x # y => m # n
  BY <1>1 DEF Keys
<1>4. ASSUME m < n PROVE Upto(S, key, x) \subseteq Upto(S, key, y) /\ y \notin Upto(S, key, x)
  <2>1. ASSUME NEW z \in S, key[z] <= key[x] PROVE key[z] <= key[y]
    <3>1. PICK k \in Int : k = key[z]
      BY DEF Keys
    <3>2. QED
      BY <1>1, <1>4, <2>1, <3>1
  <2>2. ~(key[y] <= key[x])
    BY <1>1, <1>4
  <2>3. QED
    BY <2>1, <2>2 DEF Upto
<1>5. QED
  BY <1>1, <1>2, <1>3, <1>4

LEMMA RankFacts ==
  ASSUME NEW S, IsFiniteSet(S), NEW key, Keys(S, key)
  PROVE  /\ \A x \in S : Rank(S, key, x) \in 1..Cardinality(S)
         /\ \A x, y \in S : key[x] < key[y] => Rank(S, key, x) < Rank(S, key, y)
         /\ \A x, y \in S : Rank(S, key, x) = Rank(S, key, y) => x = y
<1>1. Cardinality(S) \in Nat
  BY FS_CardinalityType
<1>2. ASSUME NEW x \in S PROVE Rank(S, key, x) \in 1..Cardinality(S) /\ IsFiniteSet(Upto(S, key, x))
  <2>1. Upto(S, key, x) \in SUBSET S /\ x \in Upto(S, key, x)
    BY KeyOrder
  <2>2. IsFiniteSet(Upto(S, key, x)) /\ Rank(S, key, x) <= Cardinality(S)
    BY <2>1, FS_Subset DEF Rank
  <2>3. Rank(S, key, x) \in Nat /\ Rank(S, key, x) # 0
    BY <2>1, <2>2, FS_CardinalityType, FS_EmptySet, Zenon DEF Rank
  <2>4. QED
    BY <1>1, <2>2, <2>3
<1>3. ASSUME NEW x \in S, NEW y \in S, key[x] < key[y] PROVE Rank(S, key, x) < Rank(S, key, y)
  <2>1. Upto(S, key, x) \in SUBSET Upto(S, key, y) /\ y \notin Upto(S, key, x)
        /\ y \in Upto(S, key, y)
    BY <1>3, KeyOrder
  <2>2. IsFiniteSet(Upto(S, key, y)) /\ IsFiniteSet(Upto(S, key, x))
    BY <1>2
  <2>3. Rank(S, key, x) <= Rank(S, key, y) /\ Rank(S, key, x) # Rank(S, key, y)
    BY <2>1, <2>2, FS_Subset, Zenon DEF Rank
  <2>4. Rank(S, key, x) \in Int /\ Rank(S, key, y) \in Int
    BY <1>2
  <2>5. QED
    BY <2>3, <2>4
<1>4. ASSUME NEW x \in S, NEW y \in S, Rank(S, key, x) = Rank(S, key, y) PROVE x = y
  <2>1. Rank(S, key, x) \in Int /\ Rank(S, key, y) \in Int
    BY <1>2
  <2>2. ~(Rank(S, key, x) < Rank(S, key, y)) /\ ~(Rank(S, key, y) < Rank(S, key, x))
    BY <2>1, <1>4
  <2>3. ~(key[x] < key[y]) /\ ~(key[y] < key[x])
    BY <1>3, <2>2
  <2>4. QED
    BY <2>3, KeyOrder
<1>5. QED
  BY <1>2, <1>3, <1>4

\* Every rank is somebody's, and the last one is the rank of the greatest key.
LEMMA EveryRank ==
  ASSUME NEW S, IsFiniteSet(S), NEW key, Keys(S, key), NEW i \in 1..Cardinality(S)
  PROVE  \E x \in S : Rank(S, key, x) = i
<1> DEFINE T == 1..Cardinality(S)
           r == [x \in S |-> Rank(S, key, x)]
<1>1. Cardinality(S) \in Nat
  BY FS_CardinalityType
<1>2. IsFiniteSet(T) /\ Cardinality(T) = Cardinality(S)
  BY <1>1, FS_Interval
<1>3. r \in Injection(S, T)
  <2>1. r \in [S -> T]
    BY RankFacts
  <2>2. \A x, y \in S : r[x] = r[y] => x = y
    BY RankFacts
  <2>3. IsInjective(r)
    BY <2>1, <2>2 DEF IsInjective
  <2>4. QED
    BY <2>1, <2>3 DEF Injection
<1>4. r \in Surjection(S, T)
  <2> HIDE DEF r, T
  <2>1. QED
    BY <1>2, <1>3, FS_Injection
<1>5. \E x \in S : r[x] = i
  BY <1>4 DEF Surjection
<1>6. QED
  BY <1>5

LEMMA LastRank ==
  ASSUME NEW S, IsFiniteSet(S), NEW key, Keys(S, key), NEW x \in S,
         \A y \in S : key[y] <= key[x]
  PROVE  Rank(S, key, x) = Cardinality(S)
<1>1. Upto(S, key, x) = S
  BY DEF Upto
<1>2. QED
  BY <1>1 DEF Rank

\* The element with a given rank.
LEMMA RankedElement ==
  ASSUME NEW S, IsFiniteSet(S), NEW key, Keys(S, key)
  PROVE  /\ \A i \in 1..Cardinality(S) :
              LET x == CHOOSE y \in S : Rank(S, key, y) = i
              IN  x \in S /\ Rank(S, key, x) = i
         /\ \A x \in S : (CHOOSE y \in S : Rank(S, key, y) = Rank(S, key, x)) = x
<1>1. \A i \in 1..Cardinality(S) :
        LET x == CHOOSE y \in S : Rank(S, key, y) = i IN x \in S /\ Rank(S, key, x) = i
  BY EveryRank, Zenon
<1>2. ASSUME NEW x \in S PROVE (CHOOSE y \in S : Rank(S, key, y) = Rank(S, key, x)) = x
  BY RankFacts, Zenon
<1>3. QED
  BY <1>1, <1>2

\* The image of a finite set.
LEMMA ImageFinite ==
  ASSUME NEW f, f = [x \in DOMAIN f |-> f[x]], IsFiniteSet(DOMAIN f)
  PROVE  IsFiniteSet({f[x] : x \in DOMAIN f})
<1>. DEFINE T == {f[x] : x \in DOMAIN f}
<1>1. f \in Surjection(DOMAIN f, T)
  BY DEF Surjection
<1>. QED
  BY <1>1, FS_Surjection

\* A finite set, each element once.
LEMMA EachOnce ==
  ASSUME NEW S, IsFiniteSet(S)
  PROVE  /\ Cardinality(S) \in Nat /\ SetToSeq(S) \in [1..Cardinality(S) -> S]
         /\ IsInjective(SetToSeq(S))
<1>1. Cardinality(S) \in Nat /\ ExistsBijection(1..Cardinality(S), S)
  BY FS_CardinalityType
<1>2. PICK h \in [1..Cardinality(S) -> S] : IsInjective(h)
  BY <1>1 DEF ExistsBijection, Bijection, Injection
<1>3. QED
  BY <1>1, <1>2, Zenon DEF SetToSeq

\* The empty function and the empty sequence are finite.
LEMMA EmptyFinite == IsFiniteSet(DOMAIN << >>)
<1>1. DOMAIN << >> = {}
  OBVIOUS
<1>. QED
  BY <1>1, FS_EmptySet

=============================================================================
