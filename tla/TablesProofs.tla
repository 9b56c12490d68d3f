---------------------------- MODULE TablesProofs ----------------------------
(* What a search from the start of a table returns, and what functions that   *)
(* are defined along a list are.                                             *)
EXTENDS Tables, SequencesExt, WellFoundedInduction, SequenceTheorems, TLAPS

\* A set of naturals that is not empty has a smallest element, and Smallest
\* returns it.
LEMMA SmallestIsIn ==
    ASSUME NEW S \in SUBSET Nat, S # {}
    PROVE  Smallest(S) \in S /\ \A y \in S : Smallest(S) <= y
<1> DEFINE Less == {p \in Nat \X Nat : p[1] < p[2]}
<1>1. IsWellFoundedOn(Less, Nat)
      BY NatLessThanWellFounded DEF OpToRel
<1>2. PICK x \in S : \A y \in S : ~(<<y, x>> \in Less)
      <2> HIDE DEF Less
      <2> QED BY <1>1, WFMin
<1>3. ASSUME NEW y \in S PROVE x <= y
      <2>1. x \in Nat /\ y \in Nat
            OBVIOUS
      <2>2. y < x => <<y, x>> \in Less
            BY <2>1
      <2> HIDE DEF Less
      <2> QED BY <1>2, <2>1, <2>2
<1> QED
      BY <1>3 DEF Smallest

\* What holds of a number whenever it holds of all before it holds of all.
LEMMA Ascent ==
    ASSUME NEW m \in Nat, NEW n \in Nat, NEW T,
           \A k \in m..n : m..(k - 1) \subseteq T => k \in T
    PROVE  m..n \subseteq T
<1> SUFFICES ASSUME (m..n) \ T # {} PROVE FALSE
    OBVIOUS
<1> DEFINE k == Smallest((m..n) \ T)
<1>1. k \in (m..n) \ T /\ \A y \in (m..n) \ T : k <= y
      BY SmallestIsIn
<1>2. ASSUME NEW j \in m..(k - 1) PROVE j \in T
      <2> HIDE DEF k
      <2>1. j \in m..n /\ ~(k <= j)
            BY <1>1
      <2> QED BY <1>1, <2>1
<1> HIDE DEF k
<1> QED BY <1>1, <1>2

\* A function whose value at a number comes from its value at an earlier one
\* exists.
Earlier(back, m, n) == \A i \in (m + 1)..n : back[i] \in m..(i - 1)
Recursive(f, m, n, a, step, back) ==
    \A i \in m..n : f[i] = IF i = m THEN a ELSE step[<<f[back[i]], i>>]

LEMMA Recursion ==
    ASSUME NEW S, NEW m \in Nat, NEW n \in Nat, NEW a \in S,
           NEW step \in [S \X Nat -> S], NEW back \in [Nat -> Nat],
           Earlier(back, m, n)
    PROVE  \E f \in [m..n -> S] : Recursive(f, m, n, a, step, back)
<1> USE DEF Earlier, Recursive
<1> DEFINE Upto(k) == \E f \in [m..k -> S] :
               \A i \in m..k : f[i] = IF i = m THEN a ELSE step[<<f[back[i]], i>>]
           T == {k \in 0..n : Upto(k)}
<1>1. ASSUME NEW k \in 0..n, 0..(k - 1) \subseteq T PROVE Upto(k)
      <2>1. CASE k <= m
            <3> DEFINE f == [i \in m..k |-> a]
            <3> f \in [m..k -> S]
                OBVIOUS
            <3> \A i \in m..k : f[i] = IF i = m THEN a ELSE step[<<f[back[i]], i>>]
                BY <2>1
            <3> QED OBVIOUS
      <2>2. CASE k > m
            <3>1. Upto(k - 1)
                  <4>1. k - 1 \in 0..(k - 1)
                        BY <2>2
                  <4>2. k - 1 \in T
                        BY <1>1, <4>1
                  <4> QED BY <4>2
            <3>2. PICK f \in [m..(k - 1) -> S] :
                      \A i \in m..(k - 1) :
                          f[i] = IF i = m THEN a ELSE step[<<f[back[i]], i>>]
                  BY <3>1
            <3> DEFINE g == [i \in m..k |-> IF i = k THEN step[<<f[back[k]], k>>] ELSE f[i]]
            <3>3. k \in m..k /\ k \in Nat /\ back[k] \in m..(k - 1) /\ back[k] # k
                  BY <2>2
            <3>4. g \in [m..k -> S]
                  <4>1. f[back[k]] \in S
                        BY <3>3
                  <4>2. step[<<f[back[k]], k>>] \in S
                        BY <4>1, <3>3
                  <4>3. ASSUME NEW i \in m..k, i # k PROVE f[i] \in S
                        <5>1. i \in m..(k - 1)
                              BY <4>3
                        <5> QED BY <5>1
                  <4> QED BY <4>2, <4>3
            <3>5. ASSUME NEW i \in m..k
                  PROVE  g[i] = IF i = m THEN a ELSE step[<<g[back[i]], i>>]
                  <4>1. CASE i = k
                        <5>1. back[k] \in m..k /\ g[back[k]] = f[back[k]]
                              BY <3>3
                        <5>2. g[k] = step[<<f[back[k]], k>>]
                              BY <3>3
                        <5>3. k # m
                              BY <2>2
                        <5> HIDE DEF g
                        <5> QED BY <4>1, <5>1, <5>2, <5>3
                  <4>2. CASE i # k
                        <5>0. i \in m..(k - 1)
                              BY <4>2
                        <5>1. g[i] = f[i]
                              BY <4>2
                        <5>2. ASSUME i # m PROVE back[i] \in m..k /\ back[i] # k
                              <6> HIDE DEF g
                              <6>1. i \in (m + 1)..n
                                    BY <5>0, <5>2
                              <6>2. back[i] \in m..(i - 1)
                                    BY <6>1
                              <6>3. \A j \in m..(i - 1) : j \in m..k /\ j # k
                                    BY <5>0
                              <6> QED BY <6>2, <6>3
                        <5>3. i # m => g[back[i]] = f[back[i]]
                              BY <5>2
                        <5>4. f[i] = IF i = m THEN a ELSE step[<<f[back[i]], i>>]
                              BY <3>2, <5>0
                        <5> HIDE DEF g
                        <5> QED BY <5>1, <5>3, <5>4
                  <4> QED BY <4>1, <4>2
            <3> HIDE DEF g
            <3> QED BY <3>4, <3>5
      <2> HIDE DEF Upto
      <2> QED BY <2>1, <2>2
<1>2. 0..n \subseteq T
      <2>1. \A k \in 0..n : 0..(k - 1) \subseteq T => k \in T
            BY <1>1
      <2> HIDE DEF T
      <2> QED BY <2>1, Ascent
<1>3. n \in T
      <2> HIDE DEF T
      <2> QED BY <1>2
<1> QED BY <1>3

-----------------------------------------------------------------------------
\* A sequence of one element.
LEMMA Singleton ==
    ASSUME NEW S, NEW x \in S
    PROVE  <<x>> \in Seq(S) /\ Len(<<x>>) = 1 /\ <<x>>[1] = x
OBVIOUS

\* A sequence is another with one more element.
LEMMA IsAppend ==
    ASSUME NEW S, NEW s \in Seq(S), NEW x \in S, NEW t \in Seq(S),
           Len(t) = Len(s) + 1, t[Len(s) + 1] = x,
           \A i \in 1..Len(s) : t[i] = s[i]
    PROVE  t = Append(s, x)
<1> DEFINE u == Append(s, x)
<1>1. /\ u \in Seq(S) /\ Len(u) = Len(t)
      /\ \A i \in 1..Len(s) : u[i] = s[i]
      /\ u[Len(s) + 1] = x
      /\ Len(s) \in Nat
      BY AppendProperties, LenProperties
<1> HIDE DEF u
<1>2. ASSUME NEW i \in 1..Len(t) PROVE t[i] = u[i]
      <2>1. i \in 1..Len(s) \/ i = Len(s) + 1
            BY <1>1
      <2> QED BY <1>1, <2>1
<1>3. t = u
      BY <1>1, <1>2, SeqEqual
<1> QED BY <1>3 DEF u

\* A sequence is one element and then another sequence.
LEMMA IsCons ==
    ASSUME NEW S, NEW a \in S, NEW t \in Seq(S), NEW u \in Seq(S),
           Len(u) = Len(t) + 1, u[1] = a, \A i \in 1..Len(t) : u[i + 1] = t[i]
    PROVE  <<a>> \o t = u
<1> DEFINE v == <<a>> \o t
           n == Len(t)
<1>1. /\ v \in Seq(S) /\ Len(v) = n + 1 /\ n \in Nat
      /\ \A i \in 1..(n + 1) : v[i] = IF i <= 1 THEN <<a>>[i] ELSE t[i - 1]
      BY Singleton, ConcatProperties, LenProperties
<1>2. /\ Len(u) = n + 1 /\ u[1] = a /\ <<a>>[1] = a
      /\ \A i \in 1..n : u[i + 1] = t[i]
      OBVIOUS
<1> HIDE DEF v, n
<1>3. ASSUME NEW i \in 1..(n + 1) PROVE v[i] = u[i]
      <2>1. CASE i = 1
            BY <1>1, <1>2, <2>1
      <2>2. CASE i # 1
            <3>1. i - 1 \in 1..n /\ ~(i <= 1) /\ i - 1 + 1 = i
                  BY <1>1, <2>2
            <3> QED BY <1>1, <1>2, <3>1
      <2> QED BY <2>1, <2>2
<1>4. v = u
      BY <1>1, <1>2, <1>3, SeqEqual
<1> QED BY <1>4 DEF v

\* Equal sequences have the same last element and the same start.
LEMMA AppendSplits ==
    ASSUME NEW S, NEW s \in Seq(S), NEW e \in S, NEW t \in Seq(S), NEW f \in S,
           Append(s, e) = Append(t, f)
    PROVE  s = t /\ e = f
BY AppendInjective

\* The start of a sequence, element by element.
LEMMA Prefix ==
    ASSUME NEW S, NEW s \in Seq(S), NEW k \in 0..Len(s)
    PROVE  /\ SubSeq(s, 1, k) \in Seq(S)
           /\ Len(SubSeq(s, 1, k)) = k
           /\ \A i \in 1..k : SubSeq(s, 1, k)[i] = s[i]
<1>1. k \in Nat /\ \A i \in 1..k : s[i] \in S
      BY LenProperties, ElementOfSeq
<1>2. \A i \in 1..(k - 1 + 1) : 1 + i - 1 = i
      BY <1>1
<1> QED BY <1>1, <1>2, SubSeqProperties

LEMMA PrefixAppend ==
    ASSUME NEW S, NEW s \in Seq(S), NEW k \in 1..Len(s)
    PROVE  SubSeq(s, 1, k) = Append(SubSeq(s, 1, k - 1), s[k])
<1>1. k \in 0..Len(s) /\ k - 1 \in 0..Len(s) /\ k \in 1..k /\ k - 1 + 1 = k
      BY LenProperties
<1>2. s[k] \in S
      BY ElementOfSeq
<1> DEFINE t == SubSeq(s, 1, k)
           u == SubSeq(s, 1, k - 1)
<1>3. /\ t \in Seq(S) /\ Len(t) = k /\ \A i \in 1..k : t[i] = s[i]
      /\ u \in Seq(S) /\ Len(u) = k - 1 /\ \A i \in 1..(k - 1) : u[i] = s[i]
      BY <1>1, Prefix
<1> HIDE DEF t, u
<1>4. t = Append(u, s[k])
      BY <1>1, <1>2, <1>3, IsAppend
<1> QED BY <1>4 DEF t, u

\* The same elements in a row make the same sequence.
LEMMA SubSeqSame ==
    ASSUME NEW S, NEW s, NEW t, NEW d \in Int, NEW m \in Int, NEW n \in Int,
           \A i \in m..n : s[i] \in S /\ t[d + i] = s[i]
    PROVE  SubSeq(t, d + m, d + n) = SubSeq(s, m, n)
<1> DEFINE a == d + m
           z == d + n
           u == SubSeq(s, m, n)
           v == SubSeq(t, a, z)
           len == IF m <= n THEN n - m + 1 ELSE 0
<1>1. /\ u \in Seq(S) /\ Len(u) = len
      /\ \A i \in 1..(n - m + 1) : u[i] = s[m + i - 1]
      BY SubSeqProperties
<1>2. \A i \in a..z : t[i] \in S
      <2>1. \A i \in a..z : i - d \in m..n /\ d + (i - d) = i
            OBVIOUS
      <2> QED BY <2>1
<1>3. a \in Int /\ z \in Int
      OBVIOUS
<1>4. /\ v \in Seq(S) /\ Len(v) = (IF a <= z THEN z - a + 1 ELSE 0)
      /\ \A i \in 1..(z - a + 1) : v[i] = t[a + i - 1]
      <2> HIDE DEF a, z
      <2> QED BY <1>2, <1>3, SubSeqProperties
<1>5. Len(v) = len
      BY <1>4
<1>6. ASSUME NEW i \in 1..len PROVE v[i] = u[i]
      <2>1. i \in 1..(n - m + 1) /\ i \in 1..(z - a + 1)
            OBVIOUS
      <2>2. m + i - 1 \in m..n /\ a + i - 1 = d + (m + i - 1)
            OBVIOUS
      <2>3. u[i] = s[m + i - 1] /\ v[i] = t[d + (m + i - 1)]
            <3> HIDE DEF u, v
            <3> QED BY <1>1, <1>4, <2>1, <2>2
      <2> HIDE DEF u, v
      <2> QED BY <2>2, <2>3
<1>7. v = u
      <2> HIDE DEF u, v, len
      <2> QED BY <1>1, <1>4, <1>5, <1>6, SeqEqual
<1> QED BY <1>7

-----------------------------------------------------------------------------
\* What FlattenSeq computes on its way from the first sequence to the last.
Flattening(seqs, f) ==
    f = [i \in 1..Len(seqs) |-> IF i = 1 THEN seqs[i] ELSE f[i - 1] \o seqs[i]]

LEMMA FlatteningExists ==
    ASSUME NEW S, NEW seqs \in Seq(Seq(S)), seqs # <<>>
    PROVE  \E f : Flattening(seqs, f)
<1> DEFINE n == Len(seqs)
           step == [x \in Seq(S) \X Nat |->
                       IF x[2] \in 1..n THEN x[1] \o seqs[x[2]] ELSE x[1]]
           back == [i \in Nat |-> IF i = 0 THEN 0 ELSE i - 1]
<1>1. n \in Nat \ {0} /\ seqs[1] \in Seq(S)
      OBVIOUS
<1>2. step \in [Seq(S) \X Nat -> Seq(S)]
      OBVIOUS
<1>3. back \in [Nat -> Nat] /\ \A i \in 2..n : back[i] = i - 1
      OBVIOUS
<1>4. PICK f \in [1..n -> Seq(S)] :
          \A i \in 1..n : f[i] = IF i = 1 THEN seqs[1] ELSE step[<<f[back[i]], i>>]
      <2> DEFINE m == 1
                 Q == Seq(S)
                 a == seqs[1]
      <2>1. m \in Nat /\ n \in Nat /\ a \in Q /\ step \in [Q \X Nat -> Q]
            BY <1>1, <1>2
      <2> HIDE DEF n, step, back, Q, a
      <2>2. Earlier(back, m, n)
            <3> SUFFICES ASSUME NEW i \in (m + 1)..n PROVE back[i] \in m..(i - 1)
                BY DEF Earlier
            <3>1. i \in 2..n /\ i - 1 \in 1..(i - 1)
                  BY <1>1
            <3>2. back[i] = i - 1
                  BY <1>3, <3>1
            <3> QED BY <3>1, <3>2
      <2> HIDE DEF m
      <2>3. \E f \in [m..n -> Q] : Recursive(f, m, n, a, step, back)
            BY <1>3, <2>1, <2>2, Recursion
      <2> QED BY <2>3 DEF m, Q, a, Recursive
<1>5. ASSUME NEW i \in 1..n
      PROVE  f[i] = IF i = 1 THEN seqs[i] ELSE f[i - 1] \o seqs[i]
      <2>1. CASE i = 1
            BY <1>4, <2>1
      <2>2. CASE i # 1
            <3>1. back[i] = i - 1 /\ i - 1 \in 1..n
                  BY <1>3, <2>2
            <3>2. f[i - 1] \in Seq(S)
                  BY <3>1
            <3>3. step[<<f[i - 1], i>>] = f[i - 1] \o seqs[i]
                  <4>1. <<f[i - 1], i>> \in Seq(S) \X Nat
                        BY <3>2, <1>1
                  <4>2. \A x \in Seq(S) \X Nat : x[2] \in 1..n => step[x] = x[1] \o seqs[x[2]]
                        OBVIOUS
                  <4> HIDE DEF step
                  <4> QED BY <4>1, <4>2
            <3> HIDE DEF step, back
            <3> QED BY <1>4, <2>2, <3>1, <3>3
      <2> QED BY <2>1, <2>2
<1>6. f = [i \in 1..n |-> IF i = 1 THEN seqs[i] ELSE f[i - 1] \o seqs[i]]
      BY <1>5
<1> QED BY <1>6 DEF Flattening

LEMMA FlatteningTyped ==
    ASSUME NEW S, NEW seqs \in Seq(Seq(S)), NEW f, Flattening(seqs, f)
    PROVE  f \in [1..Len(seqs) -> Seq(S)]
<1> DEFINE n == Len(seqs)
           T == {i \in 1..n : f[i] \in Seq(S)}
<1>1. ASSUME NEW k \in 1..n, 1..(k - 1) \subseteq T PROVE k \in T
      <2>1. f[k] = IF k = 1 THEN seqs[k] ELSE f[k - 1] \o seqs[k]
            BY DEF Flattening
      <2>2. seqs[k] \in Seq(S)
            OBVIOUS
      <2>3. k # 1 => f[k - 1] \in Seq(S)
            <3>1. k # 1 => k - 1 \in 1..(k - 1)
                  OBVIOUS
            <3> QED BY <1>1, <3>1
      <2>4. f[k] \in Seq(S)
            BY <2>1, <2>2, <2>3, ConcatProperties
      <2> QED BY <2>4
<1>2. 1..n \subseteq T
      <2>1. n \in Nat
            OBVIOUS
      <2> HIDE DEF T, n
      <2> QED BY <1>1, <2>1, Ascent
<1>3. f = [i \in 1..n |-> f[i]]
      BY DEF Flattening
<1> QED BY <1>2, <1>3

\* What is appended comes after what is computed without it.
LEMMA FlatteningKept ==
    ASSUME NEW S, NEW seqs \in Seq(Seq(S)), NEW x \in Seq(S),
           NEW f, Flattening(seqs, f), NEW g, Flattening(Append(seqs, x), g)
    PROVE  \A i \in 1..Len(seqs) : f[i] = g[i]
<1> DEFINE n == Len(seqs)
           longer == Append(seqs, x)
           T == {i \in 1..n : f[i] = g[i]}
<1>0. /\ n \in Nat
      /\ Len(longer) = n + 1
      /\ \A i \in 1..n : longer[i] = seqs[i]
      BY AppendProperties, LenProperties
<1>1. ASSUME NEW k \in 1..n, 1..(k - 1) \subseteq T PROVE k \in T
      <2>0. k \in 1..Len(longer) /\ longer[k] = seqs[k]
            BY <1>0
      <2>1. f[k] = IF k = 1 THEN seqs[k] ELSE f[k - 1] \o seqs[k]
            BY DEF Flattening
      <2> HIDE DEF longer
      <2>2. g[k] = IF k = 1 THEN longer[k] ELSE g[k - 1] \o longer[k]
            BY <2>0 DEF Flattening, longer
      <2>3. k # 1 => f[k - 1] = g[k - 1]
            <3>1. k # 1 => k - 1 \in 1..(k - 1)
                  OBVIOUS
            <3> QED BY <1>1, <3>1
      <2>4. f[k] = g[k]
            BY <2>0, <2>1, <2>2, <2>3
      <2> QED BY <2>4
<1>2. 1..n \subseteq T
      <2> HIDE DEF T, n
      <2> QED BY <1>0, <1>1, Ascent
<1> QED BY <1>2

LEMMA FlattenIs ==
    ASSUME NEW S, NEW seqs \in Seq(Seq(S)), seqs # <<>>
    PROVE  \E f : Flattening(seqs, f) /\ FlattenSeq(seqs) = f[Len(seqs)]
<1> DEFINE f == CHOOSE f : Flattening(seqs, f)
<1>1. Flattening(seqs, f)
      BY FlatteningExists
<1>2. FlattenSeq(seqs) = f[Len(seqs)]
      BY DEF FlattenSeq, Flattening
<1> QED BY <1>1, <1>2

\* FlattenSeq, one sequence at a time.
LEMMA FlattenEmpty == FlattenSeq(<<>>) = <<>>
BY DEF FlattenSeq

LEMMA FlattenTyped ==
    ASSUME NEW S, NEW seqs \in Seq(Seq(S))
    PROVE  FlattenSeq(seqs) \in Seq(S)
<1>1. CASE seqs = <<>>
      BY <1>1, FlattenEmpty, EmptySeq
<1>2. CASE seqs # <<>>
      <2>1. PICK f : Flattening(seqs, f) /\ FlattenSeq(seqs) = f[Len(seqs)]
            BY <1>2, FlattenIs
      <2>2. f \in [1..Len(seqs) -> Seq(S)]
            BY <2>1, FlatteningTyped
      <2>3. Len(seqs) \in 1..Len(seqs)
            BY <1>2
      <2> QED BY <2>1, <2>2, <2>3
<1> QED BY <1>1, <1>2

LEMMA FlattenAppend ==
    ASSUME NEW S, NEW seqs \in Seq(Seq(S)), NEW x \in Seq(S)
    PROVE  FlattenSeq(Append(seqs, x)) = FlattenSeq(seqs) \o x
<1> DEFINE n == Len(seqs)
           longer == Append(seqs, x)
<1>1. /\ n \in Nat
      /\ longer \in Seq(Seq(S)) /\ longer # <<>> /\ Len(longer) = n + 1
      /\ longer[n + 1] = x
      /\ \A i \in 1..n : longer[i] = seqs[i]
      BY AppendProperties, LenProperties
<1> HIDE DEF longer
<1>2. PICK g : Flattening(longer, g) /\ FlattenSeq(longer) = g[n + 1]
      BY <1>1, FlattenIs
<1>3. g[n + 1] = IF n = 0 THEN x ELSE g[n] \o x
      <2>1. n + 1 \in 1..Len(longer) /\ (n + 1 = 1 <=> n = 0) /\ n + 1 - 1 = n
            BY <1>1
      <2>2. g[n + 1] = IF n + 1 = 1 THEN longer[n + 1] ELSE g[n + 1 - 1] \o longer[n + 1]
            <3> DEFINE k == n + 1
            <3>1. k \in 1..Len(longer)
                  BY <2>1
            <3> HIDE DEF k
            <3>2. g[k] = IF k = 1 THEN longer[k] ELSE g[k - 1] \o longer[k]
                  BY <1>2, <3>1 DEF Flattening
            <3> QED BY <3>2 DEF k
      <2> HIDE DEF n
      <2> QED BY <1>1, <2>1, <2>2
<1>4. CASE n = 0
      <2>1. seqs = <<>>
            BY <1>4
      <2> QED BY <1>2, <1>3, <1>4, <2>1, FlattenEmpty DEF longer
<1>5. CASE n # 0
      <2>1. PICK f : Flattening(seqs, f) /\ FlattenSeq(seqs) = f[n]
            BY <1>5, FlattenIs
      <2>2. n \in 1..n /\ n <= n + 1
            BY <1>1, <1>5
      <2>3. f[n] = g[n]
            <3>1. Flattening(longer, g)
                  BY <1>2
            <3>2. \A i \in 1..n : f[i] = g[i]
                  BY <2>1, <3>1, FlatteningKept DEF longer
            <3> QED BY <2>2, <3>2
      <2> QED BY <1>2, <1>3, <1>5, <2>1, <2>3 DEF longer
<1> QED BY <1>4, <1>5

LEMMA FlattenCons ==
    ASSUME NEW S, NEW x \in Seq(S), NEW seqs \in Seq(Seq(S))
    PROVE  FlattenSeq(<<x>> \o seqs) = x \o FlattenSeq(seqs)
<1> DEFINE Q == Seq(S)
           n == Len(seqs)
           P(k) == SubSeq(seqs, 1, k)
           T == {k \in 0..n : FlattenSeq(<<x>> \o P(k)) = x \o FlattenSeq(P(k))}
<1>1. n \in Nat /\ \A k \in 0..n : P(k) \in Seq(Q)
      BY Prefix, LenProperties
<1>2. <<x>> \in Seq(Q)
      OBVIOUS
<1>3. FlattenSeq(<<x>> \o P(0)) = x \o FlattenSeq(P(0))
      <2>1. P(0) = <<>>
            <3>1. Len(P(0)) = 0
                  BY <1>1, Prefix
            <3> QED BY <1>1, <3>1
      <2>2. <<x>> \o <<>> = <<x>> /\ Append(<<>>, x) = <<x>>
            <3>1. Append(<<>>, x) = <<x>>
                  OBVIOUS
            <3> HIDE DEF Q
            <3> QED BY <1>2, <3>1, ConcatEmptySeq
      <2>3. FlattenSeq(Append(<<>>, x)) = <<>> \o x
            <3>1. <<>> \in Seq(Seq(S))
                  BY EmptySeq
            <3> QED BY <3>1, FlattenAppend, FlattenEmpty
      <2>4. <<>> \o x = x /\ x \o <<>> = x
            BY ConcatEmptySeq
      <2> HIDE DEF P
      <2> QED BY <2>1, <2>2, <2>3, <2>4, FlattenEmpty
<1>4. ASSUME NEW k \in 0..n, 0..(k - 1) \subseteq T PROVE k \in T
      <2>1. CASE k = 0
            BY <1>3, <2>1
      <2>2. CASE k # 0
            <3> DEFINE p == P(k - 1)
                       y == seqs[k]
            <3>1. k \in 1..n /\ k - 1 \in 0..(k - 1) /\ k - 1 \in 0..n
                  BY <1>1, <2>2
            <3>2. y \in Q /\ p \in Seq(Q)
                  <4>1. p \in Seq(Q)
                        BY <1>1, <3>1
                  <4> QED BY <3>1, <4>1, ElementOfSeq
            <3>3. P(k) = Append(p, y)
                  BY <3>1, PrefixAppend
            <3>4. FlattenSeq(<<x>> \o p) = x \o FlattenSeq(p)
                  <4>1. k - 1 \in T
                        BY <1>4, <3>1
                  <4> QED BY <4>1
            <3> HIDE DEF P, Q, p, y
            <3>5. <<x>> \o Append(p, y) = Append(<<x>> \o p, y) /\ <<x>> \o p \in Seq(Q)
                  <4>1. /\ Append(p, y) = p \o <<y>> /\ <<x>> \o p \in Seq(Q)
                        /\ <<y>> \in Seq(Q)
                        BY <1>2, <3>2, AppendIsConcat, ConcatProperties, Singleton
                  <4>2. Append(<<x>> \o p, y) = (<<x>> \o p) \o <<y>>
                        BY <3>2, <4>1, AppendIsConcat
                  <4>3. (<<x>> \o p) \o <<y>> = <<x>> \o (p \o <<y>>)
                        BY <1>2, <3>2, <4>1, ConcatAssociative
                  <4> QED BY <4>1, <4>2, <4>3
            <3>6. /\ FlattenSeq(Append(p, y)) = FlattenSeq(p) \o y
                  /\ FlattenSeq(Append(<<x>> \o p, y)) = FlattenSeq(<<x>> \o p) \o y
                  /\ FlattenSeq(p) \in Seq(S)
                  BY <3>2, <3>5, FlattenAppend, FlattenTyped DEF Q
            <3>7. (x \o FlattenSeq(p)) \o y = x \o (FlattenSeq(p) \o y)
                  BY <3>2, <3>6, ConcatAssociative DEF Q
            <3>8. FlattenSeq(<<x>> \o P(k)) = x \o FlattenSeq(P(k))
                  BY <3>3, <3>4, <3>5, <3>6, <3>7
            <3> QED BY <3>8
      <2> QED BY <2>1, <2>2
<1>5. n \in T
      <2>1. 0..n \subseteq T
            <3> HIDE DEF T, n
            <3> QED BY <1>1, <1>4, Ascent
      <2> HIDE DEF T
      <2> QED BY <1>1, <2>1
<1>6. P(n) = seqs
      BY SubSeqFull
<1>7. FlattenSeq(<<x>> \o P(n)) = x \o FlattenSeq(P(n))
      BY <1>5
<1> HIDE DEF P, n
<1> QED BY <1>6, <1>7
=============================================================================
