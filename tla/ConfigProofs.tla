----------------------------- MODULE ConfigProofs -----------------------------
(* What read_config accepts, for every set of files, every set of parameters  *)
(* and every buffer.                                                          *)
EXTENDS Config, TablesProofs, FiniteSetTheorems

-----------------------------------------------------------------------------
(* Searching for a character.                                                *)

LEMMA FirstHit ==
    ASSUME NEW s, Len(s) \in Nat, NEW i \in Nat, NEW kinds
    PROVE  LET k == First(s, i, kinds) IN
           /\ k \in Nat /\ k <= Len(s) + 1
           /\ k = Len(s) + 1 \/ (k \in i..Len(s) /\ s[k] \in kinds)
           /\ \A j \in i..Len(s) : j < k => s[j] \notin kinds
<1> DEFINE hits == {j \in i..Len(s) : s[j] \in kinds} \cup {Len(s) + 1}
<1>1. hits \in SUBSET Nat /\ Len(s) + 1 \in hits
      OBVIOUS
<1>2. /\ \A j \in hits : j = Len(s) + 1 \/ (j \in i..Len(s) /\ s[j] \in kinds)
      /\ \A j \in i..Len(s) : s[j] \in kinds => j \in hits
      OBVIOUS
<1> HIDE DEF hits
<1>3. Smallest(hits) \in hits /\ \A y \in hits : Smallest(hits) <= y
      BY <1>1, SmallestIsIn
<1>4. First(s, i, kinds) = Smallest(hits)
      BY DEF First, hits
<1> DEFINE k == Smallest(hits)
<1> HIDE DEF k
<1>5. k \in hits /\ (\A y \in hits : k <= y) /\ k \in Nat
      BY <1>1, <1>3 DEF k
<1>6. \A j \in i..Len(s) : j < k => s[j] \notin kinds
      BY <1>2, <1>5
<1> QED BY <1>1, <1>2, <1>4, <1>5, <1>6 DEF k

LEMMA FirstIs ==
    ASSUME NEW s, Len(s) \in Nat, NEW i \in Nat, NEW kinds,
           NEW k \in i..Len(s), s[k] \in kinds,
           \A j \in i..(k - 1) : s[j] \notin kinds
    PROVE  First(s, i, kinds) = k
<1> DEFINE f == First(s, i, kinds)
<1>1. /\ f \in Nat /\ f <= Len(s) + 1
      /\ f = Len(s) + 1 \/ (f \in i..Len(s) /\ s[f] \in kinds)
      /\ \A j \in i..Len(s) : j < f => s[j] \notin kinds
      BY FirstHit
<1> HIDE DEF f
<1>2. ~(k < f)
      BY <1>1
<1>3. f < k => f \in i..(k - 1)
      BY <1>1
<1> QED BY <1>1, <1>2, <1>3 DEF f

LEMMA FirstNone ==
    ASSUME NEW s, Len(s) \in Nat, NEW i \in Nat, NEW kinds,
           \A j \in i..Len(s) : s[j] \notin kinds
    PROVE  First(s, i, kinds) = Len(s) + 1
BY FirstHit

\* The same characters give the same position, wherever the search starts.
SameFrom(s, t, d, i, k) == \A j \in i..k : t[d + j] = s[j]

LEMMA FirstMoves ==
    ASSUME NEW s, Len(s) \in Nat, NEW i \in Nat, NEW kinds,
           NEW t, Len(t) \in Nat, NEW d \in Nat,
           NEW k \in i..Len(s), d + k <= Len(t), s[k] \in kinds,
           SameFrom(s, t, d, i, k)
    PROVE  First(t, d + i, kinds) = d + First(s, i, kinds)
<1> USE DEF SameFrom
<1> DEFINE f == First(s, i, kinds)
<1>1. /\ f \in Nat /\ f <= Len(s) + 1
      /\ f = Len(s) + 1 \/ (f \in i..Len(s) /\ s[f] \in kinds)
      /\ \A j \in i..Len(s) : j < f => s[j] \notin kinds
      BY FirstHit
<1> HIDE DEF f
<1>2. f \in i..k /\ s[f] \in kinds
      BY <1>1
<1>3. d + f \in (d + i)..Len(t) /\ t[d + f] \in kinds
      BY <1>1, <1>2
<1>4. ASSUME NEW j \in (d + i)..(d + f - 1) PROVE t[j] \notin kinds
      <2> DEFINE m == j - d
      <2>1. m \in i..k /\ m \in i..Len(s) /\ m < f /\ d + m = j
            BY <1>2
      <2> HIDE DEF m
      <2> QED BY <1>1, <2>1
<1> DEFINE n == d + i
           g == d + f
<1>5. /\ n \in Nat /\ g \in n..Len(t) /\ t[g] \in kinds
      /\ \A j \in n..(g - 1) : t[j] \notin kinds
      <2>1. n \in Nat
            OBVIOUS
      <2>2. g \in n..Len(t) /\ t[g] \in kinds
            BY <1>3
      <2>3. \A j \in n..(g - 1) : t[j] \notin kinds
            BY <1>1, <1>4
      <2> HIDE DEF n, g
      <2> QED BY <2>1, <2>2, <2>3
<1> HIDE DEF n, g
<1>6. First(t, n, kinds) = g
      BY <1>5, FirstIs
<1> QED BY <1>6 DEF n, g, f

-----------------------------------------------------------------------------
(* Lines of the file.                                                        *)

Chars == STRING \cup {Newline, Nul, Unset}
Read == Len(file) - Len(rest)
Upto(K) == SubSeq(file, 1, K)
Ends(K) == K = 0 \/ K = Len(file) \/ file[K] = Newline
HasName(v, p) == Len(v) >= 2 /\ v[1] = p /\ v[2] = Blank

LEMMA Characters ==
    /\ {Newline, Nul, Unset} \subseteq Chars
    /\ Newline # Blank /\ Newline # Nul /\ Blank # Nul /\ Newline # Unset /\ Nul # Unset
    /\ "#" # Blank /\ "#" # Newline
    /\ IsFiniteSet(Params) /\ MaxLine \in Nat \ {0}
    /\ \A p \in Params : p \notin {Newline, Blank, Nul, Unset, "#"}
BY ConfAssumptions
   DEF Chars, Newline, Blank, Nul, Unset, ParamsAssumption, MaxLineAssumption

LEMMA OtherIs ==
    ASSUME NEW s, Len(s) \in Nat, NEW i \in Nat, i >= 1, NEW kinds,
           \A j \in 1..Len(s) : s[j] \in Chars
    PROVE  FirstOther(s, i, kinds) = First(s, i, Chars \ kinds)
<1>1. {j \in i..Len(s) : s[j] \notin kinds} = {j \in i..Len(s) : s[j] \in Chars \ kinds}
      OBVIOUS
<1> QED BY <1>1 DEF FirstOther, First

LEMMA FileIs ==
    ASSUME file \in Files
    PROVE  /\ Len(file) \in Nat /\ file \in Seq(Chars)
           /\ \A i \in 1..Len(file) : file[i] \in Chars /\ file[i] \notin {Nul, Unset}
<1>1. file \in Seq(STRING) /\ Range(file) \cap {Nul, Unset} = {}
      BY ConfAssumptions DEF FilesAreText
<1>2. Len(file) \in Nat /\ DOMAIN file = 1..Len(file)
      BY <1>1, LenProperties
<1>3. \A i \in 1..Len(file) : file[i] \in Range(file)
      BY <1>2 DEF Range
<1>4. file \in Seq(Chars)
      <2>1. STRING \subseteq Chars
            BY DEF Chars
      <2> QED BY <1>1, <2>1, SeqMonotonic
<1>5. \A i \in 1..Len(file) : file[i] \in Chars
      BY <1>4, ElementOfSeq
<1> QED BY <1>1, <1>2, <1>3, <1>4, <1>5

\* What is read later changes no line that was read to its end.
LEMMA LineStays ==
    ASSUME file \in Files, NEW K \in 0..Len(file), Ends(K), NEW M \in K..Len(file),
           NEW i \in 1..K
    PROVE  LineAt(Upto(M), i) = LineAt(file, i)
<1> DEFINE s == Upto(M)
<1>1. /\ Len(file) \in Nat /\ file \in Seq(Chars) /\ M \in 0..Len(file)
      /\ K \in Nat /\ i \in Nat /\ i >= 1
      BY FileIs
<1>2. s \in Seq(Chars) /\ Len(s) = M /\ \A j \in 1..M : s[j] = file[j]
      BY <1>1, Prefix DEF Upto
<1>3. CASE K = Len(file)
      <2>1. M = Len(file)
            BY <1>1, <1>3
      <2> QED BY <1>1, <2>1, SubSeqFull DEF Upto
<1>4. CASE K # Len(file)
      <2>1. file[K] = Newline /\ s[K] = Newline
            BY <1>1, <1>2, <1>4 DEF Ends
      <2> HIDE DEF s
      <2> DEFINE o == 0
      <2>2. ASSUME NEW kinds, Newline \in kinds
            PROVE  First(file, i, kinds) = First(s, i, kinds)
            <3>1. Len(s) \in Nat /\ Len(file) \in Nat /\ o \in Nat
                  BY <1>1, <1>2
            <3>2. K \in i..Len(s) /\ o + K <= Len(file) /\ s[K] \in kinds
                  BY <1>1, <1>2, <2>1, <2>2
            <3>3. SameFrom(s, file, o, i, K)
                  BY <1>1, <1>2 DEF SameFrom
            <3>4. First(s, i, kinds) \in Nat /\ o + i = i
                  BY <1>1, <3>1, FirstHit
            <3>5. o + First(s, i, kinds) = First(s, i, kinds)
                  BY <3>4
            <3>6. First(file, o + i, kinds) = o + First(s, i, kinds)
                  <4> HIDE DEF o
                  <4> QED BY <1>1, <3>1, <3>2, <3>3, FirstMoves
            <3> QED BY <3>4, <3>5, <3>6
      <2> DEFINE a == First(s, i, Chars \ {Blank})
                 z == First(s, i, {Newline}) - 1
      <2>0. /\ FirstOther(file, i, {Blank}) = First(file, i, Chars \ {Blank})
            /\ FirstOther(s, i, {Blank}) = a
            BY <1>1, <1>2, FileIs, OtherIs
      <2>3. LineAt(file, i) = SubSeq(file, a, z)
            <3>1. Newline \in Chars \ {Blank} /\ Newline \in {Newline}
                  BY Characters
            <3>2. FirstOther(file, i, {Blank}) = a
                  BY <2>0, <2>2, <3>1
            <3>3. First(file, i, {Newline}) - 1 = z
                  BY <2>2, <3>1
            <3> HIDE DEF a, z
            <3> QED BY <3>2, <3>3 DEF LineAt
      <2>4. LineAt(s, i) = SubSeq(s, a, z)
            BY <2>0 DEF LineAt
      <2>5. a \in Nat /\ z \in Int /\ a >= 1 /\ z <= M
            <3>1. First(s, i, {Newline}) \in Nat /\ First(s, i, {Newline}) <= M + 1
                  BY <1>1, <1>2, FirstHit
            <3>2. a \in Nat /\ (a = M + 1 \/ a \in i..M)
                  BY <1>1, <1>2, FirstHit
            <3> QED BY <1>1, <3>1, <3>2
      <2> HIDE DEF a, z
      <2>6. \A j \in a..z : s[j] \in Chars /\ file[o + j] = s[j]
            BY <1>1, <1>2, <2>5, FileIs
      <2>7. o \in Int /\ o + a = a /\ o + z = z
            BY <2>5
      <2>8. SubSeq(file, o + a, o + z) = SubSeq(s, a, z)
            <3> HIDE DEF o
            <3> QED BY <2>5, <2>6, <2>7, SubSeqSame
      <2>9. LineAt(s, i) = LineAt(file, i)
            BY <2>3, <2>4, <2>7, <2>8
      <2> QED BY <2>9 DEF s
<1> QED BY <1>3, <1>4

\* So the lines that name a parameter only become more.
LEMMA SeenLines ==
    ASSUME file \in Files, NEW K \in 0..Len(file), Ends(K), NEW M \in K..Len(file),
           NEW p
    PROVE  /\ \A i \in 1..K : /\ i \in Names(Upto(M), p) <=> i \in Names(file, p)
                              /\ i \in Bare(Upto(M), p) <=> i \in Bare(file, p)
                              /\ LineAt(Upto(M), i) = LineAt(file, i)
           /\ \A i \in Names(Upto(M), p) : i \in 1..M
           /\ Names(file, p) \subseteq 1..Len(file)
<1>1. Len(file) \in Nat /\ file \in Seq(Chars) /\ M \in 0..Len(file)
      BY FileIs
<1>2. Len(Upto(M)) = M /\ \A j \in 1..M : Upto(M)[j] = file[j]
      BY <1>1, Prefix DEF Upto
<1>3. ASSUME NEW i \in 1..K
      PROVE  /\ i \in Names(Upto(M), p) <=> i \in Names(file, p)
             /\ i \in Bare(Upto(M), p) <=> i \in Bare(file, p)
             /\ LineAt(Upto(M), i) = LineAt(file, i)
      <2>1. LineAt(Upto(M), i) = LineAt(file, i)
            BY LineStays
      <2>2. i \in 1..Len(file) /\ i \in 1..M /\ (i = 1 \/ i - 1 \in 1..M)
            BY <1>1
      <2>3. i \in Starts(Upto(M)) <=> i \in Starts(file)
            BY <1>2, <2>2 DEF Starts
      <2>4. i \in Names(Upto(M), p) <=> i \in Names(file, p)
            BY <2>1, <2>3 DEF Names
      <2>5. i \in Bare(Upto(M), p) <=> i \in Bare(file, p)
            BY <2>1, <2>4 DEF Bare
      <2> QED BY <2>1, <2>4, <2>5
<1>4. \A i \in Names(Upto(M), p) : i \in 1..M
      BY <1>2 DEF Names, Starts
<1>5. Names(file, p) \subseteq 1..Len(file)
      BY DEF Names, Starts
<1> QED BY <1>3, <1>4, <1>5

LEMMA NamesAre ==
    ASSUME NEW s, NEW p, NEW i
    PROVE  /\ i \in Names(s, p) <=> i \in Starts(s) /\ HasName(LineAt(s, i), p)
           /\ i \in Bare(s, p) <=> i \in Names(s, p) /\ Len(LineAt(s, i)) = 2
BY DEF Names, Bare, HasName

LEMMA NamesStay ==
    ASSUME file \in Files, NEW K \in 0..Len(file), Ends(K), NEW M \in K..Len(file),
           NEW p
    PROVE  /\ Names(Upto(K), p) \subseteq Names(Upto(M), p)
           /\ Bare(Upto(K), p) \subseteq Bare(Upto(M), p)
           /\ Given(Upto(K), p) \subseteq Given(Upto(M), p)
<1>0. K \in K..Len(file)
      BY FileIs
<1>1. /\ \A i \in 1..K : /\ i \in Names(Upto(M), p) <=> i \in Names(file, p)
                         /\ i \in Bare(Upto(M), p) <=> i \in Bare(file, p)
                         /\ LineAt(Upto(M), i) = LineAt(file, i)
      /\ \A i \in 1..K : /\ i \in Names(Upto(K), p) <=> i \in Names(file, p)
                         /\ i \in Bare(Upto(K), p) <=> i \in Bare(file, p)
                         /\ LineAt(Upto(K), i) = LineAt(file, i)
      /\ \A i \in Names(Upto(K), p) : i \in 1..K
      BY <1>0, SeenLines
<1>2. Bare(Upto(K), p) \subseteq Names(Upto(K), p)
      BY NamesAre
<1>3. ASSUME NEW w \in Given(Upto(K), p) PROVE w \in Given(Upto(M), p)
      <2>1. PICK i \in Names(Upto(K), p) \ Bare(Upto(K), p) :
                w = SubSeq(LineAt(Upto(K), i), 3, Len(LineAt(Upto(K), i)))
            BY DEF Given
      <2>2. i \in 1..K
            BY <1>1, <2>1
      <2>3. /\ i \in Names(Upto(M), p) \ Bare(Upto(M), p)
            /\ w = SubSeq(LineAt(Upto(M), i), 3, Len(LineAt(Upto(M), i)))
            BY <1>1, <2>1, <2>2
      <2> QED BY <2>3 DEF Given
<1> QED BY <1>1, <1>2, <1>3

-----------------------------------------------------------------------------
(* A line in the buffer.                                                     *)

\* The buffer starts with the line that follows the first L characters, and
\* its end is at e.
InBuffer(b, e, L) ==
    /\ b \in [1..MaxLine -> Chars]
    /\ e \in 1..MaxLine /\ L \in Nat /\ L + e - 1 <= Len(file)
    /\ b[e] = Newline
    /\ \A k \in 1..(e - 1) : b[k] = file[L + k] /\ b[k] \notin {Newline, Nul, Unset}
    /\ L + e <= Len(file) => file[L + e] = Newline

LEMMA BufferIs ==
    ASSUME NEW b \in [1..MaxLine -> Chars]
    PROVE  b \in Seq(Chars) /\ Len(b) = MaxLine
<1>1. MaxLine \in Nat
      BY Characters
<1> QED BY <1>1, SeqDef

\* Without the blanks before it, it is the line of the file.
LEMMA LineIsThere ==
    ASSUME file \in Files, NEW b, NEW e, NEW L, InBuffer(b, e, L)
    PROVE  LET v == LineAt(file, L + 1) IN
           /\ Start(b) \in 1..e /\ b[Start(b)] # Blank
           /\ v \in Seq(Chars) /\ Len(v) = e - Start(b)
           /\ \A k \in 1..Len(v) : v[k] = b[Start(b) + k - 1]
<1> DEFINE st == Start(b)
           l == Len(file)
           kinds == Chars \ {Blank}
           v == LineAt(file, L + 1)
<1>1. /\ l \in Nat /\ MaxLine \in Nat /\ e \in 1..MaxLine /\ L \in Nat
      /\ L + e - 1 <= l /\ b[e] = Newline /\ Len(b) = MaxLine
      /\ \A k \in 1..(e - 1) : b[k] = file[L + k] /\ b[k] \notin {Newline, Nul, Unset}
      /\ \A k \in 1..MaxLine : b[k] \in Chars
      /\ \A k \in 1..l : file[k] \in Chars
      /\ L + e <= l => file[L + e] = Newline
      BY FileIs, Characters, BufferIs DEF InBuffer
<1>2. Newline \in kinds
      BY Characters
<1>3. /\ st \in Nat /\ (st = MaxLine + 1 \/ (st \in 1..MaxLine /\ b[st] \in kinds))
      /\ \A j \in 1..MaxLine : j < st => b[j] \notin kinds
      <2>1. st = First(b, 1, kinds)
            BY <1>1, OtherIs DEF Start
      <2> HIDE DEF st, kinds
      <2> QED BY <1>1, <2>1, FirstHit
<1> HIDE DEF st, kinds, l
<1>4. st \in 1..e /\ b[st] \in kinds
      <2>1. ~(e < st)
            BY <1>1, <1>2, <1>3
      <2> QED BY <1>1, <1>3, <2>1
<1>5. First(file, L + 1, kinds) = L + st
      <2>1. \A j \in (L + 1)..(L + st - 1) : j \in 1..l /\ file[j] \notin kinds
            <3>1. \A j \in (L + 1)..(L + st - 1) :
                      /\ j \in 1..l /\ j - L \in 1..(e - 1) /\ j - L \in 1..MaxLine
                      /\ j - L < st /\ L + (j - L) = j
                  BY <1>1, <1>4 DEF l
            <3> QED BY <1>1, <1>3, <3>1
      <2>2. CASE L + st <= l
            <3>1. file[L + st] \in kinds
                  <4>1. CASE st = e
                        BY <1>1, <1>2, <2>2, <4>1
                  <4>2. CASE st # e
                        <5>1. st \in 1..(e - 1)
                              BY <1>4, <4>2, <1>1
                        <5> QED BY <1>1, <1>4, <5>1
                  <4> QED BY <4>1, <4>2
            <3> DEFINE n == L + 1
                       g == L + st
            <3>2. /\ Len(file) \in Nat /\ n \in Nat /\ g \in n..Len(file)
                  /\ file[g] \in kinds
                  BY <1>1, <1>4, <2>2, <3>1 DEF l
            <3>3. \A j \in n..(g - 1) : file[j] \notin kinds
                  BY <1>1, <1>4, <2>1
            <3> HIDE DEF n, g
            <3>4. First(file, n, kinds) = g
                  BY <3>2, <3>3, FirstIs
            <3> QED BY <3>4 DEF n, g
      <2>3. CASE ~(L + st <= l)
            <3>1. L + st = l + 1
                  BY <1>1, <1>4, <2>3
            <3> DEFINE n == L + 1
            <3>2. Len(file) \in Nat /\ n \in Nat
                  BY <1>1 DEF l
            <3>3. \A j \in n..Len(file) : file[j] \notin kinds
                  <4>1. \A j \in n..Len(file) : j \in (L + 1)..(L + st - 1)
                        BY <1>1, <1>4, <3>1 DEF l
                  <4> QED BY <2>1, <4>1
            <3> HIDE DEF n
            <3>4. First(file, n, kinds) = Len(file) + 1
                  BY <3>2, <3>3, FirstNone
            <3> QED BY <3>1, <3>4 DEF n, l
      <2> QED BY <2>2, <2>3
<1>6. First(file, L + 1, {Newline}) = L + e
      <2>1. \A j \in (L + 1)..(L + e - 1) : j \in 1..l /\ file[j] \notin {Newline}
            <3>1. \A j \in (L + 1)..(L + e - 1) :
                      j \in 1..l /\ j - L \in 1..(e - 1) /\ L + (j - L) = j
                  BY <1>1
            <3> QED BY <1>1, <3>1
      <2> DEFINE n == L + 1
                 g == L + e
                 line == {Newline}
      <2>2. Len(file) \in Nat /\ n \in Nat /\ \A j \in n..(g - 1) : file[j] \notin line
            BY <1>1, <2>1 DEF l
      <2>3. CASE L + e <= l
            <3>1. g \in n..Len(file) /\ file[g] \in line
                  BY <1>1, <2>3 DEF l
            <3>2. First(file, n, line) = g
                  <4> HIDE DEF n, g, line
                  <4> QED BY <2>2, <3>1, FirstIs
            <3> QED BY <3>2
      <2>4. CASE ~(L + e <= l)
            <3>1. g = Len(file) + 1 /\ \A j \in n..Len(file) : j \in n..(g - 1)
                  BY <1>1, <2>4 DEF l
            <3>2. First(file, n, line) = Len(file) + 1
                  <4> HIDE DEF n, g, line
                  <4> QED BY <2>2, <3>1, FirstNone
            <3> QED BY <3>1, <3>2
      <2> QED BY <2>3, <2>4
<1>7. v = SubSeq(file, L + st, L + e - 1)
      <2> DEFINE a == FirstOther(file, L + 1, {Blank})
                 z == First(file, L + 1, {Newline})
      <2>1. v = SubSeq(file, a, z - 1)
            BY DEF LineAt
      <2>2. a = L + st /\ z = L + e
            <3>1. a = First(file, L + 1, kinds)
                  <4> DEFINE n == L + 1
                  <4>1. n \in Nat /\ n >= 1
                        BY <1>1
                  <4> HIDE DEF n
                  <4>2. FirstOther(file, n, {Blank}) = First(file, n, kinds)
                        BY <1>1, <4>1, OtherIs DEF kinds, l
                  <4> QED BY <4>2 DEF n
            <3> QED BY <1>5, <1>6, <3>1
      <2> HIDE DEF a, z, v
      <2>3. z - 1 = L + e - 1
            BY <1>1, <2>2
      <2> QED BY <2>1, <2>2, <2>3
<1>8. \A i \in (L + st)..(L + e - 1) :
          file[i] \in Chars /\ i - L \in 1..(e - 1) /\ L + (i - L) = i
      BY <1>1, <1>4 DEF l
<1>9. /\ v \in Seq(Chars) /\ Len(v) = e - st
      /\ \A k \in 1..Len(v) : v[k] = file[L + st + k - 1]
      <2> DEFINE m == L + st
                 n == L + e - 1
                 w == SubSeq(file, m, n)
      <2>1. m \in Int /\ n \in Int /\ n - m + 1 = e - st /\ e - st \in Nat
            BY <1>1, <1>4
      <2>2. \A i \in m..n : file[i] \in Chars
            BY <1>8
      <2>3. m <= n \/ e - st = 0
            BY <1>1, <1>4
      <2> HIDE DEF m, n, v
      <2>4. /\ w \in Seq(Chars) /\ Len(w) = IF m <= n THEN n - m + 1 ELSE 0
            /\ \A i \in 1..(n - m + 1) : w[i] = file[m + i - 1]
            BY <2>1, <2>2, SubSeqProperties
      <2>5. v = w
            BY <1>7 DEF m, n
      <2> HIDE DEF w
      <2>6. Len(w) = e - st
            BY <2>1, <2>3, <2>4
      <2>7. \A k \in 1..Len(w) : w[k] = file[L + st + k - 1]
            BY <2>1, <2>4, <2>6 DEF m
      <2> QED BY <2>4, <2>5, <2>6, <2>7
<1>10. ASSUME NEW k \in 1..Len(v) PROVE v[k] = b[st + k - 1]
       <2> HIDE DEF v
       <2>1. st + k - 1 \in 1..(e - 1) /\ L + (st + k - 1) = L + st + k - 1
             BY <1>1, <1>4, <1>9
       <2> QED BY <1>1, <1>9, <2>1
<1> QED BY <1>4, <1>9, <1>10 DEF st, kinds

\* strtok's token is a parameter exactly if the line names it.
LEMMA TokenNames ==
    ASSUME file \in Files, NEW b, NEW e, NEW L, InBuffer(b, e, L), NEW p \in Params
    PROVE  LET named == HasName(LineAt(file, L + 1), p) IN
           /\ Token(b) = <<p>> <=> named
           /\ named => End(b) = Start(b) + 1 /\ ~IsComment(b)
<1> DEFINE st == Start(b)
           en == End(b)
           v == LineAt(file, L + 1)
           stops == {Blank, Nul}
<1>1. /\ MaxLine \in Nat /\ e \in 1..MaxLine /\ Len(b) = MaxLine
      /\ b[e] = Newline
      /\ \A k \in 1..(e - 1) : b[k] \notin {Newline, Nul, Unset}
      /\ \A k \in 1..MaxLine : b[k] \in Chars
      BY Characters, BufferIs DEF InBuffer
<1>2. /\ st \in 1..e /\ b[st] # Blank
      /\ v \in Seq(Chars) /\ Len(v) = e - st
      /\ \A k \in 1..Len(v) : v[k] = b[st + k - 1]
      BY LineIsThere
<1>3. /\ en \in Nat /\ (en = MaxLine + 1 \/ (en \in st..MaxLine /\ b[en] \in stops))
      /\ \A j \in st..MaxLine : j < en => b[j] \notin stops
      <2>1. st \in Nat
            BY <1>1, <1>2
      <2>2. en = First(b, st, stops)
            BY DEF End
      <2> HIDE DEF st, en, stops
      <2> QED BY <1>1, <2>1, <2>2, FirstHit
<1>4. p \notin {Newline, Blank, Nul, "#"} /\ Newline # Blank /\ Newline # Nul
      BY Characters
<1> DEFINE t == SubSeq(b, st, en - 1)
<1>5. Token(b) = t
      BY DEF Token
<1> HIDE DEF st, en, v
<1>6. /\ Len(t) = IF st <= en - 1 THEN en - st ELSE 0
      /\ st <= en - 1 => t[1] = b[st]
      <2> DEFINE z == en - 1
      <2>1. st \in Int /\ z \in Int /\ \A i \in st..z : b[i] \in Chars
            BY <1>1, <1>2, <1>3
      <2> HIDE DEF z
      <2>2. /\ Len(SubSeq(b, st, z)) = IF st <= z THEN z - st + 1 ELSE 0
            /\ \A i \in 1..(z - st + 1) : SubSeq(b, st, z)[i] = b[st + i - 1]
            BY <2>1, SubSeqProperties
      <2>3. st <= z => 1 \in 1..(z - st + 1) /\ st + 1 - 1 = st
            BY <2>1
      <2>4. z - st + 1 = en - st
            BY <1>1, <1>2, <1>3 DEF z
      <2> HIDE DEF t
      <2>5. t = SubSeq(b, st, z)
            BY DEF t, z
      <2>6. z = en - 1
            BY DEF z
      <2> QED BY <2>2, <2>3, <2>4, <2>5, <2>6
<1> HIDE DEF t
<1>7. ASSUME t = <<p>> PROVE HasName(v, p)
      <2>1. Len(t) = 1 /\ t[1] = p
            BY <1>7
      <2>2. en = st + 1 /\ b[st] = p
            <3>1. st <= en - 1
                  BY <1>6, <2>1
            <3>2. Len(t) = en - st /\ t[1] = b[st]
                  BY <1>6, <3>1
            <3>3. st \in Int /\ en \in Int
                  BY <1>1, <1>2, <1>3
            <3>4. en - st = 1
                  BY <2>1, <3>2
            <3>5. b[st] = p
                  BY <2>1, <3>2
            <3>6. en = st + 1
                  BY <3>3, <3>4
            <3> QED BY <3>5, <3>6
      <2>3. st # e
            BY <1>1, <1>4, <2>2
      <2>4. en \in 1..MaxLine /\ en <= e /\ b[en] \in stops
            BY <1>1, <1>2, <1>3, <2>2, <2>3
      <2>5. en # e
            BY <1>1, <1>4, <2>4
      <2>6. en \in 1..(e - 1)
            BY <1>1, <2>4, <2>5
      <2>7. b[en] = Blank
            BY <1>1, <2>4, <2>6
      <2>8. Len(v) >= 2 /\ 1 \in 1..Len(v) /\ 2 \in 1..Len(v)
            BY <1>1, <1>2, <2>2, <2>6
      <2>9. st + 1 - 1 = st /\ st + 2 - 1 = en
            BY <1>2, <2>2
      <2> QED BY <1>2, <2>2, <2>7, <2>8, <2>9 DEF HasName
<1>8. ASSUME HasName(v, p) PROVE en = st + 1 /\ b[st] = p /\ b[1] # "#" /\ t = <<p>>
      <2>1. Len(v) >= 2 /\ 1 \in 1..Len(v) /\ 2 \in 1..Len(v) /\ v[1] = p /\ v[2] = Blank
            BY <1>1, <1>2, <1>8 DEF HasName
      <2>2. st + 1 - 1 = st /\ st + 2 - 1 = st + 1
            BY <1>2
      <2>3. b[st] = p /\ b[st + 1] = Blank
            BY <1>2, <2>1, <2>2
      <2>4. st + 1 \in st..MaxLine /\ st \in st..MaxLine
            BY <1>1, <1>2, <2>1
      <2>5. en = st + 1
            <3>1. ~(st + 1 < en)
                  BY <1>3, <2>3, <2>4
            <3>2. en # st
                  BY <1>1, <1>3, <1>4, <2>3, <2>4
            <3>3. en \in st..MaxLine \/ en = MaxLine + 1
                  BY <1>3
            <3> QED BY <1>1, <1>2, <2>4, <3>1, <3>2, <3>3
      <2>6. Len(t) = 1 /\ t[1] = p
            BY <1>2, <1>6, <2>3, <2>5
      <2>7. t \in Seq(Chars)
            <3> DEFINE z == en - 1
            <3>1. st \in Int /\ z \in Int /\ \A i \in st..z : b[i] \in Chars
                  BY <1>1, <1>2, <1>3
            <3> HIDE DEF z
            <3>2. SubSeq(b, st, z) \in Seq(Chars)
                  BY <3>1, SubSeqProperties
            <3> QED BY <3>2 DEF t, z
      <2>8. t = <<p>>
            BY <2>6, <2>7
      <2>9. b[1] # "#"
            <3>1. ASSUME b[1] = "#" PROVE st = 1
                  <4>1. 1 \in 1..Len(b) /\ b[1] \in Chars \ {Blank}
                        BY <1>1, <3>1, Characters
                  <4>2. ~(1 < First(b, 1, Chars \ {Blank}))
                        BY <1>1, <4>1, FirstHit
                  <4>3. st = First(b, 1, Chars \ {Blank})
                        BY <1>1, OtherIs DEF st, Start
                  <4> QED BY <1>1, <1>2, <4>2, <4>3
            <3> QED BY <1>4, <2>3, <3>1
      <2> QED BY <2>3, <2>5, <2>8, <2>9
<1> QED BY <1>5, <1>7, <1>8 DEF st, en, v, IsComment

\* What strtok takes for the value is what stands behind the name.
LEMMA ValueIsThere ==
    ASSUME file \in Files, NEW b, NEW e, NEW L, InBuffer(b, e, L), NEW p \in Params,
           HasName(LineAt(file, L + 1), p), Len(LineAt(file, L + 1)) # 2
    PROVE  LET v == LineAt(file, L + 1) IN
           /\ Value(b) = SubSeq(v, 3, Len(v)) /\ Value(b) # <<>>
           /\ ~Undefined(b)
<1> DEFINE st == Start(b)
           v == LineAt(file, L + 1)
           m == st + 2
           kinds == Chars \ {Newline}
           stops == {Newline, Nul}
<1>1. /\ MaxLine \in Nat /\ e \in 1..MaxLine /\ Len(b) = MaxLine
      /\ b[e] = Newline
      /\ \A k \in 1..(e - 1) : b[k] \notin {Newline, Nul, Unset}
      /\ \A k \in 1..MaxLine : b[k] \in Chars
      BY Characters, BufferIs DEF InBuffer
<1>2. /\ st \in 1..e
      /\ v \in Seq(Chars) /\ Len(v) = e - st
      /\ \A k \in 1..Len(v) : v[k] = b[st + k - 1]
      BY LineIsThere
<1>3. End(b) = st + 1 /\ Len(v) >= 3
      <2>1. HasName(v, p) /\ Len(v) # 2
            OBVIOUS
      <2>2. End(b) = st + 1
            BY <2>1, TokenNames
      <2> HIDE DEF v, st
      <2>3. Len(v) >= 2 /\ Len(v) \in Nat
            BY <1>2, <2>1, LenProperties DEF HasName
      <2> DEFINE n == Len(v)
      <2>4. n \in Nat /\ n >= 2 /\ n # 2
            BY <2>1, <2>3
      <2> HIDE DEF n
      <2>5. n >= 3
            BY <2>4
      <2> QED BY <2>2, <2>5 DEF n
<1> HIDE DEF st, v
<1>4. m \in 1..(e - 1) /\ m \in Nat /\ m \in 1..MaxLine
      BY <1>1, <1>2, <1>3
<1>5. ValueStart(b) = m
      <2>1. ValueStart(b) = First(b, m, kinds)
            <3>1. End(b) + 1 = m
                  BY <1>2, <1>3
            <3>2. ValueStart(b) = FirstOther(b, m, {Newline})
                  BY <3>1 DEF ValueStart
            <3>3. m \in Nat /\ m >= 1
                  BY <1>4
            <3> HIDE DEF m
            <3> QED BY <1>1, <3>2, <3>3, OtherIs
      <2>2. m \in m..Len(b) /\ b[m] \in kinds /\ \A j \in m..(m - 1) : b[j] \notin kinds
            BY <1>1, <1>4
      <2> HIDE DEF m, kinds
      <2> QED BY <1>1, <1>4, <2>1, <2>2, FirstIs
<1>6. ValueEnd(b) = e
      <2>1. ValueEnd(b) = First(b, m, stops)
            BY <1>5 DEF ValueEnd
      <2>2. e \in m..Len(b) /\ b[e] \in stops
            BY <1>1, <1>4
      <2>3. \A j \in m..(e - 1) : b[j] \notin stops
            BY <1>1, <1>4
      <2> HIDE DEF m, stops
      <2> QED BY <1>1, <1>4, <2>1, <2>2, <2>3, FirstIs
<1> DEFINE w == Value(b)
           z == e - 1
<1>7. w = SubSeq(b, m, z)
      BY <1>5, <1>6 DEF Value
<1> HIDE DEF w
<1>8. w = SubSeq(v, 3, Len(v))
      <2> DEFINE d == st - 1
                 k == 3
                 n == Len(v)
      <2>1. d \in Int /\ k \in Int /\ n \in Int /\ d + k = m /\ d + n = z
            BY <1>1, <1>2, <1>3
      <2>2. \A i \in k..n : v[i] \in Chars /\ b[d + i] = v[i]
            <3>1. \A i \in k..n : i \in 1..Len(v) /\ d + i = st + i - 1
                  BY <1>1, <1>2
            <3>2. \A i \in 1..Len(v) : v[i] \in Chars
                  BY <1>2, ElementOfSeq
            <3> HIDE DEF d, k, n
            <3> QED BY <1>2, <3>1, <3>2
      <2>3. SubSeq(b, d + k, d + n) = SubSeq(v, k, n)
            <3> HIDE DEF d, k, n
            <3> QED BY <2>1, <2>2, SubSeqSame
      <2>4. SubSeq(b, m, z) = SubSeq(v, k, n)
            <3> HIDE DEF d, k, n, m, z
            <3> QED BY <2>1, <2>3
      <2> QED BY <1>7, <2>4
<1>9. /\ w \in Seq(Chars) /\ Len(w) = z - m + 1 /\ z - m + 1 >= 1
      /\ \A i \in 1..(z - m + 1) : w[i] = b[m + i - 1]
      <2>1. m \in Int /\ z \in Int /\ m <= z /\ \A i \in m..z : b[i] \in Chars
            BY <1>1, <1>4
      <2>2. z - m + 1 >= 1
            BY <1>1, <1>4
      <2> HIDE DEF m, z
      <2> QED BY <1>7, <2>1, <2>2, SubSeqProperties
<1>10. Unset \notin Range(w)
      <2>1. DOMAIN w = 1..Len(w)
            BY <1>9, LenProperties
      <2>2. \A i \in 1..Len(w) : w[i] = b[m + i - 1] /\ m + i - 1 \in 1..(e - 1)
            BY <1>1, <1>4, <1>9
      <2>3. \A i \in 1..Len(w) : w[i] # Unset
            BY <1>1, <2>2
      <2> QED BY <2>1, <2>3 DEF Range
<1>11. w # <<>>
      BY <1>9
<1>12. ~Undefined(b)
      BY <1>1, <1>6, <1>10 DEF Undefined, w
<1> QED BY <1>8, <1>11, <1>12 DEF w, v

-----------------------------------------------------------------------------
(* readline.                                                                 *)

ConfTypes ==
    /\ file \in Files
    /\ Len(rest) \in 0..Len(file)
    /\ rest = SubSeq(file, Read + 1, Len(file))
    /\ buffer \in [1..MaxLine -> Chars]
    /\ value \in [Params -> Seq(Chars)]
    /\ found \in Nat

LEMMA RestIs ==
    ASSUME ConfTypes
    PROVE  /\ Len(file) \in Nat /\ Len(rest) \in Nat /\ Read \in 0..Len(file)
           /\ Read + Len(rest) = Len(file)
           /\ rest \in Seq(Chars)
           /\ \A k \in 1..Len(rest) : rest[k] = file[Read + k]
<1> DEFINE l == Len(file)
           L == Read
<1>1. /\ l \in Nat /\ Len(rest) \in Nat /\ L \in 0..l /\ L + Len(rest) = l
      /\ \A k \in 1..l : file[k] \in Chars
      /\ L + 1 \in Int /\ L \in Nat
      BY FileIs DEF ConfTypes, Read
<1>2. rest = SubSeq(file, L + 1, l)
      BY DEF ConfTypes
<1> DEFINE m == L + 1
<1> HIDE DEF l, L
<1>3. /\ rest \in Seq(Chars)
      /\ \A i \in 1..(l - m + 1) : rest[i] = file[m + i - 1]
      <2>1. \A i \in m..l : file[i] \in Chars
            BY <1>1
      <2>2. m \in Int /\ l \in Int /\ rest = SubSeq(file, m, l)
            BY <1>1, <1>2
      <2> HIDE DEF m
      <2> QED BY <2>1, <2>2, SubSeqProperties
<1>4. \A k \in 1..Len(rest) : k \in 1..(l - m + 1) /\ m + k - 1 = L + k
      BY <1>1
<1>5. \A k \in 1..Len(rest) : rest[k] = file[L + k]
      <2> HIDE DEF m
      <2> QED BY <1>3, <1>4
<1> QED BY <1>1, <1>3, <1>5 DEF l, L

\* What is left when n more characters are read.
LEMMA RestDrops ==
    ASSUME ConfTypes, NEW n \in 0..Len(rest)
    PROVE  /\ SubSeq(rest, n + 1, Len(rest)) = SubSeq(file, Read + n + 1, Len(file))
           /\ Len(SubSeq(rest, n + 1, Len(rest))) = Len(rest) - n
<1> DEFINE L == Read
           m == n + 1
           z == Len(rest)
<1>1. /\ L \in Int /\ z \in Nat /\ m \in Int /\ L + z = Len(file)
      /\ L + m = Read + n + 1
      /\ \A k \in 1..z : rest[k] = file[L + k] /\ rest[k] \in Chars
      /\ (IF m <= z THEN z - m + 1 ELSE 0) = z - n
      BY RestIs, ElementOfSeq
<1>2. \A k \in m..z : rest[k] \in Chars /\ file[L + k] = rest[k]
      BY <1>1
<1> HIDE DEF L, m, z
<1>3. SubSeq(file, L + m, L + z) = SubSeq(rest, m, z)
      BY <1>1, <1>2, SubSeqSame
<1>4. Len(SubSeq(rest, m, z)) = IF m <= z THEN z - m + 1 ELSE 0
      BY <1>1, <1>2, SubSeqProperties
<1> QED BY <1>1, <1>3, <1>4 DEF m, z

\* A line is read.
LEMMA LineRead ==
    ASSUME ConfTypes, ReadLine.len > 0
    PROVE  /\ InBuffer(ReadLine.buffer, ReadLine.len, Read)
           /\ \E n \in 1..Len(rest) :
                  /\ n <= ReadLine.len
                  /\ ReadLine.rest = SubSeq(file, Read + n + 1, Len(file))
                  /\ Len(ReadLine.rest) = Len(rest) - n
                  /\ n = Len(rest) \/ file[Read + n] = Newline
<1> DEFINE e == First(rest, 1, {Newline})
           z == Len(rest)
           L == Read
           chars == IF e <= z THEN SubSeq(rest, 1, e) ELSE Append(rest, Newline)
<1>1. rest # <<>> /\ ~(e > MaxLine) /\ ReadLine = Line(e, chars)
      <2>1. \A chs : Line(0, chs).len = 0
            BY DEF Line
      <2>2. ASSUME rest = <<>> PROVE ReadLine.len = 0
            <3>1. e # MaxLine + 1 => ReadLine = Line(0, <<>>) \/ ReadLine = Line(0, SubSeq(rest, 1, MaxLine))
                  BY <2>2 DEF ReadLine
            <3> QED BY <2>1, <2>2, <3>1 DEF ReadLine
      <2>3. e > MaxLine => ReadLine.len = 0
            BY <2>1, <2>2 DEF ReadLine
      <2>4. rest # <<>> /\ ~(e > MaxLine)
            BY <2>2, <2>3
      <2> QED BY <2>4 DEF ReadLine
<1>2. /\ z \in Nat /\ L \in Nat /\ L + z = Len(file) /\ z # 0
      /\ rest \in Seq(Chars)
      /\ \A k \in 1..z : /\ rest[k] = file[L + k] /\ rest[k] \in Chars
                         /\ rest[k] \notin {Nul, Unset}
      /\ MaxLine \in Nat /\ Newline \in Chars
      <2>1. rest \in Seq(Chars) /\ \A k \in 1..z : rest[k] \in Chars
            BY RestIs, ElementOfSeq
      <2>2. /\ z \in Nat /\ L \in Nat /\ L + z = Len(file)
            /\ \A k \in 1..z : rest[k] = file[L + k]
            BY RestIs
      <2>3. z # 0
            BY <1>1, <2>1
      <2>4. \A k \in 1..Len(file) : file[k] \notin {Nul, Unset}
            BY FileIs DEF ConfTypes
      <2>5. \A k \in 1..z : rest[k] \notin {Nul, Unset}
            <3>1. \A k \in 1..z : L + k \in 1..Len(file)
                  BY <2>2
            <3> QED BY <2>2, <2>4, <3>1
      <2> QED BY <2>1, <2>2, <2>3, <2>5, Characters
<1>3. /\ e \in Nat /\ e <= z + 1
      /\ e = z + 1 \/ (e \in 1..z /\ rest[e] = Newline)
      /\ \A j \in 1..z : j < e => rest[j] # Newline
      BY <1>2, FirstHit
<1> HIDE DEF e, z, L
<1>4. e \in 1..MaxLine /\ \A k \in 1..(e - 1) : k \in 1..z /\ k < e
      BY <1>1, <1>2, <1>3
<1>5. Len(chars) = e /\ chars[e] = Newline /\ \A k \in 1..(e - 1) : chars[k] = rest[k]
      <2>1. CASE e <= z
            <3>1. e \in 0..z
                  BY <1>3, <2>1
            <3>2. /\ Len(SubSeq(rest, 1, e)) = e
                  /\ \A k \in 1..e : SubSeq(rest, 1, e)[k] = rest[k]
                  BY <1>2, <3>1, Prefix DEF z
            <3>3. rest[e] = Newline
                  BY <1>2, <1>3, <2>1
            <3>4. e \in 1..e /\ \A k \in 1..(e - 1) : k \in 1..e
                  BY <1>2, <1>4
            <3> QED BY <2>1, <3>2, <3>3, <3>4
      <2>2. CASE ~(e <= z)
            <3>1. e = z + 1 /\ e - 1 = z
                  BY <1>2, <1>3, <2>2
            <3> QED BY <1>2, <2>2, <3>1, AppendProperties DEF z
      <2> QED BY <2>1, <2>2
<1> HIDE DEF chars
<1> DEFINE b == [i \in 1..MaxLine |-> IF i <= e THEN chars[i] ELSE buffer[i]]
<1>6. /\ ReadLine.buffer = b /\ ReadLine.len = e
      /\ ReadLine.rest = SubSeq(rest, e + 1, Len(rest))
      BY <1>1, <1>5 DEF Line, Overwritten
<1>7. InBuffer(b, e, L)
      <2>1. ASSUME NEW k \in 1..MaxLine
            PROVE  (IF k <= e THEN chars[k] ELSE buffer[k]) \in Chars
            <3>1. CASE k = e
                  BY <1>2, <1>5, <3>1
            <3>2. CASE k < e
                  <4>1. k \in 1..(e - 1)
                        BY <1>4, <3>2
                  <4>2. chars[k] = rest[k] /\ rest[k] \in Chars
                        BY <1>2, <1>4, <1>5, <4>1
                  <4>3. k <= e
                        BY <1>2, <1>4, <3>2
                  <4> QED BY <4>2, <4>3
            <3>3. CASE k > e
                  BY <1>4, <3>3 DEF ConfTypes
            <3> QED BY <1>4, <3>1, <3>2, <3>3
      <2>2. b \in [1..MaxLine -> Chars]
            BY <2>1
      <2>3. b[e] = Newline
            BY <1>4, <1>5
      <2>4. ASSUME NEW k \in 1..(e - 1)
            PROVE  b[k] = file[L + k] /\ b[k] \notin {Newline, Nul, Unset}
            <3>1. k \in 1..MaxLine /\ k <= e /\ k \in 1..z /\ k < e
                  BY <1>2, <1>4
            <3>2. b[k] = rest[k]
                  BY <1>5, <3>1
            <3> HIDE DEF b
            <3> QED BY <1>2, <1>3, <3>1, <3>2
      <2>5. L + e <= Len(file) => file[L + e] = Newline
            BY <1>2, <1>3
      <2>6. L + e - 1 <= Len(file)
            BY <1>2, <1>3
      <2> HIDE DEF b
      <2> QED BY <1>2, <1>4, <2>2, <2>3, <2>4, <2>5, <2>6 DEF InBuffer
<1>8. \E n \in 1..z : /\ n <= e
                      /\ SubSeq(rest, e + 1, Len(rest)) = SubSeq(file, L + n + 1, Len(file))
                      /\ Len(SubSeq(rest, e + 1, Len(rest))) = z - n
                      /\ n = z \/ file[L + n] = Newline
      <2>1. CASE e <= z
            <3>1. e \in 1..z /\ e \in 0..z /\ e <= e /\ file[L + e] = Newline
                  BY <1>2, <1>3, <1>4, <2>1
            <3> QED BY <3>1, RestDrops DEF z, L
      <2>2. CASE ~(e <= z)
            <3>1. z <= e /\ e + 1 \in Int /\ z \in Int /\ z < e + 1 /\ z \in 1..z /\ z \in 0..z
                  /\ z + 1 \in Int /\ z < z + 1
                  BY <1>2, <1>3, <2>2
            <3>2. SubSeq(rest, e + 1, z) = <<>> /\ SubSeq(rest, z + 1, z) = <<>>
                  BY <3>1, SubSeqEmpty
            <3>3. /\ SubSeq(rest, z + 1, z) = SubSeq(file, L + z + 1, Len(file))
                  /\ Len(SubSeq(rest, z + 1, z)) = z - z
                  BY <3>1, RestDrops DEF z, L
            <3> QED BY <3>1, <3>2, <3>3 DEF z
      <2> QED BY <2>1, <2>2
<1> HIDE DEF b
<1> QED BY <1>6, <1>7, <1>8 DEF z, L

\* The invariant.
ReadWell ==
    pc = "reading" =>
        /\ Ends(Read)
        /\ \A p \in Params : Names(Seen, p) # {} => value[p] # NoValue

Unrepeated == \A p \in Params : Cardinality(Names(file, p)) <= 1

Counted ==
    Unrepeated /\ pc # "crash" =>
        found = Cardinality({p \in Params : value[p] # NoValue})

Ended ==
    /\ pc \in {"reading", "done", "exit", "crash"}
    /\ pc = "done" => found = Cardinality(Params)
    /\ WellFormed => pc \notin {"exit", "crash"} /\ (pc = "done" => rest = <<>>)

ConfInv == ConfTypes /\ ValueIsOwn /\ ReadWell /\ Counted /\ Ended

\* Nothing more is read at the end of the file, and of a line that is too
\* long only what fits.
LEMMA LastRead ==
    ASSUME ConfTypes, ~(ReadLine.len > 0)
    PROVE  /\ ReadLine.buffer \in [1..MaxLine -> Chars]
           /\ \E n \in 0..Len(rest) :
                  /\ ReadLine.rest = SubSeq(file, Read + n + 1, Len(file))
                  /\ Len(ReadLine.rest) = Len(rest) - n
           /\ Ends(Read) /\ WellFormed => rest = <<>> /\ ReadLine.rest = <<>>
<1> DEFINE e == First(rest, 1, {Newline})
           z == Len(rest)
           L == Read
<1>1. /\ z \in Nat /\ L \in Nat /\ L + z = Len(file)
      /\ rest \in Seq(Chars)
      /\ \A k \in 1..z : rest[k] = file[L + k]
      /\ MaxLine \in Nat \ {0}
      /\ Len(file) \in Nat
      BY RestIs, Characters
<1>2. /\ e \in Nat /\ e <= z + 1
      /\ e = z + 1 \/ (e \in 1..z /\ rest[e] = Newline)
      /\ \A j \in 1..z : j < e => rest[j] # Newline
      BY <1>1, FirstHit
<1>3. \/ rest = <<>> /\ ReadLine = Line(0, <<>>)
      \/ e > MaxLine /\ ReadLine = Line(0, SubSeq(rest, 1, MaxLine))
      <2>1. \A l, chars : Line(l, chars).len = l
            BY DEF Line
      <2>2. e > 0
            BY <1>1, <1>2
      <2>3. ASSUME rest = <<>> PROVE ReadLine = Line(0, <<>>)
            <3>1. z = 0
                  BY <2>3
            <3>2. ~(e > MaxLine)
                  <4> HIDE DEF e, z
                  <4> QED BY <1>1, <1>2, <3>1
            <3> QED BY <2>3, <3>2 DEF ReadLine
      <2>4. ASSUME rest # <<>>, ~(e > MaxLine) PROVE ReadLine.len = e
            BY <2>1, <2>4 DEF ReadLine
      <2>5. ASSUME rest # <<>>, e > MaxLine
            PROVE  ReadLine = Line(0, SubSeq(rest, 1, MaxLine))
            BY <2>5 DEF ReadLine
      <2> HIDE DEF e
      <2> QED BY <1>2, <2>2, <2>3, <2>4, <2>5
<1>0. \A k \in Int : k <= MaxLine /\ MaxLine < e => k < e
      BY <1>1, <1>2
<1> HIDE DEF e, z, L
<1>4. CASE rest = <<>> /\ ReadLine = Line(0, <<>>)
      <2>1. /\ ReadLine.rest = SubSeq(rest, Len(<<>>) + 1, Len(rest))
            /\ ReadLine.buffer = Overwritten(<<>>)
            BY <1>4 DEF Line
      <2>2. ReadLine.rest = SubSeq(rest, 0 + 1, Len(rest))
            BY <2>1
      <2>3. 0 \in 0..Len(rest) /\ Read + 0 + 1 = Read + 1
            BY <1>1 DEF z, L
      <2>4. /\ ReadLine.rest = SubSeq(file, Read + 0 + 1, Len(file))
            /\ Len(ReadLine.rest) = Len(rest) - 0
            BY <2>2, <2>3, RestDrops
      <2>5. Overwritten(<<>>) \in [1..MaxLine -> Chars]
            <3>1. \A i \in 1..MaxLine : ~(i <= Len(<<>>))
                  BY <1>1
            <3>2. buffer \in [1..MaxLine -> Chars]
                  BY DEF ConfTypes
            <3> QED BY <3>1, <3>2 DEF Overwritten
      <2>6. ReadLine.rest = <<>>
            <3>1. Len(ReadLine.rest) = 0 /\ Len(rest) = 0
                  BY <1>4, <2>4
            <3>2. ReadLine.rest \in Seq(Chars)
                  <4>1. 0 + 1 \in Int /\ Len(rest) \in Int /\ Len(rest) < 0 + 1
                        BY <3>1
                  <4> QED BY <2>2, <4>1, SubSeqEmpty, EmptySeq
            <3> QED BY <3>1, <3>2
      <2> QED BY <1>4, <2>1, <2>3, <2>4, <2>5, <2>6
<1>5. CASE e > MaxLine /\ ReadLine = Line(0, SubSeq(rest, 1, MaxLine))
      <2> DEFINE chars == SubSeq(rest, 1, MaxLine)
      <2>1. MaxLine \in 0..z
            BY <1>1, <1>2, <1>5
      <2>2. chars \in Seq(Chars) /\ Len(chars) = MaxLine
            BY <1>1, <2>1, Prefix DEF z
      <2>3. /\ ReadLine.rest = SubSeq(rest, MaxLine + 1, Len(rest))
            /\ ReadLine.buffer = Overwritten(chars)
            BY <1>5, <2>2 DEF Line
      <2>4. /\ ReadLine.rest = SubSeq(file, Read + MaxLine + 1, Len(file))
            /\ Len(ReadLine.rest) = Len(rest) - MaxLine
            BY <2>1, <2>3, RestDrops DEF z
      <2>5. Overwritten(chars) \in [1..MaxLine -> Chars]
            <3>1. \A i \in 1..MaxLine : chars[i] \in Chars
                  BY <2>2, ElementOfSeq
            <3>2. \A i \in 1..MaxLine : i <= Len(chars)
                  BY <1>1, <2>2
            <3> HIDE DEF chars
            <3> QED BY <3>1, <3>2 DEF Overwritten
      <2>6. ASSUME Ends(Read), WellFormed PROVE FALSE
            <3>1. L + 1 \in Starts(file)
                  <4>1. L + 1 \in 1..Len(file) /\ L # Len(file) /\ L + 1 - 1 = L
                        BY <1>1, <2>1
                  <4>2. L = 0 \/ file[L] = Newline
                        BY <2>6, <4>1 DEF Ends, L
                  <4> DEFINE i == L + 1
                  <4>3. i \in 1..Len(file) /\ (i = 1 \/ file[i - 1] = Newline)
                        BY <1>1, <4>1, <4>2
                  <4> HIDE DEF i
                  <4>4. i \in Starts(file)
                        BY <4>3 DEF Starts
                  <4> QED BY <4>4 DEF i
            <3> DEFINE n == L + 1
                       f == First(file, n, {Newline})
            <3>2. f - n < MaxLine
                  BY <2>6, <3>1 DEF WellFormed
            <3>3. /\ f \in Nat
                  /\ f = Len(file) + 1 \/ (f \in n..Len(file) /\ file[f] = Newline)
                  <4>1. n \in Nat
                        BY <1>1
                  <4> HIDE DEF n
                  <4> QED BY <1>1, <4>1, FirstHit
            <3> HIDE DEF f
            <3>4. f \in n..(L + MaxLine)
                  BY <1>1, <2>1, <3>2, <3>3
            <3>5. f - L \in 1..z /\ f - L < e /\ L + (f - L) = f /\ f # Len(file) + 1
                  <4>1. f - L \in 1..MaxLine /\ L + (f - L) = f
                        BY <1>1, <3>4
                  <4>2. f # Len(file) + 1
                        BY <1>1, <2>1, <3>4
                  <4>3. f - L < e
                        BY <1>0, <1>1, <1>2, <1>5, <3>4, <4>1
                  <4>4. f - L \in 1..z
                        BY <1>1, <2>1, <4>1
                  <4> QED BY <4>1, <4>2, <4>3, <4>4
            <3> QED BY <1>1, <1>2, <3>3, <3>5
      <2> QED BY <2>1, <2>3, <2>4, <2>5, <2>6 DEF z
<1> QED BY <1>3, <1>4, <1>5

\* A line that is read names the parameter that read_config sets, or none.
LEMMA NewNames ==
    ASSUME file \in Files, NEW L \in 0..Len(file), Ends(L),
           NEW b, NEW e, InBuffer(b, e, L),
           NEW M \in (L + 1)..Len(file), M <= L + e, Ends(M), NEW p
    PROVE  LET v == LineAt(file, L + 1) IN
           /\ \A i \in Names(Upto(M), p) : i \in Names(Upto(L), p) \/ HasName(v, p)
           /\ Names(Upto(L), p) \subseteq 1..L \cap Names(file, p)
           /\ Bare(Upto(M), p) \subseteq Bare(file, p)
           /\ HasName(v, p) =>
                  /\ L + 1 \in Names(Upto(M), p) \cap Names(file, p)
                  /\ IF Len(v) = 2 THEN L + 1 \in Bare(Upto(M), p)
                     ELSE SubSeq(v, 3, Len(v)) \in Given(Upto(M), p)
<1> DEFINE v == LineAt(file, L + 1)
           new == L + 1
<1>1. /\ Len(file) \in Nat /\ file \in Seq(Chars) /\ L \in Nat
      /\ M \in Nat /\ M \in 0..Len(file) /\ M \in M..Len(file) /\ L \in L..Len(file)
      /\ new \in 1..M /\ M \in L..Len(file) /\ new \in 1..Len(file)
      BY FileIs
<1>2. /\ \A i \in 1..M : /\ i \in Names(Upto(M), p) <=> i \in Names(file, p)
                         /\ i \in Bare(Upto(M), p) <=> i \in Bare(file, p)
                         /\ LineAt(Upto(M), i) = LineAt(file, i)
      /\ \A i \in Names(Upto(M), p) : i \in 1..M
      BY <1>1, SeenLines
<1>3. /\ \A i \in 1..L : i \in Names(Upto(L), p) <=> i \in Names(file, p)
      /\ \A i \in Names(Upto(L), p) : i \in 1..L
      BY <1>1, SeenLines
<1>4. new \in Starts(file)
      <2>1. L # Len(file) /\ new - 1 = L
            BY <1>1
      <2>2. L = 0 \/ file[L] = Newline
            BY <2>1 DEF Ends
      <2>3. new \in 1..Len(file) /\ (new = 1 \/ file[new - 1] = Newline)
            BY <1>1, <2>1, <2>2
      <2> HIDE DEF new
      <2> QED BY <2>3 DEF Starts
<1>5. ASSUME NEW i \in Names(Upto(M), p), i \notin Names(Upto(L), p) PROVE i = new
      <2>1. i \in 1..M /\ i \in Names(file, p)
            BY <1>2
      <2>2. ~(i \in 1..L)
            BY <1>3, <1>5, <2>1
      <2>3. i \in Starts(file)
            BY <2>1, NamesAre
      <2>4. i = 1 \/ file[i - 1] = Newline
            BY <2>3 DEF Starts
      <2>5. ASSUME i # new PROVE FALSE
            <3>1. e \in Nat
                  BY Characters DEF InBuffer
            <3>2. i - 1 - L \in 1..(e - 1) /\ L + (i - 1 - L) = i - 1 /\ i # 1
                  BY <1>1, <2>1, <2>2, <2>5, <3>1
            <3> DEFINE k == i - 1 - L
            <3>3. k \in 1..(e - 1) /\ L + k = i - 1
                  BY <3>2
            <3> HIDE DEF k
            <3>4. b[k] = file[L + k] /\ b[k] # Newline
                  BY <3>3 DEF InBuffer
            <3> QED BY <2>4, <3>2, <3>3, <3>4
      <2> QED BY <2>5
<1> HIDE DEF new
<1>6. HasName(LineAt(file, new), p) => new \in Names(file, p) /\ new \in Names(Upto(M), p)
      BY <1>1, <1>2, <1>4, NamesAre
<1>7. ASSUME NEW i \in Names(Upto(M), p), i \notin Names(Upto(L), p)
      PROVE  HasName(LineAt(file, new), p)
      <2>1. i = new /\ i \in Names(file, p)
            BY <1>2, <1>5, <1>7
      <2> QED BY <2>1, NamesAre
<1>8. Bare(Upto(M), p) \subseteq Bare(file, p)
      <2>1. Bare(Upto(M), p) \subseteq Names(Upto(M), p)
            BY NamesAre
      <2> QED BY <1>2, <2>1
<1>9. Names(Upto(L), p) \subseteq 1..L \cap Names(file, p)
      BY <1>3
<1>10. ASSUME HasName(LineAt(file, new), p)
       PROVE  IF Len(LineAt(file, new)) = 2 THEN new \in Bare(Upto(M), p)
              ELSE SubSeq(LineAt(file, new), 3, Len(LineAt(file, new))) \in Given(Upto(M), p)
       <2>1. new \in Names(Upto(M), p) /\ LineAt(Upto(M), new) = LineAt(file, new)
             BY <1>1, <1>2, <1>6, <1>10
       <2>2. CASE Len(LineAt(file, new)) = 2
             BY <2>1, <2>2, NamesAre
       <2>3. CASE Len(LineAt(file, new)) # 2
             <3>1. new \in Names(Upto(M), p) \ Bare(Upto(M), p)
                   BY <2>1, <2>3, NamesAre
             <3>2. SubSeq(LineAt(Upto(M), new), 3, Len(LineAt(Upto(M), new))) \in Given(Upto(M), p)
                   BY <3>1 DEF Given
             <3> QED BY <2>1, <2>3, <3>2
       <2> QED BY <2>2, <2>3
<1> QED BY <1>6, <1>7, <1>8, <1>9, <1>10 DEF new

-----------------------------------------------------------------------------
(* read_config.                                                              *)

LEMMA InitConf == ConfInit => ConfInv
<1> SUFFICES ASSUME ConfInit PROVE ConfInv
    OBVIOUS
<1>1. /\ file \in Files /\ rest = file /\ found = 0 /\ pc = "reading"
      /\ buffer = [i \in 1..MaxLine |-> Unset]
      /\ value = [p \in Params |-> NoValue]
      BY DEF ConfInit
<1>2. Len(file) \in Nat /\ file \in Seq(Chars)
      BY <1>1, FileIs
<1>3. Read = 0
      BY <1>1, <1>2 DEF Read
<1>4. ConfTypes
      <2>1. rest = SubSeq(file, Read + 1, Len(file))
            BY <1>1, <1>2, <1>3, SubSeqFull
      <2>2. buffer \in [1..MaxLine -> Chars]
            BY <1>1 DEF Chars
      <2>3. value \in [Params -> Seq(Chars)]
            BY <1>1, EmptySeq DEF NoValue
      <2>4. Len(rest) \in 0..Len(file) /\ found \in Nat
            BY <1>1, <1>2
      <2> QED BY <1>1, <2>1, <2>2, <2>3, <2>4 DEF ConfTypes
<1>5. \A p \in Params : value[p] = NoValue
      BY <1>1
<1>6. ValueIsOwn
      BY <1>5 DEF ValueIsOwn
<1>7. ReadWell
      <2>1. Ends(Read)
            BY <1>3 DEF Ends
      <2>2. Seen = <<>>
            <3>1. Len(file) - Len(rest) = 0 /\ 0 \in Int /\ 1 \in Int /\ 0 < 1
                  BY <1>1, <1>2
            <3> QED BY <3>1, SubSeqEmpty DEF Seen
      <2>3. \A p : Names(Seen, p) = {}
            <3>1. Len(Seen) = 0
                  BY <2>2
            <3>2. Starts(Seen) = {}
                  BY <3>1 DEF Starts
            <3> QED BY <3>2 DEF Names
      <2> QED BY <2>1, <2>3 DEF ReadWell
<1>8. Counted
      <2>1. {p \in Params : value[p] # NoValue} = {}
            BY <1>5
      <2> QED BY <1>1, <2>1, FS_EmptySet DEF Counted
<1>9. Ended
      BY <1>1 DEF Ended
<1> QED BY <1>4, <1>6, <1>7, <1>8, <1>9 DEF ConfInv

\* A step that reads n characters.
ReadsOn(n) ==
    /\ n \in 0..Len(rest)
    /\ rest' = SubSeq(file, Read + n + 1, Len(file))
    /\ Len(rest') = Len(rest) - n
    /\ buffer' \in [1..MaxLine -> Chars]
    /\ file' = file

LEMMA ReadTypes ==
    ASSUME ConfTypes, NEW n, ReadsOn(n),
           value' \in [Params -> Seq(Chars)], found' \in Nat
    PROVE  /\ ConfTypes' /\ Read' = Read + n
           /\ Read + n \in Read..Len(file) /\ Read \in 0..Len(file)
           /\ Seen = Upto(Read) /\ Seen' = Upto(Read + n)
<1>1. /\ Len(file) \in Nat /\ Len(rest) \in Nat /\ Read \in 0..Len(file)
      /\ Read + Len(rest) = Len(file)
      BY RestIs
<1>2. /\ n \in 0..Len(rest) /\ Len(rest') = Len(rest) - n /\ file' = file
      /\ rest' = SubSeq(file, Read + n + 1, Len(file))
      /\ buffer' \in [1..MaxLine -> Chars]
      BY DEF ReadsOn
<1>3. Len(rest') \in 0..Len(file) /\ Len(file) - Len(rest') = Read + n
      <2> DEFINE l == Len(file)
                 z == Len(rest)
                 r == Len(rest')
                 L == Read
      <2>1. l \in Nat /\ z \in Nat /\ L \in 0..l /\ L + z = l /\ n \in 0..z /\ r = z - n
            BY <1>1, <1>2
      <2> HIDE DEF l, z, r, L
      <2>2. r \in 0..l /\ l - r = L + n
            BY <2>1
      <2> QED BY <2>2 DEF l, r, L
<1>4. Read' = Read + n
      BY <1>2, <1>3 DEF Read
<1>5. ConfTypes'
      <2>1. rest' = SubSeq(file', Read' + 1, Len(file'))
            <3>1. Read' + 1 = Read + n + 1
                  BY <1>1, <1>2, <1>4
            <3> QED BY <1>2, <3>1
      <2>2. file' \in Files
            BY <1>2 DEF ConfTypes
      <2> QED BY <1>2, <1>3, <2>1, <2>2 DEF ConfTypes
<1>6. Seen = Upto(Read)
      BY DEF Seen, Upto, Read
<1>7. Seen' = Upto(Read + n)
      BY <1>2, <1>3 DEF Seen, Upto
<1>8. Read + n \in Read..Len(file)
      BY <1>1, <1>2
<1> QED BY <1>1, <1>4, <1>5, <1>6, <1>7, <1>8

LEMMA CutTyped ==
    ASSUME NEW b \in [1..MaxLine -> Chars], NEW i
    PROVE  Cut(b, i) \in [1..MaxLine -> Chars]
<1>1. Nul \in Chars
      BY Characters
<1> HIDE DEF Nul
<1> QED BY <1>1 DEF Cut

LEMMA ValueTyped ==
    ASSUME NEW b \in [1..MaxLine -> Chars]
    PROVE  Value(b) \in Seq(Chars)
<1>1. /\ MaxLine \in Nat /\ Len(b) = MaxLine /\ Len(b) \in Nat
      /\ \A j \in 1..MaxLine : b[j] \in Chars
      BY Characters, BufferIs
<1>2. Start(b) \in Nat
      <2>1. FirstOther(b, 1, {Blank}) = First(b, 1, Chars \ {Blank})
            BY <1>1, OtherIs
      <2> QED BY <1>1, <2>1, FirstHit DEF Start
<1>3. End(b) \in Nat
      BY <1>1, <1>2, FirstHit DEF End
<1> DEFINE m == End(b) + 1
           s == ValueStart(b)
           e == ValueEnd(b)
<1>4. m \in Nat /\ m >= 1
      BY <1>3
<1> HIDE DEF m
<1>5. s \in Nat /\ s >= 1
      <2>1. s = First(b, m, Chars \ {Newline})
            BY <1>1, <1>4, OtherIs DEF ValueStart, m
      <2>2. s \in Nat /\ (s = MaxLine + 1 \/ s \in m..MaxLine)
            <3> HIDE DEF s
            <3> QED BY <1>1, <1>4, <2>1, FirstHit
      <2> QED BY <1>1, <1>4, <2>2
<1>6. e \in Nat /\ e <= MaxLine + 1
      <2>1. e = First(b, s, {Newline, Nul})
            BY DEF ValueEnd
      <2> HIDE DEF e, s
      <2> QED BY <1>1, <1>5, <2>1, FirstHit
<1> HIDE DEF e, s
<1> DEFINE z == e - 1
<1>7. z \in Int /\ s \in Int /\ \A j \in s..z : b[j] \in Chars
      BY <1>1, <1>5, <1>6
<1> HIDE DEF z
<1>8. SubSeq(b, s, z) \in Seq(Chars)
      BY <1>7, SubSeqProperties
<1> QED BY <1>8 DEF z, s, e, Value

\* The lines that were there keep giving the values there are.
LEMMA OwnStays ==
    ASSUME ConfTypes, ValueIsOwn, Ends(Read), NEW n, ReadsOn(n),
           value' \in [Params -> Seq(Chars)], found' \in Nat,
           NEW p \in Params, value'[p] = value[p]
    PROVE  value'[p] # NoValue =>
               value'[p] \in Given(Seen', p) \/ Bare(Seen', p) # {}
<1> DEFINE L == Read
           M == L + n
<1>1. /\ L \in 0..Len(file) /\ M \in L..Len(file)
      /\ Seen = Upto(L) /\ Seen' = Upto(M) /\ Ends(L)
      /\ file \in Files
      BY ReadTypes DEF ConfTypes
<1>2. value[p] # NoValue => value[p] \in Given(Upto(L), p) \/ Bare(Upto(L), p) # {}
      BY <1>1 DEF ValueIsOwn
<1> HIDE DEF L, M
<1>3. /\ Bare(Upto(L), p) \subseteq Bare(Upto(M), p)
      /\ Given(Upto(L), p) \subseteq Given(Upto(M), p)
      BY <1>1, NamesStay
<1> QED BY <1>1, <1>2, <1>3

LEMMA FinishKeeps ==
    ASSUME ConfInv, Finish
    PROVE  ConfInv'
<1>1. ConfTypes /\ ValueIsOwn /\ ReadWell /\ Counted /\ Ended
      BY DEF ConfInv
<1>2. /\ pc = "reading" /\ ReadLine.len = 0
      /\ pc' = IF AllFound THEN "done" ELSE "exit"
      /\ rest' = ReadLine.rest /\ buffer' = ReadLine.buffer
      /\ file' = file /\ value' = value /\ found' = found
      BY DEF Finish
<1>3. /\ buffer' \in [1..MaxLine -> Chars]
      /\ \E n \in 0..Len(rest) : /\ rest' = SubSeq(file, Read + n + 1, Len(file))
                                 /\ Len(rest') = Len(rest) - n
      /\ WellFormed => rest = <<>> /\ rest' = <<>>
      BY <1>1, <1>2, LastRead DEF ReadWell
<1>4. PICK n : ReadsOn(n)
      BY <1>2, <1>3 DEF ReadsOn
<1>5. value' \in [Params -> Seq(Chars)] /\ found' \in Nat
      BY <1>1, <1>2 DEF ConfTypes
<1>6. ConfTypes'
      BY <1>1, <1>4, <1>5, ReadTypes
<1>7. ValueIsOwn'
      BY <1>1, <1>2, <1>4, <1>5, OwnStays DEF ReadWell, ValueIsOwn
<1>8. ReadWell'
      BY <1>2 DEF ReadWell
<1>9. Counted'
      BY <1>1, <1>2 DEF Counted, Unrepeated
<1>10. Ended'
       <2>1. ASSUME WellFormed PROVE AllFound
             <3>1. \A p \in Params : Cardinality(Names(file, p)) = 1
                   BY <2>1 DEF WellFormed
             <3>2. Seen = file
                   <4>1. Len(rest) = 0 /\ Len(file) \in Nat /\ file \in Seq(Chars)
                         BY <1>1, <1>3, <2>1, FileIs DEF ConfTypes
                   <4>2. Len(file) - Len(rest) = Len(file)
                         BY <4>1
                   <4> QED BY <4>1, <4>2, SubSeqFull DEF Seen
             <3>3. \A p \in Params : Names(file, p) # {}
                   BY <3>1, FS_EmptySet
             <3>4. \A p \in Params : value[p] # NoValue
                   BY <1>1, <1>2, <3>2, <3>3 DEF ReadWell
             <3>5. {p \in Params : value[p] # NoValue} = Params
                   BY <3>4
             <3>6. Unrepeated
                   BY <3>1 DEF Unrepeated
             <3> QED BY <1>1, <1>2, <3>5, <3>6 DEF Counted, AllFound
       <2>2. WellFormed' <=> WellFormed
             BY <1>2 DEF WellFormed
       <2> QED BY <1>2, <1>3, <2>1, <2>2 DEF Ended, AllFound
<1> QED BY <1>6, <1>7, <1>8, <1>9, <1>10 DEF ConfInv

\* What a line that is read adds.
Adds(p) ==
    LET v == LineAt(file, Read + 1) IN
    /\ Names(Seen', p) # {} => Names(Seen, p) # {} \/ HasName(v, p)
    /\ Names(Seen, p) \subseteq 1..Read \cap Names(file, p)
    /\ HasName(v, p) => Read + 1 \in Names(file, p)
    /\ HasName(v, p) => IF Len(v) = 2 THEN Bare(Seen', p) # {} /\ Bare(file, p) # {}
                        ELSE SubSeq(v, 3, Len(v)) \in Given(Seen', p)

LEMMA LineStep ==
    ASSUME ConfInv, pc = "reading", ReadLine.len > 0, file' = file,
           rest' = ReadLine.rest, buffer' \in [1..MaxLine -> Chars],
           value' \in [Params -> Seq(Chars)], found' \in Nat
    PROVE  /\ \E n : ReadsOn(n)
           /\ InBuffer(ReadLine.buffer, ReadLine.len, Read)
           /\ ConfTypes' /\ Ends(Read) /\ Read \in Nat
           /\ Read' = Len(file) \/ file[Read'] = Newline
           /\ \A p \in Params : Adds(p)
<1> DEFINE L == Read
           b == ReadLine.buffer
           e == ReadLine.len
<1>1. ConfTypes /\ ReadWell
      BY DEF ConfInv
<1>2. PICK n \in 1..Len(rest) : /\ n <= e
                                /\ rest' = SubSeq(file, Read + n + 1, Len(file))
                                /\ Len(rest') = Len(rest) - n
                                /\ n = Len(rest) \/ file[Read + n] = Newline
      BY <1>1, LineRead
<1>3. InBuffer(b, e, L) /\ Ends(L) /\ file \in Files
      BY <1>1, LineRead DEF ReadWell, ConfTypes
<1>4. Len(rest) \in Nat /\ Len(file) \in Nat /\ L \in Nat /\ L + Len(rest) = Len(file)
      BY <1>1, RestIs
<1>5. n \in 0..Len(rest)
      BY <1>2, <1>4
<1>6. ReadsOn(n)
      BY <1>2, <1>5 DEF ReadsOn
<1> DEFINE M == L + n
<1>7. /\ ConfTypes' /\ Read' = M /\ L \in 0..Len(file)
      /\ Seen = Upto(L) /\ Seen' = Upto(M)
      BY <1>1, <1>6, ReadTypes
<1>8. M = Len(file) \/ file[M] = Newline
      BY <1>2, <1>4
<1>9. e \in Nat
      BY <1>3, Characters DEF InBuffer
<1> HIDE DEF b, e, L
<1>10. M \in (L + 1)..Len(file) /\ M <= L + e
       BY <1>2, <1>4, <1>9
<1> HIDE DEF M
<1>11. Ends(M)
       BY <1>8 DEF Ends
<1>12. ASSUME NEW p \in Params PROVE Adds(p)
       <2> DEFINE v == LineAt(file, L + 1)
       <2>1. /\ \A i \in Names(Upto(M), p) : i \in Names(Upto(L), p) \/ HasName(v, p)
             /\ Names(Upto(L), p) \subseteq 1..L \cap Names(file, p)
             /\ Bare(Upto(M), p) \subseteq Bare(file, p)
             /\ HasName(v, p) =>
                  /\ L + 1 \in Names(Upto(M), p) \cap Names(file, p)
                  /\ IF Len(v) = 2 THEN L + 1 \in Bare(Upto(M), p)
                     ELSE SubSeq(v, 3, Len(v)) \in Given(Upto(M), p)
             BY <1>3, <1>7, <1>10, <1>11, NewNames
       <2> HIDE DEF v
       <2>2. /\ Names(Seen', p) # {} => Names(Seen, p) # {} \/ HasName(v, p)
             /\ Names(Seen, p) \subseteq 1..L \cap Names(file, p)
             /\ HasName(v, p) => L + 1 \in Names(file, p)
             /\ HasName(v, p) => IF Len(v) = 2 THEN Bare(Seen', p) # {} /\ Bare(file, p) # {}
                                 ELSE SubSeq(v, 3, Len(v)) \in Given(Seen', p)
             BY <1>7, <2>1
       <2> QED BY <2>2 DEF Adds, v, L
<1> QED BY <1>3, <1>4, <1>6, <1>7, <1>8, <1>12 DEF b, e, L

LEMMA SkipLineKeeps ==
    ASSUME ConfInv, SkipLine
    PROVE  ConfInv'
<1> DEFINE b == ReadLine.buffer
           v == LineAt(file, Read + 1)
<1>1. ConfTypes /\ ValueIsOwn /\ ReadWell /\ Counted /\ Ended
      BY DEF ConfInv
<1>2. /\ pc = "reading" /\ ReadLine.len > 0
      /\ IsComment(b) \/ Named(b) = {}
      /\ rest' = ReadLine.rest /\ buffer' = IF IsComment(b) THEN b ELSE Cut(b, End(b))
      /\ file' = file /\ value' = value /\ found' = found /\ pc' = pc
      BY DEF SkipLine
<1>3. InBuffer(b, ReadLine.len, Read) /\ file \in Files
      BY <1>1, <1>2, LineRead DEF ConfTypes
<1>4. buffer' \in [1..MaxLine -> Chars]
      BY <1>2, <1>3, CutTyped DEF InBuffer
<1>5. value' \in [Params -> Seq(Chars)] /\ found' \in Nat
      BY <1>1, <1>2 DEF ConfTypes
<1>6. /\ \E n : ReadsOn(n)
      /\ ConfTypes' /\ Ends(Read)
      /\ Read' = Len(file) \/ file[Read'] = Newline
      /\ \A p \in Params : Adds(p)
      BY <1>2, <1>4, <1>5, LineStep
<1>7. \A p \in Params : ~HasName(v, p)
      <2> SUFFICES ASSUME NEW p \in Params, HasName(v, p) PROVE FALSE
          OBVIOUS
      <2>1. Token(b) = <<p>> /\ ~IsComment(b)
            BY <1>3, TokenNames
      <2> QED BY <1>2, <2>1 DEF Named
<1> HIDE DEF b, v
<1>8. PICK n : ReadsOn(n)
      BY <1>6
<1>9. ValueIsOwn'
      BY <1>1, <1>2, <1>5, <1>6, <1>8, OwnStays DEF ValueIsOwn
<1>10. ReadWell'
       <2>1. Ends(Read)'
             BY <1>2, <1>6 DEF Ends
       <2>2. \A p \in Params : Names(Seen', p) # {} => value'[p] # NoValue
             <3>1. \A p \in Params : Names(Seen', p) # {} => Names(Seen, p) # {}
                   BY <1>6, <1>7 DEF Adds, v
             <3> QED BY <1>1, <1>2, <3>1 DEF ReadWell
       <2> QED BY <2>1, <2>2 DEF ReadWell
<1>11. Counted'
       BY <1>1, <1>2 DEF Counted, Unrepeated
<1>12. Ended'
       BY <1>1, <1>2 DEF Ended, WellFormed
<1> QED BY <1>6, <1>9, <1>10, <1>11, <1>12 DEF ConfInv

LEMMA TwoApart ==
    ASSUME NEW S, IsFiniteSet(S), NEW x \in S, NEW y \in S, x # y
    PROVE  ~(Cardinality(S) <= 1)
<1>1. IsFiniteSet({x}) /\ Cardinality({x}) = 1
      BY FS_Singleton
<1>2. IsFiniteSet({x} \cup {y}) /\ Cardinality({x} \cup {y}) = 2
      BY <1>1, FS_AddElement
<1>3. {x} \cup {y} \in SUBSET S
      OBVIOUS
<1>4. Cardinality({x} \cup {y}) <= Cardinality(S) /\ Cardinality(S) \in Nat
      BY <1>3, FS_Subset, FS_CardinalityType
<1> QED BY <1>2, <1>4

LEMMA NamesFinite ==
    ASSUME file \in Files, NEW p
    PROVE  IsFiniteSet(Names(file, p)) /\ Cardinality(Names(file, p)) \in Nat
<1>1. Names(file, p) \in SUBSET (1..Len(file)) /\ Len(file) \in Int /\ 1 \in Int
      BY FileIs DEF Names, Starts
<1>2. IsFiniteSet(1..Len(file))
      BY <1>1, FS_Interval
<1> QED BY <1>1, <1>2, FS_Subset, FS_CardinalityType

LEMMA SetParamKeeps ==
    ASSUME ConfInv, SetParam
    PROVE  ConfInv'
<1> DEFINE b == ReadLine.buffer
           v == LineAt(file, Read + 1)
<1>1. ConfTypes /\ ValueIsOwn /\ ReadWell /\ Counted /\ Ended
      BY DEF ConfInv
<1>2. /\ pc = "reading" /\ ReadLine.len > 0
      /\ rest' = ReadLine.rest /\ buffer' = Cut(Cut(b, End(b)), ValueEnd(b))
      /\ file' = file /\ found' = found + 1
      BY DEF SetParam
<1>3. PICK p \in Named(b) :
          \/ /\ Value(b) # <<>>
             /\ value' = [value EXCEPT ![p] = Value(b)]
             /\ pc' = pc
          \/ /\ Value(b) = <<>> \/ Undefined(b)
             /\ pc' = "crash" /\ value' = value
      BY DEF SetParam
<1>4. InBuffer(b, ReadLine.len, Read) /\ file \in Files
      BY <1>1, <1>2, LineRead DEF ConfTypes
<1>5. b \in [1..MaxLine -> Chars] /\ buffer' \in [1..MaxLine -> Chars]
      <2>1. b \in [1..MaxLine -> Chars]
            BY <1>4 DEF InBuffer
      <2>2. Cut(b, End(b)) \in [1..MaxLine -> Chars]
            BY <2>1, CutTyped
      <2> HIDE DEF b
      <2> QED BY <1>2, <2>1, <2>2, CutTyped
<1>6. value' \in [Params -> Seq(Chars)] /\ found' \in Nat
      <2>1. value \in [Params -> Seq(Chars)] /\ found \in Nat
            BY <1>1 DEF ConfTypes
      <2>2. Value(b) \in Seq(Chars)
            BY <1>5, ValueTyped
      <2> HIDE DEF b
      <2>3. value' = value \/ value' = [value EXCEPT ![p] = Value(b)]
            BY <1>3
      <2>4. value' \in [Params -> Seq(Chars)]
            <3>1. CASE value' = value
                  BY <2>1, <3>1
            <3>2. CASE value' = [value EXCEPT ![p] = Value(b)]
                  <4> DEFINE T == Seq(Chars)
                             w == Value(b)
                  <4>1. value \in [Params -> T] /\ w \in T
                        BY <2>1, <2>2
                  <4> HIDE DEF T, w
                  <4>2. [value EXCEPT ![p] = w] \in [Params -> T]
                        BY <4>1
                  <4> QED BY <3>2, <4>2 DEF T, w
            <3> QED BY <2>3, <3>1, <3>2
      <2> QED BY <1>2, <2>1, <2>4
<1>7. /\ \E n : ReadsOn(n)
      /\ ConfTypes' /\ Ends(Read) /\ Read \in Nat
      /\ Read' = Len(file) \/ file[Read'] = Newline
      /\ \A q \in Params : Adds(q)
      BY <1>2, <1>5, <1>6, LineStep
<1>8. p \in Params /\ HasName(v, p)
      <2>1. p \in Params /\ Token(b) = <<p>>
            BY <1>3 DEF Named
      <2> QED BY <1>4, <2>1, TokenNames
<1>9. Len(v) # 2 => /\ Value(b) = SubSeq(v, 3, Len(v)) /\ Value(b) # <<>>
                    /\ ~Undefined(b)
      BY <1>4, <1>8, ValueIsThere
<1> HIDE DEF b, v
<1>10. /\ Names(Seen, p) \subseteq 1..Read \cap Names(file, p)
       /\ Read + 1 \in Names(file, p)
       /\ IF Len(v) = 2 THEN Bare(Seen', p) # {} /\ Bare(file, p) # {}
          ELSE SubSeq(v, 3, Len(v)) \in Given(Seen', p)
       BY <1>7, <1>8 DEF Adds, v
<1>11. PICK n : ReadsOn(n)
       BY <1>7
<1>12. \A q \in Params : q # p => value'[q] = value[q]
       BY <1>1, <1>3 DEF ConfTypes
<1>13. pc' # "crash" => pc' = "reading" /\ value'[p] = Value(b) /\ Value(b) # <<>>
       BY <1>1, <1>2, <1>3, <1>8 DEF ConfTypes
<1>14. pc' = "crash" => value' = value /\ Len(v) = 2
       BY <1>2, <1>3, <1>9
<1>15. ValueIsOwn'
       <2> SUFFICES ASSUME NEW q \in Params, value'[q] # NoValue
                    PROVE  value'[q] \in Given(Seen', q) \/ Bare(Seen', q) # {}
           BY DEF ValueIsOwn
       <2>1. CASE value'[q] = value[q]
             BY <1>1, <1>6, <1>7, <1>11, <2>1, OwnStays
       <2>2. CASE q = p
             <3>1. CASE Len(v) = 2
                   BY <1>10, <2>2, <3>1
             <3>2. CASE Len(v) # 2
                   BY <1>9, <1>10, <1>13, <1>14, <2>2, <3>2
             <3> QED BY <3>1, <3>2
       <2> QED BY <1>12, <2>1, <2>2
<1>16. ReadWell'
       <2> SUFFICES ASSUME pc' = "reading"
                    PROVE  /\ Ends(Read)'
                           /\ \A q \in Params : Names(Seen', q) # {} => value'[q] # NoValue
           BY DEF ReadWell
       <2>1. Ends(Read)'
             BY <1>2, <1>7 DEF Ends
       <2>2. \A q \in Params : q # p => ~HasName(v, q)
             BY <1>8 DEF HasName
       <2>3. \A q \in Params : q # p =>
                 (Names(Seen', q) # {} => Names(Seen, q) # {})
             BY <1>7, <2>2 DEF Adds, v
       <2>4. value'[p] # NoValue
             BY <1>13 DEF NoValue
       <2> QED BY <1>1, <1>2, <1>12, <2>1, <2>3, <2>4 DEF ReadWell
<1>17. Counted'
       <2> SUFFICES ASSUME Unrepeated, pc' # "crash"
                    PROVE  found' = Cardinality({q \in Params : value'[q] # NoValue})
           BY <1>2 DEF Counted, Unrepeated
       <2> DEFINE S == {q \in Params : value[q] # NoValue}
       <2>1. found = Cardinality(S)
             BY <1>1, <1>2 DEF Counted
       <2>2. p \notin S
             <3> SUFFICES ASSUME value[p] # NoValue PROVE FALSE
                 OBVIOUS
             <3>1. value[p] \in Given(Seen, p) \/ Bare(Seen, p) # {}
                   BY <1>1, <1>8 DEF ValueIsOwn
             <3>2. Names(Seen, p) # {}
                   BY <3>1 DEF Given, Bare
             <3>3. PICK i \in Names(Seen, p) : TRUE
                   BY <3>2
             <3>4. i \in Names(file, p) /\ i # Read + 1
                   BY <1>7, <1>10, <3>3
             <3>5. ~(Cardinality(Names(file, p)) <= 1)
                   BY <1>4, <1>10, <3>4, NamesFinite, TwoApart
             <3> QED BY <1>8, <3>5 DEF Unrepeated
       <2>3. {q \in Params : value'[q] # NoValue} = S \cup {p}
             <3>1. value'[p] # NoValue
                   BY <1>13 DEF NoValue
             <3> QED BY <1>8, <1>12, <3>1
       <2>4. IsFiniteSet(S)
             <3>1. S \in SUBSET Params
                   OBVIOUS
             <3> HIDE DEF S
             <3> QED BY <3>1, Characters, FS_Subset
       <2>5. Cardinality(S \cup {p}) = Cardinality(S) + 1
             <3> HIDE DEF S
             <3> QED BY <2>2, <2>4, FS_AddElement
       <2> QED BY <1>2, <2>1, <2>3, <2>5
<1>18. Ended'
       <2>1. pc' = "crash" => ~WellFormed
             BY <1>8, <1>10, <1>14 DEF WellFormed
       <2>2. WellFormed' <=> WellFormed
             BY <1>2 DEF WellFormed
       <2> QED BY <1>13, <2>1, <2>2 DEF Ended
<1> QED BY <1>7, <1>15, <1>16, <1>17, <1>18 DEF ConfInv

-----------------------------------------------------------------------------
(* The theorems.                                                             *)

LEMMA StutterKeeps ==
    ASSUME ConfInv, UNCHANGED confvars
    PROVE  ConfInv'
<1>1. /\ file' = file /\ rest' = rest /\ buffer' = buffer
      /\ value' = value /\ found' = found /\ pc' = pc
      BY DEF confvars
<1>2. ConfTypes /\ ValueIsOwn /\ ReadWell /\ Counted /\ Ended
      BY DEF ConfInv
<1>3. Read' = Read /\ Seen' = Seen
      BY <1>1 DEF Read, Seen
<1>4. ConfTypes'
      BY <1>1, <1>2, <1>3 DEF ConfTypes
<1>5. ValueIsOwn'
      BY <1>1, <1>2, <1>3 DEF ValueIsOwn
<1>6. ReadWell'
      BY <1>1, <1>2, <1>3 DEF ReadWell, Ends
<1>7. Counted'
      BY <1>1, <1>2 DEF Counted, Unrepeated
<1>8. Ended'
      BY <1>1, <1>2 DEF Ended, WellFormed
<1> QED BY <1>4, <1>5, <1>6, <1>7, <1>8 DEF ConfInv

\* What is read is the file from its beginning, what is counted is the
\* parameters that have a value as long as no line names one again, and the
\* reading of a well-formed file ends only at its end.
THEOREM ConfInvHolds == ConfSpec => []ConfInv
<1>1. ConfInit => ConfInv
      BY InitConf
<1>2. ConfInv /\ [ConfNext]_confvars => ConfInv'
      BY FinishKeeps, SkipLineKeeps, SetParamKeeps, StutterKeeps DEF ConfNext
<1> QED BY <1>1, <1>2, PTL DEF ConfSpec

\* No parameter gets a piece of a longer line that came before it in the
\* buffer read_config never clears, unless a line gives a name and no value.
THEOREM ValueIsOwnHolds == ConfSpec => []ValueIsOwn
<1>1. ConfInv => ValueIsOwn
      BY DEF ConfInv
<1> QED BY <1>1, ConfInvHolds, PTL

LEMMA AllValued ==
    ASSUME ConfInv, pc = "done", Unrepeated
    PROVE  \A p \in Params : value[p] # NoValue
<1> DEFINE S == {p \in Params : value[p] # NoValue}
<1>1. found = Cardinality(S) /\ found = Cardinality(Params)
      BY DEF ConfInv, Counted, Ended
<1>2. S \in SUBSET Params
      OBVIOUS
<1> HIDE DEF S
<1>3. S = Params
      BY <1>1, <1>2, Characters, FS_Subset
<1> QED BY <1>3 DEF S

\* read_config accepts a file whose lines fit and give every parameter once,
\* and every parameter then has the value of its line.
THEOREM WellFormedAcceptedHolds == ConfSpec => []WellFormedAccepted
<1>1. ConfInv => WellFormedAccepted
      <2> SUFFICES ASSUME ConfInv, WellFormed, pc = "done", NEW p \in Params
                   PROVE  value[p] \in Given(file, p)
          BY DEF ConfInv, Ended, WellFormedAccepted
      <2>1. \A q \in Params : Cardinality(Names(file, q)) = 1 /\ Bare(file, q) = {}
            BY DEF WellFormed
      <2>2. Unrepeated
            BY <2>1 DEF Unrepeated
      <2>3. value[p] # NoValue
            BY <2>2, AllValued
      <2>4. Seen = file
            <3>1. rest = <<>> /\ file \in Files
                  BY DEF ConfInv, Ended, ConfTypes
            <3>2. Len(file) \in Nat /\ file \in Seq(Chars) /\ Len(rest) = 0
                  BY <3>1, FileIs
            <3>3. Len(file) - Len(rest) = Len(file)
                  BY <3>2
            <3> QED BY <3>2, <3>3, SubSeqFull DEF Seen
      <2> QED BY <2>1, <2>3, <2>4 DEF ConfInv, ValueIsOwn
<1> QED BY <1>1, ConfInvHolds, PTL

\* A program that starts without one of its parameters has read a file that
\* names another one twice: read_config counts lines.
THEOREM CompleteUnlessRepeatedHolds == ConfSpec => []CompleteUnlessRepeated
<1>1. ConfInv => CompleteUnlessRepeated
      <2> SUFFICES ASSUME ConfInv, pc = "done", \E p \in Params : value[p] = NoValue,
                          \A p \in Params : ~(Cardinality(Names(file, p)) > 1)
                   PROVE  FALSE
          BY DEF CompleteUnlessRepeated
      <2>1. file \in Files
            BY DEF ConfInv, ConfTypes
      <2>2. Unrepeated
            <3> SUFFICES ASSUME NEW p \in Params
                         PROVE  Cardinality(Names(file, p)) <= 1
                BY DEF Unrepeated
            <3>1. Cardinality(Names(file, p)) \in Nat
                  BY <2>1, NamesFinite
            <3> QED BY <3>1
      <2> QED BY <2>2, AllValued
<1> QED BY <1>1, ConfInvHolds, PTL
=============================================================================
