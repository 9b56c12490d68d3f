---------------------------- MODULE DirTreeProofs ----------------------------
(* What DirTree's lookups find, for every tree that CREATE requests build and *)
(* every set of paths.                                                       *)
EXTENDS DirTree, TablesProofs

-----------------------------------------------------------------------------
(* Paths.                                                                    *)

\* The names, and the root's is among them.
Label == STRING \cup {"/"}
Level == Label \ {Empty}
Piece(level) == IF level = Empty THEN <<>> ELSE <<level>>
Pieces(path) == [i \in 1..Len(path) |-> Piece(path[i])]
Above(path) == SubSeq(path, 1, Len(path) - 1)

LEMMA PieceTyped ==
    ASSUME NEW level \in Label
    PROVE  Piece(level) \in Seq(Level)
<1>1. CASE level = Empty
      BY <1>1, EmptySeq DEF Piece
<1>2. CASE level # Empty
      <2>1. level \in Level
            BY <1>2 DEF Level
      <2>2. <<level>> \in Seq(Level)
            BY <2>1, Singleton
      <2> QED BY <1>2, <2>2 DEF Piece
<1> QED BY <1>1, <1>2

LEMMA PiecesTyped ==
    ASSUME NEW path \in Seq(Label)
    PROVE  /\ Pieces(path) \in Seq(Seq(Level))
           /\ Levels(path) = FlattenSeq(Pieces(path))
<1>1. \A level \in Label : Piece(level) \in Seq(Level)
      BY PieceTyped
<1>2. Len(path) \in Nat /\ \A i \in 1..Len(path) : path[i] \in Label
      BY LenProperties, ElementOfSeq
<1>3. Pieces(path) \in [1..Len(path) -> Seq(Level)]
      BY <1>1, <1>2 DEF Pieces
<1>4. Pieces(path) \in Seq(Seq(Level))
      BY <1>2, <1>3, SeqDef
<1>5. Levels(path) = FlattenSeq(Pieces(path))
      BY DEF Levels, Pieces, Piece
<1> QED BY <1>4, <1>5

\* The levels of a path are names that are not empty.
LEMMA LevelsTyped ==
    ASSUME NEW path \in Seq(Label)
    PROVE  Levels(path) \in Seq(Level)
BY PiecesTyped, FlattenTyped

LEMMA LevelsOfNone == Levels(<<>>) = <<>>
<1>1. Pieces(<<>>) = <<>>
      BY DEF Pieces
<1> QED BY <1>1, PiecesTyped, FlattenEmpty, EmptySeq

\* The last of them is the name behind the last slash, if there is one.
LEMMA LevelsAppend ==
    ASSUME NEW path \in Seq(Label), NEW level \in Label
    PROVE  Levels(Append(path, level)) =
               IF level = Empty THEN Levels(path) ELSE Append(Levels(path), level)
<1> DEFINE longer == Append(path, level)
<1>1. /\ longer \in Seq(Label)
      /\ Len(longer) = Len(path) + 1
      /\ \A i \in 1..Len(path) : longer[i] = path[i]
      /\ longer[Len(path) + 1] = level
      /\ Len(path) \in Nat
      BY AppendProperties, LenProperties
<1>2. Piece(level) \in Seq(Level)
      BY PieceTyped
<1> HIDE DEF longer
<1>3. Pieces(longer) = Append(Pieces(path), Piece(level))
      <2>1. Pieces(longer) \in Seq(Seq(Level)) /\ Pieces(path) \in Seq(Seq(Level))
            BY <1>1, PiecesTyped
      <2>2. Len(Pieces(path)) = Len(path) /\ Len(Pieces(longer)) = Len(path) + 1
            BY <1>1 DEF Pieces
      <2>3. Pieces(longer)[Len(path) + 1] = Piece(level)
            <3>1. Len(path) + 1 \in 1..Len(longer)
                  BY <1>1
            <3> QED BY <1>1, <3>1 DEF Pieces
      <2>4. ASSUME NEW i \in 1..Len(path) PROVE Pieces(longer)[i] = Pieces(path)[i]
            <3>1. i \in 1..Len(longer)
                  BY <1>1
            <3> QED BY <1>1, <3>1 DEF Pieces
      <2> QED BY <1>2, <2>1, <2>2, <2>3, <2>4, IsAppend
<1>4. Levels(longer) = Levels(path) \o Piece(level)
      BY <1>1, <1>2, <1>3, PiecesTyped, FlattenAppend
<1>5. CASE level = Empty
      BY <1>4, <1>5, LevelsTyped, ConcatEmptySeq DEF Piece, longer
<1>6. CASE level # Empty
      <2>1. level \in Level /\ Piece(level) = <<level>>
            BY <1>6 DEF Level, Piece
      <2> QED BY <1>4, <1>6, <2>1, LevelsTyped, AppendIsConcat DEF longer
<1> QED BY <1>5, <1>6

LEMMA AppendToAbove ==
    ASSUME NEW S, NEW path \in Seq(S), path # <<>>
    PROVE  /\ Above(path) \in Seq(S) /\ Len(Above(path)) = Len(path) - 1
           /\ path[Len(path)] \in S
           /\ path = Append(Above(path), path[Len(path)])
<1>1. Len(path) \in Nat \ {0} /\ Len(path) - 1 \in Nat
      BY EmptySeq
<1>2. Len(path) \in 1..Len(path) /\ Len(path) - 1 \in 0..Len(path)
      BY <1>1
<1>3. path[Len(path)] \in S
      BY <1>2, ElementOfSeq
<1>4. Above(path) \in Seq(S) /\ Len(Above(path)) = Len(path) - 1
      BY <1>2, Prefix DEF Above
<1>5. path = Append(Above(path), path[Len(path)])
      BY <1>2, PrefixAppend, SubSeqFull DEF Above
<1> QED BY <1>3, <1>4, <1>5

LEMMA LevelsOfPath ==
    ASSUME NEW path \in Seq(Label), path # <<>>
    PROVE  Levels(path) = IF Name(path) = Empty THEN Levels(Above(path))
                          ELSE Append(Levels(Above(path)), Name(path))
<1>1. /\ Above(path) \in Seq(Label) /\ Name(path) \in Label
      /\ path = Append(Above(path), Name(path))
      BY AppendToAbove DEF Name
<1> QED BY <1>1, LevelsAppend

\* A path whose levels are its names already stays as it is.
LEMMA LevelsSame ==
    ASSUME NEW path \in Seq(Level)
    PROVE  Levels(path) = path
<1> DEFINE n == Len(path)
           upto(k) == SubSeq(path, 1, k)
           T == {k \in 0..n : Levels(upto(k)) = upto(k)}
<1>1. n \in Nat /\ \A i \in 1..n : path[i] \in Level
      BY LenProperties, ElementOfSeq
<1>2. ASSUME NEW k \in 0..n, 0..(k - 1) \subseteq T PROVE Levels(upto(k)) = upto(k)
      <2>1. CASE k = 0
            <3>1. upto(0) = <<>>
                  BY SubSeqEmpty
            <3> QED BY <2>1, <3>1, LevelsOfNone
      <2>2. CASE k # 0
            <3>1. k \in 1..n /\ k - 1 \in 0..(k - 1) /\ k - 1 \in Nat
                  BY <1>1, <2>2
            <3>2. Levels(upto(k - 1)) = upto(k - 1)
                  BY <1>2, <3>1
            <3>3. upto(k - 1) \in Seq(Level)
                  BY <3>1, <1>1, Prefix
            <3>4. path[k] \in Level
                  BY <1>1, <3>1
            <3>5. upto(k) = Append(upto(k - 1), path[k])
                  BY <3>1, PrefixAppend
            <3>6. path[k] \in Label /\ path[k] # Empty /\ upto(k - 1) \in Seq(Label)
                  BY <3>3, <3>4, SeqMonotonic DEF Level
            <3> HIDE DEF upto
            <3> QED BY <3>2, <3>5, <3>6, LevelsAppend
      <2> QED BY <2>1, <2>2
<1>3. 0..n \subseteq T
      <2>1. \A k \in 0..n : 0..(k - 1) \subseteq T => k \in T
            BY <1>2
      <2> HIDE DEF T, n
      <2> QED BY <1>1, <2>1, Ascent
<1>4. n \in 0..n
      BY <1>1
<1>5. Levels(upto(n)) = upto(n)
      BY <1>3, <1>4
<1> QED BY <1>5, SubSeqFull

-----------------------------------------------------------------------------
(* The tree.                                                                 *)

N == Len(nodes)
Kids(n) == nodes[n].children
IsChild(c, p) == \E i \in 1..Len(Kids(p)) : Kids(p)[i] = c

TreeTypes ==
    /\ made \in Seq(Seq(Level))
    /\ N = Len(made) + 1
    /\ nodes \in Seq([name : Label, children : Seq(Nat)])

\* Children are younger than their parents and stand in the order they came.
KidsInOrder ==
    \A n \in 1..N : \A i \in 1..Len(Kids(n)) :
        /\ Kids(n)[i] \in (n + 1)..N
        /\ \A j \in 1..(i - 1) : Kids(n)[j] < Kids(n)[i]

\* Every node but the root is the child of one node.
OneParent ==
    \A c \in 2..N : \E p \in 1..(c - 1) :
        IsChild(c, p) /\ \A q \in 1..N : IsChild(c, q) => q = p

Shape == TreeTypes /\ KidsInOrder /\ OneParent

\* The first node with the names from the root that n has.
IsFirst(n) == \A m \in 1..N : PathTo[m] = PathTo[n] => n <= m

\* Only a node that can be found gets children.
FirstsHaveKids == \A n \in 1..N : Kids(n) # <<>> => IsFirst(n)

\* A file that is not astray is the first with the path of its request, which
\* no later request has.
MadeIsFirst ==
    \A i \in 1..Len(made) : i + 1 \notin stray =>
        /\ PathTo[i + 1] = made[i]
        /\ IsFirst(i + 1)
        /\ \A j \in (i + 1)..Len(made) : made[j] # made[i]

TreeInv == Shape /\ FirstsHaveKids /\ MadeIsFirst

LEMMA NodesTyped ==
    ASSUME TreeTypes
    PROVE  /\ N \in Nat \ {0} /\ Root \in 1..N
           /\ \A n \in 1..N : /\ nodes[n].name \in Label
                              /\ Kids(n) \in Seq(Nat)
                              /\ Len(Kids(n)) \in Nat
<1>1. N \in Nat \ {0}
      BY LenProperties DEF TreeTypes, N
<1>2. ASSUME NEW n \in 1..N
      PROVE  nodes[n].name \in Label /\ Kids(n) \in Seq(Nat) /\ Len(Kids(n)) \in Nat
      <2>1. nodes[n] \in [name : Label, children : Seq(Nat)]
            BY ElementOfSeq DEF TreeTypes, N
      <2> QED BY <2>1, LenProperties DEF Kids
<1> QED BY <1>1, <1>2 DEF Root

LEMMA ParentIs ==
    ASSUME Shape, NEW c \in 2..N
    PROVE  /\ Parent(c) \in 1..(c - 1) /\ IsChild(c, Parent(c))
           /\ \A q \in 1..N : IsChild(c, q) => q = Parent(c)
<1>1. PICK p \in 1..(c - 1) : IsChild(c, p) /\ \A q \in 1..N : IsChild(c, q) => q = p
      BY DEF Shape, OneParent
<1>2. N \in Nat /\ p \in 1..N
      BY NodesTyped DEF Shape
<1>3. ASSUME NEW q \in 1..N PROVE c \in Range(nodes[q].children) <=> IsChild(c, q)
      <2>1. DOMAIN nodes[q].children = 1..Len(nodes[q].children)
            BY NodesTyped, LenProperties DEF Shape, Kids
      <2> QED BY <2>1 DEF Range, IsChild, Kids
<1>4. Parent(c) = CHOOSE q \in 1..N : c \in Range(nodes[q].children)
      BY DEF Parent, N
<1>5. Parent(c) \in 1..N /\ c \in Range(nodes[Parent(c)].children)
      BY <1>1, <1>2, <1>3, <1>4
<1>6. Parent(c) = p
      BY <1>1, <1>3, <1>5
<1> QED BY <1>1, <1>6

\* The names from the root, from a parent to its children.
PathsFollow ==
    /\ PathTo \in [1..N -> Seq(Label)]
    /\ PathTo[Root] = <<>>
    /\ \A c \in 2..N, p \in 1..N :
           IsChild(c, p) => PathTo[c] = Append(PathTo[p], nodes[c].name)

Following(f) ==
    f = [n \in 1..Len(nodes) |->
            IF n = Root THEN <<>> ELSE Append(f[Parent(n)], nodes[n].name)]

LEMMA FollowingExists ==
    ASSUME Shape
    PROVE  \E f : Following(f)
<1> DEFINE S == Seq(Label)
           a == <<>>
           m == 1
           step == [x \in S \X Nat |->
                       IF x[2] \in 1..N THEN Append(x[1], nodes[x[2]].name) ELSE x[1]]
           back == [i \in Nat |-> IF i \in 2..N THEN Parent(i) ELSE 0]
<1>1. N \in Nat /\ m \in Nat /\ a \in S
      BY NodesTyped, EmptySeq DEF Shape
<1>2. step \in [S \X Nat -> S]
      <2>1. ASSUME NEW x \in S \X Nat
            PROVE  (IF x[2] \in 1..N THEN Append(x[1], nodes[x[2]].name) ELSE x[1]) \in S
            <3>1. x[1] \in S
                  OBVIOUS
            <3>2. x[2] \in 1..N => nodes[x[2]].name \in Label
                  BY NodesTyped DEF Shape
            <3> QED BY <3>1, <3>2, AppendProperties
      <2> HIDE DEF S
      <2> QED BY <2>1
<1>3. back \in [Nat -> Nat] /\ \A i \in 2..N : back[i] = Parent(i)
      <2>1. \A i \in 2..N : i \in Nat /\ Parent(i) \in Nat
            BY ParentIs
      <2> QED BY <2>1
<1> HIDE DEF step, back
<1>4. Earlier(back, m, N)
      <2>1. \A i \in 2..N : back[i] \in 1..(i - 1)
            BY <1>3, ParentIs
      <2> QED BY <2>1 DEF Earlier
<1> HIDE DEF S, a, m
<1>5. PICK f \in [m..N -> S] : Recursive(f, m, N, a, step, back)
      BY <1>1, <1>2, <1>3, <1>4, Recursion
<1>6. ASSUME NEW n \in 1..N
      PROVE  f[n] = IF n = Root THEN <<>> ELSE Append(f[Parent(n)], nodes[n].name)
      <2>1. f[n] = IF n = 1 THEN <<>> ELSE step[<<f[back[n]], n>>]
            BY <1>5 DEF Recursive, m, a
      <2>2. CASE n = 1
            BY <2>1, <2>2 DEF Root
      <2>3. CASE n # 1
            <3>1. n \in 2..N /\ n \in Nat
                  BY <1>1, <2>3
            <3>2. back[n] = Parent(n) /\ Parent(n) \in 1..N
                  BY <1>1, <1>3, <3>1, ParentIs
            <3>3. f[Parent(n)] \in S
                  BY <3>2 DEF m
            <3>4. step[<<f[Parent(n)], n>>] = Append(f[Parent(n)], nodes[n].name)
                  <4>1. <<f[Parent(n)], n>> \in S \X Nat
                        BY <3>1, <3>3
                  <4>2. \A x \in S \X Nat : x[2] \in 1..N =>
                            step[x] = Append(x[1], nodes[x[2]].name)
                        BY DEF step
                  <4> QED BY <4>1, <4>2
            <3> QED BY <2>1, <2>3, <3>2, <3>4 DEF Root
      <2> QED BY <2>2, <2>3
<1>7. f = [n \in 1..Len(nodes) |-> f[n]]
      BY DEF m, N
<1>8. f = [n \in 1..Len(nodes) |->
              IF n = Root THEN <<>> ELSE Append(f[Parent(n)], nodes[n].name)]
      BY <1>6, <1>7 DEF N
<1> QED BY <1>8 DEF Following

LEMMA PathsAre == Shape => PathsFollow
<1> SUFFICES ASSUME Shape PROVE PathsFollow
    OBVIOUS
<1>1. Following(PathTo)
      BY FollowingExists DEF PathTo, Following
<1>2. N \in Nat /\ Root \in 1..N
      BY NodesTyped DEF Shape
<1>3. \A n \in 1..N : PathTo[n] =
          IF n = Root THEN <<>> ELSE Append(PathTo[Parent(n)], nodes[n].name)
      BY <1>1 DEF Following, N
<1>4. \A c \in 2..N : c \in 1..N /\ c # Root
      BY <1>2 DEF Root
<1> DEFINE T == {n \in 1..N : PathTo[n] \in Seq(Label)}
<1>5. ASSUME NEW k \in 1..N, 1..(k - 1) \subseteq T PROVE k \in T
      <2>1. CASE k = Root
            BY <1>3, <2>1, EmptySeq
      <2>2. CASE k # Root
            <3>1. k \in 2..N
                  BY <1>2, <2>2 DEF Root
            <3>2. PathTo[Parent(k)] \in Seq(Label)
                  BY <1>5, <3>1, ParentIs
            <3>3. nodes[k].name \in Label
                  BY NodesTyped DEF Shape
            <3>4. Append(PathTo[Parent(k)], nodes[k].name) \in Seq(Label)
                  BY <3>2, <3>3, AppendProperties
            <3> QED BY <1>3, <2>2, <3>4
      <2> QED BY <2>1, <2>2
<1>6. 1..N \subseteq T
      <2> HIDE DEF T
      <2> QED BY <1>2, <1>5, Ascent
<1>7. PathTo = [n \in 1..N |-> PathTo[n]]
      BY <1>1 DEF Following, N
<1>8. PathTo \in [1..N -> Seq(Label)]
      BY <1>6, <1>7
<1>9. \A c \in 2..N, p \in 1..N : IsChild(c, p) => p = Parent(c)
      BY ParentIs
<1> QED BY <1>2, <1>3, <1>4, <1>8, <1>9 DEF PathsFollow

-----------------------------------------------------------------------------
(* Lookups.                                                                  *)

\* One level down.
LEMMA ChildNamedIs ==
    ASSUME Shape, NEW n \in 1..N, NEW level
    PROVE  LET c == ChildNamed(n, level) IN
           \/ /\ c = NIL
              /\ \A m \in 1..N : IsChild(m, n) => nodes[m].name # level
           \/ /\ c \in (n + 1)..N /\ IsChild(c, n) /\ nodes[c].name = level
              /\ \A m \in 1..N : IsChild(m, n) /\ nodes[m].name = level => c <= m
<1> DEFINE kids == Kids(n)
           hits == {i \in 1..Len(kids) : nodes[kids[i]].name = level}
           c == ChildNamed(n, level)
<1>1. /\ N \in Nat /\ Len(kids) \in Nat
      /\ \A i \in 1..Len(kids) : /\ kids[i] \in (n + 1)..N
                               /\ \A j \in 1..(i - 1) : kids[j] < kids[i]
      BY NodesTyped DEF Shape, KidsInOrder
<1>2. c = IF hits = {} THEN NIL ELSE kids[Smallest(hits)]
      BY DEF ChildNamed, Kids
<1>3. CASE hits = {}
      <2>1. \A m \in 1..N : IsChild(m, n) => nodes[m].name # level
            BY <1>3 DEF IsChild
      <2> QED BY <1>2, <1>3, <2>1
<1>4. CASE hits # {}
      <2> DEFINE i == Smallest(hits)
      <2>1. i \in hits /\ \A j \in hits : i <= j
            <3>1. hits \in SUBSET Nat
                  OBVIOUS
            <3> HIDE DEF hits
            <3> QED BY <1>4, <3>1, SmallestIsIn
      <2> HIDE DEF i
      <2>2. c = kids[i] /\ i \in 1..Len(kids) /\ nodes[c].name = level
            BY <1>2, <1>4, <2>1 DEF i
      <2>3. c \in (n + 1)..N /\ IsChild(c, n)
            BY <1>1, <2>2 DEF IsChild
      <2>4. ASSUME NEW m \in 1..N, IsChild(m, n), nodes[m].name = level PROVE c <= m
            <3>1. PICK j \in 1..Len(kids) : kids[j] = m
                  BY <2>4 DEF IsChild
            <3>2. i <= j
                  BY <2>1, <2>4, <3>1
            <3>3. CASE i = j
                  BY <2>2, <3>1, <3>3
            <3>4. CASE i # j
                  <4>1. i \in 1..(j - 1)
                        BY <1>1, <2>2, <3>2, <3>4
                  <4>2. kids[i] < kids[j] /\ kids[i] \in Int /\ kids[j] \in Int
                        BY <1>1, <2>2, <3>1, <4>1
                  <4> HIDE DEF kids, c
                  <4> QED BY <2>2, <3>1, <4>2
            <3> QED BY <3>3, <3>4
      <2> QED BY <2>2, <2>3, <2>4
<1> QED BY <1>3, <1>4

Below(before, level) ==
    LET n == IF before.n = NIL THEN NIL ELSE ChildNamed(before.n, level)
    IN  [n |-> n, p |-> IF n = NIL THEN before.p ELSE n]

Walking(levels, w) ==
    w = [i \in 0..Len(levels) |-> IF i = 0 THEN [n |-> Root, p |-> Root]
                                  ELSE Below(w[i - 1], levels[i])]

LEMMA WalkingExists ==
    ASSUME Shape, NEW levels \in Seq(Label)
    PROVE  \E w : Walking(levels, w)
<1> DEFINE S == [n : 0..N, p : 1..N]
           a == [n |-> Root, p |-> Root]
           m == 0
           l == Len(levels)
           step == [x \in S \X Nat |-> Below(x[1], levels[x[2]])]
           back == [i \in Nat |-> IF i = 0 THEN 0 ELSE i - 1]
<1>1. N \in Nat /\ m \in Nat /\ l \in Nat /\ a \in S
      BY NodesTyped, LenProperties DEF Shape, Root
<1>2. step \in [S \X Nat -> S]
      <2>1. ASSUME NEW before \in S, NEW level PROVE Below(before, level) \in S
            <3>1. before.n \in 0..N /\ before.p \in 1..N
                  OBVIOUS
            <3>2. before.n # NIL => ChildNamed(before.n, level) \in 0..N
                  <4> SUFFICES ASSUME before.n # NIL
                               PROVE  ChildNamed(before.n, level) \in 0..N
                      OBVIOUS
                  <4>1. before.n \in 1..N
                        BY <3>1 DEF NIL
                  <4>2. \/ ChildNamed(before.n, level) = NIL
                        \/ ChildNamed(before.n, level) \in (before.n + 1)..N
                        BY <4>1, ChildNamedIs
                  <4> QED BY <1>1, <4>1, <4>2 DEF NIL
            <3>3. NIL = 0
                  BY DEF NIL
            <3> QED BY <1>1, <3>1, <3>2, <3>3 DEF Below
      <2>2. \A x \in S \X Nat : x[1] \in S
            OBVIOUS
      <2> HIDE DEF S
      <2> QED BY <2>1, <2>2
<1>3. back \in [Nat -> Nat] /\ \A i \in 1..l : back[i] = i - 1
      OBVIOUS
<1> HIDE DEF S, step, back, a, l
<1>4. Earlier(back, m, l)
      <2>1. \A i \in 1..l : back[i] \in 0..(i - 1)
            BY <1>1, <1>3
      <2> QED BY <2>1 DEF Earlier
<1> HIDE DEF m
<1>5. PICK w \in [m..l -> S] : Recursive(w, m, l, a, step, back)
      BY <1>1, <1>2, <1>3, <1>4, Recursion
<1>6. ASSUME NEW i \in 0..l
      PROVE  w[i] = IF i = 0 THEN [n |-> Root, p |-> Root] ELSE Below(w[i - 1], levels[i])
      <2>1. w[i] = IF i = 0 THEN a ELSE step[<<w[back[i]], i>>]
            BY <1>5 DEF Recursive, m
      <2>2. CASE i = 0
            BY <2>1, <2>2 DEF a
      <2>3. CASE i # 0
            <3>1. i \in 1..l /\ i \in Nat /\ i - 1 \in 0..l
                  BY <1>1, <2>3
            <3>2. back[i] = i - 1 /\ w[i - 1] \in S
                  BY <1>3, <3>1 DEF m
            <3>3. step[<<w[i - 1], i>>] = Below(w[i - 1], levels[i])
                  <4>1. <<w[i - 1], i>> \in S \X Nat
                        BY <3>1, <3>2
                  <4>2. \A x \in S \X Nat : step[x] = Below(x[1], levels[x[2]])
                        BY DEF step
                  <4> QED BY <4>1, <4>2
            <3> QED BY <2>1, <2>3, <3>2, <3>3
      <2> QED BY <2>2, <2>3
<1>7. w = [i \in 0..Len(levels) |-> w[i]]
      BY DEF m, l
<1>8. w = [i \in 0..Len(levels) |-> IF i = 0 THEN [n |-> Root, p |-> Root]
                                    ELSE Below(w[i - 1], levels[i])]
      BY <1>6, <1>7 DEF l
<1> QED BY <1>8 DEF Walking

LEMMA WalkIs ==
    ASSUME Shape, NEW levels \in Seq(Label)
    PROVE  /\ Walk(levels)[0] = [n |-> Root, p |-> Root]
           /\ \A i \in 1..Len(levels) :
                  Walk(levels)[i] = Below(Walk(levels)[i - 1], levels[i])
<1>1. Walking(levels, Walk(levels))
      BY WalkingExists DEF Walk, Walking, Below
<1>2. Len(levels) \in Nat
      BY LenProperties
<1>3. 0 \in 0..Len(levels) /\ \A i \in 1..Len(levels) : i \in 0..Len(levels) /\ i # 0
      BY <1>2
<1> HIDE DEF Walk
<1> QED BY <1>1, <1>3 DEF Walking

\* x is the first node with these names from the root, or there is none.
Finds(x, names) ==
    \/ x = NIL /\ \A m \in 1..N : PathTo[m] # names
    \/ x \in 1..N /\ PathTo[x] = names /\ IsFirst(x)

LEMMA RootFinds ==
    ASSUME Shape
    PROVE  Finds(Root, <<>>) /\ IsFirst(Root) /\ Root \in 1..N
<1>1. N \in Nat /\ Root \in 1..N /\ PathTo[Root] = <<>>
      BY NodesTyped, PathsAre DEF PathsFollow, Shape
<1> QED BY <1>1 DEF Finds, IsFirst, Root

\* A node that can be found leads to the first of its children's names.
LEMMA ChildFinds ==
    ASSUME Shape, FirstsHaveKids, NEW n \in 1..N, IsFirst(n), NEW level \in Label
    PROVE  Finds(ChildNamed(n, level), Append(PathTo[n], level))
<1> DEFINE names == Append(PathTo[n], level)
           c == ChildNamed(n, level)
<1>0. N \in Nat /\ PathsFollow
      BY NodesTyped, PathsAre DEF Shape
<1>1. PathTo[n] \in Seq(Label) /\ names # <<>>
      BY <1>0, AppendProperties DEF PathsFollow
<1>2. ASSUME NEW m \in 1..N, PathTo[m] = names
      PROVE  m \in 2..N /\ IsChild(m, n) /\ nodes[m].name = level
      <2>1. m # Root
            BY <1>0, <1>1, <1>2 DEF PathsFollow
      <2>2. m \in 2..N
            BY <1>0, <2>1 DEF Root
      <2>4. Parent(m) \in 1..N /\ IsChild(m, Parent(m))
            BY <1>0, <2>2, ParentIs
      <2>3. PathTo[m] = Append(PathTo[Parent(m)], nodes[m].name)
            BY <1>0, <2>2, <2>4 DEF PathsFollow
      <2>5. PathTo[Parent(m)] \in Seq(Label) /\ nodes[m].name \in Label
            BY <1>0, <2>4, NodesTyped DEF PathsFollow, Shape
      <2>6. PathTo[Parent(m)] = PathTo[n] /\ nodes[m].name = level
            <3>1. Append(PathTo[Parent(m)], nodes[m].name) = Append(PathTo[n], level)
                  BY <1>2, <2>3
            <3>2. PathTo[n] \in Seq(Label)
                  BY <1>1
            <3> DEFINE s == PathTo[Parent(m)]
                       t == PathTo[n]
                       e == nodes[m].name
            <3>3. s \in Seq(Label) /\ t \in Seq(Label) /\ e \in Label
                  BY <2>5, <3>2
            <3>4. Append(s, e) = Append(t, level)
                  BY <3>1
            <3> HIDE DEF names, c, s, t, e
            <3>5. s = t /\ e = level
                  BY <3>3, <3>4, AppendSplits
            <3> QED BY <3>5 DEF s, t, e
      <2>7. Kids(Parent(m)) # <<>>
            BY <2>4 DEF IsChild
      <2>8. Parent(m) <= n /\ n <= Parent(m)
            BY <2>4, <2>6, <2>7 DEF FirstsHaveKids, IsFirst
      <2>9. Parent(m) = n
            BY <1>0, <2>4, <2>8
      <2> QED BY <2>2, <2>4, <2>6, <2>9
<1>3. \/ c = NIL /\ \A m \in 1..N : IsChild(m, n) => nodes[m].name # level
      \/ /\ c \in (n + 1)..N /\ IsChild(c, n) /\ nodes[c].name = level
         /\ \A m \in 1..N : IsChild(m, n) /\ nodes[m].name = level => c <= m
      BY ChildNamedIs
<1> HIDE DEF c, names
<1> SUFFICES Finds(c, names)
    BY DEF c, names
<1>4. CASE c = NIL /\ \A m \in 1..N : IsChild(m, n) => nodes[m].name # level
      BY <1>2, <1>4 DEF Finds
<1>5. CASE /\ c \in (n + 1)..N /\ IsChild(c, n) /\ nodes[c].name = level
           /\ \A m \in 1..N : IsChild(m, n) /\ nodes[m].name = level => c <= m
      <2>1. c \in 2..N /\ c \in 1..N
            BY <1>0, <1>5
      <2>3. PathTo[c] = names
            BY <1>0, <1>5, <2>1 DEF PathsFollow, names
      <2>4. IsFirst(c)
            BY <1>2, <1>5, <2>3 DEF IsFirst
      <2> QED BY <2>1, <2>3, <2>4 DEF Finds
<1> QED BY <1>3, <1>4, <1>5

WalkRight(levels, i) ==
    LET at == Walk(levels)[i] IN
    /\ Finds(at.n, SubSeq(levels, 1, i))
    /\ at.p \in 1..N /\ IsFirst(at.p)
    /\ at.n # NIL => at.p = at.n

LEMMA WalkFinds ==
    ASSUME Shape, FirstsHaveKids, NEW levels \in Seq(Label), NEW i \in 0..Len(levels)
    PROVE  WalkRight(levels, i)
<1> DEFINE l == Len(levels)
           T == {j \in 0..l : WalkRight(levels, j)}
<1>0. l \in Nat /\ NIL = 0 /\ Root = 1 /\ N \in Nat
      BY LenProperties, NodesTyped DEF NIL, Root, Shape
<1>1. ASSUME NEW k \in 0..l, 0..(k - 1) \subseteq T PROVE WalkRight(levels, k)
      <2>1. CASE k = 0
            <3>1. Walk(levels)[k].n = Root /\ Walk(levels)[k].p = Root
                  BY <2>1, WalkIs
            <3>2. SubSeq(levels, 1, k) = <<>>
                  BY <2>1, SubSeqEmpty
            <3> QED BY <3>1, <3>2, RootFinds DEF WalkRight
      <2>2. CASE k # 0
            <3> DEFINE before == Walk(levels)[k - 1]
                       at == Walk(levels)[k]
                       level == levels[k]
                       above == SubSeq(levels, 1, k - 1)
                       names == SubSeq(levels, 1, k)
            <3>1. k \in 1..l /\ k - 1 \in 0..(k - 1)
                  BY <1>0, <2>2
            <3>2. WalkRight(levels, k - 1)
                  BY <1>1, <3>1
            <3>3. level \in Label /\ names = Append(above, level)
                  BY <3>1, ElementOfSeq, PrefixAppend
            <3>4. at = Below(before, level)
                  BY <3>1, WalkIs
            <3>5. /\ Finds(before.n, above)
                  /\ before.p \in 1..N /\ IsFirst(before.p)
                  /\ before.n # NIL => before.p = before.n
                  BY <3>2 DEF WalkRight
            <3>6. above \in Seq(Label)
                  BY <1>0, <3>1, Prefix
            <3> HIDE DEF before, at, level, above, names
            <3>7. CASE before.n = NIL
                  <4>1. at.n = NIL /\ at.p = before.p
                        BY <3>4, <3>7 DEF Below
                  <4>2. \A m \in 1..N : PathTo[m] # above
                        BY <1>0, <3>5, <3>7 DEF Finds
                  <4>3. ASSUME NEW m \in 1..N, PathTo[m] = names PROVE FALSE
                        <5>1. Append(above, level) # <<>>
                              BY <3>3, <3>6, AppendProperties
                        <5>2. PathsFollow
                              BY PathsAre
                        <5>3. m \in 2..N
                              BY <1>0, <3>3, <4>3, <5>1, <5>2 DEF PathsFollow
                        <5>5. Parent(m) \in 1..N /\ IsChild(m, Parent(m))
                              BY <1>0, <5>3, ParentIs
                        <5>4. PathTo[m] = Append(PathTo[Parent(m)], nodes[m].name)
                              BY <5>2, <5>3, <5>5 DEF PathsFollow
                        <5>6. PathTo[Parent(m)] \in Seq(Label) /\ nodes[m].name \in Label
                              BY <5>2, <5>5, NodesTyped DEF PathsFollow, Shape
                        <5>7. PathTo[Parent(m)] = above
                              <6>1. Append(PathTo[Parent(m)], nodes[m].name) = Append(above, level)
                                    BY <3>3, <4>3, <5>4
                              <6> QED BY <3>3, <3>6, <5>6, <6>1, AppendSplits
                        <5> QED BY <4>2, <5>5, <5>7
                  <4>4. Finds(at.n, names)
                        BY <4>1, <4>3 DEF Finds
                  <4> QED BY <3>5, <4>1, <4>4 DEF WalkRight, at, names
            <3>8. CASE before.n # NIL
                  <4>1. /\ before.n \in 1..N /\ IsFirst(before.n)
                        /\ PathTo[before.n] = above
                        BY <3>5, <3>8 DEF Finds
                  <4>2. /\ at.n = ChildNamed(before.n, level)
                        /\ at.p = IF at.n = NIL THEN before.p ELSE at.n
                        BY <3>4, <3>8 DEF Below
                  <4>3. Finds(at.n, names)
                        BY <3>3, <4>1, <4>2, ChildFinds
                  <4>4. at.n # NIL => at.n \in 1..N /\ IsFirst(at.n)
                        BY <4>3 DEF Finds
                  <4> QED BY <3>5, <4>2, <4>3, <4>4 DEF WalkRight, at, names
            <3> QED BY <3>7, <3>8
      <2> QED BY <2>1, <2>2
<1>2. 0..l \subseteq T
      <2>1. \A k \in 0..l : 0..(k - 1) \subseteq T => k \in T
            BY <1>1
      <2> HIDE DEF T, l
      <2> QED BY <1>0, <2>1, Ascent
<1>3. i \in T
      <2> HIDE DEF T
      <2> QED BY <1>2
<1> QED BY <1>3

\* What dir_find_node finds and where it stops.
LEMMA FoundIs ==
    ASSUME Shape, FirstsHaveKids, NEW levels \in Seq(Label)
    PROVE  /\ Finds(Found(levels).n, levels)
           /\ Found(levels).p \in 1..N /\ IsFirst(Found(levels).p)
<1>1. Len(levels) \in 0..Len(levels) /\ SubSeq(levels, 1, Len(levels)) = levels
      BY LenProperties, SubSeqFull
<1>2. WalkRight(levels, Len(levels))
      BY <1>1, WalkFinds
<1> QED BY <1>1, <1>2 DEF WalkRight, Found

\* With only the last level missing it stops at the parent.
LEMMA StopsAbove ==
    ASSUME Shape, FirstsHaveKids, NEW above \in Seq(Label), NEW level \in Label,
           Found(Append(above, level)).n = NIL,
           NEW m \in 1..N, PathTo[m] = above
    PROVE  PathTo[Found(Append(above, level)).p] = above
<1> DEFINE levels == Append(above, level)
           k == Len(levels)
<1>1. /\ levels \in Seq(Label) /\ k = Len(above) + 1
      /\ Len(above) \in Nat
      BY AppendProperties, LenProperties
<1>2. SubSeq(levels, 1, k - 1) = above
      <2>1. k - 1 \in 0..k /\ k - 1 = Len(above)
            BY <1>1
      <2>2. /\ SubSeq(levels, 1, k - 1) \in Seq(Label)
            /\ Len(SubSeq(levels, 1, k - 1)) = k - 1
            /\ \A i \in 1..(k - 1) : SubSeq(levels, 1, k - 1)[i] = levels[i]
            BY <1>1, <2>1, Prefix
      <2>3. \A i \in 1..Len(above) : levels[i] = above[i]
            BY AppendProperties
      <2> HIDE DEF levels, k
      <2> QED BY <1>1, <2>1, <2>2, <2>3, SeqEqual
<1>3. k \in 1..k /\ k - 1 \in 0..k
      BY <1>1
<1>4. WalkRight(levels, k - 1)
      BY <1>1, <1>3, WalkFinds
<1>5. Walk(levels)[k] = Below(Walk(levels)[k - 1], levels[k])
      BY <1>1, <1>3, WalkIs
<1>6. Found(levels) = Walk(levels)[k]
      BY DEF Found
<1> HIDE DEF levels, k
<1> DEFINE before == Walk(levels)[k - 1]
<1> HIDE DEF before
<1>7. before.n # NIL /\ PathTo[before.n] = above /\ before.p = before.n
      <2>1. Finds(before.n, above) /\ (before.n # NIL => before.p = before.n)
            BY <1>2, <1>4 DEF WalkRight, before
      <2>2. before.n # NIL
            <3>1. 0 \notin 1..N
                  OBVIOUS
            <3> QED BY <2>1, <3>1 DEF Finds, NIL
      <2> QED BY <2>1, <2>2 DEF Finds
<1>8. Found(levels) = Below(before, levels[k])
      BY <1>5, <1>6 DEF before
<1>9. Found(levels).n = NIL
      BY DEF levels
<1>10. Found(levels).p = before.p
      BY <1>8, <1>9 DEF Below
<1> QED BY <1>7, <1>10 DEF levels

-----------------------------------------------------------------------------
(* A create.                                                                 *)

\* The new node c has this name and is the last child of p.
Grows(p, c, name) ==
    /\ Len(nodes') = c
    /\ nodes'[c] = Node(name)
    /\ \A n \in 1..N : /\ nodes'[n].name = nodes[n].name
                       /\ nodes'[n].children = IF n = p THEN Append(Kids(n), c) ELSE Kids(n)

LEMMA PathTyped ==
    ASSUME NEW path \in Paths
    PROVE  path \in Seq(Label) /\ path # <<>>
<1>1. path \in Seq(STRING) /\ path # <<>>
      BY PathsAssumption
<1>2. STRING \subseteq Label
      BY DEF Label
<1> QED BY <1>1, <1>2, SeqMonotonic

LEMMA CreateGrows ==
    ASSUME Shape, FirstsHaveKids, NEW path \in Paths, Create(path)
    PROVE  /\ Grows(FindDeepest(path), N + 1, Name(path))
           /\ nodes' \in Seq([name : Label, children : Seq(Nat)])
<1> DEFINE p == FindDeepest(path)
           c == N + 1
           name == Name(path)
           S == [name : Label, children : Seq(Nat)]
           new == Append(nodes, Node(name))
<1>1. p \in 1..N /\ N \in Nat /\ c \in Nat
      BY PathTyped, LevelsTyped, SeqMonotonic, FoundIs, NodesTyped
         DEF FindDeepest, Level, Shape
<1>2. name \in Label
      BY PathTyped, AppendToAbove DEF Name
<1>3. Node(name) \in S /\ nodes \in Seq(S)
      BY <1>2, EmptySeq DEF Node, Shape, TreeTypes
<1>4. /\ new \in Seq(S) /\ Len(new) = c /\ new[c] = Node(name)
      /\ \A n \in 1..N : new[n] = nodes[n]
      BY <1>3, AppendProperties DEF N
<1>5. nodes' = [new EXCEPT ![p].children = Append(new[p].children, c)]
      BY DEF Create, AddNode, AddChild, N
<1>6. p \in 1..Len(new) /\ new[p] \in S
      <2>1. p \in 1..Len(new)
            BY <1>1, <1>4
      <2> HIDE DEF new, p, S
      <2> QED BY <2>1, <1>4, ElementOfSeq
<1> DEFINE el == [new[p] EXCEPT !.children = Append(new[p].children, c)]
<1> HIDE DEF p, c, name, new
<1>7. el \in S /\ el.name = new[p].name /\ el.children = Append(new[p].children, c)
      <2>1. Append(new[p].children, c) \in Seq(Nat)
            BY <1>1, <1>6, AppendProperties
      <2> QED BY <1>6, <2>1
<1>8. nodes' = [new EXCEPT ![p] = el]
      BY <1>5
<1> HIDE DEF el, S
<1>9. /\ nodes' \in Seq(S) /\ Len(nodes') = c
      /\ \A n \in 1..c : nodes'[n] = IF n = p THEN el ELSE new[n]
      BY <1>4, <1>6, <1>7, <1>8, ExceptSeq
<1>10. nodes'[c] = Node(name)
      <2>1. c \in 1..c /\ c # p
            BY <1>1 DEF c
      <2> QED BY <1>4, <1>9, <2>1
<1>11. ASSUME NEW n \in 1..N
       PROVE  /\ nodes'[n].name = nodes[n].name
              /\ nodes'[n].children = IF n = p THEN Append(Kids(n), c) ELSE Kids(n)
      <2>1. n \in 1..c
            BY <1>1 DEF c
      <2>2. nodes'[n] = IF n = p THEN el ELSE nodes[n]
            BY <1>4, <1>9, <2>1
      <2>3. new[n] = nodes[n]
            BY <1>4
      <2> QED BY <1>7, <2>2, <2>3 DEF Kids
<1> QED BY <1>9, <1>10, <1>11 DEF Grows, S, p, c, name

LEMMA KidsGrow ==
    ASSUME Shape, NEW p \in 1..N, NEW name \in Label, NEW c, c = N + 1, Grows(p, c, name)
    PROVE  /\ N' = c /\ c \in Nat /\ N \in Nat /\ Len(Kids(p)) \in Nat
           /\ Kids(c)' = <<>>
           /\ Len(Kids(p)') = Len(Kids(p)) + 1
           /\ Kids(p)'[Len(Kids(p)) + 1] = c
           /\ \A i \in 1..Len(Kids(p)) : Kids(p)'[i] = Kids(p)[i]
           /\ \A n \in 1..N : n # p => Kids(n)' = Kids(n)
<1>1. N \in Nat /\ Kids(p) \in Seq(Nat) /\ c \in Nat /\ Len(Kids(p)) \in Nat
      BY NodesTyped DEF Shape
<1>2. nodes'[c].children = <<>>
      BY DEF Grows, Node
<1>3. /\ Kids(p)' = Append(Kids(p), c)
      /\ \A n \in 1..N : n # p => Kids(n)' = Kids(n)
      BY DEF Grows, Kids
<1>4. N' = c /\ Kids(c)' = <<>>
      BY <1>2 DEF Grows, N, Kids
<1> QED BY <1>1, <1>3, <1>4, AppendProperties

\* Who is whose child.
LEMMA ChildrenGrow ==
    ASSUME Shape, NEW p \in 1..N, NEW name \in Label, NEW c, c = N + 1, Grows(p, c, name)
    PROVE  /\ \A d \in 1..N, n \in 1..N : IsChild(d, n)' <=> IsChild(d, n)
           /\ \A d \in 1..c : ~IsChild(d, c)'
           /\ \A n \in 1..N : IsChild(c, n)' <=> n = p
<1>0. /\ N' = c /\ c \in Nat /\ N \in Nat /\ Len(Kids(p)) \in Nat
      /\ Kids(c)' = <<>>
      /\ Len(Kids(p)') = Len(Kids(p)) + 1
      /\ Kids(p)'[Len(Kids(p)) + 1] = c
      /\ \A i \in 1..Len(Kids(p)) : Kids(p)'[i] = Kids(p)[i]
      /\ \A n \in 1..N : n # p => Kids(n)' = Kids(n)
      BY KidsGrow
<1>1. \A n \in 1..N : \A i \in 1..Len(Kids(n)) : Kids(n)[i] \in 1..N
      BY <1>0 DEF Shape, KidsInOrder
<1>2. \A d \in 1..N : d # c
      BY <1>0
<1>3. \A d \in 1..N, n \in 1..N : n # p => (IsChild(d, n)' <=> IsChild(d, n))
      BY <1>0 DEF IsChild
<1>4. ASSUME NEW d PROVE IsChild(d, p)' <=> IsChild(d, p) \/ d = c
      <2>1. \A i : i \in 1..Len(Kids(p)') <=> i \in 1..Len(Kids(p)) \/ i = Len(Kids(p)) + 1
            BY <1>0
      <2> QED BY <1>0, <2>1 DEF IsChild
<1>5. \A d \in 1..N, n \in 1..N : IsChild(d, n)' <=> IsChild(d, n)
      BY <1>2, <1>3, <1>4
<1>6. \A d \in 1..c : ~IsChild(d, c)'
      BY <1>0 DEF IsChild
<1>7. \A n \in 1..N : IsChild(c, n)' <=> n = p
      <2>1. \A n \in 1..N : ~IsChild(c, n)
            BY <1>1, <1>2 DEF IsChild
      <2>2. \A n \in 1..N : n # p => (IsChild(c, n)' <=> IsChild(c, n))
            BY <1>0 DEF IsChild
      <2> QED BY <1>4, <2>1, <2>2
<1> QED BY <1>5, <1>6, <1>7

LEMMA ShapeGrows ==
    ASSUME Shape, NEW p \in 1..N, NEW name \in Label, NEW c, c = N + 1, Grows(p, c, name),
           TreeTypes'
    PROVE  Shape'
<1>0. /\ N' = c /\ c \in Nat /\ N \in Nat /\ Len(Kids(p)) \in Nat
      /\ Kids(c)' = <<>>
      /\ Len(Kids(p)') = Len(Kids(p)) + 1
      /\ Kids(p)'[Len(Kids(p)) + 1] = c
      /\ \A i \in 1..Len(Kids(p)) : Kids(p)'[i] = Kids(p)[i]
      /\ \A n \in 1..N : n # p => Kids(n)' = Kids(n)
      BY KidsGrow
<1>1. \A n \in 1..N : \A i \in 1..Len(Kids(n)) :
          /\ Kids(n)[i] \in (n + 1)..N
          /\ \A j \in 1..(i - 1) : Kids(n)[j] < Kids(n)[i]
      BY DEF Shape, KidsInOrder
<1>2. KidsInOrder'
      <2> SUFFICES ASSUME NEW n \in 1..N', NEW i \in 1..Len(Kids(n)')
                   PROVE  /\ Kids(n)'[i] \in (n + 1)..N'
                          /\ \A j \in 1..(i - 1) : Kids(n)'[j] < Kids(n)'[i]
          BY DEF KidsInOrder
      <2>1. n # c
            BY <1>0
      <2>2. n \in 1..N
            BY <1>0, <2>1
      <2>3. CASE n # p
            <3>1. Kids(n)' = Kids(n)
                  BY <1>0, <2>2, <2>3
            <3>2. Kids(n)[i] \in (n + 1)..N /\ \A j \in 1..(i - 1) : Kids(n)[j] < Kids(n)[i]
                  BY <1>1, <2>2, <3>1
            <3>3. \A x \in (n + 1)..N : x \in (n + 1)..c
                  BY <1>0
            <3> QED BY <1>0, <3>1, <3>2, <3>3
      <2>4. CASE n = p /\ i \in 1..Len(Kids(p))
            <3>1. Kids(p)[i] \in (p + 1)..N /\ \A j \in 1..(i - 1) : Kids(p)[j] < Kids(p)[i]
                  BY <1>1, <2>4
            <3>2. Kids(p)'[i] = Kids(p)[i] /\ \A j \in 1..(i - 1) : Kids(p)'[j] = Kids(p)[j]
                  BY <1>0, <2>4
            <3>3. \A x \in (p + 1)..N : x \in (p + 1)..c
                  BY <1>0
            <3> QED BY <1>0, <2>4, <3>1, <3>2, <3>3
      <2>5. CASE n = p /\ i = Len(Kids(p)) + 1
            <3>1. Kids(p)'[i] = c /\ c \in (p + 1)..c
                  BY <1>0, <2>5
            <3>2. ASSUME NEW j \in 1..(i - 1) PROVE Kids(p)'[j] < c
                  <4>1. j \in 1..Len(Kids(p))
                        BY <1>0, <2>5
                  <4>2. Kids(p)'[j] = Kids(p)[j] /\ Kids(p)[j] \in (p + 1)..N
                        BY <1>0, <1>1, <4>1
                  <4> QED BY <1>0, <4>2
            <3> QED BY <1>0, <2>5, <3>1, <3>2
      <2>6. n = p => i \in 1..Len(Kids(p)) \/ i = Len(Kids(p)) + 1
            BY <1>0
      <2> QED BY <2>3, <2>4, <2>5, <2>6
<1>3. /\ \A d \in 1..N, n \in 1..N : IsChild(d, n)' <=> IsChild(d, n)
      /\ \A d \in 1..c : ~IsChild(d, c)'
      /\ \A n \in 1..N : IsChild(c, n)' <=> n = p
      BY ChildrenGrow
<1>4. OneParent'
      <2> SUFFICES ASSUME NEW d \in 2..N'
                   PROVE  \E q \in 1..(d - 1) : /\ IsChild(d, q)'
                                                /\ \A r \in 1..N' : IsChild(d, r)' => r = q
          BY DEF OneParent
      <2>1. \A r \in 1..N' : r \in 1..N \/ r = c
            BY <1>0
      <2>2. CASE d = c
            <3>1. p \in 1..(d - 1) /\ d \in 1..c
                  BY <1>0, <2>2
            <3> QED BY <1>3, <2>1, <2>2, <3>1
      <2>3. CASE d # c
            <3>1. d \in 2..N /\ d \in 1..N /\ d \in 1..c
                  BY <1>0, <2>3
            <3>2. PICK q \in 1..(d - 1) : IsChild(d, q) /\ \A r \in 1..N : IsChild(d, r) => r = q
                  BY <3>1 DEF Shape, OneParent
            <3>3. q \in 1..N
                  BY <1>0, <3>1
            <3> QED BY <1>3, <2>1, <3>1, <3>2, <3>3
      <2> QED BY <2>2, <2>3
<1> QED BY <1>2, <1>4 DEF Shape

\* Nobody's path changes, and the new node's is below p's.
LEMMA PathsGrow ==
    ASSUME Shape, NEW p \in 1..N, NEW name \in Label, NEW c, c = N + 1, Grows(p, c, name),
           Shape'
    PROVE  /\ \A n \in 1..N : PathTo'[n] = PathTo[n]
           /\ PathTo'[c] = Append(PathTo[p], name)
<1>0. N' = c /\ c \in Nat /\ N \in Nat /\ Root \in 1..N
      BY KidsGrow, NodesTyped DEF Shape
<1>1. PathsFollow
      BY PathsAre
<1>2. PathsFollow'
      BY PathsAre, PTL
<1>3. /\ \A d \in 1..N, n \in 1..N : IsChild(d, n)' <=> IsChild(d, n)
      /\ \A d \in 1..c : ~IsChild(d, c)'
      /\ \A n \in 1..N : IsChild(c, n)' <=> n = p
      BY ChildrenGrow
<1>4. p \in 1..N' /\ c \in 2..N' /\ c \in 1..c
      BY <1>0
<1> DEFINE T == {d \in 1..N : PathTo'[d] = PathTo[d]}
<1>5. ASSUME NEW k \in 1..N, 1..(k - 1) \subseteq T PROVE k \in T
      <2>1. CASE k = Root
            BY <1>1, <1>2, <2>1 DEF PathsFollow
      <2>2. CASE k # Root
            <3>1. k \in 2..N /\ k \in 2..N'
                  BY <1>0, <2>2 DEF Root
            <3>2. PICK q \in 1..(k - 1) : IsChild(k, q)
                  BY <3>1 DEF Shape, OneParent
            <3>3. q \in 1..N /\ q \in 1..N'
                  BY <1>0
            <3>4. IsChild(k, q)'
                  BY <1>3, <3>2, <3>3
            <3>5. PathTo[k] = Append(PathTo[q], nodes[k].name)
                  BY <1>1, <3>1, <3>2, <3>3 DEF PathsFollow
            <3>6. PathTo'[k] = Append(PathTo'[q], nodes'[k].name)
                  BY <1>2, <3>1, <3>3, <3>4 DEF PathsFollow
            <3>7. PathTo'[q] = PathTo[q] /\ nodes'[k].name = nodes[k].name
                  BY <1>5 DEF Grows
            <3> QED BY <3>5, <3>6, <3>7
      <2> QED BY <2>1, <2>2
<1>6. 1..N \subseteq T
      <2> HIDE DEF T
      <2> QED BY <1>0, <1>5, Ascent
<1>7. PathTo'[c] = Append(PathTo'[p], nodes'[c].name)
      BY <1>2, <1>3, <1>4 DEF PathsFollow
<1>8. nodes'[c].name = name
      BY DEF Grows, Node
<1> QED BY <1>6, <1>7, <1>8

LEMMA FirstsStay ==
    ASSUME TreeInv, NEW path \in Paths, Create(path),
           NEW p \in 1..N, NEW name \in Label, NEW c, c = N + 1, Grows(p, c, name),
           IsFirst(p), Shape'
    PROVE  FirstsHaveKids' /\ \A n \in 1..N : IsFirst(n) => IsFirst(n)'
<1>0. /\ N' = c /\ c \in Nat /\ N \in Nat
      /\ Kids(c)' = <<>>
      /\ \A n \in 1..N : n # p => Kids(n)' = Kids(n)
      BY KidsGrow DEF TreeInv
<1>1. \A n \in 1..N : PathTo'[n] = PathTo[n]
      BY PathsGrow DEF TreeInv
<1>2. ASSUME NEW n \in 1..N, IsFirst(n) PROVE IsFirst(n)'
      <2> SUFFICES ASSUME NEW m \in 1..N', PathTo'[m] = PathTo'[n] PROVE n <= m
          BY DEF IsFirst
      <2>1. CASE m = c
            BY <1>0, <2>1
      <2>2. CASE m # c
            <3>1. m \in 1..N
                  BY <1>0, <2>2
            <3> QED BY <1>1, <1>2, <3>1 DEF IsFirst
      <2> QED BY <2>1, <2>2
<1>3. FirstsHaveKids'
      <2> SUFFICES ASSUME NEW n \in 1..N', Kids(n)' # <<>> PROVE IsFirst(n)'
          BY DEF FirstsHaveKids
      <2>1. n \in 1..N
            BY <1>0
      <2>2. n # p => Kids(n) # <<>>
            BY <1>0, <2>1
      <2>3. IsFirst(n)
            BY <2>1, <2>2 DEF TreeInv, FirstsHaveKids
      <2> QED BY <1>2, <2>1, <2>3
<1> QED BY <1>2, <1>3

\* A file goes where its path says, or astray.
LEMMA MadeGrows ==
    ASSUME TreeInv, NEW path \in Paths, Create(path), TreeTypes',
           NEW p, p = FindDeepest(path), NEW c, c = N + 1,
           p \in 1..N, Grows(p, c, Name(path)), Shape',
           \A n \in 1..N : IsFirst(n) => IsFirst(n)'
    PROVE  MadeIsFirst'
<1> DEFINE levels == Levels(path)
           l == Len(made)
<1>0. /\ path \in Seq(Label) /\ path # <<>> /\ Name(path) \in Label
      /\ Above(path) \in Seq(Label)
      BY PathTyped, AppendToAbove DEF Name
<1>1. N \in Nat /\ l \in Nat /\ N = l + 1 /\ N' = c /\ made \in Seq(Seq(Level))
      BY <1>0, KidsGrow, LenProperties DEF TreeInv, Shape, TreeTypes
<1>2. /\ \A n \in 1..N : PathTo'[n] = PathTo[n]
      /\ PathTo'[c] = Append(PathTo[p], Name(path))
      BY <1>0, PathsGrow DEF TreeInv
<1>3. levels \in Seq(Level) /\ levels \in Seq(Label)
      BY <1>0, LevelsTyped, SeqMonotonic DEF Level
<1>4. \A m \in 1..N : PathTo[m] # levels
      <2>1. Found(levels).n = NIL
            BY DEF Create, FindExact
      <2>2. Finds(Found(levels).n, levels)
            BY <1>3, FoundIs DEF TreeInv
      <2> QED BY <1>1, <2>1, <2>2 DEF Finds, NIL
<1>5. /\ Len(made') = l + 1 /\ made'[l + 1] = levels
      /\ \A i \in 1..l : made'[i] = made[i]
      <2>1. made' = Append(made, levels)
            BY DEF Create
      <2> HIDE DEF levels
      <2> QED BY <1>1, <1>3, <2>1, AppendProperties
<1>6. stray \subseteq stray' /\ (c \notin stray' =>
          Name(path) # Empty /\ Found(Levels(Above(path))).n # NIL)
      BY DEF Create, FindExact, Above, N
<1> HIDE DEF levels, l
<1> SUFFICES ASSUME NEW i \in 1..(l + 1), i + 1 \notin stray'
             PROVE  /\ PathTo'[i + 1] = made'[i]
                    /\ IsFirst(i + 1)'
                    /\ \A j \in (i + 1)..(l + 1) : made'[j] # made'[i]
    BY <1>5 DEF MadeIsFirst
<1>7. CASE i = l + 1
      <2>1. i + 1 = c /\ \A j \in (i + 1)..(l + 1) : FALSE
            BY <1>1, <1>7
      <2> DEFINE above == Levels(Above(path))
                 level == Name(path)
      <2>2. level # Empty /\ Found(above).n # NIL
            BY <1>6, <2>1
      <2>3. above \in Seq(Label)
            BY <1>0, LevelsTyped, SeqMonotonic DEF Level
      <2>4. levels = Append(above, level)
            BY <1>0, <2>2, LevelsOfPath DEF levels
      <2>5. Finds(Found(above).n, above)
            BY <2>3, FoundIs DEF TreeInv
      <2>6. Found(levels).n = NIL /\ p = Found(levels).p
            BY DEF Create, FindExact, FindDeepest, levels
      <2>7. level \in Label
            BY <1>0
      <2> HIDE DEF above, level
      <2>8. PICK m \in 1..N : PathTo[m] = above
            BY <2>2, <2>5 DEF Finds
      <2>9. PathTo[Found(Append(above, level)).p] = above
            BY <2>3, <2>4, <2>6, <2>7, <2>8, StopsAbove DEF TreeInv
      <2>10. PathTo'[c] = levels
            BY <1>2, <2>4, <2>6, <2>9 DEF level
      <2>11. IsFirst(c)'
            <3> SUFFICES ASSUME NEW k \in 1..N', PathTo'[k] = PathTo'[c] PROVE c <= k
                BY DEF IsFirst
            <3>1. k \notin 1..N
                  BY <1>2, <1>4, <2>10
            <3> QED BY <1>1, <3>1
      <2>12. IsFirst(i + 1)'
            BY <2>1, <2>11
      <2> QED BY <1>5, <1>7, <2>1, <2>10, <2>12
<1>8. CASE i # l + 1
      <2>1. i \in 1..l /\ i + 1 \in 1..N
            BY <1>1, <1>8
      <2>2. /\ PathTo[i + 1] = made[i] /\ IsFirst(i + 1)
            /\ \A j \in (i + 1)..l : made[j] # made[i]
            BY <1>6, <2>1 DEF TreeInv, MadeIsFirst, l
      <2>3. IsFirst(i + 1)'
            BY <2>1, <2>2
      <2>4. ASSUME NEW j \in (i + 1)..(l + 1) PROVE made'[j] # made'[i]
            <3>1. CASE j = l + 1
                  <4>1. made'[j] = levels /\ made'[i] = PathTo[i + 1]
                        BY <1>5, <2>1, <2>2, <3>1
                  <4> QED BY <1>4, <2>1, <4>1
            <3>2. CASE j # l + 1
                  <4>1. j \in (i + 1)..l /\ j \in 1..l
                        BY <1>1, <2>1, <3>2
                  <4> QED BY <1>5, <2>1, <2>2, <4>1
            <3> QED BY <3>1, <3>2
      <2> QED BY <1>2, <1>5, <2>1, <2>2, <2>3, <2>4
<1> QED BY <1>7, <1>8

LEMMA CreateKeeps ==
    ASSUME TreeInv, NEW path \in Paths, Create(path)
    PROVE  TreeInv'
<1>1. PICK p : p = FindDeepest(path)
      OBVIOUS
<1>2. PICK c : c = N + 1
      OBVIOUS
<1>3. path \in Seq(Label) /\ path # <<>> /\ Name(path) \in Label
      BY PathTyped, AppendToAbove DEF Name
<1>4. Levels(path) \in Seq(Level) /\ Levels(path) \in Seq(Label)
      BY <1>3, LevelsTyped, SeqMonotonic DEF Level
<1>5. p \in 1..N /\ IsFirst(p)
      BY <1>1, <1>4, FoundIs DEF FindDeepest, TreeInv
<1>6. Grows(p, c, Name(path)) /\ nodes' \in Seq([name : Label, children : Seq(Nat)])
      BY <1>1, <1>2, CreateGrows DEF TreeInv
<1>7. TreeTypes'
      <2>1. made' \in Seq(Seq(Level)) /\ Len(made') = Len(made) + 1
            BY <1>4, AppendProperties DEF Create, TreeInv, Shape, TreeTypes
      <2>2. Len(nodes') = N + 1 /\ N = Len(made) + 1
            BY <1>2, <1>6 DEF Grows, TreeInv, Shape, TreeTypes
      <2> QED BY <1>6, <2>1, <2>2 DEF TreeTypes, N
<1>8. Shape'
      BY <1>2, <1>3, <1>5, <1>6, <1>7, ShapeGrows DEF TreeInv
<1>9. FirstsHaveKids' /\ \A n \in 1..N : IsFirst(n) => IsFirst(n)'
      BY <1>2, <1>3, <1>5, <1>6, <1>8, FirstsStay
<1>10. MadeIsFirst'
      BY <1>1, <1>2, <1>5, <1>6, <1>7, <1>8, <1>9, MadeGrows
<1> QED BY <1>8, <1>9, <1>10 DEF TreeInv

LEMMA InitTree == TreeInit => TreeInv
<1> SUFFICES ASSUME TreeInit PROVE TreeInv
    OBVIOUS
<1>1. Node("/") \in [name : Label, children : Seq(Nat)] /\ Node("/").children = <<>>
      <2>1. "/" \in Label
            BY DEF Label
      <2>2. \A name \in Label : /\ Node(name) \in [name : Label, children : Seq(Nat)]
                                /\ Node(name).children = <<>>
            BY EmptySeq DEF Node
      <2> QED BY <2>1, <2>2
<1>2. /\ nodes \in Seq([name : Label, children : Seq(Nat)]) /\ N = 1
      /\ nodes[1] = Node("/")
      BY <1>1, Singleton DEF TreeInit, N
<1>3. made \in Seq(Seq(Level)) /\ Len(made) = 0
      BY EmptySeq DEF TreeInit
<1>4. TreeTypes
      BY <1>2, <1>3 DEF TreeTypes
<1>5. \A n \in 1..N : Kids(n) = <<>> /\ Len(Kids(n)) = 0
      BY <1>1, <1>2 DEF Kids
<1>6. KidsInOrder /\ FirstsHaveKids
      BY <1>5 DEF KidsInOrder, FirstsHaveKids
<1>7. OneParent
      BY <1>2 DEF OneParent
<1>8. MadeIsFirst
      BY <1>3 DEF MadeIsFirst
<1> QED BY <1>4, <1>6, <1>7, <1>8 DEF TreeInv, Shape

\* A tree stays as it is when only other variables change.
LEMMA TreeStays == TreeInv /\ UNCHANGED treevars => TreeInv'
<1> SUFFICES ASSUME TreeInv, UNCHANGED treevars PROVE TreeInv'
    OBVIOUS
<1>1. nodes' = nodes /\ made' = made /\ stray' = stray
      BY DEF treevars
<1>2. N' = N /\ \A n : Kids(n)' = Kids(n)
      BY <1>1 DEF N, Kids
<1>3. \A c, p : IsChild(c, p)' <=> IsChild(c, p)
      BY <1>2 DEF IsChild
<1>4. PathTo' = PathTo
      BY <1>1 DEF PathTo, Parent
<1>5. \A n : IsFirst(n)' <=> IsFirst(n)
      BY <1>2, <1>4 DEF IsFirst
<1>6. TreeTypes' /\ MadeIsFirst'
      BY <1>1, <1>2, <1>4, <1>5 DEF TreeInv, Shape, TreeTypes, MadeIsFirst
<1>7. KidsInOrder'
      BY <1>2 DEF TreeInv, Shape, KidsInOrder
<1>8. OneParent'
      BY <1>2, <1>3 DEF TreeInv, Shape, OneParent
<1>9. FirstsHaveKids'
      BY <1>2, <1>5 DEF TreeInv, FirstsHaveKids
<1> QED BY <1>6, <1>7, <1>8, <1>9 DEF TreeInv, Shape

\* A request adds the last child of a node that can be found.
THEOREM TreeInvHolds == TreeSpec => []TreeInv
<1>1. TreeInv /\ [TreeNext]_treevars => TreeInv'
      BY CreateKeeps, TreeStays DEF TreeNext
<1> QED BY <1>1, InitTree, PTL DEF TreeSpec

-----------------------------------------------------------------------------
(* The theorems.                                                             *)

\* dir_find_node finds a path's first node, and only where there is one.
THEOREM FindsByPathHolds == TreeSpec => []FindsByPath
<1>1. TreeInv => FindsByPath
      <2> SUFFICES ASSUME TreeInv, NEW path \in Paths
                   PROVE  LET there == {n \in 1..N : PathTo[n] = Levels(path)} IN
                          IF there = {} THEN FindExact(path) = NIL
                          ELSE /\ FindExact(path) \in there
                               /\ \A n \in there : FindExact(path) <= n
          BY DEF FindsByPath, N
      <2>1. Levels(path) \in Seq(Label)
            BY PathTyped, LevelsTyped, SeqMonotonic DEF Level
      <2>2. Finds(FindExact(path), Levels(path))
            BY <2>1, FoundIs DEF FindExact, TreeInv
      <2> QED BY <2>2 DEF Finds, IsFirst
<1> QED BY <1>1, TreeInvHolds, PTL

\* A file that was created where its path says is found by its path from then
\* on, whatever is created later, so it is created once.
THEOREM CreatedIsFoundHolds == TreeSpec => []CreatedIsFound
<1>1. TreeInv => CreatedIsFound
      <2> SUFFICES ASSUME TreeInv, NEW i \in 1..Len(made), i + 1 \notin stray
                   PROVE  /\ FindExact(made[i]) = i + 1
                          /\ \A j \in (i + 1)..Len(made) : made[j] # made[i]
          BY DEF CreatedIsFound
      <2>1. /\ PathTo[i + 1] = made[i] /\ IsFirst(i + 1)
            /\ \A j \in (i + 1)..Len(made) : made[j] # made[i]
            BY DEF TreeInv, MadeIsFirst
      <2>2. N \in Nat /\ i + 1 \in 1..N
            BY NodesTyped, LenProperties DEF TreeInv, Shape, TreeTypes
      <2>3. made[i] \in Seq(Level) /\ made[i] \in Seq(Label)
            BY ElementOfSeq, SeqMonotonic DEF TreeInv, Shape, TreeTypes, Level
      <2>4. Levels(made[i]) = made[i]
            BY <2>3, LevelsSame
      <2>5. Finds(FindExact(made[i]), made[i])
            BY <2>3, <2>4, FoundIs DEF FindExact, TreeInv
      <2>6. /\ FindExact(made[i]) \in 1..N /\ PathTo[FindExact(made[i])] = made[i]
            /\ IsFirst(FindExact(made[i]))
            BY <2>1, <2>2, <2>5 DEF Finds
      <2>7. FindExact(made[i]) <= i + 1 /\ i + 1 <= FindExact(made[i])
            BY <2>1, <2>2, <2>6 DEF IsFirst
      <2> QED BY <2>1, <2>2, <2>6, <2>7
<1> QED BY <1>1, TreeInvHolds, PTL

\* What a path finds was created under that path, or went astray.
THEOREM FoundWasCreatedHolds == TreeSpec => []FoundWasCreated
<1>1. TreeInv => FoundWasCreated
      <2> SUFFICES ASSUME TreeInv, NEW path \in Paths,
                          FindExact(path) \notin {NIL, Root},
                          FindExact(path) \notin stray
                   PROVE  Levels(path) = made[FindExact(path) - 1]
          BY DEF FoundWasCreated
      <2>1. Levels(path) \in Seq(Label)
            BY PathTyped, LevelsTyped, SeqMonotonic DEF Level
      <2> DEFINE n == FindExact(path)
      <2>2. Finds(n, Levels(path))
            BY <2>1, FoundIs DEF FindExact, TreeInv
      <2>3. N \in Nat /\ N = Len(made) + 1 /\ Len(made) \in Nat
            BY NodesTyped, LenProperties DEF TreeInv, Shape, TreeTypes
      <2> HIDE DEF n
      <2>4. n \in 1..N /\ PathTo[n] = Levels(path) /\ n # Root
            BY <2>2 DEF Finds, n
      <2>5. n - 1 \in 1..Len(made) /\ n - 1 + 1 = n
            BY <2>3, <2>4 DEF Root
      <2>6. PathTo[n] = made[n - 1]
            BY <2>5 DEF TreeInv, MadeIsFirst, n
      <2> QED BY <2>4, <2>6 DEF n
<1> QED BY <1>1, TreeInvHolds, PTL
=============================================================================
