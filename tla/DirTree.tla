------------------------------- MODULE DirTree -------------------------------
(* The directory's tree with paths of several levels: dir_find_node, add_node *)
(* and add_child of src/fsdird.c under a sequence of CREATE requests, one at  *)
(* a time.  Module Directory has the threads, and names of one level.         *)
(*                                                                            *)
(* A path is what stands between its slashes: "/a/b" is <<"a", "b">>, "/a/"   *)
(* is <<"a", "">>.  The shell puts a "/" before whatever name is entered.     *)
EXTENDS Naturals, SequencesExt, Tables

CONSTANTS
    Paths,          \* the paths of the requests
    MaxNodes        \* bound: nodes, the root included

Empty == ""

ASSUME PathsAssumption == Paths \subseteq Seq(STRING) \ {<<>>}
ASSUME MaxNodesAssumption == MaxNodes \in Nat \ {0}

Root == 1
NIL  == 0

VARIABLES
    nodes,          \* struct node: the name and the list of children
    made,           \* the paths whose CREATE succeeded, in order; the node of
                    \* the i-th is i + 1
    stray           \* those that went elsewhere than their path says

treevars == <<nodes, made, stray>>

Node(name) == [name |-> name, children |-> <<>>]

TreeInit ==
    /\ nodes = <<Node("/")>>
    /\ made = <<>>
    /\ stray = {}

-----------------------------------------------------------------------------
\* strtok takes a run of slashes for one, and ignores it at either end.
Levels(path) ==
    FlattenSeq([i \in 1..Len(path) |-> IF path[i] = Empty THEN <<>> ELSE <<path[i]>>])

\* What stands after the last slash; it may be nothing.
Name(path) == path[Len(path)]

\* Faulty: the last child of that name.
LastChildNamed(n, name) ==
    LET kids == nodes[n].children
        hits == {i \in 1..Len(kids) : nodes[kids[i]].name = name}
    IN  IF hits = {} THEN NIL ELSE kids[CHOOSE i \in hits : \A j \in hits : j <= i]

\* The first child of that name.
ChildNamed(n, name) ==
    LET kids == nodes[n].children
        hits == {i \in 1..Len(kids) : nodes[kids[i]].name = name}
    IN  IF hits = {} THEN NIL ELSE kids[Smallest(hits)]

\* dir_find_node: the node and its parent p after i levels.  Once a level is
\* not found n is NULL, p stays, and the loop ends.
Walk(levels) ==
    LET after[i \in 0..Len(levels)] ==
            IF i = 0 THEN [n |-> Root, p |-> Root]
            ELSE LET before == after[i - 1]
                     n == IF before.n = NIL THEN NIL ELSE ChildNamed(before.n, levels[i])
                 IN  [n |-> n, p |-> IF n = NIL THEN before.p ELSE n]
    IN  after

Found(levels) == Walk(levels)[Len(levels)]

FindExact(path)   == Found(Levels(path)).n
FindDeepest(path) == Found(Levels(path)).p

AddChild(tree, p, c) == [tree EXCEPT ![p].children = Append(@, c)]

\* Faulty: new nodes go below the root.
AddNodeAtRoot(path) ==
    AddChild(Append(nodes, Node(Name(path))), Root, Len(nodes) + 1)

\* The new node goes below the deepest node on its path that there is, which
\* is not the one its path says if a level is missing.
AddNode(path) ==
    AddChild(Append(nodes, Node(Name(path))), FindDeepest(path), Len(nodes) + 1)

\* create_file, for a path that does not exist.
Create(path) ==
    /\ Len(nodes) < MaxNodes
    /\ FindExact(path) = NIL
    /\ nodes' = AddNode(path)
    /\ made' = Append(made, Levels(path))
    /\ stray' = IF Name(path) # Empty /\ FindExact(SubSeq(path, 1, Len(path) - 1)) # NIL
                THEN stray ELSE stray \cup {Len(nodes) + 1}

TreeNext == \E path \in Paths : Create(path)

TreeSpec == TreeInit /\ [][TreeNext]_treevars

-----------------------------------------------------------------------------
(* Properties.                                                               *)

\* The names on the way from the root to a node.
Parent(n) == CHOOSE p \in 1..Len(nodes) : n \in Range(nodes[p].children)
PathTo ==
    LET path[n \in 1..Len(nodes)] ==
            IF n = Root THEN <<>> ELSE Append(path[Parent(n)], nodes[n].name)
    IN  path

\* dir_find_node finds the first node whose names from the root are the
\* levels of the path, and none exactly when there is no such node.
FindsByPath ==
    \A path \in Paths :
        LET there == {n \in 1..Len(nodes) : PathTo[n] = Levels(path)} IN
        IF there = {} THEN FindExact(path) = NIL
        ELSE FindExact(path) \in there /\ \A n \in there : FindExact(path) <= n

\* A file that was put where its path says is found by its path from then
\* on, whatever is created later, so it is created once.
CreatedIsFound ==
    \A i \in 1..Len(made) :
        i + 1 \notin stray => /\ FindExact(made[i]) = i + 1
                              /\ \A j \in (i + 1)..Len(made) : made[j] # made[i]

\* A path that nobody created exists only for a file that went astray.
FoundWasCreated ==
    \A path \in Paths :
        LET n == FindExact(path) IN
        n \notin {NIL, Root} /\ Levels(path) # made[n - 1] => n \in stray
==============================================================================
